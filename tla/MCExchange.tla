----------------------------- MODULE MCExchange -----------------------------
(* Small instances of what passes through one instance: the topics it      *)
(* serves, one whose owner holds its value and one whose owner reads       *)
(* first, the messages it delivers to one session, the harness's own route *)
(* for them, and the connection their frames go out on.                    *)
EXTENDS Topics, Sequences, TLC

CONSTANTS
  Sid, Client, SidOf,  \* the sessions of Delivery and their connections
  MaxHeld, MaxSends, MaxCrashes, MaxAged, NoOp, Line, Kind, Size,
  MAX_FRAME_BYTES, FRAME, NoLine,
  Dir,      \* the directories of Direct
  Off

VARIABLES
  machine,  \* the component this behaviour is one of
  up, crashes, standing, issued, counter, inbox, file, torn, aged, offer, op,
  sub, got, ever, strayed, said, left, line, buffer, discarding, chunk,
  identity, task, deferred, pending, taken, route, pc, dir, channel, from,
  watch, answer, inboxes, openingInDirect, bound, listening, closed, rebound,
  held, verdict

D == INSTANCE Delivery WITH Conn <- Client, Op <- Call, Failing <- FALSE

C == INSTANCE Connection

R == INSTANCE Direct WITH
  Send <- Call, None <- NoOp, opening <- openingInDirect

(* One component runs in a behaviour; the variables of Topics rest as they *)
(* began and those of the others hold nothing.                             *)
InitTopics ==
  /\ machine = "topics" /\ Init
  /\ up = Off /\ crashes = Off /\ standing = Off /\ issued = Off
  /\ counter = Off /\ inbox = Off /\ file = Off /\ torn = Off /\ aged = Off
  /\ offer = Off /\ op = Off /\ sub = Off /\ got = Off /\ ever = Off
  /\ strayed = Off /\ said = Off /\ left = Off /\ line = Off /\ buffer = Off
  /\ discarding = Off /\ chunk = Off /\ identity = Off /\ task = Off
  /\ deferred = Off /\ pending = Off /\ taken = Off /\ route = Off
  /\ pc = Off /\ dir = Off /\ channel = Off /\ from = Off /\ watch = Off
  /\ answer = Off /\ inboxes = Off /\ openingInDirect = Off /\ bound = Off
  /\ listening = Off /\ closed = Off /\ rebound = Off /\ held = Off
  /\ verdict = Off

OnlyTopics ==
  /\ machine = "topics"
  /\ UNCHANGED <<machine, up, crashes, standing, issued, counter, inbox,
                 file, torn, aged, offer, op, sub, got, ever, strayed, said,
                 left, line, buffer, discarding, chunk, identity, task,
                 deferred, pending, taken, route, pc, dir, channel, from,
                 watch, answer, inboxes, openingInDirect, bound, listening,
                 closed, rebound, held, verdict>>

InitDelivery ==
  /\ machine = "delivery" /\ D!Init /\ Init
  /\ \A t, u \in Topic : cur[t] = cur[u]
  /\ left = Off /\ line = Off /\ buffer = Off /\ discarding = Off
  /\ chunk = Off /\ identity = Off /\ task = Off /\ deferred = Off
  /\ pending = Off /\ taken = Off /\ route = Off /\ pc = Off /\ dir = Off
  /\ channel = Off /\ from = Off /\ watch = Off /\ answer = Off
  /\ inboxes = Off /\ openingInDirect = Off /\ bound = Off /\ listening = Off
  /\ closed = Off /\ rebound = Off /\ held = Off /\ verdict = Off

OnlyDelivery ==
  /\ machine = "delivery"
  /\ UNCHANGED <<machine, open, kept, subs, opening, call, runs, lastSent,
                 cur, pass, view, promised, stopping, left, line, buffer,
                 discarding, chunk, identity, task, deferred, pending, taken,
                 route, pc, dir, channel, from, watch, answer, inboxes,
                 openingInDirect, bound, listening, closed, rebound, held,
                 verdict>>

InitConnection ==
  /\ machine = "connection" /\ C!Init /\ Init
  /\ \A t, u \in Topic : cur[t] = cur[u]
  /\ crashes = Off /\ standing = Off /\ issued = Off /\ counter = Off
  /\ inbox = Off /\ file = Off /\ torn = Off /\ aged = Off /\ offer = Off
  /\ op = Off /\ sub = Off /\ got = Off /\ ever = Off /\ strayed = Off
  /\ said = Off /\ route = Off /\ pc = Off /\ dir = Off /\ channel = Off
  /\ from = Off /\ watch = Off /\ answer = Off /\ inboxes = Off
  /\ openingInDirect = Off /\ bound = Off /\ listening = Off /\ closed = Off
  /\ rebound = Off /\ held = Off /\ verdict = Off

OnlyConnection ==
  /\ machine = "connection"
  /\ UNCHANGED <<machine, open, kept, subs, opening, call, runs, lastSent,
                 cur, pass, view, promised, stopping, crashes, standing,
                 issued, counter, inbox, file, torn, aged, offer, op, sub,
                 got, ever, strayed, said, route, pc, dir, channel, from,
                 watch, answer, inboxes, openingInDirect, bound, listening,
                 closed, rebound, held, verdict>>

InitDirect ==
  /\ machine = "direct" /\ R!Init /\ Init
  /\ \A t, u \in Topic : cur[t] = cur[u]
  /\ up = Off /\ crashes = Off /\ standing = Off /\ issued = Off
  /\ counter = Off /\ inbox = Off /\ file = Off /\ torn = Off /\ aged = Off
  /\ offer = Off /\ op = Off /\ sub = Off /\ got = Off /\ ever = Off
  /\ strayed = Off /\ said = Off /\ left = Off /\ line = Off /\ buffer = Off
  /\ discarding = Off /\ chunk = Off /\ identity = Off /\ task = Off
  /\ deferred = Off /\ pending = Off /\ taken = Off

OnlyDirect ==
  /\ machine = "direct"
  /\ UNCHANGED <<machine, open, kept, subs, opening, call, runs, lastSent,
                 cur, pass, view, promised, stopping, up, crashes, standing,
                 issued, counter, inbox, file, torn, aged, offer, op, sub,
                 got, ever, strayed, said, left, line, buffer, discarding,
                 chunk, identity, task, deferred, pending, taken>>

MCInit == InitTopics \/ InitDelivery \/ InitConnection \/ InitDirect

MCNext ==
  \/ OnlyTopics /\ Next
  \/ OnlyDelivery /\ D!Next
  \/ OnlyConnection /\ C!Next
  \/ OnlyDirect /\ R!Next

MCvars == <<machine, open, kept, subs, opening, call, runs, lastSent, cur,
            pass, view, promised, stopping, up, crashes, standing, issued,
            counter, inbox, file, torn, aged, offer, op, sub, got, ever,
            strayed, said, left, line, buffer, discarding, chunk, identity,
            task, deferred, pending, taken, route, pc, dir, channel, from,
            watch, answer, inboxes, openingInDirect, bound, listening,
            closed, rebound, held, verdict>>

AllHear == Conn \X Topic

OneSession == [c \in Client |-> CHOOSE s \in Sid : TRUE]

(* The lines of the connection, by what they ask; one of them is long.     *)
Lines == {"hello", "follow", "barred", "long"}
KindOf == [l \in Lines |-> IF l = "long" THEN "open" ELSE l]
SizeOf == [l \in Lines |-> IF l = "long" THEN 2 ELSE 1]

(* Connections, requests and values are told apart by nothing else.        *)
Interchangeable ==
  Permutations(Conn) \cup Permutations(Call) \cup Permutations(Value)

MCSpec == MCInit /\ [][MCNext]_MCvars

-----------------------------------------------------------------------------
(* One message goes out on one route, the oldest of a session first, and   *)
(* what is stated delivered has reached it, whatever sends, offers and     *)
(* subscriptions interleave (Delivery.#claimed, #offering, #offer).        *)
DeliveredOnceInOrder ==
  machine = "delivery" =>
    D!AtMostOnce /\ D!OldestFirst /\ D!DeliveredHasArrived

(* The file, the memory and what a watcher has put together from the       *)
(* frames agree at every moment, within the limit and with no two mids     *)
(* alike, and a message its sender was told is held survives any kill of   *)
(* the process until it is handed over, dropped for a newer one or too old *)
(* (Inbox.hold, #append, lastCounter).                                     *)
InboxIsKept ==
  machine = "delivery" =>
    /\ D!FileIsMemory /\ D!ViewIsInbox /\ D!InboxBounded
    /\ D!HeldMidsDiffer /\ D!HeldIsDurable

(* A sender is told what became of the message it handed to the harness,   *)
(* and the receipt channels the sends share are listened on while the      *)
(* route is open and gone when it is closed (ClaudeCodeSocketRoute.send,   *)
(* #inbox, close).                                                         *)
DirectIsTrue ==
  machine = "direct" => R!AnswersAreTrue /\ R!ChannelsAreKept

Wire == INSTANCE LineWire WITH
  up <- machine = "connection" => up,
  owed <- IF machine = "connection"
          THEN [i \in 1..Len(pending) |-> pending[i].f] ELSE <<>>,
  taken <- IF machine = "connection" THEN taken ELSE <<>>

(* A connection keeps the promise of LineWire, through short writes and    *)
(* answers in any order: what it was handed arrives whole, once and in     *)
(* order (WriteQueue.drain, conn.send).                                    *)
WireIsLines == Wire!Spec

(* Nothing that needs a greeting is answered before the greeting is        *)
(* (settleIfHello).                                                        *)
GreetedFirst == machine = "connection" => C!GreetedFirst
=============================================================================
