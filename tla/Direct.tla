------------------------------- MODULE Direct -------------------------------
(***************************************************************************)
(* Route (a): a message handed to the harness itself (src/src/messaging/   *)
(* direct.ts).  For Claude Code a send writes to the session's own socket  *)
(* and watches a socket of this instance for word that it was turned away; *)
(* for Codex it is one run of a command.  Delivery sees only the answer.   *)
(*                                                                         *)
(* Sends run side by side and meet in the receipt channels, one for each   *)
(* directory sockets live in, which the first of them binds and the route  *)
(* closes.  Every await is a step of its own.  The clock is not modelled:  *)
(* the watch over a receipt and the budget of a write run out when they    *)
(* like, the watch from before the write begins.                           *)
(***************************************************************************)
EXTENDS FiniteSets

CONSTANTS
  Send,  \* sends; each is of one message, and names the channel it may open
  Dir,   \* directories sessions' sockets live in
  None   \* no send, no channel, no answer

VARIABLES
  route,      \* which of the three routes the config names
  pc, dir,    \* where each send is, and the directory of its target
  channel,    \* the opening a send awaits, then the channel it got
  from,       \* the channel its frames name
  watch,      \* what it knows of the receipt: none, open, over, or a status
  answer,
  inboxes,    \* #inboxes: the opening kept for each directory
  opening,    \* of each channel: none, binding, unbound, held or failed
  bound,      \* #bound
  listening,  \* the channels whose socket is bound
  closed,     \* #closed
  rebound,    \* whether a channel was bound again after the route let it go
  held,       \* the messages a harness holds whole
  verdict     \* what the session made of each: none, taken, or its word

sends == <<pc, dir, channel, from, watch, answer>>
channels == <<inboxes, opening, bound, listening, closed, rebound>>
vars == <<route, sends, channels, held, verdict>>

Answer == {"delivered", "unavailable", "refused"}

(* REFUSING, and any other word a receipt may carry.                       *)
REFUSING == {"refused"}
Status == REFUSING \cup {"other"}

Init ==
  /\ route \in {"disabled", "socket", "queue"}
  /\ pc = [s \in Send |-> "idle"]
  /\ dir = [s \in Send |-> None]
  /\ channel = [s \in Send |-> None]
  /\ from = [s \in Send |-> None]
  /\ watch = [s \in Send |-> "none"]
  /\ answer = [s \in Send |-> None]
  /\ inboxes = [d \in Dir |-> None]
  /\ opening = [s \in Send |-> "none"]
  /\ bound = {} /\ listening = {} /\ closed = FALSE /\ rebound = FALSE
  /\ held = {}
  /\ verdict = [s \in Send |-> "none"]

-----------------------------------------------------------------------------
(* A send *)

At(s, where) == pc[s] = where

Goes(s, where) == pc' = [pc EXCEPT ![s] = where] /\ UNCHANGED answer

Answers(s, a) ==
  /\ pc' = [pc EXCEPT ![s] = "done"]
  /\ answer' = [answer EXCEPT ![s] = a]

Begin(s) ==
  /\ At(s, "idle")
  /\ CASE route = "disabled" -> Answers(s, "unavailable")
       [] route = "queue" -> Goes(s, "running")
       [] route = "socket" -> Goes(s, "target")
  /\ UNCHANGED <<route, dir, channel, from, watch, channels, held, verdict>>

(* #target: the state file that names the session, read in its order.      *)
Target(s, d) ==
  /\ At(s, "target")
  /\ dir' = [dir EXCEPT ![s] = d]
  /\ Goes(s, "token")
  /\ UNCHANGED <<route, channel, from, watch, channels, held, verdict>>

(* #token: the key beside it.                                              *)
Token(s) ==
  /\ At(s, "token")
  /\ Goes(s, "inbox")
  /\ UNCHANGED <<route, dir, channel, from, watch, channels, held, verdict>>

(* #rows: no such file, one that cannot be read, another generation, or    *)
(* reads that did not end in time.                                         *)
Missing(s) ==
  /\ pc[s] \in {"target", "token"}
  /\ Answers(s, "unavailable")
  /\ UNCHANGED <<route, dir, channel, from, watch, channels, held, verdict>>

(* #inbox: the opening the directory already has, or one begun here.  The  *)
(* bind comes at once, and what waits is the mode of the socket.           *)
Inbox(s, binds) ==
  /\ At(s, "inbox")
  /\ Goes(s, "awaiting")
  /\ IF inboxes[dir[s]] # None
     THEN /\ channel' = [channel EXCEPT ![s] = inboxes[dir[s]]]
          /\ UNCHANGED <<inboxes, opening, listening>>
     ELSE /\ channel' = [channel EXCEPT ![s] = s]
          /\ inboxes' = [inboxes EXCEPT ![dir[s]] = s]
          /\ opening' = [opening EXCEPT ![s] = IF binds THEN "binding" ELSE "unbound"]
          /\ listening' = IF binds THEN listening \cup {s} ELSE listening
  /\ UNCHANGED <<route, dir, from, watch, bound, closed, rebound, held, verdict>>

(* A binding kept although the route was let go in the meantime.           *)
OpenedRegardless(c) ==
  /\ opening[c] = "binding"
  /\ opening' = [opening EXCEPT ![c] = "held"]
  /\ bound' = bound \cup {c}
  /\ UNCHANGED <<route, sends, inboxes, listening, closed, rebound, held, verdict>>

(* The opening ends: kept for the route to close, or closed by itself when *)
(* the route was let go in the meantime.                                   *)
Opened(c) ==
  /\ opening[c] \in {"binding", "unbound"}
  /\ IF opening[c] = "binding" /\ ~closed
     THEN /\ opening' = [opening EXCEPT ![c] = "held"]
          /\ bound' = bound \cup {c}
          /\ UNCHANGED listening
     ELSE /\ opening' = [opening EXCEPT ![c] = "failed"]
          /\ listening' = listening \ {c}
          /\ UNCHANGED bound
  /\ UNCHANGED <<route, sends, inboxes, closed, rebound, held, verdict>>

(* #inbox answers.  Nothing bound is not remembered, and whoever began the *)
(* opening forgets it.                                                     *)
GetsInbox(s) ==
  LET c == channel[s]
      none == opening[c] = "failed"
  IN  /\ At(s, "awaiting")
      /\ opening[c] \in {"failed", "held"}
      /\ Goes(s, "address")
      /\ channel' = [channel EXCEPT ![s] = IF none THEN None ELSE c]
      /\ inboxes' = IF none /\ c = s /\ inboxes[dir[s]] = s
                    THEN [inboxes EXCEPT ![dir[s]] = None] ELSE inboxes
      /\ UNCHANGED <<route, dir, from, watch, answer, opening, bound, listening, closed,
                     rebound, held, verdict>>

(* address, and the watch begun.  A channel the route closed since is      *)
(* bound again, and nothing is left that would close it.                   *)
Address(s, binds) ==
  LET c == channel[s]
  IN  /\ At(s, "address")
      /\ Goes(s, "writing")
      /\ IF c = None THEN UNCHANGED <<from, watch, listening, rebound>>
         ELSE /\ watch' = [watch EXCEPT ![s] = "open"]
              /\ from' = [from EXCEPT ![s] = IF c \in listening \/ binds THEN c ELSE None]
              /\ listening' = IF binds THEN listening \cup {c} ELSE listening
              /\ rebound' = (rebound \/ (c \notin listening /\ binds))
      /\ UNCHANGED <<route, dir, channel, answer, inboxes, opening, bound, closed, held,
                     verdict>>

(* write: the last byte left, inside the budget or after it, when the      *)
(* harness holds what the caller is told did not go this way.              *)
Flushed(s, late) ==
  /\ At(s, "writing")
  /\ held' = held \cup {s}
  /\ IF late THEN Answers(s, "unavailable") ELSE Goes(s, "written")
  /\ UNCHANGED <<route, dir, channel, from, watch, channels, verdict>>

(* No socket there, an error, an end before the last byte, or the budget.  *)
WriteFails(s) ==
  /\ At(s, "writing")
  /\ Answers(s, "unavailable")
  /\ UNCHANGED <<route, dir, channel, from, watch, channels, held, verdict>>

(* status gives up, whether or not the message has been written by then.   *)
WindowCloses(s) ==
  /\ watch[s] = "open"
  /\ watch' = [watch EXCEPT ![s] = "over"]
  /\ UNCHANGED <<route, pc, dir, channel, from, answer, channels, held, verdict>>

(* send answers: refusal if the session says so in time, and delivery if   *)
(* it says nothing.                                                        *)
Settles(s) ==
  /\ At(s, "written")
  /\ watch[s] # "open"
  /\ Answers(s, IF watch[s] \in REFUSING THEN "refused" ELSE "delivered")
  /\ UNCHANGED <<route, dir, channel, from, watch, channels, held, verdict>>

(* #read and #line: a receipt names the message it answers and those lost  *)
(* beside it; each is told to whoever watches in this channel for it.      *)
Receipt(c, ms, status) ==
  watch' = [s \in Send |-> IF s \in ms /\ channel[s] = c /\ watch[s] = "open"
                           THEN status ELSE watch[s]]

(* The session decides on a message it holds.  It says nothing of one it   *)
(* takes; what it turns away, with any others it shed, is told to the      *)
(* address the message named, if that still listens.                       *)
Takes(s) ==
  /\ s \in held /\ verdict[s] = "none"
  /\ verdict' = [verdict EXCEPT ![s] = "taken"]
  /\ UNCHANGED <<route, sends, channels, held>>

Refuses(s, ms, status) ==
  /\ s \in ms /\ ms \subseteq held
  /\ \A m \in ms : verdict[m] = "none" /\ dir[m] = dir[s]
  /\ verdict' = [m \in Send |-> IF m \in ms THEN status ELSE verdict[m]]
  /\ IF from[s] \in listening THEN Receipt(from[s], ms, status) ELSE UNCHANGED watch
  /\ UNCHANGED <<route, pc, dir, channel, from, answer, channels, held>>

-----------------------------------------------------------------------------
(* The other harness: one run of codex queue.                              *)

Queues(s) ==
  /\ At(s, "running") /\ s \notin held
  /\ held' = held \cup {s}
  /\ UNCHANGED <<route, sends, channels, verdict>>

(* The run ends, or is killed for taking too long.                         *)
Exits(s, code) ==
  /\ At(s, "running")
  /\ code = 0 => s \in held
  /\ Answers(s, IF code = 0 THEN "delivered" ELSE "unavailable")
  /\ UNCHANGED <<route, dir, channel, from, watch, channels, held, verdict>>

-----------------------------------------------------------------------------
(* close: what is bound goes now.  What is still being bound closes itself. *)
Close ==
  /\ ~closed
  /\ closed' = TRUE
  /\ listening' = listening \ bound
  /\ bound' = {}
  /\ inboxes' = [d \in Dir |-> None]
  /\ UNCHANGED <<route, sends, opening, rebound, held, verdict>>

Next ==
  \/ \E s \in Send :
       \/ Begin(s) \/ Token(s) \/ Missing(s)
       \/ \E d \in Dir : Target(s, d)
       \/ \E b \in BOOLEAN : Inbox(s, b) \/ Address(s, b) \/ Flushed(s, b)
       \/ Opened(s) \/ GetsInbox(s)
       \/ WriteFails(s) \/ WindowCloses(s) \/ Settles(s)
       \/ Takes(s) \/ Queues(s)
       \/ \E ms \in SUBSET Send, st \in Status : Refuses(s, ms, st)
       \/ \E code \in {0, 1} : Exits(s, code)
  \/ Close

Spec == Init /\ [][Next]_vars

-----------------------------------------------------------------------------
(* Properties *)

(* What the sender is told is so: a message answered delivered is held     *)
(* whole by the harness, and one answered refused was turned away by the   *)
(* session it went to, not by a receipt about another's.                   *)
AnswersAreTrue ==
  \A s \in Send : /\ answer[s] = "delivered" => s \in held
                  /\ answer[s] = "refused" => verdict[s] \in REFUSING

(* The address a message names is listened on for as long as the route is  *)
(* open, whichever send bound it, and no channel outlives the route, even  *)
(* one still being bound as it was closed.  Left out is a channel a send   *)
(* binds again when the route is closed between its getting the channel    *)
(* and its asking for the address.                                         *)
ChannelsAreKept ==
  /\ \A s \in Send : from[s] # None /\ ~closed => from[s] \in listening
  /\ \A c \in listening : opening[c] = "binding" \/ (c \in bound /\ ~closed) \/ rebound
=============================================================================
