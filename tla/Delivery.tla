------------------------------ MODULE Delivery ------------------------------
(***************************************************************************)
(* How a message reaches a session, and the inbox it waits in when it      *)
(* cannot (src/src/messaging/delivery.ts and inbox.ts).  Several           *)
(* message.send requests, the offers of what is held, subscriptions to the *)
(* inbox topic, expiry, the chain of appends to inbox.jsonl, and a process *)
(* that may be killed at any moment and started again on the same file.    *)
(*                                                                         *)
(* An action is one uninterrupted run of the event loop.  A message is its *)
(* place in the order of issue; what the code calls its mid is             *)
(* issued[message], the counter of the run that issued it.  Route (a)      *)
(* (src/src/messaging/direct.ts) appears through its three answers.        *)
(*                                                                         *)
(* Variants of a definition that carry a plausible fault stand just before *)
(* it; no specification uses them.                                         *)
(***************************************************************************)
EXTENDS Integers, FiniteSets, Sequences, SequencesExt

CONSTANTS
  Sid,        \* sessions
  Conn,       \* the sessions' connections
  SidOf,      \* the session each connection greeted as
  Op,         \* the message.send requests that may be in flight at once
  MaxHeld,    \* INBOX_MAX_PER_SID
  MaxSends,   \* bound: messages issued over the whole behaviour
  MaxCrashes, \* bound: times the process is killed
  MaxAged,    \* bound: messages that outlive the retention window
  Failing,    \* whether appends fail and messages stray: see strayed
  NoOp        \* an offer no request waits on

ASSUME DeliveryAssumption ==
  /\ SidOf \in [Conn -> Sid]
  /\ MaxHeld \in Nat \ {0} /\ MaxSends \in Nat /\ MaxCrashes \in Nat
  /\ MaxAged \in Nat
  /\ Failing \in BOOLEAN
  /\ IsFiniteSet(Sid) /\ IsFiniteSet(Op)
  /\ {NoOp, "offer", "none"} \cap Op = {} /\ NoOp \notin {"offer", "none"}

VARIABLES
  up,       \* whether the process is there
  crashes,  \* how often it was killed
  standing, \* where each session stands, as the sessions domain says
  issued,   \* the mids issued, in order: message n carries issued[n]
  counter,  \* Delivery.#counter
  inbox,    \* the Inbox and what it owes: see InboxState
  file,     \* inbox.jsonl: the lines on disk
  torn,     \* whether it ends in part of a line, without its newline
  aged,     \* the messages past the retention window are the first `aged`
  offer,    \* Delivery.#offering and #claimed: the offer of each session
  op,       \* the message.send requests in flight
  sub,      \* the connections subscribed to the inbox topic
  got,      \* how often each message was handed over since the last start:
            \* 2 is more than once
  ever,     \* the messages handed over at least once
  strayed,  \* the messages the code loses or repeats unawares: carried after
            \* the deadline, taken by some connections, by none at all, or
            \* written behind part of a line
  said      \* what each message's sender was answered

vars == <<up, crashes, standing, issued, counter, inbox, file, torn, aged, offer,
          op, sub, got, ever, strayed, said>>

Message == 1..MaxSends

(* Where a session stands: alive; gone (paused, disappeared), which may be *)
(* sent to and is offered nothing; or one a send is refused for, run by    *)
(* two processes or without a row here.                                    *)
Standing == {"alive", "gone", "refusing"}

(* A line of the file, and one still owed to it: `by` names the request    *)
(* that waits for it, "offer" for the session's offer, "none" for nobody.  *)
InboxLine == [v : {"add", "delivered", "dropped"}, sid : Sid, msg : Message]

Owed == [v : {"add", "delivered", "dropped"}, sid : Sid, msg : Message,
         by : Op \cup {"offer", "none"}]

(* held is Inbox.#held and queue the chain of Inbox.#written.  view is     *)
(* what somebody watching the topic from outside has put together from the *)
(* frames, told the removals ever stated, with their reasons, and evicted  *)
(* the messages ever dropped for a newer one.                              *)
InboxState == [held : [Sid -> Seq(Message)], queue : Seq(Owed),
               view : SUBSET Message, evicted : SUBSET Message,
               told : SUBSET (Message \X {"delivered", "expired", "dropped"})]

(* rest is what the offer still has to hand over, its head being sent, or  *)
(* with writing its delivery being written down; empty when none runs.     *)
Offer == [rest : Seq(Message), writing : BOOLEAN, by : Op \cup {NoOp}]

NoOffer == [rest |-> <<>>, writing |-> FALSE, by |-> NoOp]

Request == [pc : {"direct", "adding", "dropping", "offering"},
            sid : Sid, msg : Message]

Free == [pc |-> "free"]

TypeOK ==
  /\ up \in BOOLEAN
  /\ crashes \in 0..MaxCrashes
  /\ standing \in [Sid -> Standing]
  /\ issued \in Seq(Nat) /\ Len(issued) <= MaxSends
  /\ counter \in Nat
  /\ inbox \in InboxState
  /\ file \in Seq(InboxLine) /\ torn \in BOOLEAN
  /\ aged \in 0..MaxSends
  /\ offer \in [Sid -> Offer]
  /\ op \in [Op -> Request \cup {Free}]
  /\ sub \subseteq Conn
  /\ got \in [Message -> 0..2]
  /\ ever \subseteq Message /\ strayed \subseteq Message
  /\ said \in [Message -> {"nothing", "delivered", "held", "failed"}]

EmptyInbox == [held |-> [s \in Sid |-> <<>>], queue |-> <<>>, view |-> {},
               evicted |-> {}, told |-> {}]

Init ==
  /\ up = TRUE
  /\ crashes = 0
  /\ standing \in [Sid -> Standing]
  /\ issued = <<>>
  /\ counter = 0
  /\ inbox = EmptyInbox
  /\ file = <<>> /\ torn = FALSE
  /\ aged = 0
  /\ offer = [s \in Sid |-> NoOffer]
  /\ op = [o \in Op |-> Free]
  /\ sub = {}
  /\ got = [m \in Message |-> 0]
  /\ ever = {} /\ strayed = {}
  /\ said = [m \in Message |-> "nothing"]

-----------------------------------------------------------------------------
(* The inbox, as functions on its state b.                                 *)

(* What of s is in K, in the order of s.                                   *)
Only(s, K) ==
  LET upTo[i \in 0..Len(s)] ==
        IF i = 0 THEN <<>>
        ELSE IF s[i] \in K THEN Append(upTo[i - 1], s[i]) ELSE upTo[i - 1]
  IN  upTo[Len(s)]

(* A message leaves by its mid.                                            *)
Without(ms, gone) ==
  Only(ms, {m \in ToSet(ms) : \A g \in gone : issued[m] # issued[g]})

(* #expire for the sessions S: nothing is appended, the watchers are told. *)
Expire(b, S) ==
  LET old == [s \in S |-> {m \in ToSet(b.held[s]) : m <= aged}]
      gone == UNION {old[s] : s \in S}
  IN  [b EXCEPT !.held = [s \in Sid |-> IF s \in S THEN Without(b.held[s], old[s])
                                        ELSE b.held[s]],
                !.view = @ \ gone,
                !.told = @ \cup (gone \X {"expired"})]

(* delivered(): the messages ms leave memory at once and the lines saying  *)
(* so go to the end of the chain.  Nothing happens for a session holding   *)
(* nothing.                                                                *)
DeliveredFirst(b, s, ms, by) ==
  IF b.held[s] = <<>> \/ ms = <<>> THEN b
  ELSE [b EXCEPT
         !.held[s] = Without(@, ToSet(ms)),
         !.queue = [i \in DOMAIN ms |->
                      [v |-> "delivered", sid |-> s, msg |-> ms[i], by |-> by]] \o @,
         !.view = @ \ ToSet(ms),
         !.told = @ \cup (ToSet(ms) \X {"delivered"})]

Delivered(b, s, ms, by) ==
  IF b.held[s] = <<>> \/ ms = <<>> THEN b
  ELSE [b EXCEPT
         !.held[s] = Without(@, ToSet(ms)),
         !.queue = @ \o [i \in DOMAIN ms |->
                           [v |-> "delivered", sid |-> s, msg |-> ms[i], by |-> by]],
         !.view = @ \ ToSet(ms),
         !.told = @ \cup (ToSet(ms) \X {"delivered"})]

HoldUnstated(b, s, m, o) ==
  LET e == Expire(b, {s})
  IN  [e EXCEPT !.held[s] = Append(@, m),
                !.queue = Append(@, [v |-> "add", sid |-> s, msg |-> m, by |-> o])]

(* #hold up to its first await: the watchers are told, the message is in   *)
(* memory and its line is owed.                                            *)
Hold(b, s, m, o) ==
  LET e == Expire([b EXCEPT !.view = @ \cup {m}], {s})
  IN  [e EXCEPT !.held[s] = Append(@, m),
                !.queue = Append(@, [v |-> "add", sid |-> s, msg |-> m, by |-> o])]

(* What #replay makes of one line, and load of the file.                   *)
Replayed(h, line) ==
  IF line.v = "add" THEN [h EXCEPT ![line.sid] = Append(@, line.msg)]
  ELSE [h EXCEPT ![line.sid] = Without(@, {line.msg})]

Replay(lines) ==
  LET upTo[i \in 0..Len(lines)] ==
        IF i = 0 THEN EmptyInbox.held ELSE Replayed(upTo[i - 1], lines[i])
  IN  upTo[Len(lines)]

Unexpired(ms) == Only(ms, {m \in Message : m > aged})

CompactedAway(held) == <<>>

(* #compact: what is held, written back whole.                             *)
Compacted(held) ==
  LET order == SetToSeq(Sid)
      upTo[i \in 0..Len(order)] ==
        IF i = 0 THEN <<>>
        ELSE upTo[i - 1] \o [k \in DOMAIN held[order[i]] |->
                               [v |-> "add", sid |-> order[i], msg |-> held[order[i]][k]]]
  IN  upTo[Len(order)]

LastCounterZero(ms) == 0

LastCounterNone(ms) == Max({issued[m] : m \in ms} \cup {-1})

(* lastCounter: the highest mid among the messages ms, which are the held. *)
LastCounter(ms) == Max({issued[m] : m \in ms} \cup {0})

-----------------------------------------------------------------------------
(* Offers.  Held messages are claimed, and handed over one at a time.      *)

Offering(s) == offer[s].rest # <<>>

NothingClaimed(s) == {}

Claimed(s) ==
  IF ~Offering(s) THEN {}
  ELSE ToSet(IF offer[s].writing THEN Tail(offer[s].rest) ELSE offer[s].rest)

(* #offer up to its first await, for the sessions S, on behalf of `by`.    *)
(* One is skipped while an offer for it runs, or when nothing is held.     *)
OfferedInbox(b, S) == Expire(b, {s \in S : ~Offering(s)})

OfferedNewestFirst(b, S, by) ==
  [s \in Sid |-> IF s \in S /\ ~Offering(s) /\ b.held[s] # <<>>
                 THEN [rest |-> Reverse(b.held[s]), writing |-> FALSE, by |-> by]
                 ELSE offer[s]]

Offered(b, S, by) ==
  [s \in Sid |-> IF s \in S /\ ~Offering(s) /\ b.held[s] # <<>>
                 THEN [rest |-> b.held[s], writing |-> FALSE, by |-> by]
                 ELSE offer[s]]

HandAll(ms) == /\ got' = [m \in Message |-> IF m \in ms /\ got[m] < 2 THEN got[m] + 1 ELSE got[m]]
               /\ ever' = ever \cup ms

Hand(m) == HandAll({m})

HandNothing == UNCHANGED <<got, ever>>

(* A message is handed over and goes on as one that was not: held, and so  *)
(* handed over again.                                                      *)
Stray(m) == Hand(m) /\ strayed' = strayed \cup {m}

(* What route (a) did with a message it answers it did not carry: nothing, *)
(* or it reached the session after the deadline had passed.                *)
MaybeStray(m) == \/ HandNothing /\ UNCHANGED strayed
                 \/ Failing /\ Stray(m)

Answer(o, a) == /\ op' = [op EXCEPT ![o] = Free]
                /\ said' = [said EXCEPT ![op[o].msg] = a]

EndOfferSilent(s, a) ==
  /\ offer' = [offer EXCEPT ![s] = NoOffer]
  /\ UNCHANGED <<op, said>>

(* The end of a session's offer, and with it of the request that ran it.   *)
EndOffer(s, a) ==
  /\ offer' = [offer EXCEPT ![s] = NoOffer]
  /\ IF offer[s].by = NoOp THEN UNCHANGED <<op, said>> ELSE Answer(offer[s].by, a)

(* The offer moves to its next message, or ends.                           *)
NextOffer(s) ==
  IF Len(offer[s].rest) = 1 THEN EndOffer(s, "delivered")
  ELSE /\ offer' = [offer EXCEPT ![s].rest = Tail(@), ![s].writing = FALSE]
       /\ UNCHANGED <<op, said>>

(* The head of an offer was carried: it leaves the inbox, and the offer    *)
(* waits for the line saying so (or not, when nothing is held any more).   *)
OfferCarried(s) ==
  /\ up
  /\ Offering(s) /\ ~offer[s].writing
  /\ LET m == Head(offer[s].rest)
     IN  /\ Hand(m)
         /\ inbox' = Delivered(inbox, s, <<m>>, "offer")
         /\ IF inbox.held[s] = <<>>
            THEN NextOffer(s)
            ELSE /\ offer' = [offer EXCEPT ![s].writing = TRUE]
                 /\ UNCHANGED <<op, said>>
  /\ UNCHANGED <<up, crashes, standing, issued, counter, file, torn, aged, sub,
                 strayed>>

OfferTakenAsCarried(s) ==
  /\ up
  /\ Offering(s) /\ ~offer[s].writing
  /\ inbox' = Delivered(inbox, s, <<Head(offer[s].rest)>>, "none")
  /\ EndOffer(s, "delivered")
  /\ UNCHANGED <<up, crashes, standing, issued, counter, file, torn, aged, sub, got,
                 ever, strayed>>

(* It was not: the rest stay held, for the next time.                      *)
OfferStopped(s) ==
  /\ up
  /\ Offering(s) /\ ~offer[s].writing
  /\ MaybeStray(Head(offer[s].rest))
  /\ EndOffer(s, "delivered")
  /\ UNCHANGED <<up, crashes, standing, issued, counter, inbox, file, torn, aged,
                 sub>>

(* The sessions domain says something changed: session s now stands at st, *)
(* and retry offers what is held to every session that is alive.           *)
Changed(s, st) ==
  /\ up
  /\ standing' = [standing EXCEPT ![s] = st]
  /\ LET live == {t \in Sid : inbox.held[t] # <<>> /\ standing'[t] = "alive"}
     IN  /\ inbox' = OfferedInbox(inbox, live)
         /\ offer' = Offered(inbox', live, NoOp)
  /\ UNCHANGED <<up, crashes, issued, counter, file, torn, aged, op, sub, got, ever,
                 said, strayed>>

-----------------------------------------------------------------------------
(* message.send, from the end of its read of the sessions.  One for a      *)
(* session that is refusing is answered, here or by the instance that has  *)
(* it, with nothing changed.                                               *)
Send(o, s) ==
  /\ up
  /\ op[o] = Free
  /\ standing[s] \in {"alive", "gone"}
  /\ Len(issued) < MaxSends
  /\ counter' = counter + 1
  /\ issued' = Append(issued, counter + 1)
  /\ op' = [op EXCEPT ![o] = [pc |-> "direct", sid |-> s, msg |-> Len(issued) + 1]]
  /\ UNCHANGED <<up, crashes, standing, inbox, file, torn, aged, offer, sub, got,
                 ever, said, strayed>>

At(o, pc) == up /\ op[o].pc = pc

StartHold(o) ==
  /\ inbox' = Hold(inbox, op[o].sid, op[o].msg, o)
  /\ op' = [op EXCEPT ![o].pc = "adding"]
  /\ UNCHANGED <<offer, said>>

(* Route (a) carried the message: what is held is offered on it as well,   *)
(* and the request waits for that offer when it is the one that runs it.   *)
Carried(o) ==
  /\ At(o, "direct")
  /\ Hand(op[o].msg)
  /\ LET s == op[o].sid
     IN  /\ inbox' = OfferedInbox(inbox, {s})
         /\ offer' = Offered(inbox', {s}, o)
         /\ IF offer' = offer
            THEN Answer(o, "delivered")
            ELSE op' = [op EXCEPT ![o].pc = "offering"] /\ UNCHANGED said
  /\ UNCHANGED <<up, crashes, standing, issued, counter, file, torn, aged, sub,
                 strayed>>

Refused(o) ==
  /\ At(o, "direct")
  /\ MaybeStray(op[o].msg)
  /\ StartHold(o)
  /\ UNCHANGED <<up, crashes, standing, issued, counter, file, torn, aged, sub>>

Listeners(s) == {c \in sub : SidOf[c] = s}

(* Route (a) does not apply: the message is published to the session's     *)
(* connections, of which the ones in `full` refuse the frame, or held when *)
(* none listens or any refused.                                            *)
Unavailable(o, full) ==
  LET m == op[o].msg
      listeners == Listeners(op[o].sid)
  IN  /\ At(o, "direct")
      /\ full \subseteq listeners
      /\ IF listeners # {} /\ full = {}
         THEN /\ Hand(m) /\ UNCHANGED strayed
              /\ inbox' = [inbox EXCEPT !.told = @ \cup {<<m, "delivered">>}]
              /\ Answer(o, "delivered")
              /\ UNCHANGED offer
         ELSE /\ IF full # listeners THEN Stray(m) ELSE MaybeStray(m)
              /\ StartHold(o)
      /\ UNCHANGED <<up, crashes, standing, issued, counter, file, torn, aged, sub>>

-----------------------------------------------------------------------------
OverLimitNever(s) == FALSE

OverLimit(s) == Len(inbox.held[s]) > MaxHeld

(* What follows the append a request waited for.  The list is read again   *)
(* after the await; over the limit, its oldest goes.                       *)
Evict(o) ==
  LET s == op[o].sid
      oldest == Head(inbox.held[s])
  IN  IF ~OverLimit(s)
      THEN /\ Answer(o, "held")
           /\ inbox' = [inbox EXCEPT !.queue = Tail(@)]
      ELSE /\ inbox' = [inbox EXCEPT
                          !.held[s] = Tail(@),
                          !.evicted = @ \cup {oldest},
                          !.queue = Append(Tail(@), [v |-> "dropped", sid |-> s,
                                                     msg |-> oldest, by |-> o])]
           /\ op' = [op EXCEPT ![o].pc = "dropping"]
           /\ UNCHANGED said

LineOf(owed) == [v |-> owed.v, sid |-> owed.sid, msg |-> owed.msg]

(* The line at the head of the chain is on disk, and whoever waited for it *)
(* goes on.  Behind part of a line it is part of that one, which load does *)
(* not read.                                                               *)
Landed ==
  /\ up
  /\ inbox.queue # <<>>
  /\ LET owed == Head(inbox.queue)
         behind == [inbox EXCEPT !.queue = Tail(@)]
     IN  /\ file' = IF torn THEN file ELSE Append(file, LineOf(owed))
         /\ strayed' = IF torn THEN strayed \cup {owed.msg} ELSE strayed
         /\ torn' = FALSE
         /\ \/ /\ owed.v = "add"
               /\ Evict(owed.by)
               /\ UNCHANGED offer
            \/ /\ owed.v = "dropped"
               /\ inbox' = [behind EXCEPT !.view = @ \ {owed.msg},
                                          !.told = @ \cup {<<owed.msg, "dropped">>}]
               /\ Answer(owed.by, "held")
               /\ UNCHANGED offer
            \/ /\ owed.v = "delivered"
               /\ inbox' = behind
               /\ IF owed.by = "offer" THEN NextOffer(owed.sid)
                  ELSE UNCHANGED <<offer, op, said>>
  /\ UNCHANGED <<up, crashes, standing, issued, counter, aged, sub, got, ever>>

AppendSwallowed ==
  /\ Failing /\ up /\ inbox.queue # <<>>
  /\ Head(inbox.queue).v \in {"add", "dropped"}
  /\ Answer(Head(inbox.queue).by, "held")
  /\ inbox' = [inbox EXCEPT !.queue = Tail(@)]
  /\ UNCHANGED <<up, crashes, standing, issued, counter, file, torn, aged, offer, sub,
                 got, ever, strayed>>

(* The line could not be written, and whoever waited for it fails.  What   *)
(* memory holds stays as it was; a disk that filled up has part of it.     *)
AppendFails ==
  /\ Failing
  /\ up
  /\ inbox.queue # <<>>
  /\ LET owed == Head(inbox.queue)
     IN  \/ /\ owed.v \in {"add", "dropped"}
            /\ Answer(owed.by, "failed")
            /\ UNCHANGED offer
         \/ /\ owed.by = "offer"
            /\ EndOffer(owed.sid, "failed")
         \/ /\ owed.by = "none"
            /\ UNCHANGED <<offer, op, said>>
  /\ inbox' = [inbox EXCEPT !.queue = Tail(@)]
  /\ torn' \in {torn, TRUE}
  /\ UNCHANGED <<up, crashes, standing, issued, counter, file, aged, sub, got, ever,
                 strayed>>

-----------------------------------------------------------------------------
(* The inbox topic.  A session's subscription takes what is held and not   *)
(* claimed out of the inbox, and the opening frame carries it.  With an    *)
(* unsubscribe behind it in the same chunk the subscription is gone before *)
(* the opening frame would go, and Topics.subscribe sends none.            *)
Subscribe(c, leaves) ==
  LET s == SidOf[c]
      expired == Expire(inbox, {s})
      taken == Only(expired.held[s], Message \ Claimed(s))
  IN  /\ up
      /\ leaves => Failing
      /\ inbox' = Delivered(expired, s, taken, "none")
      /\ sub' = IF leaves THEN sub \ {c} ELSE sub \cup {c}
      /\ IF leaves THEN HandNothing /\ strayed' = strayed \cup ToSet(taken)
         ELSE /\ UNCHANGED strayed
              /\ HandAll(ToSet(taken))
      /\ UNCHANGED <<up, crashes, standing, issued, counter, file, torn, aged, offer,
                     op, said>>

(* topic.unsubscribe, or the connection closing.                           *)
Unsubscribe(c) ==
  /\ up
  /\ c \in sub
  /\ sub' = sub \ {c}
  /\ UNCHANGED <<up, crashes, standing, issued, counter, inbox, file, torn, aged,
                 offer, op, got, ever, said, strayed>>

(* A person subscribes: every row is read, which expires what is old, and  *)
(* nothing else leaves.                                                    *)
Watch ==
  /\ up
  /\ inbox' = Expire(inbox, Sid)
  /\ UNCHANGED <<up, crashes, standing, issued, counter, file, torn, aged, offer, op,
                 sub, got, ever, said, strayed>>

(* Time passes: the oldest message not yet past the window now is.         *)
Age ==
  /\ aged < Len(issued) /\ aged < MaxAged
  /\ aged' = aged + 1
  /\ UNCHANGED <<up, crashes, standing, issued, counter, inbox, file, torn, offer, op,
                 sub, got, ever, said, strayed>>

-----------------------------------------------------------------------------
(* The process is killed.  The line being written may be on disk or not (a *)
(* torn one is skipped by load, so it counts as not); everything else in   *)
(* memory is gone, the connections with it.                                *)
Crash ==
  /\ up
  /\ crashes < MaxCrashes
  /\ crashes' = crashes + 1
  /\ up' = FALSE
  /\ \/ UNCHANGED file
     \/ inbox.queue # <<>> /\ ~torn /\ file' = Append(file, LineOf(Head(inbox.queue)))
  /\ inbox' = [EmptyInbox EXCEPT !.told = inbox.told, !.evicted = inbox.evicted]
  /\ counter' = 0
  /\ offer' = [s \in Sid |-> NoOffer]
  /\ op' = [o \in Op |-> Free]
  /\ sub' = {}
  /\ got' = [m \in Message |-> 0]
  /\ UNCHANGED <<torn, standing, issued, aged, ever, said, strayed>>

(* load, and the Delivery built on it: the file is replayed, what is old   *)
(* dropped, the rest written back whole, and the counter set to the        *)
(* highest mid held.                                                       *)
Restart ==
  /\ ~up
  /\ up' = TRUE
  /\ LET held == [s \in Sid |-> Unexpired(Replay(file)[s])]
         all == UNION {ToSet(held[s]) : s \in Sid}
     IN  /\ inbox' = [inbox EXCEPT !.held = held, !.view = all]
         /\ file' = Compacted(held) /\ torn' = FALSE
         /\ counter' = LastCounter(all)
  /\ UNCHANGED <<crashes, standing, issued, aged, offer, op, sub, got, ever, said,
                 strayed>>

Next ==
  \/ \E o \in Op, s \in Sid : Send(o, s)
  \/ \E o \in Op : Carried(o) \/ Refused(o)
  \/ \E o \in Op, full \in SUBSET Conn : Unavailable(o, full)
  \/ \E s \in Sid : OfferCarried(s) \/ OfferStopped(s)
  \/ \E s \in Sid, st \in Standing : Changed(s, st)
  \/ Landed
  \/ AppendFails
  \/ \E c \in Conn, leaves \in BOOLEAN : Subscribe(c, leaves)
  \/ \E c \in Conn : Unsubscribe(c)
  \/ Watch
  \/ Age
  \/ Crash
  \/ Restart

Spec == Init /\ [][Next]_vars

(* Route (a) answers every send within its three deadlines, and a line     *)
(* owed to the file is written or fails.                                   *)
Fairness ==
  /\ \A o \in Op :
       WF_vars(Carried(o) \/ Refused(o) \/ \E full \in SUBSET Conn : Unavailable(o, full))
  /\ \A s \in Sid : WF_vars(OfferCarried(s) \/ OfferStopped(s))
  /\ WF_vars(Landed \/ AppendFails)

FairSpec == Spec /\ Fairness

-----------------------------------------------------------------------------
(* One message goes out on one route: while the process lives, no message  *)
(* is handed to its session twice, by any interleaving of sends, offers    *)
(* and subscriptions (Delivery.#claimed, #offering), but one that strayed. *)
AtMostOnce == \A m \in Message \ strayed : got[m] <= 1

(* A message its sender was told is held is in the file, and stays there   *)
(* until it is handed over, dropped for a newer one or too old: killing    *)
(* the process at any moment, or any line failing to be written, loses     *)
(* none ("it is not held until the line is on disk", Inbox.hold), but the  *)
(* ones that strayed.                                                      *)
HeldIsDurable ==
  \A m \in Message :
    said[m] = "held" =>
      \/ m \in ever
      \/ m <= aged
      \/ m \in inbox.evicted
      \/ m \in strayed
      \/ \E s \in Sid : m \in ToSet(Replay(file)[s])

(* The chain keeps the file in the order the verbs happened: replaying     *)
(* what is on disk and what is owed to it gives what memory holds, in the  *)
(* same order, but for what is too old (Inbox.#append).                    *)
FileIsMemory ==
  up => \A s \in Sid :
          Unexpired(Replay(file \o inbox.queue)[s]) = Unexpired(inbox.held[s])

(* A session is offered its oldest message first: the one an offer is      *)
(* sending, if still held, is the head of what is held (Delivery.#offer).  *)
OldestFirst ==
  \A s \in Sid :
    LET m == Head(offer[s].rest)
    IN  Offering(s) /\ ~offer[s].writing /\ m \in ToSet(inbox.held[s])
          => m = Head(inbox.held[s])

(* What somebody watching has put together from the frames alone is what   *)
(* is held, and at most a message being dropped until its line is written  *)
(* ("every way out of the inbox is stated to the watchers", Delivery).     *)
ViewIsInbox ==
  LET waiting == UNION {ToSet(inbox.held[s]) : s \in Sid}
      dropping == {inbox.queue[i].msg : i \in {j \in DOMAIN inbox.queue :
                                                inbox.queue[j].v = "dropped"}}
  IN  waiting \subseteq inbox.view /\ inbox.view \subseteq waiting \cup dropping

(* An inbox exceeds its limit only by the messages whose line has not      *)
(* landed yet, however many sends run at once, and by what each kill left  *)
(* behind: a line added whose drop was still owed (Inbox.hold).            *)
InboxBounded ==
  \A s \in Sid :
    Len(inbox.held[s]) <=
      MaxHeld + Cardinality({o \in Op : op[o].pc = "adding" /\ op[o].sid = s})
              + crashes * Cardinality(Op)

(* No two messages held carry the same mid, restarts included: a delivery  *)
(* would take both out (Inbox.lastCounter).                                *)
HeldMidsDiffer ==
  \A m, n \in UNION {ToSet(inbox.held[s]) : s \in Sid} :
    issued[m] = issued[n] => m = n

(* A message counts as delivered only when it was handed over: what was    *)
(* stated delivered has reached the session (DESIGN 6.7).                  *)
DeliveredHasArrived ==
  \A m \in Message : <<m, "delivered">> \in inbox.told => m \in ever

(* Every message.send is answered, or the process dies: the offer a send   *)
(* runs ends, and no send waits for another's append for ever.             *)
SendIsAnswered == \A o \in Op : op[o] # Free ~> op[o] = Free
=============================================================================
