------------------------------- MODULE Egress -------------------------------
(***************************************************************************)
(* The outgoing frames of one terminal (src/src/topics/egress.ts), with    *)
(* the part of src/src/topics/topics.ts that feeds it: publish pushes a    *)
(* frame for a topic the terminal subscribed, while the opening frame of a *)
(* subscription goes out behind the reply and past the queue.              *)
(*                                                                         *)
(* A topic of Key replaces its value with every frame; its frames carry    *)
(* the version of the value.  One more topic, Occurrences, stands for      *)
(* those whose frames do not fold; its frames are numbered as they are     *)
(* raised.  An action is one run of the event loop.                        *)
(*                                                                         *)
(* Variants of a definition that carry a plausible fault stand just before *)
(* it; no specification uses them.                                         *)
(***************************************************************************)
EXTENDS Integers, FiniteSets, Sequences, SequencesExt

CONSTANTS
  Key,          \* the topics whose frames fold
  Occurrences,  \* the topic whose frames do not
  Limit,        \* QUEUE_LIMIT
  MaxFrames,    \* bound: values stated and occurrences raised
  MaxOpenings   \* bound: subscriptions taken

ASSUME EgressAssumption ==
  /\ Occurrences \notin Key
  /\ Limit \in Nat \ {0} /\ MaxFrames \in Nat /\ MaxOpenings \in Nat

VARIABLES
  queue,   \* #queue
  folded,  \* #folded: the keys with a frame waiting
  kept,    \* #kept: how many waiting frames do not fold
  armed,   \* #cancel: whether a flush is scheduled
  quiet,   \* whether the period has passed since the last flush
  sub,     \* the topics the terminal is subscribed to
  left,    \* how the terminal ended: not yet, by a stop, by its close
  version, \* the value each topic stands at
  taken,   \* the occurrences the queue took
  raised,  \* how many were raised
  opened,  \* how many subscriptions of each topic were taken
  wire     \* what was written to the socket

vars == <<queue, folded, kept, armed, quiet, sub, left, version, taken, raised,
          opened, wire>>

Topic == Key \cup {Occurrences}

Frame == [topic : Topic, n : Nat]

TypeOK ==
  /\ queue \in Seq(Frame)
  /\ folded \subseteq Key
  /\ kept \in 0..Limit
  /\ armed \in BOOLEAN /\ quiet \in BOOLEAN
  /\ sub \subseteq Topic
  /\ left \in {"no", "stopped", "closed"}
  /\ version \in [Key -> Nat]
  /\ taken \subseteq Nat
  /\ raised \in Nat /\ opened \in [Topic -> Nat]
  /\ wire \in Seq(Frame)

Init ==
  /\ queue = <<>> /\ folded = {} /\ kept = 0
  /\ armed = FALSE /\ quiet = TRUE
  /\ sub = {} /\ left = "no"
  /\ version = [k \in Key |-> 0]
  /\ taken = {} /\ raised = 0 /\ opened = [t \in Topic |-> 0]
  /\ wire = <<>>

-----------------------------------------------------------------------------
FlushKeepsCount(q) ==
  /\ wire' = wire \o q
  /\ queue' = <<>> /\ folded' = {}
  /\ UNCHANGED kept
  /\ armed' = FALSE /\ quiet' = FALSE

(* flush, with q the queue as it stands: everything waiting goes out.      *)
Flush(q) ==
  /\ wire' = wire \o q
  /\ queue' = <<>> /\ folded' = {} /\ kept' = 0
  /\ armed' = FALSE /\ quiet' = FALSE

ArmNever(q, f, n) ==
  \/ (armed \/ ~quiet) /\ queue' = q /\ folded' = f /\ kept' = n
       /\ UNCHANGED <<armed, quiet, wire>>
  \/ ~armed /\ quiet /\ Flush(q)

(* #arm, with the queue, the keys and the count as push leaves them: one   *)
(* scheduled flush is enough; the first frame after a quiet spell goes out *)
(* at once, and any other waits for the rest of the period.                *)
Arm(q, f, n) ==
  \/ ~armed /\ quiet /\ Flush(q)
  \/ /\ armed \/ ~quiet
     /\ queue' = q /\ folded' = f /\ kept' = n /\ armed' = TRUE
     /\ UNCHANGED <<quiet, wire>>

FoldKeepsFirst(k, n) == queue

(* A frame that folds, on the one waiting under its key: the value moves,  *)
(* its position does not.                                                  *)
Fold(k, n) == [i \in DOMAIN queue |->
                 IF queue[i].topic = k THEN [queue[i] EXCEPT !.n = n] ELSE queue[i]]

PushFold(k, n) ==
  IF k \in folded THEN Arm(Fold(k, n), folded, kept)
  ELSE Arm(Append(queue, [topic |-> k, n |-> n]), folded \cup {k}, kept)

Full == kept >= Limit

(* A frame that does not: refused when the queue is full of such frames,   *)
(* and the publisher hears of it.                                          *)
PushKept(n) ==
  IF Full THEN UNCHANGED <<queue, folded, kept, armed, quiet, wire, taken>>
  ELSE /\ Arm(Append(queue, [topic |-> Occurrences, n |-> n]), folded, kept + 1)
       /\ taken' = taken \cup {n}

-----------------------------------------------------------------------------
Openings == FoldSet(LAMBDA t, sum : sum + opened[t], 0, Topic)

Stated == raised + FoldSet(LAMBDA k, sum : sum + version[k], 0, Key)

(* A value moves and is published.                                         *)
State(k) ==
  /\ left = "no"
  /\ Stated < MaxFrames
  /\ version' = [version EXCEPT ![k] = @ + 1]
  /\ IF k \in sub THEN PushFold(k, version[k] + 1)
     ELSE UNCHANGED <<queue, folded, kept, armed, quiet, wire>>
  /\ UNCHANGED <<sub, left, taken, raised, opened>>

(* Something happens that is told once.                                    *)
Raise ==
  /\ left = "no"
  /\ Stated < MaxFrames
  /\ raised' = raised + 1
  /\ IF Occurrences \in sub THEN PushKept(raised + 1)
     ELSE UNCHANGED <<queue, folded, kept, armed, quiet, wire, taken>>
  /\ UNCHANGED <<sub, left, version, opened>>

(* Time passes, and the scheduled flush runs.                              *)
Quieten ==
  /\ ~quiet
  /\ quiet' = TRUE
  /\ UNCHANGED <<queue, folded, kept, armed, sub, left, version, taken, raised,
                 opened, wire>>

Timer ==
  /\ armed /\ quiet
  /\ Flush(queue)
  /\ UNCHANGED <<sub, left, version, taken, raised, opened>>

(* A subscription is answered.  The topic's value goes out behind the      *)
(* reply (deferSend), not through the queue; occurrences have none.        *)
Subscribe(t) ==
  /\ left = "no"
  /\ Openings < MaxOpenings
  /\ opened' = [opened EXCEPT ![t] = @ + 1]
  /\ sub' = sub \cup {t}
  /\ wire' = IF t \in Key THEN Append(wire, [topic |-> t, n |-> version[t]]) ELSE wire
  /\ UNCHANGED <<queue, folded, kept, armed, quiet, left, version, taken, raised>>

(* unsubscribe; what is waiting for the terminal stays in its queue.       *)
Unsubscribe(t) ==
  /\ left = "no"
  /\ t \in sub
  /\ sub' = sub \ {t}
  /\ UNCHANGED <<queue, folded, kept, armed, quiet, left, version, taken, raised,
                 opened, wire>>

ReleaseDrops(how) ==
  /\ left = "no"
  /\ left' = how
  /\ sub' = {}
  /\ queue' = <<>> /\ folded' = {} /\ kept' = 0 /\ armed' = FALSE /\ quiet' = FALSE
  /\ UNCHANGED <<wire, version, taken, raised, opened>>

(* dropAll.  In the stop order the connection is still there and what      *)
(* waits goes out; of a socket that closed nothing is written any more.    *)
Release(how) ==
  /\ left = "no"
  /\ left' = how
  /\ sub' = {}
  /\ queue' = <<>> /\ folded' = {} /\ kept' = 0 /\ armed' = FALSE /\ quiet' = FALSE
  /\ wire' = IF how = "stopped" THEN wire \o queue ELSE wire
  /\ UNCHANGED <<version, taken, raised, opened>>

Next ==
  \/ \E k \in Key : State(k)
  \/ Raise
  \/ Quieten
  \/ Timer
  \/ \E t \in Topic : Subscribe(t) \/ Unsubscribe(t)
  \/ \E how \in {"stopped", "closed"} : Release(how)

Spec == Init /\ [][Next]_vars

-----------------------------------------------------------------------------
(* The places of a topic's frames in a sequence of frames.                 *)
Of(frames, t) == {i \in DOMAIN frames : frames[i].topic = t}

(* The two books kept beside the queue say what is in it: a key is in      *)
(* #folded exactly while one frame of it waits, and #kept counts the rest. *)
(* A drift would refuse frames for ever or fold onto a frame already sent. *)
BooksMatch ==
  /\ \A k \in Key : Cardinality(Of(queue, k)) = IF k \in folded THEN 1 ELSE 0
  /\ kept = Cardinality(Of(queue, Occurrences))

(* What does not fold arrives as often as the queue took it and in the     *)
(* order it was raised in: what is on the wire and what waits are what was *)
(* taken, also through a stop ("it goes out rather than being dropped",    *)
(* dropAll).                                                               *)
OccurrencesInOrder ==
  left # "closed" =>
    LET out == wire \o queue
        told == Of(out, Occurrences)
    IN  /\ {out[i].n : i \in told} = taken
        /\ \A i, j \in told : i < j => out[i].n < out[j].n

(* A frame that waits has a flush scheduled; one that had none would wait  *)
(* for a change that may never come.  And nothing armed outlives the       *)
(* terminal.                                                               *)
WaitingIsArmed == armed <=> queue # <<>>

(* The last frame a subscriber has been or will be handed for a topic is   *)
(* the value it stands at.                                                 *)
HoldsLatest(k) ==
  LET out == wire \o queue
  IN  \E i \in Of(out, k) : /\ \A j \in Of(out, k) : j <= i
                           /\ out[i].n = version[k]

(* "the reader is never handed a value that has already been superseded,   *)
(* and never misses the last one" (Egress), for a topic the terminal has   *)
(* subscribed once: neither folding nor the opening frame that goes past   *)
(* the queue leaves it behind (Egress.push, Topics.subscribe).             *)
FirstVisitHoldsLatest ==
  left = "no" => \A k \in Key \cap sub : opened[k] = 1 => HoldsLatest(k)
=============================================================================
