----------------------------- MODULE Connection -----------------------------
(***************************************************************************)
(* One connection from its bytes to its answers: the framing of lines, the *)
(* driver, dispatch, and the frames written back (src/src/transport,       *)
(* src/src/dispatch).                                                      *)
(*                                                                         *)
(* Bytes are counted in units.  The lines of one chunk are taken one after *)
(* another before anything else runs; a handler comes back whenever it     *)
(* likes, and its answer goes out a few microtasks later, with others in   *)
(* between.  Each line is an op of one kind:                               *)
(*   garbled  no JSON                                                      *)
(*   refused  refused whoever asks (no such op, bad arguments, reached     *)
(*            over HTTP only, a capability not there, come back in a loop) *)
(*   hello    settles who the connection is                                *)
(*   open     answered before a greeting too                               *)
(*   known    needs a greeting                                             *)
(*   barred   needs a greeting by another role                             *)
(*   away     needs a greeting and belongs to another instance             *)
(*   follow   needs a greeting and has a frame to send after its answer    *)
(***************************************************************************)
EXTENDS Naturals, Sequences, FiniteSets, SequencesExt

CONSTANTS
  Line,             \* the lines the peer writes, in any order
  Kind,             \* what each of them asks
  Size,             \* how many units each of them has
  MAX_FRAME_BYTES,  \* units a line may have
  FRAME,            \* units a frame written back has
  NoLine

VARIABLES
  left,        \* lines the peer has not begun
  line,        \* the line being received
  buffer,      \* #buffer and #discarded: units of it so far
  discarding,  \* #discarding: it was too long
  chunk,       \* the chunk has more to it
  identity,    \* whether a greeting has settled the connection
  task,        \* per line: "none", "runs", "ok" or "error" in hand, "over"
  deferred,    \* #deferred
  pending,     \* the write queue: what is left of each frame
  taken,       \* the frames the peer has whole
  up           \* the socket is there

vars == <<left, line, buffer, discarding, chunk, identity, task, deferred,
          pending, taken, up>>

Ok(l) == [to |-> l, is |-> "ok"]
Error(l) == [to |-> l, is |-> "error"]
Later(l) == [to |-> l, is |-> "later"]

TypeOK ==
  /\ left \subseteq Line /\ line \in Line \cup {NoLine}
  /\ buffer \in Nat /\ discarding \in BOOLEAN /\ chunk \in BOOLEAN
  /\ identity \in BOOLEAN /\ up \in BOOLEAN
  /\ task \in [Line -> {"none", "runs", "ok", "error", "over"}]
  /\ \A f \in ToSet(deferred) \cup ToSet(taken) : f.to \in Line
  /\ \A e \in ToSet(pending) : e.left \in 1..FRAME

Init ==
  /\ left = Line /\ line = NoLine /\ buffer = 0
  /\ discarding = FALSE /\ chunk = FALSE /\ identity = FALSE
  /\ task = [l \in Line |-> "none"]
  /\ deferred = <<>> /\ pending = <<>> /\ taken = <<>>
  /\ up = TRUE

-----------------------------------------------------------------------------
(* conn.send: nothing once the socket is gone; otherwise behind whatever   *)
(* the queue still holds.                                                  *)
SendOvertakes(frames) ==
  pending' = IF up THEN [i \in 1..Len(frames) |-> [f |-> frames[i], left |-> FRAME]] \o pending
             ELSE <<>>

Send(frames) ==
  pending' = IF up THEN pending \o [i \in 1..Len(frames) |-> [f |-> frames[i], left |-> FRAME]]
             ELSE <<>>

(* One unit of a line arrives.  A line past the limit is let go of, and    *)
(* its bytes are dropped up to the newline.                                *)
Unit(l) ==
  /\ up
  /\ \/ line = NoLine /\ l \in left
     \/ line = l
  /\ buffer < Size[l]
  /\ line' = l /\ left' = left \ {l}
  /\ buffer' = buffer + 1
  /\ discarding' = (discarding \/ buffer' > MAX_FRAME_BYTES)
  /\ chunk' \in BOOLEAN
  /\ UNCHANGED <<identity, task, deferred, pending, taken, up>>

(* dispatch, up to the implementation: which frames are answered by it and *)
(* which are not.                                                          *)
NeedsHello(l) == Kind[l] \in {"known", "barred", "away", "follow"}

Allowed(l) ==
  /\ Kind[l] # "refused"
  /\ NeedsHello(l) => identity
  /\ Kind[l] # "barred"

NewlineUnsaid ==
  /\ up /\ line # NoLine /\ buffer = Size[line]
  /\ line' = NoLine /\ buffer' = 0 /\ discarding' = FALSE
  /\ chunk' \in BOOLEAN
  /\ IF discarding THEN UNCHANGED <<task, pending>>
     ELSE IF Kind[line] = "garbled"
     THEN /\ Send(<<Error(line)>>)
          /\ task' = [task EXCEPT ![line] = "over"]
     ELSE /\ task' = [task EXCEPT ![line] = IF Allowed(line) THEN "runs" ELSE "error"]
          /\ UNCHANGED pending
  /\ UNCHANGED <<left, identity, deferred, taken, up>>

(* The newline: the line is answered at once when it was too long or is no *)
(* JSON, and dispatched otherwise.                                         *)
Newline ==
  /\ up /\ line # NoLine /\ buffer = Size[line]
  /\ line' = NoLine /\ buffer' = 0 /\ discarding' = FALSE
  /\ chunk' \in BOOLEAN
  /\ IF discarding \/ Kind[line] = "garbled"
     THEN /\ Send(<<Error(line)>>)
          /\ task' = [task EXCEPT ![line] = "over"]
     ELSE /\ task' = [task EXCEPT ![line] = IF Allowed(line) THEN "runs" ELSE "error"]
          /\ UNCHANGED pending
  /\ UNCHANGED <<left, identity, deferred, taken, up>>

(* The implementation, or the instance the op was forwarded to, answers.   *)
(* What follows the answer is queued for after it.                         *)
Returns(l) ==
  /\ ~chunk /\ task[l] = "runs"
  /\ task' = [task EXCEPT ![l] = "ok"]
  /\ deferred' = IF Kind[l] = "follow" THEN Append(deferred, Later(l)) ELSE deferred
  /\ UNCHANGED <<left, line, buffer, discarding, chunk, identity, pending, taken, up>>

(* It throws, or the instance cannot be reached.                           *)
Throws(l) ==
  /\ ~chunk /\ task[l] = "runs"
  /\ task' = [task EXCEPT ![l] = "error"]
  /\ UNCHANGED <<left, line, buffer, discarding, chunk, identity, deferred, pending, taken, up>>

RepliesUnsettled(l) ==
  /\ ~chunk /\ task[l] \in {"ok", "error"}
  /\ task' = [task EXCEPT ![l] = "over"]
  /\ identity' = (identity \/ Kind[l] = "hello")
  /\ Send(IF task[l] = "ok" THEN <<Ok(l)>> \o deferred ELSE <<Error(l)>> \o deferred)
  /\ deferred' = <<>>
  /\ UNCHANGED <<left, line, buffer, discarding, chunk, taken, up>>

(* The driver's answer: a greeting's settles the connection as it goes     *)
(* out, and whatever was queued for after an answer follows it.            *)
Replies(l) ==
  /\ ~chunk /\ task[l] \in {"ok", "error"}
  /\ task' = [task EXCEPT ![l] = "over"]
  /\ identity' = (identity \/ (task[l] = "ok" /\ Kind[l] = "hello"))
  /\ Send(<<IF task[l] = "ok" THEN Ok(l) ELSE Error(l)>> \o deferred)
  /\ deferred' = <<>>
  /\ UNCHANGED <<left, line, buffer, discarding, chunk, taken, up>>

(* WriteQueue.drain: the socket takes some of what is at the front, and    *)
(* the rest of a frame stays there.                                        *)
DrainsDropping ==
  /\ ~chunk /\ up /\ pending # <<>>
  /\ \/ /\ pending' = Tail(pending)
        /\ taken' = Append(taken, Head(pending).f)
     \/ /\ Head(pending).left > 1
        /\ pending' = Tail(pending)
        /\ UNCHANGED taken
  /\ UNCHANGED <<left, line, buffer, discarding, chunk, identity, task, deferred, up>>

Drains ==
  /\ ~chunk /\ up /\ pending # <<>>
  /\ IF Head(pending).left > 1
     THEN /\ pending' = [pending EXCEPT ![1].left = @ - 1]
          /\ UNCHANGED taken
     ELSE /\ pending' = Tail(pending)
          /\ taken' = Append(taken, Head(pending).f)
  /\ UNCHANGED <<left, line, buffer, discarding, chunk, identity, task, deferred, up>>

(* The socket goes, which a write or the close event tells: what was       *)
(* queued is dropped.  Requests already running go on.                     *)
Closed ==
  /\ ~chunk /\ up
  /\ up' = FALSE
  /\ pending' = <<>>
  /\ UNCHANGED <<left, line, buffer, discarding, chunk, identity, task, deferred, taken>>

(* The chunk has ended with what came.                                     *)
ChunkEnds ==
  /\ chunk /\ chunk' = FALSE
  /\ UNCHANGED <<left, line, buffer, discarding, identity, task, deferred, pending, taken, up>>

-----------------------------------------------------------------------------
Next ==
  \/ \E l \in Line : Unit(l)
  \/ Newline
  \/ \E l \in Line : Returns(l)
  \/ \E l \in Line : Throws(l)
  \/ \E l \in Line : Replies(l)
  \/ Drains \/ Closed \/ ChunkEnds

Spec == Init /\ [][Next]_vars

(* Implementations return or throw, microtasks run, and a socket that is   *)
(* there takes what is written to it.                                      *)
FairSpec ==
  /\ Spec
  /\ WF_vars(ChunkEnds) /\ SF_vars(Drains)
  /\ \A l \in Line : /\ SF_vars(Returns(l) \/ Throws(l)) /\ SF_vars(Replies(l))
                     /\ WF_vars(Newline)

-----------------------------------------------------------------------------
Written == taken \o [i \in 1..Len(pending) |-> pending[i].f]

(* A connection keeps the promise of LineWire through short writes and     *)
(* answers that come in any order (WriteQueue: "a line queued behind a     *)
(* blocked one can never overtake it").                                    *)
Wire == INSTANCE LineWire WITH owed <- [i \in 1..Len(pending) |-> pending[i].f]

WireIsLines == Wire!Spec

(* Nothing that needs a greeting is answered before the greeting is: what  *)
(* a client reads as refused or done is in the order it learns who it is   *)
(* (settleIfHello: "at the moment a greeting's reply goes out").           *)
GreetedFirst ==
  \A n \in 1..Len(Written) :
    (Written[n].is = "ok" /\ NeedsHello(Written[n].to)) =>
      \E m \in 1..(n - 1) : Written[m].is = "ok" /\ Kind[Written[m].to] = "hello"

(* Every line begun and ended on a connection that stays is answered, too  *)
(* long, garbled and refused ones included.                                *)
EveryLineAnswered ==
  \A l \in Line :
    (line = l /\ buffer = Size[l]) ~> (~up \/ \E f \in ToSet(taken) : f.to = l /\ f.is # "later")

(* The frame an implementation sends after its answer comes after it       *)
(* (Conn.deferSend: "Queue one frame to go out once the reply to the       *)
(* request in flight has").                                                *)
FollowsItsAnswer ==
  \A n \in 1..Len(Written) :
    Written[n].is = "later" =>
      \E m \in 1..(n - 1) : Written[m].to = Written[n].to /\ Written[m].is # "later"
=============================================================================
