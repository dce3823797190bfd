---------------------------- MODULE KeepingProofs ---------------------------
(***************************************************************************)
(* What the composition MCKeeping guarantees of what an instance keeps:    *)
(* of one terminal's queue for any topics and any limit, of the supervisor *)
(* for any config homes, units, processes and requests, of the store for   *)
(* any keys, values and writes, and of the status rows by way of           *)
(* GatewayProofs.                                                          *)
(***************************************************************************)
EXTENDS MCKeeping, FiniteSetTheorems, SequenceTheorems, TLAPS

(* A key has a frame waiting only while the queue holds something.         *)
FoldedWaits == folded # {} => queue # <<>>

(* A frame at the end of a queue, and a queue behind what was written.     *)
LEMMA AppendIsQueue ==
  ASSUME NEW s \in Seq(Frame), NEW t \in Topic, NEW n \in Nat
  PROVE  /\ Append(s, [topic |-> t, n |-> n]) \in Seq(Frame)
         /\ Append(s, [topic |-> t, n |-> n]) # <<>>
<1> DEFINE f == [topic |-> t, n |-> n]
<1>1. f \in Frame
  BY DEF Frame
<1> HIDE DEF f
<1>2. Append(s, f) \in Seq(Frame) /\ Append(s, f) # <<>>
  BY <1>1, AppendProperties
<1> QED  BY <1>2 DEF f

LEMMA ConcatIsQueue ==
  ASSUME NEW s \in Seq(Frame), NEW q \in Seq(Frame)
  PROVE  s \o q \in Seq(Frame)
BY ConcatProperties

(* Folding a frame onto the one waiting leaves a queue of as many frames.  *)
LEMMA FoldIsQueue ==
  ASSUME queue \in Seq(Frame), NEW k \in Key, NEW n \in Nat
  PROVE  Fold(k, n) \in Seq(Frame) /\ Len(Fold(k, n)) = Len(queue)
<1>1. DOMAIN queue = 1..Len(queue) /\ Len(queue) \in Nat
  OBVIOUS
<1>2. ASSUME NEW i \in DOMAIN queue
      PROVE (IF queue[i].topic = k THEN [queue[i] EXCEPT !.n = n] ELSE queue[i]) \in Frame
  <2>1. queue[i] \in Frame
    BY ElementOfSeq
  <2> QED  BY <2>1 DEF Frame
<1>3. Fold(k, n) \in [1..Len(queue) -> Frame]
  BY <1>1, <1>2 DEF Fold
<1> QED  BY <1>1, <1>3

LEMMA NoneWaiting ==
  ASSUME queue' = <<>>, folded' = {}, kept' = 0, armed' = FALSE, quiet' = FALSE
  PROVE  /\ queue' \in Seq(Frame) /\ folded' \subseteq Key /\ kept' \in 0..Limit
         /\ armed' \in BOOLEAN /\ quiet' \in BOOLEAN
         /\ WaitingIsArmed' /\ FoldedWaits'
<1>1. queue' \in Seq(Frame)
  BY EmptySeq
<1>2. folded' \subseteq Key
  OBVIOUS
<1>3. kept' \in 0..Limit
  BY EgressAssumption
<1>4. armed' \in BOOLEAN /\ quiet' \in BOOLEAN
  BY Zenon
<1>5. WaitingIsArmed'
  BY DEF WaitingIsArmed
<1>6. FoldedWaits'
  BY DEF FoldedWaits
<1> QED  BY <1>1, <1>2, <1>3, <1>4, <1>5, <1>6

(* What #arm is given is what the queue, its keys and its count become,    *)
(* unless it flushes; either way a frame that waits has a flush scheduled. *)
LEMMA ArmKeeps ==
  ASSUME TypeOK, WaitingIsArmed, NEW q \in Seq(Frame), q # <<>>,
         NEW f \in SUBSET Key, NEW n \in 0..Limit, Arm(q, f, n)
  PROVE  /\ queue' \in Seq(Frame) /\ folded' \subseteq Key /\ kept' \in 0..Limit
         /\ armed' \in BOOLEAN /\ quiet' \in BOOLEAN /\ wire' \in Seq(Frame)
         /\ WaitingIsArmed'
<1> USE EgressAssumption
<1>1. CASE Flush(q)
  <2>1. wire \o q \in Seq(Frame)
    BY ConcatIsQueue DEF TypeOK
  <2>2. queue' \in Seq(Frame) /\ folded' \subseteq Key /\ kept' \in 0..Limit
        /\ armed' \in BOOLEAN /\ quiet' \in BOOLEAN /\ WaitingIsArmed' /\ FoldedWaits'
    BY <1>1, NoneWaiting DEF Flush
  <2> QED  BY <1>1, <2>1, <2>2 DEF Flush, TypeOK
<1>2. CASE ~Flush(q)
  BY <1>2 DEF Arm, TypeOK, WaitingIsArmed
<1> QED  BY <1>1, <1>2

LEMMA PushFoldKeeps ==
  ASSUME TypeOK, WaitingIsArmed, NEW k \in Key, NEW n \in Nat, PushFold(k, n),
         k \in folded => queue # <<>>
  PROVE  /\ queue' \in Seq(Frame) /\ folded' \subseteq Key /\ kept' \in 0..Limit
         /\ armed' \in BOOLEAN /\ quiet' \in BOOLEAN /\ wire' \in Seq(Frame)
         /\ WaitingIsArmed'
<1>1. CASE k \in folded
  <2>1. Fold(k, n) \in Seq(Frame) /\ Fold(k, n) # <<>>
    BY <1>1, FoldIsQueue DEF TypeOK
  <2>2. Arm(Fold(k, n), folded, kept)
    BY <1>1 DEF PushFold
  <2> QED  BY <2>1, <2>2, ArmKeeps DEF TypeOK
<1>2. CASE k \notin folded
  <2> DEFINE q == Append(queue, [topic |-> k, n |-> n])
  <2>1. q \in Seq(Frame) /\ q # <<>>
    BY AppendIsQueue DEF TypeOK, Topic
  <2>2. Arm(q, folded \cup {k}, kept)
    BY <1>2 DEF PushFold
  <2> HIDE DEF q
  <2> QED  BY <2>1, <2>2, ArmKeeps DEF TypeOK
<1> QED  BY <1>1, <1>2

LEMMA PushKeptKeeps ==
  ASSUME TypeOK, WaitingIsArmed, NEW n \in Nat, PushKept(n)
  PROVE  /\ queue' \in Seq(Frame) /\ folded' \subseteq Key /\ kept' \in 0..Limit
         /\ armed' \in BOOLEAN /\ quiet' \in BOOLEAN /\ wire' \in Seq(Frame)
         /\ taken' \subseteq Nat /\ WaitingIsArmed'
<1>1. CASE Full
  BY <1>1 DEF PushKept, TypeOK, WaitingIsArmed
<1>2. CASE ~Full
  <2> DEFINE q == Append(queue, [topic |-> Occurrences, n |-> n])
  <2>1. q \in Seq(Frame) /\ q # <<>>
    BY AppendIsQueue DEF TypeOK, Topic
  <2>2. Arm(q, folded, kept + 1) /\ taken' = taken \cup {n}
    BY <1>2 DEF PushKept
  <2>3. kept + 1 \in 0..Limit
    BY <1>2, EgressAssumption DEF TypeOK, Full
  <2> HIDE DEF q
  <2> QED  BY <2>1, <2>2, <2>3, ArmKeeps DEF TypeOK
<1> QED  BY <1>1, <1>2

(* Nothing is in #folded of an empty queue, after any push or flush.       *)
LEMMA ArmFolds ==
  ASSUME NEW q \in Seq(Frame), q # <<>>, NEW f, NEW n, Arm(q, f, n)
  PROVE  FoldedWaits'
BY DEF Arm, Flush, FoldedWaits

LEMMA PushFolds ==
  ASSUME TypeOK, FoldedWaits, NEW k \in Key, NEW n \in Nat
  PROVE  (PushFold(k, n) \/ PushKept(n)) => FoldedWaits'
<1>1. ASSUME PushFold(k, n), k \in folded PROVE FoldedWaits'
  <2>1. Fold(k, n) \in Seq(Frame) /\ Fold(k, n) # <<>>
    BY <1>1, FoldIsQueue DEF TypeOK, FoldedWaits
  <2> QED  BY <1>1, <2>1, ArmFolds DEF PushFold
<1>2. ASSUME PushFold(k, n), k \notin folded PROVE FoldedWaits'
  <2> DEFINE q == Append(queue, [topic |-> k, n |-> n])
  <2>1. q \in Seq(Frame) /\ q # <<>>
    BY AppendIsQueue DEF TypeOK, Topic
  <2>2. Arm(q, folded \cup {k}, kept)
    BY <1>2 DEF PushFold
  <2> HIDE DEF q
  <2> QED  BY <2>1, <2>2, ArmFolds
<1>3. ASSUME PushKept(n) PROVE FoldedWaits'
  <2>1. CASE Full
    BY <1>3, <2>1 DEF PushKept, FoldedWaits
  <2>2. CASE ~Full
    <3> DEFINE q == Append(queue, [topic |-> Occurrences, n |-> n])
    <3>1. q \in Seq(Frame) /\ q # <<>>
      BY AppendIsQueue DEF TypeOK, Topic
    <3>2. Arm(q, folded, kept + 1)
      BY <1>3, <2>2 DEF PushKept
    <3> HIDE DEF q
    <3> QED  BY <3>1, <3>2, ArmFolds
  <2> QED  BY <2>1, <2>2
<1> QED  BY <1>1, <1>2, <1>3

-----------------------------------------------------------------------------
Waiting == TypeOK /\ WaitingIsArmed /\ FoldedWaits

LEMMA WaitingStep == Waiting /\ [Next]_vars => Waiting'
<1> SUFFICES ASSUME Waiting, [Next]_vars PROVE Waiting'
  OBVIOUS
<1> USE EgressAssumption
<1>1. ASSUME NEW k \in Key, State(k) PROVE Waiting'
  <2>1. version[k] + 1 \in Nat /\ version' \in [Key -> Nat]
    BY <1>1 DEF State, Waiting, TypeOK
  <2>2. CASE k \in sub
    <3>1. PushFold(k, version[k] + 1)
      BY <1>1, <2>2 DEF State
    <3>2. UNCHANGED <<sub, left, taken, raised, opened>>
      BY <1>1 DEF State
    <3>3. FoldedWaits'
      BY <2>1, <3>1, PushFolds DEF Waiting
    <3>4. k \in folded => queue # <<>>
      BY DEF Waiting, FoldedWaits
    <3> QED  BY <2>1, <3>1, <3>2, <3>3, <3>4, PushFoldKeeps DEF Waiting, TypeOK
  <2>3. CASE k \notin sub
    BY <1>1, <2>1, <2>3 DEF State, Waiting, TypeOK, WaitingIsArmed, FoldedWaits
  <2> QED  BY <2>2, <2>3
<1>2. ASSUME Raise PROVE Waiting'
  <2>1. raised + 1 \in Nat /\ raised' = raised + 1
        /\ UNCHANGED <<sub, left, version, opened>>
    BY <1>2 DEF Raise, Waiting, TypeOK
  <2>2. CASE Occurrences \in sub
    <3>1. PushKept(raised + 1)
      BY <1>2, <2>2 DEF Raise
    <3>2. FoldedWaits'
      <4>1. CASE Full
        BY <3>1, <4>1 DEF PushKept, Waiting, FoldedWaits
      <4>2. CASE ~Full
        <5> DEFINE q == Append(queue, [topic |-> Occurrences, n |-> raised + 1])
        <5>1. q \in Seq(Frame) /\ q # <<>>
          BY <2>1, AppendIsQueue DEF Waiting, TypeOK, Topic
        <5>2. Arm(q, folded, kept + 1)
          BY <3>1, <4>2 DEF PushKept
        <5> HIDE DEF q
        <5> QED  BY <5>1, <5>2, ArmFolds
      <4> QED  BY <4>1, <4>2
    <3> QED  BY <2>1, <3>1, <3>2, PushKeptKeeps DEF Waiting, TypeOK
  <2>3. CASE Occurrences \notin sub
    BY <1>2, <2>1, <2>3 DEF Raise, Waiting, TypeOK, WaitingIsArmed, FoldedWaits
  <2> QED  BY <2>2, <2>3
<1>3. ASSUME Timer PROVE Waiting'
  <2>1. wire \o queue \in Seq(Frame)
    BY ConcatIsQueue DEF Waiting, TypeOK
  <2>2. queue' \in Seq(Frame) /\ folded' \subseteq Key /\ kept' \in 0..Limit
        /\ armed' \in BOOLEAN /\ quiet' \in BOOLEAN /\ WaitingIsArmed' /\ FoldedWaits'
    BY <1>3, NoneWaiting DEF Timer, Flush
  <2> QED  BY <1>3, <2>1, <2>2 DEF Timer, Flush, Waiting, TypeOK
<1>8. ASSUME Quieten PROVE Waiting'
  BY <1>8 DEF Quieten, Waiting, TypeOK, WaitingIsArmed, FoldedWaits
<1>4. ASSUME NEW t \in Topic, Subscribe(t) PROVE Waiting'
  <2>1. wire' \in Seq(Frame)
    <3>1. CASE t \in Key
      <4>1. Append(wire, [topic |-> t, n |-> version[t]]) \in Seq(Frame)
        BY <3>1, AppendIsQueue DEF Waiting, TypeOK
      <4> QED  BY <1>4, <3>1, <4>1 DEF Subscribe
    <3>2. CASE t \notin Key
      BY <1>4, <3>2 DEF Subscribe, Waiting, TypeOK
    <3> QED  BY <3>1, <3>2
  <2> QED  BY <1>4, <2>1 DEF Subscribe, Waiting, TypeOK, WaitingIsArmed, FoldedWaits
<1>5. ASSUME NEW t \in Topic, Unsubscribe(t) PROVE Waiting'
  BY <1>5 DEF Unsubscribe, Waiting, TypeOK, WaitingIsArmed, FoldedWaits
<1>6. ASSUME NEW how \in {"stopped", "closed"}, Release(how) PROVE Waiting'
  <2>1. wire \o queue \in Seq(Frame)
    BY ConcatIsQueue DEF Waiting, TypeOK
  <2>2. queue' \in Seq(Frame) /\ folded' \subseteq Key /\ kept' \in 0..Limit
        /\ armed' \in BOOLEAN /\ quiet' \in BOOLEAN /\ WaitingIsArmed' /\ FoldedWaits'
    BY <1>6, NoneWaiting DEF Release
  <2> QED  BY <1>6, <2>1, <2>2 DEF Release, Waiting, TypeOK
<1>7. CASE UNCHANGED vars
  BY <1>7 DEF vars, Waiting, TypeOK, WaitingIsArmed, FoldedWaits
<1> QED  BY <1>1, <1>2, <1>3, <1>4, <1>5, <1>6, <1>7, <1>8 DEF Next

LEMMA WaitingInit == Init => Waiting
<1> SUFFICES ASSUME Init PROVE Waiting
  OBVIOUS
<1>1. queue \in Seq(Frame) /\ wire \in Seq(Frame) /\ taken \subseteq Nat
  BY EmptySeq DEF Init
<1>2. WaitingIsArmed /\ FoldedWaits
  BY DEF Init, WaitingIsArmed, FoldedWaits
<1>3. armed \in BOOLEAN /\ quiet \in BOOLEAN
  BY Zenon DEF Init
<1>4. /\ folded \subseteq Key /\ kept \in 0..Limit /\ sub \subseteq Topic
      /\ left \in {"no", "stopped", "closed"} /\ version \in [Key -> Nat]
      /\ raised \in Nat /\ opened \in [Topic -> Nat]
  BY EgressAssumption DEF Init
<1> QED  BY <1>1, <1>2, <1>3, <1>4 DEF Waiting, TypeOK

(* The queue keeps its types; in particular it never counts more frames    *)
(* that do not fold than its limit.                                        *)
THEOREM EgressTypes == Spec => []TypeOK
<1>1. Waiting => TypeOK
  BY DEF Waiting
<1> QED  BY <1>1, WaitingInit, WaitingStep, PTL DEF Spec

(* No frame is stranded: a flush is scheduled exactly while something      *)
(* waits, whatever is pushed, folded, refused or flushed in whatever order *)
(* and however the terminal leaves.                                        *)
THEOREM NoFrameIsStranded == Spec => []WaitingIsArmed
<1>1. Waiting => WaitingIsArmed
  BY DEF Waiting
<1> QED  BY <1>1, WaitingInit, WaitingStep, PTL DEF Spec

-----------------------------------------------------------------------------
(* What a terminal is handed.  wire \o queue is all it has been or will be *)
(* sent; no push and no flush changes more of it than its end, or the      *)
(* frame a value is folded onto.                                           *)

(* The books of a queue q, its keys f and its count n.                     *)
Books(q, f, n) ==
  /\ \A k \in Key : Cardinality(Of(q, k)) = IF k \in f THEN 1 ELSE 0
  /\ n = Cardinality(Of(q, Occurrences))

(* The occurrences among the frames o are those of T, in order.            *)
InOrder(o, T) ==
  /\ {o[i].n : i \in Of(o, Occurrences)} = T
  /\ \A i, j \in Of(o, Occurrences) : i < j => o[i].n < o[j].n

(* The last frame of k among the frames o carries v.                       *)
EndsWith(o, k, v) ==
  \E i \in Of(o, k) : (\A j \in Of(o, k) : j <= i) /\ o[i].n = v

(* What is taken was raised, and nothing waits of a topic never asked for. *)
TakenWasRaised == \A n \in taken : n <= raised

NothingUnasked ==
  \A k \in Key : opened[k] = 0 => k \notin sub /\ Of(queue, k) = {}

Handed ==
  /\ Waiting
  /\ Books(queue, folded, kept)
  /\ left # "closed" => InOrder(wire \o queue, taken)
  /\ TakenWasRaised /\ NothingUnasked
  /\ left = "no" =>
       \A k \in Key \cap sub : opened[k] = 1 => EndsWith(wire \o queue, k, version[k])

(* Where the frames of a topic are in a longer queue, in one behind        *)
(* another, and in one a frame was put into.                               *)
LEMMA FramesHaveTopics ==
  ASSUME NEW s \in Seq(Frame), NEW t
  PROVE  /\ Of(s, t) = {i \in 1..Len(s) : s[i].topic = t} /\ Len(s) \in Nat
         /\ \A i \in 1..Len(s) : s[i] \in Frame /\ s[i].topic \in Topic /\ s[i].n \in Nat
<1>1. DOMAIN s = 1..Len(s) /\ Len(s) \in Nat /\ \A i \in 1..Len(s) : s[i] \in Frame
  BY LenProperties, ElementOfSeq
<1> QED  BY <1>1 DEF Of, Frame

LEMMA OfIsFinite == ASSUME NEW s \in Seq(Frame), NEW t PROVE IsFiniteSet(Of(s, t))
<1>1. Of(s, t) \subseteq 1..Len(s) /\ Len(s) \in Nat /\ IsFiniteSet(1..Len(s))
  BY FramesHaveTopics, FS_Interval
<1> QED  BY <1>1, FS_Subset

LEMMA OfNothing == \A t : Of(<<>>, t) = {} /\ Cardinality(Of(<<>>, t)) = 0
BY FS_EmptySet DEF Of

LEMMA OfAppended ==
  ASSUME NEW s \in Seq(Frame), NEW f \in Frame
  PROVE  /\ Append(s, f) \in Seq(Frame) /\ Len(Append(s, f)) = Len(s) + 1
         /\ \A i \in 1..Len(s) : Append(s, f)[i] = s[i]
         /\ Append(s, f)[Len(s) + 1] = f
         /\ \A t : Of(Append(s, f), t) =
                     Of(s, t) \cup {i \in {Len(s) + 1} : f.topic = t}
<1>1. /\ Append(s, f) \in Seq(Frame) /\ Len(Append(s, f)) = Len(s) + 1
      /\ \A i \in 1..Len(s) : Append(s, f)[i] = s[i]
      /\ Append(s, f)[Len(s) + 1] = f
  BY AppendProperties
<1> DEFINE u == Append(s, f)
<1> HIDE DEF u
<1>2. ASSUME NEW t PROVE Of(u, t) = Of(s, t) \cup {i \in {Len(s) + 1} : f.topic = t}
  <2>1. Of(u, t) = {i \in 1..Len(u) : u[i].topic = t} /\ Of(s, t) = {i \in 1..Len(s) : s[i].topic = t}
        /\ Len(s) \in Nat
    BY <1>1, FramesHaveTopics DEF u
  <2>2. Len(u) = Len(s) + 1 /\ u[Len(s) + 1] = f /\ \A i \in 1..Len(s) : u[i] = s[i]
    BY <1>1 DEF u
  <2> QED  BY <2>1, <2>2
<1> QED  BY <1>1, <1>2 DEF u

LEMMA OfAppendedCounts ==
  ASSUME NEW s \in Seq(Frame), NEW f \in Frame, NEW t
  PROVE  Cardinality(Of(Append(s, f), t)) =
           Cardinality(Of(s, t)) + (IF f.topic = t THEN 1 ELSE 0)
<1>1. IsFiniteSet(Of(s, t)) /\ Len(s) \in Nat /\ Of(s, t) \subseteq 1..Len(s)
      /\ Cardinality(Of(s, t)) \in Nat
  BY OfIsFinite, FramesHaveTopics, FS_CardinalityType
<1>2. Len(s) + 1 \notin Of(s, t)
  BY <1>1
<1>3. CASE f.topic = t
  <2>1. Of(Append(s, f), t) = Of(s, t) \cup {Len(s) + 1}
    BY <1>3, OfAppended
  <2> QED  BY <1>1, <1>2, <1>3, <2>1, FS_AddElement
<1>4. CASE f.topic # t
  <2>1. {i \in {Len(s) + 1} : f.topic = t} = {}
    BY <1>4
  <2>2. Of(Append(s, f), t) = Of(s, t) \cup {i \in {Len(s) + 1} : f.topic = t}
    BY OfAppended
  <2>3. Of(Append(s, f), t) = Of(s, t)
    BY <2>1, <2>2
  <2> QED  BY <1>1, <1>4, <2>3
<1> QED  BY <1>3, <1>4

LEMMA Behind ==
  ASSUME NEW s \in Seq(Frame), NEW q \in Seq(Frame)
  PROVE  /\ s \o q \in Seq(Frame) /\ Len(s \o q) = Len(s) + Len(q)
         /\ Len(s) \in Nat /\ Len(q) \in Nat
         /\ \A i \in 1..Len(s) : (s \o q)[i] = s[i]
         /\ \A i \in 1..Len(q) : (s \o q)[Len(s) + i] = q[i]
BY ConcatProperties, LenProperties

LEMMA BehindAppended ==
  ASSUME NEW s \in Seq(Frame), NEW q \in Seq(Frame), NEW f \in Frame
  PROVE  s \o Append(q, f) = Append(s \o q, f)
BY ConcatProperties, AppendProperties

LEMMA BehindNothing == ASSUME NEW s \in Seq(Frame) PROVE s \o <<>> = s
BY ConcatEmptySeq

(* What #arm makes of a queue, its keys and its count: they are handed on  *)
(* or written whole, and the books go with them.                           *)
LEMMA ArmHands ==
  ASSUME Waiting, NEW q \in Seq(Frame), NEW f, NEW n, Arm(q, f, n), Books(q, f, n)
  PROVE  /\ wire' \o queue' = wire \o q
         /\ Books(queue', folded', kept')
         /\ queue' \in {q, <<>>}
<1>1. CASE Flush(q)
  <2>1. wire \o q \in Seq(Frame)
    BY Behind DEF Waiting, TypeOK
  <2>2. queue' = <<>> /\ folded' = {} /\ kept' = 0 /\ wire' = wire \o q
    BY <1>1 DEF Flush
  <2>3. wire' \o queue' = wire \o q
    BY <2>1, <2>2, BehindNothing
  <2> QED  BY <2>2, <2>3, OfNothing DEF Books
<1>2. CASE queue' = q /\ folded' = f /\ kept' = n /\ wire' = wire
  BY <1>2
<1> QED  BY <1>1, <1>2 DEF Arm

LEMMA NewIsFrame ==
  ASSUME NEW t \in Topic, NEW v \in Nat
  PROVE  [topic |-> t, n |-> v] \in Frame
BY DEF Frame

(* A push that appends a frame.                                            *)
LEMMA AppendHands ==
  ASSUME Waiting, NEW t \in Topic, NEW v \in Nat, NEW f, NEW n,
         Arm(Append(queue, [topic |-> t, n |-> v]), f, n),
         Books(Append(queue, [topic |-> t, n |-> v]), f, n)
  PROVE  /\ wire' \o queue' = Append(wire \o queue, [topic |-> t, n |-> v])
         /\ Books(queue', folded', kept')
         /\ \A u : u # t => Of(queue', u) \subseteq Of(queue, u)
<1> DEFINE fr == [topic |-> t, n |-> v]
           q == Append(queue, fr)
<1>1. fr \in Frame /\ fr.topic = t
  BY NewIsFrame
<1>2. q \in Seq(Frame) /\ wire \in Seq(Frame) /\ queue \in Seq(Frame)
  BY <1>1, AppendProperties DEF Waiting, TypeOK
<1>3. \A u : u # t => Of(q, u) = Of(queue, u)
  <2>1. ASSUME NEW u, u # t PROVE Of(q, u) = Of(queue, u)
    <3>1. {i \in {Len(queue) + 1} : fr.topic = u} = {}
      BY <1>1, <2>1
    <3> HIDE DEF fr
    <3>2. Of(q, u) = Of(queue, u) \cup {i \in {Len(queue) + 1} : fr.topic = u}
      BY <1>1, <1>2, OfAppended
    <3> QED  BY <3>1, <3>2
  <2> QED  BY <2>1
<1>4. wire \o q = Append(wire \o queue, fr)
  <2> HIDE DEF fr
  <2> QED  BY <1>1, <1>2, BehindAppended
<1>5. /\ wire' \o queue' = wire \o q /\ Books(queue', folded', kept')
      /\ queue' \in {q, <<>>}
  <2> HIDE DEF q
  <2> QED  BY <1>2, ArmHands DEF q
<1>6. \A u : u # t => Of(queue', u) \subseteq Of(queue, u)
  <2> HIDE DEF q, fr
  <2> QED  BY <1>3, <1>5, OfNothing
<1> QED  BY <1>4, <1>5, <1>6

(* The books after a frame of a key that had none waiting, and after an    *)
(* occurrence.                                                             *)
LEMMA KeyIsBooked ==
  ASSUME Waiting, Books(queue, folded, kept), NEW k \in Key, k \notin folded, NEW v \in Nat
  PROVE  Books(Append(queue, [topic |-> k, n |-> v]), folded \cup {k}, kept)
<1> DEFINE fr == [topic |-> k, n |-> v]
<1>1. fr \in Frame /\ fr.topic = k /\ queue \in Seq(Frame) /\ k # Occurrences
  BY NewIsFrame, EgressAssumption DEF Waiting, TypeOK, Topic
<1>2. \A t : Cardinality(Of(Append(queue, fr), t)) =
               Cardinality(Of(queue, t)) + (IF fr.topic = t THEN 1 ELSE 0)
  <2> HIDE DEF fr
  <2> QED  BY <1>1, OfAppendedCounts
<1>3. \A t : Cardinality(Of(queue, t)) \in Nat
  BY <1>1, OfIsFinite, FS_CardinalityType
<1> HIDE DEF fr
<1> QED  BY <1>1, <1>2, <1>3 DEF Books, fr

LEMMA OccurrenceIsBooked ==
  ASSUME Waiting, Books(queue, folded, kept), NEW v \in Nat
  PROVE  Books(Append(queue, [topic |-> Occurrences, n |-> v]), folded, kept + 1)
<1> DEFINE fr == [topic |-> Occurrences, n |-> v]
<1>1. fr \in Frame /\ fr.topic = Occurrences /\ queue \in Seq(Frame) /\ Occurrences \notin Key
  BY NewIsFrame, EgressAssumption DEF Waiting, TypeOK, Topic
<1>2. \A t : Cardinality(Of(Append(queue, fr), t)) =
               Cardinality(Of(queue, t)) + (IF fr.topic = t THEN 1 ELSE 0)
  <2> HIDE DEF fr
  <2> QED  BY <1>1, OfAppendedCounts
<1>3. \A t : Cardinality(Of(queue, t)) \in Nat
  BY <1>1, OfIsFinite, FS_CardinalityType
<1> HIDE DEF fr
<1> QED  BY <1>1, <1>2, <1>3 DEF Books, fr

(* A frame folded onto the one waiting: the places are the same, and no    *)
(* other frame changes.                                                    *)
LEMMA FoldHands ==
  ASSUME Waiting, NEW k \in Key, NEW v \in Nat
  PROVE  LET o == wire \o queue
             p == wire \o Fold(k, v)
         IN  /\ Fold(k, v) \in Seq(Frame) /\ Len(p) = Len(o)
             /\ \A t : Of(Fold(k, v), t) = Of(queue, t) /\ Of(p, t) = Of(o, t)
             /\ \A i \in 1..Len(o) : o[i].topic # k => p[i] = o[i]
             /\ \A i \in Of(queue, k) : Len(wire) + i \in Of(o, k) /\ p[Len(wire) + i].n = v
<1> DEFINE q == Fold(k, v)
           o == wire \o queue
           p == wire \o q
<1>1. /\ queue \in Seq(Frame) /\ wire \in Seq(Frame) /\ q \in Seq(Frame)
      /\ Len(q) = Len(queue) /\ DOMAIN queue = 1..Len(queue)
  BY FoldIsQueue DEF Waiting, TypeOK
<1>2. ASSUME NEW i \in 1..Len(queue)
      PROVE  /\ q[i].topic = queue[i].topic
             /\ queue[i].topic # k => q[i] = queue[i]
             /\ queue[i].topic = k => q[i].n = v
  <2>1. queue[i] \in Frame
    BY <1>1, ElementOfSeq
  <2> QED  BY <1>1, <2>1 DEF Fold, Frame
<1> HIDE DEF q
<1>3. /\ o \in Seq(Frame) /\ p \in Seq(Frame)
      /\ Len(o) = Len(wire) + Len(queue) /\ Len(p) = Len(wire) + Len(queue)
      /\ Len(wire) \in Nat /\ Len(queue) \in Nat
      /\ \A i \in 1..Len(wire) : o[i] = wire[i] /\ p[i] = wire[i]
      /\ \A i \in 1..Len(queue) : o[Len(wire) + i] = queue[i] /\ p[Len(wire) + i] = q[i]
  <2>1. /\ o \in Seq(Frame) /\ Len(o) = Len(wire) + Len(queue)
        /\ Len(wire) \in Nat /\ Len(queue) \in Nat
        /\ \A i \in 1..Len(wire) : o[i] = wire[i]
        /\ \A i \in 1..Len(queue) : o[Len(wire) + i] = queue[i]
    BY <1>1, Behind
  <2>2. /\ p \in Seq(Frame) /\ Len(p) = Len(wire) + Len(q)
        /\ \A i \in 1..Len(wire) : p[i] = wire[i]
        /\ \A i \in 1..Len(q) : p[Len(wire) + i] = q[i]
    BY <1>1, Behind
  <2> QED  BY <1>1, <2>1, <2>2
<1> HIDE DEF o, p
<1>4. ASSUME NEW i \in 1..Len(o)
      PROVE  p[i].topic = o[i].topic /\ (o[i].topic # k => p[i] = o[i])
  <2>1. CASE i <= Len(wire)
    BY <1>3, <2>1
  <2>2. CASE i > Len(wire)
    <3>1. PICK j \in 1..Len(queue) : i = Len(wire) + j
      <4>1. i - Len(wire) \in 1..Len(queue) /\ i = Len(wire) + (i - Len(wire))
        BY <1>3, <2>2
      <4> QED  BY <4>1
    <3> QED  BY <1>2, <1>3, <3>1
  <2> QED  BY <1>3, <2>1, <2>2
<1>5. ASSUME NEW t PROVE Of(q, t) = Of(queue, t) /\ Of(p, t) = Of(o, t)
  <2>1. /\ Of(q, t) = {i \in 1..Len(q) : q[i].topic = t}
        /\ Of(queue, t) = {i \in 1..Len(queue) : queue[i].topic = t}
        /\ Of(p, t) = {i \in 1..Len(p) : p[i].topic = t}
        /\ Of(o, t) = {i \in 1..Len(o) : o[i].topic = t}
    BY <1>1, <1>3, FramesHaveTopics
  <2> QED  BY <1>1, <1>2, <1>3, <1>4, <2>1
<1>6. ASSUME NEW i \in Of(queue, k) PROVE Len(wire) + i \in Of(o, k) /\ p[Len(wire) + i].n = v
  <2>1. i \in 1..Len(queue) /\ queue[i].topic = k
    BY <1>1, FramesHaveTopics
  <2>2. Len(wire) + i \in 1..Len(o) /\ o[Len(wire) + i].topic = k /\ p[Len(wire) + i].n = v
    BY <1>2, <1>3, <2>1
  <2> QED  BY <1>3, <2>2, FramesHaveTopics
<1> QED  BY <1>1, <1>3, <1>4, <1>5, <1>6 DEF o, p, q

(* The order of the occurrences through a push.                            *)
LEMMA OrderBehindKey ==
  ASSUME NEW o \in Seq(Frame), NEW T, InOrder(o, T), NEW f \in Frame, f.topic # Occurrences
  PROVE  InOrder(Append(o, f), T)
<1> DEFINE p == Append(o, f)
<1>1. {i \in {Len(o) + 1} : f.topic = Occurrences} = {}
  OBVIOUS
<1>2. Of(p, Occurrences) = Of(o, Occurrences) \cup {i \in {Len(o) + 1} : f.topic = Occurrences}
  BY OfAppended
<1>3. /\ Of(o, Occurrences) \subseteq 1..Len(o)
      /\ \A i \in 1..Len(o) : p[i] = o[i]
  BY FramesHaveTopics, OfAppended
<1> HIDE DEF p
<1>4. Of(p, Occurrences) = Of(o, Occurrences)
  BY <1>1, <1>2
<1> QED  BY <1>3, <1>4 DEF InOrder, p

LEMMA OrderBehindOccurrence ==
  ASSUME NEW o \in Seq(Frame), NEW T, InOrder(o, T), NEW r \in Nat, \A n \in T : n <= r
  PROVE  InOrder(Append(o, [topic |-> Occurrences, n |-> r + 1]), T \cup {r + 1})
<1> DEFINE f == [topic |-> Occurrences, n |-> r + 1]
           p == Append(o, f)
           new == Len(o) + 1
<1>1. f \in Frame /\ f.topic = Occurrences /\ f.n = r + 1
  BY NewIsFrame DEF Topic
<1> HIDE DEF f
<1>2. {i \in {new} : f.topic = Occurrences} = {new}
  BY <1>1
<1>3. Of(p, Occurrences) = Of(o, Occurrences) \cup {i \in {new} : f.topic = Occurrences}
  BY <1>1, OfAppended
<1>4. /\ Of(o, Occurrences) \subseteq 1..Len(o) /\ Len(o) \in Nat
      /\ \A i \in 1..Len(o) : p[i] = o[i] /\ o[i].n \in Nat
      /\ p[new] = f
  BY <1>1, FramesHaveTopics, OfAppended
<1> HIDE DEF p, new
<1>5. Of(p, Occurrences) = Of(o, Occurrences) \cup {new}
  BY <1>2, <1>3
<1>6. {p[i].n : i \in Of(p, Occurrences)} = T \cup {r + 1}
  BY <1>1, <1>4, <1>5 DEF InOrder
<1>7. ASSUME NEW i \in Of(p, Occurrences), NEW j \in Of(p, Occurrences), i < j
      PROVE  p[i].n < p[j].n
  <2>1. i \in Of(o, Occurrences) /\ p[i].n \in T /\ p[i].n \in Nat
    BY <1>4, <1>5, <1>7 DEF InOrder, new
  <2>2. CASE j = new
    BY <1>1, <1>4, <2>1, <2>2
  <2>3. CASE j # new
    BY <1>4, <1>5, <1>7, <2>1, <2>3 DEF InOrder
  <2> QED  BY <2>2, <2>3
<1> QED  BY <1>6, <1>7 DEF InOrder, p, f

LEMMA OrderFolded ==
  ASSUME Waiting, NEW T, InOrder(wire \o queue, T), NEW k \in Key, NEW v \in Nat
  PROVE  InOrder(wire \o Fold(k, v), T)
<1> DEFINE o == wire \o queue
           p == wire \o Fold(k, v)
<1>1. /\ Of(p, Occurrences) = Of(o, Occurrences)
      /\ \A i \in 1..Len(o) : o[i].topic # k => p[i] = o[i]
  BY FoldHands
<1>2. o \in Seq(Frame) /\ k # Occurrences
  BY Behind, EgressAssumption DEF Waiting, TypeOK
<1> HIDE DEF o, p
<1>3. \A i \in Of(o, Occurrences) : p[i] = o[i]
  BY <1>1, <1>2, FramesHaveTopics
<1> QED  BY <1>1, <1>3 DEF InOrder, o, p

(* A frame written past a queue, and the places before and behind it.      *)
LEMMA PlacesPast ==
  ASSUME NEW s \in Seq(Frame), NEW q \in Seq(Frame), NEW f \in Frame
  PROVE  LET o == s \o q
             p == Append(s, f) \o q
         IN  /\ o \in Seq(Frame) /\ p \in Seq(Frame)
             /\ Len(o) = Len(s) + Len(q) /\ Len(p) = Len(o) + 1
             /\ Len(s) \in Nat /\ Len(q) \in Nat
             /\ \A i \in 1..Len(s) : p[i] = o[i]
             /\ p[Len(s) + 1] = f
             /\ \A i \in (Len(s) + 1)..Len(o) : p[i + 1] = o[i]
             /\ \A i \in 1..Len(q) : o[Len(s) + i] = q[i]
<1> DEFINE w == Append(s, f)
           o == s \o q
           p == w \o q
<1>1. w \in Seq(Frame) /\ Len(w) = Len(s) + 1 /\ w[Len(s) + 1] = f
      /\ \A i \in 1..Len(s) : w[i] = s[i]
  BY OfAppended
<1> HIDE DEF w
<1>2. /\ o \in Seq(Frame) /\ Len(o) = Len(s) + Len(q)
      /\ Len(s) \in Nat /\ Len(q) \in Nat
      /\ \A i \in 1..Len(s) : o[i] = s[i]
      /\ \A i \in 1..Len(q) : o[Len(s) + i] = q[i]
  BY Behind
<1>3. /\ p \in Seq(Frame) /\ Len(p) = Len(w) + Len(q)
      /\ \A i \in 1..Len(w) : p[i] = w[i]
      /\ \A i \in 1..Len(q) : p[Len(w) + i] = q[i]
  BY <1>1, Behind
<1> HIDE DEF o, p
<1>4. ASSUME NEW i \in (Len(s) + 1)..Len(o) PROVE p[i + 1] = o[i]
  <2>1. PICK j \in 1..Len(q) : i = Len(s) + j
    <3>1. i - Len(s) \in 1..Len(q) /\ i = Len(s) + (i - Len(s))
      BY <1>2
    <3> QED  BY <3>1
  <2>2. i + 1 = Len(w) + j
    BY <1>1, <1>2, <2>1
  <2> QED  BY <1>2, <1>3, <2>1, <2>2
<1>5. /\ Len(p) = Len(o) + 1 /\ p[Len(s) + 1] = f
      /\ \A i \in 1..Len(s) : p[i] = o[i]
  BY <1>1, <1>2, <1>3
<1> QED  BY <1>2, <1>3, <1>4, <1>5 DEF o, p, w

LEMMA OrderPast ==
  ASSUME NEW s \in Seq(Frame), NEW q \in Seq(Frame), NEW T, InOrder(s \o q, T),
         NEW f \in Frame, f.topic # Occurrences
  PROVE  InOrder(Append(s, f) \o q, T)
<1> DEFINE o == s \o q
           p == Append(s, f) \o q
<1>1. /\ o \in Seq(Frame) /\ p \in Seq(Frame)
      /\ Len(o) = Len(s) + Len(q) /\ Len(p) = Len(o) + 1
      /\ Len(s) \in Nat /\ Len(q) \in Nat
      /\ \A i \in 1..Len(s) : p[i] = o[i]
      /\ p[Len(s) + 1] = f
      /\ \A i \in (Len(s) + 1)..Len(o) : p[i + 1] = o[i]
  BY PlacesPast
<1> HIDE DEF o, p
<1>2. /\ Of(o, Occurrences) = {i \in 1..Len(o) : o[i].topic = Occurrences}
      /\ Of(p, Occurrences) = {i \in 1..Len(p) : p[i].topic = Occurrences}
      /\ \A i \in 1..Len(o) : o[i].n \in Nat
  BY <1>1, FramesHaveTopics
<1> DEFINE was(i) == IF i <= Len(s) THEN i ELSE i - 1
<1>3. ASSUME NEW i \in Of(p, Occurrences)
      PROVE  i # Len(s) + 1 /\ was(i) \in Of(o, Occurrences) /\ p[i] = o[was(i)]
  <2>1. i \in 1..Len(p) /\ i # Len(s) + 1
    BY <1>1, <1>2
  <2>2. CASE i <= Len(s)
    BY <1>1, <1>2, <2>1, <2>2
  <2>3. CASE i > Len(s) + 1
    <3>1. i - 1 \in (Len(s) + 1)..Len(o) /\ (i - 1) + 1 = i
      BY <1>1, <2>1, <2>3
    <3>2. p[i] = o[i - 1] /\ i - 1 \in 1..Len(o) /\ was(i) = i - 1
      BY <1>1, <2>3, <3>1
    <3> QED  BY <1>2, <2>1, <3>2
  <2> QED  BY <1>1, <2>1, <2>2, <2>3
<1>4. ASSUME NEW i \in Of(o, Occurrences)
      PROVE  \E j \in Of(p, Occurrences) : p[j] = o[i]
  <2>1. CASE i <= Len(s)
    BY <1>1, <1>2, <2>1
  <2>2. CASE i > Len(s)
    <3>1. i \in (Len(s) + 1)..Len(o) /\ i + 1 \in 1..Len(p)
      BY <1>1, <1>2, <2>2
    <3> QED  BY <1>1, <1>2, <3>1
  <2> QED  BY <1>1, <1>2, <2>1, <2>2
<1>5. {p[i].n : i \in Of(p, Occurrences)} = {o[i].n : i \in Of(o, Occurrences)}
  BY <1>3, <1>4
<1>6. ASSUME NEW i \in Of(p, Occurrences), NEW j \in Of(p, Occurrences), i < j
      PROVE  p[i].n < p[j].n
  <2>1. was(i) < was(j)
    BY <1>1, <1>2, <1>3, <1>6
  <2>2. /\ was(i) \in Of(o, Occurrences) /\ p[i] = o[was(i)]
        /\ was(j) \in Of(o, Occurrences) /\ p[j] = o[was(j)]
    BY <1>3
  <2> HIDE DEF was
  <2> QED  BY <2>1, <2>2 DEF InOrder, o
<1> QED  BY <1>5, <1>6 DEF InOrder, o, p

(* The last frame of a key through a push, a fold and a frame written past *)
(* the queue.                                                              *)
LEMMA LastBehind ==
  ASSUME NEW o \in Seq(Frame), NEW f \in Frame, NEW k, NEW v,
         IF f.topic = k THEN v = f.n ELSE EndsWith(o, k, v)
  PROVE  EndsWith(Append(o, f), k, v)
<1> DEFINE p == Append(o, f)
<1>1. /\ Of(p, k) = Of(o, k) \cup {i \in {Len(o) + 1} : f.topic = k}
      /\ Of(o, k) \subseteq 1..Len(o) /\ Len(o) \in Nat
      /\ \A i \in 1..Len(o) : p[i] = o[i]
      /\ p[Len(o) + 1] = f
  BY OfAppended, FramesHaveTopics
<1> HIDE DEF p
<1>2. CASE f.topic = k
  <2>1. Len(o) + 1 \in Of(p, k) /\ p[Len(o) + 1].n = v
    BY <1>1, <1>2
  <2>2. \A j \in Of(p, k) : j <= Len(o) + 1
    BY <1>1
  <2> QED  BY <2>1, <2>2 DEF EndsWith, p
<1>3. CASE f.topic # k
  <2>1. Of(p, k) = Of(o, k)
    BY <1>1, <1>3
  <2> QED  BY <1>1, <1>3, <2>1 DEF EndsWith, p
<1> QED  BY <1>2, <1>3

LEMMA LastFolded ==
  ASSUME Waiting, Books(queue, folded, kept), NEW k \in Key, k \in folded, NEW v \in Nat,
         NEW u \in Key, NEW w, IF u = k THEN w = v ELSE EndsWith(wire \o queue, u, w)
  PROVE  EndsWith(wire \o Fold(k, v), u, w)
<1> DEFINE o == wire \o queue
           p == wire \o Fold(k, v)
<1>1. /\ Of(p, u) = Of(o, u) /\ Len(p) = Len(o)
      /\ \A i \in 1..Len(o) : o[i].topic # k => p[i] = o[i]
      /\ \A i \in Of(queue, k) : Len(wire) + i \in Of(o, k) /\ p[Len(wire) + i].n = v
  BY FoldHands
<1>2. /\ queue \in Seq(Frame) /\ wire \in Seq(Frame) /\ o \in Seq(Frame)
      /\ Len(o) = Len(wire) + Len(queue) /\ Len(wire) \in Nat /\ Len(queue) \in Nat
      /\ \A i \in 1..Len(queue) : o[Len(wire) + i] = queue[i]
  BY Behind DEF Waiting, TypeOK
<1> HIDE DEF o, p
<1>3. CASE u = k
  <2>1. PICK i : Of(queue, k) = {i}
    <3>1. IsFiniteSet(Of(queue, k)) /\ Cardinality(Of(queue, k)) = 1
      BY <1>2, OfIsFinite DEF Books
    <3> QED  BY <3>1, FS_Singleton
  <2>2. Len(wire) + i \in Of(o, k) /\ p[Len(wire) + i].n = v
    BY <1>1, <2>1
  <2>3. ASSUME NEW j \in Of(o, k) PROVE j <= Len(wire) + i
    <3>1. j \in 1..Len(o) /\ o[j].topic = k /\ i \in 1..Len(queue)
      BY <1>2, <2>1, FramesHaveTopics
    <3>2. CASE j > Len(wire)
      <4>1. PICK h \in 1..Len(queue) : j = Len(wire) + h
        <5>1. j - Len(wire) \in 1..Len(queue) /\ j = Len(wire) + (j - Len(wire))
          BY <1>2, <3>1, <3>2
        <5> QED  BY <5>1
      <4>2. queue[h].topic = k
        BY <1>2, <3>1, <4>1
      <4>3. h \in Of(queue, k)
        BY <1>2, <4>2, FramesHaveTopics
      <4> QED  BY <1>2, <2>1, <3>1, <4>1, <4>3
    <3> QED  BY <1>2, <3>1, <3>2
  <2> QED  BY <1>1, <1>3, <2>2, <2>3 DEF EndsWith, p
<1>4. CASE u # k
  <2>1. PICK i \in Of(o, u) : (\A j \in Of(o, u) : j <= i) /\ o[i].n = w
    BY <1>4 DEF EndsWith, o
  <2>2. i \in 1..Len(o) /\ o[i].topic # k
    BY <1>2, <1>4, <2>1, FramesHaveTopics
  <2>3. p[i].n = w
    BY <1>1, <2>1, <2>2
  <2> QED  BY <1>1, <2>1, <2>3 DEF EndsWith, p
<1> QED  BY <1>3, <1>4

LEMMA LastPast ==
  ASSUME NEW s \in Seq(Frame), NEW q \in Seq(Frame), NEW f \in Frame, NEW k, NEW v,
         IF f.topic = k THEN v = f.n /\ Of(q, k) = {} ELSE EndsWith(s \o q, k, v)
  PROVE  EndsWith(Append(s, f) \o q, k, v)
<1> DEFINE o == s \o q
           p == Append(s, f) \o q
<1>1. /\ o \in Seq(Frame) /\ p \in Seq(Frame)
      /\ Len(o) = Len(s) + Len(q) /\ Len(p) = Len(o) + 1
      /\ Len(s) \in Nat /\ Len(q) \in Nat
      /\ \A i \in 1..Len(s) : p[i] = o[i]
      /\ p[Len(s) + 1] = f
      /\ \A i \in (Len(s) + 1)..Len(o) : p[i + 1] = o[i]
      /\ \A i \in 1..Len(q) : o[Len(s) + i] = q[i]
  BY PlacesPast
<1> HIDE DEF o, p
<1>2. /\ Of(o, k) = {i \in 1..Len(o) : o[i].topic = k}
      /\ Of(p, k) = {i \in 1..Len(p) : p[i].topic = k}
      /\ Of(q, k) = {i \in 1..Len(q) : q[i].topic = k}
  BY <1>1, FramesHaveTopics
<1>3. ASSUME NEW j \in Of(p, k), j > Len(s) + 1
      PROVE  j - 1 \in Of(o, k) /\ p[j] = o[j - 1]
             /\ j - 1 - Len(s) \in Of(q, k)
  <2>1. j - 1 \in (Len(s) + 1)..Len(o) /\ (j - 1) + 1 = j
    BY <1>1, <1>2, <1>3
  <2>2. p[j] = o[j - 1] /\ o[j - 1].topic = k /\ j - 1 \in 1..Len(o)
    BY <1>1, <1>2, <2>1
  <2>3. PICK h \in 1..Len(q) : h = j - 1 - Len(s) /\ Len(s) + h = j - 1
    <3>1. j - 1 - Len(s) \in 1..Len(q) /\ Len(s) + (j - 1 - Len(s)) = j - 1
      BY <1>1, <2>1
    <3> QED  BY <3>1
  <2>4. q[h].topic = k
    BY <1>1, <2>2, <2>3
  <2> QED  BY <1>2, <2>2, <2>3, <2>4
<1>4. CASE f.topic = k
  <2>1. Len(s) + 1 \in Of(p, k) /\ p[Len(s) + 1].n = v
    BY <1>1, <1>2, <1>4
  <2>2. \A j \in Of(p, k) : j <= Len(s) + 1
    BY <1>1, <1>2, <1>3, <1>4
  <2> QED  BY <2>1, <2>2 DEF EndsWith, p
<1>5. CASE f.topic # k
  <2>1. PICK i \in Of(o, k) : (\A j \in Of(o, k) : j <= i) /\ o[i].n = v
    BY <1>5 DEF EndsWith, o
  <2>2. \A j \in Of(p, k) : j <= Len(s) => j \in Of(o, k)
    BY <1>1, <1>2
  <2>3. Len(s) + 1 \notin Of(p, k)
    BY <1>1, <1>2, <1>5
  <2>4. CASE i <= Len(s)
    <3>1. i \in Of(p, k) /\ p[i].n = v
      BY <1>1, <1>2, <2>1, <2>4
    <3>2. ASSUME NEW j \in Of(p, k) PROVE j <= i
      <4>1. j \in 1..Len(p) /\ j # Len(s) + 1
        BY <1>2, <2>3
      <4>2. CASE j <= Len(s)
        BY <2>1, <2>2, <4>2
      <4>3. CASE j > Len(s) + 1
        <5>1. j - 1 \in Of(o, k) /\ j - 1 <= i
          BY <1>3, <2>1, <4>3
        <5> QED  BY <1>1, <1>2, <2>1, <2>4, <4>1, <4>3, <5>1
      <4>4. j \in Nat /\ Len(s) \in Nat
        BY <1>1, <4>1
      <4> QED  BY <4>1, <4>2, <4>3, <4>4
    <3> QED  BY <3>1, <3>2 DEF EndsWith, p
  <2>5. CASE i > Len(s)
    <3>1. i \in (Len(s) + 1)..Len(o) /\ i + 1 \in 1..Len(p)
      BY <1>1, <1>2, <2>1, <2>5
    <3>2. p[i + 1] = o[i]
      BY <1>1, <3>1
    <3>3. i + 1 \in Of(p, k) /\ p[i + 1].n = v
      BY <1>2, <2>1, <3>1, <3>2
    <3>4. ASSUME NEW j \in Of(p, k) PROVE j <= i + 1
      <4>1. CASE j > Len(s) + 1
        <5>1. j - 1 \in Of(o, k)
          BY <1>3, <4>1
        <5> QED  BY <1>1, <1>2, <2>1, <3>1, <5>1
      <4>2. CASE j <= Len(s) + 1
        BY <1>1, <1>2, <3>1, <4>2
      <4> QED  BY <1>1, <1>2, <4>1, <4>2
    <3> QED  BY <3>3, <3>4 DEF EndsWith, p
  <2> QED  BY <1>1, <1>2, <2>1, <2>4, <2>5
<1> QED  BY <1>4, <1>5

-----------------------------------------------------------------------------
LEMMA HandedFacts ==
  ASSUME Handed
  PROVE  /\ queue \in Seq(Frame) /\ wire \in Seq(Frame) /\ wire \o queue \in Seq(Frame)
         /\ folded \subseteq Key /\ sub \subseteq Topic
         /\ version \in [Key -> Nat] /\ raised \in Nat /\ opened \in [Topic -> Nat]
         /\ taken \subseteq Nat /\ Occurrences \notin Key /\ Key \subseteq Topic
         /\ Occurrences \in Topic
BY Behind, EgressAssumption DEF Handed, Waiting, TypeOK, Topic

(* One step of each kind.                                                  *)
LEMMA StateHands == ASSUME Handed, NEW k \in Key, State(k), Waiting' PROVE Handed'
<1> DEFINE v == version[k] + 1
           f == [topic |-> k, n |-> v]
<1>1. /\ v \in Nat /\ f \in Frame /\ f.topic = k /\ f.n = v /\ k # Occurrences
      /\ version' = [version EXCEPT ![k] = v]
      /\ UNCHANGED <<sub, left, taken, raised, opened>>
      /\ left = "no"
  BY HandedFacts, NewIsFrame DEF State
<1>2. /\ version'[k] = v
      /\ \A u \in Key : u # k => version'[u] = version[u]
  BY <1>1, HandedFacts
<1>3. CASE k \notin sub
  <2>1. UNCHANGED <<queue, folded, kept, wire>>
    BY <1>3 DEF State
  <2>2. \A u \in Key \cap sub : version'[u] = version[u]
    BY <1>2, <1>3
  <2> QED  BY <1>1, <2>1, <2>2 DEF Handed, TakenWasRaised, NothingUnasked
<1>4. CASE k \in sub
  <2>1. opened[k] # 0
    BY <1>4 DEF Handed, NothingUnasked
  <2>2. /\ Books(queue', folded', kept')
        /\ InOrder(wire' \o queue', taken')
        /\ \A u \in Key : u # k => Of(queue', u) \subseteq Of(queue, u)
        /\ \A u \in Key \cap sub : opened[u] = 1 => EndsWith(wire' \o queue', u, version'[u])
    <3>1. CASE k \in folded
      <4>1. Fold(k, v) \in Seq(Frame) /\ \A t : Of(Fold(k, v), t) = Of(queue, t)
        BY <1>1, FoldHands DEF Handed
      <4>2. Books(Fold(k, v), folded, kept)
        BY <4>1 DEF Handed, Books
      <4>3. Arm(Fold(k, v), folded, kept)
        BY <1>4, <3>1 DEF State, PushFold
      <4>4. /\ wire' \o queue' = wire \o Fold(k, v) /\ Books(queue', folded', kept')
            /\ queue' \in {Fold(k, v), <<>>}
        BY <4>1, <4>2, <4>3, ArmHands DEF Handed
      <4>5. InOrder(wire \o Fold(k, v), taken)
        BY <1>1, OrderFolded DEF Handed
      <4>6. ASSUME NEW u \in Key \cap sub, opened[u] = 1
            PROVE  EndsWith(wire \o Fold(k, v), u, version'[u])
        <5>1. IF u = k THEN version'[u] = v ELSE EndsWith(wire \o queue, u, version'[u])
          BY <1>1, <1>2, <4>6 DEF Handed
        <5> HIDE DEF v
        <5> QED  BY <1>1, <3>1, <5>1, LastFolded DEF Handed
      <4>7. \A u : Of(queue', u) \subseteq Of(queue, u)
        BY <4>1, <4>4, OfNothing
      <4> QED  BY <1>1, <4>4, <4>5, <4>6, <4>7
    <3>2. CASE k \notin folded
      <4>1. Books(Append(queue, f), folded \cup {k}, kept)
        BY <1>1, <3>2, KeyIsBooked DEF Handed
      <4>2. Arm(Append(queue, f), folded \cup {k}, kept)
        BY <1>4, <3>2 DEF State, PushFold
      <4>3. /\ wire' \o queue' = Append(wire \o queue, f) /\ Books(queue', folded', kept')
            /\ \A u : u # k => Of(queue', u) \subseteq Of(queue, u)
        BY <1>1, <4>1, <4>2, HandedFacts, AppendHands DEF Handed
      <4> HIDE DEF f
      <4>4. InOrder(Append(wire \o queue, f), taken)
        BY <1>1, HandedFacts, OrderBehindKey DEF Handed
      <4>5. ASSUME NEW u \in Key \cap sub, opened[u] = 1
            PROVE  EndsWith(Append(wire \o queue, f), u, version'[u])
        <5>1. IF f.topic = u THEN version'[u] = f.n ELSE EndsWith(wire \o queue, u, version'[u])
          BY <1>1, <1>2, <4>5 DEF Handed
        <5> QED  BY <1>1, <5>1, HandedFacts, LastBehind
      <4> QED  BY <1>1, <4>3, <4>4, <4>5
    <3> QED  BY <3>1, <3>2
  <2> QED  BY <1>1, <2>1, <2>2 DEF Handed, TakenWasRaised, NothingUnasked
<1> QED  BY <1>3, <1>4

LEMMA RaiseHands == ASSUME Handed, Raise, Waiting' PROVE Handed'
<1> DEFINE n == raised + 1
           f == [topic |-> Occurrences, n |-> n]
<1>1. /\ n \in Nat /\ f \in Frame /\ f.topic = Occurrences /\ raised' = n /\ n > raised
      /\ UNCHANGED <<sub, left, version, opened>> /\ left = "no"
  BY HandedFacts, NewIsFrame DEF Raise
<1>2. CASE Occurrences \in sub /\ ~Full
  <2>1. /\ Arm(Append(queue, f), folded, kept + 1) /\ taken' = taken \cup {n}
    BY <1>2 DEF Raise, PushKept
  <2>2. Books(Append(queue, f), folded, kept + 1)
    BY <1>1, OccurrenceIsBooked DEF Handed
  <2>3. /\ wire' \o queue' = Append(wire \o queue, f) /\ Books(queue', folded', kept')
        /\ \A u : u # Occurrences => Of(queue', u) \subseteq Of(queue, u)
    BY <1>1, <2>1, <2>2, HandedFacts, AppendHands DEF Handed
  <2>4. InOrder(Append(wire \o queue, f), taken \cup {n})
    BY <1>1, HandedFacts, OrderBehindOccurrence DEF Handed, TakenWasRaised
  <2> HIDE DEF f
  <2>5. ASSUME NEW u \in Key \cap sub, opened[u] = 1
        PROVE  EndsWith(Append(wire \o queue, f), u, version[u])
    <3>1. f.topic # u /\ EndsWith(wire \o queue, u, version[u])
      BY <1>1, <2>5, HandedFacts DEF Handed
    <3> QED  BY <1>1, <3>1, HandedFacts, LastBehind
  <2>6. TakenWasRaised'
    <3>1. \A m \in taken : m \in Nat /\ m <= raised
      BY HandedFacts DEF Handed, TakenWasRaised
    <3> QED  BY <1>1, <2>1, <3>1, HandedFacts DEF TakenWasRaised
  <2>7. NothingUnasked'
    BY <1>1, <2>3, HandedFacts DEF Handed, NothingUnasked
  <2> QED  BY <1>1, <2>1, <2>3, <2>4, <2>5, <2>6, <2>7 DEF Handed
<1>3. CASE ~(Occurrences \in sub /\ ~Full)
  <2>1. UNCHANGED <<queue, folded, kept, wire, taken>>
    BY <1>3 DEF Raise, PushKept
  <2>2. TakenWasRaised'
    <3>1. \A m \in taken : m \in Nat /\ m <= raised
      BY HandedFacts DEF Handed, TakenWasRaised
    <3> QED  BY <1>1, <2>1, <3>1, HandedFacts DEF TakenWasRaised
  <2> QED  BY <1>1, <2>1, <2>2 DEF Handed, NothingUnasked
<1> QED  BY <1>2, <1>3

LEMMA TimerHands == ASSUME Handed, Timer, Waiting' PROVE Handed'
<1>1. /\ queue' = <<>> /\ folded' = {} /\ kept' = 0 /\ wire' = wire \o queue
      /\ UNCHANGED <<sub, left, version, taken, raised, opened>>
  BY DEF Timer, Flush
<1>2. wire' \o queue' = wire \o queue
  BY <1>1, HandedFacts, BehindNothing
<1> QED  BY <1>1, <1>2, OfNothing DEF Handed, Books, TakenWasRaised, NothingUnasked

LEMMA SubscribeHands ==
  ASSUME Handed, NEW t \in Topic, Subscribe(t), Waiting' PROVE Handed'
<1>1. /\ opened' = [opened EXCEPT ![t] = @ + 1] /\ sub' = sub \cup {t} /\ left = "no"
      /\ UNCHANGED <<queue, folded, kept, left, version, taken, raised>>
  BY DEF Subscribe
<1>2. /\ opened'[t] = opened[t] + 1 /\ \A u \in Topic : u # t => opened'[u] = opened[u]
      /\ opened[t] \in Nat
  BY <1>1, HandedFacts
<1>3. NothingUnasked'
  BY <1>1, <1>2, HandedFacts DEF Handed, NothingUnasked
<1>4. CASE t \notin Key
  <2>1. wire' = wire
    BY <1>4 DEF Subscribe
  <2>2. \A u \in Key \cap sub' : u \in sub /\ opened'[u] = opened[u]
    BY <1>1, <1>2, <1>4, HandedFacts
  <2> QED  BY <1>1, <1>3, <2>1, <2>2 DEF Handed, TakenWasRaised
<1>5. CASE t \in Key
  <2> DEFINE f == [topic |-> t, n |-> version[t]]
  <2>1. f \in Frame /\ f.topic = t /\ f.n = version[t] /\ t # Occurrences
    BY <1>5, HandedFacts, NewIsFrame
  <2>2. wire' = Append(wire, f)
    BY <1>5 DEF Subscribe
  <2> HIDE DEF f
  <2>3. InOrder(Append(wire, f) \o queue, taken)
    BY <1>1, <2>1, HandedFacts, OrderPast DEF Handed
  <2>4. ASSUME NEW u \in Key \cap sub', opened'[u] = 1
        PROVE  EndsWith(Append(wire, f) \o queue, u, version[u])
    <3>1. CASE u = t
      <4>1. opened[t] = 0
        BY <1>2, <2>4, <3>1
      <4>2. Of(queue, u) = {}
        BY <1>5, <3>1, <4>1 DEF Handed, NothingUnasked
      <4> QED  BY <2>1, <3>1, <4>2, HandedFacts, LastPast
    <3>2. CASE u # t
      <4>1. u \in sub /\ opened[u] = 1
        BY <1>1, <1>2, <2>4, <3>2, HandedFacts
      <4>2. EndsWith(wire \o queue, u, version[u])
        BY <1>1, <4>1 DEF Handed
      <4> QED  BY <2>1, <3>2, <4>2, HandedFacts, LastPast
    <3> QED  BY <3>1, <3>2
  <2> QED  BY <1>1, <1>3, <2>2, <2>3, <2>4 DEF Handed, TakenWasRaised
<1> QED  BY <1>4, <1>5

LEMMA UnsubscribeHands ==
  ASSUME Handed, NEW t \in Topic, Unsubscribe(t), Waiting' PROVE Handed'
<1>1. /\ sub' = sub \ {t} /\ UNCHANGED <<queue, folded, kept, left, version, taken, raised,
                                         opened, wire>>
  BY DEF Unsubscribe
<1> QED  BY <1>1 DEF Handed, TakenWasRaised, NothingUnasked

LEMMA ReleaseHands ==
  ASSUME Handed, NEW how \in {"stopped", "closed"}, Release(how), Waiting' PROVE Handed'
<1>1. /\ left' = how /\ sub' = {} /\ queue' = <<>> /\ folded' = {} /\ kept' = 0
      /\ wire' = IF how = "stopped" THEN wire \o queue ELSE wire
      /\ left = "no" /\ UNCHANGED <<version, taken, raised, opened>>
  BY DEF Release
<1>2. left' # "closed" => wire' \o queue' = wire \o queue
  BY <1>1, HandedFacts, BehindNothing
<1> QED  BY <1>1, <1>2, OfNothing DEF Handed, Books, TakenWasRaised, NothingUnasked

LEMMA HandedInit == Init => Handed
<1> SUFFICES ASSUME Init PROVE Handed
  OBVIOUS
<1>1. queue = <<>> /\ wire = <<>> /\ folded = {} /\ kept = 0 /\ taken = {} /\ sub = {}
  BY DEF Init
<1>2. wire \o queue = <<>>
  BY <1>1
<1> QED  BY <1>1, <1>2, WaitingInit, OfNothing
         DEF Handed, Books, InOrder, TakenWasRaised, NothingUnasked

LEMMA HandedStep == Handed /\ [Next]_vars => Handed'
<1> SUFFICES ASSUME Handed, [Next]_vars PROVE Handed'
  OBVIOUS
<1>1. Waiting'
  BY WaitingStep DEF Handed
<1>2. CASE Quieten \/ UNCHANGED vars
  <2>1. UNCHANGED <<queue, folded, kept, sub, left, version, taken, raised, opened, wire>>
    BY <1>2 DEF Quieten, vars
  <2> QED  BY <1>1, <2>1 DEF Handed, TakenWasRaised, NothingUnasked
<1> QED  BY <1>1, <1>2, StateHands, RaiseHands, TimerHands, SubscribeHands,
            UnsubscribeHands, ReleaseHands DEF Next

(* What a terminal is handed leaves nothing out and hands nothing over     *)
(* twice, for any topics and any limit: the books match the queue,         *)
(* occurrences go out once each and in order, and a first subscription     *)
(* holds the latest value, however pushes, folds, opening frames, flushes  *)
(* and leavings interleave (Egress.push, flush, dropAll).                  *)
THEOREM TerminalMissesNothing ==
  Spec => [](BooksMatch /\ OccurrencesInOrder /\ FirstVisitHoldsLatest)
<1>1. Handed => BooksMatch /\ OccurrencesInOrder /\ FirstVisitHoldsLatest
  BY DEF Handed, Books, InOrder, EndsWith, BooksMatch, OccurrencesInOrder,
         FirstVisitHoldsLatest, HoldsLatest
<1> QED  BY <1>1, HandedInit, HandedStep, PTL DEF Spec

LEMMA HandedBegins == MCInit => Handed
BY HandedInit DEF MCInit, InitEgress, InitKv, InitRequests, InitStatus, InitSupervise

LEMMA HandedStays == Handed /\ [MCNext]_MCvars => Handed'
<1>1. [MCNext]_MCvars => [Next]_vars
  BY DEF MCNext, MCvars, vars, OnlyEgress, OnlyKv, OnlyRequests, OnlyStatus, OnlySupervise
<1> QED  BY <1>1, HandedStep

(* The same of the composition: whatever else the instance is doing, what   *)
(* waits and what is on the wire leave out no frame a terminal was to have  *)
(* (Egress.push, flush, Topics.subscribe).                                  *)
THEOREM FramesReachTheTerminal == MCSpec => []FramesReach
<1>1. Handed => FramesReach
  BY DEF Handed, Books, InOrder, EndsWith, BooksMatch, OccurrencesInOrder,
         FirstVisitHoldsLatest, HoldsLatest, FramesReach
<1> QED  BY <1>1, HandedBegins, HandedStays, PTL DEF MCSpec

-----------------------------------------------------------------------------
(* The supervisor: whatever requests, exits and deadlines interleave, no   *)
(* process is started beside another or lost sight of, a start that waits  *)
(* is served, and a stop that was answered stays.                          *)

(* What the values that stand for nothing, and the names of the requests,  *)
(* are in the code: null, and objects of their own.                        *)
Apart == NoDir \notin Dir /\ NoUnit \notin Unit /\ NoPid \notin Pid /\ Call \cap Unit = {}

-----------------------------------------------------------------------------
(* The parts of the inductive invariant.                                   *)

(* A unit has a loop exactly while something is due, awaited or waited     *)
(* out.                                                                    *)
LoopsRun == \A u \in Unit : unit[u].loops = 0 <=> unit[u].at = "idle"

(* The children are processes that were started and not reaped.            *)
ChildWasStarted == \A u \in Unit : unit[u].child # NoPid => proc[unit[u].child].st # "none"

(* The map of the supervisor and its units agree on the config home.       *)
HomesAgree == \A d \in Dir : units[d] # NoUnit => unit[units[d]].dir = d

(* A request under way names a unit that was put to use.                   *)
JobHasUnit ==
  \A j \in Call \cup Unit :
    call[j].pc # "free" => call[j].unit \in Unit /\ unit[call[j].unit].dir \in Dir

(* The process a request looks at is the child of its unit, and a request  *)
(* that signalled one still looks at it.                                   *)
LooksAtChild ==
  \A j \in Call \cup Unit :
    /\ call[j].pid # NoPid => /\ call[j].pc # "free" /\ call[j].unit \in Unit
                              /\ unit[call[j].unit].child = call[j].pid
    /\ call[j].pc \in {"sigterm", "sigkill"} => call[j].pid # NoPid

(* The shares of stop() end when their child is down; only they are theirs.*)
LeaveIsApart == \A u \in Unit : call[u] = U!Free \/ (call[u].op = "leave" /\ call[u].pc # "next")

(* A unit at rest: none of its loops would spawn.                          *)
AtRest(u) == unit[u].child = NoPid /\ (unit[u].at = "idle" \/ ~U!Wants(u))

(* Between the end of the loops a request waited for and its answer, and   *)
(* from the answer of a stop to the next start, nothing would spawn.       *)
EndedIsAtRest ==
  \A c \in Call : call[c].pc = "loop" /\ call[c].left = 0 => AtRest(call[c].unit)

StoppedIsAtRest == \A u \in stopped : AtRest(u)

Watched ==
  /\ U!TypeOK
  /\ LoopsRun
  /\ ChildWasStarted
  /\ U!ChildIsWatched
  /\ HomesAgree
  /\ JobHasUnit
  /\ LooksAtChild
  /\ LeaveIsApart
  /\ U!WaitIsServed
  /\ EndedIsAtRest
  /\ StoppedIsAtRest

-----------------------------------------------------------------------------
(* Most steps leave the units as they are but for a backoff cut short and  *)
(* a wish withdrawn, start and reap no process, and move requests on.      *)
UnitsRest ==
  /\ \A v \in Unit : /\ unit'[v].dir = unit[v].dir
                     /\ unit'[v].child = unit[v].child
                     /\ unit'[v].loops = unit[v].loops
                     /\ unit'[v].at = unit[v].at \/ (unit[v].at = "pause" /\ unit'[v].at = "due")
                     /\ U!Wants(v)' => U!Wants(v)
  /\ \A d \in Dir : units'[d] \in {units[d], NoUnit}
  /\ \A q \in Pid : proc'[q].st = "none" <=> proc[q].st = "none"

(* A request is answered, begins to stop the child of a unit in use, or    *)
(* goes on with its child.                                                 *)
BeginsStop(j) ==
  /\ call'[j].pc = "asking"
  /\ call'[j].unit \in Unit /\ unit[call'[j].unit].dir \in Dir
  /\ call'[j].pid = unit[call'[j].unit].child
  /\ j \in Unit => call'[j].op = "leave"

GoesOn(j) ==
  /\ call[j].pc # "free"
  /\ call'[j].unit = call[j].unit /\ call'[j].pid = call[j].pid /\ call'[j].op = call[j].op
  /\ call'[j].pc \notin {"free", "next"}
  /\ call'[j].pc \in {"sigterm", "sigkill"} => call[j].pid # NoPid
  /\ call'[j].pc = "loop" /\ call'[j].left = 0 => AtRest(call[j].unit)

JobsMove ==
  \A j \in Call \cup Unit :
    call'[j] = call[j] \/ call'[j] = U!Free \/ BeginsStop(j) \/ GoesOn(j)

LEMMA MovesKeep ==
  ASSUME Apart, Watched, U!TypeOK', UnitsRest, JobsMove,
         \A u \in stopped' : u \in stopped \/ AtRest(u)
  PROVE  Watched'
<1>1. LoopsRun'
  BY DEF Watched, LoopsRun, UnitsRest
<1>2. ChildWasStarted'
  BY DEF Watched, ChildWasStarted, UnitsRest, U!TypeOK, U!Supervised
<1>3. U!ChildIsWatched'
  BY DEF Watched, U!ChildIsWatched, UnitsRest
<1>4. HomesAgree'
  BY DEF Watched, HomesAgree, UnitsRest, U!TypeOK
<1>5. JobHasUnit'
  BY DEF Watched, JobHasUnit, UnitsRest, JobsMove, BeginsStop, GoesOn, U!Free
<1>6. LooksAtChild'
  BY DEF Watched, LooksAtChild, UnitsRest, JobsMove, BeginsStop, GoesOn, U!Free
<1>7. LeaveIsApart'
  BY DEF Watched, LeaveIsApart, JobsMove, BeginsStop, GoesOn, U!Free
<1>8. U!WaitIsServed'
  BY DEF Watched, U!WaitIsServed, JobHasUnit, UnitsRest, JobsMove, BeginsStop, GoesOn, U!Free
<1>9. ASSUME NEW v \in Unit, AtRest(v)  PROVE AtRest(v)'
  BY <1>9 DEF AtRest, UnitsRest
<1>10. EndedIsAtRest'
  BY <1>9 DEF Watched, EndedIsAtRest, JobHasUnit, JobsMove, BeginsStop, GoesOn, U!Free
<1>11. StoppedIsAtRest'
  BY <1>9 DEF Watched, StoppedIsAtRest, U!TypeOK
<1> QED
  BY <1>1, <1>2, <1>3, <1>4, <1>5, <1>6, <1>7, <1>8, <1>10, <1>11 DEF Watched

LEMMA SpawnKeeps == ASSUME Apart, Watched, NEW u \in Unit, U!Spawn(u) PROVE Watched'
<1> DEFINE p == CHOOSE q \in Pid : proc[q].st = "none"
<1>1. p \in Pid /\ proc[p].st = "none"
  BY DEF U!Spawn
<1> HIDE DEF p
<1>2. /\ unit[u].at = "due" /\ U!Wants(u)
      /\ proc' = [proc EXCEPT ![p] = [st |-> "starting", dir |-> unit[u].dir]]
      /\ unit' = [unit EXCEPT ![u].child = p, ![u].at = "child"]
      /\ call' = [j \in Call \cup Unit |->
                    IF call[j].pc = "next" /\ call[j].unit = u
                    THEN [call[j] EXCEPT !.pc = "socket", !.pid = p]
                    ELSE call[j]]
      /\ UNCHANGED <<units, lock, leaving, gone, stopped>>
  BY DEF U!Spawn, p
<1>3. unit[u].child = NoPid /\ unit[u].loops # 0
  BY <1>2 DEF Watched, U!ChildIsWatched, LoopsRun
<1>4. U!TypeOK'
  <2>0. /\ unit \in [Unit -> U!Supervised] /\ call \in [Call \cup Unit -> U!Job]
        /\ proc \in [Pid -> U!Process]
    BY DEF Watched, U!TypeOK
  <2>1. unit' \in [Unit -> U!Supervised]
    <3> DEFINE w == [unit[u] EXCEPT !.child = p, !.at = "child"]
    <3>1. w \in U!Supervised
      BY <1>1, <2>0 DEF U!Supervised
    <3>2. unit' = [unit EXCEPT ![u] = w]
      BY <1>2, <2>0
    <3> HIDE DEF w
    <3> QED  BY <2>0, <3>1, <3>2
  <2>2. proc' \in [Pid -> U!Process]
    <3>1. [st |-> "starting", dir |-> unit[u].dir] \in U!Process
      BY <2>0 DEF U!Supervised, U!Process
    <3> QED  BY <1>2, <2>0, <3>1
  <2>3. call' \in [Call \cup Unit -> U!Job]
    <3>1. ASSUME NEW j \in Call \cup Unit PROVE [call[j] EXCEPT !.pc = "socket", !.pid = p] \in U!Job
      <4>1. call[j] \in U!Job
        BY <2>0
      <4> QED  BY <1>1, <4>1 DEF U!Job
    <3> QED  BY <1>2, <2>0, <3>1
  <2> QED  BY <1>2, <2>1, <2>2, <2>3 DEF Watched, U!TypeOK
<1>5. \A v \in Unit : /\ unit'[v].child = IF v = u THEN p ELSE unit[v].child
                      /\ unit'[v].at = IF v = u THEN "child" ELSE unit[v].at
                      /\ unit'[v].loops = unit[v].loops
                      /\ unit'[v].wanted = unit[v].wanted
                      /\ unit'[v].dir = unit[v].dir
  BY <1>2 DEF Watched, U!TypeOK, U!Supervised
<1>6. \A q \in Pid : proc'[q].st = IF q = p THEN "starting" ELSE proc[q].st
  BY <1>1, <1>2 DEF Watched, U!TypeOK, U!Process
<1>7. \A j \in Call \cup Unit :
        /\ call'[j].unit = call[j].unit
        /\ call'[j].op = call[j].op
        /\ call'[j].left = call[j].left
        /\ \/ call'[j] = call[j] /\ ~(call[j].pc = "next" /\ call[j].unit = u)
           \/ call[j].pc = "next" /\ call[j].unit = u /\ call'[j].pc = "socket" /\ call'[j].pid = p
  BY <1>2 DEF Watched, U!TypeOK, U!Job
<1>8. \A v \in Unit : unit[v].child # p
  BY <1>1 DEF Watched, ChildWasStarted, Apart
<1>9. LoopsRun'
  BY <1>3, <1>5 DEF Watched, LoopsRun
<1>10. ChildWasStarted'
  BY <1>1, <1>5, <1>6, <1>8 DEF Watched, ChildWasStarted, U!TypeOK, U!Supervised
<1>11. U!ChildIsWatched'
  BY <1>1, <1>3, <1>5, <1>6, <1>8 DEF Watched, U!ChildIsWatched, Apart
<1>12. HomesAgree'
  <2>1. units' = units /\ \A d \in Dir : units[d] # NoUnit => units[d] \in Unit
    BY <1>2 DEF Watched, U!TypeOK
  <2>2. \A d \in Dir : units[d] # NoUnit => unit[units[d]].dir = d
    BY DEF Watched, HomesAgree
  <2> QED  BY <1>5, <2>1, <2>2 DEF HomesAgree
<1>13. JobHasUnit'
  BY <1>5, <1>7 DEF Watched, JobHasUnit
<1>14. LooksAtChild'
  BY <1>1, <1>3, <1>5, <1>7 DEF Watched, LooksAtChild
<1>15. LeaveIsApart'
  BY <1>7 DEF Watched, LeaveIsApart, U!Free
<1>16. U!WaitIsServed'
  BY <1>5, <1>7 DEF Watched, U!WaitIsServed, JobHasUnit
<1>17. ASSUME NEW v \in Unit, AtRest(v)  PROVE AtRest(v)'
  BY <1>2, <1>5, <1>17 DEF AtRest, U!Wants
<1>18. EndedIsAtRest'
  BY <1>7, <1>17 DEF Watched, EndedIsAtRest, JobHasUnit
<1>19. StoppedIsAtRest'
  BY <1>2, <1>17 DEF Watched, StoppedIsAtRest, U!TypeOK
<1> QED
  BY <1>4, <1>9, <1>10, <1>11, <1>12, <1>13, <1>14, <1>15, <1>16, <1>18, <1>19
  DEF Watched
(* The loop of a unit that is not wanted ends; whoever waits for it hears. *)
LEMMA EndLoopKeeps == ASSUME Apart, Watched, NEW u \in Unit, U!EndLoop(u) PROVE Watched'
<1>1. /\ unit[u].at = "due" /\ ~U!Wants(u) /\ unit[u].loops \in Nat \ {0} /\ unit[u].child = NoPid
      /\ UNCHANGED <<units, proc, lock, leaving, gone, stopped>>
  BY DEF U!EndLoop, Watched, LoopsRun, U!ChildIsWatched, U!TypeOK, U!Supervised
<1>2. \A j \in Call \cup Unit : call'[j] = U!Abandoned(j, u)
  BY DEF U!EndLoop
<1>3. U!TypeOK'
  <2> DEFINE a == IF unit[u].loops = 1 THEN "idle" ELSE "due"
             n == unit[u].loops - 1
  <2>1. unit' \in [Unit -> U!Supervised]
    <3>1. a \in {"idle", "due", "child", "pause"} /\ n \in Nat
      BY <1>1
    <3>2. unit' = [unit EXCEPT ![u] = [@ EXCEPT !.loops = n, !.at = a]]
      BY DEF U!EndLoop, Watched, U!TypeOK
    <3>3. [unit[u] EXCEPT !.loops = n, !.at = a] \in U!Supervised
      <4> HIDE DEF a, n
      <4> QED  BY <3>1 DEF Watched, U!TypeOK, U!Supervised
    <3> QED  BY <3>2, <3>3 DEF Watched, U!TypeOK
  <2>2. \A j \in Call \cup Unit : U!Abandoned(j, u) \in U!Job
    BY DEF Watched, U!TypeOK, U!Job, U!Abandoned, U!Free
  <2> QED  BY <1>1, <2>1, <2>2 DEF U!EndLoop, Watched, U!TypeOK
<1>4. \A v \in Unit : /\ unit'[v].child = unit[v].child
                      /\ unit'[v].wanted = unit[v].wanted
                      /\ unit'[v].dir = unit[v].dir
                      /\ v # u => unit'[v] = unit[v]
  BY DEF U!EndLoop, Watched, U!TypeOK, U!Supervised
<1>5. /\ unit'[u].loops = unit[u].loops - 1
      /\ unit'[u].at = IF unit[u].loops = 1 THEN "idle" ELSE "due"
  BY DEF U!EndLoop, Watched, U!TypeOK, U!Supervised
<1>6. LoopsRun'
  BY <1>1, <1>4, <1>5 DEF Watched, LoopsRun
<1>7. ChildWasStarted'
  BY <1>1, <1>4 DEF Watched, ChildWasStarted
<1>8. U!ChildIsWatched'
  BY <1>1, <1>4, <1>5 DEF Watched, U!ChildIsWatched
<1>9. HomesAgree'
  BY <1>1, <1>4 DEF Watched, HomesAgree, U!TypeOK
<1>10. ASSUME NEW j \in Call \cup Unit
       PROVE  \/ call'[j] = call[j] /\ ~(call[j].unit = u /\ call[j].pc = "next")
              \/ call'[j] = U!Free
              \/ /\ call[j].unit = u /\ call[j].pc = "loop" /\ call'[j].pc = "loop"
                 /\ call'[j].unit = call[j].unit /\ call'[j].pid = call[j].pid
                 /\ call'[j].op = call[j].op
  BY <1>2 DEF U!Abandoned, Watched, U!TypeOK, U!Job
<1>11. JobHasUnit'
  BY <1>4, <1>10 DEF Watched, JobHasUnit, U!Free
<1>12. LooksAtChild'
  BY <1>4, <1>10 DEF Watched, LooksAtChild, U!Free
<1>13. LeaveIsApart'
  BY <1>10 DEF Watched, LeaveIsApart, U!Free
<1>14. U!WaitIsServed'
  BY <1>4, <1>10 DEF Watched, U!WaitIsServed, JobHasUnit, U!Free
<1>15. ASSUME NEW v \in Unit, AtRest(v) \/ v = u  PROVE AtRest(v)'
  BY <1>1, <1>4, <1>15 DEF AtRest, U!Wants
<1>16. EndedIsAtRest'
  BY <1>10, <1>15 DEF Watched, EndedIsAtRest, JobHasUnit, U!Free
<1>17. StoppedIsAtRest'
  BY <1>1, <1>15 DEF Watched, StoppedIsAtRest, U!TypeOK
<1> QED
  BY <1>3, <1>6, <1>7, <1>8, <1>9, <1>11, <1>12, <1>13, <1>14, <1>16, <1>17 DEF Watched

(* The exit of a child is noticed: nobody looks at it any more.            *)
LEMMA NoticedKeeps == ASSUME Apart, Watched, NEW u \in Unit, U!Noticed(u) PROVE Watched'
<1> DEFINE p == unit[u].child
<1>1. p \in Pid /\ unit[u].at = "child"
  BY DEF U!Noticed, Watched, U!TypeOK, U!Supervised, U!ChildIsWatched
<1> HIDE DEF p
<1>2. /\ unit[u].child = p
      /\ proc' = [proc EXCEPT ![p] = U!NoProcess]
      /\ unit' = [unit EXCEPT ![u].child = NoPid, ![u].at = IF U!Wants(u) THEN "pause" ELSE "due"]
      /\ call' = [j \in Call \cup Unit |-> U!Exited(j, p)]
      /\ UNCHANGED <<units, lock, leaving, gone, stopped>>
  BY DEF U!Noticed, p
<1>3. U!TypeOK'
  <2>1. unit' \in [Unit -> U!Supervised]
    <3> DEFINE a == IF U!Wants(u) THEN "pause" ELSE "due"
    <3>1. a \in {"idle", "due", "child", "pause"}
      OBVIOUS
    <3>2. unit \in [Unit -> U!Supervised]
      BY DEF Watched, U!TypeOK
    <3> HIDE DEF a
    <3> DEFINE w == [unit[u] EXCEPT !.child = NoPid, !.at = a]
    <3>3. w \in U!Supervised
      BY <3>1, <3>2 DEF U!Supervised
    <3>4. unit' = [unit EXCEPT ![u] = w]
      BY <1>2, <3>2 DEF a
    <3> HIDE DEF w
    <3> QED  BY <3>2, <3>3, <3>4
  <2>2. ASSUME NEW j \in Call \cup Unit  PROVE U!Exited(j, p) \in U!Job
    <3>1. call[j] \in U!Job
      BY DEF Watched, U!TypeOK
    <3>2. /\ U!Free \in U!Job /\ [call[j] EXCEPT !.pid = NoPid] \in U!Job
          /\ [call[j] EXCEPT !.pid = NoPid, !.pc = "down"] \in U!Job
      BY <3>1 DEF U!Job, U!Free
    <3> QED  BY <3>1, <3>2 DEF U!Exited
  <2>3. proc' \in [Pid -> U!Process]
    BY <1>2 DEF Watched, U!TypeOK, U!Process, U!NoProcess
  <2> QED  BY <1>2, <2>1, <2>2, <2>3 DEF Watched, U!TypeOK
<1>4. \A v \in Unit : /\ unit'[v].child = IF v = u THEN NoPid ELSE unit[v].child
                      /\ unit'[v].at = IF v # u THEN unit[v].at
                                       ELSE IF U!Wants(u) THEN "pause" ELSE "due"
                      /\ unit'[v].loops = unit[v].loops
                      /\ unit'[v].wanted = unit[v].wanted
                      /\ unit'[v].dir = unit[v].dir
  BY <1>2 DEF Watched, U!TypeOK, U!Supervised
<1>5. \A q \in Pid : proc'[q].st = IF q = p THEN "none" ELSE proc[q].st
  BY <1>2 DEF Watched, U!TypeOK, U!NoProcess
<1>6. \A v \in Unit : unit[v].child = p => v = u
  BY <1>1, <1>2 DEF Watched, U!ChildIsWatched, Apart
<1>7. LoopsRun'
  BY <1>1, <1>4 DEF Watched, LoopsRun
<1>8. ChildWasStarted'
  BY <1>4, <1>5, <1>6 DEF Watched, ChildWasStarted, U!TypeOK, U!Supervised
<1>9. U!ChildIsWatched'
  <2>1. ASSUME NEW q \in Pid, proc'[q].st # "none"  PROVE \E v \in Unit : unit'[v].child = q
    <3>1. q # p /\ proc[q].st # "none"
      BY <1>5, <2>1
    <3>2. PICK v \in Unit : unit[v].child = q
      BY <3>1 DEF Watched, U!ChildIsWatched
    <3> QED  BY <1>2, <1>4, <3>1, <3>2
  <2>2. \A v, w \in Unit : unit'[v].child = unit'[w].child /\ unit'[v].child # NoPid => v = w
    BY <1>4 DEF Watched, U!ChildIsWatched
  <2>3. \A v \in Unit : unit'[v].child # NoPid <=> unit'[v].at = "child"
    BY <1>4 DEF Watched, U!ChildIsWatched
  <2> QED  BY <2>1, <2>2, <2>3 DEF U!ChildIsWatched
<1>10. HomesAgree'
  BY <1>2, <1>4 DEF Watched, HomesAgree, U!TypeOK
<1>11. ASSUME NEW j \in Call \cup Unit
       PROVE  \/ call'[j] = call[j] /\ call[j].pid # p
              \/ call'[j] = U!Free
              \/ /\ call[j].pid = p /\ call'[j].pid = NoPid
                 /\ call'[j].unit = call[j].unit /\ call'[j].op = call[j].op
                 /\ call'[j].pc \in {"asking", "down"}
                 /\ call'[j].pc = "asking" => call[j].pc = "asking"
  <2>1. call[j] \in U!Job /\ call'[j] = U!Exited(j, p)
    BY <1>2 DEF Watched, U!TypeOK
  <2> QED  BY <2>1 DEF U!Exited, U!Job
<1>12. \A j \in Call \cup Unit : call[j].pid = p => call[j].unit = u
  BY <1>1, <1>6 DEF Watched, LooksAtChild, Apart
<1>13. \A j \in Call \cup Unit : call[j].pid = p => call[j].pc # "free"
  BY <1>1 DEF Watched, LooksAtChild, Apart
<1>14. JobHasUnit'
  BY <1>4, <1>11, <1>12, <1>13 DEF Watched, JobHasUnit, U!Free
<1>15. LooksAtChild'
  <2> SUFFICES ASSUME NEW j \in Call \cup Unit
      PROVE  /\ call'[j].pid # NoPid => /\ call'[j].pc # "free" /\ call'[j].unit \in Unit
                                        /\ unit'[call'[j].unit].child = call'[j].pid
             /\ call'[j].pc \in {"sigterm", "sigkill"} => call'[j].pid # NoPid
    BY DEF LooksAtChild
  <2>1. CASE call'[j] = call[j] /\ call[j].pid # p
    <3>1. unit[u].child = p
      BY <1>2
    <3> QED  BY <1>4, <2>1, <3>1 DEF Watched, LooksAtChild
  <2>2. CASE call'[j] = U!Free
    BY <2>2 DEF U!Free
  <2>3. CASE call'[j].pid = NoPid /\ call'[j].pc \in {"asking", "down"}
    BY <2>3
  <2> QED  BY <1>11, <2>1, <2>2, <2>3
<1>16. LeaveIsApart'
  BY <1>1, <1>11 DEF Watched, LeaveIsApart, U!Free, Apart
<1>17. U!WaitIsServed'
  BY <1>1, <1>4, <1>11 DEF Watched, U!WaitIsServed, JobHasUnit, U!Free
<1>18. ASSUME NEW v \in Unit, AtRest(v)  PROVE AtRest(v)'
  BY <1>1, <1>2, <1>4, <1>18 DEF AtRest, U!Wants, Apart
<1>19. EndedIsAtRest'
  BY <1>11, <1>18 DEF Watched, EndedIsAtRest, JobHasUnit, U!Free
<1>20. StoppedIsAtRest'
  BY <1>2, <1>18 DEF Watched, StoppedIsAtRest, U!TypeOK
<1> QED
  BY <1>3, <1>7, <1>8, <1>9, <1>10, <1>14, <1>15, <1>16, <1>17, <1>19, <1>20 DEF Watched

(* A start, on behalf of a request of any kind: un and us are the units    *)
(* and the map as they are, or with a unit just put to use.                *)
LEMMA StartKeeps ==
  ASSUME Apart, Watched, NEW c \in Call, NEW op \in {"start", "restart"}, NEW d \in Dir,
         NEW un \in [Unit -> U!Supervised], NEW us \in [Dir -> Unit \cup {NoUnit}],
         \A v \in Unit : /\ un[v].child = unit[v].child /\ un[v].at = unit[v].at
                         /\ un[v].loops = unit[v].loops /\ un[v].wanted = unit[v].wanted
                         /\ unit[v].dir \in Dir => un[v].dir = unit[v].dir,
         \A e \in Dir : us[e] # NoUnit => un[us[e]].dir = e,
         \A k \in Call : ~(call[k].pc = "loop" /\ call[k].left = 0),
         U!StartOne(c, op, us, un, d), units' = us,
         UNCHANGED <<proc, lock, leaving, gone>>
  PROVE  Watched'
<1> DEFINE u == us[d]
           Go == u # NoUnit /\ un[u].child = NoPid /\ ~leaving
           job == [U!Free EXCEPT !.op = op, !.pc = "next", !.unit = u]
<1>1. Go => u \in Unit /\ un[u].dir = d /\ un[u].at # "child"
  BY DEF Watched, U!ChildIsWatched
<1>2. /\ Go => unit' = U!Keep(un, u) /\ call' = [call EXCEPT ![c] = job] /\ stopped' = stopped \ {u}
      /\ ~Go => unit' = un /\ call' = [call EXCEPT ![c] = U!Free] /\ stopped' = stopped
  BY DEF U!StartOne
<1>3. /\ U!Free \in U!Job /\ U!Free.pc = "free" /\ U!Free.pid = NoPid
      /\ Go => /\ job \in U!Job /\ job.op = op /\ job.pc = "next" /\ job.unit = u
               /\ job.pid = NoPid
  BY <1>1 DEF U!Job, U!Free
<1> HIDE DEF job
<1>4. ASSUME Go
      PROVE  /\ unit' \in [Unit -> U!Supervised]
             /\ \A v \in Unit : /\ unit'[v].child = un[v].child
                                /\ unit'[v].dir = un[v].dir
                                /\ v # u => unit'[v] = un[v]
             /\ unit'[u].loops = un[u].loops + 1
             /\ unit'[u].at = IF un[u].at = "idle" THEN "due" ELSE un[u].at
  <2> DEFINE a == IF un[u].at = "idle" THEN "due" ELSE un[u].at
             n == un[u].loops + 1
  <2>1. a \in {"idle", "due", "child", "pause"} /\ n \in Nat /\ un[u] \in U!Supervised
    BY <1>1, <1>4 DEF U!Supervised
  <2>2. unit' = [un EXCEPT ![u] = [@ EXCEPT !.wanted = TRUE, !.loops = n, !.at = a]]
    BY <1>1, <1>2, <1>4 DEF U!Keep
  <2> HIDE DEF a, n
  <2>3. [un[u] EXCEPT !.wanted = TRUE, !.loops = n, !.at = a] \in U!Supervised
    BY <2>1 DEF U!Supervised
  <2>4. /\ unit' \in [Unit -> U!Supervised]
        /\ \A v \in Unit : /\ unit'[v].child = un[v].child
                           /\ unit'[v].dir = un[v].dir
                           /\ v # u => unit'[v] = un[v]
        /\ unit'[u].loops = n /\ unit'[u].at = a
    BY <1>1, <1>4, <2>1, <2>2, <2>3 DEF U!Supervised
  <2> QED  BY <2>4 DEF a, n
<1> HIDE DEF u, Go
<1>5. \A v \in Unit : /\ unit'[v].child = unit[v].child
                      /\ unit'[v].dir = un[v].dir
                      /\ ~(Go /\ v = u) => unit'[v] = un[v]
  BY <1>2, <1>4
<1>6. /\ Go => unit'[u].loops # 0 /\ unit'[u].at \in {"due", "pause"}
  BY <1>1, <1>4 DEF U!Supervised
<1>7. U!TypeOK'
  BY <1>2, <1>3, <1>4 DEF Watched, U!TypeOK
<1>8. \A j \in Call \cup Unit :
        \/ call'[j] = call[j] /\ j # c
        \/ j = c /\ call'[j] = U!Free
        \/ j = c /\ Go /\ call'[j] = job
  BY <1>2 DEF Watched, U!TypeOK
<1>9. LoopsRun'
  BY <1>5, <1>6 DEF Watched, LoopsRun
<1>10. ChildWasStarted'
  BY <1>5 DEF Watched, ChildWasStarted
<1>11. U!ChildIsWatched'
  BY <1>1, <1>5, <1>6 DEF Watched, U!ChildIsWatched
<1>12. HomesAgree'
  BY <1>5 DEF HomesAgree
<1>13. JobHasUnit'
  BY <1>1, <1>3, <1>5, <1>8 DEF Watched, JobHasUnit
<1>14. LooksAtChild'
  BY <1>3, <1>5, <1>8 DEF Watched, LooksAtChild
<1>15. LeaveIsApart'
  BY <1>8 DEF Watched, LeaveIsApart, Apart
<1>16. U!WaitIsServed'
  <2>1. \A v \in Unit : unit[v].at \in {"due", "pause"} => unit'[v].at \in {"due", "pause"}
    BY <1>5, <1>6
  <2> QED  BY <1>3, <1>6, <1>8, <2>1 DEF Watched, U!WaitIsServed, JobHasUnit
<1>17. EndedIsAtRest'
  BY <1>3, <1>8 DEF EndedIsAtRest
<1>18. StoppedIsAtRest'
  <2>1. \A v \in stopped' : v \in stopped /\ v \in Unit /\ ~(Go /\ v = u)
    BY <1>2 DEF Watched, U!TypeOK
  <2>2. ASSUME NEW v \in Unit, AtRest(v), ~(Go /\ v = u)  PROVE AtRest(v)'
    BY <1>5, <2>2 DEF AtRest, U!Wants
  <2> QED  BY <2>1, <2>2 DEF Watched, StoppedIsAtRest
<1> QED
  BY <1>7, <1>9, <1>10, <1>11, <1>12, <1>13, <1>14, <1>15, <1>16, <1>17, <1>18 DEF Watched

(* Taking back the wish for a unit, and cutting the backoffs short.        *)
LEMMA WithdrawnWish ==
  ASSUME Watched, NEW u \in Unit
  PROVE  /\ [unit EXCEPT ![u].wanted = FALSE] \in [Unit -> U!Supervised]
         /\ \A v \in Unit :
              /\ [unit EXCEPT ![u].wanted = FALSE][v].dir = unit[v].dir
              /\ [unit EXCEPT ![u].wanted = FALSE][v].child = unit[v].child
              /\ [unit EXCEPT ![u].wanted = FALSE][v].loops = unit[v].loops
              /\ [unit EXCEPT ![u].wanted = FALSE][v].at = unit[v].at
              /\ [unit EXCEPT ![u].wanted = FALSE][v].wanted => unit[v].wanted
BY DEF Watched, U!TypeOK, U!Supervised

LEMMA CancelRests ==
  ASSUME Watched, NEW W \in [Unit -> U!Supervised], unit' = U!Cancel(W),
         \A v \in Unit : /\ W[v].dir = unit[v].dir /\ W[v].child = unit[v].child
                         /\ W[v].loops = unit[v].loops /\ W[v].at = unit[v].at
                         /\ W[v].wanted => unit[v].wanted,
         leaving => leaving', UNCHANGED proc,
         \A d \in Dir : units'[d] \in {units[d], NoUnit}
  PROVE  UnitsRest /\ unit' \in [Unit -> U!Supervised]
<1>1. ASSUME NEW v \in Unit
      PROVE  /\ unit'[v] \in U!Supervised
             /\ unit'[v].dir = W[v].dir /\ unit'[v].child = W[v].child
             /\ unit'[v].loops = W[v].loops /\ unit'[v].wanted = W[v].wanted
             /\ unit'[v].at = IF W[v].at = "pause" THEN "due" ELSE W[v].at
  BY DEF U!Cancel, U!Supervised
<1>2. unit' \in [Unit -> U!Supervised]
  BY <1>1 DEF U!Cancel
<1> QED  BY <1>1, <1>2 DEF UnitsRest, U!Wants

(* A stop, on behalf of a stop or of a restart.                            *)
LEMMA StopKeeps ==
  ASSUME Apart, Watched, NEW c \in Call, NEW op \in {"stop", "restart"}, NEW d \in Dir,
         units[d] # NoUnit, U!StopOne(c, op, units[d]),
         UNCHANGED <<units, proc, lock, leaving, gone>>
  PROVE  Watched'
<1> DEFINE u == units[d]
           W == [unit EXCEPT ![u].wanted = FALSE]
           job == [U!Free EXCEPT !.op = op, !.pc = "asking", !.unit = u, !.pid = unit[u].child]
<1>1. u \in Unit /\ unit[u].dir = d
  BY DEF Watched, U!TypeOK, HomesAgree
<1>2. /\ job \in U!Job /\ job.op = op /\ job.pc = "asking" /\ job.unit = u
      /\ job.pid = unit[u].child
  BY <1>1 DEF U!Job, U!Free, Watched, U!TypeOK, U!Supervised
<1>3. unit' = U!Cancel(W) /\ call' = [call EXCEPT ![c] = job] /\ stopped' = stopped
  BY DEF U!StopOne
<1>4. /\ W \in [Unit -> U!Supervised]
      /\ \A v \in Unit : /\ W[v].dir = unit[v].dir /\ W[v].child = unit[v].child
                         /\ W[v].loops = unit[v].loops /\ W[v].at = unit[v].at
                         /\ W[v].wanted => unit[v].wanted
  BY <1>1, WithdrawnWish
<1> HIDE DEF u, W, job
<1>5. UnitsRest /\ unit' \in [Unit -> U!Supervised]
  BY <1>3, <1>4, CancelRests
<1>6. U!TypeOK'
  BY <1>2, <1>3, <1>5 DEF Watched, U!TypeOK
<1>7. JobsMove
  BY <1>1, <1>2, <1>3 DEF JobsMove, BeginsStop, Apart, Watched, U!TypeOK
<1> QED  BY <1>3, <1>5, <1>6, <1>7, MovesKeep

-----------------------------------------------------------------------------
(* The steps one by one: those of a loop and of the processes, ...         *)
LEMMA PauseEndsKeeps == ASSUME Apart, Watched, NEW u \in Unit, U!PauseEnds(u) PROVE Watched'
<1>1. unit' \in [Unit -> U!Supervised] /\ UnitsRest
  BY DEF U!PauseEnds, UnitsRest, U!Wants, Watched, U!TypeOK, U!Supervised
<1>2. U!TypeOK' /\ JobsMove
  BY <1>1 DEF U!PauseEnds, Watched, U!TypeOK, JobsMove
<1> QED  BY <1>1, <1>2, MovesKeep DEF U!PauseEnds

LEMMA ProcessKeeps ==
  ASSUME Apart, Watched, NEW p \in Pid, U!Serve(p) \/ U!Dies(p)  PROVE Watched'
<1>1. UNCHANGED <<units, unit, call, leaving, gone, stopped>>
  BY DEF U!Serve, U!Dies
<1>2. proc' \in [Pid -> U!Process] /\ \A q \in Pid : proc'[q].st = "none" <=> proc[q].st = "none"
  BY DEF U!Serve, U!Dies, Watched, U!TypeOK, U!Process
<1>3. lock' \in [Dir -> Pid \cup {NoPid}]
  BY DEF U!Serve, U!Dies, Watched, U!TypeOK
<1>4. U!TypeOK' /\ JobsMove
  BY <1>1, <1>2, <1>3 DEF Watched, U!TypeOK, JobsMove
<1>5. UnitsRest
  BY <1>1, <1>2 DEF UnitsRest, U!Wants
<1> QED  BY <1>1, <1>4, <1>5, MovesKeep

(* ... the requests that arrive, ...                                       *)
LEMMA QuietIsAnswered == U!Quiet => \A k \in Call : ~(call[k].pc = "loop" /\ call[k].left = 0)
BY DEF U!Quiet, U!Waits

LEMMA RequestKeeps ==
  ASSUME Apart, Watched, NEW c \in Call, NEW d \in Dir, U!Start(c, d) \/ U!Stop(c, d) \/ U!Restart(c, d)
  PROVE  Watched'
<1>1. /\ U!Quiet /\ units[d] # NoUnit
      /\ UNCHANGED <<units, proc, lock, leaving, gone>>
      /\ \/ U!StartOne(c, "start", units, unit, d)
         \/ U!StartOne(c, "restart", units, unit, d)
         \/ U!StopOne(c, "stop", units[d])
         \/ U!StopOne(c, "restart", units[d])
  BY DEF U!Start, U!Stop, U!Restart, U!Arrives
<1>2. unit \in [Unit -> U!Supervised] /\ units \in [Dir -> Unit \cup {NoUnit}]
  BY DEF Watched, U!TypeOK
<1>3. \A e \in Dir : units[e] # NoUnit => unit[units[e]].dir = e
  BY DEF Watched, HomesAgree
<1>4. ASSUME NEW op \in {"start", "restart"}, U!StartOne(c, op, units, unit, d)  PROVE Watched'
  BY <1>1, <1>2, <1>3, <1>4, QuietIsAnswered, StartKeeps
<1>5. ASSUME NEW op \in {"stop", "restart"}, U!StopOne(c, op, units[d])  PROVE Watched'
  BY <1>1, <1>5, StopKeeps
<1> QED  BY <1>1, <1>4, <1>5

LEMMA AddKeeps ==
  ASSUME Apart, Watched, NEW c \in Call, NEW d \in Dir, NEW u \in Unit, U!Add(c, d, u)
  PROVE  Watched'
<1> DEFINE un == [unit EXCEPT ![u].dir = d]
           us == [units EXCEPT ![d] = u]
<1>1. /\ U!Quiet /\ unit[u] = U!Unused /\ units' = us /\ U!StartOne(c, "start", units', un, d)
      /\ UNCHANGED <<proc, lock, leaving, gone>>
  BY DEF U!Add
<1>2. unit[u].dir \notin Dir
  BY <1>1 DEF U!Unused, Apart
<1>3. /\ un \in [Unit -> U!Supervised] /\ us \in [Dir -> Unit \cup {NoUnit}]
      /\ \A v \in Unit : /\ un[v].child = unit[v].child /\ un[v].at = unit[v].at
                         /\ un[v].loops = unit[v].loops /\ un[v].wanted = unit[v].wanted
                         /\ unit[v].dir \in Dir => un[v].dir = unit[v].dir
  BY <1>2 DEF Watched, U!TypeOK, U!Supervised
<1>4. \A e \in Dir : us[e] # NoUnit => un[us[e]].dir = e
  BY <1>2 DEF Watched, HomesAgree, U!TypeOK, U!Supervised
<1>5. U!StartOne(c, "start", us, un, d)
  BY <1>1 DEF U!StartOne
<1> HIDE DEF un, us
<1> QED  BY <1>1, <1>3, <1>4, <1>5, QuietIsAnswered, StartKeeps

LEMMA RemoveKeeps == ASSUME Apart, Watched, NEW d \in Dir, U!Remove(d) PROVE Watched'
<1> DEFINE u == units[d]
           W == [unit EXCEPT ![u].wanted = FALSE]
<1>1. /\ u \in Unit /\ unit' = U!Cancel(W) /\ units' = [units EXCEPT ![d] = NoUnit]
      /\ UNCHANGED <<proc, lock, call, leaving, gone, stopped>>
  BY DEF U!Remove, Watched, U!TypeOK
<1>2. /\ W \in [Unit -> U!Supervised]
      /\ \A v \in Unit : /\ W[v].dir = unit[v].dir /\ W[v].child = unit[v].child
                         /\ W[v].loops = unit[v].loops /\ W[v].at = unit[v].at
                         /\ W[v].wanted => unit[v].wanted
  BY <1>1, WithdrawnWish
<1>3. \A e \in Dir : units'[e] \in {units[e], NoUnit}
  BY <1>1 DEF Watched, U!TypeOK
<1> HIDE DEF u, W
<1>4. UnitsRest /\ unit' \in [Unit -> U!Supervised]
  BY <1>1, <1>2, <1>3, CancelRests
<1>5. U!TypeOK' /\ JobsMove
  BY <1>1, <1>4 DEF Watched, U!TypeOK, JobsMove
<1> QED  BY <1>1, <1>4, <1>5, MovesKeep

(* ... and the requests that go on.  All they change besides is whether a  *)
(* process is about to die.                                                *)
LEMMA JobKeeps ==
  ASSUME Apart, Watched, NEW j \in Call \cup Unit, NEW new \in U!Job,
         call' = [call EXCEPT ![j] = new],
         call'[j] = U!Free \/ GoesOn(j),
         proc' \in [Pid -> U!Process],
         \A q \in Pid : proc'[q].st = "none" <=> proc[q].st = "none",
         stopped' \subseteq Unit, \A u \in stopped' : u \in stopped \/ AtRest(u),
         UNCHANGED <<units, unit, lock, leaving, gone>>
  PROVE  Watched'
<1>1. U!TypeOK' /\ UnitsRest
  BY DEF Watched, U!TypeOK, UnitsRest, U!Wants
<1>2. JobsMove
  BY DEF Watched, U!TypeOK, JobsMove
<1> QED  BY <1>1, <1>2, MovesKeep

LEMMA StageKeeps ==
  ASSUME Apart, Watched, NEW j \in Call \cup Unit,
         NEW pc \in {"down", "accepted", "sigterm", "sigkill"},
         call[j].pc \in {"asking", "accepted", "sigterm"},
         call' = [call EXCEPT ![j].pc = pc],
         pc \in {"sigterm", "sigkill"} => call[j].pid # NoPid,
         proc' \in [Pid -> U!Process],
         \A q \in Pid : proc'[q].st = "none" <=> proc[q].st = "none",
         UNCHANGED <<units, unit, lock, leaving, gone, stopped>>
  PROVE  Watched'
<1> DEFINE new == [call[j] EXCEPT !.pc = pc]
<1>1. call[j] \in U!Job /\ call' = [call EXCEPT ![j] = new] /\ call'[j] = new
  BY DEF Watched, U!TypeOK
<1>2. /\ new \in U!Job /\ new.unit = call[j].unit /\ new.pid = call[j].pid
      /\ new.op = call[j].op /\ new.pc = pc
  BY <1>1 DEF U!Job
<1> HIDE DEF new
<1>3. GoesOn(j)
  BY <1>1, <1>2 DEF GoesOn
<1> QED  BY <1>1, <1>2, <1>3, JobKeeps DEF Watched, U!TypeOK

(* A process that is asked, signalled or killed was started and stays so.  *)
LEMMA SignalKeeps ==
  ASSUME Watched, NEW p \in Pid, proc[p].st # "none",
         NEW st \in {"stopping", "killed", "dead"}, proc' = [proc EXCEPT ![p].st = st]
  PROVE  /\ proc' \in [Pid -> U!Process]
         /\ \A q \in Pid : proc'[q].st = "none" <=> proc[q].st = "none"
BY DEF Watched, U!TypeOK, U!Process

LEMMA StagesKeep ==
  ASSUME Apart, Watched, NEW j \in Call \cup Unit, U!AskAnswered(j) \/ U!Terminate(j) \/ U!Kill(j)
  PROVE  Watched'
<1> DEFINE p == call[j].pid
<1>1. p \in Pid \cup {NoPid} /\ (p # NoPid => proc[p].st # "none")
  BY DEF Watched, LooksAtChild, ChildWasStarted, U!TypeOK, U!Job
<1>2. proc \in [Pid -> U!Process] /\ DOMAIN proc = Pid /\ lock \in [Dir -> Pid \cup {NoPid}]
  BY DEF Watched, U!TypeOK
<1>3. UNCHANGED <<units, unit, lock, leaving, gone, stopped>>
  BY DEF U!AskAnswered, U!Terminate, U!Kill
<1>4. CASE U!AskAnswered(j)
  <2> DEFINE q == lock[unit[call[j].unit].dir]
             pc == IF p = NoPid THEN "down" ELSE "accepted"
  <2>1. /\ call[j].pc = "asking" /\ q # NoPid /\ proc[q].st = "serving"
        /\ proc' = [proc EXCEPT ![q].st = "stopping"]
        /\ call' = [call EXCEPT ![j].pc = pc]
    BY <1>4 DEF U!AskAnswered
  <2>2. q \in Pid
    BY <1>2, <2>1 DEF Watched, JobHasUnit
  <2>3. pc \in {"down", "accepted"}
    OBVIOUS
  <2> HIDE DEF p, q, pc
  <2>4. proc' \in [Pid -> U!Process] /\ \A i \in Pid : proc'[i].st = "none" <=> proc[i].st = "none"
    BY <2>1, <2>2, SignalKeeps
  <2> QED  BY <1>3, <2>1, <2>3, <2>4, StageKeeps
<1>5. CASE U!Terminate(j)
  <2> DEFINE pc == IF p = NoPid THEN "down" ELSE "sigterm"
  <2>1. /\ call[j].pc \in {"asking", "accepted"}
        /\ call' = [call EXCEPT ![j].pc = pc]
        /\ proc' = proc \/ (p # NoPid /\ proc' = [proc EXCEPT ![p].st = "stopping"])
    BY <1>5 DEF U!Terminate
  <2>2. pc \in {"down", "sigterm"} /\ (pc = "sigterm" => p # NoPid)
    OBVIOUS
  <2> HIDE DEF pc
  <2>3. proc' \in [Pid -> U!Process] /\ \A q \in Pid : proc'[q].st = "none" <=> proc[q].st = "none"
    BY <1>1, <1>2, <2>1, SignalKeeps
  <2> QED  BY <1>3, <2>1, <2>2, <2>3, StageKeeps
<1>6. CASE U!Kill(j)
  <2> DEFINE st == IF proc[p].st = "dead" THEN "dead" ELSE "killed"
  <2>1. /\ call[j].pc = "sigterm" /\ call' = [call EXCEPT ![j].pc = "sigkill"]
        /\ proc' = [proc EXCEPT ![p].st = IF @ = "dead" THEN @ ELSE "killed"]
    BY <1>6 DEF U!Kill
  <2>2. p # NoPid
    BY <2>1 DEF Watched, LooksAtChild
  <2>3. proc' = [proc EXCEPT ![p].st = st] /\ st \in {"dead", "killed"}
    BY <1>1, <1>2, <2>1, <2>2 DEF U!Process
  <2> HIDE DEF st
  <2>4. proc' \in [Pid -> U!Process] /\ \A q \in Pid : proc'[q].st = "none" <=> proc[q].st = "none"
    BY <1>1, <2>2, <2>3, SignalKeeps
  <2> QED  BY <1>3, <2>1, <2>2, <2>4, StageKeeps
<1> QED  BY <1>4, <1>5, <1>6

LEMMA DownKeeps == ASSUME Apart, Watched, NEW j \in Call \cup Unit, U!Down(j) PROVE Watched'
<1>1. call[j] \in U!Job /\ call[j].pc = "down" /\ call[j].unit \in Unit
  BY DEF U!Down, Watched, U!TypeOK, JobHasUnit
<1>2. UNCHANGED <<units, unit, proc, lock, leaving, gone, stopped>>
  BY DEF U!Down
<1>3. CASE call[j].op = "leave"
  <2>1. call' = [call EXCEPT ![j] = U!Free] /\ call'[j] = U!Free /\ U!Free \in U!Job
    BY <1>3 DEF U!Down, Watched, U!TypeOK, U!Free, U!Job
  <2> QED  BY <1>2, <2>1, JobKeeps DEF Watched, U!TypeOK
<1>4. CASE call[j].op # "leave"
  <2> DEFINE n == unit[call[j].unit].loops
             new == [call[j] EXCEPT !.pc = "loop", !.left = n]
  <2>1. call' = [call EXCEPT ![j] = new] /\ call'[j] = new
    BY <1>4 DEF U!Down, Watched, U!TypeOK
  <2>2. n \in Nat
    BY <1>1 DEF Watched, U!TypeOK, U!Supervised
  <2>3. n = 0 => AtRest(call[j].unit)
    BY <1>1 DEF Watched, LoopsRun, U!ChildIsWatched, AtRest
  <2> HIDE DEF n
  <2>4. /\ new \in U!Job /\ new.unit = call[j].unit /\ new.pid = call[j].pid
        /\ new.op = call[j].op /\ new.pc = "loop" /\ new.left = n
    BY <1>1, <2>2 DEF U!Job
  <2> HIDE DEF new
  <2>5. GoesOn(j)
    BY <1>1, <2>1, <2>3, <2>4 DEF GoesOn
  <2> QED  BY <1>2, <2>1, <2>4, <2>5, JobKeeps DEF Watched, U!TypeOK
<1> QED  BY <1>3, <1>4

LEMMA LoopEndedKeeps == ASSUME Apart, Watched, NEW c \in Call, U!LoopEnded(c) PROVE Watched'
<1>1. /\ call[c] \in U!Job /\ call[c].pc = "loop" /\ call[c].left = 0 /\ call[c].unit \in Unit
      /\ UNCHANGED <<units, unit, proc, lock, leaving, gone>>
  BY DEF U!LoopEnded, Watched, U!TypeOK, JobHasUnit
<1>2. AtRest(call[c].unit)
  BY <1>1 DEF Watched, EndedIsAtRest
<1>3. CASE call[c].op = "stop"
  <2>1. /\ call' = [call EXCEPT ![c] = U!Free] /\ call'[c] = U!Free /\ U!Free \in U!Job
        /\ stopped' = stopped \cup {call[c].unit}
    BY <1>3 DEF U!LoopEnded, Watched, U!TypeOK, U!Free, U!Job
  <2> QED  BY <1>1, <1>2, <2>1, JobKeeps DEF Watched, U!TypeOK
<1>4. CASE call[c].op # "stop"
  <2> DEFINE pc == IF lock[unit[call[c].unit].dir] = NoPid THEN "begin" ELSE "lock"
             new == [call[c] EXCEPT !.pc = pc]
  <2>1. call' = [call EXCEPT ![c] = new] /\ call'[c] = new /\ stopped' = stopped
    BY <1>4 DEF U!LoopEnded, Watched, U!TypeOK
  <2>2. pc \in {"begin", "lock"}
    OBVIOUS
  <2> HIDE DEF pc
  <2>3. /\ new \in U!Job /\ new.unit = call[c].unit /\ new.pid = call[c].pid
        /\ new.op = call[c].op /\ new.pc = pc
    BY <1>1, <2>2 DEF U!Job
  <2> HIDE DEF new
  <2>4. GoesOn(c)
    BY <1>1, <2>1, <2>2, <2>3 DEF GoesOn
  <2> QED  BY <1>1, <2>1, <2>3, <2>4, JobKeeps DEF Watched, U!TypeOK
<1> QED  BY <1>3, <1>4

LEMMA WaitEndsKeeps ==
  ASSUME Apart, Watched, NEW c \in Call, U!SocketSettles(c) \/ U!LockFree(c)
  PROVE  Watched'
<1>1. call[c] \in U!Job /\ U!Free \in U!Job
  BY DEF Watched, U!TypeOK, U!Free, U!Job
<1>2. UNCHANGED <<units, unit, proc, lock, leaving, gone, stopped>>
  BY DEF U!SocketSettles, U!LockFree
<1>3. CASE call' = [call EXCEPT ![c] = U!Free]
  <2>1. call'[c] = U!Free
    BY <1>3 DEF Watched, U!TypeOK
  <2> QED  BY <1>1, <1>2, <1>3, <2>1, JobKeeps DEF Watched, U!TypeOK
<1>4. CASE call[c].pc = "lock" /\ call' = [call EXCEPT ![c].pc = "begin"]
  <2> DEFINE new == [call[c] EXCEPT !.pc = "begin"]
  <2>1. call' = [call EXCEPT ![c] = new] /\ call'[c] = new
    BY <1>4 DEF Watched, U!TypeOK
  <2>2. /\ new \in U!Job /\ new.unit = call[c].unit /\ new.pid = call[c].pid
        /\ new.op = call[c].op /\ new.pc = "begin"
    BY <1>1 DEF U!Job
  <2> HIDE DEF new
  <2>3. GoesOn(c)
    BY <1>4, <2>1, <2>2 DEF GoesOn
  <2> QED  BY <1>2, <2>1, <2>2, <2>3, JobKeeps DEF Watched, U!TypeOK
<1> QED  BY <1>3, <1>4 DEF U!SocketSettles, U!LockFree

LEMMA BeginKeeps == ASSUME Apart, Watched, NEW c \in Call, U!Begin(c) PROVE Watched'
<1>1. unit[call[c].unit].dir \in Dir
  BY DEF U!Begin, Watched, JobHasUnit
<1>2. unit \in [Unit -> U!Supervised] /\ units \in [Dir -> Unit \cup {NoUnit}]
  BY DEF Watched, U!TypeOK
<1>3. \A e \in Dir : units[e] # NoUnit => unit[units[e]].dir = e
  BY DEF Watched, HomesAgree
<1> QED  BY <1>1, <1>2, <1>3, StartKeeps DEF U!Begin

LEMMA LeaveKeeps == ASSUME Apart, Watched, U!Leave PROVE Watched'
<1>1. /\ leaving' = TRUE /\ unit' = U!Cancel(unit)
      /\ UNCHANGED <<units, proc, lock, gone, stopped>>
  BY DEF U!Leave
<1>2. /\ unit \in [Unit -> U!Supervised] /\ \A d \in Dir : units'[d] \in {units[d], NoUnit}
  BY <1>1 DEF Watched, U!TypeOK
<1>3. UnitsRest /\ unit' \in [Unit -> U!Supervised]
  BY <1>1, <1>2, CancelRests
<1>4. ASSUME NEW j \in Call \cup Unit
      PROVE  call'[j] \in U!Job /\ (call'[j] = call[j] \/ BeginsStop(j))
  <2> DEFINE job == [U!Free EXCEPT !.op = "leave", !.pc = "asking", !.unit = j, !.pid = unit[j].child]
  <2>1. CASE j \in Unit /\ U!Looked(j) /\ unit[j].child # NoPid
    <3>1. /\ job \in U!Job /\ job.op = "leave" /\ job.pc = "asking" /\ job.unit = j
          /\ job.pid = unit[j].child
      BY <2>1 DEF U!Job, U!Free, Watched, U!TypeOK, U!Supervised
    <3>2. unit[j].dir \in Dir
      BY <2>1 DEF U!Looked, Watched, HomesAgree, Apart
    <3>3. call'[j] = job
      BY <2>1 DEF U!Leave
    <3> HIDE DEF job
    <3> QED  BY <2>1, <3>1, <3>2, <3>3 DEF BeginsStop
  <2>2. CASE ~(j \in Unit /\ U!Looked(j) /\ unit[j].child # NoPid)
    BY <2>2 DEF U!Leave, Watched, U!TypeOK
  <2> QED  BY <2>1, <2>2
<1>5. call' \in [Call \cup Unit -> U!Job]
  BY <1>4 DEF U!Leave
<1>6. U!TypeOK' /\ JobsMove
  BY <1>1, <1>3, <1>4, <1>5 DEF Watched, U!TypeOK, JobsMove
<1> QED  BY <1>1, <1>3, <1>6, MovesKeep

LEMMA RestKeeps == ASSUME Apart, Watched, U!Left \/ UNCHANGED U!vars PROVE Watched'
<1>1. UNCHANGED <<units, unit, proc, lock, call, leaving, stopped>> /\ gone' \in BOOLEAN
  BY DEF U!Left, U!vars, Watched, U!TypeOK
<1>2. U!TypeOK' /\ UnitsRest /\ JobsMove
  BY <1>1 DEF Watched, U!TypeOK, UnitsRest, U!Wants, JobsMove
<1> QED  BY <1>1, <1>2, MovesKeep

-----------------------------------------------------------------------------
LEMMA BeginsWatched == Apart /\ U!Init => Watched
<1> SUFFICES ASSUME Apart, U!Init PROVE Watched
  OBVIOUS
<1>1. /\ units \in [Dir -> Unit]
      /\ \A j \in Call \cup Unit : call[j] = U!Free
      /\ call = [j \in Call \cup Unit |-> U!Free]
      /\ proc = [p \in Pid |-> U!NoProcess] /\ lock = [d \in Dir |-> NoPid]
      /\ leaving = FALSE /\ gone = FALSE /\ stopped = {}
  BY DEF U!Init
<1>2. ASSUME NEW u \in Unit
      PROVE  /\ unit[u] \in U!Supervised /\ unit[u].child = NoPid /\ unit[u].at # "child"
             /\ unit[u].loops = 0 <=> unit[u].at = "idle"
             /\ \A d \in Dir : units[d] = u => unit[u].dir = d
  <2> DEFINE h == CHOOSE d \in Dir : units[d] = u
  <2>1. CASE \E d \in Dir : units[d] = u
    <3>1. h \in Dir /\ units[h] = u
      BY <2>1
    <3>2. unit[u] = [U!Unused EXCEPT !.dir = h, !.loops = 1, !.at = "due"]
      BY <2>1 DEF U!Init
    <3>3. \A d \in Dir : units[d] = u => d = h
      BY <3>1 DEF U!Init
    <3> HIDE DEF h
    <3>4. /\ unit[u] \in U!Supervised /\ unit[u].dir = h
          /\ unit[u].child = NoPid /\ unit[u].loops = 1 /\ unit[u].at = "due"
      <4>1. unit[u] = [dir |-> h, child |-> NoPid, wanted |-> TRUE, loops |-> 1, at |-> "due"]
        BY <3>2 DEF U!Unused
      <4> QED  BY <3>1, <4>1 DEF U!Supervised
    <3> QED  BY <3>3, <3>4
  <2>2. CASE ~\E d \in Dir : units[d] = u
    BY <2>2 DEF U!Init, U!Unused, U!Supervised
  <2> QED  BY <2>1, <2>2
<1>3. U!TypeOK
  <2>1. unit \in [Unit -> U!Supervised]
    BY <1>2 DEF U!Init
  <2>2. call \in [Call \cup Unit -> U!Job]
    BY <1>1 DEF U!Job, U!Free
  <2>3. proc \in [Pid -> U!Process]
    BY <1>1 DEF U!Process, U!NoProcess
  <2> QED  BY <1>1, <2>1, <2>2, <2>3 DEF U!TypeOK
<1>4. LoopsRun /\ ChildWasStarted /\ HomesAgree
  BY <1>1, <1>2 DEF LoopsRun, ChildWasStarted, HomesAgree
<1>5. U!ChildIsWatched
  BY <1>1, <1>2 DEF U!ChildIsWatched, U!NoProcess
<1>6. JobHasUnit /\ LooksAtChild /\ LeaveIsApart /\ U!WaitIsServed /\ EndedIsAtRest
  BY <1>1 DEF JobHasUnit, LooksAtChild, LeaveIsApart, U!WaitIsServed, EndedIsAtRest, U!Free
<1>7. StoppedIsAtRest
  BY <1>1 DEF StoppedIsAtRest
<1> QED  BY <1>3, <1>4, <1>5, <1>6, <1>7 DEF Watched

LEMMA StaysWatched == Apart /\ Watched /\ [U!Next]_(U!vars) => Watched'
<1> SUFFICES ASSUME Apart, Watched, [U!Next]_(U!vars) PROVE Watched'
  OBVIOUS
<1>1. ASSUME NEW u \in Unit, U!Spawn(u) \/ U!EndLoop(u) \/ U!PauseEnds(u) \/ U!Noticed(u)
      PROVE  Watched'
  BY <1>1, SpawnKeeps, EndLoopKeeps, PauseEndsKeeps, NoticedKeeps
<1>2. ASSUME NEW p \in Pid, U!Serve(p) \/ U!Dies(p)  PROVE Watched'
  BY <1>2, ProcessKeeps
<1>3. ASSUME NEW c \in Call, NEW d \in Dir, U!Start(c, d) \/ U!Stop(c, d) \/ U!Restart(c, d)
      PROVE  Watched'
  BY <1>3, RequestKeeps
<1>4. ASSUME NEW c \in Call, NEW d \in Dir, NEW u \in Unit, U!Add(c, d, u)  PROVE Watched'
  BY <1>4, AddKeeps
<1>5. ASSUME NEW d \in Dir, U!Remove(d)  PROVE Watched'
  BY <1>5, RemoveKeeps
<1>6. ASSUME NEW c \in Call, U!SocketSettles(c) \/ U!LoopEnded(c) \/ U!LockFree(c) \/ U!Begin(c)
      PROVE  Watched'
  BY <1>6, WaitEndsKeeps, LoopEndedKeeps, BeginKeeps
<1>7. ASSUME NEW j \in Call \cup Unit, U!AskAnswered(j) \/ U!Terminate(j) \/ U!Kill(j) \/ U!Down(j)
      PROVE  Watched'
  BY <1>7, StagesKeep, DownKeeps
<1>8. CASE U!Leave \/ U!Left \/ UNCHANGED U!vars
  BY <1>8, LeaveKeeps, RestKeeps
<1> QED
  BY <1>1, <1>2, <1>3, <1>4, <1>5, <1>6, <1>7, <1>8 DEF U!Next

(* The state of the supervisor keeps its types (Supervised, Supervisor).   *)
THEOREM SupervisorTypes == Apart => (U!Spec => []U!TypeOK)
<1> SUFFICES ASSUME Apart PROVE U!Spec => []U!TypeOK
  OBVIOUS
<1>1. Watched => U!TypeOK
  BY DEF Watched
<1> QED  BY <1>1, BeginsWatched, StaysWatched, PTL DEF U!Spec

(* However many config homes, units, processes and requests there are, the *)
(* loops chained by #keep never start a process beside the child of their  *)
(* unit and never lose one: every process started and not reaped is the    *)
(* child of exactly one unit, whose first loop waits for it.  A start that *)
(* waits for its child (Supervised.took) waits on a unit with a loop that  *)
(* will spawn it or say that none is coming (Supervised.abandoned).        *)
THEOREM NoChildIsLost == Apart => (U!Spec => [](U!ChildIsWatched /\ U!WaitIsServed))
<1> SUFFICES ASSUME Apart PROVE U!Spec => [](U!ChildIsWatched /\ U!WaitIsServed)
  OBVIOUS
<1>1. Watched => U!ChildIsWatched /\ U!WaitIsServed
  BY DEF Watched
<1> QED  BY <1>1, BeginsWatched, StaysWatched, PTL DEF U!Spec

(* A stop that was answered (stopOne) leaves its unit without a child      *)
(* until a start of that unit, whatever starts, restarts and removals were *)
(* in flight with it.                                                      *)
THEOREM StoppedStaysStopped == Apart => (U!Spec => []U!StopStays)
<1> SUFFICES ASSUME Apart PROVE U!Spec => []U!StopStays
  OBVIOUS
<1>1. Watched => U!StopStays
  BY DEF Watched, StoppedIsAtRest, AtRest, U!StopStays
<1> QED  BY <1>1, BeginsWatched, StaysWatched, PTL DEF U!Spec

SuperviseIsWatched == machine = "supervise" => Watched

LEMMA SuperviseInit == Apart /\ MCInit => SuperviseIsWatched
BY BeginsWatched
   DEF MCInit, InitEgress, InitKv, InitRequests, InitStatus, InitSupervise, SuperviseIsWatched

LEMMA SuperviseStep == Apart /\ SuperviseIsWatched /\ [MCNext]_MCvars => SuperviseIsWatched'
<1> SUFFICES ASSUME Apart, SuperviseIsWatched, [MCNext]_MCvars, machine' = "supervise"
             PROVE  Watched'
  BY DEF SuperviseIsWatched
<1>1. machine' = machine
  BY DEF MCNext, MCvars, OnlyEgress, OnlyKv, OnlyRequests, OnlyStatus, OnlySupervise
<1>2. Watched
  BY <1>1 DEF SuperviseIsWatched
<1>3. U!Next \/ UNCHANGED U!vars
  BY <1>1 DEF MCNext, OnlyEgress, OnlyKv, OnlyRequests, OnlyStatus, MCvars, U!vars
<1> QED  BY <1>2, <1>3, StaysWatched

(* Every process of the supervisor is the child of one unit whose loop     *)
(* waits for it, and a start that waits is served, for any config homes,   *)
(* units, processes and requests (Supervisor.#keep, Supervised.abandoned). *)
THEOREM SupervisorKeepsWatch == Apart => (MCSpec => []ChildIsWatched)
<1> SUFFICES ASSUME Apart PROVE MCSpec => []ChildIsWatched
  OBVIOUS
<1>1. SuperviseIsWatched => ChildIsWatched
  BY DEF SuperviseIsWatched, Watched, ChildIsWatched
<1> QED  BY <1>1, SuperviseInit, SuperviseStep, PTL DEF MCSpec

(* A stop that was answered leaves its unit without a child until it is    *)
(* started again, whatever else was in flight (Supervisor.stopOne).        *)
THEOREM SupervisorStopStays == Apart => (MCSpec => []StopStays)
<1> SUFFICES ASSUME Apart PROVE MCSpec => []StopStays
  OBVIOUS
<1>1. SuperviseIsWatched => StopStays
  BY DEF SuperviseIsWatched, Watched, StoppedIsAtRest, AtRest, U!StopStays, StopStays
<1> QED  BY <1>1, SuperviseInit, SuperviseStep, PTL DEF MCSpec

-----------------------------------------------------------------------------
(* The store.  What memory, the bodies that wait and the file have to do   *)
(* with one another, for any keys, values, clock and retention.            *)
KvApart ==
  /\ KvTime \in Nat /\ Retention \in Nat /\ MaxCrashes \in Nat
  /\ Gone \notin Value /\ None \notin K!Held

KvTypes ==
  /\ up \in BOOLEAN /\ now \in K!Time /\ lost \in BOOLEAN /\ subInKv \in BOOLEAN
  /\ mem \in K!Namespace /\ disk \in K!Namespace /\ said \in K!Namespace
  /\ chain \in Seq(K!Body)
  /\ view \in [Key -> [at : K!Time, v : Value] \cup {None}]
  /\ ~up => chain = <<>> /\ ~lost /\ ~subInKv

(* A state of a key is a later one than another, or the other may be       *)
(* forgotten; and one is the other, or what is left when it was forgotten. *)
Before(a, b) == a = None \/ K!Expired(a) \/ (b # None /\ b.at >= a.at)
Shrunk(a, b) == b = a \/ (b = None /\ K!Expired(a))

(* While no body was lost each body is a later state than the one before   *)
(* it and the first than the file, and memory is the last of them.         *)
ChainClimbs ==
  up /\ ~lost =>
    \A k \in Key :
      /\ \A i \in 1..Len(chain) :
           /\ i = 1 => Before(disk[k], chain[i].all[k])
           /\ i > 1 => Before(chain[i - 1].all[k], chain[i].all[k])
           /\ i = Len(chain) => Shrunk(chain[i].all[k], mem[k])
      /\ chain = <<>> => Shrunk(disk[k], mem[k])

(* A body carries what its operation set, and none waits until a removal   *)
(* it carries could be forgotten; a value is announced, and every later    *)
(* body has the key as late.                                               *)
BodiesStand ==
  \A i \in 1..Len(chain) :
    /\ chain[i].held = chain[i].all[chain[i].key]
    /\ IF K!Removed(chain[i].held) THEN now - chain[i].held.at <= Retention
       ELSE chain[i].tell
    /\ \A j \in i..Len(chain) :
         /\ chain[j].all[chain[i].key] # None
         /\ chain[j].all[chain[i].key].at >= chain[i].held.at

(* While a body of a key waits, memory holds what one of them has set.     *)
MemoryIsOwed ==
  \A i \in 1..Len(chain) :
    \E j \in i..Len(chain) : chain[j].key = chain[i].key /\ mem[chain[i].key] = chain[j].held

(* What was answered as written is kept by the file, by every body and by  *)
(* memory.                                                                 *)
Covers(ns) ==
  \A k \in Key : said[k] # None =>
    (ns[k] # None /\ ns[k].at >= said[k].at) \/ K!Expired(said[k])

AnswersKept ==
  /\ Covers(disk)
  /\ \A i \in 1..Len(chain) : Covers(chain[i].all)
  /\ up => Covers(mem)

(* A key removed while a value of it waited has the removal announced:     *)
(* every body of it from one on that is announced is a removal.            *)
Untold(k) == \A i \in 1..Len(chain) : chain[i].key = k => K!Removed(chain[i].held)
Told(k) ==
  \E i \in 1..Len(chain) :
    /\ chain[i].key = k /\ chain[i].tell
    /\ \A j \in i..Len(chain) : chain[j].key = k => K!Removed(chain[j].held)

RemovalsTold ==
  \A k \in Key :
    K!Removed(mem[k]) => Untold(k) \/ Told(k)

(* A subscriber lacks of a key what its bodies will say and nothing else.  *)
ViewLacks ==
  up /\ subInKv /\ ~lost =>
    \A k \in Key :
      /\ (\A i \in 1..Len(chain) : chain[i].key # k) => view[k] = K!Live(mem)[k]
      /\ K!Removed(mem[k]) => (view[k] = None /\ Untold(k)) \/ Told(k)

Stored ==
  /\ KvTypes /\ ChainClimbs /\ BodiesStand /\ MemoryIsOwed /\ AnswersKept
  /\ RemovalsTold /\ ViewLacks

LEMMA LoadIs ==
  ASSUME NEW k \in Key
  PROVE  K!Load[k] = IF K!Expired(mem[k]) THEN None ELSE mem[k]
BY DEF K!Load, K!Forget

LEMMA RecallIs ==
  ASSUME NEW k \in Key
  PROVE  K!Recall[k] = IF K!Expired(mem[k]) THEN None ELSE said[k]
BY DEF K!Recall

LEMMA LiveIs ==
  ASSUME NEW ns, NEW k \in Key
  PROVE  K!Live(ns)[k] = IF K!Removed(ns[k]) THEN None ELSE ns[k]
BY DEF K!Live

LEMMA ExpiredIsRemoved == ASSUME NEW h, K!Expired(h) PROVE K!Removed(h)
BY DEF K!Expired

LEMMA LoadTypes ==
  ASSUME KvApart, KvTypes
  PROVE  /\ K!Load \in K!Namespace /\ K!Recall \in K!Namespace
         /\ \A ns \in K!Namespace : K!Live(ns) \in [Key -> [at : K!Time, v : Value] \cup {None}]
<1>1. K!Load \in K!Namespace /\ K!Recall \in K!Namespace
  BY DEF KvTypes, K!Load, K!Forget, K!Recall, K!Namespace
<1>2. ASSUME NEW ns \in K!Namespace, NEW k \in Key
      PROVE  (IF K!Removed(ns[k]) THEN None ELSE ns[k]) \in [at : K!Time, v : Value] \cup {None}
  <2>1. ns[k] \in K!Held \cup {None}
    BY DEF K!Namespace
  <2> QED  BY <2>1 DEF K!Removed, K!Held
<1>3. ASSUME NEW ns \in K!Namespace
      PROVE  K!Live(ns) \in [Key -> [at : K!Time, v : Value] \cup {None}]
  BY <1>2 DEF K!Live
<1> QED  BY <1>1, <1>3

(* A key a body waits for is in memory, as late and not to be forgotten.   *)
LEMMA OwedIsFresh ==
  ASSUME KvApart, Stored, NEW i \in 1..Len(chain)
  PROVE  /\ chain[i] \in K!Body /\ chain[i].key \in Key
         /\ mem[chain[i].key] \in K!Held /\ mem[chain[i].key] # None
         /\ ~K!Expired(mem[chain[i].key])
         /\ mem[chain[i].key].at >= chain[i].held.at
<1>1. chain \in Seq(K!Body)
  BY DEF Stored, KvTypes
<1>2. /\ Len(chain) \in Nat /\ \A j \in 1..Len(chain) : chain[j] \in K!Body
  BY <1>1
<1>3. PICK j \in i..Len(chain) : chain[j].key = chain[i].key /\ mem[chain[i].key] = chain[j].held
  BY DEF Stored, MemoryIsOwed
<1>4. j \in 1..Len(chain) /\ chain[i] \in K!Body /\ chain[j] \in K!Body
  BY <1>2, <1>3
<1>5. /\ chain[j].held = chain[j].all[chain[j].key]
      /\ K!Removed(chain[j].held) => now - chain[j].held.at <= Retention
      /\ chain[j].all[chain[i].key].at >= chain[i].held.at
  BY <1>3, <1>4 DEF Stored, BodiesStand
<1>6. chain[j].held \in K!Held /\ chain[j].held # None /\ chain[i].key \in Key
  BY <1>4 DEF K!Body, KvApart
<1>7. ~K!Expired(chain[j].held)
  <2>1. now \in Nat /\ chain[j].held.at \in Nat
    BY <1>6 DEF Stored, KvTypes, K!Time, K!Held, KvApart
  <2> QED  BY <1>5, <2>1 DEF K!Expired, KvApart
<1> QED  BY <1>3, <1>4, <1>5, <1>6, <1>7

(* What is old forgotten, and perhaps a subscription.                      *)
LEMMA LooksKeep ==
  ASSUME KvApart, Stored, up, mem' = K!Load, said' = K!Recall,
         UNCHANGED <<up, now, chain, disk, lost>>,
         \/ UNCHANGED <<subInKv, view>>
         \/ subInKv' = TRUE /\ view' = K!Live(mem')
  PROVE  Stored'
<1>1. KvTypes /\ ChainClimbs /\ BodiesStand /\ MemoryIsOwed /\ AnswersKept /\ RemovalsTold
      /\ ViewLacks
  BY DEF Stored
<1>2. \A k \in Key : /\ mem'[k] = IF K!Expired(mem[k]) THEN None ELSE mem[k]
                     /\ said'[k] = IF K!Expired(mem[k]) THEN None ELSE said[k]
                     /\ K!Live(mem)[k] = IF K!Removed(mem[k]) THEN None ELSE mem[k]
                     /\ K!Live(mem')[k] = IF K!Removed(mem'[k]) THEN None ELSE mem'[k]
  BY LoadIs, RecallIs, LiveIs
<1>3. \A h : K!Expired(h)' <=> K!Expired(h)
  BY DEF K!Expired, K!Removed
<1>4. \A h : K!Expired(h) => K!Removed(h)
  BY DEF K!Expired
<1>5. KvTypes'
  BY <1>1, LoadTypes DEF KvTypes
<1>6. ChainClimbs'
  <2>1. ASSUME NEW k \in Key, NEW a, Shrunk(a, mem[k])
        PROVE  mem'[k] = a \/ (mem'[k] = None /\ K!Expired(a))
    BY <1>2, <2>1 DEF Shrunk
  <2> QED  BY <1>1, <1>3, <2>1 DEF ChainClimbs, Before, Shrunk
<1>7. BodiesStand'
  BY <1>1 DEF BodiesStand
<1>8. MemoryIsOwed'
  <2> SUFFICES ASSUME NEW i \in 1..Len(chain)
               PROVE  \E j \in i..Len(chain) : /\ chain[j].key = chain[i].key
                                               /\ mem'[chain[i].key] = chain[j].held
    BY DEF MemoryIsOwed
  <2>1. mem'[chain[i].key] = mem[chain[i].key]
    BY <1>2, OwedIsFresh
  <2> QED  BY <1>1, <2>1 DEF MemoryIsOwed
<1>9. AnswersKept'
  <2>1. \A ns : Covers(ns) => Covers(ns)'
    BY <1>2, <1>3 DEF Covers
  <2>2. Covers(mem)'
    BY <1>1, <1>2, <1>3 DEF AnswersKept, Covers
  <2> QED  BY <1>1, <2>1, <2>2 DEF AnswersKept
<1>10. \A k \in Key : K!Removed(mem'[k]) => K!Removed(mem[k])
  BY <1>2 DEF K!Removed
<1>11. \A k \in Key : (Untold(k)' <=> Untold(k)) /\ (Told(k)' <=> Told(k))
  BY DEF Untold, Told
<1>12. RemovalsTold'
  BY <1>1, <1>10, <1>11 DEF RemovalsTold
<1>13. \A k \in Key : K!Live(mem')[k] = K!Live(mem)[k]
  BY <1>2, <1>4 DEF K!Removed
<1>14. ViewLacks'
  <2>1. CASE UNCHANGED <<subInKv, view>>
    BY <1>1, <1>10, <1>11, <1>13, <2>1 DEF ViewLacks
  <2>2. CASE view' = K!Live(mem')
    BY <1>1, <1>2, <1>10, <1>11, <2>2 DEF ViewLacks, RemovalsTold
  <2> QED  BY <2>1, <2>2
<1> QED  BY <1>5, <1>6, <1>7, <1>8, <1>9, <1>12, <1>14 DEF Stored

(* A body put at the end of the chain.                                     *)
LEMMA BodyBehind ==
  ASSUME chain \in Seq(K!Body), NEW b \in K!Body, chain' = Append(chain, b)
  PROVE  /\ chain' \in Seq(K!Body) /\ chain' # <<>>
         /\ Len(chain) \in Nat /\ Len(chain') = Len(chain) + 1
         /\ \A i \in 1..Len(chain) : chain'[i] = chain[i]
         /\ chain'[Len(chain) + 1] = b
<1>1. chain' # <<>> /\ Len(chain) \in Nat /\ Len(chain') = Len(chain) + 1
  BY AppendProperties, LenProperties
<1> QED  BY <1>1, AppendProperties

(* A key set, by a write or a removal, that is no older than what is held. *)
LEMMA SetKeeps ==
  ASSUME KvApart, Stored, up, NEW k \in Key, NEW h \in K!Held, NEW tell \in BOOLEAN,
         K!Set(k, h, tell), said' = K!Recall,
         UNCHANGED <<up, now, disk, subInKv, view, lost>>,
         K!Load[k] # None => h.at >= K!Load[k].at,
         IF K!Removed(h) THEN now - h.at <= Retention ELSE tell,
         ~tell => K!Load[k] = None \/ K!Removed(K!Load[k])
  PROVE  Stored'
<1> DEFINE b == [all |-> mem', key |-> k, held |-> h, tell |-> tell]
           n == Len(chain) + 1
<1>1. KvTypes /\ ChainClimbs /\ BodiesStand /\ MemoryIsOwed /\ AnswersKept /\ RemovalsTold
      /\ ViewLacks
  BY DEF Stored
<1>2. mem' = [K!Load EXCEPT ![k] = h] /\ chain' = Append(chain, b)
  BY DEF K!Set
<1>3. mem' \in K!Namespace /\ said' \in K!Namespace /\ b \in K!Body
      /\ b.all = mem' /\ b.key = k /\ b.held = h /\ b.tell = tell
  BY <1>1, <1>2, LoadTypes DEF K!Namespace, K!Body
<1> HIDE DEF b
<1>4. /\ chain' \in Seq(K!Body) /\ chain' # <<>> /\ n \in Nat \ {0}
      /\ Len(chain) = n - 1 /\ Len(chain') = n
      /\ \A i \in 1..(n - 1) : chain'[i] = chain[i]
      /\ chain'[n] = b
  BY <1>1, <1>2, <1>3, BodyBehind DEF KvTypes
<1> HIDE DEF n
<1>5. /\ mem'[k] = h
      /\ \A j \in Key \ {k} : mem'[j] = IF K!Expired(mem[j]) THEN None ELSE mem[j]
      /\ \A j \in Key : /\ K!Load[j] = IF K!Expired(mem[j]) THEN None ELSE mem[j]
                        /\ said'[j] = IF K!Expired(mem[j]) THEN None ELSE said[j]
                        /\ K!Live(mem)[j] = IF K!Removed(mem[j]) THEN None ELSE mem[j]
                        /\ K!Live(mem')[j] = IF K!Removed(mem'[j]) THEN None ELSE mem'[j]
  <2>1. K!Load \in K!Namespace
    BY <1>1, LoadTypes
  <2> QED  BY <1>2, <2>1, LoadIs, RecallIs, LiveIs DEF K!Namespace
<1>6. \A g : /\ K!Expired(g)' <=> K!Expired(g)
             /\ K!Expired(g) => K!Removed(g)
             /\ K!Removed(g) => g # None
  BY DEF K!Expired, K!Removed
<1>7. h # None
  BY DEF KvApart
<1>8. \A i \in 1..(n - 1) :
        /\ chain[i] \in K!Body /\ chain[i].key \in Key
        /\ mem[chain[i].key] # None /\ ~K!Expired(mem[chain[i].key])
        /\ mem[chain[i].key].at >= chain[i].held.at
        /\ chain[i].held.at \in Int /\ mem[chain[i].key].at \in Int
  <2> SUFFICES ASSUME NEW i \in 1..(n - 1)
               PROVE  /\ chain[i] \in K!Body /\ chain[i].key \in Key
                      /\ mem[chain[i].key] # None /\ ~K!Expired(mem[chain[i].key])
                      /\ mem[chain[i].key].at >= chain[i].held.at
                      /\ chain[i].held.at \in Int /\ mem[chain[i].key].at \in Int
    OBVIOUS
  <2>1. /\ chain[i] \in K!Body /\ chain[i].key \in Key
        /\ mem[chain[i].key] \in K!Held /\ mem[chain[i].key] # None
        /\ ~K!Expired(mem[chain[i].key])
        /\ mem[chain[i].key].at >= chain[i].held.at
    BY <1>4, OwedIsFresh
  <2>2. chain[i].held \in K!Held
    BY <2>1 DEF K!Body
  <2> QED  BY <2>1, <2>2 DEF K!Held, K!Time
<1>9. KvTypes'
  BY <1>1, <1>3, <1>4 DEF KvTypes
<1>10. ChainClimbs'
  <2> SUFFICES ASSUME ~lost, NEW j \in Key, NEW i \in 1..n
               PROVE  /\ i = 1 => Before(disk[j], chain[i].all[j])'
                      /\ i > 1 => Before(chain[i - 1].all[j], chain[i].all[j])'
                      /\ i = n => Shrunk(chain[i].all[j], mem[j])'
    BY <1>4 DEF ChainClimbs
  <2> DEFINE last == IF n = 1 THEN disk[j] ELSE chain[n - 1].all[j]
  <2>1. Shrunk(last, mem[j])
    BY <1>1, <1>4, EmptySeq DEF ChainClimbs
  <2>2. mem[j] # None => mem[j] \in K!Held /\ mem[j].at \in Int
    BY <1>1 DEF KvTypes, K!Namespace, K!Held, K!Time
  <2>3. last = None \/ K!Expired(last) \/ (mem'[j] # None /\ mem'[j].at >= last.at)
    BY <1>5, <1>6, <1>7, <2>1, <2>2 DEF Shrunk
  <2>4. CASE i = n
    BY <1>3, <1>4, <1>6, <2>3, <2>4 DEF Before, Shrunk
  <2>5. CASE i # n
    <3>1. i \in 1..(n - 1) /\ (i > 1 => i - 1 \in 1..(n - 1))
      BY <1>4, <2>5
    <3>2. /\ i = 1 => Before(disk[j], chain[i].all[j])
          /\ i > 1 => Before(chain[i - 1].all[j], chain[i].all[j])
      BY <1>1, <1>4, <3>1 DEF ChainClimbs
    <3> QED  BY <1>4, <1>6, <2>5, <3>1, <3>2 DEF Before
  <2> QED  BY <2>4, <2>5
<1>11. BodiesStand'
  <2> SUFFICES ASSUME NEW i \in 1..n
               PROVE  /\ chain'[i].held = chain'[i].all[chain'[i].key]
                      /\ IF K!Removed(chain'[i].held) THEN now - chain'[i].held.at <= Retention
                         ELSE chain'[i].tell
                      /\ \A j \in i..n :
                           /\ chain'[j].all[chain'[i].key] # None
                           /\ chain'[j].all[chain'[i].key].at >= chain'[i].held.at
    BY <1>4 DEF BodiesStand, K!Removed
  <2>1. CASE i = n
    <3>1. h.at \in Int
      BY DEF K!Held, K!Time
    <3> QED  BY <1>3, <1>4, <1>5, <1>7, <2>1, <3>1
  <2>2. CASE i # n
    <3>1. i \in 1..(n - 1) /\ chain'[i] = chain[i]
      BY <1>4, <2>2
    <3>2. \A j \in i..(n - 1) : chain'[j] = chain[j]
      BY <1>4, <3>1
    <3>3. /\ mem'[chain[i].key] # None
          /\ mem'[chain[i].key].at >= chain[i].held.at
      <4>1. h.at \in Int
        BY DEF K!Held, K!Time
      <4> QED  BY <1>5, <1>7, <1>8, <3>1, <4>1
    <3>4. \A j \in i..n : j \in i..(n - 1) \/ j = n
      BY <1>4, <3>1
    <3> QED  BY <1>1, <1>3, <1>4, <3>1, <3>2, <3>3, <3>4 DEF BodiesStand
  <2> QED  BY <2>1, <2>2
<1>12. MemoryIsOwed'
  <2> SUFFICES ASSUME NEW i \in 1..n
               PROVE  \E j \in i..n : /\ chain'[j].key = chain'[i].key
                                      /\ mem'[chain'[i].key] = chain'[j].held
    BY <1>4 DEF MemoryIsOwed
  <2>1. CASE chain'[i].key = k
    <3>1. n \in i..n
      BY <1>4
    <3> QED  BY <1>3, <1>4, <1>5, <2>1, <3>1
  <2>2. CASE chain'[i].key # k
    <3>1. i \in 1..(n - 1) /\ chain'[i] = chain[i]
      BY <1>3, <1>4, <2>2
    <3>2. PICK j \in i..(n - 1) : chain[j].key = chain[i].key /\ mem[chain[i].key] = chain[j].held
      BY <1>1, <1>4, <3>1 DEF MemoryIsOwed
    <3>3. j \in i..n /\ chain'[j] = chain[j]
      BY <1>4, <3>1, <3>2
    <3>4. mem'[chain[i].key] = mem[chain[i].key]
      BY <1>5, <1>8, <2>2, <3>1
    <3> QED  BY <3>1, <3>2, <3>3, <3>4
  <2> QED  BY <2>1, <2>2
<1>13. AnswersKept'
  <2>1. ASSUME NEW ns, Covers(ns), NEW j \in Key, said'[j] # None
        PROVE  (ns[j] # None /\ ns[j].at >= said'[j].at) \/ K!Expired(said'[j])
    BY <1>5, <2>1 DEF Covers
  <2>2. ASSUME NEW j \in Key, said'[j] # None
        PROVE  (mem'[j] # None /\ mem'[j].at >= said'[j].at) \/ K!Expired(said'[j])
    <3>1. said'[j] = said[j] /\ ~K!Expired(mem[j])
      BY <1>5, <2>2
    <3>2. (mem[j] # None /\ mem[j].at >= said[j].at) \/ K!Expired(said[j])
      BY <1>1, <2>2, <3>1 DEF AnswersKept, Covers
    <3>3. CASE K!Expired(said[j])
      BY <3>1, <3>3
    <3>4. CASE mem[j] # None /\ mem[j].at >= said[j].at
      <4>1. said[j] \in K!Held /\ mem[j] \in K!Held
        BY <1>1, <2>2, <3>1, <3>4 DEF KvTypes, K!Namespace
      <4>2. said[j].at \in Int /\ mem[j].at \in Int /\ h.at \in Int
        BY <4>1 DEF K!Held, K!Time
      <4> QED  BY <1>5, <1>7, <3>1, <3>4, <4>2
    <3> QED  BY <3>2, <3>3, <3>4
  <2>3. Covers(disk)'
    BY <1>1, <1>6, <2>1 DEF AnswersKept, Covers
  <2>4. Covers(mem)'
    BY <1>6, <2>2 DEF Covers
  <2>5. ASSUME NEW i \in 1..n PROVE Covers(chain[i].all)'
    <3>1. CASE i = n
      BY <1>3, <1>4, <1>6, <2>2, <3>1 DEF Covers
    <3>2. CASE i # n
      <4>1. i \in 1..(n - 1) /\ chain'[i] = chain[i]
        BY <1>4, <3>2
      <4> QED  BY <1>1, <1>4, <1>6, <2>1, <4>1 DEF AnswersKept, Covers
    <3> QED  BY <3>1, <3>2
  <2> QED  BY <1>4, <2>3, <2>4, <2>5 DEF AnswersKept
<1>14. \A j \in Key : (\E i \in 1..(n - 1) : chain[i].key = j) => mem[j] # None /\ ~K!Expired(mem[j])
  BY <1>8
<1>15. ASSUME NEW j \in Key, K!Removed(mem'[j])
       PROVE  /\ Untold(j) /\ K!Removed(mem[j]) => Untold(j)' \/ Told(j)'
              /\ Told(j) => Told(j)'
              /\ j = k /\ tell => Told(j)'
              /\ (\A i \in 1..(n - 1) : chain[i].key # j) => Untold(j)'
  <2>1. j = k => K!Removed(h)
    BY <1>5, <1>15
  <2>2. \A i \in 1..n : i \in 1..(n - 1) \/ i = n
    BY <1>4
  <2>3. Untold(j) => Untold(j)'
    BY <1>3, <1>4, <2>1, <2>2 DEF Untold, K!Removed
  <2>4. Told(j) => Told(j)'
    <3> SUFFICES ASSUME Told(j) PROVE Told(j)'
      OBVIOUS
    <3>1. PICK i \in 1..(n - 1) :
            /\ chain[i].key = j /\ chain[i].tell
            /\ \A m \in i..(n - 1) : chain[m].key = j => K!Removed(chain[m].held)
      BY <1>4 DEF Told
    <3>2. i \in 1..n /\ \A m \in i..n : m \in i..(n - 1) \/ m = n
      BY <1>4, <3>1
    <3>3. \A m \in i..n : chain'[m].key = j => K!Removed(chain'[m].held)
      BY <1>3, <1>4, <2>1, <3>1, <3>2
    <3> QED  BY <1>4, <3>1, <3>2, <3>3 DEF Told, K!Removed
  <2>5. ASSUME j = k, tell PROVE Told(j)'
    <3>1. n \in 1..n /\ \A m \in n..n : m = n
      BY <1>4
    <3> QED  BY <1>3, <1>4, <2>1, <2>5, <3>1 DEF Told, K!Removed
  <2>6. ASSUME \A i \in 1..(n - 1) : chain[i].key # j PROVE Untold(j)'
    BY <1>3, <1>4, <2>1, <2>2, <2>6 DEF Untold, K!Removed
  <2> QED  BY <2>3, <2>4, <2>5, <2>6
<1>16. ASSUME NEW j \in Key, K!Removed(mem'[j])
       PROVE  \/ K!Removed(mem[j])
              \/ j = k /\ tell
              \/ j = k /\ ~tell /\ (\A i \in 1..(n - 1) : chain[i].key # j)
  BY <1>5, <1>6, <1>14, <1>16
<1>17. RemovalsTold'
  BY <1>1, <1>15, <1>16 DEF RemovalsTold
<1>18. ViewLacks'
  <2> SUFFICES ASSUME subInKv, ~lost, NEW j \in Key
               PROVE  /\ (\A i \in 1..n : chain'[i].key # j) => view[j] = K!Live(mem')[j]
                      /\ K!Removed(mem'[j]) => (view[j] = None /\ Untold(j)') \/ Told(j)'
    BY <1>4 DEF ViewLacks
  <2>1. /\ (\A i \in 1..(n - 1) : chain[i].key # j) => view[j] = K!Live(mem)[j]
        /\ K!Removed(mem[j]) => (view[j] = None /\ Untold(j)) \/ Told(j)
    BY <1>1, <1>4 DEF ViewLacks
  <2>2. ASSUME \A i \in 1..n : chain'[i].key # j PROVE view[j] = K!Live(mem')[j]
    <3>1. j # k /\ \A i \in 1..(n - 1) : chain[i].key # j
      BY <1>3, <1>4, <2>2
    <3> QED  BY <1>5, <1>6, <2>1, <3>1
  <2>3. ASSUME K!Removed(mem'[j]) PROVE (view[j] = None /\ Untold(j)') \/ Told(j)'
    <3>1. CASE K!Removed(mem[j])
      BY <1>15, <2>1, <2>3, <3>1
    <3>2. CASE j = k /\ tell
      BY <1>15, <2>3, <3>2
    <3>3. CASE ~K!Removed(mem[j]) /\ j = k /\ ~tell /\ (\A i \in 1..(n - 1) : chain[i].key # j)
      <4>1. mem[j] = None
        BY <1>5, <1>6, <3>3
      <4>2. view[j] = None
        BY <1>5, <2>1, <3>3, <4>1
      <4> QED  BY <1>15, <2>3, <3>3, <4>2
    <3> QED  BY <1>16, <2>3, <3>1, <3>2, <3>3
  <2> QED  BY <2>2, <2>3
<1> QED  BY <1>9, <1>10, <1>11, <1>12, <1>13, <1>17, <1>18 DEF Stored

(* The body at the head of the chain let go.                               *)
LEMMA BodyAhead ==
  ASSUME chain \in Seq(K!Body), chain # <<>>, chain' = Tail(chain)
  PROVE  /\ chain' \in Seq(K!Body) /\ Head(chain) = chain[1] /\ chain[1] \in K!Body
         /\ Len(chain') \in Nat /\ Len(chain) = Len(chain') + 1
         /\ \A i \in 1..Len(chain') : i + 1 \in 1..Len(chain) /\ chain'[i] = chain[i + 1]
<1>1. /\ Len(chain) \in Nat /\ Len(chain) > 0 /\ chain' \in Seq(K!Body)
      /\ Len(chain') = Len(chain) - 1
  BY HeadTailProperties, EmptySeq, LenProperties
<1> QED  BY <1>1, HeadTailProperties

(* It goes with or without having reached the file.                        *)
LEMMA AheadKeeps ==
  ASSUME KvApart, Stored, chain # <<>>, chain' = Tail(chain), UNCHANGED <<now, mem>>
  PROVE  /\ BodiesStand' /\ MemoryIsOwed' /\ RemovalsTold'
         /\ \A k \in Key : /\ Untold(k) => Untold(k)'
                           /\ Told(k) => Told(k)' \/ (/\ chain[1].key = k /\ chain[1].tell
                                                       /\ Untold(k) /\ Untold(k)')
<1> DEFINE n == Len(chain')
<1>1. /\ chain' \in Seq(K!Body) /\ chain[1] \in K!Body /\ n \in Nat /\ Len(chain) = n + 1
      /\ \A i \in 1..n : i + 1 \in 1..(n + 1) /\ chain'[i] = chain[i + 1]
  BY BodyAhead DEF Stored, KvTypes
<1> HIDE DEF n
<1>2. BodiesStand'
  <2> SUFFICES ASSUME NEW i \in 1..n
               PROVE  /\ chain'[i].held = chain'[i].all[chain'[i].key]
                      /\ IF K!Removed(chain'[i].held) THEN now - chain'[i].held.at <= Retention
                         ELSE chain'[i].tell
                      /\ \A j \in i..n :
                           /\ chain'[j].all[chain'[i].key] # None
                           /\ chain'[j].all[chain'[i].key].at >= chain'[i].held.at
    BY DEF BodiesStand, K!Removed, n
  <2>1. \A j \in i..n : j + 1 \in (i + 1)..(n + 1) /\ chain'[j] = chain[j + 1]
    BY <1>1
  <2> QED  BY <1>1, <2>1 DEF Stored, BodiesStand
<1>3. MemoryIsOwed'
  <2> SUFFICES ASSUME NEW i \in 1..n
               PROVE  \E j \in i..n : /\ chain'[j].key = chain'[i].key
                                      /\ mem[chain'[i].key] = chain'[j].held
    BY DEF MemoryIsOwed, n
  <2>1. PICK j \in (i + 1)..(n + 1) : /\ chain[j].key = chain[i + 1].key
                                      /\ mem[chain[i + 1].key] = chain[j].held
    BY <1>1 DEF Stored, MemoryIsOwed
  <2>2. j - 1 \in i..n /\ chain'[j - 1] = chain[j]
    BY <1>1, <2>1
  <2> QED  BY <1>1, <2>1, <2>2
<1>4. ASSUME NEW k \in Key, Untold(k) PROVE Untold(k)'
  BY <1>1, <1>4 DEF Untold, K!Removed, n
<1>5. ASSUME NEW k \in Key, Told(k)
      PROVE  Told(k)' \/ (chain[1].key = k /\ chain[1].tell /\ Untold(k) /\ Untold(k)')
  <2>1. PICK i \in 1..(n + 1) :
          /\ chain[i].key = k /\ chain[i].tell
          /\ \A j \in i..(n + 1) : chain[j].key = k => K!Removed(chain[j].held)
    BY <1>1, <1>5 DEF Told
  <2>2. CASE i = 1
    <3>1. Untold(k)
      BY <1>1, <2>1, <2>2 DEF Untold
    <3> QED  BY <1>4, <2>1, <2>2, <3>1
  <2>3. CASE i # 1
    <3>1. i - 1 \in 1..n /\ chain'[i - 1] = chain[i]
      BY <1>1, <2>1, <2>3
    <3>2. \A j \in (i - 1)..n : j + 1 \in i..(n + 1) /\ chain'[j] = chain[j + 1]
      BY <1>1, <3>1
    <3>3. \A j \in (i - 1)..n : chain'[j].key = k => K!Removed(chain'[j].held)
      BY <2>1, <3>2
    <3> QED  BY <2>1, <3>1, <3>3 DEF Told, K!Removed, n
  <2> QED  BY <2>2, <2>3
<1>6. RemovalsTold'
  BY <1>4, <1>5 DEF Stored, RemovalsTold, K!Removed
<1> QED  BY <1>2, <1>3, <1>4, <1>5, <1>6

LEMMA LandedKeeps ==
  ASSUME KvApart, Stored, K!Landed PROVE Stored' /\ K!KeepsFile
<1> DEFINE b == Head(chain)
           n == Len(chain')
<1>1. /\ chain # <<>> /\ chain' = Tail(chain) /\ up
      /\ disk' = b.all
      /\ view' = IF subInKv /\ b.tell THEN K!Live([view EXCEPT ![b.key] = b.held]) ELSE view
      /\ said' = [said EXCEPT ![b.key] = b.held]
      /\ UNCHANGED <<up, now, mem, subInKv, lost>>
  BY DEF K!Landed
<1>2. KvTypes /\ ChainClimbs /\ BodiesStand /\ MemoryIsOwed /\ AnswersKept /\ RemovalsTold
      /\ ViewLacks
  BY DEF Stored
<1>3. /\ chain' \in Seq(K!Body) /\ b = chain[1] /\ b \in K!Body
      /\ n \in Nat /\ Len(chain) = n + 1
      /\ \A i \in 1..n : i + 1 \in 1..(n + 1) /\ chain'[i] = chain[i + 1]
      /\ chain' = <<>> <=> n = 0
  BY <1>1, <1>2, BodyAhead, EmptySeq DEF KvTypes
<1> HIDE DEF b, n
<1>4. /\ BodiesStand' /\ MemoryIsOwed' /\ RemovalsTold'
      /\ \A k \in Key : /\ Untold(k) => Untold(k)'
                        /\ Told(k) => Told(k)' \/ (/\ b.key = k /\ b.tell
                                                    /\ Untold(k) /\ Untold(k)')
  BY <1>1, <1>3, AheadKeeps
<1>5. /\ b.key \in Key /\ b.held \in K!Held /\ b.all \in K!Namespace /\ b.tell \in BOOLEAN
      /\ b.held = b.all[b.key] /\ b.held # None /\ 1 \in 1..(n + 1)
      /\ K!Removed(b.held) \/ b.tell
  BY <1>2, <1>3 DEF BodiesStand, K!Body, KvApart
<1>6. \A g : /\ K!Expired(g)' <=> K!Expired(g)
             /\ K!Expired(g) => K!Removed(g)
             /\ K!Removed(g) => g # None
  BY <1>1 DEF K!Expired, K!Removed
<1>7. /\ said' \in K!Namespace /\ said'[b.key] = b.held
      /\ \A k \in Key \ {b.key} : said'[k] = said[k]
  BY <1>1, <1>2, <1>5 DEF KvTypes, K!Namespace
<1>8. /\ \A k \in Key \ {b.key} : view'[k] = view[k]
      /\ view'[b.key] = IF subInKv /\ b.tell
                        THEN (IF K!Removed(b.held) THEN None ELSE b.held) ELSE view[b.key]
      /\ view' \in [Key -> [at : K!Time, v : Value] \cup {None}]
  <2> DEFINE w == [view EXCEPT ![b.key] = b.held]
  <2>1. /\ \A k \in Key \ {b.key} : w[k] = view[k]
        /\ w[b.key] = b.held
    BY <1>2, <1>5 DEF KvTypes
  <2>2. \A k \in Key : view[k] \in [at : K!Time, v : Value] \cup {None} /\ ~K!Removed(view[k])
    BY <1>2 DEF KvTypes, K!Removed, KvApart
  <2> HIDE DEF w
  <2>3. K!Live(w) = [k \in Key |-> IF K!Removed(w[k]) THEN None ELSE w[k]]
    BY DEF K!Live
  <2>4. ~K!Removed(b.held) => b.held \in [at : K!Time, v : Value]
    <3>1. b.held # None
      BY <1>5
    <3> QED  BY <1>5, <3>1 DEF K!Removed, K!Held
  <2>5. \A k \in Key : K!Live(w)[k] \in [at : K!Time, v : Value] \cup {None}
    BY <2>1, <2>2, <2>3, <2>4
  <2>6. /\ \A k \in Key \ {b.key} : K!Live(w)[k] = view[k]
        /\ K!Live(w)[b.key] = IF K!Removed(b.held) THEN None ELSE b.held
    BY <1>5, <2>1, <2>2, <2>3
  <2>7. K!Live(w) \in [Key -> [at : K!Time, v : Value] \cup {None}]
    BY <2>3, <2>5
  <2>8. view' = IF subInKv /\ b.tell THEN K!Live(w) ELSE view
    BY <1>1 DEF w
  <2> QED  BY <1>2, <1>5, <2>6, <2>7, <2>8 DEF KvTypes
<1>9. KvTypes'
  BY <1>1, <1>2, <1>3, <1>5, <1>7, <1>8 DEF KvTypes
<1>10. ChainClimbs'
  <2> SUFFICES ASSUME ~lost, NEW k \in Key
               PROVE  /\ \A i \in 1..n :
                           /\ i = 1 => Before(disk[k], chain[i].all[k])'
                           /\ i > 1 => Before(chain[i - 1].all[k], chain[i].all[k])'
                           /\ i = n => Shrunk(chain[i].all[k], mem[k])'
                      /\ n = 0 => Shrunk(disk[k], mem[k])'
    BY <1>1, <1>3 DEF ChainClimbs, n
  <2>1. \A i \in 1..(n + 1) :
          /\ i > 1 => Before(chain[i - 1].all[k], chain[i].all[k])
          /\ i = n + 1 => Shrunk(chain[i].all[k], mem[k])
    BY <1>1, <1>2, <1>3 DEF ChainClimbs
  <2>2. n = 0 => Shrunk(disk[k], mem[k])'
    BY <1>1, <1>3, <1>5, <1>6, <2>1 DEF Shrunk
  <2>3. ASSUME NEW i \in 1..n
        PROVE  /\ i = 1 => Before(disk[k], chain[i].all[k])'
               /\ i > 1 => Before(chain[i - 1].all[k], chain[i].all[k])'
               /\ i = n => Shrunk(chain[i].all[k], mem[k])'
    <3>1. /\ i + 1 \in 1..(n + 1) /\ i + 1 > 1 /\ (i + 1) - 1 = i /\ chain'[i] = chain[i + 1]
          /\ i = 1 => chain[i] = b
          /\ i > 1 => chain'[i - 1] = chain[i]
      BY <1>3
    <3>2. Before(chain[i].all[k], chain[i + 1].all[k])
      BY <2>1, <3>1
    <3>3. i = n => Shrunk(chain[i + 1].all[k], mem[k])
      BY <2>1, <3>1
    <3> QED  BY <1>1, <1>6, <3>1, <3>2, <3>3 DEF Before, Shrunk
  <2> QED  BY <2>2, <2>3
<1>11. AnswersKept'
  <2>1. ASSUME NEW ns, Covers(ns), ns[b.key] # None, ns[b.key].at >= b.held.at,
               NEW k \in Key, said'[k] # None
        PROVE  (ns[k] # None /\ ns[k].at >= said'[k].at) \/ K!Expired(said'[k])
    BY <1>7, <2>1 DEF Covers
  <2>2. Covers(disk)'
    <3>1. Covers(b.all)
      BY <1>2, <1>3, <1>5 DEF AnswersKept
    <3>2. b.held.at \in Int
      BY <1>5 DEF K!Held, K!Time
    <3> QED  BY <1>1, <1>5, <1>6, <2>1, <3>1, <3>2 DEF Covers
  <2>3. Covers(mem)'
    <3>1. mem[b.key] # None /\ mem[b.key].at >= b.held.at
      BY <1>3, <1>5, OwedIsFresh
    <3> QED  BY <1>1, <1>2, <1>6, <2>1, <3>1 DEF AnswersKept, Covers
  <2>4. ASSUME NEW i \in 1..n PROVE Covers(chain[i].all)'
    <3>1. i + 1 \in 1..(n + 1) /\ chain'[i] = chain[i + 1]
      BY <1>3
    <3>2. chain[i + 1].all[b.key] # None /\ chain[i + 1].all[b.key].at >= b.held.at
      BY <1>2, <1>3, <1>5, <3>1 DEF BodiesStand
    <3>3. Covers(chain[i + 1].all)
      BY <1>2, <1>3, <3>1 DEF AnswersKept
    <3> QED  BY <1>6, <2>1, <3>1, <3>2, <3>3 DEF Covers
  <2> QED  BY <2>2, <2>3, <2>4 DEF AnswersKept, n
<1>12. ViewLacks'
  <2> SUFFICES ASSUME subInKv, ~lost, NEW k \in Key
               PROVE  /\ (\A i \in 1..n : chain'[i].key # k) => view'[k] = K!Live(mem)[k]
                      /\ K!Removed(mem[k]) => (view'[k] = None /\ Untold(k)') \/ Told(k)'
    BY <1>1 DEF ViewLacks, n, K!Live, K!Removed
  <2>1. /\ (\A i \in 1..(n + 1) : chain[i].key # k) => view[k] = K!Live(mem)[k]
        /\ K!Removed(mem[k]) => (view[k] = None /\ Untold(k)) \/ Told(k)
    BY <1>1, <1>2, <1>3 DEF ViewLacks
  <2>2. ASSUME K!Removed(mem[k]) PROVE (view'[k] = None /\ Untold(k)') \/ Told(k)'
    <3>1. CASE view[k] = None /\ Untold(k)
      <4>1. k = b.key => K!Removed(b.held)
        BY <1>3, <1>5, <3>1 DEF Untold
      <4> QED  BY <1>4, <1>8, <3>1, <4>1
    <3>2. CASE Told(k) /\ ~Told(k)'
      <4>1. b.key = k /\ b.tell /\ Untold(k) /\ Untold(k)'
        BY <1>4, <3>2
      <4>2. K!Removed(b.held)
        BY <1>3, <1>5, <4>1 DEF Untold
      <4> QED  BY <1>8, <4>1, <4>2
    <3> QED  BY <2>1, <2>2, <3>1, <3>2
  <2>3. ASSUME \A i \in 1..n : chain'[i].key # k PROVE view'[k] = K!Live(mem)[k]
    <3>1. \A i \in 1..(n + 1) : i = 1 \/ chain[i].key # k
      <4> SUFFICES ASSUME NEW i \in 1..(n + 1), i # 1 PROVE chain[i].key # k
        OBVIOUS
      <4>1. i - 1 \in 1..n /\ chain'[i - 1] = chain[i]
        BY <1>3
      <4> QED  BY <2>3, <4>1
    <3>2. CASE b.key # k
      BY <1>3, <1>8, <2>1, <3>1, <3>2
    <3>3. CASE b.key = k
      <4>1. PICK j \in 1..(n + 1) : chain[j].key = k /\ mem[k] = chain[j].held
        BY <1>2, <1>3, <1>5, <3>3 DEF MemoryIsOwed
      <4>2. mem[k] = b.held
        BY <1>3, <3>1, <4>1
      <4>3. K!Live(mem)[k] = IF K!Removed(b.held) THEN None ELSE b.held
        BY <4>2, LiveIs
      <4>4. CASE b.tell
        BY <1>8, <3>3, <4>3, <4>4
      <4>5. CASE ~b.tell
        <5>1. K!Removed(b.held) /\ K!Removed(mem[k])
          BY <1>5, <4>2, <4>5
        <5>2. ~Told(k)
          BY <1>3, <3>1, <4>5 DEF Told
        <5> QED  BY <1>8, <2>1, <3>3, <4>3, <4>5, <5>1, <5>2
      <4> QED  BY <4>4, <4>5
    <3> QED  BY <3>2, <3>3
  <2> QED  BY <2>2, <2>3
<1>13. K!KeepsFile
  <2> SUFFICES ASSUME ~lost, NEW k \in Key
               PROVE  \/ disk[k] = None \/ K!Expired(disk[k])
                      \/ disk'[k] # None /\ disk'[k].at >= disk[k].at
    BY DEF K!KeepsFile
  <2>1. Before(disk[k], chain[1].all[k])
    BY <1>1, <1>2, <1>3, <1>5 DEF ChainClimbs
  <2> QED  BY <1>1, <1>3, <2>1 DEF Before
<1> QED  BY <1>4, <1>9, <1>10, <1>11, <1>12, <1>13 DEF Stored

(* A file that stays as it is goes back to nothing.                        *)
LEMMA FileStays == ASSUME KvApart, KvTypes, UNCHANGED disk PROVE K!KeepsFile
<1> SUFFICES ASSUME NEW k \in Key, disk[k] # None
             PROVE  disk[k].at >= disk[k].at
  BY DEF K!KeepsFile
<1>1. disk[k] \in K!Held
  BY DEF KvTypes, K!Namespace
<1> QED  BY <1>1 DEF K!Held, K!Time

LEMMA FailsKeeps == ASSUME KvApart, Stored, K!PersistFails PROVE Stored' /\ K!KeepsFile
<1>1. /\ chain # <<>> /\ chain' = Tail(chain) /\ up /\ lost' = TRUE
      /\ UNCHANGED <<up, now, mem, disk, subInKv, view, said>>
  BY DEF K!PersistFails
<1>2. KvTypes /\ AnswersKept
  BY DEF Stored
<1>3. /\ chain' \in Seq(K!Body) /\ Len(chain') \in Nat /\ Len(chain) = Len(chain') + 1
      /\ \A i \in 1..Len(chain') : i + 1 \in 1..Len(chain) /\ chain'[i] = chain[i + 1]
  BY <1>1, <1>2, BodyAhead DEF KvTypes
<1>4. BodiesStand' /\ MemoryIsOwed' /\ RemovalsTold'
  BY <1>1, AheadKeeps
<1>5. KvTypes' /\ ChainClimbs' /\ ViewLacks'
  BY <1>1, <1>2, <1>3 DEF KvTypes, ChainClimbs, ViewLacks
<1>6. \A h : K!Expired(h)' <=> K!Expired(h)
  BY <1>1 DEF K!Expired, K!Removed
<1>7. AnswersKept'
  BY <1>1, <1>2, <1>3, <1>6 DEF AnswersKept, Covers
<1> QED  BY <1>1, <1>2, <1>4, <1>5, <1>7, FileStays DEF Stored

(* Time only makes more of what is held old enough to forget.              *)
LEMMA TickKeeps == ASSUME KvApart, Stored, K!Tick PROVE Stored' /\ K!KeepsFile
<1>1. /\ \A i \in DOMAIN chain :
           K!Removed(chain[i].held) => now - chain[i].held.at < Retention
      /\ now < KvTime /\ now' = now + 1
      /\ UNCHANGED <<up, mem, chain, disk, subInKv, view, said, lost>>
  BY DEF K!Tick
<1>2. KvTypes /\ ChainClimbs /\ BodiesStand /\ MemoryIsOwed /\ AnswersKept /\ RemovalsTold
      /\ ViewLacks
  BY DEF Stored
<1>3. /\ now \in Nat /\ now' \in Nat /\ now' \in K!Time
      /\ chain \in Seq(K!Body) /\ DOMAIN chain = 1..Len(chain)
      /\ \A i \in 1..Len(chain) : chain[i] \in K!Body
  BY <1>1, <1>2 DEF KvTypes, KvApart, K!Time
<1>4. KvTypes'
  BY <1>1, <1>2, <1>3 DEF KvTypes, K!Namespace, K!Held, K!Body, K!Time
<1>5. ASSUME NEW h \in K!Held \cup {None}, K!Expired(h) PROVE K!Expired(h)'
  <2>1. h \in K!Held
    BY <1>5 DEF K!Expired, K!Removed
  <2>2. h.at \in Int /\ now - h.at > Retention /\ K!Removed(h)
    BY <1>5, <2>1 DEF K!Held, K!Time, K!Expired
  <2> QED  BY <1>1, <1>3, <2>2 DEF K!Expired, K!Removed, KvApart
<1>6. /\ \A k \in Key : /\ disk[k] \in K!Held \cup {None} /\ said[k] \in K!Held \cup {None}
                        /\ \A i \in 1..Len(chain) : chain[i].all[k] \in K!Held \cup {None}
      /\ \A i \in 1..Len(chain) : i > 1 => i - 1 \in 1..Len(chain)
      /\ chain # <<>> => 1 \in 1..Len(chain)
  BY <1>2, <1>3 DEF KvTypes, K!Namespace, K!Body
<1>7. ChainClimbs'
  BY <1>1, <1>2, <1>5, <1>6 DEF ChainClimbs, Before, Shrunk
<1>8. BodiesStand'
  <2>1. ASSUME NEW i \in 1..Len(chain), K!Removed(chain[i].held)
        PROVE  now' - chain[i].held.at <= Retention
    <3>1. chain[i].held.at \in Int
      BY <1>3 DEF K!Body, K!Held, K!Time
    <3> QED  BY <1>1, <1>3, <2>1, <3>1 DEF KvApart
  <2> QED  BY <1>1, <1>2, <2>1 DEF BodiesStand, K!Removed
<1>9. MemoryIsOwed' /\ RemovalsTold' /\ ViewLacks'
  BY <1>1, <1>2 DEF MemoryIsOwed, RemovalsTold, ViewLacks, Untold, Told, K!Removed, K!Live
<1>10. AnswersKept'
  BY <1>1, <1>2, <1>5, <1>6 DEF AnswersKept, Covers
<1> QED  BY <1>1, <1>2, <1>4, <1>7, <1>8, <1>9, <1>10, FileStays DEF Stored

(* A kill leaves of it what the file has, one body further or not.         *)
LEMMA CrashKeeps == ASSUME KvApart, Stored, K!Crash PROVE Stored' /\ K!KeepsFile
<1>1. /\ up /\ up' = FALSE
      /\ disk' = disk \/ (chain # <<>> /\ disk' = Head(chain).all)
      /\ mem' = K!Nothing /\ chain' = <<>> /\ subInKv' = FALSE /\ view' = K!Nothing
      /\ lost' = FALSE /\ UNCHANGED <<now, said>>
  BY DEF K!Crash
<1>2. KvTypes /\ ChainClimbs /\ AnswersKept
  BY DEF Stored
<1>3. chain # <<>> => 1 \in 1..Len(chain) /\ Head(chain) = chain[1] /\ chain[1] \in K!Body
  BY <1>2 DEF KvTypes
<1>4. disk' \in K!Namespace
  BY <1>1, <1>2, <1>3 DEF KvTypes, K!Body
<1>5. KvTypes'
  BY <1>1, <1>2, <1>4, EmptySeq DEF KvTypes, K!Nothing, K!Namespace
<1>6. \A k \in Key : ~K!Removed(mem'[k])
  BY <1>1 DEF K!Nothing, K!Removed
<1>7. Len(chain') = 0
  BY <1>1, EmptySeq
<1>8. ChainClimbs' /\ BodiesStand' /\ MemoryIsOwed' /\ RemovalsTold' /\ ViewLacks'
  BY <1>1, <1>6, <1>7
     DEF ChainClimbs, BodiesStand, MemoryIsOwed, RemovalsTold, ViewLacks, Untold, K!Removed
<1>9. AnswersKept'
  BY <1>1, <1>2, <1>3, <1>7 DEF AnswersKept, Covers, K!Expired, K!Removed
<1>10. K!KeepsFile
  <2>1. CASE disk' = disk
    BY <1>2, <2>1, FileStays
  <2>2. CASE chain # <<>> /\ disk' = Head(chain).all
    <3> SUFFICES ASSUME ~lost, NEW k \in Key
                 PROVE  \/ disk[k] = None \/ K!Expired(disk[k])
                        \/ disk'[k] # None /\ disk'[k].at >= disk[k].at
      BY DEF K!KeepsFile
    <3>1. Before(disk[k], chain[1].all[k])
      BY <1>1, <1>2, <1>3, <2>2 DEF ChainClimbs
    <3> QED  BY <1>3, <2>2, <3>1 DEF Before
  <2> QED  BY <1>1, <2>1, <2>2
<1> QED  BY <1>5, <1>8, <1>9, <1>10 DEF Stored

LEMMA RestartKeeps == ASSUME KvApart, Stored, K!Restart PROVE Stored' /\ K!KeepsFile
<1>1. /\ ~up /\ up' = TRUE /\ mem' = disk
      /\ UNCHANGED <<now, chain, disk, subInKv, view, said, lost>>
  BY DEF K!Restart
<1>2. KvTypes /\ AnswersKept
  BY DEF Stored
<1>3. chain = <<>> /\ Len(chain) = 0 /\ ~subInKv
  BY <1>1, <1>2, EmptySeq DEF KvTypes
<1>4. KvTypes' /\ ChainClimbs' /\ BodiesStand' /\ MemoryIsOwed' /\ RemovalsTold' /\ ViewLacks'
  BY <1>1, <1>2, <1>3
     DEF KvTypes, ChainClimbs, Shrunk, BodiesStand, MemoryIsOwed, RemovalsTold, ViewLacks, Untold
<1>5. AnswersKept'
  BY <1>1, <1>2, <1>3 DEF AnswersKept, Covers, K!Expired, K!Removed
<1> QED  BY <1>1, <1>2, <1>4, <1>5, FileStays DEF Stored

LEMMA WriteKeeps ==
  ASSUME KvApart, Stored, NEW k \in Key, NEW v \in Value, NEW at \in K!Time, K!Write(k, v, at)
  PROVE  Stored' /\ K!KeepsFile
<1>1. up /\ said' = K!Recall /\ UNCHANGED <<up, now, disk, subInKv, view, lost>>
  BY DEF K!Write, K!Ready
<1>2. K!KeepsFile
  BY <1>1, FileStays DEF Stored
<1>3. CASE K!Stands(k, at)
  <2>1. mem' = K!Load /\ UNCHANGED chain
    BY <1>3 DEF K!Write
  <2> QED  BY <1>1, <1>2, <2>1, LooksKeep
<1>4. CASE ~K!Stands(k, at)
  <2> DEFINE h == [at |-> at, v |-> v]
  <2>1. K!Set(k, h, TRUE)
    BY <1>4 DEF K!Write
  <2>2. h \in K!Held /\ h.at = at /\ ~K!Removed(h)
    BY DEF K!Held, K!Removed, KvApart
  <2>3. K!Load[k] # None => h.at >= K!Load[k].at
    <3>1. K!Load[k] # None => K!Load[k].at \in Int
      BY LoadTypes DEF Stored, K!Namespace, K!Held, K!Time
    <3>2. at \in Int
      BY DEF K!Time
    <3> QED  BY <1>4, <3>1, <3>2 DEF K!Stands
  <2> HIDE DEF h
  <2> QED  BY <1>1, <1>2, <2>1, <2>2, <2>3, SetKeeps
<1> QED  BY <1>3, <1>4

LEMMA DeleteKeeps ==
  ASSUME KvApart, Stored, NEW k \in Key, K!Delete(k)
  PROVE  Stored' /\ K!KeepsFile
<1>1. up /\ said' = K!Recall /\ UNCHANGED <<up, now, disk, subInKv, view, lost>>
  BY DEF K!Delete, K!Ready
<1>2. K!KeepsFile
  BY <1>1, FileStays DEF Stored
<1>3. CASE K!Stands(k, now)
  <2>1. mem' = K!Load /\ UNCHANGED chain
    BY <1>3 DEF K!Delete
  <2> QED  BY <1>1, <1>2, <2>1, LooksKeep
<1>4. CASE ~K!Stands(k, now)
  <2> DEFINE h == [at |-> now, v |-> Gone]
             tell == K!Load[k] # None /\ ~K!Removed(K!Load[k])
  <2>1. K!Set(k, h, tell)
    BY <1>4 DEF K!Delete
  <2>2. now \in K!Time /\ now \in Int
    BY DEF Stored, KvTypes, K!Time
  <2>3. h \in K!Held /\ h.at = now
    BY <2>2 DEF K!Held
  <2>4. h # None
    BY <2>3 DEF KvApart
  <2>5. K!Removed(h)
    BY <2>4 DEF K!Removed
  <2>6. K!Load[k] # None => h.at >= K!Load[k].at
    <3>1. K!Load[k] # None => K!Load[k].at \in Int
      BY LoadTypes DEF Stored, K!Namespace, K!Held, K!Time
    <3> QED  BY <1>4, <2>2, <2>3, <3>1 DEF K!Stands
  <2>7. now - h.at <= Retention
    BY <2>2, <2>3 DEF KvApart
  <2>8. tell \in BOOLEAN /\ (~tell => K!Load[k] = None \/ K!Removed(K!Load[k]))
    OBVIOUS
  <2> HIDE DEF h, tell
  <2> QED  BY <1>1, <1>2, <2>1, <2>3, <2>5, <2>6, <2>7, <2>8, SetKeeps
<1> QED  BY <1>3, <1>4

LEMMA StoreStep == ASSUME KvApart, Stored, K!Next PROVE Stored' /\ K!KeepsFile
<1>1. CASE K!Read \/ K!Subscribe
  <2>1. /\ up /\ mem' = K!Load /\ said' = K!Recall /\ UNCHANGED <<up, now, chain, disk, lost>>
        /\ \/ UNCHANGED <<subInKv, view>>
           \/ subInKv' = TRUE /\ view' = K!Live(mem')
    BY <1>1 DEF K!Read, K!Subscribe
  <2>2. K!KeepsFile
    BY <2>1, FileStays DEF Stored
  <2> QED  BY <2>1, <2>2, LooksKeep
<1> QED
  BY <1>1, WriteKeeps, DeleteKeeps, LandedKeeps, FailsKeeps, TickKeeps, CrashKeeps, RestartKeeps
     DEF K!Next

LEMMA StoreInit == ASSUME KvApart, K!Init PROVE Stored
<1>1. /\ up = TRUE /\ now = 0 /\ lost = FALSE /\ subInKv \in BOOLEAN /\ chain = <<>>
      /\ mem = K!Nothing /\ disk = K!Nothing /\ view = K!Nothing /\ said = K!Nothing
  BY DEF K!Init
<1>2. \A k \in Key : K!Nothing[k] = None
  BY DEF K!Nothing
<1>3. Len(chain) = 0 /\ \A k \in Key : ~K!Removed(mem[k])
  BY <1>1, <1>2, EmptySeq DEF K!Removed
<1>4. KvTypes
  <2>1. /\ K!Nothing \in [Key -> K!Held \cup {None}]
        /\ K!Nothing \in [Key -> [at : K!Time, v : Value] \cup {None}]
    BY DEF K!Nothing
  <2>2. 0 \in K!Time
    BY DEF K!Time, KvApart
  <2>3. chain \in Seq(K!Body)
    BY <1>1, EmptySeq
  <2> QED  BY <1>1, <2>1, <2>2, <2>3 DEF KvTypes, K!Namespace
<1>5. ChainClimbs /\ BodiesStand /\ MemoryIsOwed /\ AnswersKept /\ RemovalsTold
  BY <1>1, <1>2, <1>3
     DEF ChainClimbs, Shrunk, BodiesStand, MemoryIsOwed, AnswersKept, Covers, RemovalsTold
<1>6. ViewLacks
  BY <1>1, <1>2, <1>3, LiveIs DEF ViewLacks
<1> QED  BY <1>4, <1>5, <1>6 DEF Stored

LEMMA StoredIsKept ==
  ASSUME KvApart, Stored
  PROVE  K!AnsweredIsDurable /\ K!RestartChangesNothing /\ K!ViewCatchesUp
<1>1. KvTypes /\ ChainClimbs /\ AnswersKept /\ ViewLacks
  BY DEF Stored
<1>2. K!AnsweredIsDurable
  BY <1>1 DEF AnswersKept, Covers, K!AnsweredIsDurable
<1>3. ASSUME up, chain = <<>>, ~lost PROVE K!Forget(mem) = K!Forget(disk)
  <2>1. \A k \in Key : Shrunk(disk[k], mem[k])
    BY <1>1, <1>3 DEF ChainClimbs
  <2>2. \A k \in Key : (IF K!Expired(mem[k]) THEN None ELSE mem[k])
                         = (IF K!Expired(disk[k]) THEN None ELSE disk[k])
    BY <2>1 DEF Shrunk
  <2> QED  BY <2>2 DEF K!Forget
<1>4. ASSUME up, subInKv, chain = <<>>, ~lost PROVE view = K!Live(mem)
  <2>1. \A k \in Key : view[k] = K!Live(mem)[k]
    BY <1>1, <1>4, EmptySeq DEF ViewLacks
  <2> QED  BY <1>1, <2>1 DEF KvTypes, K!Live
<1> QED  BY <1>2, <1>3, <1>4 DEF K!RestartChangesNothing, K!ViewCatchesUp

StoreIsStored == machine = "kv" => Stored

LEMMA OneMachine == [MCNext]_MCvars => machine' = machine
BY DEF MCNext, MCvars, OnlyEgress, OnlyKv, OnlyRequests, OnlyStatus, OnlySupervise

LEMMA StoreMoves ==
  ASSUME KvApart, [MCNext]_MCvars, machine = "kv", Stored
  PROVE  Stored' /\ K!KeepsFile
<1>1. K!Next \/ UNCHANGED MCvars
  BY DEF MCNext, OnlyEgress, OnlyRequests, OnlyStatus, OnlySupervise
<1>2. CASE UNCHANGED MCvars
  <2>1. UNCHANGED <<up, now, mem, chain, disk, subInKv, view, said, lost>>
    BY <1>2 DEF MCvars
  <2>2. Stored'
    BY <2>1
       DEF Stored, KvTypes, ChainClimbs, Before, Shrunk, BodiesStand, MemoryIsOwed, AnswersKept,
           Covers, RemovalsTold, ViewLacks, Untold, Told, K!Expired, K!Removed, K!Live
  <2> QED  BY <2>1, <2>2, FileStays DEF Stored
<1> QED  BY <1>1, <1>2, StoreStep

LEMMA StoreBegins == KvApart /\ MCInit => StoreIsStored
BY StoreInit
   DEF MCInit, InitEgress, InitKv, InitRequests, InitStatus, InitSupervise, StoreIsStored

LEMMA StoreStays == KvApart /\ StoreIsStored /\ [MCNext]_MCvars => StoreIsStored'
BY StoreMoves, OneMachine DEF StoreIsStored

(* A write of the store that was answered survives any kill, a restart     *)
(* changes no answer, and a subscriber catches up with it, for any keys,   *)
(* values, clock, retention and number of kills (KvStore.#persist, #load,  *)
(* snapshot).                                                              *)
THEOREM StoreKeepsItsAnswers == KvApart => (MCSpec => []StoreIsKept)
<1> SUFFICES ASSUME KvApart PROVE MCSpec => []StoreIsKept
  OBVIOUS
<1>1. StoreIsStored => StoreIsKept
  BY StoredIsKept DEF StoreIsStored, StoreIsKept
<1> QED  BY <1>1, StoreBegins, StoreStays, PTL DEF MCSpec

-----------------------------------------------------------------------------
(* What is shown of the gateway, of both its instances here.               *)
RP == INSTANCE GatewayProofs WITH
  Sid <- Key, Origin <- {""}, Refused <- {FALSE}, MaxTime <- RequestsTime,
  MaxSaid <- RequestsSaid, MaxTaken <- RequestsTaken, MaxTruth <- 0,
  MaxReads <- 0, taken <- takenInRequests

SP == INSTANCE GatewayProofs WITH
  Sid <- {s0}, Prefix <- {p0}, Origin <- {""}, Refused <- {TRUE},
  MaxTime <- StatusTime, MaxSaid <- StatusSaid, MaxTaken <- StatusTaken,
  MaxTruth <- StatusTruth, MaxReads <- StatusReads, taken <- takenInStatus

LEMMA RequestsInitIs == R!Init => RP!Init
BY DEF R!Init, RP!Init

LEMMA RequestsNextIs == ASSUME R!Next PROVE RP!Next
BY DEF
     R!Next, RP!Next, R!Tick, RP!Tick, R!Says, RP!Says, R!SayRequest,
     RP!SayRequest, R!SayResponse, RP!SayResponse, R!SayExpired,
     RP!SayExpired, R!Request, RP!Request, R!Response, RP!Response,
     R!Expired, RP!Expired, R!Active, RP!Active, R!Moves, RP!Moves,
     R!Move, RP!Move, R!Prune, RP!Prune, R!ActiveAt, RP!ActiveAt, R!Open,
     RP!Open, R!Drop, RP!Drop, R!Without, RP!Without, R!NotePrefix,
     RP!NotePrefix, R!Shared, RP!Shared, R!Elect, RP!Elect, R!Entries,
     RP!Entries, R!Published, RP!Published, R!Record, RP!Record,
     R!Replaces, RP!Replaces, R!Note, RP!Note, R!Rebuilds, RP!Rebuilds,
     R!Expire, RP!Expire, R!Snapshot, RP!Snapshot, R!Read, RP!Read,
     R!Start, RP!Start, R!Stop, RP!Stop, R!NoteRequestStatus,
     RP!NoteRequestStatus, R!Settled, RP!Settled, R!Served, RP!Served,
     R!ReadEnds, RP!ReadEnds, R!ReadFails, RP!ReadFails, R!TruthChanges,
     RP!TruthChanges, R!Take, RP!Take, R!requests, RP!requests, R!status,
     RP!status, R!posts, RP!posts, R!SeriesKey, RP!SeriesKey, R!Unserved,
     RP!Unserved, R!Max, RP!Max, R!SelectInSeq, RP!SelectInSeq, R!Min,
     RP!Min, R!Cardinality, RP!Cardinality, R!Range, RP!Range

LEMMA StatusInitIs == S!Init => SP!Init
BY DEF S!Init, SP!Init

LEMMA StatusNextIs == ASSUME S!Next PROVE SP!Next
BY DEF
     S!Next, SP!Next, S!Tick, SP!Tick, S!Says, SP!Says, S!SayRequest,
     SP!SayRequest, S!SayResponse, SP!SayResponse, S!SayExpired,
     SP!SayExpired, S!Request, SP!Request, S!Response, SP!Response,
     S!Expired, SP!Expired, S!Active, SP!Active, S!Moves, SP!Moves,
     S!Move, SP!Move, S!Prune, SP!Prune, S!ActiveAt, SP!ActiveAt, S!Open,
     SP!Open, S!Drop, SP!Drop, S!Without, SP!Without, S!NotePrefix,
     SP!NotePrefix, S!Shared, SP!Shared, S!Elect, SP!Elect, S!Entries,
     SP!Entries, S!Published, SP!Published, S!Record, SP!Record,
     S!Replaces, SP!Replaces, S!Note, SP!Note, S!Rebuilds, SP!Rebuilds,
     S!Expire, SP!Expire, S!Snapshot, SP!Snapshot, S!Read, SP!Read,
     S!Start, SP!Start, S!Stop, SP!Stop, S!NoteRequestStatus,
     SP!NoteRequestStatus, S!Settled, SP!Settled, S!Served, SP!Served,
     S!ReadEnds, SP!ReadEnds, S!ReadFails, SP!ReadFails, S!TruthChanges,
     SP!TruthChanges, S!Take, SP!Take, S!requests, SP!requests, S!status,
     SP!status, S!posts, SP!posts, S!SeriesKey, SP!SeriesKey, S!Unserved,
     SP!Unserved, S!Max, SP!Max, S!SelectInSeq, SP!SelectInSeq, S!Min,
     SP!Min, S!Cardinality, SP!Cardinality, S!Range, SP!Range

LEMMA RequestsClaimsAre ==
  /\ RP!RowShowsNewest /\ RP!CountdownsAgree => R!RowShowsNewest /\ R!CountdownsAgree
  /\ RP!KeepsHeld => R!KeepsHeld
BY DEF RP!RowShowsNewest, RP!CountdownsAgree, RP!KeepsHeld, RP!Open,
       R!RowShowsNewest, R!CountdownsAgree, R!KeepsHeld, R!Open

LEMMA StatusClaimsAre ==
  /\ SP!RowShowsNewest /\ SP!CountdownsAgree => S!RowShowsNewest /\ S!CountdownsAgree
  /\ SP!KeepsHeld => S!KeepsHeld
  /\ SP!KeepsReport => S!KeepsReport
BY DEF SP!RowShowsNewest, SP!CountdownsAgree, SP!KeepsHeld, SP!KeepsReport, SP!Open,
       S!RowShowsNewest, S!CountdownsAgree, S!KeepsHeld, S!KeepsReport, S!Open

(* Each instance's rows and windows, and the report of the second, while   *)
(* it is the one that runs.                                                *)
GatewaysAreShown ==
  /\ machine = "requests" => RP!Shows
  /\ machine = "status" => SP!Shows /\ SP!Reports

LEMMA GatewaysBegin == RP!Windows /\ MCInit => GatewaysAreShown
<1> SUFFICES ASSUME RP!Windows, MCInit PROVE GatewaysAreShown
  OBVIOUS
<1>1. machine = "requests" => RP!Init
  BY RequestsInitIs
     DEF MCInit, InitEgress, InitKv, InitRequests, InitStatus, InitSupervise
<1>2. machine = "status" => SP!Init
  BY StatusInitIs
     DEF MCInit, InitEgress, InitKv, InitRequests, InitStatus, InitSupervise
<1> QED  BY <1>1, <1>2, RP!Begins, SP!Begins DEF GatewaysAreShown, RP!Windows, SP!Windows

LEMMA RequestsMove ==
  ASSUME RP!Windows, [MCNext]_MCvars, machine = "requests", RP!Shows
  PROVE  RP!Shows' /\ R!KeepsHeld
<1>1. CASE R!Next
  BY <1>1, RequestsNextIs, RequestsClaimsAre, RP!ShowsStep
<1>2. CASE UNCHANGED MCvars
  BY <1>2, RequestsClaimsAre, RP!Rest DEF MCvars, RP!posts, RP!requests
<1> QED
  BY <1>1, <1>2 DEF MCNext, OnlyEgress, OnlyKv, OnlyStatus, OnlySupervise

LEMMA StatusMoves ==
  ASSUME RP!Windows, [MCNext]_MCvars, machine = "status", SP!Shows, SP!Reports
  PROVE  SP!Shows' /\ SP!Reports' /\ S!KeepsHeld /\ S!KeepsReport
<1>0. SP!Windows
  BY DEF RP!Windows, SP!Windows
<1>1. CASE S!Next
  BY <1>0, <1>1, StatusNextIs, StatusClaimsAre, SP!ShowsStep, SP!ReportsStep
<1>2. CASE UNCHANGED MCvars
  <2>1. UNCHANGED SP!vars
    BY <1>2 DEF MCvars, SP!vars, SP!posts, SP!requests, SP!status
  <2> QED  BY <1>0, <2>1, StatusClaimsAre, SP!Stays
<1> QED
  BY <1>1, <1>2 DEF MCNext, OnlyEgress, OnlyKv, OnlyRequests, OnlySupervise

LEMMA GatewaysMove ==
  RP!Windows /\ GatewaysAreShown /\ [MCNext]_MCvars => GatewaysAreShown'
BY RequestsMove, StatusMoves, OneMachine DEF GatewaysAreShown

(* The rows and the countdowns say the newest that was heard, for any      *)
(* sessions, series and windows, in whatever order it was heard and        *)
(* whatever was pruned, evicted or withdrawn in between                    *)
(* (RequestWindows.record, note, expire, active).                          *)
THEOREM RowsShowWhatWasSaid == RP!Windows => (MCSpec => []RowShowsNewest)
<1> SUFFICES ASSUME RP!Windows PROVE MCSpec => []RowShowsNewest
  OBVIOUS
<1>1. GatewaysAreShown => RowShowsNewest
  <2>1. RP!Shows => RP!RowShowsNewest /\ RP!CountdownsAgree
    BY DEF RP!Shows, RP!RowsCurrent, RP!RowShowsNewest
  <2>2. SP!Shows => SP!RowShowsNewest /\ SP!CountdownsAgree
    BY DEF SP!Shows, SP!RowsCurrent, SP!RowShowsNewest
  <2> QED
    BY <2>1, <2>2, RequestsClaimsAre, StatusClaimsAre DEF GatewaysAreShown, RowShowsNewest
<1> QED  BY <1>1, GatewaysBegin, GatewaysMove, PTL DEF MCSpec

(* Nothing that is kept goes back to something older, for any keys, values,*)
(* windows and number of kills: a file of the store, the request a series  *)
(* holds, the report of the gateway (KvStore.#persist,                     *)
(* RequestWindows.record, StatusReader.read).                              *)
THEOREM WhatIsKeptStays == KvApart /\ RP!Windows => (MCSpec => NothingGoesBack)
<1> DEFINE Back == /\ machine = "kv" => K!KeepsFile
                   /\ machine = "requests" => R!KeepsHeld
                   /\ machine = "status" => S!KeepsHeld /\ S!KeepsReport
<1> SUFFICES ASSUME KvApart, RP!Windows PROVE MCSpec => [][Back]_MCvars
  BY DEF NothingGoesBack
<1>1. MCInit => StoreIsStored /\ GatewaysAreShown
  BY StoreBegins, GatewaysBegin
<1>2. StoreIsStored /\ GatewaysAreShown /\ [MCNext]_MCvars
        => (StoreIsStored /\ GatewaysAreShown)' /\ Back
  <2> SUFFICES ASSUME StoreIsStored, GatewaysAreShown, [MCNext]_MCvars
               PROVE  (StoreIsStored /\ GatewaysAreShown)' /\ Back
    OBVIOUS
  <2>1. StoreIsStored' /\ GatewaysAreShown'
    BY StoreStays, GatewaysMove
  <2>2. Back
    BY StoreMoves, RequestsMove, StatusMoves DEF StoreIsStored, GatewaysAreShown
  <2> QED  BY <2>1, <2>2
<1> HIDE DEF Back
<1> QED  BY <1>1, <1>2, PTL DEF MCSpec
=============================================================================
