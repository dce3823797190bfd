------------------------------ MODULE LineWire ------------------------------
(***************************************************************************)
(* What a connection promises the layers above it: the frames handed to it *)
(* reach the other end whole, once each and in the order they were handed  *)
(* over, for as long as the connection is there.                           *)
(***************************************************************************)
EXTENDS Sequences, SequencesExt

VARIABLES
  up,      \* the connection is there
  owed,    \* frames handed over and not yet at the other end
  taken    \* frames the other end has

vars == <<up, owed, taken>>

Init == up = TRUE /\ owed = <<>> /\ taken = <<>>

HandOver == up /\ IsStrictPrefix(owed, owed') /\ UNCHANGED <<up, taken>>

Arrive ==
  /\ owed # <<>>
  /\ taken' = Append(taken, Head(owed)) /\ owed' = Tail(owed)
  /\ UNCHANGED up

Break == up /\ up' = FALSE /\ owed' = <<>> /\ UNCHANGED taken

Next == HandOver \/ Arrive \/ Break

Spec == Init /\ [][Next]_vars
=============================================================================
