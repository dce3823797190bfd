--------------------------- MODULE DeliveryProofs ---------------------------
(***************************************************************************)
(* What Delivery guarantees for any sessions, connections, requests and    *)
(* limits: one message goes out on one route and the oldest first, the     *)
(* file, the memory and what is shown agree, and what is held survives.    *)
(***************************************************************************)
EXTENDS Delivery, FiniteSetTheorems, SequenceTheorems, TLAPS

(* Constants that mean what the code means by them.                        *)
Given ==
  /\ SidOf \in [Conn -> Sid]
  /\ MaxHeld \in Nat \ {0} /\ MaxSends \in Nat /\ MaxCrashes \in Nat
  /\ Failing \in BOOLEAN
  /\ IsFiniteSet(Sid) /\ IsFiniteSet(Op)
  /\ {NoOp, "offer", "none"} \cap Op = {} /\ NoOp \notin {"offer", "none"}

-----------------------------------------------------------------------------
(* Induction, stated of sets.                                              *)

(* Induction over the naturals, for a set of them: a number left out would *)
(* leave a finite set no smaller than a part of it.                        *)
LEMMA Climb ==
  ASSUME NEW S, 0 \in S, \A n \in Nat : n \in S => n + 1 \in S
  PROVE  Nat \subseteq S
<1> SUFFICES ASSUME NEW n \in Nat, n \notin S PROVE FALSE
  OBVIOUS
<1> DEFINE T == {i \in 0..n : i \notin S}
           f == [i \in T |-> i - 1]
<1>1. IsFiniteSet(T) /\ n \in T
  <2>1. IsFiniteSet(0..n) /\ T \subseteq 0..n /\ n \in T
    BY FS_Interval
  <2> QED  BY <2>1, FS_Subset
<1>2. /\ IsFiniteSet(T \ {n}) /\ Cardinality(T \ {n}) = Cardinality(T) - 1
      /\ Cardinality(T) \in Nat
  BY <1>1, FS_RemoveElement, FS_CardinalityType
<1>3. ASSUME NEW i \in T PROVE i - 1 \in T \ {n}
  <2>1. i # 0 /\ i \in 0..n /\ i \notin S
    OBVIOUS
  <2>2. i - 1 \in 0..n /\ i - 1 # n /\ (i - 1) + 1 = i
    BY <2>1
  <2> QED  BY <2>1, <2>2
<1>4. f \in [T -> T \ {n}]
  BY <1>3
<1> HIDE DEF f
<1>5. Cardinality(T \ {n}) < Cardinality(T)
  BY <1>2
<1>6. \E x, y \in T : x # y /\ f[x] = f[y]
  BY <1>1, <1>2, <1>4, <1>5, FS_PigeonHole
<1> QED  BY <1>6 DEF f

(* A function whose value at each place is made from the one before.       *)
Moves(g, n, S) == g \in [1..n -> [S -> S]]

Runs(g, n, S, b) ==
  \E f \in [0..n -> S] : f[0] = b /\ \A i \in 1..n : f[i] = g[i][f[i - 1]]

LEMMA StepsAreThere ==
  ASSUME NEW n \in Nat, NEW S, NEW b \in S, NEW g, Moves(g, n, S)
  PROVE  Runs(g, n, S, b)
<1> USE DEF Moves
<1> DEFINE Good(k, f) == f[0] = b /\ \A i \in 1..k : f[i] = g[i][f[i - 1]]
           T == {k \in Nat : k <= n => \E f \in [0..k -> S] : Good(k, f)}
<1>1. 0 \in T
  <2>1. [i \in 0..0 |-> b] \in [0..0 -> S] /\ Good(0, [i \in 0..0 |-> b])
    OBVIOUS
  <2> QED  BY <2>1
<1>2. ASSUME NEW k \in Nat, k \in T PROVE k + 1 \in T
  <2> SUFFICES ASSUME k + 1 <= n PROVE \E f \in [0..(k + 1) -> S] : Good(k + 1, f)
    OBVIOUS
  <2>1. PICK f \in [0..k -> S] : Good(k, f)
    BY <1>2
  <2> DEFINE h == [i \in 0..(k + 1) |-> IF i = k + 1 THEN g[k + 1][f[k]] ELSE f[i]]
  <2>2. k + 1 \in 1..n /\ g[k + 1] \in [S -> S] /\ f[k] \in S
    OBVIOUS
  <2>3. h \in [0..(k + 1) -> S]
    BY <2>2
  <2>4. ASSUME NEW i \in 1..(k + 1) PROVE h[i] = g[i][h[i - 1]]
    <3>1. CASE i = k + 1
      BY <3>1
    <3>2. CASE i # k + 1
      <4>1. i \in 1..k /\ i - 1 \in 0..k /\ h[i] = f[i] /\ h[i - 1] = f[i - 1]
        BY <3>2
      <4> QED  BY <2>1, <4>1
    <3> QED  BY <3>1, <3>2
  <2>5. h[0] = b
    BY <2>1
  <2> HIDE DEF h
  <2> QED  BY <2>3, <2>4, <2>5
<1> HIDE DEF T
<1>3. Nat \subseteq T
  BY <1>1, <1>2, Climb
<1> QED  BY <1>3 DEF T, Runs

(* Induction over sequences, for a set of them.                            *)
LEMMA SeqClimb ==
  ASSUME NEW E, NEW P, <<>> \in P,
         \A s \in Seq(E), e \in E : s \in P => Append(s, e) \in P
  PROVE  Seq(E) \subseteq P
<1> DEFINE T == {n \in Nat : \A s \in Seq(E) : Len(s) = n => s \in P}
<1>1. 0 \in T
  BY EmptySeq
<1>2. ASSUME NEW n \in Nat, n \in T PROVE n + 1 \in T
  <2> SUFFICES ASSUME NEW s \in Seq(E), Len(s) = n + 1 PROVE s \in P
    OBVIOUS
  <2>1. PICK q \in Seq(E), e \in E : s = Append(q, e)
    <3>1. s # <<>>
      OBVIOUS
    <3> QED  BY <3>1, SequenceEmptyOrAppend
  <2>2. Len(q) = n
    BY <2>1, AppendProperties, LenProperties
  <2> QED  BY <1>2, <2>1, <2>2
<1> HIDE DEF T
<1>3. Nat \subseteq T
  BY <1>1, <1>2, Climb
<1> QED  BY <1>3, LenProperties DEF T

-----------------------------------------------------------------------------
(* What a selection takes.                                                 *)

(* The parts of Only: what it has taken of s up to each place.             *)
Taking(s, K) ==
  CHOOSE f : f = [i \in 0..Len(s) |->
                    IF i = 0 THEN <<>>
                    ELSE IF s[i] \in K THEN Append(f[i - 1], s[i]) ELSE f[i - 1]]

LEMMA OnlyIsTaking ==
  ASSUME NEW s, NEW K PROVE Only(s, K) = Taking(s, K)[Len(s)]
BY DEF Only, Taking

LEMMA TakingSteps ==
  ASSUME NEW E, NEW s \in Seq(E), NEW K
  PROVE  /\ Taking(s, K) \in [0..Len(s) -> Seq(E)]
         /\ Taking(s, K)[0] = <<>>
         /\ \A i \in 1..Len(s) :
              Taking(s, K)[i] = IF s[i] \in K THEN Append(Taking(s, K)[i - 1], s[i])
                                ELSE Taking(s, K)[i - 1]
<1> DEFINE g == [i \in 1..Len(s) |-> [q \in Seq(E) |-> IF s[i] \in K THEN Append(q, s[i]) ELSE q]]
<1>1. Len(s) \in Nat /\ <<>> \in Seq(E) /\ \A i \in 1..Len(s) : s[i] \in E
  BY LenProperties, ElementOfSeq
<1>2. g \in [1..Len(s) -> [Seq(E) -> Seq(E)]]
  <2>1. ASSUME NEW i \in 1..Len(s), NEW q \in Seq(E)
        PROVE  (IF s[i] \in K THEN Append(q, s[i]) ELSE q) \in Seq(E)
    BY <1>1, AppendProperties
  <2> QED  BY <2>1
<1>3. PICK f \in [0..Len(s) -> Seq(E)] : f[0] = <<>> /\ \A i \in 1..Len(s) : f[i] = g[i][f[i - 1]]
  <2>1. Moves(g, Len(s), Seq(E))
    BY <1>2 DEF Moves
  <2> HIDE DEF g
  <2>2. Runs(g, Len(s), Seq(E), <<>>)
    BY <1>1, <2>1, StepsAreThere
  <2> QED  BY <2>2 DEF Runs
<1>5. f = [i \in 0..Len(s) |->
             IF i = 0 THEN <<>>
             ELSE IF s[i] \in K THEN Append(f[i - 1], s[i]) ELSE f[i - 1]]
  <2>1. ASSUME NEW i \in 1..Len(s)
        PROVE  f[i] = IF s[i] \in K THEN Append(f[i - 1], s[i]) ELSE f[i - 1]
    <3>1. i - 1 \in 0..Len(s)
      BY <1>1, <2>1
    <3> QED  BY <3>1, <1>3
  <2> DEFINE b == <<>>
             n == Len(s)
             h == [i \in 0..n |-> IF i = 0 THEN b
                                  ELSE IF s[i] \in K THEN Append(f[i - 1], s[i]) ELSE f[i - 1]]
  <2>2. f[0] = b /\ n \in Nat /\ DOMAIN f = 0..n
    BY <1>1, <1>3
  <2>3. ASSUME NEW i \in 0..n PROVE f[i] = h[i]
    <3> HIDE DEF b
    <3>1. CASE i = 0
      BY <2>2, <3>1
    <3>2. CASE i # 0
      <4>1. i \in 1..Len(s) /\ i \in 0..n /\ i # 0
        BY <3>2, <2>2
      <4>2. h[i] = IF s[i] \in K THEN Append(f[i - 1], s[i]) ELSE f[i - 1]
        BY <4>1
      <4> QED  BY <2>1, <4>1, <4>2
    <3> QED  BY <3>1, <3>2
  <2>4. f = h
    <3>1. DOMAIN h = 0..n /\ h = [i \in DOMAIN h |-> h[i]] /\ f = [i \in DOMAIN f |-> f[i]]
      OBVIOUS
    <3> HIDE DEF h, n
    <3> QED  BY <2>2, <2>3, <3>1
  <2> QED  BY <2>4 DEF h
<1>6. Taking(s, K) = [i \in 0..Len(s) |->
                    IF i = 0 THEN <<>>
                    ELSE IF s[i] \in K THEN Append(Taking(s, K)[i - 1], s[i]) ELSE Taking(s, K)[i - 1]]
  BY <1>5 DEF Taking
<1> DEFINE F == Taking(s, K)
<1> HIDE DEF F
<1>7. /\ F = [i \in 0..Len(s) |->
                    IF i = 0 THEN <<>>
                    ELSE IF s[i] \in K THEN Append(F[i - 1], s[i]) ELSE F[i - 1]]
  BY <1>6 DEF F
<1>8. /\ F[0] = <<>>
      /\ \A i \in 1..Len(s) : F[i] = IF s[i] \in K THEN Append(F[i - 1], s[i]) ELSE F[i - 1]
  <2>1. ASSUME NEW i \in 1..Len(s)
        PROVE  F[i] = IF s[i] \in K THEN Append(F[i - 1], s[i]) ELSE F[i - 1]
    <3>1. i \in 0..Len(s) /\ i # 0
      BY <1>1
    <3> QED  BY <3>1, <1>7
  <2>2. 0 \in 0..Len(s)
    BY <1>1
  <2> QED  BY <1>7, <2>1, <2>2
<1>9. \A k \in 0..Len(s) : F[k] \in Seq(E)
  <2> DEFINE T == {k \in Nat : k <= Len(s) => F[k] \in Seq(E)}
  <2>1. 0 \in T
    BY <1>8, <1>1
  <2>2. ASSUME NEW k \in Nat, k \in T PROVE k + 1 \in T
    <3> SUFFICES ASSUME k + 1 <= Len(s) PROVE F[k + 1] \in Seq(E)
      OBVIOUS
    <3>1. k + 1 \in 1..Len(s) /\ F[k] \in Seq(E) /\ (k + 1) - 1 = k
      BY <2>2, <1>1
    <3>2. F[k + 1] = IF s[k + 1] \in K THEN Append(F[k], s[k + 1]) ELSE F[k]
      BY <3>1, <1>8
    <3> QED  BY <3>1, <3>2, <1>1, AppendProperties
  <2> HIDE DEF T
  <2>3. Nat \subseteq T
    BY <2>1, <2>2, Climb
  <2> QED  BY <2>3, <1>1 DEF T
<1>10. F \in [0..Len(s) -> Seq(E)]
  BY <1>7, <1>9
<1> QED  BY <1>8, <1>10 DEF F

LEMMA OnlyNothing == ASSUME NEW K PROVE Only(<<>>, K) = <<>>
<1>1. ASSUME NEW E, NEW s \in Seq(E), s = <<>> PROVE Only(s, K) = <<>>
  <2>1. Taking(s, K)[0] = <<>>
    BY TakingSteps
  <2>2. Len(s) = 0
    BY <1>1, EmptySeq
  <2> QED  BY <2>1, <2>2, OnlyIsTaking
<1> QED  BY <1>1, EmptySeq

LEMMA OnlyAppend ==
  ASSUME NEW E, NEW s \in Seq(E), NEW e \in E, NEW K
  PROVE  Only(Append(s, e), K) = IF e \in K THEN Append(Only(s, K), e) ELSE Only(s, K)
<1> DEFINE t == Append(s, e)
           F == Taking(s, K)
           G == Taking(t, K)
<1>1. /\ t \in Seq(E) /\ Len(t) = Len(s) + 1 /\ Len(s) \in Nat
      /\ \A i \in 1..Len(s) : t[i] = s[i]
      /\ t[Len(s) + 1] = e
  BY AppendProperties, LenProperties
<1>2. /\ F[0] = <<>>
      /\ \A i \in 1..Len(s) : F[i] = IF s[i] \in K THEN Append(F[i - 1], s[i]) ELSE F[i - 1]
  BY TakingSteps
<1> HIDE DEF t
<1>3. /\ G[0] = <<>>
      /\ \A i \in 1..Len(t) : G[i] = IF t[i] \in K THEN Append(G[i - 1], t[i]) ELSE G[i - 1]
  BY <1>1, TakingSteps
<1>4. Only(s, K) = F[Len(s)] /\ Only(t, K) = G[Len(t)]
  BY OnlyIsTaking
<1> HIDE DEF F, G
<1> DEFINE T == {n \in Nat : n <= Len(s) => G[n] = F[n]}
<1>5. 0 \in T
  BY <1>2, <1>3
<1>6. ASSUME NEW n \in Nat, n \in T PROVE n + 1 \in T
  <2> SUFFICES ASSUME n + 1 <= Len(s) PROVE G[n + 1] = F[n + 1]
    OBVIOUS
  <2>1. n + 1 \in 1..Len(s) /\ n + 1 \in 1..Len(t) /\ (n + 1) - 1 = n /\ G[n] = F[n]
    BY <1>1, <1>6
  <2> QED  BY <1>1, <1>2, <1>3, <2>1
<1> HIDE DEF T
<1>7. Nat \subseteq T
  BY <1>5, <1>6, Climb
<1>8. G[Len(s)] = F[Len(s)]
  BY <1>1, <1>7 DEF T
<1>9. Len(t) \in 1..Len(t) /\ Len(t) - 1 = Len(s)
  BY <1>1
<1> QED  BY <1>1, <1>3, <1>4, <1>8, <1>9 DEF t

LEMMA OnlyType ==
  ASSUME NEW E, NEW s \in Seq(E), NEW K PROVE Only(s, K) \in Seq(E)
<1>1. Len(s) \in 0..Len(s)
  BY LenProperties
<1> QED  BY <1>1, OnlyIsTaking, TakingSteps

LEMMA SetOfNothing == ToSet(<<>>) = {}
BY DEF ToSet

LEMMA SetOfAppend ==
  ASSUME NEW E, NEW s \in Seq(E), NEW e \in E
  PROVE  ToSet(Append(s, e)) = ToSet(s) \cup {e}
<1> DEFINE t == Append(s, e)
<1>1. /\ t \in Seq(E) /\ Len(t) = Len(s) + 1 /\ Len(s) \in Nat
      /\ \A i \in 1..Len(s) : t[i] = s[i]
      /\ t[Len(s) + 1] = e
      /\ DOMAIN s = 1..Len(s)
  BY AppendProperties, LenProperties
<1>2. DOMAIN t = 1..(Len(s) + 1)
  BY <1>1, LenProperties
<1> HIDE DEF t
<1>3. ASSUME NEW x \in ToSet(t) PROVE x \in ToSet(s) \cup {e}
  <2>1. PICK i \in 1..(Len(s) + 1) : x = t[i]
    BY <1>2 DEF ToSet
  <2>2. CASE i \in 1..Len(s)
    BY <1>1, <2>1, <2>2 DEF ToSet
  <2>3. CASE i = Len(s) + 1
    BY <1>1, <2>1, <2>3
  <2> QED  BY <1>1, <2>1, <2>2, <2>3
<1>4. ASSUME NEW x \in ToSet(s) PROVE x \in ToSet(t)
  <2>1. PICK i \in 1..Len(s) : x = s[i]
    BY <1>1 DEF ToSet
  <2>2. i \in 1..(Len(s) + 1)
    BY <1>1
  <2> QED  BY <1>1, <1>2, <2>1, <2>2 DEF ToSet
<1>5. e \in ToSet(t)
  <2>1. Len(s) + 1 \in 1..(Len(s) + 1)
    BY <1>1
  <2> QED  BY <1>1, <1>2, <2>1 DEF ToSet
<1> QED  BY <1>3, <1>4, <1>5 DEF t

LEMMA SetType == ASSUME NEW E, NEW s \in Seq(E) PROVE ToSet(s) \subseteq E
BY LenProperties, ElementOfSeq DEF ToSet

LEMMA OnlyHolds ==
  ASSUME NEW E, NEW K
  PROVE  \A s \in Seq(E) : ToSet(Only(s, K)) = ToSet(s) \cap K
<1> DEFINE P == {s \in Seq(E) : ToSet(Only(s, K)) = ToSet(s) \cap K}
<1>1. <<>> \in P
  BY OnlyNothing, SetOfNothing, EmptySeq
<1>2. ASSUME NEW s \in Seq(E), NEW e \in E, s \in P PROVE Append(s, e) \in P
  <2>1. Append(s, e) \in Seq(E) /\ Only(s, K) \in Seq(E)
    BY AppendProperties, OnlyType
  <2>2. ToSet(Append(s, e)) = ToSet(s) \cup {e}
    BY SetOfAppend
  <2>3. ToSet(Append(Only(s, K), e)) = ToSet(Only(s, K)) \cup {e}
    BY <2>1, SetOfAppend
  <2>4. Only(Append(s, e), K) = IF e \in K THEN Append(Only(s, K), e) ELSE Only(s, K)
    BY OnlyAppend
  <2>5. ToSet(Only(s, K)) = ToSet(s) \cap K
    BY <1>2
  <2>6. ToSet(Only(Append(s, e), K)) = ToSet(Append(s, e)) \cap K
    BY <2>2, <2>3, <2>4, <2>5
  <2> QED  BY <2>1, <2>6
<1> HIDE DEF P
<1>3. Seq(E) \subseteq P
  BY <1>1, <1>2, SeqClimb
<1> QED  BY <1>3 DEF P

LEMMA OnlyOnly ==
  ASSUME NEW E, NEW K, NEW L
  PROVE  \A s \in Seq(E) : Only(Only(s, K), L) = Only(s, K \cap L)
<1> DEFINE P == {s \in Seq(E) : Only(Only(s, K), L) = Only(s, K \cap L)}
<1>1. <<>> \in P
  BY OnlyNothing, EmptySeq
<1>2. ASSUME NEW s \in Seq(E), NEW e \in E, s \in P PROVE Append(s, e) \in P
  <2>1. Append(s, e) \in Seq(E) /\ Only(s, K) \in Seq(E)
    BY AppendProperties, OnlyType
  <2>2. Only(Append(s, e), K) = IF e \in K THEN Append(Only(s, K), e) ELSE Only(s, K)
    BY OnlyAppend
  <2>3. Only(Append(s, e), K \cap L)
          = IF e \in K \cap L THEN Append(Only(s, K \cap L), e) ELSE Only(s, K \cap L)
    BY OnlyAppend
  <2>4. Only(Append(Only(s, K), e), L)
          = IF e \in L THEN Append(Only(Only(s, K), L), e) ELSE Only(Only(s, K), L)
    BY <2>1, OnlyAppend
  <2>5. Only(Only(s, K), L) = Only(s, K \cap L)
    BY <1>2
  <2>6. Only(Only(Append(s, e), K), L) = Only(Append(s, e), K \cap L)
    <3>1. CASE e \in K /\ e \in L
      BY <2>2, <2>3, <2>4, <2>5, <3>1
    <3>2. CASE e \in K /\ e \notin L
      BY <2>2, <2>3, <2>4, <2>5, <3>2
    <3>3. CASE e \notin K
      BY <2>2, <2>3, <2>5, <3>3
    <3> QED  BY <3>1, <3>2, <3>3
  <2> QED  BY <2>1, <2>6
<1> HIDE DEF P
<1>3. Seq(E) \subseteq P
  BY <1>1, <1>2, SeqClimb
<1> QED  BY <1>3 DEF P

LEMMA OnlySame ==
  ASSUME NEW E, NEW K, NEW L
  PROVE  \A s \in Seq(E) : ToSet(s) \cap K = ToSet(s) \cap L => Only(s, K) = Only(s, L)
<1> DEFINE P == {s \in Seq(E) : ToSet(s) \cap K = ToSet(s) \cap L => Only(s, K) = Only(s, L)}
<1>1. <<>> \in P
  BY OnlyNothing, EmptySeq
<1>2. ASSUME NEW s \in Seq(E), NEW e \in E, s \in P PROVE Append(s, e) \in P
  <2>1. Append(s, e) \in Seq(E) /\ ToSet(Append(s, e)) = ToSet(s) \cup {e}
    BY AppendProperties, SetOfAppend
  <2> SUFFICES ASSUME (ToSet(s) \cup {e}) \cap K = (ToSet(s) \cup {e}) \cap L
               PROVE  Only(Append(s, e), K) = Only(Append(s, e), L)
    BY <2>1
  <2>2. ToSet(s) \cap K = ToSet(s) \cap L /\ (e \in K <=> e \in L)
    OBVIOUS
  <2>3. Only(s, K) = Only(s, L)
    BY <1>2, <2>2
  <2>4. /\ Only(Append(s, e), K) = IF e \in K THEN Append(Only(s, K), e) ELSE Only(s, K)
        /\ Only(Append(s, e), L) = IF e \in L THEN Append(Only(s, L), e) ELSE Only(s, L)
    BY OnlyAppend
  <2> QED  BY <2>2, <2>3, <2>4
<1> HIDE DEF P
<1>3. Seq(E) \subseteq P
  BY <1>1, <1>2, SeqClimb
<1> QED  BY <1>3 DEF P

LEMMA OnlyAll ==
  ASSUME NEW E, NEW K
  PROVE  \A s \in Seq(E) : ToSet(s) \subseteq K => Only(s, K) = s
<1> DEFINE P == {s \in Seq(E) : ToSet(s) \subseteq K => Only(s, K) = s}
<1>1. <<>> \in P
  BY OnlyNothing, EmptySeq
<1>2. ASSUME NEW s \in Seq(E), NEW e \in E, s \in P PROVE Append(s, e) \in P
  <2>1. Append(s, e) \in Seq(E) /\ ToSet(Append(s, e)) = ToSet(s) \cup {e}
    BY AppendProperties, SetOfAppend
  <2>2. Only(Append(s, e), K) = IF e \in K THEN Append(Only(s, K), e) ELSE Only(s, K)
    BY OnlyAppend
  <2> QED  BY <1>2, <2>1, <2>2
<1> HIDE DEF P
<1>3. Seq(E) \subseteq P
  BY <1>1, <1>2, SeqClimb
<1> QED  BY <1>3 DEF P

LEMMA OnlyShorter ==
  ASSUME NEW E, NEW K
  PROVE  \A s \in Seq(E) : Len(Only(s, K)) <= Len(s)
<1> DEFINE P == {s \in Seq(E) : Len(Only(s, K)) <= Len(s)}
<1>1. <<>> \in P
  BY OnlyNothing, EmptySeq
<1>2. ASSUME NEW s \in Seq(E), NEW e \in E, s \in P PROVE Append(s, e) \in P
  <2>1. /\ Append(s, e) \in Seq(E) /\ Only(s, K) \in Seq(E)
        /\ Len(Append(s, e)) = Len(s) + 1
    BY AppendProperties, OnlyType
  <2>2. Len(Append(Only(s, K), e)) = Len(Only(s, K)) + 1
    BY <2>1, AppendProperties
  <2>3. Only(Append(s, e), K) = IF e \in K THEN Append(Only(s, K), e) ELSE Only(s, K)
    BY OnlyAppend
  <2>4. Len(s) \in Nat /\ Len(Only(s, K)) \in Nat /\ Len(Only(s, K)) <= Len(s)
    BY <1>2, <2>1, LenProperties
  <2>5. Len(Only(Append(s, e), K)) <= Len(Append(s, e))
    BY <2>1, <2>2, <2>3, <2>4
  <2> QED  BY <2>1, <2>5
<1> HIDE DEF P
<1>3. Seq(E) \subseteq P
  BY <1>1, <1>2, SeqClimb
<1> QED  BY <1>3 DEF P

-----------------------------------------------------------------------------
(* What stands before what in a sequence; nothing stands before itself     *)
(* where nothing stands twice.                                             *)
Before(s, a, b) == \E i, j \in 1..Len(s) : i < j /\ s[i] = a /\ s[j] = b

NoneTwice(s) == \A a : ~Before(s, a, a)

LEMMA BeforeNothing == ASSUME NEW a, NEW b PROVE ~Before(<<>>, a, b)
BY DEF Before

LEMMA BeforeAppend ==
  ASSUME NEW E, NEW s \in Seq(E), NEW e \in E, NEW a, NEW b
  PROVE  Before(Append(s, e), a, b) <=> Before(s, a, b) \/ (a \in ToSet(s) /\ b = e)
<1> DEFINE t == Append(s, e)
<1>1. /\ Len(t) = Len(s) + 1 /\ Len(s) \in Nat /\ DOMAIN s = 1..Len(s)
      /\ \A i \in 1..Len(s) : t[i] = s[i]
      /\ t[Len(s) + 1] = e
  BY AppendProperties, LenProperties
<1> HIDE DEF t
<1>2. ASSUME Before(t, a, b) PROVE Before(s, a, b) \/ (a \in ToSet(s) /\ b = e)
  <2>1. PICK i, j \in 1..Len(t) : i < j /\ t[i] = a /\ t[j] = b
    BY <1>2 DEF Before
  <2>2. i \in 1..Len(s) /\ s[i] = a
    BY <1>1, <2>1
  <2>3. CASE j = Len(t)
    BY <1>1, <2>1, <2>2, <2>3 DEF ToSet
  <2>4. CASE j # Len(t)
    <3>1. j \in 1..Len(s) /\ s[j] = b
      BY <1>1, <2>1, <2>4
    <3> QED  BY <2>1, <2>2, <3>1 DEF Before
  <2> QED  BY <2>3, <2>4
<1>3. ASSUME Before(s, a, b) PROVE Before(t, a, b)
  <2>1. PICK i, j \in 1..Len(s) : i < j /\ s[i] = a /\ s[j] = b
    BY <1>3 DEF Before
  <2>2. i \in 1..Len(t) /\ j \in 1..Len(t) /\ t[i] = a /\ t[j] = b
    BY <1>1, <2>1
  <2> QED  BY <2>1, <2>2 DEF Before
<1>4. ASSUME a \in ToSet(s), b = e PROVE Before(t, a, b)
  <2>1. PICK i \in 1..Len(s) : s[i] = a
    BY <1>1, <1>4 DEF ToSet
  <2>2. i \in 1..Len(t) /\ Len(t) \in 1..Len(t) /\ i < Len(t) /\ t[i] = a /\ t[Len(t)] = b
    BY <1>1, <1>4, <2>1
  <2> QED  BY <2>2 DEF Before
<1> QED  BY <1>2, <1>3, <1>4 DEF t

LEMMA BeforeIsIn ==
  ASSUME NEW E, NEW s \in Seq(E), NEW a, NEW b, Before(s, a, b)
  PROVE  a \in ToSet(s) /\ b \in ToSet(s)
BY LenProperties DEF Before, ToSet

LEMMA BeforeOnly ==
  ASSUME NEW E, NEW K, NEW a, NEW b
  PROVE  \A s \in Seq(E) : Before(Only(s, K), a, b) <=> (Before(s, a, b) /\ a \in K /\ b \in K)
<1> DEFINE P == {s \in Seq(E) : Before(Only(s, K), a, b) <=> (Before(s, a, b) /\ a \in K /\ b \in K)}
<1>1. <<>> \in P
  BY OnlyNothing, EmptySeq, BeforeNothing
<1>2. ASSUME NEW s \in Seq(E), NEW e \in E, s \in P PROVE Append(s, e) \in P
  <2>1. Append(s, e) \in Seq(E) /\ Only(s, K) \in Seq(E)
    BY AppendProperties, OnlyType
  <2>2. Only(Append(s, e), K) = IF e \in K THEN Append(Only(s, K), e) ELSE Only(s, K)
    BY OnlyAppend
  <2>3. Before(Append(s, e), a, b) <=> Before(s, a, b) \/ (a \in ToSet(s) /\ b = e)
    BY BeforeAppend
  <2>4. Before(Append(Only(s, K), e), a, b)
          <=> Before(Only(s, K), a, b) \/ (a \in ToSet(Only(s, K)) /\ b = e)
    BY <2>1, BeforeAppend
  <2>5. ToSet(Only(s, K)) = ToSet(s) \cap K
    BY OnlyHolds
  <2>6. Before(Only(s, K), a, b) <=> (Before(s, a, b) /\ a \in K /\ b \in K)
    BY <1>2
  <2>7. Before(Only(Append(s, e), K), a, b)
          <=> (Before(Append(s, e), a, b) /\ a \in K /\ b \in K)
    BY <2>2, <2>3, <2>4, <2>5, <2>6
  <2> QED  BY <2>1, <2>7
<1> HIDE DEF P
<1>3. Seq(E) \subseteq P
  BY <1>1, <1>2, SeqClimb
<1> QED  BY <1>3 DEF P

LEMMA HeadIsFirst ==
  ASSUME NEW E, NEW s \in Seq(E), s # <<>>, NEW a \in ToSet(s), a # Head(s)
  PROVE  Before(s, Head(s), a)
<1>1. Len(s) \in Nat /\ Len(s) # 0 /\ DOMAIN s = 1..Len(s) /\ Head(s) = s[1]
  BY LenProperties, HeadTailProperties, EmptySeq
<1>2. PICK i \in 1..Len(s) : s[i] = a
  BY <1>1 DEF ToSet
<1>3. i > 1 /\ 1 \in 1..Len(s)
  BY <1>1, <1>2
<1> QED  BY <1>1, <1>2, <1>3 DEF Before

LEMMA HeadIsIn ==
  ASSUME NEW E, NEW s \in Seq(E), s # <<>> PROVE Head(s) \in ToSet(s) /\ Head(s) \in E
<1>1. Len(s) \in Nat /\ Len(s) # 0 /\ DOMAIN s = 1..Len(s) /\ Head(s) = s[1]
  BY LenProperties, HeadTailProperties, EmptySeq
<1>2. 1 \in 1..Len(s)
  BY <1>1
<1> QED  BY <1>1, <1>2, ElementOfSeq DEF ToSet

(* The tail is what is left when the head leaves.                          *)
LEMMA TailIsOnly ==
  ASSUME NEW E, NEW s \in Seq(E), s # <<>>, NoneTwice(s)
  PROVE  Tail(s) = Only(s, E \ {Head(s)})
<1> DEFINE P == {q \in Seq(E) : q # <<>> /\ NoneTwice(q) => Tail(q) = Only(q, E \ {Head(q)})}
<1>1. <<>> \in P
  BY EmptySeq
<1>2. ASSUME NEW q \in Seq(E), NEW e \in E, q \in P PROVE Append(q, e) \in P
  <2>1. Append(q, e) \in Seq(E)
    BY AppendProperties
  <2> SUFFICES ASSUME NoneTwice(Append(q, e))
               PROVE  Tail(Append(q, e)) = Only(Append(q, e), E \ {Head(Append(q, e))})
    BY <2>1
  <2>2. /\ Head(Append(q, e)) = IF q = <<>> THEN e ELSE Head(q)
        /\ Tail(Append(q, e)) = IF q = <<>> THEN <<>> ELSE Append(Tail(q), e)
    BY HeadTailAppend
  <2>3. \A K : Only(Append(q, e), K) = IF e \in K THEN Append(Only(q, K), e) ELSE Only(q, K)
    BY OnlyAppend
  <2>4. CASE q = <<>>
    BY <2>2, <2>3, <2>4, OnlyNothing
  <2>5. CASE q # <<>>
    <3>1. Head(q) \in ToSet(q)
      BY <2>5, HeadIsIn
    <3>2. Head(q) # e
      BY <3>1, BeforeAppend DEF NoneTwice
    <3>3. NoneTwice(q)
      BY BeforeAppend DEF NoneTwice
    <3>4. Tail(q) = Only(q, E \ {Head(q)})
      BY <1>2, <2>5, <3>3
    <3> QED  BY <2>2, <2>3, <2>5, <3>2, <3>4
  <2> QED  BY <2>4, <2>5
<1> HIDE DEF P
<1>3. Seq(E) \subseteq P
  BY <1>1, <1>2, SeqClimb
<1> QED  BY <1>3 DEF P

-----------------------------------------------------------------------------
(* What the lines of the file, and those owed to it, say is held: by their *)
(* mids, as Replay has it, and by the messages themselves.                 *)
Entry == InboxLine \cup Owed

Helds == [Sid -> Seq(Message)]

None == [s \in Sid |-> <<>>]

Past(h, line) ==
  IF line.v = "add" THEN [h EXCEPT ![line.sid] = Append(@, line.msg)]
  ELSE [h EXCEPT ![line.sid] = Only(@, Message \ {line.msg})]

Kept(lines) ==
  LET upTo[i \in 0..Len(lines)] == IF i = 0 THEN None ELSE Past(upTo[i - 1], lines[i])
  IN  upTo[Len(lines)]

LEMMA EntryHas ==
  ASSUME NEW x \in Entry
  PROVE  x.v \in {"add", "delivered", "dropped"} /\ x.sid \in Sid /\ x.msg \in Message
BY DEF Entry, InboxLine, Owed

LEMMA NoneIsHeld == None \in Helds /\ None = EmptyInbox.held
BY EmptySeq DEF None, Helds, EmptyInbox

LEMMA PastType == ASSUME NEW h \in Helds, NEW x \in Entry PROVE Past(h, x) \in Helds
<1>1. x.sid \in Sid /\ x.msg \in Message /\ h[x.sid] \in Seq(Message)
  BY EntryHas DEF Helds
<1>2. Append(h[x.sid], x.msg) \in Seq(Message) /\ Only(h[x.sid], Message \ {x.msg}) \in Seq(Message)
  BY <1>1, AppendProperties, OnlyType
<1> QED  BY <1>1, <1>2 DEF Past, Helds

LEMMA ReplayedType == ASSUME NEW h \in Helds, NEW x \in Entry PROVE Replayed(h, x) \in Helds
<1>1. x.sid \in Sid /\ x.msg \in Message /\ h[x.sid] \in Seq(Message)
  BY EntryHas DEF Helds
<1>2. Append(h[x.sid], x.msg) \in Seq(Message) /\ Without(h[x.sid], {x.msg}) \in Seq(Message)
  BY <1>1, AppendProperties, OnlyType DEF Without
<1> QED  BY <1>1, <1>2 DEF Replayed, Helds

Keeping(lines) ==
  CHOOSE f : f = [i \in 0..Len(lines) |->
                    IF i = 0 THEN None ELSE Past(f[i - 1], lines[i])]

LEMMA KeepingSteps ==
  ASSUME NEW lines \in Seq(Entry)
  PROVE  /\ Keeping(lines) \in [0..Len(lines) -> Helds]
         /\ Keeping(lines)[0] = None
         /\ \A i \in 1..Len(lines) :
              Keeping(lines)[i] = Past(Keeping(lines)[i - 1], lines[i])
<1> DEFINE n == Len(lines)
           b == None
           g == [i \in 1..n |-> [h \in Helds |-> Past(h, lines[i])]]
<1>1. n \in Nat /\ b \in Helds /\ \A i \in 1..n : lines[i] \in Entry
  BY LenProperties, ElementOfSeq, NoneIsHeld
<1>2. \A i \in 1..n, h \in Helds : Past(h, lines[i]) \in Helds
  BY <1>1, PastType
<1> HIDE DEF n, b
<1>3. g \in [1..n -> [Helds -> Helds]]
  BY <1>2
<1>4. PICK f \in [0..n -> Helds] : f[0] = b /\ \A i \in 1..n : f[i] = g[i][f[i - 1]]
  <2>1. Moves(g, n, Helds)
    BY <1>3 DEF Moves
  <2> HIDE DEF g
  <2>2. Runs(g, n, Helds, b)
    BY <1>1, <2>1, StepsAreThere
  <2> QED  BY <2>2 DEF Runs
<1>5. \A i \in 1..n : i - 1 \in 0..n /\ f[i] = Past(f[i - 1], lines[i])
  <2>1. ASSUME NEW i \in 1..n PROVE i - 1 \in 0..n
    BY <1>1
  <2> QED  BY <1>4, <2>1
<1>6. f = [i \in 0..n |-> IF i = 0 THEN b ELSE Past(f[i - 1], lines[i])]
  <2> DEFINE h == [i \in 0..n |-> IF i = 0 THEN b ELSE Past(f[i - 1], lines[i])]
  <2>1. ASSUME NEW i \in 0..n PROVE f[i] = h[i]
    <3>1. i = 0 \/ i \in 1..n
      BY <1>1
    <3>2. CASE i = 0
      BY <1>4, <3>2
    <3>3. CASE i # 0
      BY <1>5, <3>1, <3>3
    <3> QED  BY <3>2, <3>3
  <2>2. DOMAIN h = 0..n /\ h = [i \in DOMAIN h |-> h[i]] /\ f = [i \in DOMAIN f |-> f[i]]
        /\ DOMAIN f = 0..n
    OBVIOUS
  <2> HIDE DEF h
  <2>3. f = h
    BY <2>1, <2>2
  <2> QED  BY <2>3 DEF h
<1> DEFINE F == Keeping(lines)
<1>7. F = [i \in 0..n |-> IF i = 0 THEN b ELSE Past(F[i - 1], lines[i])]
  BY <1>6 DEF Keeping, n, b
<1> HIDE DEF F
<1>8. /\ F[0] = b
      /\ \A i \in 1..n : F[i] = Past(F[i - 1], lines[i])
  <2>1. 0 \in 0..n /\ \A i \in 1..n : i \in 0..n /\ i # 0
    BY <1>1
  <2> QED  BY <1>7, <2>1
<1>9. F = f
  <2> DEFINE T == {k \in Nat : k <= n => F[k] = f[k]}
  <2>1. 0 \in T
    BY <1>4, <1>8
  <2>2. ASSUME NEW k \in Nat, k \in T PROVE k + 1 \in T
    <3> SUFFICES ASSUME k + 1 <= n PROVE F[k + 1] = f[k + 1]
      OBVIOUS
    <3>1. k + 1 \in 1..n /\ F[k] = f[k] /\ (k + 1) - 1 = k
      BY <2>2, <1>1
    <3>2. F[k + 1] = Past(F[k], lines[k + 1]) /\ f[k + 1] = Past(f[k], lines[k + 1])
      <4> DEFINE i == k + 1
      <4> HIDE DEF i
      <4>1. i \in 1..n /\ i - 1 = k
        BY <3>1 DEF i
      <4>2. F[i] = Past(F[i - 1], lines[i]) /\ f[i] = Past(f[i - 1], lines[i])
        BY <1>5, <1>8, <4>1
      <4> QED  BY <4>1, <4>2 DEF i
    <3> QED  BY <3>1, <3>2
  <2> HIDE DEF T
  <2>3. Nat \subseteq T
    BY <2>1, <2>2, Climb
  <2>4. \A k \in 0..n : F[k] = f[k]
    BY <2>3, <1>1 DEF T
  <2>5. DOMAIN F = 0..n /\ F = [i \in DOMAIN F |-> F[i]] /\ f = [i \in DOMAIN f |-> f[i]]
        /\ DOMAIN f = 0..n
    BY <1>7
  <2> QED  BY <2>4, <2>5
<1> QED  BY <1>4, <1>8, <1>9 DEF F, n, b

Replaying(lines) ==
  CHOOSE f : f = [i \in 0..Len(lines) |->
                    IF i = 0 THEN EmptyInbox.held ELSE Replayed(f[i - 1], lines[i])]

LEMMA ReplayingSteps ==
  ASSUME NEW lines \in Seq(Entry)
  PROVE  /\ Replaying(lines) \in [0..Len(lines) -> Helds]
         /\ Replaying(lines)[0] = EmptyInbox.held
         /\ \A i \in 1..Len(lines) :
              Replaying(lines)[i] = Replayed(Replaying(lines)[i - 1], lines[i])
<1> DEFINE n == Len(lines)
           b == EmptyInbox.held
           g == [i \in 1..n |-> [h \in Helds |-> Replayed(h, lines[i])]]
<1>1. n \in Nat /\ b \in Helds /\ \A i \in 1..n : lines[i] \in Entry
  BY LenProperties, ElementOfSeq, NoneIsHeld
<1>2. \A i \in 1..n, h \in Helds : Replayed(h, lines[i]) \in Helds
  BY <1>1, ReplayedType
<1> HIDE DEF n, b
<1>3. g \in [1..n -> [Helds -> Helds]]
  BY <1>2
<1>4. PICK f \in [0..n -> Helds] : f[0] = b /\ \A i \in 1..n : f[i] = g[i][f[i - 1]]
  <2>1. Moves(g, n, Helds)
    BY <1>3 DEF Moves
  <2> HIDE DEF g
  <2>2. Runs(g, n, Helds, b)
    BY <1>1, <2>1, StepsAreThere
  <2> QED  BY <2>2 DEF Runs
<1>5. \A i \in 1..n : i - 1 \in 0..n /\ f[i] = Replayed(f[i - 1], lines[i])
  <2>1. ASSUME NEW i \in 1..n PROVE i - 1 \in 0..n
    BY <1>1
  <2> QED  BY <1>4, <2>1
<1>6. f = [i \in 0..n |-> IF i = 0 THEN b ELSE Replayed(f[i - 1], lines[i])]
  <2> DEFINE h == [i \in 0..n |-> IF i = 0 THEN b ELSE Replayed(f[i - 1], lines[i])]
  <2>1. ASSUME NEW i \in 0..n PROVE f[i] = h[i]
    <3>1. i = 0 \/ i \in 1..n
      BY <1>1
    <3>2. CASE i = 0
      BY <1>4, <3>2
    <3>3. CASE i # 0
      BY <1>5, <3>1, <3>3
    <3> QED  BY <3>2, <3>3
  <2>2. DOMAIN h = 0..n /\ h = [i \in DOMAIN h |-> h[i]] /\ f = [i \in DOMAIN f |-> f[i]]
        /\ DOMAIN f = 0..n
    OBVIOUS
  <2> HIDE DEF h
  <2>3. f = h
    BY <2>1, <2>2
  <2> QED  BY <2>3 DEF h
<1> DEFINE F == Replaying(lines)
<1>7. F = [i \in 0..n |-> IF i = 0 THEN b ELSE Replayed(F[i - 1], lines[i])]
  BY <1>6 DEF Replaying, n, b
<1> HIDE DEF F
<1>8. /\ F[0] = b
      /\ \A i \in 1..n : F[i] = Replayed(F[i - 1], lines[i])
  <2>1. 0 \in 0..n /\ \A i \in 1..n : i \in 0..n /\ i # 0
    BY <1>1
  <2> QED  BY <1>7, <2>1
<1>9. F = f
  <2> DEFINE T == {k \in Nat : k <= n => F[k] = f[k]}
  <2>1. 0 \in T
    BY <1>4, <1>8
  <2>2. ASSUME NEW k \in Nat, k \in T PROVE k + 1 \in T
    <3> SUFFICES ASSUME k + 1 <= n PROVE F[k + 1] = f[k + 1]
      OBVIOUS
    <3>1. k + 1 \in 1..n /\ F[k] = f[k] /\ (k + 1) - 1 = k
      BY <2>2, <1>1
    <3>2. F[k + 1] = Replayed(F[k], lines[k + 1]) /\ f[k + 1] = Replayed(f[k], lines[k + 1])
      <4> DEFINE i == k + 1
      <4> HIDE DEF i
      <4>1. i \in 1..n /\ i - 1 = k
        BY <3>1 DEF i
      <4>2. F[i] = Replayed(F[i - 1], lines[i]) /\ f[i] = Replayed(f[i - 1], lines[i])
        BY <1>5, <1>8, <4>1
      <4> QED  BY <4>1, <4>2 DEF i
    <3> QED  BY <3>1, <3>2
  <2> HIDE DEF T
  <2>3. Nat \subseteq T
    BY <2>1, <2>2, Climb
  <2>4. \A k \in 0..n : F[k] = f[k]
    BY <2>3, <1>1 DEF T
  <2>5. DOMAIN F = 0..n /\ F = [i \in DOMAIN F |-> F[i]] /\ f = [i \in DOMAIN f |-> f[i]]
        /\ DOMAIN f = 0..n
    BY <1>7
  <2> QED  BY <2>4, <2>5
<1> QED  BY <1>4, <1>8, <1>9 DEF F, n, b

LEMMA KeptIsKeeping == ASSUME NEW lines PROVE Kept(lines) = Keeping(lines)[Len(lines)]
BY DEF Kept, Keeping

LEMMA ReplayIsReplaying == ASSUME NEW lines PROVE Replay(lines) = Replaying(lines)[Len(lines)]
BY DEF Replay, Replaying

LEMMA KeptNothing == Kept(<<>>) = None
<1>1. ASSUME NEW E, NEW s \in Seq(Entry), s = <<>> PROVE Kept(s) = None
  <2>1. Keeping(s)[0] = None
    BY KeepingSteps
  <2>2. Len(s) = 0
    BY <1>1, EmptySeq
  <2> QED  BY <2>1, <2>2, KeptIsKeeping
<1> QED  BY <1>1, EmptySeq

LEMMA KeptType == ASSUME NEW lines \in Seq(Entry) PROVE Kept(lines) \in Helds
<1>1. Len(lines) \in 0..Len(lines)
  BY LenProperties
<1> QED  BY <1>1, KeptIsKeeping, KeepingSteps

LEMMA KeptAppend ==
  ASSUME NEW s \in Seq(Entry), NEW e \in Entry
  PROVE  Kept(Append(s, e)) = Past(Kept(s), e)
<1> DEFINE t == Append(s, e)
           F == Keeping(s)
           G == Keeping(t)
<1>1. /\ t \in Seq(Entry) /\ Len(t) = Len(s) + 1 /\ Len(s) \in Nat
      /\ \A i \in 1..Len(s) : t[i] = s[i]
      /\ t[Len(s) + 1] = e
  BY AppendProperties, LenProperties
<1>2. F[0] = None /\ \A i \in 1..Len(s) : F[i] = Past(F[i - 1], s[i])
  BY KeepingSteps
<1> HIDE DEF t
<1>3. G[0] = None /\ \A i \in 1..Len(t) : G[i] = Past(G[i - 1], t[i])
  BY <1>1, KeepingSteps
<1>4. Kept(s) = F[Len(s)] /\ Kept(t) = G[Len(t)]
  BY KeptIsKeeping
<1> HIDE DEF F, G
<1> DEFINE T == {n \in Nat : n <= Len(s) => G[n] = F[n]}
<1>5. 0 \in T
  BY <1>2, <1>3
<1>6. ASSUME NEW n \in Nat, n \in T PROVE n + 1 \in T
  <2> SUFFICES ASSUME n + 1 <= Len(s) PROVE G[n + 1] = F[n + 1]
    OBVIOUS
  <2>1. n + 1 \in 1..Len(s) /\ n + 1 \in 1..Len(t) /\ (n + 1) - 1 = n /\ G[n] = F[n]
    BY <1>1, <1>6
  <2> QED  BY <1>1, <1>2, <1>3, <2>1
<1> HIDE DEF T
<1>7. Nat \subseteq T
  BY <1>5, <1>6, Climb
<1>8. G[Len(s)] = F[Len(s)]
  BY <1>1, <1>7 DEF T
<1>9. Len(t) \in 1..Len(t) /\ Len(t) - 1 = Len(s)
  BY <1>1
<1> QED  BY <1>1, <1>3, <1>4, <1>8, <1>9 DEF t

-----------------------------------------------------------------------------
(* Whom and what lines speak of.                                           *)
About(lines) == {<<lines[i].sid, lines[i].msg>> : i \in DOMAIN lines}

LEMMA EntriesAre ==
  ASSUME NEW E, NEW lines \in Seq(E)
  PROVE  DOMAIN lines = 1..Len(lines) /\ Len(lines) \in Nat /\ \A i \in 1..Len(lines) : lines[i] \in E
BY LenProperties, ElementOfSeq

LEMMA AboutNothing == About(<<>>) = {}
BY DEF About

LEMMA AboutAppend ==
  ASSUME NEW E, NEW s \in Seq(E), NEW e \in E
  PROVE  About(Append(s, e)) = About(s) \cup {<<e.sid, e.msg>>}
<1> DEFINE t == Append(s, e)
<1>1. /\ t \in Seq(E) /\ Len(t) = Len(s) + 1 /\ Len(s) \in Nat
      /\ \A i \in 1..Len(s) : t[i] = s[i]
      /\ t[Len(s) + 1] = e
      /\ DOMAIN s = 1..Len(s)
  BY AppendProperties, LenProperties
<1>2. DOMAIN t = 1..(Len(s) + 1)
  BY <1>1, LenProperties
<1> HIDE DEF t
<1>3. ASSUME NEW x \in About(t) PROVE x \in About(s) \cup {<<e.sid, e.msg>>}
  <2>1. PICK i \in 1..(Len(s) + 1) : x = <<t[i].sid, t[i].msg>>
    BY <1>2 DEF About
  <2>2. CASE i \in 1..Len(s)
    <3>1. t[i] = s[i]
      BY <1>1, <2>2
    <3> QED  BY <1>1, <2>1, <2>2, <3>1 DEF About
  <2>3. CASE i = Len(s) + 1
    BY <1>1, <2>1, <2>3
  <2> QED  BY <1>1, <2>1, <2>2, <2>3
<1>4. ASSUME NEW x \in About(s) PROVE x \in About(t)
  <2>1. PICK i \in 1..Len(s) : x = <<s[i].sid, s[i].msg>>
    BY <1>1 DEF About
  <2>2. i \in 1..(Len(s) + 1) /\ t[i] = s[i]
    BY <1>1
  <2> QED  BY <1>2, <2>1, <2>2 DEF About
<1>5. <<e.sid, e.msg>> \in About(t)
  <2>1. Len(s) + 1 \in 1..(Len(s) + 1)
    BY <1>1
  <2> QED  BY <1>1, <1>2, <2>1 DEF About
<1> QED  BY <1>3, <1>4, <1>5 DEF t

LEMMA ConcatAppend ==
  ASSUME NEW E, NEW s \in Seq(E), NEW t \in Seq(E), NEW e \in E
  PROVE  s \o Append(t, e) = Append(s \o t, e)
<1>1. <<e>> \in Seq(E) /\ s \o t \in Seq(E)
  BY ConcatProperties, EmptySeq, AppendProperties
<1>2. Append(t, e) = t \o <<e>> /\ Append(s \o t, e) = (s \o t) \o <<e>>
  BY <1>1, AppendIsConcat
<1> QED  BY <1>1, <1>2, ConcatAssociative

LEMMA AboutConcat ==
  ASSUME NEW E, NEW s \in Seq(E)
  PROVE  \A t \in Seq(E) : About(s \o t) = About(s) \cup About(t)
<1> DEFINE P == {t \in Seq(E) : About(s \o t) = About(s) \cup About(t)}
<1>1. <<>> \in P
  BY AboutNothing, EmptySeq, ConcatEmptySeq
<1>2. ASSUME NEW t \in Seq(E), NEW e \in E, t \in P PROVE Append(t, e) \in P
  <2>1. Append(t, e) \in Seq(E) /\ s \o t \in Seq(E)
    BY AppendProperties, ConcatProperties
  <2>2. About(s \o Append(t, e)) = About(s \o t) \cup {<<e.sid, e.msg>>}
    <3>1. s \o Append(t, e) = Append(s \o t, e)
      BY ConcatAppend
    <3>2. About(Append(s \o t, e)) = About(s \o t) \cup {<<e.sid, e.msg>>}
      BY <2>1, AboutAppend
    <3> QED  BY <3>1, <3>2
  <2>3. About(Append(t, e)) = About(t) \cup {<<e.sid, e.msg>>}
    BY AboutAppend
  <2>4. About(s \o t) = About(s) \cup About(t)
    BY <1>2
  <2>5. About(s \o Append(t, e)) = About(s) \cup About(Append(t, e))
    BY <2>2, <2>3, <2>4
  <2> QED  BY <2>1, <2>5
<1> HIDE DEF P
<1>3. Seq(E) \subseteq P
  BY <1>1, <1>2, SeqClimb
<1> QED  BY <1>3 DEF P

(* What a line leaves is what was held and, of one added, its message.     *)
LEMMA PastHolds ==
  ASSUME NEW h \in Helds, NEW x \in Entry, NEW s \in Sid
  PROVE  /\ ToSet(Past(h, x)[s]) \subseteq ToSet(h[s]) \cup {x.msg}
         /\ s # x.sid => Past(h, x)[s] = h[s]
         /\ x.v # "add" => ToSet(Past(h, x)[x.sid]) = ToSet(h[x.sid]) \ {x.msg}
         /\ x.v = "add" => ToSet(Past(h, x)[x.sid]) = ToSet(h[x.sid]) \cup {x.msg}
<1>1. x.sid \in Sid /\ x.msg \in Message /\ h[x.sid] \in Seq(Message)
  BY EntryHas DEF Helds
<1>2. DOMAIN h = Sid
  BY DEF Helds
<1>3. CASE x.v = "add"
  <2>1. /\ Past(h, x)[x.sid] = Append(h[x.sid], x.msg)
        /\ s # x.sid => Past(h, x)[s] = h[s]
    BY <1>1, <1>2, <1>3 DEF Past
  <2>2. ToSet(Append(h[x.sid], x.msg)) = ToSet(h[x.sid]) \cup {x.msg}
    BY <1>1, SetOfAppend
  <2>3. CASE s = x.sid
    BY <1>3, <2>1, <2>2, <2>3
  <2>4. CASE s # x.sid
    BY <1>3, <2>1, <2>2, <2>4
  <2> QED  BY <2>3, <2>4
<1>4. CASE x.v # "add"
  <2>1. /\ Past(h, x)[x.sid] = Only(h[x.sid], Message \ {x.msg})
        /\ s # x.sid => Past(h, x)[s] = h[s]
    BY <1>1, <1>2, <1>4 DEF Past
  <2>2. ToSet(Only(h[x.sid], Message \ {x.msg})) = ToSet(h[x.sid]) \cap (Message \ {x.msg})
    BY <1>1, OnlyHolds
  <2>3. ToSet(h[x.sid]) \subseteq Message
    BY <1>1, SetType
  <2>4. ToSet(Only(h[x.sid], Message \ {x.msg})) = ToSet(h[x.sid]) \ {x.msg}
    BY <2>2, <2>3
  <2>5. CASE s = x.sid
    BY <1>4, <2>1, <2>4, <2>5
  <2>6. CASE s # x.sid
    BY <1>4, <2>1, <2>4, <2>6
  <2> QED  BY <2>5, <2>6
<1> QED  BY <1>3, <1>4

LEMMA KeptIsAbout ==
  \A lines \in Seq(Entry) : \A s \in Sid : \A m \in ToSet(Kept(lines)[s]) : <<s, m>> \in About(lines)
<1> DEFINE P == {l \in Seq(Entry) : \A s \in Sid : \A m \in ToSet(Kept(l)[s]) : <<s, m>> \in About(l)}
<1>1. <<>> \in P
  <2>1. \A s \in Sid : ToSet(Kept(<<>>)[s]) = {}
    BY KeptNothing, SetOfNothing DEF None
  <2> QED  BY <2>1, EmptySeq
<1>2. ASSUME NEW l \in Seq(Entry), NEW x \in Entry, l \in P PROVE Append(l, x) \in P
  <2>1. Append(l, x) \in Seq(Entry) /\ Kept(Append(l, x)) = Past(Kept(l), x) /\ Kept(l) \in Helds
        /\ About(Append(l, x)) = About(l) \cup {<<x.sid, x.msg>>}
    BY AppendProperties, KeptAppend, KeptType, AboutAppend
  <2>2. ASSUME NEW s \in Sid, NEW m \in ToSet(Kept(Append(l, x))[s]) PROVE <<s, m>> \in About(Append(l, x))
    <3>1. m \in ToSet(Kept(l)[s]) \/ (s = x.sid /\ m = x.msg)
      BY <2>1, <2>2, PastHolds
    <3>2. m \in ToSet(Kept(l)[s]) => <<s, m>> \in About(l)
      BY <1>2
    <3> QED  BY <2>1, <3>1, <3>2
  <2> HIDE DEF P
  <2> QED  BY <2>1, <2>2 DEF P
<1> HIDE DEF P
<1>3. Seq(Entry) \subseteq P
  BY <1>1, <1>2, SeqClimb
<1> QED  BY <1>3 DEF P

-----------------------------------------------------------------------------
(* The messages a session has, and their mids: no two alike.               *)
Apart(pairs) == \A p, q \in pairs : issued[p[2]] = issued[q[2]] => p = q

LEMMA WithoutIsOnly ==
  ASSUME NEW ms \in Seq(Message), NEW gone,
         \A m \in ToSet(ms), g \in gone : issued[m] = issued[g] => m = g
  PROVE  Without(ms, gone) = Only(ms, Message \ gone)
<1> DEFINE K == {m \in ToSet(ms) : \A g \in gone : issued[m] # issued[g]}
<1>1. ToSet(ms) \subseteq Message
  BY SetType
<1>2. ToSet(ms) \cap K = ToSet(ms) \cap (Message \ gone)
  BY <1>1
<1> HIDE DEF K
<1>3. Only(ms, K) = Only(ms, Message \ gone)
  BY <1>2, OnlySame
<1> QED  BY <1>3 DEF Without, K

LEMMA ReplayIsKept ==
  ASSUME NEW lines \in Seq(Entry), Apart(About(lines))
  PROVE  Replay(lines) = Kept(lines)
<1> DEFINE n == Len(lines)
           F == Keeping(lines)
           G == Replaying(lines)
<1>1. /\ n \in Nat
      /\ \A i \in 1..n : lines[i] \in Entry /\ <<lines[i].sid, lines[i].msg>> \in About(lines)
  BY EntriesAre DEF About
<1>2. /\ F[0] = None /\ \A i \in 1..n : F[i] = Past(F[i - 1], lines[i])
      /\ F \in [0..n -> Helds]
  BY KeepingSteps
<1>3. G[0] = None /\ \A i \in 1..n : G[i] = Replayed(G[i - 1], lines[i])
  BY ReplayingSteps, NoneIsHeld
<1>4. Kept(lines) = F[n] /\ Replay(lines) = G[n]
  BY KeptIsKeeping, ReplayIsReplaying
<1> HIDE DEF n, F, G
<1> DEFINE Said(h) == \A s \in Sid : \A m \in ToSet(h[s]) : <<s, m>> \in About(lines)
           T == {k \in Nat : k <= n => G[k] = F[k] /\ Said(F[k])}
<1>5. 0 \in T
  <2>1. \A s \in Sid : ToSet(None[s]) = {}
    BY SetOfNothing DEF None
  <2> QED  BY <1>2, <1>3, <2>1
<1>6. ASSUME NEW k \in Nat, k \in T PROVE k + 1 \in T
  <2> SUFFICES ASSUME k + 1 <= n PROVE G[k + 1] = F[k + 1] /\ Said(F[k + 1])
    OBVIOUS
  <2>1. k + 1 \in 1..n /\ (k + 1) - 1 = k /\ k \in 0..n /\ G[k] = F[k] /\ Said(F[k])
    BY <1>1, <1>6
  <2> DEFINE h == F[k]
             x == lines[k + 1]
  <2>2. /\ x \in Entry /\ h \in Helds /\ <<x.sid, x.msg>> \in About(lines)
        /\ F[k + 1] = Past(h, x) /\ G[k + 1] = Replayed(h, x)
    BY <1>1, <1>2, <1>3, <2>1
  <2>3. x.sid \in Sid /\ x.msg \in Message /\ h[x.sid] \in Seq(Message)
    BY <2>2, EntryHas DEF Helds
  <2>4. Said(h)
    BY <2>1
  <2> HIDE DEF h, x
  <2>5. \A m \in ToSet(h[x.sid]) : issued[m] = issued[x.msg] => m = x.msg
    <3>1. ASSUME NEW m \in ToSet(h[x.sid]), issued[m] = issued[x.msg] PROVE m = x.msg
      <4> DEFINE p == <<x.sid, m>>
                 q == <<x.sid, x.msg>>
      <4>1. p \in About(lines) /\ q \in About(lines) /\ p[2] = m /\ q[2] = x.msg
        BY <2>2, <2>3, <2>4
      <4>2. p = q
        BY <3>1, <4>1 DEF Apart
      <4> QED  BY <4>2
    <3> QED  BY <3>1
  <2>6. Without(h[x.sid], {x.msg}) = Only(h[x.sid], Message \ {x.msg})
    BY <2>3, <2>5, WithoutIsOnly
  <2>7. Replayed(h, x) = Past(h, x)
    BY <2>6 DEF Replayed, Past
  <2>8. Said(Past(h, x))
    <3>1. ASSUME NEW s \in Sid, NEW m \in ToSet(Past(h, x)[s]) PROVE <<s, m>> \in About(lines)
      <4>1. m \in ToSet(h[s]) \/ (s = x.sid /\ m = x.msg)
        BY <2>2, <3>1, PastHolds
      <4> QED  BY <2>2, <2>4, <4>1
    <3> QED  BY <3>1
  <2> QED  BY <2>2, <2>7, <2>8
<1> HIDE DEF T
<1>7. Nat \subseteq T
  BY <1>5, <1>6, Climb
<1> QED  BY <1>1, <1>4, <1>7 DEF T

-----------------------------------------------------------------------------
(* Lines that go to the end together: messages that leave a session, and   *)
(* what compaction writes of one.                                          *)
Leaving(ms, s, by) ==
  [i \in DOMAIN ms |-> [v |-> "delivered", sid |-> s, msg |-> ms[i], by |-> by]]

Adding(ms, s) == [k \in DOMAIN ms |-> [v |-> "add", sid |-> s, msg |-> ms[k]]]

LEMMA LeavingType ==
  ASSUME NEW s \in Sid, NEW by \in {"offer", "none"}, NEW ms \in Seq(Message)
  PROVE  Leaving(ms, s, by) \in Seq(Owed)
<1>1. DOMAIN ms = 1..Len(ms) /\ Len(ms) \in Nat /\ \A i \in 1..Len(ms) : ms[i] \in Message
  BY EntriesAre
<1>2. \A i \in 1..Len(ms) : [v |-> "delivered", sid |-> s, msg |-> ms[i], by |-> by] \in Owed
  BY <1>1 DEF Owed
<1> QED  BY <1>1, <1>2, IsASeq DEF Leaving

LEMMA LeavingAppend ==
  ASSUME NEW s \in Sid, NEW by \in {"offer", "none"}, NEW ms \in Seq(Message), NEW m \in Message
  PROVE  Leaving(Append(ms, m), s, by)
           = Append(Leaving(ms, s, by), [v |-> "delivered", sid |-> s, msg |-> m, by |-> by])
<1> DEFINE x == [v |-> "delivered", sid |-> s, msg |-> m, by |-> by]
           q == Leaving(Append(ms, m), s, by)
           r == Append(Leaving(ms, s, by), x)
<1>1. /\ Append(ms, m) \in Seq(Message) /\ Len(Append(ms, m)) = Len(ms) + 1 /\ Len(ms) \in Nat
      /\ \A i \in 1..Len(ms) : Append(ms, m)[i] = ms[i]
      /\ Append(ms, m)[Len(ms) + 1] = m
      /\ DOMAIN ms = 1..Len(ms) /\ DOMAIN Append(ms, m) = 1..(Len(ms) + 1)
  BY AppendProperties, LenProperties
<1>2. /\ x \in Owed /\ Leaving(ms, s, by) \in Seq(Owed) /\ q \in Seq(Owed)
  BY <1>1, LeavingType DEF Owed
<1>3. DOMAIN Leaving(ms, s, by) = 1..Len(ms) /\ DOMAIN q = 1..(Len(ms) + 1)
  BY <1>1 DEF Leaving
<1>4. Len(Leaving(ms, s, by)) = Len(ms) /\ Len(q) = Len(ms) + 1
  BY <1>1, <1>2, <1>3, LenProperties
<1>5. /\ r \in Seq(Owed) /\ Len(r) = Len(ms) + 1
      /\ \A i \in 1..Len(ms) : r[i] = Leaving(ms, s, by)[i]
      /\ r[Len(ms) + 1] = x
  BY <1>2, <1>4, AppendProperties
<1>6. ASSUME NEW i \in 1..Len(q) PROVE q[i] = r[i]
  <2>1. CASE i \in 1..Len(ms)
    <3>1. q[i] = [v |-> "delivered", sid |-> s, msg |-> ms[i], by |-> by]
      BY <1>1, <1>4, <2>1 DEF Leaving
    <3>2. Leaving(ms, s, by)[i] = [v |-> "delivered", sid |-> s, msg |-> ms[i], by |-> by]
      BY <1>1, <2>1 DEF Leaving
    <3> QED  BY <1>5, <2>1, <3>1, <3>2
  <2>2. CASE i = Len(ms) + 1
    <3>1. q[i] = x
      BY <1>1, <1>4, <2>2 DEF Leaving
    <3> QED  BY <1>5, <2>2, <3>1
  <2> QED  BY <1>1, <1>4, <2>1, <2>2
<1> HIDE DEF q, r
<1>7. q = r
  BY <1>2, <1>4, <1>5, <1>6, SeqEqual
<1> QED  BY <1>7 DEF q, r

(* The holding k is h but for what of s is not in M.                       *)
LeftOut(k, h, s, M) == k = [h EXCEPT ![s] = Only(@, M)]

LEMMA KeptLeaving ==
  ASSUME NEW l \in Seq(Entry), NEW s \in Sid, NEW by \in {"offer", "none"}
  PROVE  \A ms \in Seq(Message) :
           LeftOut(Kept(l \o Leaving(ms, s, by)), Kept(l), s, Message \ ToSet(ms))
<1> DEFINE h == Kept(l)
           P == {ms \in Seq(Message) :
                   Kept(l \o Leaving(ms, s, by)) = [h EXCEPT ![s] = Only(@, Message \ ToSet(ms))]}
<1>1. h \in Helds /\ h[s] \in Seq(Message) /\ DOMAIN h = Sid
  BY KeptType DEF Helds
<1> HIDE DEF h
<1>2. <<>> \in P
  <2>1. Leaving(<<>>, s, by) = <<>>
    BY DEF Leaving
  <2>2. l \o <<>> = l
    BY ConcatEmptySeq
  <2>3. Only(h[s], Message \ ToSet(<<>>)) = h[s]
    <3>1. ToSet(h[s]) \subseteq Message \ ToSet(<<>>)
      BY <1>1, SetType, SetOfNothing
    <3> QED  BY <1>1, <3>1, OnlyAll
  <2>4. h = [h EXCEPT ![s] = h[s]]
    BY <1>1 DEF Helds
  <2> QED  BY <2>1, <2>2, <2>3, <2>4, EmptySeq DEF h
<1>3. ASSUME NEW ms \in Seq(Message), NEW m \in Message, ms \in P PROVE Append(ms, m) \in P
  <2> DEFINE x == [v |-> "delivered", sid |-> s, msg |-> m, by |-> by]
             k == l \o Leaving(ms, s, by)
             G == Message \ ToSet(ms)
  <2>1. x \in Owed /\ x \in Entry /\ x.v # "add" /\ x.sid = s /\ x.msg = m
    BY DEF Owed, Entry
  <2>2. Leaving(ms, s, by) \in Seq(Entry)
    BY LeavingType, SeqMonotonic DEF Entry
  <2>3. k \in Seq(Entry)
    BY <2>2, ConcatProperties
  <2>4. l \o Leaving(Append(ms, m), s, by) = Append(k, x)
    <3>1. Leaving(Append(ms, m), s, by) = Append(Leaving(ms, s, by), x)
      BY LeavingAppend
    <3> HIDE DEF x
    <3>2. l \o Append(Leaving(ms, s, by), x) = Append(l \o Leaving(ms, s, by), x)
      BY <2>1, <2>2, ConcatAppend
    <3> QED  BY <3>1, <3>2
  <2>5. Kept(k) = [h EXCEPT ![s] = Only(@, G)]
    BY <1>3
  <2> HIDE DEF x, k
  <2>6. Kept(Append(k, x)) = [Kept(k) EXCEPT ![s] = Only(@, Message \ {m})]
    BY <2>1, <2>3, KeptAppend DEF Past
  <2>7. Only(Only(h[s], G), Message \ {m}) = Only(h[s], G \cap (Message \ {m}))
    BY <1>1, OnlyOnly
  <2>8. G \cap (Message \ {m}) = Message \ ToSet(Append(ms, m))
    BY SetOfAppend
  <2> HIDE DEF G
  <2>9. Kept(Append(k, x)) = [h EXCEPT ![s] = Only(@, Message \ ToSet(Append(ms, m)))]
    BY <1>1, <2>5, <2>6, <2>7, <2>8
  <2>10. Append(ms, m) \in Seq(Message)
    BY AppendProperties
  <2> QED  BY <2>4, <2>9, <2>10
<1> HIDE DEF P
<1>4. Seq(Message) \subseteq P
  BY <1>2, <1>3, SeqClimb
<1> QED  BY <1>4 DEF P, h, LeftOut

LEMMA AddingAppend ==
  ASSUME NEW s \in Sid, NEW ms \in Seq(Message), NEW m \in Message
  PROVE  /\ Adding(ms, s) \in Seq(InboxLine)
         /\ Adding(Append(ms, m), s) = Append(Adding(ms, s), [v |-> "add", sid |-> s, msg |-> m])
<1> DEFINE x == [v |-> "add", sid |-> s, msg |-> m]
           q == Adding(Append(ms, m), s)
           r == Append(Adding(ms, s), x)
<1>1. /\ Append(ms, m) \in Seq(Message) /\ Len(Append(ms, m)) = Len(ms) + 1 /\ Len(ms) \in Nat
      /\ \A i \in 1..Len(ms) : Append(ms, m)[i] = ms[i] /\ ms[i] \in Message
      /\ Append(ms, m)[Len(ms) + 1] = m
      /\ DOMAIN ms = 1..Len(ms) /\ DOMAIN Append(ms, m) = 1..(Len(ms) + 1)
      /\ \A i \in 1..(Len(ms) + 1) : Append(ms, m)[i] \in Message
  BY AppendProperties, EntriesAre
<1>2. x \in InboxLine /\ Adding(ms, s) \in Seq(InboxLine) /\ q \in Seq(InboxLine)
  <2>1. \A i \in 1..Len(ms) : [v |-> "add", sid |-> s, msg |-> ms[i]] \in InboxLine
    BY <1>1 DEF InboxLine
  <2>2. \A i \in 1..(Len(ms) + 1) : [v |-> "add", sid |-> s, msg |-> Append(ms, m)[i]] \in InboxLine
    BY <1>1 DEF InboxLine
  <2>3. [i \in 1..Len(ms) |-> [v |-> "add", sid |-> s, msg |-> ms[i]]] \in Seq(InboxLine)
    BY <1>1, <2>1, IsASeq
  <2>4. [i \in 1..(Len(ms) + 1) |-> [v |-> "add", sid |-> s, msg |-> Append(ms, m)[i]]] \in Seq(InboxLine)
    <3> DEFINE n == Len(ms) + 1
               w(i) == [v |-> "add", sid |-> s, msg |-> Append(ms, m)[i]]
    <3>1. n \in Nat /\ \A i \in 1..n : w(i) \in InboxLine
      BY <1>1, <2>2
    <3> HIDE DEF n, w
    <3>2. [i \in 1..n |-> w(i)] \in Seq(InboxLine)
      BY <3>1, IsASeq
    <3> QED  BY <3>2 DEF n, w
  <2> QED  BY <1>1, <2>3, <2>4 DEF Adding, InboxLine
<1>3. DOMAIN Adding(ms, s) = 1..Len(ms) /\ DOMAIN q = 1..(Len(ms) + 1)
  BY <1>1 DEF Adding
<1>4. Len(Adding(ms, s)) = Len(ms) /\ Len(q) = Len(ms) + 1
  BY <1>1, <1>2, <1>3, LenProperties
<1>5. /\ r \in Seq(InboxLine) /\ Len(r) = Len(ms) + 1
      /\ \A i \in 1..Len(ms) : r[i] = Adding(ms, s)[i]
      /\ r[Len(ms) + 1] = x
  BY <1>2, <1>4, AppendProperties
<1>6. ASSUME NEW i \in 1..Len(q) PROVE q[i] = r[i]
  <2>1. CASE i \in 1..Len(ms)
    <3>1. q[i] = [v |-> "add", sid |-> s, msg |-> ms[i]]
      BY <1>1, <1>4, <2>1 DEF Adding
    <3>2. Adding(ms, s)[i] = [v |-> "add", sid |-> s, msg |-> ms[i]]
      BY <1>1, <2>1 DEF Adding
    <3> QED  BY <1>5, <2>1, <3>1, <3>2
  <2>2. CASE i = Len(ms) + 1
    <3>1. q[i] = x
      BY <1>1, <1>4, <2>2 DEF Adding
    <3> QED  BY <1>5, <2>2, <3>1
  <2> QED  BY <1>1, <1>4, <2>1, <2>2
<1> HIDE DEF q, r
<1>7. q = r
  BY <1>2, <1>4, <1>5, <1>6, SeqEqual
<1> QED  BY <1>2, <1>7 DEF q, r

LEMMA AddingType == ASSUME NEW s \in Sid PROVE \A ms \in Seq(Message) : Adding(ms, s) \in Seq(InboxLine)
<1>1. Adding(<<>>, s) = <<>>
  BY DEF Adding
<1>2. ASSUME NEW ms \in Seq(Message) PROVE Adding(ms, s) \in Seq(InboxLine)
  <2>1. CASE ms = <<>>
    BY <1>1, <2>1, EmptySeq
  <2>2. CASE ms # <<>>
    <3>1. PICK q \in Seq(Message), m \in Message : ms = Append(q, m)
      BY <2>2, SequenceEmptyOrAppend
    <3>2. Adding(ms, s) = Append(Adding(q, s), [v |-> "add", sid |-> s, msg |-> m])
          /\ Adding(q, s) \in Seq(InboxLine)
      BY <3>1, AddingAppend
    <3>3. [v |-> "add", sid |-> s, msg |-> m] \in InboxLine
      BY DEF InboxLine
    <3> QED  BY <3>2, <3>3, AppendProperties
  <2> QED  BY <2>1, <2>2
<1> QED  BY <1>2

LEMMA KeptAdding ==
  ASSUME NEW l \in Seq(Entry), NEW s \in Sid, Kept(l)[s] = <<>>
  PROVE  \A ms \in Seq(Message) : Kept(l \o Adding(ms, s)) = [Kept(l) EXCEPT ![s] = ms]
<1> DEFINE h == Kept(l)
           P == {ms \in Seq(Message) : Kept(l \o Adding(ms, s)) = [h EXCEPT ![s] = ms]}
<1>1. h \in Helds /\ h[s] = <<>> /\ DOMAIN h = Sid
  BY KeptType DEF Helds
<1> HIDE DEF h
<1>2. <<>> \in P
  <2>1. Adding(<<>>, s) = <<>>
    BY DEF Adding
  <2>2. l \o <<>> = l
    BY ConcatEmptySeq
  <2>3. h = [h EXCEPT ![s] = <<>>]
    BY <1>1 DEF Helds
  <2> QED  BY <1>1, <2>1, <2>2, <2>3, EmptySeq DEF h
<1>3. ASSUME NEW ms \in Seq(Message), NEW m \in Message, ms \in P PROVE Append(ms, m) \in P
  <2> DEFINE x == [v |-> "add", sid |-> s, msg |-> m]
             k == l \o Adding(ms, s)
  <2>1. x \in InboxLine /\ x \in Entry /\ x.v = "add" /\ x.sid = s /\ x.msg = m
    BY DEF InboxLine, Entry
  <2>2. Adding(ms, s) \in Seq(Entry)
    BY AddingType, SeqMonotonic DEF Entry
  <2>3. k \in Seq(Entry)
    BY <2>2, ConcatProperties
  <2>4. l \o Adding(Append(ms, m), s) = Append(k, x)
    <3>1. Adding(Append(ms, m), s) = Append(Adding(ms, s), x)
      BY AddingAppend
    <3> HIDE DEF x
    <3>2. l \o Append(Adding(ms, s), x) = Append(l \o Adding(ms, s), x)
      BY <2>1, <2>2, ConcatAppend
    <3> QED  BY <3>1, <3>2
  <2>5. Kept(k) = [h EXCEPT ![s] = ms]
    BY <1>3
  <2> HIDE DEF x, k
  <2>6. Kept(Append(k, x)) = [Kept(k) EXCEPT ![s] = Append(@, m)]
    BY <2>1, <2>3, KeptAppend DEF Past
  <2>7. Kept(Append(k, x)) = [h EXCEPT ![s] = Append(ms, m)]
    BY <1>1, <2>5, <2>6
  <2>8. Append(ms, m) \in Seq(Message)
    BY AppendProperties
  <2> QED  BY <2>4, <2>7, <2>8
<1> HIDE DEF P
<1>4. Seq(Message) \subseteq P
  BY <1>2, <1>3, SeqClimb
<1> QED  BY <1>4 DEF P, h

(* Who waits for a line is no part of what it says.                        *)
LEMMA LineOfSays ==
  ASSUME NEW x \in Owed
  PROVE  /\ LineOf(x) \in InboxLine /\ LineOf(x) \in Entry /\ x \in Entry
         /\ \A h : Past(h, LineOf(x)) = Past(h, x)
         /\ LineOf(x).sid = x.sid /\ LineOf(x).msg = x.msg
BY DEF Owed, InboxLine, LineOf, Entry, Past

LEMMA KeptLanded ==
  ASSUME NEW f \in Seq(InboxLine), NEW x \in Owed
  PROVE  \A q \in Seq(Owed) :
           /\ Kept(Append(f, LineOf(x)) \o q) = Kept(f \o (<<x>> \o q))
           /\ About(Append(f, LineOf(x)) \o q) = About(f \o (<<x>> \o q))
<1> DEFINE g == Append(f, LineOf(x))
           e == Append(f, x)
           P == {q \in Seq(Entry) : Kept(g \o q) = Kept(e \o q) /\ About(g \o q) = About(e \o q)}
<1>1. f \in Seq(Entry) /\ g \in Seq(Entry) /\ e \in Seq(Entry) /\ x \in Entry
  BY LineOfSays, AppendProperties, SeqMonotonic DEF Entry
<1>2. <<>> \in P
  <2>1. Kept(g) = Kept(e)
    BY <1>1, LineOfSays, KeptAppend
  <2>2. About(g) = About(e)
    <3>1. About(e) = About(f) \cup {<<x.sid, x.msg>>}
      BY <1>1, AboutAppend
    <3>2. About(g) = About(f) \cup {<<LineOf(x).sid, LineOf(x).msg>>}
      <4> DEFINE y == LineOf(x)
      <4>1. y \in Entry
        BY LineOfSays
      <4> HIDE DEF y
      <4>2. About(Append(f, y)) = About(f) \cup {<<y.sid, y.msg>>}
        BY <1>1, <4>1, AboutAppend
      <4> QED  BY <4>2 DEF y
    <3> QED  BY <3>1, <3>2, LineOfSays
  <2>3. g \o <<>> = g /\ e \o <<>> = e
    BY <1>1, ConcatEmptySeq
  <2> QED  BY <2>1, <2>2, <2>3, EmptySeq
<1>3. ASSUME NEW q \in Seq(Entry), NEW y \in Entry, q \in P PROVE Append(q, y) \in P
  <2>1. Append(q, y) \in Seq(Entry) /\ g \o q \in Seq(Entry) /\ e \o q \in Seq(Entry)
    BY <1>1, AppendProperties, ConcatProperties
  <2> HIDE DEF g, e
  <2>2. g \o Append(q, y) = Append(g \o q, y) /\ e \o Append(q, y) = Append(e \o q, y)
    BY <1>1, ConcatAppend
  <2>3. Kept(g \o q) = Kept(e \o q) /\ About(g \o q) = About(e \o q)
    BY <1>3
  <2>4. Kept(Append(g \o q, y)) = Kept(Append(e \o q, y))
    BY <2>1, <2>3, KeptAppend
  <2>5. About(Append(g \o q, y)) = About(Append(e \o q, y))
    <3>1. About(Append(g \o q, y)) = About(g \o q) \cup {<<y.sid, y.msg>>}
      BY <2>1, AboutAppend
    <3>2. About(Append(e \o q, y)) = About(e \o q) \cup {<<y.sid, y.msg>>}
      BY <2>1, AboutAppend
    <3> QED  BY <2>3, <3>1, <3>2
  <2> QED  BY <2>1, <2>2, <2>4, <2>5
<1> HIDE DEF P
<1>4. Seq(Entry) \subseteq P
  BY <1>2, <1>3, SeqClimb
<1>5. ASSUME NEW q \in Seq(Owed)
      PROVE  /\ Kept(g \o q) = Kept(f \o (<<x>> \o q))
             /\ About(g \o q) = About(f \o (<<x>> \o q))
  <2>1. q \in Seq(Entry) /\ <<x>> \in Seq(Entry)
    BY <1>1, SeqMonotonic DEF Entry
  <2>2. e = f \o <<x>>
    BY <1>1, AppendIsConcat
  <2>3. e \o q = f \o (<<x>> \o q)
    BY <1>1, <2>1, <2>2, ConcatAssociative
  <2> HIDE DEF g, e
  <2> QED  BY <1>4, <2>1, <2>3 DEF P
<1> QED  BY <1>5

-----------------------------------------------------------------------------
(* The inductive invariant, in parts.                                      *)

(* The messages not past the retention window.                             *)
Young == {m \in Message : m > aged}

(* What an offer still has to hand over.                                   *)
Left(s) == IF offer[s].rest # <<>> /\ offer[s].writing THEN Tail(offer[s].rest)
           ELSE offer[s].rest

(* A message is known of a session as long as the file, what is owed to    *)
(* it, the memory or an offer speaks of it, or a request has it.           *)
Speaks(s, m) ==
  \/ <<s, m>> \in About(file)
  \/ <<s, m>> \in About(inbox.queue)
  \/ m \in ToSet(inbox.held[s])
  \/ m \in ToSet(offer[s].rest)

Knows(s, m) == Speaks(s, m) \/ \E o \in Op : op[o] # Free /\ op[o].sid = s /\ op[o].msg = m

(* Nothing is left in memory of a process that was killed.                 *)
IdleWhenDown ==
  ~up => /\ inbox.queue = <<>> /\ inbox.held = None /\ inbox.view = {}
         /\ op = [o \in Op |-> Free] /\ offer = [s \in Sid |-> NoOffer]
         /\ got = [m \in Message |-> 0]

(* Known messages are of one session and have mids of their own, which the *)
(* counter has reached.                                                    *)
MidsApart ==
  \A s, t \in Sid, m, n \in Message :
    (Knows(s, m) /\ Knows(t, n) /\ issued[m] = issued[n]) => (s = t /\ m = n)

MidsCounted ==
  \A s \in Sid, m \in Message :
    Knows(s, m) => (m <= Len(issued) /\ (up => issued[m] <= counter))

Homes == MidsApart /\ MidsCounted

(* A request has its message to itself, and until route (a) answers only   *)
(* the request knows of it.                                                *)
Sends ==
  /\ \A o, p \in Op : (op[o] # Free /\ op[p] # Free /\ op[o].msg = op[p].msg) => o = p
  /\ \A o \in Op : op[o].pc = "direct" =>
       /\ got[op[o].msg] = 0 \/ op[o].msg \in strayed
       /\ \A s \in Sid : ~Speaks(s, op[o].msg)

(* What a line owed to the file says is so, whoever waits for it waits for *)
(* no other, and no line is about a message before the one adding it.      *)
AddOwed(x) ==
  /\ x.by \in Op /\ op[x.by] = [pc |-> "adding", sid |-> x.sid, msg |-> x.msg]
  /\ <<x.sid, x.msg>> \notin About(file)

DroppedOwed(x) ==
  /\ x.by \in Op /\ op[x.by].pc = "dropping" /\ op[x.by].sid = x.sid
  /\ x.msg \in inbox.evicted
  /\ \A s \in Sid : x.msg \notin ToSet(inbox.held[s])

DeliveredOwed(x) ==
  /\ x.by \in {"offer", "none"}
  /\ x.msg \in ever \cup strayed
  /\ x.by = "offer" => (offer[x.sid].rest # <<>> /\ offer[x.sid].writing)

OwedTrue(x) ==
  /\ x.v = "add" => AddOwed(x)
  /\ x.v = "dropped" => DroppedOwed(x)
  /\ x.v = "delivered" => DeliveredOwed(x)

Owing == \A x \in ToSet(inbox.queue) : OwedTrue(x)

Clash(x, y) ==
  \/ x.by = y.by /\ x.by # "none" /\ (x.by = "offer" => x.sid = y.sid)
  \/ y.v = "add" /\ x.sid = y.sid /\ x.msg = y.msg

OwedOnce == \A x, y \in Owed : Before(inbox.queue, x, y) => ~Clash(x, y)

(* Nothing is held, offered or replayed twice, and a request an offer      *)
(* answers waits for that offer.                                           *)
Singles ==
  \A s \in Sid : /\ NoneTwice(inbox.held[s]) /\ NoneTwice(Kept(file)[s])
                 /\ NoneTwice(offer[s].rest)

OfferWaits ==
  \A s \in Sid : offer[s].by # NoOp => (op[offer[s].by].pc = "offering"
                                         /\ op[offer[s].by].sid = s)

(* What is held or still to be handed over was not handed over yet.        *)
Unhanded ==
  /\ \A s \in Sid : \A m \in ToSet(inbox.held[s]) \cup ToSet(Left(s)) :
       got[m] = 0 \/ m \in strayed
  /\ \A m \in Message : m > Len(issued) => got[m] = 0

(* Of what is held, an offer has the oldest, in the same order.            *)
InOrder ==
  \A s \in Sid : \A a, b \in Message :
    (Before(inbox.held[s], a, b) /\ b \in ToSet(Left(s))) => Before(Left(s), a, b)

(* A message told to be held, or about to be, is somewhere.                *)
Lasting(m) ==
  \/ m \in ever \/ m <= aged \/ m \in inbox.evicted \/ m \in strayed
  \/ \E s \in Sid : m \in ToSet(Kept(file)[s])

Durable ==
  /\ \A m \in Message : said[m] = "held" => Lasting(m)
  /\ \A o \in Op : op[o].pc = "dropping" => Lasting(op[o].msg)

Core == /\ Given /\ TypeOK /\ IdleWhenDown /\ Homes /\ Sends /\ Owing /\ OwedOnce
        /\ Singles /\ OfferWaits /\ Unhanded /\ InOrder /\ Durable /\ AtMostOnce

-----------------------------------------------------------------------------
(* More of sequences.                                                      *)
LEMMA LongIsSome ==
  ASSUME NEW E, NEW s \in Seq(E), NEW n \in Nat, Len(s) > n
  PROVE  s # <<>>
OBVIOUS

LEMMA InSet ==
  ASSUME NEW E, NEW s \in Seq(E)
  PROVE  \A a : a \in ToSet(s) <=> \E i \in 1..Len(s) : s[i] = a
BY EntriesAre DEF ToSet

LEMMA SetOfConcat ==
  ASSUME NEW E, NEW s \in Seq(E), NEW t \in Seq(E)
  PROVE  /\ s \o t \in Seq(E)
         /\ ToSet(s \o t) = ToSet(s) \cup ToSet(t)
<1>1. /\ s \o t \in Seq(E) /\ Len(s \o t) = Len(s) + Len(t)
      /\ Len(s) \in Nat /\ Len(t) \in Nat
      /\ \A i \in 1..(Len(s) + Len(t)) :
           (s \o t)[i] = IF i <= Len(s) THEN s[i] ELSE t[i - Len(s)]
  BY ConcatProperties, LenProperties
<1>2. ASSUME NEW a \in ToSet(s \o t) PROVE a \in ToSet(s) \cup ToSet(t)
  <2>1. PICK i \in 1..Len(s \o t) : (s \o t)[i] = a
    BY <1>1, InSet
  <2>2. CASE i <= Len(s)
    BY <1>1, <2>1, <2>2, InSet
  <2>3. CASE i > Len(s)
    <3>1. i - Len(s) \in 1..Len(t) /\ t[i - Len(s)] = a
      BY <1>1, <2>1, <2>3
    <3> QED  BY <3>1, InSet
  <2> QED  BY <1>1, <2>2, <2>3
<1>3. ASSUME NEW a \in ToSet(s) PROVE a \in ToSet(s \o t)
  <2>1. PICK i \in 1..Len(s) : s[i] = a
    BY InSet
  <2>2. i \in 1..Len(s \o t) /\ (s \o t)[i] = a
    BY <1>1, <2>1
  <2> QED  BY <1>1, <2>2, InSet
<1>4. ASSUME NEW a \in ToSet(t) PROVE a \in ToSet(s \o t)
  <2>1. PICK i \in 1..Len(t) : t[i] = a
    BY InSet
  <2>2. /\ Len(s) + i \in 1..Len(s \o t)
        /\ ~(Len(s) + i <= Len(s)) /\ (Len(s) + i) - Len(s) = i
    BY <1>1
  <2>3. (s \o t)[Len(s) + i] = a
    BY <1>1, <2>1, <2>2
  <2> QED  BY <1>1, <2>2, <2>3, InSet
<1> QED  BY <1>1, <1>2, <1>3, <1>4

LEMMA BeforeConcat ==
  ASSUME NEW E, NEW s \in Seq(E), NEW t \in Seq(E), NEW a, NEW b, Before(s \o t, a, b)
  PROVE  Before(s, a, b) \/ b \in ToSet(t)
<1>1. /\ Len(s \o t) = Len(s) + Len(t)
      /\ Len(s) \in Nat /\ Len(t) \in Nat
      /\ \A i \in 1..(Len(s) + Len(t)) :
           (s \o t)[i] = IF i <= Len(s) THEN s[i] ELSE t[i - Len(s)]
  BY ConcatProperties, LenProperties
<1>2. PICK i, j \in 1..Len(s \o t) : i < j /\ (s \o t)[i] = a /\ (s \o t)[j] = b
  BY DEF Before
<1>3. CASE j <= Len(s)
  <2>1. i \in 1..Len(s) /\ j \in 1..Len(s) /\ s[i] = a /\ s[j] = b
    BY <1>1, <1>2, <1>3
  <2> QED  BY <1>2, <2>1 DEF Before
<1>4. CASE j > Len(s)
  <2>1. j - Len(s) \in 1..Len(t) /\ t[j - Len(s)] = b
    BY <1>1, <1>2, <1>4
  <2> QED  BY <2>1, InSet
<1> QED  BY <1>1, <1>2, <1>3, <1>4

LEMMA TailHas ==
  ASSUME NEW E, NEW s \in Seq(E), s # <<>>
  PROVE  /\ Tail(s) \in Seq(E) /\ Head(s) \in E /\ Len(Tail(s)) = Len(s) - 1 /\ Len(s) \in Nat \ {0}
         /\ ToSet(s) = {Head(s)} \cup ToSet(Tail(s))
         /\ \A a, b : Before(Tail(s), a, b) => Before(s, a, b)
         /\ \A a \in ToSet(Tail(s)) : Before(s, Head(s), a)
         /\ s = <<Head(s)>> \o Tail(s)
<1>1. /\ Tail(s) \in Seq(E) /\ Head(s) = s[1] /\ Len(Tail(s)) = Len(s) - 1
      /\ Len(s) \in Nat \ {0}
      /\ \A i \in 1..Len(Tail(s)) : Tail(s)[i] = s[i + 1]
  <2>1. Len(s) \in Nat \ {0}
    BY LenProperties, EmptySeq
  <2>2. Tail(s) \in Seq(E) /\ Len(Tail(s)) = Len(s) - 1 /\ \A i \in 1..Len(Tail(s)) : Tail(s)[i] = s[i + 1]
    BY HeadTailProperties
  <2> QED  BY <2>1, <2>2
<1>2. \A a \in ToSet(Tail(s)) : Before(s, Head(s), a) /\ a \in ToSet(s)
  <2> SUFFICES ASSUME NEW a \in ToSet(Tail(s)) PROVE Before(s, Head(s), a) /\ a \in ToSet(s)
    OBVIOUS
  <2>1. PICK i \in 1..Len(Tail(s)) : Tail(s)[i] = a
    BY <1>1, InSet
  <2>2. /\ i + 1 \in 1..Len(s) /\ s[i + 1] = a /\ 1 \in 1..Len(s) /\ 1 < i + 1
    BY <1>1, <2>1
  <2> QED  BY <1>1, <2>2, InSet DEF Before
<1>3. Head(s) \in ToSet(s) /\ Head(s) \in E
  BY HeadIsIn
<1>4. ToSet(s) \subseteq {Head(s)} \cup ToSet(Tail(s))
  <2> SUFFICES ASSUME NEW a \in ToSet(s), a # Head(s) PROVE a \in ToSet(Tail(s))
    OBVIOUS
  <2>1. PICK i \in 1..Len(s) : s[i] = a
    BY InSet
  <2>2. i - 1 \in 1..Len(Tail(s)) /\ (i - 1) + 1 = i
    BY <1>1, <2>1
  <2>3. Tail(s)[i - 1] = a
    BY <1>1, <2>1, <2>2
  <2> QED  BY <1>1, <2>2, <2>3, InSet
<1>5. \A a, b : Before(Tail(s), a, b) => Before(s, a, b)
  <2> SUFFICES ASSUME NEW a, NEW b, NEW i \in 1..Len(Tail(s)), NEW j \in 1..Len(Tail(s)),
                      i < j, Tail(s)[i] = a, Tail(s)[j] = b
               PROVE  Before(s, a, b)
    BY DEF Before
  <2>1. i + 1 \in 1..Len(s) /\ j + 1 \in 1..Len(s) /\ i + 1 < j + 1 /\ s[i + 1] = a /\ s[j + 1] = b
    BY <1>1
  <2> QED  BY <2>1 DEF Before
<1>6. s = <<Head(s)>> \o Tail(s)
  <2> DEFINE r == <<Head(s)>> \o Tail(s)
             h == <<Head(s)>>
             t == Tail(s)
  <2>1. h \in Seq(E) /\ Len(h) = 1 /\ h[1] = Head(s)
    BY <1>3
  <2>2. t \in Seq(E) /\ Len(t) = Len(s) - 1 /\ \A i \in 1..Len(t) : t[i] = s[i + 1]
    BY <1>1
  <2> HIDE DEF h, t
  <2>3. /\ h \o t \in Seq(E) /\ Len(h \o t) = Len(s)
        /\ \A i \in 1..Len(s) : (h \o t)[i] = IF i <= 1 THEN h[i] ELSE t[i - 1]
    <3>1. /\ h \o t \in Seq(E) /\ Len(h \o t) = Len(h) + Len(t)
          /\ \A i \in 1..(Len(h) + Len(t)) :
               (h \o t)[i] = IF i <= Len(h) THEN h[i] ELSE t[i - Len(h)]
      <4>1. h \in Seq(E) /\ t \in Seq(E)
        BY <2>1, <2>2
      <4>2. h \o t \in Seq(E) /\ Len(h \o t) = Len(h) + Len(t)
        BY <4>1, ConcatProperties
      <4>3. \A i \in 1..(Len(h) + Len(t)) :
              (h \o t)[i] = IF i <= Len(h) THEN h[i] ELSE t[i - Len(h)]
        BY <4>1, ConcatProperties
      <4> QED  BY <4>2, <4>3
    <3>2. Len(h) = 1 /\ Len(h) + Len(t) = Len(s)
      BY <1>1, <2>1, <2>2
    <3> QED  BY <3>1, <3>2
  <2>4. \A i \in 1..Len(s) : (h \o t)[i] = s[i]
    BY <1>1, <2>1, <2>2, <2>3
  <2>5. h \o t = s
    BY <2>3, <2>4, SeqEqual
  <2> QED  BY <2>5 DEF h, t
<1> QED  BY <1>1, <1>2, <1>3, <1>4, <1>5, <1>6

LEMMA LeavingHas ==
  ASSUME NEW s \in Sid, NEW by \in {"offer", "none"}, NEW ms \in Seq(Message)
  PROVE  /\ \A x \in ToSet(Leaving(ms, s, by)) :
              \E m \in ToSet(ms) : x = [v |-> "delivered", sid |-> s, msg |-> m, by |-> by]
         /\ \A p \in About(Leaving(ms, s, by)) : p[1] = s /\ p[2] \in ToSet(ms)
<1>1. DOMAIN ms = 1..Len(ms)
  BY EntriesAre
<1>2. DOMAIN Leaving(ms, s, by) = 1..Len(ms)
      /\ \A i \in 1..Len(ms) :
           Leaving(ms, s, by)[i] = [v |-> "delivered", sid |-> s, msg |-> ms[i], by |-> by]
  BY <1>1 DEF Leaving
<1>3. \A i \in 1..Len(ms) : ms[i] \in ToSet(ms)
  BY <1>1 DEF ToSet
<1> QED  BY <1>2, <1>3 DEF ToSet, About

(* A set of numbers that is not empty and is finite has a greatest.        *)
LEMMA GreatestIsThere ==
  ASSUME NEW S, IsFiniteSet(S), S \subseteq Int, S # {}
  PROVE  Max(S) \in S /\ \A n \in S : n <= Max(S)
<1> SUFFICES \E g \in S : \A n \in S : n <= g
  BY DEF Max
<1> DEFINE Good(n) == \A T \in SUBSET S : (Cardinality(T) = n + 1) => \E g \in T : \A k \in T : k <= g
           P == {n \in Nat : Good(n)}
<1>1. 0 \in P
  <2> SUFFICES ASSUME NEW T \in SUBSET S, Cardinality(T) = 0 + 1
               PROVE  \E g \in T : \A k \in T : k <= g
    OBVIOUS
  <2>1. IsFiniteSet(T)
    BY FS_Subset
  <2>2. Cardinality(T) = 1
    OBVIOUS
  <2>3. \E g : T = {g}
    BY <2>1, <2>2, FS_Singleton, Zenon
  <2>4. PICK g : T = {g}
    BY <2>3
  <2>5. g \in Int
    BY <2>4
  <2> QED  BY <2>4, <2>5
<1>2. ASSUME NEW n \in Nat, n \in P PROVE n + 1 \in P
  <2> SUFFICES ASSUME NEW T \in SUBSET S, Cardinality(T) = (n + 1) + 1
               PROVE  \E g \in T : \A k \in T : k <= g
    OBVIOUS
  <2>1. IsFiniteSet(T)
    BY FS_Subset
  <2>2. T # {}
    BY <2>1, FS_EmptySet
  <2>3. PICK x \in T : TRUE
    BY <2>2
  <2>4. Cardinality(T \ {x}) = n + 1
    <3>1. Cardinality(T \ {x}) = Cardinality(T) - 1
      BY <2>1, <2>3, FS_RemoveElement
    <3> QED  BY <3>1
  <2>5. PICK g \in T \ {x} : \A k \in T \ {x} : k <= g
    BY <1>2, <2>4
  <2>6. x \in Int /\ g \in Int
    BY <2>5
  <2>7. CASE x <= g
    BY <2>5, <2>7
  <2>8. CASE ~(x <= g)
    <3>1. \A k \in T : k <= x
      BY <2>5, <2>6, <2>8
    <3> QED  BY <3>1
  <2> QED  BY <2>7, <2>8
<1> HIDE DEF P
<1>3. Nat \subseteq P
  BY <1>1, <1>2, Climb
<1>4. Cardinality(S) \in Nat /\ Cardinality(S) # 0
  BY FS_CardinalityType, FS_EmptySet
<1>5. Cardinality(S) - 1 \in Nat /\ (Cardinality(S) - 1) + 1 = Cardinality(S)
  BY <1>4
<1>6. Good(Cardinality(S) - 1)
  BY <1>3, <1>5 DEF P
<1> QED  BY <1>5, <1>6

-----------------------------------------------------------------------------
(* What compaction writes is read back as it was held.                     *)
Order == SetToSeq(Sid)

Wrote(q, held, s) == q \o Adding(held[s], s)

Writing(held) ==
  CHOOSE f : f = [i \in 0..Len(Order) |->
                    IF i = 0 THEN <<>> ELSE Wrote(f[i - 1], held, Order[i])]

LEMMA CompactedIsWriting ==
  ASSUME NEW held PROVE Compacted(held) = Writing(held)[Len(Order)]
BY DEF Compacted, Writing, Order, Wrote, Adding

LEMMA EverySessionInOrder ==
  ASSUME IsFiniteSet(Sid)
  PROVE  /\ Order \in Seq(Sid)
         /\ \A i, j \in 1..Len(Order) : Order[i] = Order[j] => i = j
         /\ \A s \in Sid : \E i \in 1..Len(Order) : Order[i] = s
<1> DEFINE n == Cardinality(Sid)
<1>1. n \in Nat /\ ExistsBijection(1..n, Sid)
  BY FS_CardinalityType
<1> HIDE DEF n
<1>2. \E f \in [1..n -> Sid] : \A a, b \in 1..n : f[a] = f[b] => a = b
  BY <1>1 DEF ExistsBijection, Bijection, Injection, IsInjective
<1>3. \E f \in [1..n -> Sid] : IsInjective(f)
  BY <1>2 DEF IsInjective
<1>4. Order \in [1..n -> Sid] /\ IsInjective(Order)
  BY <1>3 DEF Order, SetToSeq, n
<1>5. \A a, b \in 1..n : Order[a] = Order[b] => a = b
  BY <1>4 DEF IsInjective
<1>6. Order \in Seq(Sid) /\ Len(Order) = n
  <2> DEFINE w(i) == Order[i]
  <2>1. Order = [i \in 1..n |-> w(i)] /\ \A i \in 1..n : w(i) \in Sid
    BY <1>4
  <2> HIDE DEF w
  <2>2. [i \in 1..n |-> w(i)] \in Seq(Sid)
    BY <1>1, <2>1, IsASeq
  <2>3. Order \in Seq(Sid) /\ DOMAIN Order = 1..n
    BY <1>4, <2>1, <2>2
  <2> QED  BY <1>1, <2>3, LenProperties
<1>7. ASSUME NEW s \in Sid PROVE \E i \in 1..n : Order[i] = s
  <2> SUFFICES ASSUME \A i \in 1..n : Order[i] # s PROVE FALSE
    OBVIOUS
  <2>1. Order \in [1..n -> Sid \ {s}]
    BY <1>4
  <2>2. IsFiniteSet(Sid \ {s}) /\ Cardinality(Sid \ {s}) = n - 1
    BY <1>1, FS_RemoveElement DEF n
  <2>3. IsFiniteSet(1..n) /\ Cardinality(1..n) = n
    BY <1>1, FS_Interval
  <2>4. Cardinality(Sid \ {s}) < Cardinality(1..n)
    BY <1>1, <2>2, <2>3
  <2>5. \E x, y \in 1..n : x # y /\ Order[x] = Order[y]
    <3> DEFINE A == 1..n
               B == Sid \ {s}
    <3>1. IsFiniteSet(A) /\ IsFiniteSet(B) /\ Cardinality(B) < Cardinality(A) /\ Order \in [A -> B]
      BY <2>1, <2>2, <2>3, <2>4
    <3> HIDE DEF A, B
    <3>2. \E x, y \in A : x # y /\ Order[x] = Order[y]
      BY <3>1, FS_PigeonHole
    <3> QED  BY <3>2 DEF A
  <2> QED  BY <1>5, <2>5
<1> QED  BY <1>5, <1>6, <1>7

LEMMA WritingSteps ==
  ASSUME IsFiniteSet(Sid), NEW held \in Helds
  PROVE  /\ Writing(held) \in [0..Len(Order) -> Seq(InboxLine)]
         /\ Writing(held)[0] = <<>>
         /\ \A i \in 1..Len(Order) :
              Writing(held)[i] = Wrote(Writing(held)[i - 1], held, Order[i])
<1> DEFINE n == Len(Order)
           b == <<>>
           g == [i \in 1..n |-> [q \in Seq(InboxLine) |-> Wrote(q, held, Order[i])]]
<1>1. n \in Nat /\ b \in Seq(InboxLine) /\ \A i \in 1..n : Order[i] \in Sid
  BY EverySessionInOrder, LenProperties, ElementOfSeq, EmptySeq
<1>2. \A i \in 1..n, q \in Seq(InboxLine) : Wrote(q, held, Order[i]) \in Seq(InboxLine)
  <2> SUFFICES ASSUME NEW i \in 1..n, NEW q \in Seq(InboxLine) PROVE Wrote(q, held, Order[i]) \in Seq(InboxLine)
    OBVIOUS
  <2>1. Order[i] \in Sid /\ held[Order[i]] \in Seq(Message)
    BY <1>1 DEF Helds
  <2>2. Adding(held[Order[i]], Order[i]) \in Seq(InboxLine)
    BY <2>1, AddingType
  <2> QED  BY <2>2, ConcatProperties DEF Wrote
<1> HIDE DEF n, b
<1>3. g \in [1..n -> [Seq(InboxLine) -> Seq(InboxLine)]]
  BY <1>2
<1>4. PICK f \in [0..n -> Seq(InboxLine)] : f[0] = b /\ \A i \in 1..n : f[i] = g[i][f[i - 1]]
  <2>1. Moves(g, n, Seq(InboxLine))
    BY <1>3 DEF Moves
  <2> HIDE DEF g
  <2>2. Runs(g, n, Seq(InboxLine), b)
    BY <1>1, <2>1, StepsAreThere
  <2> QED  BY <2>2 DEF Runs
<1>5. \A i \in 1..n : i - 1 \in 0..n /\ f[i] = Wrote(f[i - 1], held, Order[i])
  <2>1. ASSUME NEW i \in 1..n PROVE i - 1 \in 0..n
    BY <1>1
  <2> QED  BY <1>4, <2>1
<1>6. f = [i \in 0..n |-> IF i = 0 THEN b ELSE Wrote(f[i - 1], held, Order[i])]
  <2> DEFINE h == [i \in 0..n |-> IF i = 0 THEN b ELSE Wrote(f[i - 1], held, Order[i])]
  <2>1. ASSUME NEW i \in 0..n PROVE f[i] = h[i]
    <3>1. i = 0 \/ i \in 1..n
      BY <1>1
    <3>2. CASE i = 0
      BY <1>4, <3>2
    <3>3. CASE i # 0
      BY <1>5, <3>1, <3>3
    <3> QED  BY <3>2, <3>3
  <2>2. DOMAIN h = 0..n /\ h = [i \in DOMAIN h |-> h[i]] /\ f = [i \in DOMAIN f |-> f[i]]
        /\ DOMAIN f = 0..n
    OBVIOUS
  <2> HIDE DEF h
  <2>3. f = h
    BY <2>1, <2>2
  <2> QED  BY <2>3 DEF h
<1> DEFINE F == Writing(held)
<1>7. F = [i \in 0..n |-> IF i = 0 THEN b ELSE Wrote(F[i - 1], held, Order[i])]
  BY <1>6 DEF Writing, n, b
<1> HIDE DEF F
<1>8. /\ F[0] = b
      /\ \A i \in 1..n : F[i] = Wrote(F[i - 1], held, Order[i])
  <2>1. 0 \in 0..n /\ \A i \in 1..n : i \in 0..n /\ i # 0
    BY <1>1
  <2> QED  BY <1>7, <2>1
<1>9. \A k \in 0..n : F[k] \in Seq(InboxLine)
  <2> DEFINE T == {k \in Nat : k <= n => F[k] \in Seq(InboxLine)}
  <2>1. 0 \in T
    BY <1>1, <1>8
  <2>2. ASSUME NEW k \in Nat, k \in T PROVE k + 1 \in T
    <3> SUFFICES ASSUME k + 1 <= n PROVE F[k + 1] \in Seq(InboxLine)
      OBVIOUS
    <3> DEFINE i == k + 1
    <3>1. i \in 1..n /\ F[k] \in Seq(InboxLine) /\ i - 1 = k
      BY <2>2, <1>1
    <3> HIDE DEF i
    <3>2. F[i] = Wrote(F[i - 1], held, Order[i])
      BY <1>8, <3>1
    <3>3. F[i] \in Seq(InboxLine)
      BY <1>2, <3>1, <3>2
    <3> QED  BY <3>3 DEF i
  <2> HIDE DEF T
  <2>3. Nat \subseteq T
    BY <2>1, <2>2, Climb
  <2> QED  BY <2>3, <1>1 DEF T
<1>10. F \in [0..n -> Seq(InboxLine)]
  BY <1>7, <1>9
<1> QED  BY <1>8, <1>10 DEF F, n, b

LEMMA CompactedIsHeld ==
  ASSUME IsFiniteSet(Sid), NEW held \in Helds
  PROVE  Compacted(held) \in Seq(InboxLine) /\ Kept(Compacted(held)) = held
<1> DEFINE n == Len(Order)
           F == Writing(held)
           Sofar(k) == [s \in Sid |-> IF \E i \in 1..k : Order[i] = s THEN held[s] ELSE <<>>]
           T == {k \in Nat : k <= n => Kept(F[k]) = Sofar(k)}
<1>1. /\ n \in Nat /\ \A i \in 1..n : Order[i] \in Sid
      /\ \A i, j \in 1..n : Order[i] = Order[j] => i = j
      /\ \A s \in Sid : \E i \in 1..n : Order[i] = s
  BY EverySessionInOrder, LenProperties, ElementOfSeq
<1>2. /\ F \in [0..n -> Seq(InboxLine)]
      /\ F[0] = <<>>
      /\ \A i \in 1..n : F[i] = Wrote(F[i - 1], held, Order[i])
  BY WritingSteps
<1>3. held \in [Sid -> Seq(Message)]
  BY DEF Helds
<1> HIDE DEF F, n
<1>4. 0 \in T
  <2>1. Sofar(0) = None
    BY DEF None
  <2> QED  BY <1>2, <2>1, KeptNothing
<1>5. ASSUME NEW k \in Nat, k \in T PROVE k + 1 \in T
  <2> SUFFICES ASSUME k + 1 <= n PROVE Kept(F[k + 1]) = Sofar(k + 1)
    OBVIOUS
  <2> DEFINE i == k + 1
             t == Order[i]
  <2>1. i \in 1..n /\ k \in 0..n /\ i - 1 = k /\ Kept(F[k]) = Sofar(k)
    BY <1>1, <1>5
  <2>2. t \in Sid /\ F[k] \in Seq(InboxLine)
    BY <1>1, <1>2, <2>1
  <2>3. F[i] = F[k] \o Adding(held[t], t)
    BY <1>2, <2>1 DEF Wrote
  <2>4. ASSUME NEW j \in 1..k PROVE Order[j] # t
    <3>1. j \in 1..n /\ j # i
      BY <1>1, <2>1
    <3> QED  BY <1>1, <2>1, <3>1
  <2>5. Sofar(k)[t] = <<>>
    BY <2>2, <2>4
  <2>6. Sofar(i) = [Sofar(k) EXCEPT ![t] = held[t]]
    <3>1. ASSUME NEW s \in Sid PROVE Sofar(i)[s] = [Sofar(k) EXCEPT ![t] = held[t]][s]
      <4>1. CASE s = t
        BY <2>1, <4>1
      <4>2. CASE s # t
        <5>1. (\E j \in 1..i : Order[j] = s) <=> \E j \in 1..k : Order[j] = s
          <6>1. \A j \in 1..i : j = i \/ j \in 1..k
            BY <2>1
          <6>2. 1..k \subseteq 1..i
            BY <2>1
          <6> QED  BY <4>2, <6>1, <6>2
        <5> QED  BY <4>2, <5>1
      <4> QED  BY <4>1, <4>2
    <3> QED  BY <3>1
  <2>7. F[k] \in Seq(Entry) /\ held[t] \in Seq(Message)
    BY <1>3, <2>2, SeqMonotonic DEF Entry
  <2> DEFINE q == F[k]
             S == Sofar(k)
  <2>8. q \in Seq(Entry) /\ Kept(q) = S /\ S[t] = <<>> /\ held[t] \in Seq(Message)
    BY <2>1, <2>5, <2>7
  <2> HIDE DEF t, q, S
  <2>9. Kept(q \o Adding(held[t], t)) = [Kept(q) EXCEPT ![t] = held[t]]
    BY <2>2, <2>8, KeptAdding
  <2>10. Kept(F[i]) = Sofar(i)
    BY <2>3, <2>6, <2>8, <2>9 DEF q, S
  <2> QED  BY <2>10
<1> HIDE DEF T
<1>6. Nat \subseteq T
  BY <1>4, <1>5, Climb
<1>7. Kept(F[n]) = Sofar(n) /\ F[n] \in Seq(InboxLine)
  <2>1. n \in T
    BY <1>1, <1>6
  <2>2. Kept(F[n]) = Sofar(n)
    BY <1>1, <2>1 DEF T
  <2> QED  BY <1>1, <1>2, <2>2
<1>8. Sofar(n) = held
  BY <1>1, <1>3
<1> QED  BY <1>7, <1>8, CompactedIsWriting DEF F, n

-----------------------------------------------------------------------------
(* What the verbs of the inbox do, where mids tell messages apart.         *)
TellsApart(ms) == \A m, n \in ToSet(ms) : issued[m] = issued[n] => m = n

GoneOf(h, S) == {m \in Message : m <= aged /\ \E s \in S : m \in ToSet(h[s])}

(* One holding has no more than another, in the same order.                *)
Thinner(h, k) ==
  \A s \in Sid : /\ ToSet(k[s]) \subseteq ToSet(h[s]) /\ Len(k[s]) <= Len(h[s])
                 /\ \A a, b : Before(k[s], a, b) => Before(h[s], a, b)

LEMMA ThinnerOnly ==
  ASSUME NEW h \in Helds, NEW k \in Helds, \A s \in Sid : \E K : k[s] = Only(h[s], K)
  PROVE  Thinner(h, k)
<1> SUFFICES ASSUME NEW s \in Sid
             PROVE  /\ ToSet(k[s]) \subseteq ToSet(h[s]) /\ Len(k[s]) <= Len(h[s])
                    /\ \A a, b : Before(k[s], a, b) => Before(h[s], a, b)
  BY DEF Thinner
<1>0. PICK K : k[s] = Only(h[s], K)
  OBVIOUS
<1>1. h[s] \in Seq(Message) /\ k[s] = Only(h[s], K)
  BY <1>0 DEF Helds
<1>2. ToSet(k[s]) \subseteq ToSet(h[s])
  BY <1>1, OnlyHolds
<1>3. Len(k[s]) <= Len(h[s])
  BY <1>1, OnlyShorter
<1>4. \A a, b : Before(k[s], a, b) => Before(h[s], a, b)
  BY <1>1, BeforeOnly
<1> QED  BY <1>2, <1>3, <1>4

LEMMA InboxHas ==
  ASSUME NEW b \in InboxState
  PROVE  /\ b.held \in Helds /\ b.queue \in Seq(Owed) /\ b.view \subseteq Message
         /\ b.evicted \subseteq Message
         /\ b.told \subseteq Message \X {"delivered", "expired", "dropped"}
         /\ \A s \in Sid : b.held[s] \in Seq(Message) /\ ToSet(b.held[s]) \subseteq Message
BY SetType DEF InboxState, Helds

LEMMA ExpireDoes ==
  ASSUME NEW b \in InboxState, NEW S \in SUBSET Sid, aged \in Int, MaxSends \in Nat,
         \A s \in Sid : TellsApart(b.held[s]), NEW e, e = Expire(b, S)
  PROVE  /\ e \in InboxState /\ e.queue = b.queue /\ e.evicted = b.evicted
         /\ e.view = b.view \ GoneOf(b.held, S)
         /\ e.told = b.told \cup (GoneOf(b.held, S) \X {"expired"})
         /\ \A s \in Sid : e.held[s] = Only(b.held[s], IF s \in S THEN Young ELSE Message)
         /\ Thinner(b.held, e.held)
<1> DEFINE old == [s \in S |-> {m \in ToSet(b.held[s]) : m <= aged}]
           gone == UNION {old[s] : s \in S}
           h == [s \in Sid |-> IF s \in S THEN Without(b.held[s], old[s]) ELSE b.held[s]]
<1>1. /\ b.held \in Helds /\ \A s \in Sid : b.held[s] \in Seq(Message) /\ ToSet(b.held[s]) \subseteq Message
      /\ Message \subseteq Int
  BY InboxHas DEF Message
<1>2. gone = GoneOf(b.held, S)
  BY <1>1 DEF GoneOf
<1>3. ASSUME NEW s \in Sid
      PROVE  h[s] = Only(b.held[s], IF s \in S THEN Young ELSE Message)
  <2>1. CASE s \in S
    <3>1. Without(b.held[s], old[s]) = Only(b.held[s], Message \ old[s])
      <4>1. \A m \in ToSet(b.held[s]), g \in old[s] : issued[m] = issued[g] => m = g
        BY <2>1 DEF TellsApart
      <4> QED  BY <1>1, <4>1, WithoutIsOnly
    <3>2. ToSet(b.held[s]) \cap (Message \ old[s]) = ToSet(b.held[s]) \cap Young
      <4>1. \A m \in Message : m <= aged <=> ~(m > aged)
        BY <1>1
      <4> QED  BY <1>1, <2>1, <4>1 DEF Young
    <3>3. Only(b.held[s], Message \ old[s]) = Only(b.held[s], Young)
      <4> DEFINE q == b.held[s]
                 A == Message \ old[s]
                 B == Young
      <4>1. q \in Seq(Message) /\ ToSet(q) \cap A = ToSet(q) \cap B
        BY <1>1, <3>2
      <4> HIDE DEF q, A, B
      <4>2. Only(q, A) = Only(q, B)
        BY <4>1, OnlySame
      <4> QED  BY <4>2 DEF q, A, B
    <3> QED  BY <2>1, <3>1, <3>3
  <2>2. CASE s \notin S
    <3>1. Only(b.held[s], Message) = b.held[s]
      BY <1>1, OnlyAll
    <3> QED  BY <2>2, <3>1
  <2> QED  BY <2>1, <2>2
<1>4. h \in Helds
  <2>1. \A s \in Sid : Only(b.held[s], IF s \in S THEN Young ELSE Message) \in Seq(Message)
    BY <1>1, OnlyType
  <2>2. \A s \in Sid : h[s] \in Seq(Message)
    BY <1>3, <2>1
  <2> QED  BY <2>2 DEF Helds
<1>5. /\ e.queue = b.queue /\ e.evicted = b.evicted /\ e.held = h
      /\ e.view = b.view \ gone /\ e.told = b.told \cup (gone \X {"expired"})
      /\ e = [held |-> h, queue |-> b.queue, view |-> b.view \ gone, evicted |-> b.evicted,
              told |-> b.told \cup (gone \X {"expired"})]
  BY DEF Expire, InboxState
<1>6. gone \subseteq Message
  BY <1>2 DEF GoneOf
<1>7. e \in InboxState
  <2>1. b.view \ gone \subseteq Message /\ b.told \cup (gone \X {"expired"}) \subseteq Message \X {"delivered", "expired", "dropped"}
    BY <1>6, InboxHas
  <2> HIDE DEF h, gone
  <2> QED  BY <1>4, <1>5, <2>1, InboxHas DEF InboxState, Helds
<1>8. \A s \in Sid : e.held[s] = Only(b.held[s], IF s \in S THEN Young ELSE Message)
  BY <1>3, <1>5
<1>9. Thinner(b.held, e.held)
  <2>1. \A s \in Sid : \E K : e.held[s] = Only(b.held[s], K)
    BY <1>8
  <2>2. e.held \in Helds
    BY <1>4, <1>5
  <2> QED  BY <1>1, <2>1, <2>2, ThinnerOnly
<1> HIDE DEF gone
<1> QED  BY <1>2, <1>5, <1>7, <1>8, <1>9

(* The inbox e is b after the messages ms of s left it.                    *)
LeftAs(b, e, s, ms, by) ==
  /\ e \in InboxState /\ e.evicted = b.evicted
  /\ e.told \subseteq b.told \cup (ToSet(ms) \X {"delivered"})
  /\ e.held = [b.held EXCEPT ![s] = Only(@, Message \ ToSet(ms))]
  /\ \/ e = b /\ (b.held[s] = <<>> \/ ms = <<>>)
     \/ e.queue = b.queue \o Leaving(ms, s, by) /\ e.view = b.view \ ToSet(ms)
  /\ Thinner(b.held, e.held)

LEMMA DeliveredDoes ==
  ASSUME NEW b \in InboxState, NEW s \in Sid, NEW ms \in Seq(Message), NEW by \in {"offer", "none"},
         \A m \in ToSet(b.held[s]), n \in ToSet(ms) : issued[m] = issued[n] => m = n,
         NEW e, e = Delivered(b, s, ms, by)
  PROVE  LeftAs(b, e, s, ms, by)
<1> DEFINE h == [b.held EXCEPT ![s] = Only(@, Message \ ToSet(ms))]
<1>1. /\ b.held \in Helds /\ b.held[s] \in Seq(Message) /\ ToSet(b.held[s]) \subseteq Message
      /\ DOMAIN b.held = Sid /\ ToSet(ms) \subseteq Message /\ b.queue \in Seq(Owed)
  BY InboxHas, SetType DEF Helds
<1>2. Without(b.held[s], ToSet(ms)) = Only(b.held[s], Message \ ToSet(ms))
  BY <1>1, WithoutIsOnly
<1>3. h \in Helds /\ Thinner(b.held, h)
  <2>1. Only(b.held[s], Message \ ToSet(ms)) \in Seq(Message)
    BY <1>1, OnlyType
  <2>2. h \in Helds
    BY <1>1, <2>1 DEF Helds
  <2>3. \A t \in Sid : \E K : h[t] = Only(b.held[t], K)
    <3> SUFFICES ASSUME NEW t \in Sid PROVE \E K : h[t] = Only(b.held[t], K)
      OBVIOUS
    <3>1. b.held[t] \in Seq(Message) /\ ToSet(b.held[t]) \subseteq Message
      BY InboxHas
    <3>2. Only(b.held[t], Message) = b.held[t]
      BY <3>1, OnlyAll
    <3> QED  BY <1>1, <3>2
  <2> HIDE DEF h
  <2>4. Thinner(b.held, h)
    BY <1>1, <2>2, <2>3, ThinnerOnly
  <2> QED  BY <2>2, <2>4
<1>4. CASE b.held[s] = <<>> \/ ms = <<>>
  <2>1. e = b
    BY <1>4 DEF Delivered
  <2>2. Only(b.held[s], Message \ ToSet(ms)) = b.held[s]
    <3>1. CASE b.held[s] = <<>>
      BY <3>1, OnlyNothing
    <3>2. CASE ms = <<>>
      <4>1. ToSet(b.held[s]) \subseteq Message \ ToSet(ms)
        BY <1>1, <3>2, SetOfNothing
      <4> QED  BY <1>1, <4>1, OnlyAll
    <3> QED  BY <1>4, <3>1, <3>2
  <2>3. b.held = [b.held EXCEPT ![s] = Only(@, Message \ ToSet(ms))]
    BY <1>1, <2>2 DEF Helds
  <2> HIDE DEF h
  <2> QED  BY <1>3, <1>4, <2>1, <2>3 DEF h, LeftAs
<1>5. CASE ~(b.held[s] = <<>> \/ ms = <<>>)
  <2>1. e = [b EXCEPT
         !.held[s] = Without(@, ToSet(ms)),
         !.queue = @ \o Leaving(ms, s, by),
         !.view = @ \ ToSet(ms),
         !.told = @ \cup (ToSet(ms) \X {"delivered"})]
    BY <1>5 DEF Delivered, Leaving
  <2>2. /\ e.held = h /\ e.queue = b.queue \o Leaving(ms, s, by) /\ e.view = b.view \ ToSet(ms)
        /\ e.evicted = b.evicted /\ e.told = b.told \cup (ToSet(ms) \X {"delivered"})
        /\ e = [held |-> e.held, queue |-> e.queue, view |-> e.view, evicted |-> e.evicted, told |-> e.told]
    BY <1>2, <2>1 DEF InboxState
  <2>3. e.queue \in Seq(Owed)
    <3>1. Leaving(ms, s, by) \in Seq(Owed)
      BY LeavingType
    <3> QED  BY <1>1, <2>2, <3>1, ConcatProperties
  <2>4. e.view \subseteq Message /\ e.told \subseteq Message \X {"delivered", "expired", "dropped"}
    BY <1>1, <2>2, InboxHas
  <2>5. e.held \in Helds /\ e.evicted \subseteq Message
    BY <1>3, <2>2, InboxHas
  <2> HIDE DEF h
  <2>6. e \in InboxState
    BY <2>2, <2>3, <2>4, <2>5 DEF InboxState, Helds
  <2> QED  BY <1>3, <2>2, <2>6 DEF h, LeftAs
<1> QED  BY <1>4, <1>5

(* The inbox e is b after what a request o has, the message m of s, is     *)
(* held.                                                                   *)
HeldAs(b, e, s, m, o) ==
  /\ e \in InboxState /\ e.evicted = b.evicted
  /\ e.queue = Append(b.queue, [v |-> "add", sid |-> s, msg |-> m, by |-> o])
  /\ e.view = (b.view \cup {m}) \ GoneOf(b.held, {s})
  /\ e.told = b.told \cup (GoneOf(b.held, {s}) \X {"expired"})
  /\ \A t \in Sid : e.held[t] = IF t = s THEN Append(Only(b.held[s], Young), m) ELSE b.held[t]


LEMMA HoldDoes ==
  ASSUME NEW b \in InboxState, NEW s \in Sid, NEW m \in Message, NEW o \in Op,
         aged \in Int, MaxSends \in Nat, \A t \in Sid : TellsApart(b.held[t]),
         NEW e, e = Hold(b, s, m, o)
  PROVE  HeldAs(b, e, s, m, o)
<1> DEFINE c == [b EXCEPT !.view = @ \cup {m}]
           x == Expire(c, {s})
           a == [v |-> "add", sid |-> s, msg |-> m, by |-> o]
<1>1. c \in InboxState /\ c.held = b.held /\ c.queue = b.queue /\ c.evicted = b.evicted
      /\ c.view = b.view \cup {m} /\ c.told = b.told
  BY DEF InboxState
<1> HIDE DEF c
<1>2. /\ x \in InboxState /\ x.queue = c.queue /\ x.evicted = c.evicted
      /\ x.view = c.view \ GoneOf(c.held, {s})
      /\ x.told = c.told \cup (GoneOf(c.held, {s}) \X {"expired"})
      /\ \A t \in Sid : x.held[t] = Only(c.held[t], IF t \in {s} THEN Young ELSE Message)
  <2>1. {s} \in SUBSET Sid /\ \A t \in Sid : TellsApart(c.held[t])
    BY <1>1
  <2> QED  BY <1>1, <2>1, ExpireDoes
<1> HIDE DEF x
<1>3. a \in Owed
  BY DEF Owed
<1>4. e = [x EXCEPT !.held[s] = Append(@, m), !.queue = Append(@, a)]
  BY DEF Hold, x, c
<1> HIDE DEF a
<1>5. /\ x.held \in Helds /\ DOMAIN x.held = Sid /\ x.held[s] \in Seq(Message) /\ x.queue \in Seq(Owed)
      /\ x.view \subseteq Message /\ x.evicted \subseteq Message
      /\ x.told \subseteq Message \X {"delivered", "expired", "dropped"}
  BY <1>2, InboxHas DEF Helds
<1>6. /\ e.held = [x.held EXCEPT ![s] = Append(@, m)] /\ e.queue = Append(x.queue, a)
      /\ e.view = x.view /\ e.evicted = x.evicted /\ e.told = x.told
      /\ e = [held |-> e.held, queue |-> e.queue, view |-> e.view, evicted |-> e.evicted, told |-> e.told]
  BY <1>2, <1>4 DEF InboxState
<1>7. Append(x.held[s], m) \in Seq(Message) /\ Append(x.queue, a) \in Seq(Owed)
  BY <1>3, <1>5, AppendProperties
<1>8. e.held \in Helds
  BY <1>5, <1>6, <1>7 DEF Helds
<1>9. e \in InboxState
  BY <1>5, <1>6, <1>7, <1>8 DEF InboxState, Helds
<1>10. ASSUME NEW t \in Sid
       PROVE  e.held[t] = IF t = s THEN Append(Only(b.held[s], Young), m) ELSE b.held[t]
  <2>1. CASE t = s
    BY <1>1, <1>2, <1>5, <1>6, <2>1
  <2>2. CASE t # s
    <3>1. b.held[t] \in Seq(Message) /\ ToSet(b.held[t]) \subseteq Message
      BY InboxHas
    <3>2. Only(b.held[t], Message) = b.held[t]
      BY <3>1, OnlyAll
    <3> QED  BY <1>1, <1>2, <1>5, <1>6, <2>2, <3>2
  <2> QED  BY <2>1, <2>2
<1> QED  BY <1>1, <1>2, <1>6, <1>9, <1>10 DEF a, HeldAs

-----------------------------------------------------------------------------
(* What the invariant says of a state, in the forms the steps need.        *)
LEMMA CoreTypes ==
  ASSUME Core
  PROVE  /\ inbox \in InboxState /\ inbox.held \in Helds /\ inbox.queue \in Seq(Owed)
         /\ file \in Seq(InboxLine) /\ aged \in Int /\ counter \in Nat /\ crashes \in Nat
         /\ MaxSends \in Nat /\ MaxHeld \in Nat /\ IsFiniteSet(Op) /\ IsFiniteSet(Sid)
         /\ issued \in Seq(Nat) /\ Len(issued) \in Nat /\ Len(issued) <= MaxSends
         /\ \A m \in Message : m \in Nat /\ (m <= Len(issued) => issued[m] \in Nat)
         /\ \A s \in Sid : inbox.held[s] \in Seq(Message) /\ ToSet(inbox.held[s]) \subseteq Message
         /\ offer \in [Sid -> Offer] /\ op \in [Op -> Request \cup {Free}]
         /\ got \in [Message -> 0..2] /\ ever \subseteq Message /\ strayed \subseteq Message
         /\ said \in [Message -> {"nothing", "delivered", "held", "failed"}]
         /\ up \in BOOLEAN /\ torn \in BOOLEAN /\ sub \subseteq Conn /\ standing \in [Sid -> Standing]
         /\ aged \in 0..MaxSends /\ crashes \in 0..MaxCrashes /\ MaxCrashes \in Nat
         /\ file \in Seq(Entry) /\ inbox.queue \in Seq(Entry)
<1>1. TypeOK /\ Given
  BY DEF Core
<1>2. inbox \in InboxState
  BY <1>1 DEF TypeOK
<1>3. file \in Seq(Entry) /\ inbox.queue \in Seq(Entry)
  BY <1>1, <1>2, InboxHas, SeqMonotonic DEF Entry, TypeOK
<1>4. issued \in Seq(Nat) /\ Len(issued) \in Nat /\ Len(issued) <= MaxSends
  BY <1>1, LenProperties DEF TypeOK
<1>5. \A m \in Message : m \in Nat /\ (m <= Len(issued) => issued[m] \in Nat)
  <2> SUFFICES ASSUME NEW m \in Message PROVE m \in Nat /\ (m <= Len(issued) => issued[m] \in Nat)
    OBVIOUS
  <2>1. m \in Nat /\ m >= 1
    BY <1>1 DEF Message, Given
  <2>2. m <= Len(issued) => m \in 1..Len(issued)
    BY <1>4, <2>1
  <2> QED  BY <1>4, <2>1, <2>2, ElementOfSeq
<1>6. /\ aged \in Int /\ crashes \in Nat /\ MaxSends \in Nat /\ MaxHeld \in Nat /\ MaxCrashes \in Nat
      /\ aged \in 0..MaxSends /\ crashes \in 0..MaxCrashes
  BY <1>1 DEF TypeOK, Given
<1> QED  BY <1>1, <1>2, <1>3, <1>4, <1>5, <1>6, InboxHas DEF TypeOK, Given

LEMMA CoreOps ==
  ASSUME Core, NEW o \in Op
  PROVE  /\ op[o] \in Request \cup {Free}
         /\ op[o] = Free <=> op[o].pc = "free"
         /\ op[o] # Free => /\ op[o].sid \in Sid /\ op[o].msg \in Message
                            /\ op[o] \in Request
                            /\ op[o].pc \in {"direct", "adding", "dropping", "offering"}
         /\ o # NoOp /\ o # "offer" /\ o # "none"
<1>1. op \in [Op -> Request \cup {Free}] /\ {NoOp, "offer", "none"} \cap Op = {}
  BY DEF Core, TypeOK, Given
<1>2. op[o] \in Request \cup {Free}
  BY <1>1
<1>3. o # NoOp /\ o # "offer" /\ o # "none"
  BY <1>1
<1>4. Free.pc = "free" /\ \A r \in Request : /\ r.pc \in {"direct", "adding", "dropping", "offering"}
                                             /\ r.sid \in Sid /\ r.msg \in Message
  BY DEF Free, Request
<1>5. \A r \in Request : r # Free /\ r.pc # "free"
  BY <1>4
<1> QED  BY <1>2, <1>3, <1>4, <1>5

LEMMA CoreOffers ==
  ASSUME Core, NEW s \in Sid
  PROVE  /\ offer[s] \in Offer /\ offer[s].rest \in Seq(Message) /\ offer[s].writing \in BOOLEAN
         /\ offer[s].by \in Op \cup {NoOp}
         /\ ToSet(offer[s].rest) \subseteq Message
         /\ Left(s) \in Seq(Message) /\ ToSet(Left(s)) \subseteq ToSet(offer[s].rest)
         /\ Claimed(s) = ToSet(Left(s))
<1>1. offer[s] \in Offer
  BY CoreTypes
<1>2. offer[s].rest \in Seq(Message) /\ offer[s].writing \in BOOLEAN /\ offer[s].by \in Op \cup {NoOp}
  BY <1>1 DEF Offer
<1>3. offer[s].rest # <<>> => /\ Tail(offer[s].rest) \in Seq(Message)
                              /\ ToSet(Tail(offer[s].rest)) \subseteq ToSet(offer[s].rest)
  BY <1>2, TailHas
<1>4. ToSet(offer[s].rest) \subseteq Message
  BY <1>2, SetType
<1>5. Left(s) \in Seq(Message) /\ ToSet(Left(s)) \subseteq ToSet(offer[s].rest)
  BY <1>2, <1>3 DEF Left
<1>6. Claimed(s) = ToSet(Left(s))
  <2>1. CASE offer[s].rest = <<>>
    <3>1. Claimed(s) = {} /\ Left(s) = <<>>
      BY <2>1 DEF Claimed, Offering, Left
    <3> QED  BY <3>1, SetOfNothing
  <2>2. CASE offer[s].rest # <<>>
    BY <1>2, <2>2 DEF Claimed, Offering, Left
  <2> QED  BY <2>1, <2>2
<1> QED  BY <1>1, <1>2, <1>4, <1>5, <1>6

LEMMA AboutTypes ==
  ASSUME Core
  PROVE  /\ \A p \in About(file) \cup About(inbox.queue) :
              p = <<p[1], p[2]>> /\ p[1] \in Sid /\ p[2] \in Message
         /\ \A x \in ToSet(inbox.queue) : x \in Owed /\ <<x.sid, x.msg>> \in About(inbox.queue)
<1>1. file \in Seq(Entry) /\ inbox.queue \in Seq(Entry) /\ inbox.queue \in Seq(Owed)
  BY CoreTypes
<1>2. \A lines \in Seq(Entry) : \A p \in About(lines) :
        p = <<p[1], p[2]>> /\ p[1] \in Sid /\ p[2] \in Message
  <2> SUFFICES ASSUME NEW lines \in Seq(Entry), NEW p \in About(lines)
               PROVE  p = <<p[1], p[2]>> /\ p[1] \in Sid /\ p[2] \in Message
    OBVIOUS
  <2>1. PICK i \in 1..Len(lines) : p = <<lines[i].sid, lines[i].msg>> /\ lines[i] \in Entry
    BY EntriesAre DEF About
  <2> QED  BY <2>1, EntryHas
<1>3. \A x \in ToSet(inbox.queue) : x \in Owed
  BY <1>1, SetType
<1>4. \A x \in ToSet(inbox.queue) : <<x.sid, x.msg>> \in About(inbox.queue)
  BY DEF ToSet, About
<1> QED  BY <1>1, <1>2, <1>3, <1>4

(* The mids tell what is known apart.                                      *)
LEMMA CoreApart ==
  ASSUME Core
  PROVE  /\ \A s \in Sid : TellsApart(inbox.held[s])
         /\ \A s \in Sid : \A m \in ToSet(inbox.held[s]), n \in ToSet(offer[s].rest) :
              issued[m] = issued[n] => m = n
         /\ \A s, t \in Sid : \A m \in ToSet(inbox.held[s]) : m \in ToSet(inbox.held[t]) => s = t
         /\ Apart(About(file))
         /\ Apart(About(file \o inbox.queue))
<1>1. \A s, t \in Sid, m, n \in Message :
        (Knows(s, m) /\ Knows(t, n) /\ issued[m] = issued[n]) => (s = t /\ m = n)
  BY DEF Core, Homes, MidsApart
<1>2. \A s \in Sid : \A m \in ToSet(inbox.held[s]) : m \in Message /\ Knows(s, m)
  BY CoreTypes DEF Knows, Speaks
<1>3. \A s \in Sid : \A m \in ToSet(offer[s].rest) : m \in Message /\ Knows(s, m)
  BY CoreOffers DEF Knows, Speaks
<1>4. \A p \in About(file) \cup About(inbox.queue) :
        p = <<p[1], p[2]>> /\ p[1] \in Sid /\ p[2] \in Message /\ Knows(p[1], p[2])
  BY AboutTypes DEF Knows, Speaks
<1>5. Apart(About(file) \cup About(inbox.queue))
  <2> SUFFICES ASSUME NEW p \in About(file) \cup About(inbox.queue),
                      NEW q \in About(file) \cup About(inbox.queue), issued[p[2]] = issued[q[2]]
               PROVE  p = q
    BY DEF Apart
  <2>1. p[1] = q[1] /\ p[2] = q[2]
    BY <1>1, <1>4
  <2> QED  BY <1>4, <2>1
<1>6. About(file \o inbox.queue) = About(file) \cup About(inbox.queue)
  BY CoreTypes, AboutConcat
<1>7. Apart(About(file)) /\ Apart(About(file \o inbox.queue))
  BY <1>5, <1>6 DEF Apart
<1> QED  BY <1>1, <1>2, <1>3, <1>7 DEF TellsApart

-----------------------------------------------------------------------------
(* How the parts of the invariant survive a step, whatever step it is.     *)

(* A request stays, ends, or goes on with its message past route (a).      *)
OpsMove ==
  \A o \in Op : \/ op'[o] = op[o]
                \/ op'[o] = Free
                \/ /\ op[o] # Free /\ op'[o] # Free /\ op'[o].pc # "direct"
                   /\ op'[o].sid = op[o].sid /\ op'[o].msg = op[o].msg

(* Nothing speaks of a message but what did, or took it from route (a).    *)
SpeaksLess ==
  \A s \in Sid, m \in Message :
    Speaks(s, m)' => \/ Speaks(s, m)
                     \/ \E o \in Op : /\ op[o].pc = "direct" /\ op'[o].pc # "direct"
                                      /\ op[o].sid = s /\ op[o].msg = m

(* The messages of G, none of them handed over before, are handed over.    *)
Handing(G) ==
  /\ strayed \subseteq strayed'
  /\ \A m \in Message : got'[m] = got[m] \/ got'[m] = 0 \/ m \in strayed' \/ m \in G
  /\ \A m \in Message : got'[m] # got[m] => (got'[m] = 0 \/ m <= Len(issued))
  /\ \A m \in G : m \in strayed' \/ got'[m] <= 1

(* Nobody will hand over a message of G again.                             *)
Through(G) ==
  /\ \A o \in Op : op'[o].pc = "direct" => op'[o].msg \notin G
  /\ \A s \in Sid : \A m \in G : m \notin ToSet(inbox'.held[s]) /\ m \notin ToSet(Left(s)')

LEMMA HomesKept ==
  ASSUME Core, OpsMove, SpeaksLess, issued' = issued, up' => (up /\ counter' = counter)
  PROVE  Homes'
<1>1. ASSUME NEW s \in Sid, NEW m \in Message, Knows(s, m)' PROVE Knows(s, m)
  <2>1. CASE Speaks(s, m)'
    <3>1. CASE Speaks(s, m)
      BY <3>1 DEF Knows
    <3>2. CASE \E o \in Op : op[o].pc = "direct" /\ op[o].sid = s /\ op[o].msg = m
      BY <3>2 DEF Knows, Free
    <3> QED  BY <2>1, <3>1, <3>2 DEF SpeaksLess
  <2>2. CASE \E o \in Op : op'[o] # Free /\ op'[o].sid = s /\ op'[o].msg = m
    <3>1. PICK o \in Op : op'[o] # Free /\ op'[o].sid = s /\ op'[o].msg = m
      BY <2>2
    <3>2. op[o] # Free /\ op[o].sid = s /\ op[o].msg = m
      BY <3>1 DEF OpsMove
    <3> QED  BY <3>2 DEF Knows
  <2> QED  BY <1>1, <2>1, <2>2 DEF Knows
<1>2. Homes
  BY DEF Core
<1>3. MidsApart'
  <2> SUFFICES ASSUME NEW s \in Sid, NEW t \in Sid, NEW m \in Message, NEW n \in Message,
                      Knows(s, m)', Knows(t, n)', issued[m] = issued[n]
               PROVE  s = t /\ m = n
    BY DEF MidsApart
  <2>1. Knows(s, m) /\ Knows(t, n)
    BY <1>1
  <2> QED  BY <1>2, <2>1 DEF Homes, MidsApart
<1>4. MidsCounted'
  <2> SUFFICES ASSUME NEW s \in Sid, NEW m \in Message, Knows(s, m)'
               PROVE  m <= Len(issued') /\ (up' => issued'[m] <= counter')
    BY DEF MidsCounted
  <2>1. Knows(s, m)
    BY <1>1
  <2> QED  BY <1>2, <2>1 DEF Homes, MidsCounted
<1> QED  BY <1>3, <1>4 DEF Homes

LEMMA SendsKept ==
  ASSUME Core, OpsMove, SpeaksLess, NEW G, Handing(G), Through(G)
  PROVE  Sends'
<1>1. Sends
  BY DEF Core
<1>2. \A o, p \in Op : (op'[o] # Free /\ op'[p] # Free /\ op'[o].msg = op'[p].msg) => o = p
  <2> SUFFICES ASSUME NEW o \in Op, NEW p \in Op, op'[o] # Free, op'[p] # Free, op'[o].msg = op'[p].msg
               PROVE  o = p
    OBVIOUS
  <2>1. op[o] # Free /\ op[p] # Free /\ op[o].msg = op[p].msg
    BY DEF OpsMove
  <2> QED  BY <1>1, <2>1 DEF Sends
<1>3. ASSUME NEW o \in Op, op'[o].pc = "direct", NEW m, op'[o].msg = m
      PROVE  /\ got'[m] = 0 \/ m \in strayed'
             /\ \A s \in Sid : ~Speaks(s, m)'
  <2>1. op'[o] = op[o] /\ op[o].pc = "direct" /\ op[o] # Free /\ op[o].msg = m
    BY <1>3 DEF OpsMove, Free
  <2>2. m \in Message
    BY <2>1, CoreOps
  <2>3. (got[m] = 0 \/ m \in strayed) /\ \A s \in Sid : ~Speaks(s, m)
    BY <1>1, <2>1 DEF Sends
  <2>4. m \notin G
    BY <1>3, <2>1 DEF Through
  <2>5. got'[m] = 0 \/ m \in strayed'
    BY <2>2, <2>3, <2>4 DEF Handing
  <2>6. ASSUME NEW s \in Sid, Speaks(s, m)' PROVE FALSE
    <3>1. PICK p \in Op : op[p].pc = "direct" /\ op'[p].pc # "direct" /\ op[p].msg = m
      BY <2>2, <2>3, <2>6 DEF SpeaksLess
    <3>2. op[p] # Free
      BY <3>1 DEF Free
    <3>3. p = o
      BY <1>1, <2>1, <3>1, <3>2 DEF Sends
    <3> QED  BY <1>3, <3>1, <3>3
  <2> QED  BY <2>5, <2>6
<1>4. ASSUME NEW o \in Op, op'[o].pc = "direct"
      PROVE  /\ got'[op'[o].msg] = 0 \/ op'[o].msg \in strayed'
             /\ \A s \in Sid : /\ <<s, op'[o].msg>> \notin About(file')
                               /\ <<s, op'[o].msg>> \notin About(inbox'.queue)
                               /\ op'[o].msg \notin ToSet(inbox'.held[s])
                               /\ op'[o].msg \notin ToSet(offer'[s].rest)
  BY <1>3, <1>4 DEF Speaks
<1> QED  BY <1>2, <1>4 DEF Sends, Speaks

LEMMA UnhandedKept ==
  ASSUME Core, NEW G, Handing(G), Through(G), issued' = issued,
         \A s \in Sid : \A m \in ToSet(inbox'.held[s]) \cup ToSet(Left(s)') :
           \/ m \in ToSet(inbox.held[s]) \cup ToSet(Left(s))
           \/ \E o \in Op : op[o].pc = "direct" /\ op[o].msg = m
  PROVE  Unhanded'
<1>1. Unhanded /\ Sends
  BY DEF Core
<1>2. ASSUME NEW s \in Sid, NEW m \in ToSet(inbox'.held[s]) \cup ToSet(Left(s)')
      PROVE  got'[m] = 0 \/ m \in strayed'
  <2>1. m \in Message /\ (got[m] = 0 \/ m \in strayed)
    <3>1. CASE m \in ToSet(inbox.held[s]) \cup ToSet(Left(s))
      BY <1>1, <3>1, CoreTypes, CoreOffers DEF Unhanded
    <3>2. CASE \E o \in Op : op[o].pc = "direct" /\ op[o].msg = m
      <4>1. PICK o \in Op : op[o].pc = "direct" /\ op[o].msg = m
        BY <3>2
      <4>2. op[o] # Free
        BY <4>1 DEF Free
      <4> QED  BY <1>1, <4>1, <4>2, CoreOps DEF Sends
    <3> QED  BY <3>1, <3>2
  <2>2. m \notin G
    BY DEF Through
  <2> QED  BY <2>1, <2>2 DEF Handing
<1>3. ASSUME NEW m \in Message, m > Len(issued) PROVE got'[m] = 0
  <2>1. got[m] = 0 /\ ~(m <= Len(issued))
    BY <1>1, <1>3, CoreTypes DEF Unhanded
  <2> QED  BY <2>1 DEF Handing
<1> QED  BY <1>2, <1>3 DEF Unhanded

LEMMA AtMostOnceKept == ASSUME Core, NEW G, Handing(G) PROVE AtMostOnce'
<1>1. AtMostOnce
  BY DEF Core
<1> SUFFICES ASSUME NEW m \in Message, m \notin strayed' PROVE got'[m] <= 1
  BY DEF AtMostOnce
<1>2. m \notin strayed
  BY DEF Handing
<1>3. got[m] <= 1
  BY <1>1, <1>2 DEF AtMostOnce
<1> QED  BY <1>3 DEF Handing

LEMMA DurableKept ==
  ASSUME Core, \A m \in Message : Lasting(m) => Lasting(m)',
         \A m \in Message : said'[m] = "held" =>
            \/ said[m] = "held" \/ Lasting(m)'
            \/ \E o \in Op : op[o].pc = "dropping" /\ op[o].msg = m,
         \A o \in Op : \A m : (op'[o].pc = "dropping" /\ op'[o].msg = m) =>
            (m \in Message /\ (op'[o] = op[o] \/ Lasting(m)'))
  PROVE  Durable'
<1>1. Durable
  BY DEF Core
<1>2. \A m \in Message : (said[m] = "held" \/ \E o \in Op : op[o].pc = "dropping" /\ op[o].msg = m)
                         => Lasting(m)
  <2> SUFFICES ASSUME NEW m \in Message,
                      said[m] = "held" \/ \E o \in Op : op[o].pc = "dropping" /\ op[o].msg = m
               PROVE  Lasting(m)
    OBVIOUS
  <2>1. CASE said[m] = "held"
    BY <1>1, <2>1 DEF Durable
  <2>2. CASE \E o \in Op : op[o].pc = "dropping" /\ op[o].msg = m
    BY <1>1, <2>2 DEF Durable, Lasting
  <2> QED  BY <2>1, <2>2
<1>3. ASSUME NEW m \in Message, said'[m] = "held" PROVE Lasting(m)'
  BY <1>2, <1>3
<1>4. ASSUME NEW o \in Op, op'[o].pc = "dropping", NEW m, op'[o].msg = m PROVE Lasting(m)'
  <2>1. m \in Message /\ (op'[o] = op[o] \/ Lasting(m)')
    BY <1>4
  <2>2. CASE op'[o] = op[o]
    <3>1. Lasting(m)
      BY <1>2, <1>4, <2>1, <2>2
    <3> QED  BY <2>1, <3>1
  <2> QED  BY <2>1, <2>2
<1> QED  BY <1>3, <1>4 DEF Durable, Lasting

(* The order of an offer, session by session.                              *)
LEMMA InOrderKept ==
  ASSUME Core, NEW s \in Sid,
         \/ ToSet(Left(s)') = {}
         \/ Left(s)' = inbox'.held[s]
         \/ /\ \A a, b \in Message : Before(inbox'.held[s], a, b) => (Before(inbox.held[s], a, b)
                                                                     \/ b \notin ToSet(Left(s)))
            /\ \/ Left(s)' = Left(s)
               \/ /\ Left(s) # <<>> /\ Left(s)' = Tail(Left(s))
                  /\ \A a, b \in Message : Before(inbox'.held[s], a, b) => a # Head(Left(s)),
         NEW a \in Message, NEW b \in Message, Before(inbox'.held[s], a, b), b \in ToSet(Left(s)')
  PROVE  Before(Left(s)', a, b)
<1>1. Left(s) \in Seq(Message)
  BY CoreOffers
<1>2. CASE Left(s)' = inbox'.held[s]
  BY <1>2
<1>3. CASE /\ \A x, y \in Message : Before(inbox'.held[s], x, y) => (Before(inbox.held[s], x, y)
                                                                     \/ y \notin ToSet(Left(s)))
           /\ \/ Left(s)' = Left(s)
              \/ /\ Left(s) # <<>> /\ Left(s)' = Tail(Left(s))
                 /\ \A x, y \in Message : Before(inbox'.held[s], x, y) => x # Head(Left(s))
  <2>1. ToSet(Left(s)') \subseteq ToSet(Left(s))
    <3>1. CASE Left(s)' = Left(s)
      BY <3>1
    <3>2. CASE Left(s) # <<>> /\ Left(s)' = Tail(Left(s))
      BY <1>1, <3>2, TailHas
    <3> QED  BY <1>3, <3>1, <3>2
  <2>2. Before(inbox.held[s], a, b)
    BY <1>3, <2>1
  <2>3. Before(Left(s), a, b)
    BY <2>1, <2>2 DEF Core, InOrder
  <2>4. CASE Left(s)' = Left(s)
    BY <2>3, <2>4
  <2>5. CASE Left(s) # <<>> /\ Left(s)' = Tail(Left(s)) /\ a # Head(Left(s))
    <3> DEFINE q == Left(s)
    <3>1. q \in Seq(Message) /\ q # <<>> /\ Before(q, a, b) /\ a # Head(q)
      BY <1>1, <2>3, <2>5
    <3> HIDE DEF q
    <3>2. PICK i, j \in 1..Len(q) : i < j /\ q[i] = a /\ q[j] = b
      BY <3>1 DEF Before
    <3>3. /\ Len(q) \in Nat /\ Len(Tail(q)) = Len(q) - 1 /\ Head(q) = q[1]
          /\ \A k \in 1..Len(Tail(q)) : Tail(q)[k] = q[k + 1]
      BY <3>1, HeadTailProperties, LenProperties
    <3>4. i # 1
      BY <3>1, <3>2, <3>3
    <3>5. i - 1 \in 1..Len(Tail(q)) /\ j - 1 \in 1..Len(Tail(q)) /\ i - 1 < j - 1
          /\ (i - 1) + 1 = i /\ (j - 1) + 1 = j
      BY <3>2, <3>3, <3>4
    <3>6. Tail(q)[i - 1] = a /\ Tail(q)[j - 1] = b
      BY <3>2, <3>3, <3>5
    <3>7. Before(Tail(q), a, b)
      BY <3>5, <3>6 DEF Before
    <3> QED  BY <2>5, <3>7 DEF q
  <2> QED  BY <1>3, <2>4, <2>5
<1> QED  BY <1>2, <1>3

(* What a line says stays true.                                            *)
LEMMA OwedStill ==
  ASSUME Core, NEW x \in Owed, OwedTrue(x),
         x.by \in Op => op'[x.by] = op[x.by],
         x.by = "offer" => (offer'[x.sid].rest # <<>> /\ offer'[x.sid].writing),
         x.v = "add" => <<x.sid, x.msg>> \notin About(file'),
         inbox.evicted \subseteq inbox'.evicted, ever \subseteq ever', strayed \subseteq strayed',
         \A s \in Sid : x.v = "dropped" /\ x.msg \in ToSet(inbox'.held[s]) => x.msg \in ToSet(inbox.held[s])
  PROVE  OwedTrue(x)'
<1>1. x.v = "add" => AddOwed(x)'
  BY DEF OwedTrue, AddOwed
<1>2. x.v = "dropped" => DroppedOwed(x)'
  BY DEF OwedTrue, DroppedOwed
<1>3. x.v = "delivered" => DeliveredOwed(x)'
  BY DEF OwedTrue, DeliveredOwed
<1> QED  BY <1>1, <1>2, <1>3 DEF OwedTrue

(* A request has the message from route (a), for session s.                *)
Takes(s, m) ==
  \E o \in Op : op[o].pc = "direct" /\ op'[o].pc # "direct" /\ op[o].sid = s /\ op[o].msg = m

HeldMoves(s) ==
  /\ \A m \in ToSet(inbox'.held[s]) : m \in ToSet(inbox.held[s]) \/ Takes(s, m)
  /\ \A a, b : Before(inbox'.held[s], a, b) =>
                 (Before(inbox.held[s], a, b) \/ (a \in ToSet(inbox.held[s]) /\ Takes(s, b)))

OfferMoves(s) ==
  /\ ToSet(offer'[s].rest) \subseteq ToSet(offer[s].rest) \cup ToSet(inbox'.held[s])
  /\ NoneTwice(offer'[s].rest) \/ offer'[s].rest = inbox'.held[s]
  /\ \/ Left(s)' = Left(s)
     \/ Left(s)' = <<>>
     \/ Left(s)' = inbox'.held[s]
     \/ /\ Left(s) # <<>> /\ Left(s)' = Tail(Left(s))
        /\ Head(Left(s)) \notin ToSet(inbox'.held[s])

LinesMove ==
  \A s \in Sid, m \in Message :
    (<<s, m>> \in About(file') \/ <<s, m>> \in About(inbox'.queue)) => (Speaks(s, m) \/ Takes(s, m))

LEMMA TakenIsUnknown ==
  ASSUME Core, NEW s \in Sid, NEW m, Takes(s, m)
  PROVE  m \in Message /\ \A t \in Sid : ~Speaks(t, m)
<1>1. PICK o \in Op : op[o].pc = "direct" /\ op[o].msg = m
  BY DEF Takes
<1>2. op[o] # Free
  BY <1>1 DEF Free
<1>3. m \in Message
  BY <1>1, <1>2, CoreOps
<1>4. Sends
  BY DEF Core
<1>5. \A t \in Sid : ~Speaks(t, m)
  BY <1>1, <1>4 DEF Sends
<1> QED  BY <1>3, <1>5

LEMMA StepKeeps ==
  ASSUME Core, inbox'.held \in Helds, offer' \in [Sid -> Offer],
         \A s \in Sid : HeldMoves(s) /\ OfferMoves(s), OpsMove, LinesMove,
         NEW G, Handing(G), Through(G),
         issued' = issued, up' => (up /\ counter' = counter),
         \A s \in Sid : NoneTwice(Kept(file')[s])
  PROVE  Homes' /\ Sends' /\ Singles' /\ Unhanded' /\ InOrder' /\ AtMostOnce'
<1>1. ASSUME NEW s \in Sid
      PROVE  /\ inbox'.held[s] \in Seq(Message) /\ ToSet(inbox'.held[s]) \subseteq Message
             /\ offer'[s].rest \in Seq(Message)
  <2>1. inbox'.held[s] \in Seq(Message)
    BY DEF Helds
  <2>2. offer'[s].rest \in Seq(Message)
    BY DEF Offer
  <2> QED  BY <2>1, <2>2, SetType
<1>2. SpeaksLess
  <2> SUFFICES ASSUME NEW s \in Sid, NEW m \in Message, Speaks(s, m)' PROVE Speaks(s, m) \/ Takes(s, m)
    BY DEF SpeaksLess, Takes
  <2>1. CASE <<s, m>> \in About(file') \/ <<s, m>> \in About(inbox'.queue)
    BY <2>1 DEF LinesMove
  <2>2. CASE m \in ToSet(inbox'.held[s])
    BY <2>2 DEF HeldMoves, Speaks
  <2>3. CASE m \in ToSet(offer'[s].rest)
    <3>1. m \in ToSet(offer[s].rest) \/ m \in ToSet(inbox'.held[s])
      BY <2>3 DEF OfferMoves
    <3> QED  BY <2>2, <3>1 DEF Speaks
  <2> QED  BY <2>1, <2>2, <2>3 DEF Speaks
<1>3. Homes'
  BY <1>2, HomesKept
<1>4. Sends'
  BY <1>2, SendsKept
<1>5. Singles'
  <2> SUFFICES ASSUME NEW s \in Sid
               PROVE  NoneTwice(inbox'.held[s]) /\ NoneTwice(offer'[s].rest)
    BY DEF Singles
  <2>1. NoneTwice(inbox'.held[s])
    <3> SUFFICES ASSUME NEW a, Before(inbox'.held[s], a, a) PROVE FALSE
      BY DEF NoneTwice
    <3>1. ~Before(inbox.held[s], a, a)
      BY DEF Core, Singles, NoneTwice
    <3>2. a \in ToSet(inbox.held[s]) /\ Takes(s, a)
      BY <3>1 DEF HeldMoves
    <3> QED  BY <3>2, TakenIsUnknown DEF Speaks
  <2> QED  BY <2>1 DEF OfferMoves
<1>6. \A s \in Sid : ToSet(Left(s)') \subseteq ToSet(Left(s)) \cup ToSet(inbox'.held[s])
  <2> SUFFICES ASSUME NEW s \in Sid PROVE ToSet(Left(s)') \subseteq ToSet(Left(s)) \cup ToSet(inbox'.held[s])
    OBVIOUS
  <2>1. CASE Left(s) # <<>> /\ Left(s)' = Tail(Left(s))
    <3>1. Left(s) \in Seq(Message)
      BY CoreOffers
    <3> QED  BY <2>1, <3>1, TailHas
  <2> QED  BY <2>1, SetOfNothing DEF OfferMoves
<1>7. Unhanded'
  <2>1. \A s \in Sid : \A m \in ToSet(inbox'.held[s]) \cup ToSet(Left(s)') :
           \/ m \in ToSet(inbox.held[s]) \cup ToSet(Left(s))
           \/ \E o \in Op : op[o].pc = "direct" /\ op[o].msg = m
    BY <1>6 DEF HeldMoves, Takes
  <2> QED  BY <2>1, UnhandedKept
<1>8. InOrder'
  <2> SUFFICES ASSUME NEW s \in Sid, NEW a \in Message, NEW b \in Message,
                      Before(inbox'.held[s], a, b), b \in ToSet(Left(s)')
               PROVE  Before(Left(s)', a, b)
    BY DEF InOrder
  <2>1. \A x, y \in Message : Before(inbox'.held[s], x, y) => (Before(inbox.held[s], x, y)
                                                               \/ y \notin ToSet(Left(s)))
    <3> SUFFICES ASSUME NEW x \in Message, NEW y \in Message, Takes(s, y) PROVE y \notin ToSet(Left(s))
      BY DEF HeldMoves
    <3> QED  BY TakenIsUnknown, CoreOffers DEF Speaks
  <2>2. Head(Left(s)) \notin ToSet(inbox'.held[s]) =>
          \A x, y \in Message : Before(inbox'.held[s], x, y) => x # Head(Left(s))
    BY <1>1, BeforeIsIn
  <2>3. \/ ToSet(Left(s)') = {}
        \/ Left(s)' = inbox'.held[s]
        \/ Left(s)' = Left(s)
        \/ /\ Left(s) # <<>> /\ Left(s)' = Tail(Left(s))
           /\ \A x, y \in Message : Before(inbox'.held[s], x, y) => x # Head(Left(s))
    BY <2>2, SetOfNothing DEF OfferMoves
  <2> QED  BY <2>1, <2>3, InOrderKept
<1>9. AtMostOnce'
  BY AtMostOnceKept
<1> QED  BY <1>3, <1>4, <1>5, <1>7, <1>8, <1>9

LEMMA QueueOwners ==
  ASSUME Core, NEW x \in ToSet(inbox.queue)
  PROVE  /\ x \in Owed /\ OwedTrue(x) /\ x.sid \in Sid /\ x.msg \in Message
         /\ Speaks(x.sid, x.msg)
         /\ x.by \in Op => /\ op[x.by].pc \in {"adding", "dropping"} /\ op[x.by].sid = x.sid
                           /\ x.v \in {"add", "dropped"} /\ op[x.by] # Free
         /\ x.v \in {"add", "dropped"} => x.by \in Op
         /\ x.v = "delivered" => x.by \in {"offer", "none"}
         /\ x.by = "offer" => (offer[x.sid].rest # <<>> /\ offer[x.sid].writing)
         /\ x.v \in {"add", "dropped", "delivered"}
<1>1. x \in Owed /\ <<x.sid, x.msg>> \in About(inbox.queue)
  BY AboutTypes
<1>2. x.sid \in Sid /\ x.msg \in Message /\ x.v \in {"add", "dropped", "delivered"}
      /\ x.by \in Op \cup {"offer", "none"}
  BY <1>1 DEF Owed
<1>3. OwedTrue(x)
  BY DEF Core, Owing
<1>4. x.v = "add" => /\ x.by \in Op /\ op[x.by].pc = "adding" /\ op[x.by].sid = x.sid /\ op[x.by] # Free
  BY <1>3 DEF OwedTrue, AddOwed, Free
<1>5. x.v = "dropped" => /\ x.by \in Op /\ op[x.by].pc = "dropping" /\ op[x.by].sid = x.sid /\ op[x.by] # Free
  BY <1>3 DEF OwedTrue, DroppedOwed, Free
<1>6. x.v = "delivered" => /\ x.by \in {"offer", "none"}
                           /\ x.by = "offer" => (offer[x.sid].rest # <<>> /\ offer[x.sid].writing)
  BY <1>3 DEF OwedTrue, DeliveredOwed
<1>7. \A o \in Op : o # "offer" /\ o # "none"
  BY CoreOps
<1>8. Speaks(x.sid, x.msg)
  BY <1>1 DEF Speaks
<1> QED  BY <1>1, <1>2, <1>3, <1>4, <1>5, <1>6, <1>7, <1>8

LEMMA OwedKept ==
  ASSUME Core, \A s \in Sid : HeldMoves(s), NEW x \in ToSet(inbox.queue),
         x.by \in Op => op'[x.by] = op[x.by],
         x.by = "offer" => (offer'[x.sid].rest # <<>> /\ offer'[x.sid].writing),
         x.v = "add" => <<x.sid, x.msg>> \notin About(file') \/ file' = file,
         inbox.evicted \subseteq inbox'.evicted, ever \subseteq ever', strayed \subseteq strayed'
  PROVE  OwedTrue(x)'
<1>1. x \in Owed /\ OwedTrue(x) /\ x.sid \in Sid /\ x.msg \in Message /\ Speaks(x.sid, x.msg)
  BY QueueOwners
<1>2. x.v = "add" => <<x.sid, x.msg>> \notin About(file')
  BY <1>1 DEF OwedTrue, AddOwed
<1>3. \A s \in Sid : x.msg \in ToSet(inbox'.held[s]) => x.msg \in ToSet(inbox.held[s])
  <2> SUFFICES ASSUME NEW s \in Sid, x.msg \in ToSet(inbox'.held[s]), x.msg \notin ToSet(inbox.held[s])
               PROVE  FALSE
    OBVIOUS
  <2>1. Takes(s, x.msg)
    BY DEF HeldMoves
  <2> QED  BY <1>1, <2>1, TakenIsUnknown
<1> QED  BY <1>1, <1>2, <1>3, OwedStill

-----------------------------------------------------------------------------
(* What answering, handing over and offering do.                           *)
Answers == {"delivered", "held", "failed"}

Saids == [Message -> {"nothing", "delivered", "held", "failed"}]

LEMMA AnswerDoes ==
  ASSUME Core, NEW o \in Op, op[o] # Free, NEW a \in Answers, Answer(o, a)
  PROVE  /\ op' \in [Op -> Request \cup {Free}] /\ said' \in Saids
         /\ \A p \in Op : op'[p] = IF p = o THEN Free ELSE op[p]
         /\ \A m \in Message : said'[m] = IF m = op[o].msg THEN a ELSE said[m]
<1>1. op \in [Op -> Request \cup {Free}] /\ said \in Saids /\ op[o].msg \in Message
  BY CoreTypes, CoreOps DEF Saids
<1> QED  BY <1>1 DEF Answer, Saids, Answers

(* An offer moves on or ends, and nobody is told that a message is held.   *)
OfferOnly(s) ==
  /\ offer' \in [Sid -> Offer] /\ op' \in [Op -> Request \cup {Free}] /\ said' \in Saids
  /\ \A t \in Sid \ {s} : offer'[t] = offer[t]
  /\ \A o \in Op : op'[o] = op[o] \/ (op'[o] = Free /\ op[o].pc = "offering")
  /\ \A t \in Sid : offer'[t].by # NoOp => /\ offer'[t].by = offer[t].by
                                           /\ op'[offer[t].by] = op[offer[t].by]
  /\ \A m \in Message : said'[m] = "held" => said[m] = "held"

LEMMA NoOfferIs == NoOffer \in Offer /\ NoOffer.rest = <<>> /\ NoOffer.by = NoOp /\ NoOffer.writing = FALSE
BY EmptySeq DEF NoOffer, Offer

LEMMA EndOfferDoes ==
  ASSUME Core, NEW s \in Sid, NEW a \in {"delivered", "failed"}, EndOffer(s, a)
  PROVE  OfferOnly(s) /\ offer'[s] = NoOffer
<1>1. /\ offer \in [Sid -> Offer] /\ op \in [Op -> Request \cup {Free}] /\ said \in Saids
      /\ offer' = [offer EXCEPT ![s] = NoOffer]
  BY CoreTypes DEF Saids, EndOffer
<1>2. offer' \in [Sid -> Offer] /\ offer'[s] = NoOffer /\ \A t \in Sid \ {s} : offer'[t] = offer[t]
  BY <1>1, NoOfferIs
<1>3. \A t \in Sid : offer[t].by # NoOp => /\ offer[t].by \in Op /\ op[offer[t].by].pc = "offering"
                                           /\ op[offer[t].by].sid = t
  BY CoreOffers DEF Core, OfferWaits
<1>4. CASE offer[s].by = NoOp
  <2>1. op' = op /\ said' = said
    BY <1>4 DEF EndOffer
  <2>2. \A t \in Sid : offer'[t].by # NoOp => offer'[t].by = offer[t].by
    BY <1>2, NoOfferIs
  <2> QED  BY <1>1, <1>2, <2>1, <2>2 DEF OfferOnly
<1>5. CASE offer[s].by # NoOp
  <2> DEFINE o == offer[s].by
  <2>1. o \in Op /\ op[o].pc = "offering" /\ op[o].sid = s /\ op[o] # Free /\ Answer(o, a)
    BY <1>3, <1>5 DEF EndOffer, Free
  <2> HIDE DEF o
  <2>2. a \in Answers /\ a # "held"
    BY DEF Answers
  <2>3. /\ op' \in [Op -> Request \cup {Free}] /\ said' \in Saids
        /\ \A p \in Op : op'[p] = IF p = o THEN Free ELSE op[p]
        /\ \A m \in Message : said'[m] = IF m = op[o].msg THEN a ELSE said[m]
    BY <2>1, <2>2, AnswerDoes
  <2>4. \A t \in Sid : offer'[t].by # NoOp => /\ offer'[t].by = offer[t].by
                                              /\ op'[offer[t].by] = op[offer[t].by]
    <3> SUFFICES ASSUME NEW t \in Sid, offer'[t].by # NoOp
                 PROVE  offer'[t].by = offer[t].by /\ op'[offer[t].by] = op[offer[t].by]
      OBVIOUS
    <3>1. t # s
      BY <1>2, NoOfferIs
    <3>2. offer'[t] = offer[t]
      BY <1>2, <3>1
    <3>3. offer[t].by \in Op /\ op[offer[t].by].sid = t
      BY <1>3, <3>2
    <3>4. offer[t].by # o
      BY <2>1, <3>1, <3>3
    <3> QED  BY <2>3, <3>2, <3>3, <3>4
  <2> QED  BY <1>2, <2>1, <2>2, <2>3, <2>4 DEF OfferOnly
<1> QED  BY <1>4, <1>5

LEMMA NextOfferDoes ==
  ASSUME Core, NEW s \in Sid, offer[s].rest # <<>>, NextOffer(s)
  PROVE  /\ OfferOnly(s)
         /\ offer'[s].rest = Tail(offer[s].rest)
         /\ offer'[s].writing = FALSE
<1>1. offer[s] \in Offer /\ offer[s].rest \in Seq(Message) /\ offer \in [Sid -> Offer]
  BY CoreOffers, CoreTypes
<1>2. /\ Tail(offer[s].rest) \in Seq(Message) /\ Len(offer[s].rest) \in Nat \ {0}
      /\ Len(Tail(offer[s].rest)) = Len(offer[s].rest) - 1
  BY <1>1, TailHas
<1>3. CASE Len(offer[s].rest) = 1
  <2>1. EndOffer(s, "delivered")
    BY <1>3 DEF NextOffer
  <2>2. OfferOnly(s) /\ offer'[s] = NoOffer
    BY <2>1, EndOfferDoes
  <2>3. Tail(offer[s].rest) = <<>>
    <3> DEFINE q == Tail(offer[s].rest)
    <3>1. q \in Seq(Message) /\ Len(q) = 0
      BY <1>2, <1>3
    <3> HIDE DEF q
    <3>2. q = <<>>
      BY <3>1, EmptySeq
    <3> QED  BY <3>2 DEF q
  <2> QED  BY <2>2, <2>3, NoOfferIs
<1>4. CASE Len(offer[s].rest) # 1
  <2>1. /\ offer' = [offer EXCEPT ![s].rest = Tail(@), ![s].writing = FALSE]
        /\ op' = op /\ said' = said
    BY <1>4 DEF NextOffer
  <2> DEFINE r == offer[s]
             n == [r EXCEPT !.rest = Tail(@), !.writing = FALSE]
  <2>2. n \in Offer /\ n.rest = Tail(offer[s].rest) /\ n.writing = FALSE /\ n.by = r.by
    BY <1>1, <1>2 DEF Offer
  <2>3. offer' = [offer EXCEPT ![s] = n]
    BY <1>1, <2>1
  <2> HIDE DEF r, n
  <2>4. /\ offer' \in [Sid -> Offer] /\ offer'[s] = n
        /\ \A t \in Sid \ {s} : offer'[t] = offer[t]
        /\ \A t \in Sid : offer'[t].by = offer[t].by
    BY <1>1, <2>2, <2>3 DEF r
  <2>5. op \in [Op -> Request \cup {Free}] /\ said \in Saids
    BY CoreTypes DEF Saids
  <2> QED  BY <2>1, <2>2, <2>4, <2>5 DEF OfferOnly
<1> QED  BY <1>3, <1>4

LEMMA HandDoes ==
  ASSUME Core, NEW G \in SUBSET Message, HandAll(G), strayed \subseteq strayed',
         \A m \in G : m <= Len(issued) /\ (got[m] = 0 \/ m \in strayed')
  PROVE  Handing(G) /\ got' \in [Message -> 0..2] /\ ever' \subseteq Message /\ ever' = ever \cup G
<1>1. got \in [Message -> 0..2] /\ ever \subseteq Message
  BY CoreTypes
<1>2. /\ got' = [m \in Message |-> IF m \in G /\ got[m] < 2 THEN got[m] + 1 ELSE got[m]]
      /\ ever' = ever \cup G
  BY DEF HandAll
<1>3. got' \in [Message -> 0..2]
  <2>1. ASSUME NEW m \in Message PROVE (IF m \in G /\ got[m] < 2 THEN got[m] + 1 ELSE got[m]) \in 0..2
    <3>1. got[m] \in 0..2
      BY <1>1
    <3> QED  BY <3>1
  <2> QED  BY <1>2, <2>1
<1>4. \A m \in G : m \in strayed' \/ got'[m] <= 1
  BY <1>2
<1> QED  BY <1>1, <1>2, <1>3, <1>4 DEF Handing

LEMMA StrayDoes ==
  ASSUME Core, NEW m \in Message, m <= Len(issued),
         \/ Stray(m)
         \/ HandNothing /\ UNCHANGED strayed
  PROVE  /\ Handing({}) /\ got' \in [Message -> 0..2] /\ ever' \subseteq Message /\ ever \subseteq ever'
         /\ strayed' \subseteq Message /\ strayed \subseteq strayed'
         /\ ever' = ever \/ ever' = ever \cup {m}
<1>1. got \in [Message -> 0..2] /\ ever \subseteq Message /\ strayed \subseteq Message
  BY CoreTypes
<1>2. CASE Stray(m)
  <2>1. HandAll({m}) /\ strayed' = strayed \cup {m} /\ {m} \in SUBSET Message
    BY <1>2 DEF Stray, Hand
  <2>2. Handing({m}) /\ got' \in [Message -> 0..2] /\ ever' \subseteq Message /\ ever' = ever \cup {m}
    BY <2>1, HandDoes
  <2>3. Handing({})
    BY <2>1, <2>2 DEF Handing
  <2> QED  BY <1>1, <2>1, <2>2, <2>3
<1>3. CASE HandNothing /\ UNCHANGED strayed
  BY <1>1, <1>3 DEF HandNothing, Handing
<1> QED  BY <1>2, <1>3

LEMMA NothingHanded ==
  ASSUME Core, got' = got, strayed \subseteq strayed'
  PROVE  Handing({}) /\ Through({})
BY DEF Handing, Through

(* Messages that are known were issued.                                    *)
LEMMA KnownIsIssued ==
  ASSUME Core
  PROVE  /\ \A s \in Sid : \A m \in ToSet(inbox.held[s]) \cup ToSet(offer[s].rest) : m <= Len(issued)
         /\ \A o \in Op : op[o] # Free => op[o].msg <= Len(issued)
<1>1. \A s \in Sid, m \in Message : Knows(s, m) => m <= Len(issued)
  BY DEF Core, Homes, MidsCounted
<1>2. ASSUME NEW s \in Sid, NEW m \in ToSet(inbox.held[s]) \cup ToSet(offer[s].rest)
      PROVE  m \in Message /\ Knows(s, m)
  BY CoreTypes, CoreOffers DEF Knows, Speaks
<1>3. ASSUME NEW o \in Op, op[o] # Free
      PROVE  /\ op[o].sid \in Sid /\ op[o].msg \in Message /\ Knows(op[o].sid, op[o].msg)
  BY <1>3, CoreOps DEF Knows
<1> QED  BY <1>1, <1>2, <1>3

-----------------------------------------------------------------------------
(* The steps that leave the file alone.                                    *)
LEMMA MemoryStep ==
  ASSUME Core, up', file' = file, torn' \in BOOLEAN, issued' = issued, counter' = counter, up,
         crashes' = crashes, aged' = aged, standing' \in [Sid -> Standing], sub' \subseteq Conn,
         inbox' \in InboxState, offer' \in [Sid -> Offer], op' \in [Op -> Request \cup {Free}],
         said' \in Saids, got' \in [Message -> 0..2], ever' \subseteq Message,
         strayed' \subseteq Message, ever \subseteq ever', inbox.evicted \subseteq inbox'.evicted,
         \A s \in Sid : HeldMoves(s) /\ OfferMoves(s), OpsMove, LinesMove,
         NEW G, Handing(G), Through(G),
         Owing', OwedOnce', OfferWaits',
         \A m \in Message : said'[m] = "held" => said[m] = "held",
         \A o \in Op : op'[o].pc = "dropping" => op'[o] = op[o]
  PROVE  Core'
<1>1. inbox'.held \in Helds
  BY InboxHas
<1>2. \A s \in Sid : NoneTwice(Kept(file')[s])
  BY DEF Core, Singles
<1>3. Homes' /\ Sends' /\ Singles' /\ Unhanded' /\ InOrder' /\ AtMostOnce'
  BY <1>1, <1>2, StepKeeps
<1>4. TypeOK'
  BY CoreTypes DEF TypeOK, Saids, InboxState
<1>5. Durable'
  <2>1. ASSUME NEW m \in Message, Lasting(m) PROVE Lasting(m)'
    BY <2>1 DEF Lasting, Handing
  <2>2. \A o \in Op : \A m : (op'[o].pc = "dropping" /\ op'[o].msg = m) =>
            (m \in Message /\ (op'[o] = op[o] \/ Lasting(m)'))
    <3> SUFFICES ASSUME NEW o \in Op, op'[o].pc = "dropping" PROVE op'[o].msg \in Message /\ op'[o] = op[o]
      OBVIOUS
    <3>1. op'[o] = op[o] /\ op[o] # Free
      BY DEF Free
    <3> QED  BY <3>1, CoreOps
  <2> QED  BY <2>1, <2>2, DurableKept
<1>6. IdleWhenDown'
  BY DEF IdleWhenDown
<1>7. Given'
  BY DEF Core, Given
<1> QED  BY <1>3, <1>4, <1>5, <1>6, <1>7 DEF Core

LEMMA QueueSame ==
  ASSUME Core, inbox'.queue = inbox.queue, file' = file, \A s \in Sid : HeldMoves(s),
         \A o \in Op : op[o].pc \in {"adding", "dropping"} => op'[o] = op[o],
         \A s \in Sid : (offer[s].rest # <<>> /\ offer[s].writing)
                           => (offer'[s].rest # <<>> /\ offer'[s].writing),
         inbox.evicted \subseteq inbox'.evicted, ever \subseteq ever', strayed \subseteq strayed'
  PROVE  Owing' /\ OwedOnce' /\ LinesMove
<1>1. ASSUME NEW x \in ToSet(inbox.queue) PROVE OwedTrue(x)'
  <2>1. x.by \in Op => op'[x.by] = op[x.by]
    BY QueueOwners
  <2>2. x.by = "offer" => (offer'[x.sid].rest # <<>> /\ offer'[x.sid].writing)
    BY QueueOwners
  <2> QED  BY <2>1, <2>2, OwedKept
<1>2. OwedOnce'
  BY DEF Core, OwedOnce
<1>3. LinesMove
  BY DEF LinesMove, Speaks
<1> QED  BY <1>1, <1>2, <1>3 DEF Owing

LEMMA ThinMoves ==
  ASSUME Thinner(inbox.held, inbox'.held) PROVE \A s \in Sid : HeldMoves(s)
BY DEF Thinner, HeldMoves

LEMMA OfferStays ==
  ASSUME Core, NEW s \in Sid, offer'[s] = offer[s] PROVE OfferMoves(s)
<1>1. NoneTwice(offer[s].rest)
  BY DEF Core, Singles
<1>2. Left(s)' = Left(s)
  BY DEF Left
<1> QED  BY <1>1, <1>2 DEF OfferMoves

LEMMA OfferStarts ==
  ASSUME NEW s \in Sid, offer'[s].rest = inbox'.held[s], offer'[s].writing = FALSE
  PROVE  OfferMoves(s)
<1>1. Left(s)' = inbox'.held[s]
  BY DEF Left
<1> QED  BY <1>1 DEF OfferMoves

LEMMA ExpireStep ==
  ASSUME Core, NEW S \in SUBSET Sid, inbox' = Expire(inbox, S)
  PROVE  /\ inbox' \in InboxState /\ inbox'.queue = inbox.queue /\ inbox'.evicted = inbox.evicted
         /\ inbox'.view = inbox.view \ GoneOf(inbox.held, S)
         /\ inbox'.told = inbox.told \cup (GoneOf(inbox.held, S) \X {"expired"})
         /\ \A s \in Sid : inbox'.held[s] = Only(inbox.held[s], IF s \in S THEN Young ELSE Message)
         /\ Thinner(inbox.held, inbox'.held)
<1> DEFINE b == inbox
           e == inbox'
<1>1. b \in InboxState /\ aged \in Int /\ MaxSends \in Nat
  BY CoreTypes
<1>2. \A s \in Sid : TellsApart(b.held[s])
  BY CoreApart
<1>3. e = Expire(b, S)
  OBVIOUS
<1> HIDE DEF b, e
<1>4. /\ e \in InboxState /\ e.queue = b.queue /\ e.evicted = b.evicted
      /\ e.view = b.view \ GoneOf(b.held, S)
      /\ e.told = b.told \cup (GoneOf(b.held, S) \X {"expired"})
      /\ \A s \in Sid : e.held[s] = Only(b.held[s], IF s \in S THEN Young ELSE Message)
      /\ Thinner(b.held, e.held)
  BY <1>1, <1>2, <1>3, ExpireDoes
<1> QED  BY <1>4 DEF b, e

LEMMA OfferedStep ==
  ASSUME Core, inbox' \in InboxState, NEW S \in SUBSET Sid, NEW by \in Op \cup {NoOp},
         offer' = Offered(inbox', S, by)
  PROVE  /\ offer' \in [Sid -> Offer]
         /\ \A s \in Sid : \/ offer'[s] = offer[s]
                           \/ /\ s \in S /\ offer[s].rest = <<>>
                              /\ offer'[s].rest = inbox'.held[s] /\ offer'[s].by = by
                              /\ offer'[s].writing = FALSE
<1> DEFINE b == inbox'
           c == offer'
<1>1. b \in InboxState /\ c = Offered(b, S, by)
  OBVIOUS
<1>2. offer \in [Sid -> Offer] /\ \A s \in Sid : b.held[s] \in Seq(Message)
  BY <1>1, CoreTypes, InboxHas
<1>3. \A s \in Sid : [rest |-> b.held[s], writing |-> FALSE, by |-> by] \in Offer
  BY <1>2 DEF Offer
<1> QED  BY <1>2, <1>3 DEF Offered, Offering

LEMMA WatchCore == ASSUME Core, Watch PROVE Core'
<1>1. /\ inbox' = Expire(inbox, Sid) /\ up /\ up' = up /\ crashes' = crashes /\ standing' = standing
      /\ issued' = issued /\ counter' = counter /\ file' = file /\ torn' = torn /\ aged' = aged
      /\ offer' = offer /\ op' = op /\ sub' = sub /\ got' = got /\ ever' = ever
      /\ strayed' = strayed /\ said' = said
  BY DEF Watch
<1>2. /\ inbox' \in InboxState /\ inbox'.queue = inbox.queue /\ inbox'.evicted = inbox.evicted
      /\ Thinner(inbox.held, inbox'.held)
  BY <1>1, ExpireStep
<1>3. \A s \in Sid : HeldMoves(s)
  BY <1>2, ThinMoves
<1>4. \A s \in Sid : OfferMoves(s)
  BY <1>1, OfferStays
<1>5. Owing' /\ OwedOnce' /\ LinesMove
  BY <1>1, <1>2, <1>3, QueueSame
<1>6. OpsMove
  BY <1>1 DEF OpsMove
<1>7. Handing({}) /\ Through({})
  BY <1>1, NothingHanded
<1>8. OfferWaits'
  BY <1>1 DEF Core, OfferWaits
<1>9. inbox.evicted \subseteq inbox'.evicted /\ said' \in Saids
  BY <1>1, <1>2, CoreTypes DEF Saids
<1> QED  BY <1>1, <1>2, <1>3, <1>4, <1>5, <1>6, <1>7, <1>8, <1>9, CoreTypes, MemoryStep

LEMMA ChangedCore == ASSUME Core, NEW s \in Sid, NEW st \in Standing, Changed(s, st) PROVE Core'
<1> DEFINE live == {t \in Sid : inbox.held[t] # <<>> /\ standing'[t] = "alive"}
           S == {t \in live : ~Offering(t)}
<1>1. /\ inbox' = Expire(inbox, S) /\ up /\ up' = up /\ crashes' = crashes
      /\ standing' = [standing EXCEPT ![s] = st]
      /\ offer' = Offered(inbox', live, NoOp)
      /\ issued' = issued /\ counter' = counter /\ file' = file /\ torn' = torn /\ aged' = aged
      /\ op' = op /\ sub' = sub /\ got' = got /\ ever' = ever
      /\ strayed' = strayed /\ said' = said
  BY DEF Changed, OfferedInbox
<1>2. live \in SUBSET Sid /\ S \in SUBSET Sid
  OBVIOUS
<1> HIDE DEF S, live
<1>3. /\ inbox' \in InboxState /\ inbox'.queue = inbox.queue /\ inbox'.evicted = inbox.evicted
      /\ Thinner(inbox.held, inbox'.held)
  <2>1. inbox' = Expire(inbox, S)
    BY <1>1
  <2> QED  BY <1>2, <2>1, ExpireStep
<1>4. \A t \in Sid : HeldMoves(t)
  BY <1>3, ThinMoves
<1>5. /\ offer' \in [Sid -> Offer]
      /\ \A t \in Sid : \/ offer'[t] = offer[t]
                        \/ /\ offer[t].rest = <<>>
                           /\ offer'[t].rest = inbox'.held[t] /\ offer'[t].by = NoOp
                           /\ offer'[t].writing = FALSE
  <2>1. offer' = Offered(inbox', live, NoOp) /\ inbox' \in InboxState /\ NoOp \in Op \cup {NoOp}
    BY <1>1, <1>3
  <2> QED  BY <1>2, <2>1, OfferedStep
<1>6. \A t \in Sid : OfferMoves(t)
  BY <1>5, OfferStays, OfferStarts
<1>7. Owing' /\ OwedOnce' /\ LinesMove
  <2>1. \A t \in Sid : (offer[t].rest # <<>> /\ offer[t].writing)
                           => (offer'[t].rest # <<>> /\ offer'[t].writing)
    BY <1>5
  <2> QED  BY <1>1, <1>3, <1>4, <2>1, QueueSame
<1>8. OpsMove
  BY <1>1 DEF OpsMove
<1>9. Handing({}) /\ Through({})
  BY <1>1, NothingHanded
<1>10. OfferWaits'
  BY <1>1, <1>5 DEF Core, OfferWaits
<1>11. inbox.evicted \subseteq inbox'.evicted /\ said' \in Saids /\ standing' \in [Sid -> Standing]
  BY <1>1, <1>3, CoreTypes DEF Saids
<1> QED  BY <1>1, <1>3, <1>4, <1>5, <1>6, <1>7, <1>8, <1>9, <1>10, <1>11, CoreTypes, MemoryStep

LEMMA CarriedCore == ASSUME Core, NEW o \in Op, Carried(o) PROVE Core'
<1> DEFINE s == op[o].sid
           m == op[o].msg
           S == {t \in {s} : ~Offering(t)}
<1>1. /\ inbox' = Expire(inbox, S) /\ up /\ up' = up /\ crashes' = crashes
      /\ standing' = standing /\ offer' = Offered(inbox', {s}, o)
      /\ issued' = issued /\ counter' = counter /\ file' = file /\ torn' = torn /\ aged' = aged
      /\ sub' = sub /\ strayed' = strayed /\ op[o].pc = "direct" /\ HandAll({m})
      /\ IF offer' = offer THEN Answer(o, "delivered")
         ELSE op' = [op EXCEPT ![o].pc = "offering"] /\ said' = said
  BY DEF Carried, OfferedInbox, At, Hand
<1>2. op[o] # Free
  BY <1>1 DEF Free
<1>3. s \in Sid /\ m \in Message /\ op[o] \in Request /\ S \in SUBSET Sid /\ {s} \in SUBSET Sid
  BY <1>2, CoreOps
<1> HIDE DEF S
<1>4. /\ inbox' \in InboxState /\ inbox'.queue = inbox.queue /\ inbox'.evicted = inbox.evicted
      /\ Thinner(inbox.held, inbox'.held)
  <2>1. inbox' = Expire(inbox, S)
    BY <1>1
  <2> QED  BY <1>3, <2>1, ExpireStep
<1>5. \A t \in Sid : HeldMoves(t)
  BY <1>4, ThinMoves
<1>6. /\ offer' \in [Sid -> Offer]
      /\ \A t \in Sid : \/ offer'[t] = offer[t]
                        \/ /\ t = s /\ offer[t].rest = <<>>
                           /\ offer'[t].rest = inbox'.held[t] /\ offer'[t].by = o
                           /\ offer'[t].writing = FALSE
  <2> DEFINE T == {s}
  <2>1. offer' = Offered(inbox', T, o) /\ inbox' \in InboxState /\ T \in SUBSET Sid
    BY <1>1, <1>3, <1>4
  <2> HIDE DEF T
  <2>2. /\ offer' \in [Sid -> Offer]
        /\ \A t \in Sid : \/ offer'[t] = offer[t]
                          \/ /\ t \in T /\ offer[t].rest = <<>>
                             /\ offer'[t].rest = inbox'.held[t] /\ offer'[t].by = o
                             /\ offer'[t].writing = FALSE
    BY <2>1, OfferedStep
  <2> QED  BY <2>2 DEF T
<1>7. \A t \in Sid : OfferMoves(t)
  BY <1>6, OfferStays, OfferStarts
<1>8. /\ op' \in [Op -> Request \cup {Free}] /\ said' \in Saids
      /\ \A p \in Op \ {o} : op'[p] = op[p]
      /\ op'[o] = Free \/ (offer' # offer /\ op'[o].pc = "offering" /\ op'[o] # Free)
      /\ op'[o] = Free \/ (op'[o].sid = s /\ op'[o].msg = m /\ op'[o].pc = "offering")
      /\ op'[o] = Free => offer' = offer
      /\ \A x \in Message : said'[x] = "held" => said[x] = "held"
  <2>1. op \in [Op -> Request \cup {Free}] /\ said \in Saids
    BY CoreTypes DEF Saids
  <2>2. CASE offer' = offer
    <3>1. Answer(o, "delivered") /\ "delivered" \in Answers
      BY <1>1, <2>2 DEF Answers
    <3>2. /\ op' \in [Op -> Request \cup {Free}] /\ said' \in Saids
          /\ \A p \in Op : op'[p] = IF p = o THEN Free ELSE op[p]
          /\ \A x \in Message : said'[x] = IF x = op[o].msg THEN "delivered" ELSE said[x]
      BY <1>2, <3>1, AnswerDoes
    <3> QED  BY <2>2, <3>2
  <2>3. CASE offer' # offer
    <3>1. op' = [op EXCEPT ![o].pc = "offering"] /\ said' = said
      BY <1>1, <2>3
    <3> DEFINE r == [op[o] EXCEPT !.pc = "offering"]
    <3>2. r \in Request /\ r.pc = "offering" /\ r.sid = s /\ r.msg = m /\ r # Free
      BY <1>3 DEF Request, Free
    <3>3. op' = [op EXCEPT ![o] = r]
      BY <3>1
    <3> HIDE DEF r
    <3>4. op'[o] = r /\ (\A p \in Op \ {o} : op'[p] = op[p]) /\ op' \in [Op -> Request \cup {Free}]
      BY <2>1, <3>2, <3>3
    <3> HIDE DEF s, m
    <3> QED  BY <2>1, <2>3, <3>1, <3>2, <3>4
  <2> QED  BY <2>2, <2>3
<1>9. \A p \in Op : op[p].pc \in {"adding", "dropping"} => op'[p] = op[p]
  BY <1>1, <1>8
<1>10. {m} \in SUBSET Message /\ m <= Len(issued) /\ (got[m] = 0 \/ m \in strayed)
       /\ \A t \in Sid : ~Speaks(t, m)
  BY <1>1, <1>2, <1>3, KnownIsIssued DEF Core, Sends
<1>11. Handing({m}) /\ got' \in [Message -> 0..2] /\ ever' \subseteq Message /\ ever \subseteq ever'
  BY <1>1, <1>10, HandDoes
<1>12. OpsMove
  BY <1>2, <1>8 DEF OpsMove
<1>13. Owing' /\ OwedOnce' /\ LinesMove
  <2>1. \A t \in Sid : (offer[t].rest # <<>> /\ offer[t].writing)
                           => (offer'[t].rest # <<>> /\ offer'[t].writing)
    BY <1>6
  <2> QED  BY <1>1, <1>4, <1>5, <1>9, <1>11, <2>1, QueueSame
<1>14. Through({m})
  <2>1. \A p \in Op : op'[p].pc = "direct" => op'[p].msg # m
    <3> SUFFICES ASSUME NEW p \in Op, op'[p].pc = "direct", op'[p].msg = m PROVE FALSE
      OBVIOUS
    <3>1. p # o
      BY <1>8 DEF Free
    <3>2. op[p].pc = "direct" /\ op[p].msg = op[o].msg /\ op[p] # Free
      BY <1>8, <3>1 DEF Free
    <3> QED  BY <1>2, <3>1, <3>2 DEF Core, Sends
  <2>2. \A t \in Sid : m \notin ToSet(inbox'.held[t])
    BY <1>4, <1>10 DEF Thinner, Speaks
  <2>3. \A t \in Sid : m \notin ToSet(Left(t)')
    <3> SUFFICES ASSUME NEW t \in Sid PROVE m \notin ToSet(Left(t)')
      OBVIOUS
    <3>1. CASE offer'[t] = offer[t]
      <4>1. Left(t)' = Left(t)
        BY <3>1 DEF Left
      <4> QED  BY <1>10, <4>1, CoreOffers DEF Speaks
    <3>2. CASE offer'[t].rest = inbox'.held[t] /\ offer'[t].writing = FALSE
      <4>1. Left(t)' = inbox'.held[t]
        BY <3>2 DEF Left
      <4> QED  BY <2>2, <4>1
    <3> QED  BY <1>6, <3>1, <3>2
  <2> QED  BY <2>1, <2>2, <2>3 DEF Through
<1>15. OfferWaits'
  <2> SUFFICES ASSUME NEW t \in Sid, offer'[t].by # NoOp
               PROVE  op'[offer'[t].by].pc = "offering" /\ op'[offer'[t].by].sid = t
    BY DEF OfferWaits
  <2>1. CASE offer'[t] = offer[t]
    <3>1. op[offer[t].by].pc = "offering" /\ op[offer[t].by].sid = t /\ offer[t].by \in Op
      BY <2>1, CoreOffers DEF Core, OfferWaits
    <3>2. offer[t].by # o
      BY <1>1, <3>1
    <3> QED  BY <1>8, <2>1, <3>1, <3>2
  <2>2. CASE offer'[t] # offer[t]
    <3>1. t = s /\ offer'[t].by = o
      BY <1>6, <2>2
    <3>2. offer' # offer
      BY <2>2
    <3> QED  BY <1>8, <3>1, <3>2
  <2> QED  BY <2>1, <2>2
<1>16. \A p \in Op : op'[p].pc = "dropping" => op'[p] = op[p]
  BY <1>8 DEF Free
<1> HIDE DEF s, m
<1>17. inbox.evicted \subseteq inbox'.evicted
  BY <1>4
<1> QED  BY <1>1, <1>4, <1>5, <1>6, <1>7, <1>8, <1>11, <1>12, <1>13, <1>14, <1>15, <1>16, <1>17,
            CoreTypes, MemoryStep

(* An offer that stopped or went on is the only thing that changed of it.  *)
LEMMA OfferOnlyMoves ==
  ASSUME Core, NEW s \in Sid, OfferOnly(s)
  PROVE  /\ OpsMove /\ OfferWaits'
         /\ \A o \in Op : op[o].pc \in {"adding", "dropping"} => op'[o] = op[o]
         /\ \A o \in Op : op'[o].pc = "dropping" => op'[o] = op[o]
         /\ \A o \in Op : op'[o].pc = "direct" => op'[o] = op[o]
<1>1. \A o \in Op : op'[o] = op[o] \/ (op'[o] = Free /\ op[o].pc = "offering")
  BY DEF OfferOnly
<1>2. Free.pc = "free"
  BY DEF Free
<1>3. OpsMove
  BY <1>1 DEF OpsMove
<1>4. OfferWaits'
  <2> SUFFICES ASSUME NEW t \in Sid, offer'[t].by # NoOp
               PROVE  op'[offer'[t].by].pc = "offering" /\ op'[offer'[t].by].sid = t
    BY DEF OfferWaits
  <2>1. offer'[t].by = offer[t].by /\ op'[offer[t].by] = op[offer[t].by]
    BY DEF OfferOnly
  <2> QED  BY <2>1 DEF Core, OfferWaits
<1> QED  BY <1>1, <1>2, <1>3, <1>4

LEMMA HeldStays == ASSUME inbox'.held = inbox.held PROVE \A s \in Sid : HeldMoves(s)
BY DEF HeldMoves

LEMMA OfferEnds ==
  ASSUME NEW s \in Sid, offer'[s] = NoOffer PROVE OfferMoves(s)
<1>1. Left(s)' = <<>> /\ offer'[s].rest = <<>>
  BY NoOfferIs DEF Left
<1> QED  BY <1>1, SetOfNothing, BeforeNothing DEF OfferMoves, NoneTwice

(* A message is known of one session.                                      *)
LEMMA OneSessionKnows ==
  ASSUME Core, NEW s \in Sid, NEW t \in Sid, NEW m \in Message, Speaks(s, m), Speaks(t, m)
  PROVE  s = t
BY DEF Core, Homes, MidsApart, Knows

LEMMA OfferStoppedCore == ASSUME Core, NEW s \in Sid, OfferStopped(s) PROVE Core'
<1> DEFINE m == Head(offer[s].rest)
<1>1. /\ inbox' = inbox /\ up /\ up' = up /\ crashes' = crashes /\ standing' = standing
      /\ issued' = issued /\ counter' = counter /\ file' = file /\ torn' = torn /\ aged' = aged
      /\ sub' = sub /\ MaybeStray(m) /\ EndOffer(s, "delivered")
      /\ offer[s].rest # <<>> /\ ~offer[s].writing
  BY DEF OfferStopped, Offering
<1>2. m \in Message /\ m <= Len(issued)
  <2>1. m \in ToSet(offer[s].rest)
    BY <1>1, CoreOffers, HeadIsIn
  <2> QED  BY <2>1, CoreOffers, KnownIsIssued
<1>3. /\ Handing({}) /\ got' \in [Message -> 0..2] /\ ever' \subseteq Message /\ ever \subseteq ever'
      /\ strayed' \subseteq Message /\ strayed \subseteq strayed'
  <2>1. Stray(m) \/ (HandNothing /\ UNCHANGED strayed)
    BY <1>1 DEF MaybeStray
  <2> HIDE DEF m
  <2> QED  BY <1>2, <2>1, StrayDoes
<1>4. OfferOnly(s) /\ offer'[s] = NoOffer
  BY <1>1, EndOfferDoes
<1>5. \A t \in Sid : HeldMoves(t)
  BY <1>1, HeldStays
<1>6. \A t \in Sid : OfferMoves(t)
  BY <1>4, OfferStays, OfferEnds DEF OfferOnly
<1>7. /\ OpsMove /\ OfferWaits'
      /\ \A o \in Op : op[o].pc \in {"adding", "dropping"} => op'[o] = op[o]
      /\ \A o \in Op : op'[o].pc = "dropping" => op'[o] = op[o]
  BY <1>4, OfferOnlyMoves
<1>8. Owing' /\ OwedOnce' /\ LinesMove
  <2>1. \A t \in Sid : (offer[t].rest # <<>> /\ offer[t].writing)
                           => (offer'[t].rest # <<>> /\ offer'[t].writing)
    BY <1>1, <1>4 DEF OfferOnly
  <2> QED  BY <1>1, <1>3, <1>5, <1>7, <2>1, QueueSame
<1>9. Through({})
  BY DEF Through
<1>10. /\ inbox' \in InboxState /\ inbox.evicted \subseteq inbox'.evicted /\ torn' \in BOOLEAN
       /\ standing' \in [Sid -> Standing] /\ sub' \subseteq Conn
  BY <1>1, CoreTypes
<1>11. /\ offer' \in [Sid -> Offer] /\ op' \in [Op -> Request \cup {Free}] /\ said' \in Saids
       /\ \A x \in Message : said'[x] = "held" => said[x] = "held"
  BY <1>4 DEF OfferOnly
<1> QED  BY <1>1, <1>3, <1>5, <1>6, <1>7, <1>8, <1>9, <1>10, <1>11, MemoryStep

LEMMA HoldStep ==
  ASSUME Core, NEW s \in Sid, NEW m \in Message, NEW o \in Op, inbox' = Hold(inbox, s, m, o)
  PROVE  HeldAs(inbox, inbox', s, m, o)
<1> DEFINE b == inbox
           e == inbox'
<1>1. b \in InboxState /\ aged \in Int /\ MaxSends \in Nat
  BY CoreTypes
<1>2. \A t \in Sid : TellsApart(b.held[t])
  BY CoreApart
<1>3. e = Hold(b, s, m, o)
  OBVIOUS
<1> HIDE DEF b, e
<1>4. HeldAs(b, e, s, m, o)
  BY <1>1, <1>2, <1>3, HoldDoes
<1> QED  BY <1>4 DEF b, e

(* What StartHold does to the request, as a record.                        *)
LEMMA StartHoldOps ==
  ASSUME Core, NEW o \in Op, op[o].pc = "direct", StartHold(o)
  PROVE  /\ op[o] # Free /\ op[o].sid \in Sid /\ op[o].msg \in Message
         /\ op' \in [Op -> Request \cup {Free}]
         /\ op'[o] = [pc |-> "adding", sid |-> op[o].sid, msg |-> op[o].msg]
         /\ op'[o] # Free /\ op'[o].pc = "adding"
         /\ \A p \in Op \ {o} : op'[p] = op[p]
         /\ offer' = offer /\ said' = said
<1>1. op[o] # Free
  BY DEF Free
<1>2. op[o].sid \in Sid /\ op[o].msg \in Message /\ op[o] \in Request
  BY <1>1, CoreOps
<1>3. op \in [Op -> Request \cup {Free}]
  BY CoreTypes
<1> DEFINE r == [op[o] EXCEPT !.pc = "adding"]
<1>4. r \in Request /\ r = [pc |-> "adding", sid |-> op[o].sid, msg |-> op[o].msg] /\ r # Free /\ r.pc = "adding"
  BY <1>2 DEF Request, Free
<1>5. op' = [op EXCEPT ![o] = r] /\ offer' = offer /\ said' = said
  BY DEF StartHold
<1> HIDE DEF r
<1> QED  BY <1>1, <1>2, <1>3, <1>4, <1>5

LEMMA HoldingCore ==
  ASSUME Core, NEW o \in Op, op[o].pc = "direct", up, StartHold(o),
         NEW s, s = op[o].sid, NEW m, m = op[o].msg,
         NEW x, x = [v |-> "add", sid |-> s, msg |-> m, by |-> o],
         Stray(op[o].msg) \/ (HandNothing /\ UNCHANGED strayed),
         UNCHANGED <<up, crashes, standing, issued, counter, file, torn, aged, sub>>
  PROVE  Core'
<1>1. /\ op[o] # Free /\ s \in Sid /\ m \in Message
      /\ op' \in [Op -> Request \cup {Free}]
      /\ op'[o] = [pc |-> "adding", sid |-> s, msg |-> m]
      /\ op'[o] # Free /\ op'[o].pc = "adding"
      /\ \A p \in Op \ {o} : op'[p] = op[p]
      /\ offer' = offer /\ said' = said
  BY StartHoldOps
<1>2. inbox' = Hold(inbox, s, m, o)
  BY DEF StartHold
<1>3. m <= Len(issued) /\ \A t \in Sid : ~Speaks(t, m)
  BY <1>1, KnownIsIssued DEF Core, Sends
<1>4. /\ Handing({}) /\ got' \in [Message -> 0..2] /\ ever' \subseteq Message /\ ever \subseteq ever'
      /\ strayed' \subseteq Message /\ strayed \subseteq strayed'
  <2>1. Stray(m) \/ (HandNothing /\ UNCHANGED strayed)
    OBVIOUS
  <2> QED  BY <1>1, <1>3, <2>1, StrayDoes
<1>5. /\ inbox' \in InboxState /\ inbox'.evicted = inbox.evicted /\ inbox'.queue = Append(inbox.queue, x)
      /\ \A t \in Sid : inbox'.held[t] = IF t = s THEN Append(Only(inbox.held[s], Young), m)
                                         ELSE inbox.held[t]
  <2>1. HeldAs(inbox, inbox', s, m, o)
    BY <1>1, <1>2, HoldStep
  <2> QED  BY <2>1 DEF HeldAs
<1>6. x \in Owed /\ x.v = "add" /\ x.sid = s /\ x.msg = m /\ x.by = o
  BY <1>1 DEF Owed
<1>7. Takes(s, m)
  BY <1>1 DEF Takes
<1>8. \A t \in Sid : HeldMoves(t)
  <2> SUFFICES ASSUME NEW t \in Sid PROVE HeldMoves(t)
    OBVIOUS
  <2>1. CASE t # s
    BY <1>5, <2>1 DEF HeldMoves
  <2>2. CASE t = s
    <3> DEFINE q == Only(inbox.held[s], Young)
    <3>1. /\ inbox.held[s] \in Seq(Message) /\ q \in Seq(Message)
      BY <1>1, CoreTypes, OnlyType
    <3>2. ToSet(q) \subseteq ToSet(inbox.held[s])
      BY <3>1, OnlyHolds
    <3>3. \A a, b : Before(q, a, b) => Before(inbox.held[s], a, b)
      BY <3>1, BeforeOnly
    <3> HIDE DEF q
    <3>4. ToSet(Append(q, m)) = ToSet(q) \cup {m}
      BY <1>1, <3>1, SetOfAppend
    <3>5. \A a, b : Before(Append(q, m), a, b) <=> Before(q, a, b) \/ (a \in ToSet(q) /\ b = m)
      BY <1>1, <3>1, BeforeAppend
    <3>6. inbox'.held[s] = Append(q, m)
      BY <1>1, <1>5 DEF q
    <3> QED  BY <1>7, <2>2, <3>2, <3>3, <3>4, <3>5, <3>6 DEF HeldMoves
  <2> QED  BY <2>1, <2>2
<1>9. \A t \in Sid : OfferMoves(t)
  BY <1>1, OfferStays
<1>10. OpsMove
  BY <1>1 DEF OpsMove
<1>11. ToSet(inbox'.queue) = ToSet(inbox.queue) \cup {x}
       /\ About(inbox'.queue) = About(inbox.queue) \cup {<<s, m>>}
  BY <1>5, <1>6, CoreTypes, SetOfAppend, AboutAppend
<1>12. LinesMove
  BY <1>7, <1>11 DEF LinesMove, Speaks
<1>13. Owing'
  <2>1. ASSUME NEW y \in ToSet(inbox.queue) PROVE OwedTrue(y)'
    <3>1. y.by \in Op => op'[y.by] = op[y.by]
      BY <1>1, QueueOwners
    <3>2. y.by = "offer" => (offer'[y.sid].rest # <<>> /\ offer'[y.sid].writing)
      BY <1>1, QueueOwners
    <3> QED  BY <1>4, <1>5, <1>8, <3>1, <3>2, OwedKept
  <2>2. OwedTrue(x)'
    <3>1. <<s, m>> \notin About(file)
      BY <1>1, <1>3 DEF Speaks
    <3> QED  BY <1>1, <1>6, <3>1 DEF OwedTrue, AddOwed
  <2> QED  BY <1>11, <2>1, <2>2 DEF Owing
<1>14. OwedOnce'
  <2> SUFFICES ASSUME NEW y \in Owed, NEW z \in Owed, Before(inbox'.queue, y, z) PROVE ~Clash(y, z)
    BY DEF OwedOnce
  <2>1. Before(inbox.queue, y, z) \/ (y \in ToSet(inbox.queue) /\ z = x)
    BY <1>5, <1>6, CoreTypes, BeforeAppend
  <2>2. CASE Before(inbox.queue, y, z)
    BY <2>2 DEF Core, OwedOnce
  <2>3. CASE y \in ToSet(inbox.queue) /\ z = x
    BY <1>1, <1>3, <1>6, <2>3, QueueOwners DEF Clash
  <2> QED  BY <2>1, <2>2, <2>3
<1>15. OfferWaits'
  <2> SUFFICES ASSUME NEW t \in Sid, offer[t].by # NoOp
               PROVE  op'[offer[t].by].pc = "offering" /\ op'[offer[t].by].sid = t
    BY <1>1 DEF OfferWaits
  <2>1. op[offer[t].by].pc = "offering" /\ op[offer[t].by].sid = t /\ offer[t].by \in Op
    BY CoreOffers DEF Core, OfferWaits
  <2> QED  BY <1>1, <2>1
<1>16. Through({})
  BY DEF Through
<1>17. \A p \in Op : op'[p].pc = "dropping" => op'[p] = op[p]
  BY <1>1
<1> QED  BY <1>1, <1>4, <1>5, <1>8, <1>9, <1>10, <1>12, <1>13, <1>14, <1>15, <1>16, <1>17,
            CoreTypes, MemoryStep DEF Saids

LEMMA RefusedCore == ASSUME Core, NEW o \in Op, Refused(o) PROVE Core'
<1>1. /\ op[o].pc = "direct" /\ up /\ StartHold(o)
      /\ Stray(op[o].msg) \/ (HandNothing /\ UNCHANGED strayed)
      /\ UNCHANGED <<up, crashes, standing, issued, counter, file, torn, aged, sub>>
  BY DEF Refused, At, MaybeStray
<1> QED  BY <1>1, HoldingCore

(* A message published to the connections of its session: it is over.      *)
LEMMA PublishedCore ==
  ASSUME Core, NEW o \in Op, op[o].pc = "direct", up, NEW m, m = op[o].msg, Hand(m), UNCHANGED strayed,
         inbox' = [inbox EXCEPT !.told = @ \cup {<<m, "delivered">>}],
         Answer(o, "delivered"), UNCHANGED offer,
         UNCHANGED <<up, crashes, standing, issued, counter, file, torn, aged, sub>>
  PROVE  Core'
<1>1. op[o] # Free
  BY DEF Free
<1>2. m \in Message /\ m <= Len(issued) /\ (got[m] = 0 \/ m \in strayed) /\ \A t \in Sid : ~Speaks(t, m)
  BY <1>1, CoreOps, KnownIsIssued DEF Core, Sends
<1>3. /\ inbox' \in InboxState /\ inbox'.queue = inbox.queue /\ inbox'.evicted = inbox.evicted
      /\ inbox'.held = inbox.held
  <2>1. inbox \in InboxState
    BY CoreTypes
  <2>2. <<m, "delivered">> \in Message \X {"delivered", "expired", "dropped"}
    BY <1>2
  <2> QED  BY <2>1, <2>2 DEF InboxState
<1>4. /\ op' \in [Op -> Request \cup {Free}] /\ said' \in Saids
      /\ \A p \in Op : op'[p] = IF p = o THEN Free ELSE op[p]
      /\ \A x \in Message : said'[x] = "held" => said[x] = "held"
  <2>1. "delivered" \in Answers
    BY DEF Answers
  <2> QED  BY <1>1, <2>1, AnswerDoes
<1>5. Handing({m}) /\ got' \in [Message -> 0..2] /\ ever' \subseteq Message /\ ever \subseteq ever'
  BY <1>2, HandDoes DEF Hand
<1>6. \A t \in Sid : HeldMoves(t)
  BY <1>3, HeldStays
<1>7. \A t \in Sid : OfferMoves(t)
  BY OfferStays
<1>8. Owing' /\ OwedOnce' /\ LinesMove
  BY <1>3, <1>4, <1>5, <1>6, QueueSame
<1>9. Free.pc = "free"
  BY DEF Free
<1>10. OpsMove
  BY <1>4 DEF OpsMove
<1>11. Through({m})
  <2>1. \A p \in Op : op'[p].pc = "direct" => op'[p].msg # m
    <3> SUFFICES ASSUME NEW p \in Op, op'[p].pc = "direct", op'[p].msg = m PROVE FALSE
      OBVIOUS
    <3>1. p # o /\ op[p].pc = "direct" /\ op[p].msg = op[o].msg /\ op[p] # Free
      BY <1>4, <1>9
    <3> QED  BY <1>1, <3>1 DEF Core, Sends
  <2>2. \A t \in Sid : m \notin ToSet(inbox'.held[t])
    BY <1>2, <1>3 DEF Speaks
  <2>3. ASSUME NEW t \in Sid PROVE m \notin ToSet(Left(t)')
    <3>1. Left(t)' = Left(t)
      BY DEF Left
    <3> QED  BY <1>2, <3>1, CoreOffers DEF Speaks
  <2> QED  BY <2>1, <2>2, <2>3 DEF Through
<1>12. OfferWaits'
  <2> SUFFICES ASSUME NEW t \in Sid, offer[t].by # NoOp
               PROVE  op'[offer[t].by].pc = "offering" /\ op'[offer[t].by].sid = t
    BY DEF OfferWaits
  <2>1. op[offer[t].by].pc = "offering" /\ op[offer[t].by].sid = t /\ offer[t].by \in Op
    BY CoreOffers DEF Core, OfferWaits
  <2> QED  BY <1>4, <2>1
<1>13. \A p \in Op : op'[p].pc = "dropping" => op'[p] = op[p]
  BY <1>4, <1>9
<1> QED  BY <1>3, <1>4, <1>5, <1>6, <1>7, <1>8, <1>10, <1>11, <1>12, <1>13, CoreTypes, MemoryStep

LEMMA UnavailableCore == ASSUME Core, NEW o \in Op, NEW full, Unavailable(o, full) PROVE Core'
<1>1. /\ op[o].pc = "direct" /\ up
      /\ UNCHANGED <<up, crashes, standing, issued, counter, file, torn, aged, sub>>
      /\ \/ /\ Hand(op[o].msg) /\ UNCHANGED strayed
            /\ inbox' = [inbox EXCEPT !.told = @ \cup {<<op[o].msg, "delivered">>}]
            /\ Answer(o, "delivered") /\ UNCHANGED offer
         \/ /\ Stray(op[o].msg) \/ (HandNothing /\ UNCHANGED strayed)
            /\ StartHold(o)
  BY DEF Unavailable, At, MaybeStray
<1> QED  BY <1>1, PublishedCore, HoldingCore

(* Messages that left, handed over or strayed, are true of what is owed.   *)
LEMMA LeavingOwed ==
  ASSUME Core, NEW s \in Sid, NEW by \in {"offer", "none"}, NEW ms \in Seq(Message),
         inbox'.queue = inbox.queue \/ inbox'.queue = inbox.queue \o Leaving(ms, s, by),
         file' = file, \A t \in Sid : HeldMoves(t),
         \A o \in Op : op[o].pc \in {"adding", "dropping"} => op'[o] = op[o],
         \A t \in Sid : (offer[t].rest # <<>> /\ offer[t].writing)
                           => (offer'[t].rest # <<>> /\ offer'[t].writing),
         inbox'.queue # inbox.queue /\ by = "offer" => (offer'[s].rest # <<>> /\ offer'[s].writing),
         inbox.evicted \subseteq inbox'.evicted, ever \subseteq ever', strayed \subseteq strayed',
         \A m \in ToSet(ms) : Speaks(s, m) /\ m \in ever' \cup strayed'
  PROVE  Owing' /\ LinesMove
<1>1. ASSUME NEW x \in ToSet(inbox.queue) PROVE OwedTrue(x)'
  <2>1. x.by \in Op => op'[x.by] = op[x.by]
    BY QueueOwners
  <2>2. x.by = "offer" => (offer'[x.sid].rest # <<>> /\ offer'[x.sid].writing)
    BY QueueOwners
  <2> QED  BY <2>1, <2>2, OwedKept
<1>2. inbox.queue \in Seq(Owed) /\ Leaving(ms, s, by) \in Seq(Owed)
  BY CoreTypes, LeavingType
<1>3. CASE inbox'.queue = inbox.queue
  BY <1>1, <1>3 DEF Owing, LinesMove, Speaks
<1>4. CASE inbox'.queue # inbox.queue
  <2>1. /\ ToSet(inbox'.queue) = ToSet(inbox.queue) \cup ToSet(Leaving(ms, s, by))
        /\ About(inbox'.queue) = About(inbox.queue) \cup About(Leaving(ms, s, by))
    <3> DEFINE q == inbox.queue
               l == Leaving(ms, s, by)
    <3>1. inbox'.queue = q \o l
      BY <1>4
    <3>2. q \in Seq(Owed) /\ l \in Seq(Owed)
      BY <1>2
    <3> HIDE DEF q, l
    <3>3. ToSet(q \o l) = ToSet(q) \cup ToSet(l)
      BY <3>2, SetOfConcat
    <3>4. About(q \o l) = About(q) \cup About(l)
      BY <3>2, AboutConcat
    <3>5. inbox'.queue = q \o l => ToSet(inbox'.queue) = ToSet(q \o l) /\ About(inbox'.queue) = About(q \o l)
      OBVIOUS
    <3> QED  BY <3>1, <3>3, <3>4, <3>5 DEF q, l
  <2>2. ASSUME NEW x \in ToSet(Leaving(ms, s, by)) PROVE OwedTrue(x)'
    <3>1. PICK m \in ToSet(ms) : x = [v |-> "delivered", sid |-> s, msg |-> m, by |-> by]
      BY LeavingHas
    <3>2. x.v = "delivered" /\ x.by = by /\ x.msg = m /\ x.sid = s
      BY <3>1
    <3>3. x.msg \in ever' \cup strayed'
      BY <3>1, <3>2
    <3> QED  BY <1>4, <3>2, <3>3 DEF OwedTrue, DeliveredOwed
  <2>3. ASSUME NEW t \in Sid, NEW m \in Message, <<t, m>> \in About(Leaving(ms, s, by)) PROVE Speaks(t, m)
    <3>1. <<t, m>>[1] = s /\ <<t, m>>[2] \in ToSet(ms)
      BY <2>3, LeavingHas
    <3> QED  BY <3>1
  <2> QED  BY <1>1, <2>1, <2>2, <2>3 DEF Owing, LinesMove, Speaks
<1> QED  BY <1>3, <1>4

LEMMA SetOfOne == ASSUME NEW E, NEW e \in E PROVE ToSet(<<e>>) = {e} /\ <<e>> \in Seq(E)
<1>1. DOMAIN <<e>> = {1} /\ <<e>>[1] = e
  OBVIOUS
<1> QED  BY <1>1 DEF ToSet

LEMMA LeavingOne ==
  ASSUME NEW q \in Seq(Owed), NEW s \in Sid, NEW m \in Message, NEW by \in {"offer", "none"},
         NEW x, x = [v |-> "delivered", sid |-> s, msg |-> m, by |-> by]
  PROVE  q \o Leaving(<<m>>, s, by) = Append(q, x) /\ x \in Owed
<1>1. <<>> \in Seq(Message) /\ <<m>> = Append(<<>>, m)
  OBVIOUS
<1>2. Leaving(Append(<<>>, m), s, by) = Append(Leaving(<<>>, s, by), x)
  BY <1>1, LeavingAppend
<1>3. Leaving(<<>>, s, by) = <<>>
  BY DEF Leaving
<1>4. x \in Owed
  BY DEF Owed
<1>5. q \o Append(<<>>, x) = Append(q \o <<>>, x)
  BY <1>4, ConcatAppend
<1>6. q \o <<>> = q
  BY ConcatEmptySeq
<1> QED  BY <1>1, <1>2, <1>3, <1>4, <1>5, <1>6

(* What an offer has left is known of its session alone, and is with no    *)
(* request that route (a) has yet to answer.                               *)
LEMMA OfferedIsOurs ==
  ASSUME Core, NEW s \in Sid, NEW m \in ToSet(offer[s].rest) \cup ToSet(inbox.held[s])
  PROVE  /\ m \in Message /\ Speaks(s, m) /\ m <= Len(issued)
         /\ \A t \in Sid : Speaks(t, m) => t = s
         /\ \A o \in Op : op[o].pc = "direct" => op[o].msg # m
<1>1. m \in Message /\ Speaks(s, m) /\ m <= Len(issued)
  BY CoreTypes, CoreOffers, KnownIsIssued DEF Speaks
<1>2. ASSUME NEW t \in Sid, Speaks(t, m) PROVE t = s
  BY <1>1, <1>2, OneSessionKnows
<1>3. \A o \in Op : op[o].pc = "direct" => op[o].msg # m
  BY <1>1 DEF Core, Sends
<1> QED  BY <1>1, <1>2, <1>3

(* The head of a sequence is not in the rest when nothing is in it twice.  *)
LEMMA HeadLeaves ==
  ASSUME NEW r \in Seq(Message), r # <<>>, NoneTwice(r)
  PROVE  /\ Tail(r) \in Seq(Message) /\ ToSet(Tail(r)) \subseteq ToSet(r)
         /\ Head(r) \notin ToSet(Tail(r)) /\ NoneTwice(Tail(r))
         /\ Head(r) \in ToSet(r) /\ Head(r) \in Message
         /\ \A a, b : Before(Tail(r), a, b) => Before(r, a, b)
<1>1. /\ Tail(r) \in Seq(Message) /\ ToSet(r) = {Head(r)} \cup ToSet(Tail(r))
      /\ \A a, b : Before(Tail(r), a, b) => Before(r, a, b)
      /\ \A a \in ToSet(Tail(r)) : Before(r, Head(r), a)
  BY TailHas
<1>2. Head(r) \in ToSet(r) /\ Head(r) \in Message
  BY HeadIsIn
<1> QED  BY <1>1, <1>2 DEF NoneTwice

LEMMA DeliveredStep ==
  ASSUME Core, NEW s \in Sid, NEW ms \in Seq(Message), NEW by \in {"offer", "none"},
         \A m \in ToSet(inbox.held[s]), n \in ToSet(ms) : issued[m] = issued[n] => m = n,
         inbox' = Delivered(inbox, s, ms, by)
  PROVE  LeftAs(inbox, inbox', s, ms, by)
<1> DEFINE b == inbox
           e == inbox'
<1>1. /\ b \in InboxState /\ e = Delivered(b, s, ms, by)
      /\ \A m \in ToSet(b.held[s]), n \in ToSet(ms) : issued[m] = issued[n] => m = n
  BY CoreTypes
<1> HIDE DEF b, e
<1>2. LeftAs(b, e, s, ms, by)
  BY <1>1, DeliveredDoes
<1> QED  BY <1>2 DEF b, e

LEMMA OfferCarriedCore == ASSUME Core, NEW s \in Sid, OfferCarried(s) PROVE Core'
<1> SUFFICES ASSUME NEW m, m = Head(offer[s].rest) PROVE Core'
  OBVIOUS
<1>1. /\ up /\ up' = up /\ crashes' = crashes /\ standing' = standing
      /\ issued' = issued /\ counter' = counter /\ file' = file /\ torn' = torn /\ aged' = aged
      /\ sub' = sub /\ strayed' = strayed /\ HandAll({m})
      /\ offer[s].rest # <<>> /\ ~offer[s].writing
      /\ inbox' = Delivered(inbox, s, <<m>>, "offer")
      /\ \/ inbox.held[s] = <<>> /\ NextOffer(s)
         \/ /\ inbox.held[s] # <<>>
            /\ offer' = [offer EXCEPT ![s].writing = TRUE]
            /\ op' = op /\ said' = said
  BY DEF OfferCarried, Offering, Hand
<1>2. /\ m \in ToSet(offer[s].rest) /\ m \in Message /\ Speaks(s, m) /\ m <= Len(issued)
      /\ \A t \in Sid : Speaks(t, m) => t = s
      /\ \A o \in Op : op[o].pc = "direct" => op[o].msg # m
  <2>1. m \in ToSet(offer[s].rest)
    BY <1>1, CoreOffers, HeadIsIn
  <2> QED  BY <2>1, OfferedIsOurs
<1>3. /\ offer[s].rest \in Seq(Message) /\ Tail(offer[s].rest) \in Seq(Message)
      /\ ToSet(Tail(offer[s].rest)) \subseteq ToSet(offer[s].rest)
      /\ m \notin ToSet(Tail(offer[s].rest)) /\ NoneTwice(Tail(offer[s].rest))
      /\ NoneTwice(offer[s].rest) /\ offer \in [Sid -> Offer] /\ offer[s] \in Offer
  <2>1. offer[s].rest \in Seq(Message) /\ NoneTwice(offer[s].rest)
    BY CoreOffers DEF Core, Singles
  <2> DEFINE r == offer[s].rest
  <2>2. r \in Seq(Message) /\ r # <<>> /\ NoneTwice(r) /\ m = Head(r)
    BY <1>1, <2>1
  <2> HIDE DEF r
  <2>3. /\ Tail(r) \in Seq(Message) /\ ToSet(Tail(r)) \subseteq ToSet(r)
        /\ Head(r) \notin ToSet(Tail(r)) /\ NoneTwice(Tail(r))
    BY <2>2, HeadLeaves
  <2> QED  BY <2>1, <2>2, <2>3, CoreTypes, CoreOffers DEF r
<1>4. ToSet(<<m>>) = {m} /\ <<m>> \in Seq(Message) /\ <<m>> # <<>>
  BY <1>2, SetOfOne
<1>5. got[m] = 0 \/ m \in strayed
  <2>1. Left(s) = offer[s].rest
    BY <1>1 DEF Left
  <2> QED  BY <1>2, <2>1 DEF Core, Unhanded
<1>6. Handing({m}) /\ got' \in [Message -> 0..2] /\ ever' \subseteq Message /\ ever' = ever \cup {m}
  BY <1>1, <1>2, <1>5, HandDoes
<1>7. /\ inbox' \in InboxState /\ inbox'.evicted = inbox.evicted
      /\ inbox'.held = [inbox.held EXCEPT ![s] = Only(@, Message \ ToSet(<<m>>))]
      /\ \/ inbox' = inbox /\ inbox.held[s] = <<>>
         \/ inbox'.queue = inbox.queue \o Leaving(<<m>>, s, "offer") /\ inbox.held[s] # <<>>
      /\ Thinner(inbox.held, inbox'.held)
  <2>1. \A h \in ToSet(inbox.held[s]), n \in ToSet(<<m>>) : issued[h] = issued[n] => h = n
    BY <1>2, <1>4, CoreApart
  <2> DEFINE ms == <<m>>
             by == "offer"
  <2>2. /\ ms \in Seq(Message) /\ by \in {"offer", "none"} /\ inbox' = Delivered(inbox, s, ms, by)
        /\ \A h \in ToSet(inbox.held[s]), n \in ToSet(ms) : issued[h] = issued[n] => h = n
        /\ ms # <<>>
    BY <1>1, <1>4, <2>1
  <2>3. inbox.held[s] = <<>> => inbox' = inbox
    BY <1>1 DEF Delivered
  <2> HIDE DEF ms, by
  <2>4. /\ inbox' \in InboxState /\ inbox'.evicted = inbox.evicted
        /\ inbox'.held = [inbox.held EXCEPT ![s] = Only(@, Message \ ToSet(ms))]
        /\ \/ inbox' = inbox /\ (inbox.held[s] = <<>> \/ ms = <<>>)
           \/ inbox'.queue = inbox.queue \o Leaving(ms, s, by)
        /\ Thinner(inbox.held, inbox'.held)
    <3>1. LeftAs(inbox, inbox', s, ms, by)
      BY <2>2, DeliveredStep
    <3> QED  BY <3>1 DEF LeftAs
  <2>5. \/ inbox' = inbox /\ inbox.held[s] = <<>>
        \/ inbox'.queue = inbox.queue \o Leaving(ms, s, by) /\ inbox.held[s] # <<>>
    BY <2>2, <2>3, <2>4
  <2> QED  BY <2>4, <2>5 DEF ms, by
<1>8. \A t \in Sid : HeldMoves(t)
  BY <1>7, ThinMoves
<1>9. \A t \in Sid : m \notin ToSet(inbox'.held[t])
  <2> SUFFICES ASSUME NEW t \in Sid, m \in ToSet(inbox'.held[t]) PROVE FALSE
    OBVIOUS
  <2>1. m \in ToSet(inbox.held[t])
    BY <1>7 DEF Thinner
  <2>2. t = s
    BY <1>2, <2>1 DEF Speaks
  <2>3. inbox.held[s] \in Seq(Message) /\ inbox.held \in Helds
    BY CoreTypes
  <2>4. inbox'.held[s] = Only(inbox.held[s], Message \ {m})
    BY <1>4, <1>7, <2>3 DEF Helds
  <2>5. ToSet(Only(inbox.held[s], Message \ {m})) = ToSet(inbox.held[s]) \cap (Message \ {m})
    BY <2>3, OnlyHolds
  <2> QED  BY <2>2, <2>4, <2>5
<1>10. /\ offer' \in [Sid -> Offer] /\ op' \in [Op -> Request \cup {Free}] /\ said' \in Saids
       /\ \A t \in Sid \ {s} : offer'[t] = offer[t]
       /\ Left(s)' = Tail(offer[s].rest)
       /\ offer'[s].rest = offer[s].rest \/ offer'[s].rest = Tail(offer[s].rest)
       /\ OpsMove /\ OfferWaits'
       /\ \A o \in Op : op[o].pc \in {"adding", "dropping"} => op'[o] = op[o]
       /\ \A o \in Op : op'[o].pc = "dropping" => op'[o] = op[o]
       /\ \A o \in Op : op'[o].pc = "direct" => op'[o] = op[o]
       /\ \A n \in Message : said'[n] = "held" => said[n] = "held"
       /\ inbox'.queue # inbox.queue => (offer'[s].rest # <<>> /\ offer'[s].writing)
  <2>1. CASE inbox.held[s] = <<>> /\ NextOffer(s)
    <3>1. OfferOnly(s) /\ offer'[s].rest = Tail(offer[s].rest) /\ offer'[s].writing = FALSE
      BY <1>1, <2>1, NextOfferDoes
    <3>2. Left(s)' = Tail(offer[s].rest)
      BY <3>1 DEF Left
    <3>3. inbox' = inbox
      BY <1>7, <2>1
    <3>4. /\ OpsMove /\ OfferWaits'
          /\ \A o \in Op : op[o].pc \in {"adding", "dropping"} => op'[o] = op[o]
          /\ \A o \in Op : op'[o].pc = "dropping" => op'[o] = op[o]
          /\ \A o \in Op : op'[o].pc = "direct" => op'[o] = op[o]
      BY <3>1, OfferOnlyMoves
    <3> QED  BY <3>1, <3>2, <3>3, <3>4 DEF OfferOnly
  <2>2. CASE inbox.held[s] # <<>> /\ offer' = [offer EXCEPT ![s].writing = TRUE] /\ op' = op /\ said' = said
    <3> DEFINE r == [offer[s] EXCEPT !.writing = TRUE]
    <3>1. r \in Offer /\ r.rest = offer[s].rest /\ r.writing = TRUE /\ r.by = offer[s].by
      BY <1>3 DEF Offer
    <3>2. offer' = [offer EXCEPT ![s] = r]
      BY <2>2
    <3> HIDE DEF r
    <3>3. offer' \in [Sid -> Offer] /\ offer'[s] = r /\ \A t \in Sid \ {s} : offer'[t] = offer[t]
      BY <1>3, <3>1, <3>2
    <3>4. Left(s)' = Tail(offer[s].rest)
      BY <1>1, <3>1, <3>3 DEF Left
    <3>5. OpsMove
      BY <2>2 DEF OpsMove
    <3>6. OfferWaits'
      BY <2>2, <3>1, <3>3 DEF Core, OfferWaits
    <3> QED  BY <1>1, <2>2, <3>1, <3>3, <3>4, <3>5, <3>6, CoreTypes DEF Saids
  <2> QED  BY <1>1, <2>1, <2>2
<1>11. \A t \in Sid : OfferMoves(t)
  <2> SUFFICES ASSUME NEW t \in Sid PROVE OfferMoves(t)
    OBVIOUS
  <2>1. CASE t # s
    BY <1>10, <2>1, OfferStays
  <2>2. CASE t = s
    <3>1. Left(s) = offer[s].rest
      BY <1>1 DEF Left
    <3>2. ToSet(offer'[s].rest) \subseteq ToSet(offer[s].rest) /\ NoneTwice(offer'[s].rest)
      BY <1>3, <1>10
    <3> QED  BY <1>1, <1>9, <1>10, <2>2, <3>1, <3>2 DEF OfferMoves
  <2> QED  BY <2>1, <2>2
<1>12. \A t \in Sid : (offer[t].rest # <<>> /\ offer[t].writing)
                        => (offer'[t].rest # <<>> /\ offer'[t].writing)
  BY <1>1, <1>10
<1>13. Through({m})
  <2>1. ASSUME NEW t \in Sid, m \in ToSet(Left(t)') PROVE FALSE
    <3>1. t # s
      BY <1>3, <1>10, <2>1
    <3>2. Left(t)' = Left(t)
      BY <1>10, <3>1 DEF Left
    <3> QED  BY <1>2, <2>1, <3>1, <3>2, CoreOffers DEF Speaks
  <2> QED  BY <1>2, <1>9, <1>10, <2>1 DEF Through
<1>14. Owing' /\ LinesMove
  <2>1. "offer" \in {"offer", "none"} /\ \A n \in ToSet(<<m>>) : Speaks(s, n) /\ n \in ever' \cup strayed'
    BY <1>2, <1>4, <1>6
  <2>2. inbox'.queue = inbox.queue \/ inbox'.queue = inbox.queue \o Leaving(<<m>>, s, "offer")
    BY <1>7
  <2>3. inbox.evicted \subseteq inbox'.evicted /\ ever \subseteq ever' /\ strayed \subseteq strayed'
    BY <1>1, <1>6, <1>7
  <2> QED  BY <1>1, <1>4, <1>8, <1>10, <1>12, <2>1, <2>2, <2>3, LeavingOwed
<1>15. OwedOnce'
  <2>1. CASE inbox'.queue = inbox.queue
    BY <2>1 DEF Core, OwedOnce
  <2>2. CASE inbox'.queue = inbox.queue \o Leaving(<<m>>, s, "offer")
    <3> SUFFICES ASSUME NEW x, x = [v |-> "delivered", sid |-> s, msg |-> m, by |-> "offer"],
                        NEW y \in Owed, NEW z \in Owed, Before(inbox'.queue, y, z)
                 PROVE  ~Clash(y, z)
      BY DEF OwedOnce
    <3>1. inbox'.queue = Append(inbox.queue, x) /\ x \in Owed
      BY <1>2, <2>2, CoreTypes, LeavingOne
    <3>2. Before(inbox.queue, y, z) \/ (y \in ToSet(inbox.queue) /\ z = x)
      BY <3>1, CoreTypes, BeforeAppend
    <3>3. CASE Before(inbox.queue, y, z)
      BY <3>3 DEF Core, OwedOnce
    <3>4. CASE y \in ToSet(inbox.queue) /\ z = x
      <4>1. y.by = "offer" => offer[y.sid].writing
        BY <3>4, QueueOwners
      <4>2. z.by = "offer" /\ z.sid = s /\ z.v = "delivered"
        BY <3>4
      <4> QED  BY <1>1, <4>1, <4>2, <3>4 DEF Clash
    <3> QED  BY <3>2, <3>3, <3>4
  <2> QED  BY <1>7, <2>1, <2>2
<1>16. inbox.evicted \subseteq inbox'.evicted /\ ever \subseteq ever'
  BY <1>6, <1>7
<1> QED  BY <1>1, <1>6, <1>7, <1>8, <1>10, <1>11, <1>13, <1>14, <1>15, <1>16, CoreTypes, MemoryStep

LEMMA ThinnerStill ==
  ASSUME NEW h \in Helds, NEW k \in Helds, NEW l \in Helds, Thinner(h, k), Thinner(k, l)
  PROVE  Thinner(h, l)
<1> SUFFICES ASSUME NEW s \in Sid
             PROVE  /\ ToSet(l[s]) \subseteq ToSet(h[s]) /\ Len(l[s]) <= Len(h[s])
                    /\ \A a, b : Before(l[s], a, b) => Before(h[s], a, b)
  BY DEF Thinner
<1>1. Len(h[s]) \in Nat /\ Len(k[s]) \in Nat /\ Len(l[s]) \in Nat
  BY DEF Helds
<1>2. ToSet(l[s]) \subseteq ToSet(h[s]) /\ \A a, b : Before(l[s], a, b) => Before(h[s], a, b)
  BY DEF Thinner
<1>3. Len(l[s]) <= Len(k[s]) /\ Len(k[s]) <= Len(h[s])
  BY DEF Thinner
<1> QED  BY <1>1, <1>2, <1>3

LEMMA OnlyHas ==
  ASSUME NEW q \in Seq(Message), NEW K, NEW ms, ms = Only(q, K)
  PROVE  ms \in Seq(Message) /\ ToSet(ms) = ToSet(q) \cap K /\ ToSet(ms) \in SUBSET Message
<1>1. ms \in Seq(Message)
  BY OnlyType
<1>2. ToSet(ms) = ToSet(q) \cap K
  BY OnlyHolds
<1>3. ToSet(ms) \subseteq Message
  BY <1>1, SetType
<1> QED  BY <1>1, <1>2, <1>3

LEMMA SubscribeCore ==
  ASSUME Core, NEW c \in Conn, NEW leaves \in BOOLEAN, Subscribe(c, leaves) PROVE Core'
<1>0. SUFFICES ASSUME NEW s, s = SidOf[c],
                      NEW e, e = Expire(inbox, {s}),
                      NEW ms, ms = Only(e.held[s], Message \ Claimed(s))
               PROVE  Core'
  OBVIOUS
<1>1. /\ up /\ up' = up /\ crashes' = crashes /\ standing' = standing
      /\ issued' = issued /\ counter' = counter /\ file' = file /\ torn' = torn /\ aged' = aged
      /\ offer' = offer /\ op' = op /\ said' = said
      /\ inbox' = Delivered(e, s, ms, "none")
      /\ sub' = (IF leaves THEN sub \ {c} ELSE sub \cup {c})
      /\ \/ leaves /\ got' = got /\ ever' = ever /\ strayed' = strayed \cup ToSet(ms)
         \/ ~leaves /\ strayed' = strayed /\ HandAll(ToSet(ms))
  BY <1>0 DEF Subscribe, HandNothing
<1>2. s \in Sid /\ {s} \in SUBSET Sid
  BY <1>0 DEF Core, Given
<1>3. /\ e \in InboxState /\ e.queue = inbox.queue /\ e.evicted = inbox.evicted
      /\ \A t \in Sid : e.held[t] = Only(inbox.held[t], IF t \in {s} THEN Young ELSE Message)
      /\ Thinner(inbox.held, e.held)
  <2> DEFINE b == inbox
             S == {s}
  <2>1. /\ b \in InboxState /\ aged \in Int /\ MaxSends \in Nat
        /\ \A t \in Sid : TellsApart(b.held[t])
        /\ S \in SUBSET Sid /\ e = Expire(b, S)
    BY <1>0, <1>2, CoreTypes, CoreApart
  <2> HIDE DEF b, S
  <2>2. /\ e \in InboxState /\ e.queue = b.queue /\ e.evicted = b.evicted
        /\ e.view = b.view \ GoneOf(b.held, S)
        /\ e.told = b.told \cup (GoneOf(b.held, S) \X {"expired"})
        /\ \A t \in Sid : e.held[t] = Only(b.held[t], IF t \in S THEN Young ELSE Message)
        /\ Thinner(b.held, e.held)
    BY <2>1, ExpireDoes
  <2> QED  BY <2>2 DEF b, S
<1>4. /\ ToSet(e.held[s]) \subseteq ToSet(inbox.held[s]) /\ e.held \in Helds /\ e.held[s] \in Seq(Message)
      /\ inbox.held[s] \in Seq(Message)
  BY <1>2, <1>3, CoreTypes, InboxHas DEF Thinner
<1>5. ms \in Seq(Message) /\ ToSet(ms) = ToSet(e.held[s]) \cap (Message \ Claimed(s))
      /\ ToSet(ms) \in SUBSET Message
  <2> DEFINE q == e.held[s]
             K == Message \ Claimed(s)
  <2>1. q \in Seq(Message) /\ ms = Only(q, K)
    BY <1>0, <1>4
  <2> HIDE DEF q, K
  <2>2. ms \in Seq(Message) /\ ToSet(ms) = ToSet(q) \cap K /\ ToSet(ms) \in SUBSET Message
    BY <2>1, OnlyHas
  <2> QED  BY <2>2 DEF q, K
<1>6. ASSUME NEW m \in ToSet(ms)
      PROVE  /\ m \in ToSet(inbox.held[s]) /\ Speaks(s, m) /\ m <= Len(issued)
             /\ \A t \in Sid : Speaks(t, m) => t = s
             /\ \A o \in Op : op[o].pc = "direct" => op[o].msg # m
             /\ got[m] = 0 \/ m \in strayed
             /\ m \notin ToSet(Left(s))
  <2>1. m \in ToSet(inbox.held[s]) /\ m \notin ToSet(Left(s))
    BY <1>2, <1>4, <1>5, CoreOffers
  <2> QED  BY <1>2, <2>1, OfferedIsOurs DEF Core, Unhanded
<1>7. LeftAs(e, inbox', s, ms, "none")
  <2> DEFINE by == "none"
             f == inbox'
  <2>1. by \in {"offer", "none"} /\ f = Delivered(e, s, ms, by)
    BY <1>1
  <2> HIDE DEF by, f
  <2>2. \A m \in ToSet(e.held[s]), n \in ToSet(ms) : issued[m] = issued[n] => m = n
    <3>1. TellsApart(inbox.held[s])
      BY <1>2, CoreApart
    <3>2. ToSet(ms) \subseteq ToSet(inbox.held[s])
      BY <1>6
    <3> QED  BY <1>4, <3>1, <3>2 DEF TellsApart
  <2>3. e \in InboxState /\ s \in Sid /\ ms \in Seq(Message)
    BY <1>2, <1>3, <1>5
  <2>4. LeftAs(e, f, s, ms, by)
    BY <2>1, <2>2, <2>3, DeliveredDoes
  <2> QED  BY <2>4 DEF by, f
<1>8. /\ inbox' \in InboxState /\ inbox'.evicted = inbox.evicted
      /\ inbox'.queue = inbox.queue \/ inbox'.queue = inbox.queue \o Leaving(ms, s, "none")
      /\ inbox'.held[s] = Only(e.held[s], Message \ ToSet(ms))
      /\ Thinner(inbox.held, inbox'.held)
  <2>1. Thinner(inbox.held, inbox'.held)
    <3> DEFINE h == inbox.held
               k == e.held
               l == inbox'.held
    <3>1. h \in Helds /\ k \in Helds /\ l \in Helds /\ Thinner(h, k) /\ Thinner(k, l)
      <4>1. inbox' \in InboxState /\ Thinner(e.held, inbox'.held)
        BY <1>7 DEF LeftAs
      <4>2. inbox'.held \in Helds
        BY <4>1, InboxHas
      <4> QED  BY <1>3, <1>4, <4>1, <4>2, CoreTypes
    <3> HIDE DEF h, k, l
    <3>2. Thinner(h, l)
      BY <3>1, ThinnerStill
    <3> QED  BY <3>2 DEF h, l
  <2>2. inbox'.held[s] = Only(e.held[s], Message \ ToSet(ms))
    BY <1>2, <1>4, <1>7 DEF LeftAs, Helds
  <2> QED  BY <1>3, <1>7, <2>1, <2>2 DEF LeftAs
<1>9. \A t \in Sid : HeldMoves(t)
  BY <1>8, ThinMoves
<1>10. \A t \in Sid : OfferMoves(t)
  BY <1>1, OfferStays
<1>11. ToSet(inbox'.held[s]) = ToSet(e.held[s]) \cap (Message \ ToSet(ms))
  <2> DEFINE q == e.held[s]
             K == Message \ ToSet(ms)
             r == inbox'.held[s]
  <2>1. q \in Seq(Message) /\ r = Only(q, K)
    BY <1>4, <1>8
  <2> HIDE DEF q, K, r
  <2>2. ToSet(r) = ToSet(q) \cap K
    BY <2>1, OnlyHas
  <2> QED  BY <2>2 DEF q, K, r
<1>12. \E G : Handing(G) /\ Through(G)
  <2>1. CASE leaves
    BY <1>1, <2>1, NothingHanded
  <2>2. CASE ~leaves
    <3>1. Handing(ToSet(ms))
      BY <1>1, <1>5, <1>6, <2>2, HandDoes
    <3>2. \A t \in Sid : Left(t)' = Left(t)
      BY <1>1 DEF Left
    <3>3. ASSUME NEW t \in Sid, NEW m \in ToSet(ms)
          PROVE  m \notin ToSet(inbox'.held[t]) /\ m \notin ToSet(Left(t)')
      <4>1. CASE t = s
        BY <1>6, <1>11, <3>2, <4>1
      <4>2. CASE t # s
        <5>1. ~Speaks(t, m)
          BY <1>6, <4>2
        <5>2. m \notin ToSet(inbox.held[t]) /\ m \notin ToSet(Left(t))
          BY <5>1, CoreOffers DEF Speaks
        <5> QED  BY <1>8, <3>2, <5>2 DEF Thinner
      <4> QED  BY <4>1, <4>2
    <3>4. Through(ToSet(ms))
      BY <1>1, <1>6, <3>3 DEF Through
    <3> QED  BY <3>1, <3>4
  <2> QED  BY <2>1, <2>2
<1>13. /\ got' \in [Message -> 0..2] /\ ever' \subseteq Message /\ ever \subseteq ever'
       /\ strayed' \subseteq Message /\ strayed \subseteq strayed'
       /\ ToSet(ms) \subseteq ever' \cup strayed'
  <2>1. CASE leaves
    BY <1>1, <1>5, <2>1, CoreTypes
  <2>2. CASE ~leaves
    <3>1. got' \in [Message -> 0..2] /\ ever' \subseteq Message /\ ever' = ever \cup ToSet(ms)
      BY <1>1, <1>5, <1>6, <2>2, HandDoes
    <3> QED  BY <1>1, <2>2, <3>1, CoreTypes
  <2> QED  BY <2>1, <2>2
<1>14. Owing' /\ LinesMove
  <2> DEFINE by == "none"
  <2>1. /\ by \in {"offer", "none"} /\ by # "offer"
        /\ inbox'.queue = inbox.queue \/ inbox'.queue = inbox.queue \o Leaving(ms, s, by)
        /\ \A m \in ToSet(ms) : Speaks(s, m) /\ m \in ever' \cup strayed'
    BY <1>6, <1>8, <1>13
  <2> HIDE DEF by
  <2> QED  BY <1>1, <1>2, <1>5, <1>8, <1>9, <1>13, <2>1, LeavingOwed
<1>15. OwedOnce'
  <2> SUFFICES ASSUME NEW x \in Owed, NEW y \in Owed, Before(inbox'.queue, x, y) PROVE ~Clash(x, y)
    BY DEF OwedOnce
  <2>1. CASE Before(inbox.queue, x, y)
    BY <2>1 DEF Core, OwedOnce
  <2>2. CASE inbox'.queue = inbox.queue \o Leaving(ms, s, "none") /\ ~Before(inbox.queue, x, y)
    <3> DEFINE by == "none"
               l == Leaving(ms, s, by)
               q == inbox.queue
    <3>1. by \in {"offer", "none"}
      OBVIOUS
    <3>2. q \in Seq(Owed) /\ Before(q \o l, x, y) /\ ~Before(q, x, y)
      BY <2>2, CoreTypes
    <3> HIDE DEF by, q
    <3>3. l \in Seq(Owed)
      BY <1>2, <1>5, <3>1, LeavingType
    <3>4. y \in ToSet(l) => (y.by = by /\ y.v = "delivered")
      <4>1. y \in ToSet(l) => \E m \in ToSet(ms) : y = [v |-> "delivered", sid |-> s, msg |-> m, by |-> by]
        BY <1>2, <1>5, <3>1, LeavingHas
      <4> QED  BY <4>1
    <3> HIDE DEF l
    <3>5. y \in ToSet(l)
      BY <3>2, <3>3, BeforeConcat
    <3> QED  BY <3>4, <3>5 DEF Clash, by
  <2> QED  BY <1>8, <2>1, <2>2
<1>16. OpsMove /\ OfferWaits'
  BY <1>1 DEF Core, OfferWaits, OpsMove
<1>17. sub' \subseteq Conn /\ said' \in Saids /\ inbox.evicted \subseteq inbox'.evicted
  BY <1>1, <1>8, CoreTypes DEF Saids
<1> QED  BY <1>1, <1>8, <1>9, <1>10, <1>12, <1>13, <1>14, <1>15, <1>16, <1>17, CoreTypes, MemoryStep

LEMMA UnsubscribeCore == ASSUME Core, NEW c \in Conn, Unsubscribe(c) PROVE Core'
<1>1. /\ up /\ up' = up /\ crashes' = crashes /\ standing' = standing
      /\ issued' = issued /\ counter' = counter /\ file' = file /\ torn' = torn /\ aged' = aged
      /\ offer' = offer /\ op' = op /\ said' = said /\ inbox' = inbox /\ sub' = sub \ {c}
      /\ got' = got /\ ever' = ever /\ strayed' = strayed
  BY DEF Unsubscribe
<1>2. \A t \in Sid : HeldMoves(t)
  BY <1>1, HeldStays
<1>3. \A t \in Sid : OfferMoves(t)
  BY <1>1, OfferStays
<1>4. Owing' /\ OwedOnce' /\ LinesMove
  BY <1>1, <1>2, QueueSame
<1>5. OpsMove /\ OfferWaits'
  BY <1>1 DEF Core, OfferWaits, OpsMove
<1>6. Handing({}) /\ Through({})
  BY <1>1, NothingHanded
<1>7. sub' \subseteq Conn /\ said' \in Saids
  BY <1>1, CoreTypes DEF Saids
<1> QED  BY <1>1, <1>2, <1>3, <1>4, <1>5, <1>6, <1>7, CoreTypes, MemoryStep

(* Time passes, and only the window of retention moves.                    *)
LEMMA AgeCore == ASSUME Core, Age PROVE Core'
<1>1. /\ up' = up /\ crashes' = crashes /\ standing' = standing
      /\ issued' = issued /\ counter' = counter /\ file' = file /\ torn' = torn
      /\ offer' = offer /\ op' = op /\ said' = said /\ inbox' = inbox /\ sub' = sub
      /\ got' = got /\ ever' = ever /\ strayed' = strayed
      /\ aged' = aged + 1 /\ aged < Len(issued)
  BY DEF Age
<1>2. TypeOK'
  <2>1. aged' \in 0..MaxSends
    BY <1>1, CoreTypes
  <2> QED  BY <1>1, <2>1 DEF Core, TypeOK
<1>3. IdleWhenDown' /\ Given'
  BY <1>1 DEF Core, IdleWhenDown, Given
<1>4. Homes' /\ Sends'
  BY <1>1 DEF Core, Homes, MidsApart, MidsCounted, Knows, Speaks, Sends
<1>5. Owing' /\ OwedOnce'
  BY <1>1 DEF Core, Owing, OwedTrue, AddOwed, DroppedOwed, DeliveredOwed, OwedOnce
<1>6. Singles' /\ OfferWaits' /\ AtMostOnce'
  BY <1>1 DEF Core, Singles, OfferWaits, AtMostOnce
<1>7. Unhanded' /\ InOrder'
  BY <1>1 DEF Core, Unhanded, InOrder, Left
<1>8. Durable'
  <2>1. ASSUME NEW m \in Message, Lasting(m) PROVE Lasting(m)'
    BY <1>1, <2>1, CoreTypes DEF Lasting
  <2>2. ASSUME NEW o \in Op, op[o].pc = "dropping" PROVE Lasting(op[o].msg)'
    <3>1. op[o] # Free
      BY <2>2 DEF Free
    <3> QED  BY <1>1, <2>1, <2>2, <3>1, CoreOps DEF Core, Durable
  <2> QED  BY <1>1, <2>1, <2>2 DEF Core, Durable
<1> QED  BY <1>2, <1>3, <1>4, <1>5, <1>6, <1>7, <1>8 DEF Core

-----------------------------------------------------------------------------
(* The line at the head of what is owed goes.                              *)
LEMMA QueueHead ==
  ASSUME Core, inbox.queue # <<>>, NEW h, h = Head(inbox.queue)
  PROVE  /\ h \in ToSet(inbox.queue) /\ h \in Owed /\ OwedTrue(h)
         /\ Tail(inbox.queue) \in Seq(Owed) /\ ToSet(Tail(inbox.queue)) \subseteq ToSet(inbox.queue)
         /\ \A x \in ToSet(Tail(inbox.queue)) : ~Clash(h, x)
         /\ \A a, b : Before(Tail(inbox.queue), a, b) => Before(inbox.queue, a, b)
         /\ About(Tail(inbox.queue)) \subseteq About(inbox.queue)
         /\ <<h.sid, h.msg>> \in About(inbox.queue)
<1> DEFINE q == inbox.queue
<1>1. q \in Seq(Owed) /\ q # <<>> /\ h = Head(q)
  BY CoreTypes
<1>2. \A x, y \in Owed : Before(q, x, y) => ~Clash(x, y)
  BY DEF Core, OwedOnce
<1>3. \A x \in ToSet(q) : x \in Owed /\ OwedTrue(x) /\ <<x.sid, x.msg>> \in About(q)
  BY AboutTypes DEF Core, Owing
<1> HIDE DEF q
<1>4. /\ Tail(q) \in Seq(Owed) /\ ToSet(q) = {h} \cup ToSet(Tail(q))
      /\ \A a, b : Before(Tail(q), a, b) => Before(q, a, b)
      /\ \A a \in ToSet(Tail(q)) : Before(q, h, a)
      /\ q = <<h>> \o Tail(q)
  BY <1>1, TailHas
<1>5. About(Tail(q)) \subseteq About(q)
  <2>1. <<h>> \in Seq(Owed)
    BY <1>3, <1>4
  <2>2. About(<<h>> \o Tail(q)) = About(<<h>>) \cup About(Tail(q))
    <3> DEFINE a == <<h>>
               b == Tail(q)
    <3>1. a \in Seq(Owed) /\ b \in Seq(Owed)
      BY <1>4, <2>1
    <3> HIDE DEF a, b
    <3>2. About(a \o b) = About(a) \cup About(b)
      BY <3>1, AboutConcat
    <3> QED  BY <3>2 DEF a, b
  <2> QED  BY <1>4, <2>2
<1>6. \A x \in ToSet(Tail(q)) : ~Clash(h, x)
  BY <1>2, <1>3, <1>4
<1> QED  BY <1>3, <1>4, <1>5, <1>6 DEF q

LEMMA TailOwed ==
  ASSUME Core, inbox.queue # <<>>, NEW h, h = Head(inbox.queue), \A t \in Sid : HeldMoves(t),
         file' = file \/ About(file') = About(file) \cup {<<h.sid, h.msg>>},
         \A o \in Op : op[o].pc \in {"adding", "dropping"} => (op'[o] = op[o] \/ o = h.by),
         \A t \in Sid : (offer[t].rest # <<>> /\ offer[t].writing) =>
           ((offer'[t].rest # <<>> /\ offer'[t].writing) \/ (h.by = "offer" /\ t = h.sid)),
         inbox.evicted \subseteq inbox'.evicted, ever \subseteq ever', strayed \subseteq strayed',
         NEW x \in ToSet(Tail(inbox.queue))
  PROVE  OwedTrue(x)'
<1>1. x \in ToSet(inbox.queue) /\ ~Clash(h, x) /\ h \in Owed
  BY QueueHead
<1>2. /\ x \in Owed /\ OwedTrue(x) /\ x.sid \in Sid /\ x.msg \in Message
      /\ x.by \in Op => op[x.by].pc \in {"adding", "dropping"}
      /\ x.by = "offer" => (offer[x.sid].rest # <<>> /\ offer[x.sid].writing)
  BY <1>1, QueueOwners
<1>3. x.by \in Op => op'[x.by] = op[x.by]
  <2> SUFFICES ASSUME x.by \in Op PROVE op'[x.by] = op[x.by]
    OBVIOUS
  <2>1. x.by # "none" /\ x.by # "offer"
    BY CoreOps
  <2>2. x.by # h.by
    BY <1>1, <2>1 DEF Clash
  <2> QED  BY <1>2, <2>2
<1>4. x.by = "offer" => (offer'[x.sid].rest # <<>> /\ offer'[x.sid].writing)
  BY <1>1, <1>2 DEF Clash
<1>5. x.v = "add" => <<x.sid, x.msg>> \notin About(file') \/ file' = file
  BY <1>1, <1>2 DEF Clash, OwedTrue, AddOwed
<1> QED  BY <1>1, <1>3, <1>4, <1>5, OwedKept

LEMMA QueueGoesOn ==
  ASSUME Core, inbox.queue # <<>>, NEW h, h = Head(inbox.queue), \A t \in Sid : HeldMoves(t),
         inbox'.queue = Tail(inbox.queue),
         file' = file \/ About(file') = About(file) \cup {<<h.sid, h.msg>>},
         \A o \in Op : op[o].pc \in {"adding", "dropping"} => (op'[o] = op[o] \/ o = h.by),
         \A t \in Sid : (offer[t].rest # <<>> /\ offer[t].writing) =>
           ((offer'[t].rest # <<>> /\ offer'[t].writing) \/ (h.by = "offer" /\ t = h.sid)),
         inbox.evicted \subseteq inbox'.evicted, ever \subseteq ever', strayed \subseteq strayed'
  PROVE  Owing' /\ OwedOnce' /\ LinesMove
<1>1. Owing'
  BY TailOwed DEF Owing
<1>2. OwedOnce'
  BY QueueHead DEF Core, OwedOnce
<1>3. LinesMove
  BY QueueHead DEF LinesMove, Speaks
<1> QED  BY <1>1, <1>2, <1>3

LEMMA AppendFailsCore == ASSUME Core, AppendFails PROVE Core'
<1>0. SUFFICES ASSUME NEW h, h = Head(inbox.queue) PROVE Core'
  OBVIOUS
<1>1. /\ up /\ up' = up /\ crashes' = crashes /\ standing' = standing
      /\ issued' = issued /\ counter' = counter /\ file' = file /\ aged' = aged
      /\ sub' = sub /\ got' = got /\ ever' = ever /\ strayed' = strayed
      /\ inbox.queue # <<>> /\ inbox' = [inbox EXCEPT !.queue = Tail(@)] /\ torn' \in {torn, TRUE}
      /\ \/ h.v \in {"add", "dropped"} /\ Answer(h.by, "failed") /\ offer' = offer
         \/ h.by = "offer" /\ EndOffer(h.sid, "failed")
         \/ h.by = "none" /\ offer' = offer /\ op' = op /\ said' = said
  BY <1>0 DEF AppendFails
<1>2. /\ h \in ToSet(inbox.queue) /\ h \in Owed /\ Tail(inbox.queue) \in Seq(Owed)
  BY <1>0, <1>1, QueueHead
<1>3. /\ h.sid \in Sid
      /\ h.by \in Op => op[h.by].pc \in {"adding", "dropping"} /\ op[h.by] # Free
      /\ h.v \in {"add", "dropped"} => h.by \in Op
  BY <1>2, QueueOwners
<1>4. /\ inbox' \in InboxState /\ inbox'.queue = Tail(inbox.queue) /\ inbox'.held = inbox.held
      /\ inbox'.evicted = inbox.evicted
  <2>1. inbox \in InboxState
    BY CoreTypes
  <2> QED  BY <1>1, <1>2, <2>1 DEF InboxState
<1>5. /\ offer' \in [Sid -> Offer] /\ op' \in [Op -> Request \cup {Free}] /\ said' \in Saids
      /\ \A t \in Sid : OfferMoves(t)
      /\ \A t \in Sid : offer'[t] = offer[t] \/ (h.by = "offer" /\ t = h.sid)
      /\ OpsMove /\ OfferWaits'
      /\ \A o \in Op : op[o].pc \in {"adding", "dropping"} => (op'[o] = op[o] \/ o = h.by)
      /\ \A o \in Op : op'[o].pc = "dropping" => op'[o] = op[o]
      /\ \A m \in Message : said'[m] = "held" => said[m] = "held"
  <2>1. CASE h.v \in {"add", "dropped"} /\ Answer(h.by, "failed") /\ offer' = offer
    <3> DEFINE o == h.by
    <3>1. o \in Op /\ op[o] # Free /\ op[o].pc \in {"adding", "dropping"} /\ Answer(o, "failed") /\ "failed" \in Answers
      BY <1>3, <2>1 DEF Answers
    <3> HIDE DEF o
    <3>2. /\ op' \in [Op -> Request \cup {Free}] /\ said' \in Saids
          /\ \A p \in Op : op'[p] = IF p = o THEN Free ELSE op[p]
          /\ \A m \in Message : said'[m] = IF m = op[o].msg THEN "failed" ELSE said[m]
      BY <3>1, AnswerDoes
    <3>3. \A t \in Sid : OfferMoves(t)
      BY <2>1, OfferStays
    <3>4. OpsMove
      BY <3>2 DEF OpsMove
    <3>5. OfferWaits'
      <4> SUFFICES ASSUME NEW t \in Sid, offer[t].by # NoOp
                   PROVE  op'[offer[t].by].pc = "offering" /\ op'[offer[t].by].sid = t
        BY <2>1 DEF OfferWaits
      <4>1. op[offer[t].by].pc = "offering" /\ op[offer[t].by].sid = t /\ offer[t].by \in Op
        BY CoreOffers DEF Core, OfferWaits
      <4> QED  BY <3>1, <3>2, <4>1
    <3>6. Free.pc = "free"
      BY DEF Free
    <3> QED  BY <2>1, <3>2, <3>3, <3>4, <3>5, <3>6, CoreTypes DEF o
  <2>2. CASE h.by = "offer" /\ EndOffer(h.sid, "failed")
    <3>1. OfferOnly(h.sid) /\ offer'[h.sid] = NoOffer
      BY <1>3, <2>2, EndOfferDoes
    <3>2. /\ OpsMove /\ OfferWaits'
          /\ \A o \in Op : op[o].pc \in {"adding", "dropping"} => op'[o] = op[o]
          /\ \A o \in Op : op'[o].pc = "dropping" => op'[o] = op[o]
      BY <1>3, <3>1, OfferOnlyMoves
    <3>3. \A t \in Sid : OfferMoves(t)
      BY <1>3, <3>1, OfferStays, OfferEnds DEF OfferOnly
    <3> QED  BY <2>2, <3>1, <3>2, <3>3 DEF OfferOnly
  <2>3. CASE h.by = "none" /\ offer' = offer /\ op' = op /\ said' = said
    <3>1. \A t \in Sid : OfferMoves(t)
      BY <2>3, OfferStays
    <3>2. OpsMove /\ OfferWaits'
      BY <2>3 DEF Core, OfferWaits, OpsMove
    <3> QED  BY <2>3, <3>1, <3>2, CoreTypes DEF Saids
  <2> QED  BY <1>1, <2>1, <2>2, <2>3
<1>6. \A t \in Sid : HeldMoves(t)
  BY <1>4, HeldStays
<1>7. Owing' /\ OwedOnce' /\ LinesMove
  BY <1>0, <1>1, <1>4, <1>5, <1>6, QueueGoesOn
<1>8. Handing({}) /\ Through({})
  BY <1>1, NothingHanded
<1>9. torn' \in BOOLEAN /\ inbox.evicted \subseteq inbox'.evicted
  BY <1>1, <1>4, CoreTypes
<1> QED  BY <1>1, <1>4, <1>5, <1>6, <1>7, <1>8, <1>9, CoreTypes, MemoryStep

(* A step that may also write to the file.                                 *)
LEMMA FileStep ==
  ASSUME Core, up', up, file' \in Seq(InboxLine), torn' \in BOOLEAN, issued' = issued, counter' = counter,
         crashes' = crashes, aged' = aged, standing' = standing, sub' = sub, got' = got, ever' = ever,
         inbox' \in InboxState, offer' \in [Sid -> Offer], op' \in [Op -> Request \cup {Free}],
         said' \in Saids, strayed' \subseteq Message, strayed \subseteq strayed',
         \A s \in Sid : HeldMoves(s) /\ OfferMoves(s), OpsMove, LinesMove,
         \A s \in Sid : NoneTwice(Kept(file')[s]),
         Owing', OwedOnce', OfferWaits', Durable'
  PROVE  Core'
<1>1. inbox'.held \in Helds
  BY InboxHas
<1>2. Handing({}) /\ Through({})
  BY NothingHanded
<1>3. Homes' /\ Sends' /\ Singles' /\ Unhanded' /\ InOrder' /\ AtMostOnce'
  BY <1>1, <1>2, StepKeeps
<1>4. TypeOK'
  BY CoreTypes DEF TypeOK, Saids, InboxState
<1>5. IdleWhenDown'
  BY DEF IdleWhenDown
<1>6. Given'
  BY DEF Core, Given
<1> QED  BY <1>3, <1>4, <1>5, <1>6 DEF Core

(* What the head of what is owed makes of the file.                        *)
LEMMA HeadWritten ==
  ASSUME Core, inbox.queue # <<>>, NEW h, h = Head(inbox.queue),
         file' = Append(file, LineOf(h))
  PROVE  /\ file' \in Seq(InboxLine) /\ About(file') = About(file) \cup {<<h.sid, h.msg>>}
         /\ Kept(file') = Past(Kept(file), h)
         /\ \A s \in Sid : NoneTwice(Kept(file')[s])
         /\ \A s \in Sid : s # h.sid => Kept(file')[s] = Kept(file)[s]
         /\ h.v # "add" => ToSet(Kept(file')[h.sid]) = ToSet(Kept(file)[h.sid]) \ {h.msg}
         /\ h.v = "add" => ToSet(Kept(file')[h.sid]) = ToSet(Kept(file)[h.sid]) \cup {h.msg}
<1>1. h \in Owed /\ OwedTrue(h) /\ h.sid \in Sid /\ h.msg \in Message
  BY QueueHead, QueueOwners
<1>2. /\ LineOf(h) \in InboxLine /\ LineOf(h) \in Entry /\ h \in Entry
      /\ \A k : Past(k, LineOf(h)) = Past(k, h)
      /\ LineOf(h).sid = h.sid /\ LineOf(h).msg = h.msg
  BY <1>1, LineOfSays
<1>3. file \in Seq(InboxLine) /\ file \in Seq(Entry)
  BY CoreTypes
<1>4. file' \in Seq(InboxLine)
  BY <1>2, <1>3, AppendProperties
<1>5. About(file') = About(file) \cup {<<h.sid, h.msg>>}
  BY <1>2, <1>3, AboutAppend
<1>6. Kept(file') = Past(Kept(file), h)
  <2>1. Kept(Append(file, LineOf(h))) = Past(Kept(file), LineOf(h))
    BY <1>2, <1>3, KeptAppend
  <2> QED  BY <1>2, <2>1
<1> DEFINE k == Kept(file)
<1>7. k \in Helds
  BY <1>3, KeptType
<1>8. h.v = "add" => h.msg \notin ToSet(k[h.sid])
  BY <1>1, <1>3, KeptIsAbout DEF OwedTrue, AddOwed
<1>9. \A s \in Sid : NoneTwice(k[s])
  BY DEF Core, Singles
<1> HIDE DEF k
<1>10. \A s \in Sid : s # h.sid => Past(k, h)[s] = k[s]
  BY <1>2, <1>7, PastHolds
<1>11. /\ h.v # "add" => ToSet(Past(k, h)[h.sid]) = ToSet(k[h.sid]) \ {h.msg}
       /\ h.v = "add" => ToSet(Past(k, h)[h.sid]) = ToSet(k[h.sid]) \cup {h.msg}
  BY <1>1, <1>2, <1>7, PastHolds
<1>12. \A s \in Sid : NoneTwice(Past(k, h)[s])
  <2> SUFFICES ASSUME NEW s \in Sid, NEW a, Before(Past(k, h)[s], a, a) PROVE FALSE
    BY DEF NoneTwice
  <2>1. s = h.sid
    BY <1>9, <1>10 DEF NoneTwice
  <2>2. k[s] \in Seq(Message)
    BY <1>7 DEF Helds
  <2>3. CASE h.v = "add"
    <3>1. Past(k, h)[s] = Append(k[s], h.msg)
      BY <1>7, <2>1, <2>3 DEF Past, Helds
    <3>2. Before(Append(k[s], h.msg), a, a) <=> Before(k[s], a, a) \/ (a \in ToSet(k[s]) /\ a = h.msg)
      BY <1>1, <2>2, BeforeAppend
    <3> QED  BY <1>8, <1>9, <2>1, <2>3, <3>1, <3>2 DEF NoneTwice
  <2>4. CASE h.v # "add"
    <3>1. Past(k, h)[s] = Only(k[s], Message \ {h.msg})
      BY <1>7, <2>1, <2>4 DEF Past, Helds
    <3>2. Before(k[s], a, a)
      BY <2>2, <3>1, BeforeOnly
    <3> QED  BY <1>9, <3>2 DEF NoneTwice
  <2> QED  BY <2>3, <2>4
<1> QED  BY <1>4, <1>5, <1>6, <1>10, <1>11, <1>12 DEF k

(* What the file has to keep it keeps, and a message added is there.       *)
LEMMA HeadLands ==
  ASSUME Core, inbox.queue # <<>>, NEW h, h = Head(inbox.queue),
         file' = IF torn THEN file ELSE Append(file, LineOf(h)),
         strayed' = IF torn THEN strayed \cup {h.msg} ELSE strayed,
         ever' = ever, aged' = aged, inbox.evicted \subseteq inbox'.evicted
  PROVE  /\ file' \in Seq(InboxLine)
         /\ file' = file \/ About(file') = About(file) \cup {<<h.sid, h.msg>>}
         /\ \A s \in Sid : NoneTwice(Kept(file')[s])
         /\ strayed' \subseteq Message /\ strayed \subseteq strayed'
         /\ \A m \in Message : Lasting(m) => Lasting(m)'
         /\ h.v = "add" => Lasting(h.msg)'
<1>1. h \in Owed /\ OwedTrue(h) /\ h.sid \in Sid /\ h.msg \in Message /\ h.v \in {"add", "dropped", "delivered"}
  BY QueueHead, QueueOwners
<1>2. CASE torn
  <2>1. file' = file /\ strayed' = strayed \cup {h.msg}
    BY <1>2
  <2>2. \A s \in Sid : NoneTwice(Kept(file')[s])
    BY <2>1 DEF Core, Singles
  <2>3. \A m \in Message : Lasting(m) => Lasting(m)'
    BY <2>1 DEF Lasting
  <2> QED  BY <1>1, <2>1, <2>2, <2>3, CoreTypes DEF Lasting
<1>3. CASE ~torn
  <2>1. file' = Append(file, LineOf(h)) /\ strayed' = strayed
    BY <1>3
  <2>2. /\ file' \in Seq(InboxLine) /\ About(file') = About(file) \cup {<<h.sid, h.msg>>}
        /\ \A s \in Sid : NoneTwice(Kept(file')[s])
        /\ \A s \in Sid : s # h.sid => Kept(file')[s] = Kept(file)[s]
        /\ h.v # "add" => ToSet(Kept(file')[h.sid]) = ToSet(Kept(file)[h.sid]) \ {h.msg}
        /\ h.v = "add" => ToSet(Kept(file')[h.sid]) = ToSet(Kept(file)[h.sid]) \cup {h.msg}
    BY <2>1, HeadWritten
  <2>3. ASSUME NEW m \in Message, Lasting(m) PROVE Lasting(m)'
    <3>1. CASE m \in ever \/ m <= aged \/ m \in inbox.evicted \/ m \in strayed
      BY <2>1, <3>1 DEF Lasting
    <3>2. CASE \E s \in Sid : m \in ToSet(Kept(file)[s])
      <4>1. PICK s \in Sid : m \in ToSet(Kept(file)[s])
        BY <3>2
      <4>2. CASE m \in ToSet(Kept(file')[s])
        BY <4>2 DEF Lasting
      <4>3. CASE m \notin ToSet(Kept(file')[s])
        <5>1. s = h.sid /\ h.v # "add" /\ m = h.msg
          BY <2>2, <4>1, <4>3
        <5>2. m \in inbox.evicted \/ m \in ever \cup strayed
          BY <1>1, <5>1 DEF OwedTrue, DroppedOwed, DeliveredOwed
        <5> QED  BY <2>1, <5>2 DEF Lasting
      <4> QED  BY <4>2, <4>3
    <3> QED  BY <2>3, <3>1, <3>2 DEF Lasting
  <2>4. h.v = "add" => Lasting(h.msg)'
    BY <1>1, <2>2 DEF Lasting
  <2> QED  BY <2>1, <2>2, <2>3, <2>4, CoreTypes
<1> QED  BY <1>2, <1>3

(* The line a request waited for is there and the request is answered.     *)
LEMMA AnsweredCore ==
  ASSUME Core, up, up' = up, crashes' = crashes, standing' = standing, issued' = issued,
         counter' = counter, aged' = aged, sub' = sub, got' = got, ever' = ever, torn' \in BOOLEAN,
         inbox.queue # <<>>, NEW h, h = Head(inbox.queue), h.v \in {"add", "dropped"},
         NEW o, o = h.by, Answer(o, "held"), offer' = offer,
         inbox' \in InboxState, inbox'.queue = Tail(inbox.queue), inbox'.held = inbox.held,
         inbox'.evicted = inbox.evicted,
         file' = IF torn THEN file ELSE Append(file, LineOf(h)),
         strayed' = IF torn THEN strayed \cup {h.msg} ELSE strayed
  PROVE  Core'
<1>1. /\ h \in ToSet(inbox.queue) /\ h \in Owed /\ OwedTrue(h)
  BY QueueHead
<1>2. o \in Op /\ op[o].pc \in {"adding", "dropping"} /\ op[o] # Free
  BY <1>1, QueueOwners
<1>3. /\ op' \in [Op -> Request \cup {Free}] /\ said' \in Saids
      /\ \A p \in Op : op'[p] = IF p = o THEN Free ELSE op[p]
      /\ \A m \in Message : said'[m] = IF m = op[o].msg THEN "held" ELSE said[m]
  <2>1. "held" \in Answers
    BY DEF Answers
  <2> QED  BY <1>2, <2>1, AnswerDoes
<1>4. /\ file' \in Seq(InboxLine)
      /\ file' = file \/ About(file') = About(file) \cup {<<h.sid, h.msg>>}
      /\ \A s \in Sid : NoneTwice(Kept(file')[s])
      /\ strayed' \subseteq Message /\ strayed \subseteq strayed'
      /\ \A m \in Message : Lasting(m) => Lasting(m)'
      /\ h.v = "add" => Lasting(h.msg)'
  BY HeadLands
<1>5. \A t \in Sid : HeldMoves(t)
  BY HeldStays
<1>6. \A t \in Sid : OfferMoves(t)
  BY OfferStays
<1>7. Owing' /\ OwedOnce' /\ LinesMove
  <2>1. inbox.evicted \subseteq inbox'.evicted /\ ever \subseteq ever'
    OBVIOUS
  <2>2. \A p \in Op : op[p].pc \in {"adding", "dropping"} => (op'[p] = op[p] \/ p = h.by)
    BY <1>3
  <2> QED  BY <1>4, <1>5, <2>1, <2>2, QueueGoesOn
<1>8. OpsMove
  BY <1>3 DEF OpsMove
<1>9. OfferWaits'
  <2> SUFFICES ASSUME NEW t \in Sid, offer[t].by # NoOp
               PROVE  op'[offer[t].by].pc = "offering" /\ op'[offer[t].by].sid = t
    BY DEF OfferWaits
  <2>1. op[offer[t].by].pc = "offering" /\ op[offer[t].by].sid = t /\ offer[t].by \in Op
    BY CoreOffers DEF Core, OfferWaits
  <2> QED  BY <1>2, <1>3, <2>1
<1>10. Free.pc = "free"
  BY DEF Free
<1>11. Durable'
  <2>1. ASSUME NEW m \in Message, said'[m] = "held"
        PROVE  \/ said[m] = "held" \/ Lasting(m)'
               \/ \E p \in Op : op[p].pc = "dropping" /\ op[p].msg = m
    <3>1. CASE m # op[o].msg
      BY <1>3, <2>1, <3>1
    <3>2. CASE m = op[o].msg /\ h.v = "dropped"
      BY <1>1, <1>2, <3>2 DEF OwedTrue, DroppedOwed
    <3>3. CASE m = op[o].msg /\ h.v = "add"
      <4>1. op[o].msg = h.msg
        BY <1>1, <3>3 DEF OwedTrue, AddOwed
      <4>2. m = h.msg
        BY <3>3, <4>1
      <4> QED  BY <1>4, <3>3, <4>2
    <3> QED  BY <3>1, <3>2, <3>3
  <2>2. \A p \in Op : \A m : (op'[p].pc = "dropping" /\ op'[p].msg = m) =>
            (m \in Message /\ (op'[p] = op[p] \/ Lasting(m)'))
    <3> SUFFICES ASSUME NEW p \in Op, op'[p].pc = "dropping" PROVE op'[p].msg \in Message /\ op'[p] = op[p]
      OBVIOUS
    <3>1. op'[p] = op[p] /\ op[p] # Free
      BY <1>3, <1>10
    <3> QED  BY <3>1, CoreOps
  <2> QED  BY <1>4, <2>1, <2>2, DurableKept
<1>12. offer' \in [Sid -> Offer]
  BY CoreTypes
<1> QED  BY <1>3, <1>4, <1>5, <1>6, <1>7, <1>8, <1>9, <1>11, <1>12, FileStep

(* What a sequence of lines has more with the line x at its end.           *)
GrowsBy(k, x) ==
  /\ ToSet(Append(k, x)) = ToSet(k) \cup {x}
  /\ About(Append(k, x)) = About(k) \cup {<<x.sid, x.msg>>}
  /\ \A a, b : Before(Append(k, x), a, b) <=> Before(k, a, b) \/ (a \in ToSet(k) /\ b = x)

LEMMA OneMore == ASSUME NEW k \in Seq(Owed), NEW x \in Owed PROVE GrowsBy(k, x)
<1>1. ToSet(Append(k, x)) = ToSet(k) \cup {x}
  BY SetOfAppend
<1>2. About(Append(k, x)) = About(k) \cup {<<x.sid, x.msg>>}
  BY AboutAppend
<1>3. \A a, b : Before(Append(k, x), a, b) <=> Before(k, a, b) \/ (a \in ToSet(k) /\ b = x)
  BY BeforeAppend
<1> QED  BY <1>1, <1>2, <1>3 DEF GrowsBy

(* The inbox e is b with h held, q owed and d evicted.                     *)
SetAs(b, e, h, q, d) ==
  /\ e \in InboxState /\ e.held = h /\ e.queue = q /\ e.evicted = d
  /\ e.view = b.view /\ e.told = b.told

LEMMA InboxSet ==
  ASSUME NEW b \in InboxState, NEW h \in Helds, NEW q \in Seq(Owed), NEW d \in SUBSET Message,
         NEW e, e = [b EXCEPT !.held = h, !.evicted = d, !.queue = q]
  PROVE  SetAs(b, e, h, q, d)
BY DEF InboxState, Helds, SetAs

(* The line is there and the list over its limit: the oldest goes.         *)
LEMMA EvictedCore ==
  ASSUME Core, up, up' = up, crashes' = crashes, standing' = standing, issued' = issued,
         counter' = counter, aged' = aged, sub' = sub, got' = got, ever' = ever, torn' \in BOOLEAN,
         inbox.queue # <<>>, NEW h, h = Head(inbox.queue), h.v = "add",
         NEW o, o = h.by, NEW s, s = op[o].sid, NEW m, m = Head(inbox.held[s]), OverLimit(s),
         NEW x, x = [v |-> "dropped", sid |-> s, msg |-> m, by |-> o],
         inbox' = [inbox EXCEPT !.held[s] = Tail(@), !.evicted = @ \cup {m},
                                !.queue = Append(Tail(@), x)],
         op' = [op EXCEPT ![o].pc = "dropping"], said' = said, offer' = offer,
         file' = IF torn THEN file ELSE Append(file, LineOf(h)),
         strayed' = IF torn THEN strayed \cup {h.msg} ELSE strayed
  PROVE  Core'
<1>1. /\ h \in ToSet(inbox.queue) /\ h \in Owed /\ OwedTrue(h)
      /\ Tail(inbox.queue) \in Seq(Owed) /\ ToSet(Tail(inbox.queue)) \subseteq ToSet(inbox.queue)
      /\ \A y \in ToSet(Tail(inbox.queue)) : ~Clash(h, y)
      /\ \A a, b : Before(Tail(inbox.queue), a, b) => Before(inbox.queue, a, b)
      /\ About(Tail(inbox.queue)) \subseteq About(inbox.queue)
  BY QueueHead
<1>2. /\ o \in Op /\ op[o].pc = "adding" /\ op[o].sid = h.sid /\ op[o].msg = h.msg /\ h.sid = s
      /\ h.msg \in Message /\ s \in Sid
  <2>1. h.sid \in Sid /\ h.msg \in Message
    BY <1>1, QueueOwners
  <2>2. AddOwed(h)
    BY <1>1 DEF OwedTrue
  <2>3. o \in Op /\ op[o] = [pc |-> "adding", sid |-> h.sid, msg |-> h.msg]
    BY <2>2 DEF AddOwed
  <2> QED  BY <2>1, <2>3
<1>3. op[o] # Free /\ op[o] \in Request
  <2>1. op[o] # Free
    BY <1>2 DEF Free
  <2> QED  BY <1>2, <2>1, CoreOps
<1>4. inbox.held[s] \in Seq(Message) /\ inbox.held[s] # <<>> /\ NoneTwice(inbox.held[s])
  <2>1. inbox.held[s] \in Seq(Message) /\ MaxHeld \in Nat
    BY <1>2, CoreTypes
  <2>2. Len(inbox.held[s]) > MaxHeld
    BY DEF OverLimit
  <2>3. inbox.held[s] # <<>>
    BY <2>1, <2>2, LongIsSome
  <2>4. NoneTwice(inbox.held[s])
    BY <1>2 DEF Core, Singles
  <2> QED  BY <2>1, <2>3, <2>4
<1> DEFINE q == inbox.held[s]
<1>5. /\ Tail(q) \in Seq(Message) /\ ToSet(Tail(q)) \subseteq ToSet(q)
      /\ m \notin ToSet(Tail(q)) /\ m \in ToSet(q) /\ m \in Message
      /\ \A a, b : Before(Tail(q), a, b) => Before(q, a, b)
  <2>1. q \in Seq(Message) /\ q # <<>> /\ NoneTwice(q) /\ m = Head(q)
    BY <1>4
  <2> HIDE DEF q
  <2>2. /\ Tail(q) \in Seq(Message) /\ ToSet(Tail(q)) \subseteq ToSet(q)
        /\ Head(q) \notin ToSet(Tail(q)) /\ NoneTwice(Tail(q))
        /\ Head(q) \in ToSet(q) /\ Head(q) \in Message
        /\ \A a, b : Before(Tail(q), a, b) => Before(q, a, b)
    BY <2>1, HeadLeaves
  <2> QED  BY <2>1, <2>2
<1>6. x \in Owed /\ x.v = "dropped" /\ x.sid = s /\ x.msg = m /\ x.by = o
  BY <1>2, <1>5 DEF Owed
<1>7. /\ inbox' \in InboxState /\ inbox'.evicted = inbox.evicted \cup {m}
      /\ inbox'.queue = Append(Tail(inbox.queue), x)
      /\ inbox'.held[s] = Tail(q) /\ \A t \in Sid \ {s} : inbox'.held[t] = inbox.held[t]
  <2> DEFINE hs == [inbox.held EXCEPT ![s] = Tail(@)]
             qs == Append(Tail(inbox.queue), x)
  <2>1. inbox \in InboxState /\ inbox.held \in Helds
    BY CoreTypes
  <2>2. hs \in [Sid -> Seq(Message)] /\ hs[s] = Tail(q) /\ \A t \in Sid \ {s} : hs[t] = inbox.held[t]
    BY <1>2, <1>5, <2>1 DEF Helds
  <2>3. qs \in Seq(Owed)
    BY <1>1, <1>6, AppendProperties
  <2> DEFINE b == inbox
             e == inbox'
             d == inbox.evicted \cup {m}
  <2>4. e = [b EXCEPT !.held = hs, !.evicted = d, !.queue = qs]
    BY <2>1 DEF InboxState
  <2>5. d \in SUBSET Message /\ b \in InboxState
    BY <1>5, <2>1, InboxHas
  <2>6. hs \in Helds
    BY <2>2 DEF Helds
  <2> HIDE DEF hs, qs, q, b, e, d
  <2>7. SetAs(b, e, hs, qs, d)
    BY <2>3, <2>4, <2>5, <2>6, InboxSet
  <2>8. inbox' \in InboxState /\ inbox'.evicted = inbox.evicted \cup {m} /\ inbox'.held = hs /\ inbox'.queue = qs
    BY <2>7 DEF e, d, SetAs
  <2> QED  BY <2>2, <2>8 DEF qs
<1>8. /\ op' \in [Op -> Request \cup {Free}] /\ op'[o].pc = "dropping" /\ op'[o].sid = s /\ op'[o].msg = h.msg
      /\ op'[o] # Free /\ \A p \in Op \ {o} : op'[p] = op[p]
  <2> DEFINE r == [op[o] EXCEPT !.pc = "dropping"]
  <2>1. r \in Request /\ r.pc = "dropping" /\ r.sid = s /\ r.msg = h.msg /\ r # Free
    BY <1>2, <1>3 DEF Request, Free
  <2>2. op' = [op EXCEPT ![o] = r] /\ op \in [Op -> Request \cup {Free}]
    BY CoreTypes
  <2> HIDE DEF r
  <2> QED  BY <1>2, <2>1, <2>2
<1>9. /\ file' \in Seq(InboxLine)
      /\ file' = file \/ About(file') = About(file) \cup {<<h.sid, h.msg>>}
      /\ \A t \in Sid : NoneTwice(Kept(file')[t])
      /\ strayed' \subseteq Message /\ strayed \subseteq strayed'
      /\ \A n \in Message : Lasting(n) => Lasting(n)'
      /\ Lasting(h.msg)'
  <2>1. inbox.evicted \subseteq inbox'.evicted
    BY <1>7
  <2> QED  BY <2>1, HeadLands
<1>10. \A t \in Sid : HeldMoves(t)
  <2>1. HeldMoves(s)
    BY <1>5, <1>7 DEF HeldMoves
  <2>2. ASSUME NEW t \in Sid, t # s PROVE HeldMoves(t)
    BY <1>7, <2>2 DEF HeldMoves
  <2> QED  BY <2>1, <2>2
<1>11. \A t \in Sid : OfferMoves(t)
  BY OfferStays
<1>12. OpsMove
  BY <1>2, <1>3, <1>8 DEF OpsMove
<1>13. /\ ToSet(inbox'.queue) = ToSet(Tail(inbox.queue)) \cup {x}
       /\ About(inbox'.queue) = About(Tail(inbox.queue)) \cup {<<s, m>>}
       /\ \A a, b : Before(inbox'.queue, a, b) <=>
                      Before(Tail(inbox.queue), a, b) \/ (a \in ToSet(Tail(inbox.queue)) /\ b = x)
  <2> DEFINE k == Tail(inbox.queue)
             r == inbox'.queue
             p == <<s, m>>
  <2>1. k \in Seq(Owed) /\ r = Append(k, x)
    BY <1>1, <1>7
  <2>2. x \in Owed /\ p = <<x.sid, x.msg>>
    BY <1>6
  <2> HIDE DEF k, r, p
  <2>3. GrowsBy(k, x)
    BY <2>1, <2>2, OneMore
  <2>4. ToSet(r) = ToSet(k) \cup {x}
    BY <2>1, <2>3 DEF GrowsBy
  <2>5. About(r) = About(k) \cup {p}
    BY <2>1, <2>2, <2>3 DEF GrowsBy
  <2>6. \A a, b : Before(r, a, b) <=> Before(k, a, b) \/ (a \in ToSet(k) /\ b = x)
    BY <2>1, <2>3 DEF GrowsBy
  <2> QED  BY <2>4, <2>5, <2>6 DEF k, r, p
<1>14. Owing'
  <2>1. ASSUME NEW y \in ToSet(Tail(inbox.queue)) PROVE OwedTrue(y)'
    <3>1. inbox.evicted \subseteq inbox'.evicted /\ ever \subseteq ever'
      BY <1>7
    <3>2. \A p \in Op : op[p].pc \in {"adding", "dropping"} => (op'[p] = op[p] \/ p = h.by)
      BY <1>8
    <3> QED  BY <1>9, <1>10, <3>1, <3>2, TailOwed
  <2>2. \A t \in Sid : m \notin ToSet(inbox'.held[t])
    <3> SUFFICES ASSUME NEW t \in Sid, t # s, m \in ToSet(inbox.held[t]) PROVE FALSE
      BY <1>5, <1>7
    <3> QED  BY <1>2, <1>5, OneSessionKnows DEF Speaks
  <2>3. OwedTrue(x)'
    BY <1>2, <1>6, <1>7, <1>8, <2>2 DEF OwedTrue, DroppedOwed
  <2> QED  BY <1>13, <2>1, <2>3 DEF Owing
<1>15. OwedOnce'
  <2> SUFFICES ASSUME NEW y \in Owed, NEW z \in Owed, Before(inbox'.queue, y, z) PROVE ~Clash(y, z)
    BY DEF OwedOnce
  <2>1. CASE Before(Tail(inbox.queue), y, z)
    BY <1>1, <2>1 DEF Core, OwedOnce
  <2>2. CASE y \in ToSet(Tail(inbox.queue)) /\ z = x
    <3>1. ~Clash(h, y) /\ o # "none" /\ o # "offer"
      BY <1>1, <1>2, <2>2, CoreOps
    <3>2. y.by # o
      BY <3>1 DEF Clash
    <3> QED  BY <1>6, <2>2, <3>2 DEF Clash
  <2> QED  BY <1>13, <2>1, <2>2
<1>16. LinesMove
  <2>1. Speaks(s, m)
    BY <1>5 DEF Speaks
  <2>2. Speaks(h.sid, h.msg)
    BY <1>1, QueueOwners
  <2>3. ASSUME NEW t \in Sid, NEW n \in Message, <<t, n>> \in About(file') \/ <<t, n>> \in About(inbox'.queue)
        PROVE  Speaks(t, n)
    <3>1. CASE <<t, n>> \in About(file)
      BY <3>1 DEF Speaks
    <3>2. CASE <<t, n>> \in About(inbox.queue)
      BY <3>2 DEF Speaks
    <3>3. CASE <<t, n>> = <<s, m>> \/ <<t, n>> = <<h.sid, h.msg>>
      BY <2>1, <2>2, <3>3
    <3> QED  BY <1>1, <1>9, <1>13, <2>3, <3>1, <3>2, <3>3
  <2> QED  BY <2>3 DEF LinesMove
<1>17. OfferWaits'
  <2> SUFFICES ASSUME NEW t \in Sid, offer[t].by # NoOp
               PROVE  op'[offer[t].by].pc = "offering" /\ op'[offer[t].by].sid = t
    BY DEF OfferWaits
  <2>1. op[offer[t].by].pc = "offering" /\ op[offer[t].by].sid = t /\ offer[t].by \in Op
    BY CoreOffers DEF Core, OfferWaits
  <2> QED  BY <1>2, <1>8, <2>1
<1>18. Durable'
  <2>1. \A p \in Op : \A n : (op'[p].pc = "dropping" /\ op'[p].msg = n) =>
            (n \in Message /\ (op'[p] = op[p] \/ Lasting(n)'))
    <3> SUFFICES ASSUME NEW p \in Op, op'[p].pc = "dropping", NEW n, op'[p].msg = n
                 PROVE  n \in Message /\ (op'[p] = op[p] \/ Lasting(n)')
      OBVIOUS
    <3>1. CASE p = o
      <4>1. n = h.msg
        BY <1>8, <3>1
      <4> QED  BY <1>2, <1>9, <4>1
    <3>2. CASE p # o
      <4>1. op'[p] = op[p]
        BY <1>8, <3>2
      <4>2. op[p] # Free
        <5>1. Free.pc = "free"
          BY DEF Free
        <5> QED  BY <4>1, <5>1
      <4> QED  BY <4>1, <4>2, CoreOps
    <3> QED  BY <3>1, <3>2
  <2> QED  BY <1>9, <2>1, DurableKept
<1>19. offer' \in [Sid -> Offer] /\ said' \in Saids
  BY CoreTypes DEF Saids
<1> HIDE DEF q
<1> QED  BY <1>7, <1>8, <1>9, <1>10, <1>11, <1>12, <1>14, <1>15, <1>16, <1>17, <1>18, <1>19, FileStep

(* The line says a message was delivered, and an offer may go on.          *)
LEMMA ToldCore ==
  ASSUME Core, up, up' = up, crashes' = crashes, standing' = standing, issued' = issued,
         counter' = counter, aged' = aged, sub' = sub, got' = got, ever' = ever, torn' \in BOOLEAN,
         inbox.queue # <<>>, NEW h, h = Head(inbox.queue), h.v = "delivered",
         NEW s, s = h.sid,
         (h.by = "offer" /\ NextOffer(s)) \/ (h.by # "offer" /\ UNCHANGED <<offer, op, said>>),
         inbox' \in InboxState, inbox'.queue = Tail(inbox.queue), inbox'.held = inbox.held,
         inbox'.evicted = inbox.evicted,
         file' = IF torn THEN file ELSE Append(file, LineOf(h)),
         strayed' = IF torn THEN strayed \cup {h.msg} ELSE strayed
  PROVE  Core'
<1>1. /\ h \in ToSet(inbox.queue) /\ h \in Owed /\ s \in Sid
      /\ h.by = "offer" => (offer[s].rest # <<>> /\ offer[s].writing)
  BY QueueHead, QueueOwners
<1>2. /\ file' \in Seq(InboxLine)
      /\ file' = file \/ About(file') = About(file) \cup {<<h.sid, h.msg>>}
      /\ \A t \in Sid : NoneTwice(Kept(file')[t])
      /\ strayed' \subseteq Message /\ strayed \subseteq strayed'
      /\ \A m \in Message : Lasting(m) => Lasting(m)'
  BY HeadLands
<1>3. \A t \in Sid : HeldMoves(t)
  BY HeldStays
<1>4. /\ offer' \in [Sid -> Offer] /\ op' \in [Op -> Request \cup {Free}] /\ said' \in Saids
      /\ \A t \in Sid : OfferMoves(t)
      /\ \A t \in Sid : offer'[t] = offer[t] \/ (h.by = "offer" /\ t = h.sid)
      /\ OpsMove /\ OfferWaits'
      /\ \A o \in Op : op[o].pc \in {"adding", "dropping"} => op'[o] = op[o]
      /\ \A o \in Op : op'[o].pc = "dropping" => op'[o] = op[o]
      /\ \A m \in Message : said'[m] = "held" => said[m] = "held"
  <2>1. CASE h.by = "offer" /\ NextOffer(s)
    <3>1. offer[s].rest # <<>> /\ offer[s].writing
      BY <1>1, <2>1
    <3>2. OfferOnly(s) /\ offer'[s].rest = Tail(offer[s].rest) /\ offer'[s].writing = FALSE
      BY <1>1, <2>1, <3>1, NextOfferDoes
    <3>3. /\ OpsMove /\ OfferWaits'
          /\ \A o \in Op : op[o].pc \in {"adding", "dropping"} => op'[o] = op[o]
          /\ \A o \in Op : op'[o].pc = "dropping" => op'[o] = op[o]
      BY <1>1, <3>2, OfferOnlyMoves
    <3>4. OfferMoves(s)
      <4> DEFINE r == offer[s].rest
      <4>1. r \in Seq(Message) /\ r # <<>> /\ NoneTwice(r)
        BY <1>1, <3>1, CoreOffers DEF Core, Singles
      <4> HIDE DEF r
      <4>2. ToSet(Tail(r)) \subseteq ToSet(r) /\ NoneTwice(Tail(r))
        BY <4>1, HeadLeaves
      <4>3. Left(s) = Tail(r) /\ Left(s)' = Tail(r) /\ offer'[s].rest = Tail(r)
        BY <3>1, <3>2 DEF Left, r
      <4> QED  BY <4>2, <4>3 DEF OfferMoves, r
    <3>5. \A t \in Sid : OfferMoves(t)
      BY <3>2, <3>4, OfferStays DEF OfferOnly
    <3> QED  BY <2>1, <3>2, <3>3, <3>5 DEF OfferOnly
  <2>2. CASE UNCHANGED <<offer, op, said>>
    <3>1. \A t \in Sid : OfferMoves(t)
      BY <2>2, OfferStays
    <3>2. OpsMove /\ OfferWaits'
      BY <2>2 DEF Core, OfferWaits, OpsMove
    <3> QED  BY <2>2, <3>1, <3>2, CoreTypes DEF Saids
  <2> QED  BY <2>1, <2>2
<1>5. Owing' /\ OwedOnce' /\ LinesMove
  <2>1. inbox.evicted \subseteq inbox'.evicted /\ ever \subseteq ever'
    OBVIOUS
  <2> QED  BY <1>2, <1>3, <1>4, <2>1, QueueGoesOn
<1>6. Durable'
  <2>1. \A p \in Op : \A m : (op'[p].pc = "dropping" /\ op'[p].msg = m) =>
            (m \in Message /\ (op'[p] = op[p] \/ Lasting(m)'))
    <3> SUFFICES ASSUME NEW p \in Op, op'[p].pc = "dropping" PROVE op'[p].msg \in Message /\ op'[p] = op[p]
      OBVIOUS
    <3>1. op'[p] = op[p] /\ op[p] # Free
      BY <1>4 DEF Free
    <3> QED  BY <3>1, CoreOps
  <2> QED  BY <1>2, <1>4, <2>1, DurableKept
<1> QED  BY <1>2, <1>3, <1>4, <1>5, <1>6, FileStep

LEMMA LandedCore == ASSUME Core, Landed PROVE Core'
<1>0. SUFFICES ASSUME NEW h, h = Head(inbox.queue), NEW o, o = h.by, NEW s, s = op[o].sid,
                      NEW m, m = Head(inbox.held[s]),
                      NEW x, x = [v |-> "dropped", sid |-> s, msg |-> m, by |-> o]
               PROVE  Core'
  OBVIOUS
<1>1. /\ up /\ up' = up /\ crashes' = crashes /\ standing' = standing /\ issued' = issued
      /\ counter' = counter /\ aged' = aged /\ sub' = sub /\ got' = got /\ ever' = ever
      /\ torn' \in BOOLEAN /\ inbox.queue # <<>>
      /\ file' = IF torn THEN file ELSE Append(file, LineOf(h))
      /\ strayed' = IF torn THEN strayed \cup {h.msg} ELSE strayed
  BY <1>0 DEF Landed
<1>2. \/ h.v = "add" /\ Evict(o) /\ offer' = offer
      \/ /\ h.v = "dropped" /\ Answer(o, "held") /\ offer' = offer
         /\ inbox' = [inbox EXCEPT !.queue = Tail(@), !.view = @ \ {h.msg},
                                   !.told = @ \cup {<<h.msg, "dropped">>}]
      \/ /\ h.v = "delivered" /\ inbox' = [inbox EXCEPT !.queue = Tail(@)]
         /\ (o = "offer" /\ NextOffer(h.sid)) \/ (o # "offer" /\ UNCHANGED <<offer, op, said>>)
  BY <1>0 DEF Landed
<1>3. h \in Owed /\ h.msg \in Message /\ Tail(inbox.queue) \in Seq(Owed) /\ inbox \in InboxState
  BY <1>0, <1>1, QueueHead, QueueOwners, CoreTypes
<1>4. CASE h.v = "add" /\ Evict(o) /\ offer' = offer
  <2>1. CASE ~OverLimit(s)
    <3>1. Answer(o, "held") /\ inbox' = [inbox EXCEPT !.queue = Tail(@)]
      BY <1>0, <1>4, <2>1 DEF Evict
    <3>2. /\ inbox' \in InboxState /\ inbox'.queue = Tail(inbox.queue) /\ inbox'.held = inbox.held
          /\ inbox'.evicted = inbox.evicted
      BY <1>3, <3>1 DEF InboxState
    <3>3. h.v \in {"add", "dropped"}
      BY <1>4
    <3> QED  BY <1>0, <1>1, <1>4, <3>1, <3>2, <3>3, AnsweredCore
  <2>2. CASE OverLimit(s)
    <3>1. /\ inbox' = [inbox EXCEPT !.held[s] = Tail(@), !.evicted = @ \cup {m},
                                    !.queue = Append(Tail(@), x)]
          /\ op' = [op EXCEPT ![o].pc = "dropping"] /\ said' = said
      BY <1>0, <1>4, <2>2 DEF Evict
    <3> QED  BY <1>0, <1>1, <1>4, <2>2, <3>1, EvictedCore
  <2> QED  BY <2>1, <2>2
<1>5. CASE /\ h.v = "dropped" /\ Answer(o, "held") /\ offer' = offer
           /\ inbox' = [inbox EXCEPT !.queue = Tail(@), !.view = @ \ {h.msg},
                                     !.told = @ \cup {<<h.msg, "dropped">>}]
  <2>1. /\ inbox' \in InboxState /\ inbox'.queue = Tail(inbox.queue) /\ inbox'.held = inbox.held
        /\ inbox'.evicted = inbox.evicted
    <3>1. <<h.msg, "dropped">> \in Message \X {"delivered", "expired", "dropped"}
      BY <1>3
    <3> QED  BY <1>3, <1>5, <3>1 DEF InboxState
  <2>2. h.v \in {"add", "dropped"}
    BY <1>5
  <2> QED  BY <1>0, <1>1, <1>5, <2>1, <2>2, AnsweredCore
<1>6. CASE /\ h.v = "delivered" /\ inbox' = [inbox EXCEPT !.queue = Tail(@)]
           /\ (o = "offer" /\ NextOffer(h.sid)) \/ (o # "offer" /\ UNCHANGED <<offer, op, said>>)
  <2>1. /\ inbox' \in InboxState /\ inbox'.queue = Tail(inbox.queue) /\ inbox'.held = inbox.held
        /\ inbox'.evicted = inbox.evicted
    BY <1>3, <1>6 DEF InboxState
  <2> QED  BY <1>0, <1>1, <1>6, <2>1, ToldCore
<1> QED  BY <1>2, <1>4, <1>5, <1>6

-----------------------------------------------------------------------------
(* A message is issued, the process is killed and starts again.            *)
LEMMA SendCore == ASSUME Core, NEW o \in Op, NEW s \in Sid, Send(o, s) PROVE Core'
<1>0. SUFFICES ASSUME NEW m, m = Len(issued) + 1 PROVE Core'
  OBVIOUS
<1>1. /\ up /\ op[o] = Free /\ Len(issued) < MaxSends /\ counter' = counter + 1
      /\ issued' = Append(issued, counter + 1)
      /\ op' = [op EXCEPT ![o] = [pc |-> "direct", sid |-> s, msg |-> m]]
      /\ up' = up /\ crashes' = crashes /\ standing' = standing /\ inbox' = inbox /\ file' = file
      /\ torn' = torn /\ aged' = aged /\ offer' = offer /\ sub' = sub /\ got' = got /\ ever' = ever
      /\ said' = said /\ strayed' = strayed
  BY <1>0 DEF Send
<1>2. /\ m \in Nat /\ m \in Message /\ Len(issued) \in Nat /\ m = Len(issued) + 1
      /\ issued \in Seq(Nat) /\ counter \in Nat /\ MaxSends \in Nat
  BY <1>0, <1>1, CoreTypes DEF Message
<1>3. /\ issued' \in Seq(Nat) /\ Len(issued') = m /\ issued'[m] = counter + 1
      /\ \A n \in Message : n <= Len(issued) => issued'[n] = issued[n]
  <2>1. counter + 1 \in Nat
    BY <1>2
  <2>2. \A n \in Message : n <= Len(issued) => n \in 1..Len(issued)
    BY <1>2 DEF Message
  <2> DEFINE i == issued
             c == counter + 1
  <2>3. i \in Seq(Nat) /\ c \in Nat /\ issued' = Append(i, c) /\ Len(i) + 1 = m
    BY <1>1, <1>2, <2>1
  <2> HIDE DEF i, c
  <2>4. /\ Append(i, c) \in Seq(Nat) /\ Len(Append(i, c)) = Len(i) + 1 /\ Append(i, c)[Len(i) + 1] = c
        /\ \A n \in 1..Len(i) : Append(i, c)[n] = i[n]
    BY <2>3, AppendProperties
  <2>5. \A n \in Message : n <= Len(i) => issued'[n] = i[n]
    BY <2>2, <2>3, <2>4 DEF i
  <2> QED  BY <2>3, <2>4, <2>5 DEF i, c
<1>4. /\ op' \in [Op -> Request \cup {Free}] /\ op'[o] # Free /\ op'[o].pc = "direct" /\ op'[o].sid = s
      /\ op'[o].msg = m /\ \A p \in Op \ {o} : op'[p] = op[p]
  <2> DEFINE r == [pc |-> "direct", sid |-> s, msg |-> m]
  <2>1. r \in Request /\ r # Free /\ r.pc = "direct" /\ r.sid = s /\ r.msg = m
    BY <1>2 DEF Request, Free
  <2>2. op' = [op EXCEPT ![o] = r] /\ op \in [Op -> Request \cup {Free}]
    BY <1>1, CoreTypes
  <2> HIDE DEF r
  <2> QED  BY <2>1, <2>2
<1>5. TypeOK'
  BY <1>1, <1>2, <1>3, <1>4, CoreTypes DEF Core, TypeOK
<1>6. \A t \in Sid : \A n \in Message : (Knows(t, n) => (n <= Len(issued) /\ issued[n] <= counter))
  BY <1>1 DEF Core, Homes, MidsCounted
<1>7. \A t \in Sid, n \in Message : Speaks(t, n)' <=> Speaks(t, n)
  BY <1>1 DEF Speaks
<1>8. \A t \in Sid, n \in Message : Speaks(t, n) => n # m
  <2>1. \A t \in Sid, n \in Message : Speaks(t, n) => n <= Len(issued)
    BY <1>6 DEF Knows
  <2> QED  BY <1>2, <2>1
<1>9. \A p \in Op \ {o} : op[p] # Free => op[p].msg # m
  <2>1. \A p \in Op : op[p] # Free => op[p].msg \in Message /\ op[p].msg <= Len(issued)
    BY KnownIsIssued, CoreOps
  <2> QED  BY <1>2, <2>1
<1>10. ASSUME NEW t \in Sid, NEW n \in Message, Knows(t, n)' PROVE Knows(t, n) \/ (t = s /\ n = m)
  <2>1. CASE Speaks(t, n)'
    BY <1>7, <2>1 DEF Knows
  <2>2. CASE \E p \in Op : op'[p] # Free /\ op'[p].sid = t /\ op'[p].msg = n
    <3>1. PICK p \in Op : op'[p] # Free /\ op'[p].sid = t /\ op'[p].msg = n
      BY <2>2
    <3>2. CASE p = o
      BY <1>4, <3>1, <3>2
    <3>3. CASE p # o
      BY <1>4, <3>1, <3>3 DEF Knows
    <3> QED  BY <3>2, <3>3
  <2> QED  BY <1>10, <2>1, <2>2 DEF Knows
<1>11. Homes'
  <2>1. \A t \in Sid, n \in Message : Knows(t, n)' =>
          \/ Knows(t, n) /\ n <= Len(issued) /\ issued'[n] = issued[n] /\ issued[n] \in Nat /\ issued[n] <= counter
          \/ t = s /\ n = m
    <3>1. \A n \in Message : n <= Len(issued) => issued[n] \in Nat
      BY CoreTypes
    <3> SUFFICES ASSUME NEW t \in Sid, NEW n \in Message, Knows(t, n)', ~(t = s /\ n = m)
                 PROVE  Knows(t, n) /\ n <= Len(issued) /\ issued'[n] = issued[n] /\ issued[n] \in Nat
                          /\ issued[n] <= counter
      OBVIOUS
    <3>2. Knows(t, n)
      BY <1>10
    <3>3. n <= Len(issued) /\ issued[n] <= counter
      BY <1>6, <3>2
    <3> QED  BY <1>3, <3>1, <3>2, <3>3
  <2>2. MidsCounted'
    <3> SUFFICES ASSUME NEW t \in Sid, NEW n \in Message, Knows(t, n)'
                 PROVE  n <= Len(issued)' /\ issued'[n] <= counter'
      BY DEF MidsCounted
    <3>1. CASE t = s /\ n = m
      <4>1. issued'[n] = counter + 1 /\ n = Len(issued')
        BY <1>3, <3>1
      <4> QED  BY <1>1, <1>2, <4>1
    <3>2. CASE ~(t = s /\ n = m)
      <4>1. n <= Len(issued) /\ issued'[n] = issued[n] /\ issued[n] \in Nat /\ issued[n] <= counter
        BY <2>1, <3>2
      <4>2. n \in Nat /\ counter' = counter + 1 /\ Len(issued') = Len(issued) + 1
        BY <1>1, <1>2, <1>3 DEF Message
      <4> QED  BY <1>2, <4>1, <4>2
    <3> QED  BY <3>1, <3>2
  <2>3. MidsApart'
    <3> SUFFICES ASSUME NEW t \in Sid, NEW u \in Sid, NEW n \in Message, NEW k \in Message,
                        Knows(t, n)', Knows(u, k)', issued'[n] = issued'[k]
                 PROVE  t = u /\ n = k
      BY DEF MidsApart
    <3>1. CASE t = s /\ n = m /\ ~(u = s /\ k = m)
      BY <1>2, <1>3, <2>1, <3>1
    <3>2. CASE ~(t = s /\ n = m) /\ u = s /\ k = m
      BY <1>2, <1>3, <2>1, <3>2
    <3>3. CASE ~(t = s /\ n = m) /\ ~(u = s /\ k = m)
      <4>1. Knows(t, n) /\ Knows(u, k) /\ issued[n] = issued[k]
        BY <2>1, <3>3
      <4> QED  BY <4>1 DEF Core, Homes, MidsApart
    <3> QED  BY <3>1, <3>2, <3>3
  <2> QED  BY <2>2, <2>3 DEF Homes
<1>12. Sends'
  <2>1. ASSUME NEW p \in Op, NEW r \in Op, op'[p] # Free, op'[r] # Free, op'[p].msg = op'[r].msg
        PROVE  p = r
    BY <1>4, <1>9, <2>1 DEF Core, Sends
  <2>2. got[m] = 0
    <3>1. m > Len(issued)
      BY <1>2
    <3> QED  BY <1>2, <3>1 DEF Core, Unhanded
  <2>3. ASSUME NEW p \in Op, op'[p].pc = "direct", NEW k, k = op'[p].msg
        PROVE  (got[k] = 0 \/ k \in strayed) /\ \A t \in Sid : ~Speaks(t, k)
    <3>1. CASE p = o
      <4>1. k = m
        BY <1>4, <2>3, <3>1
      <4> QED  BY <1>2, <1>8, <2>2, <4>1
    <3>2. CASE p # o
      <4>1. op'[p] = op[p]
        BY <1>4, <3>2
      <4>2. op[p].pc = "direct" /\ k = op[p].msg
        BY <2>3, <4>1
      <4> QED  BY <4>2 DEF Core, Sends
    <3> QED  BY <3>1, <3>2
  <2>4. \A t \in Sid : \A k : Speaks(t, k)' <=> Speaks(t, k)
    BY <1>1 DEF Speaks
  <2> QED  BY <1>1, <2>1, <2>3, <2>4 DEF Sends, Speaks
<1>13. \A p \in Op : op[p] # Free => op'[p] = op[p]
  BY <1>1, <1>4
<1>14. Owing' /\ OwedOnce'
  <2>1. ASSUME NEW x \in ToSet(inbox.queue) PROVE OwedTrue(x)'
    <3>1. x.by \in Op => op[x.by] # Free
      BY QueueOwners
    <3>2. x.by \in Op => op'[x.by] = op[x.by]
      BY <1>13, <3>1
    <3>3. \A t \in Sid : HeldMoves(t)
      BY <1>1, HeldStays
    <3>4. x.by = "offer" => (offer'[x.sid].rest # <<>> /\ offer'[x.sid].writing)
      BY <1>1, QueueOwners
    <3>5. inbox.evicted \subseteq inbox'.evicted /\ ever \subseteq ever' /\ strayed \subseteq strayed' /\ file' = file
      BY <1>1
    <3> QED  BY <3>2, <3>3, <3>4, <3>5, OwedKept
  <2> QED  BY <1>1, <2>1 DEF Core, Owing, OwedOnce
<1>15. OfferWaits'
  <2> SUFFICES ASSUME NEW t \in Sid, offer[t].by # NoOp
               PROVE  op'[offer[t].by].pc = "offering" /\ op'[offer[t].by].sid = t
    BY <1>1 DEF OfferWaits
  <2>1. op[offer[t].by].pc = "offering" /\ op[offer[t].by].sid = t /\ offer[t].by \in Op
    BY CoreOffers DEF Core, OfferWaits
  <2>2. op[offer[t].by] # Free
    BY <2>1 DEF Free
  <2> QED  BY <1>13, <2>1, <2>2
<1>16. Singles' /\ AtMostOnce' /\ Given' /\ IdleWhenDown'
  BY <1>1 DEF Core, Singles, AtMostOnce, Given, IdleWhenDown
<1>17. Unhanded'
  <2>1. \A n \in Message : n > Len(issued') => n > Len(issued)
    BY <1>2, <1>3, CoreTypes
  <2> QED  BY <1>1, <2>1 DEF Core, Unhanded, Left
<1>18. InOrder'
  BY <1>1 DEF Core, InOrder, Left
<1>19. Durable'
  <2>1. \A n : Lasting(n)' <=> Lasting(n)
    BY <1>1 DEF Lasting
  <2>2. ASSUME NEW p \in Op, op'[p].pc = "dropping", NEW k, k = op'[p].msg PROVE Lasting(k)
    <3>1. p # o
      BY <1>4, <2>2
    <3>2. op'[p] = op[p]
      BY <1>4, <3>1
    <3>3. op[p].pc = "dropping" /\ k = op[p].msg
      BY <2>2, <3>2
    <3> QED  BY <3>3 DEF Core, Durable
  <2>3. \A n \in Message : said[n] = "held" => Lasting(n)
    BY DEF Core, Durable
  <2> QED  BY <1>1, <2>2, <2>3 DEF Durable, Lasting
<1> QED  BY <1>5, <1>11, <1>12, <1>14, <1>15, <1>16, <1>17, <1>18, <1>19 DEF Core

LEMMA CrashCore == ASSUME Core, Crash PROVE Core'
<1>1. /\ up /\ crashes < MaxCrashes /\ crashes' = crashes + 1 /\ up' = FALSE /\ counter' = 0
      /\ offer' = [s \in Sid |-> NoOffer] /\ op' = [o \in Op |-> Free] /\ sub' = {}
      /\ got' = [m \in Message |-> 0] /\ torn' = torn /\ standing' = standing /\ issued' = issued
      /\ aged' = aged /\ ever' = ever /\ said' = said /\ strayed' = strayed
  BY DEF Crash
<1>2. /\ inbox' \in InboxState /\ inbox'.held = None /\ inbox'.queue = <<>> /\ inbox'.view = {}
      /\ inbox'.evicted = inbox.evicted
  <2>1. inbox' = [held |-> EmptyInbox.held, queue |-> <<>>, view |-> {}, evicted |-> inbox.evicted,
                  told |-> inbox.told]
    BY DEF Crash, EmptyInbox
  <2>2. /\ EmptyInbox.held \in [Sid -> Seq(Message)] /\ EmptyInbox.held = None /\ <<>> \in Seq(Owed)
    BY NoneIsHeld, EmptySeq DEF Helds
  <2>3. inbox.evicted \in SUBSET Message
        /\ inbox.told \in SUBSET (Message \X {"delivered", "expired", "dropped"})
    BY CoreTypes, InboxHas
  <2> DEFINE h == EmptyInbox.held
             q == <<>>
  <2>4. inbox' = [held |-> h, queue |-> q, view |-> {}, evicted |-> inbox.evicted,
                  told |-> inbox.told] /\ h \in [Sid -> Seq(Message)] /\ q \in Seq(Owed) /\ h = None
    BY <2>1, <2>2
  <2> HIDE DEF h, q
  <2>5. inbox'.queue = q /\ inbox'.held = None /\ inbox' \in InboxState /\ inbox'.view = {}
        /\ inbox'.evicted = inbox.evicted
    BY <2>3, <2>4 DEF InboxState
  <2> QED  BY <2>5 DEF q
<1>3. \A s \in Sid : inbox'.held[s] = <<>> /\ offer'[s] = NoOffer
  BY <1>1, <1>2 DEF None
<1>4. \A s \in Sid : HeldMoves(s) /\ OfferMoves(s)
  <2> SUFFICES ASSUME NEW s \in Sid PROVE HeldMoves(s) /\ OfferMoves(s)
    OBVIOUS
  <2>1. inbox'.held[s] = <<>> /\ offer'[s] = NoOffer
    BY <1>3
  <2>2. HeldMoves(s)
    BY <2>1, SetOfNothing, BeforeNothing DEF HeldMoves
  <2> QED  BY <2>1, <2>2, OfferEnds
<1>5. \A o \in Op : op'[o] = Free
  BY <1>1
<1>6. Free.pc = "free"
  BY DEF Free
<1>7. OpsMove
  BY <1>5 DEF OpsMove
<1>8. Handing({}) /\ Through({})
  <2>1. \A m \in Message : got'[m] = 0
    BY <1>1
  <2> QED  BY <1>1, <2>1 DEF Handing, Through
<1>9. /\ file' \in Seq(InboxLine) /\ \A s \in Sid : NoneTwice(Kept(file')[s])
      /\ \A s \in Sid, m \in Message : <<s, m>> \in About(file') => Speaks(s, m)
      /\ \A m \in Message : Lasting(m) => Lasting(m)'
  <2>1. CASE file' = file
    <3>1. \A s \in Sid : NoneTwice(Kept(file')[s])
      BY <2>1 DEF Core, Singles
    <3>2. file' \in Seq(InboxLine)
      BY <2>1, CoreTypes
    <3>3. \A m \in Message : Lasting(m) => Lasting(m)'
      BY <1>1, <1>2, <2>1 DEF Lasting
    <3> QED  BY <2>1, <3>1, <3>2, <3>3 DEF Speaks
  <2>2. CASE inbox.queue # <<>> /\ ~torn /\ file' = Append(file, LineOf(Head(inbox.queue)))
    <3> SUFFICES ASSUME NEW h, h = Head(inbox.queue)
                 PROVE  /\ file' \in Seq(InboxLine) /\ \A s \in Sid : NoneTwice(Kept(file')[s])
                        /\ \A s \in Sid, m \in Message : <<s, m>> \in About(file') => Speaks(s, m)
                        /\ \A m \in Message : Lasting(m) => Lasting(m)'
      OBVIOUS
    <3>1. inbox.queue # <<>> /\ file' = Append(file, LineOf(h))
      BY <2>2
    <3>2. file' = IF torn THEN file ELSE Append(file, LineOf(h))
      BY <2>2
    <3>3. strayed' = IF torn THEN strayed \cup {h.msg} ELSE strayed
      BY <1>1, <2>2
    <3>4. inbox.evicted \subseteq inbox'.evicted /\ ever' = ever /\ aged' = aged
      BY <1>1, <1>2
    <3>5. /\ file' \in Seq(InboxLine)
          /\ \A s \in Sid : NoneTwice(Kept(file')[s])
          /\ \A m \in Message : Lasting(m) => Lasting(m)'
      BY <3>1, <3>2, <3>3, <3>4, HeadLands
    <3>6. About(file') = About(file) \cup {<<h.sid, h.msg>>} /\ <<h.sid, h.msg>> \in About(inbox.queue)
      BY <3>1, HeadWritten, QueueHead
    <3> QED  BY <3>5, <3>6 DEF Speaks
  <2> QED  BY <2>1, <2>2 DEF Crash
<1>10. LinesMove
  BY <1>2, <1>9, AboutNothing DEF LinesMove
<1>11. inbox'.held \in Helds /\ offer' \in [Sid -> Offer]
  BY <1>1, <1>2, NoneIsHeld, NoOfferIs
<1>12. Homes' /\ Sends' /\ Singles' /\ Unhanded' /\ InOrder' /\ AtMostOnce'
  <2>1. \A s \in Sid : NoneTwice(Kept(file')[s])
    BY <1>9
  <2>2. issued' = issued /\ (up' => (up /\ counter' = counter))
    BY <1>1
  <2> QED  BY <1>4, <1>7, <1>8, <1>10, <1>11, <2>1, <2>2, StepKeeps
<1>13. TypeOK'
  <2>1. crashes' \in 0..MaxCrashes
    BY <1>1, CoreTypes
  <2>2. op' \in [Op -> Request \cup {Free}] /\ got' \in [Message -> 0..2] /\ counter' \in Nat
    BY <1>1
  <2>3. /\ up' \in BOOLEAN /\ standing' \in [Sid -> Standing] /\ sub' \subseteq Conn
        /\ torn' \in BOOLEAN /\ aged' \in 0..MaxSends /\ ever' \subseteq Message /\ strayed' \subseteq Message
        /\ said' \in [Message -> {"nothing", "delivered", "held", "failed"}]
        /\ issued' \in Seq(Nat) /\ Len(issued)' <= MaxSends
    BY <1>1, CoreTypes
  <2> QED  BY <1>2, <1>9, <1>11, <2>1, <2>2, <2>3 DEF TypeOK
<1>14. IdleWhenDown'
  BY <1>1, <1>2 DEF IdleWhenDown
<1>15. Owing' /\ OwedOnce'
  BY <1>2, SetOfNothing, BeforeNothing DEF Owing, OwedOnce
<1>16. OfferWaits'
  BY <1>3, NoOfferIs DEF OfferWaits
<1>17. Durable'
  <2>1. \A m \in Message : Lasting(m) => Lasting(m)'
    BY <1>9
  <2>2. \A m \in Message : said'[m] = "held" => said[m] = "held"
    BY <1>1
  <2>3. \A o \in Op : op'[o].pc # "dropping"
    BY <1>5, <1>6
  <2> QED  BY <2>1, <2>2, <2>3, DurableKept
<1>18. Given'
  BY DEF Core, Given
<1> QED  BY <1>12, <1>13, <1>14, <1>15, <1>16, <1>17, <1>18 DEF Core

-----------------------------------------------------------------------------
(* The process starts again on what the file says.                         *)
LEMMA CompactedIsAbout ==
  ASSUME IsFiniteSet(Sid), NEW held \in Helds, NEW p \in About(Compacted(held))
  PROVE  p[1] \in Sid /\ p[2] \in ToSet(held[p[1]])
<1> DEFINE n == Len(Order)
           F == Writing(held)
           Ours(q) == \A r \in About(q) : r[1] \in Sid /\ r[2] \in ToSet(held[r[1]])
           T == {k \in Nat : k <= n => Ours(F[k])}
<1>1. n \in Nat /\ \A i \in 1..n : Order[i] \in Sid
  BY EverySessionInOrder, LenProperties, ElementOfSeq
<1>2. /\ F \in [0..n -> Seq(InboxLine)]
      /\ F[0] = <<>>
      /\ \A i \in 1..n : F[i] = Wrote(F[i - 1], held, Order[i])
  BY WritingSteps
<1>3. held \in [Sid -> Seq(Message)]
  BY DEF Helds
<1> HIDE DEF F, n
<1>4. 0 \in T
  BY <1>2, AboutNothing
<1>5. ASSUME NEW k \in Nat, k \in T PROVE k + 1 \in T
  <2> SUFFICES ASSUME k + 1 <= n PROVE Ours(F[k + 1])
    OBVIOUS
  <2> DEFINE i == k + 1
             t == Order[i]
             ms == held[t]
             a == Adding(ms, t)
             q == F[k]
  <2>1. i \in 1..n /\ k \in 0..n /\ i - 1 = k /\ Ours(q)
    BY <1>1, <1>5
  <2>2. t \in Sid /\ q \in Seq(InboxLine) /\ ms \in Seq(Message)
    BY <1>1, <1>2, <1>3, <2>1
  <2>3. F[i] = q \o a
    BY <1>2, <2>1 DEF Wrote
  <2> HIDE DEF t, ms, q
  <2>4. a \in Seq(InboxLine)
    BY <2>2, AddingType
  <2>5. Ours(a)
    <3>1. DOMAIN a = DOMAIN ms /\ \A j \in DOMAIN ms : a[j].sid = t /\ a[j].msg = ms[j] /\ ms[j] \in ToSet(ms)
      BY DEF Adding, ToSet
    <3>2. ASSUME NEW r \in About(a) PROVE r[1] = t /\ r[2] \in ToSet(ms)
      BY <3>1 DEF About
    <3> QED  BY <2>2, <3>2 DEF ms
  <2> HIDE DEF a
  <2>6. About(q \o a) = About(q) \cup About(a)
    BY <2>2, <2>4, AboutConcat
  <2>7. Ours(F[i])
    BY <2>1, <2>3, <2>5, <2>6
  <2> QED  BY <2>7
<1> HIDE DEF T
<1>6. Nat \subseteq T
  BY <1>4, <1>5, Climb
<1>7. Ours(F[n])
  BY <1>1, <1>6 DEF T
<1> QED  BY <1>7, CompactedIsWriting DEF F, n

(* The counter starts where the messages held end.                         *)
LEMMA LastCounterIsLast ==
  ASSUME Core, NEW S \in SUBSET Message, \A m \in S : m <= Len(issued)
  PROVE  LastCounter(S) \in Nat /\ \A m \in S : issued[m] <= LastCounter(S)
<1> DEFINE mids == {issued[m] : m \in S}
           all == mids \cup {0}
<1>1. \A m \in S : issued[m] \in Nat
  BY CoreTypes
<1>2. IsFiniteSet(S)
  <2>1. IsFiniteSet(Message)
    BY CoreTypes, FS_Interval DEF Message
  <2> QED  BY <2>1, FS_Subset
<1>3. IsFiniteSet(mids)
  <2> DEFINE f == [m \in S |-> issued[m]]
  <2>1. f \in [S -> mids] /\ \A n \in mids : \E m \in S : f[m] = n
    OBVIOUS
  <2> HIDE DEF f, mids
  <2>2. f \in Surjection(S, mids)
    BY <2>1 DEF Surjection
  <2> QED  BY <1>2, <2>2, FS_Surjection
<1> HIDE DEF mids
<1>4. IsFiniteSet(all)
  BY <1>3, FS_AddElement
<1>5. mids \subseteq Nat
  BY <1>1 DEF mids
<1>6. all \subseteq Int /\ all \subseteq Nat /\ all # {}
  BY <1>5
<1> HIDE DEF all
<1>7. Max(all) \in all /\ \A n \in all : n <= Max(all)
  BY <1>4, <1>6, GreatestIsThere
<1>8. \A m \in S : issued[m] \in all
  BY DEF all, mids
<1>9. LastCounter(S) = Max(all)
  BY DEF LastCounter, all, mids
<1> QED  BY <1>6, <1>7, <1>8, <1>9

LEMMA RestartCore == ASSUME Core, Restart PROVE Core'
<1> DEFINE k == Kept(file)
           h == [s \in Sid |-> Only(k[s], Young)]
           all == UNION {ToSet(h[s]) : s \in Sid}
<1>1. /\ ~up /\ up' = TRUE /\ torn' = FALSE /\ crashes' = crashes /\ standing' = standing
      /\ issued' = issued /\ aged' = aged /\ offer' = offer /\ op' = op /\ sub' = sub /\ got' = got
      /\ ever' = ever /\ said' = said /\ strayed' = strayed
  BY DEF Restart
<1>2. k \in Helds /\ k = Replay(file)
  <2>1. file \in Seq(Entry) /\ Apart(About(file))
    BY CoreTypes, CoreApart
  <2> QED  BY <2>1, KeptType, ReplayIsKept
<1>3. h = [s \in Sid |-> Unexpired(Replay(file)[s])]
  BY <1>2 DEF Unexpired, Young
<1>4. inbox' = [inbox EXCEPT !.held = h, !.view = all] /\ file' = Compacted(h) /\ counter' = LastCounter(all)
  BY <1>3 DEF Restart
<1>5. \A s \in Sid : /\ h[s] \in Seq(Message) /\ ToSet(h[s]) = ToSet(k[s]) \cap Young
                     /\ \A a, b : Before(h[s], a, b) => Before(k[s], a, b)
  <2> SUFFICES ASSUME NEW s \in Sid, NEW q, q = k[s]
               PROVE  /\ h[s] \in Seq(Message) /\ ToSet(h[s]) = ToSet(q) \cap Young
                      /\ \A a, b : Before(h[s], a, b) => Before(q, a, b)
    OBVIOUS
  <2>1. q \in Seq(Message) /\ h[s] = Only(q, Young)
    BY <1>2 DEF Helds
  <2>2. Only(q, Young) \in Seq(Message) /\ ToSet(Only(q, Young)) = ToSet(q) \cap Young
        /\ \A a, b : Before(Only(q, Young), a, b) => Before(q, a, b)
    BY <2>1, OnlyType, OnlyHolds, BeforeOnly
  <2> QED  BY <2>1, <2>2
<1>6. h \in Helds
  BY <1>5 DEF Helds
<1>7. \A s \in Sid : NoneTwice(k[s])
  BY DEF Core, Singles
<1>8. \A s \in Sid : \A m \in ToSet(k[s]) : <<s, m>> \in About(file) /\ m \in Message
  <2>1. file \in Seq(Entry)
    BY CoreTypes
  <2>2. \A s \in Sid : \A m \in ToSet(k[s]) : <<s, m>> \in About(file)
    BY <2>1, KeptIsAbout
  <2>3. \A s \in Sid : k[s] \in Seq(Message)
    BY <1>2 DEF Helds
  <2> HIDE DEF k
  <2> QED  BY <2>2, <2>3, SetType
<1> HIDE DEF h, k
<1>9. \A s \in Sid : \A m \in ToSet(h[s]) : Speaks(s, m) /\ m \in Message /\ m <= Len(issued) /\ m \in all
  <2>1. \A s \in Sid : \A m \in ToSet(h[s]) : Speaks(s, m) /\ m \in Message /\ m \in all
    BY <1>5, <1>8 DEF Speaks
  <2> QED  BY <2>1 DEF Core, Homes, MidsCounted, Knows
<1>10. /\ inbox.queue = <<>> /\ \A s \in Sid : offer[s] = NoOffer
       /\ \A o \in Op : op[o] = Free
       /\ \A m \in Message : got[m] = 0
  BY <1>1 DEF Core, IdleWhenDown
<1>11. Free.pc = "free"
  BY DEF Free
<1>12. all \in SUBSET Message /\ \A m \in all : m <= Len(issued)
  BY <1>9
<1> HIDE DEF all
<1>13. counter' \in Nat /\ \A m \in all : issued[m] <= counter'
  BY <1>4, <1>12, LastCounterIsLast
<1>14. /\ inbox' \in InboxState /\ inbox'.held = h /\ inbox'.queue = inbox.queue
       /\ inbox'.evicted = inbox.evicted
  BY <1>4, <1>6, <1>12, CoreTypes DEF InboxState, Helds
<1>15. file' \in Seq(InboxLine) /\ Kept(file') = h
  BY <1>4, <1>6, CoreTypes, CompactedIsHeld
<1>16. \A s \in Sid, m \in Message : <<s, m>> \in About(file') => m \in ToSet(h[s])
  <2> SUFFICES ASSUME NEW s \in Sid, NEW m \in Message, <<s, m>> \in About(Compacted(h))
               PROVE  m \in ToSet(h[s])
    BY <1>4
  <2> DEFINE p == <<s, m>>
  <2>1. p \in About(Compacted(h)) /\ p[1] = s /\ p[2] = m
    OBVIOUS
  <2> HIDE DEF p
  <2> QED  BY <1>6, <2>1, CoreTypes, CompactedIsAbout
<1>17. \A s \in Sid, m \in Message : Knows(s, m)' => m \in ToSet(h[s])
  <2>1. \A s \in Sid : ToSet(offer'[s].rest) = {}
    BY <1>1, <1>10, NoOfferIs, SetOfNothing
  <2>2. About(inbox'.queue) = {}
    BY <1>10, <1>14, AboutNothing
  <2>3. \A s \in Sid, m \in Message : Speaks(s, m)' => m \in ToSet(h[s])
    BY <1>14, <1>16, <2>1, <2>2 DEF Speaks
  <2> QED  BY <1>1, <1>10, <2>3 DEF Knows
<1>18. Homes'
  <2>1. \A s \in Sid, m \in Message : Knows(s, m)' => Knows(s, m) /\ m \in all /\ m <= Len(issued)
    BY <1>9, <1>17 DEF Knows
  <2>2. MidsApart'
    <3> SUFFICES ASSUME NEW s \in Sid, NEW t \in Sid, NEW m \in Message, NEW n \in Message,
                        Knows(s, m)', Knows(t, n)', issued[m] = issued[n]
                 PROVE  s = t /\ m = n
      BY <1>1 DEF MidsApart
    <3>1. Knows(s, m) /\ Knows(t, n)
      BY <2>1
    <3> QED  BY <3>1 DEF Core, Homes, MidsApart
  <2>3. MidsCounted'
    <3> SUFFICES ASSUME NEW s \in Sid, NEW m \in Message, Knows(s, m)'
                 PROVE  m <= Len(issued) /\ issued[m] <= counter'
      BY <1>1 DEF MidsCounted
    <3> QED  BY <1>13, <2>1
  <2> QED  BY <2>2, <2>3 DEF Homes
<1>19. Sends' /\ AtMostOnce' /\ OfferWaits'
  <2>1. Sends'
    BY <1>1, <1>10, <1>11 DEF Sends
  <2>2. AtMostOnce'
    BY <1>1 DEF Core, AtMostOnce
  <2>3. OfferWaits'
    BY <1>1 DEF Core, OfferWaits
  <2> QED  BY <2>1, <2>2, <2>3
<1>20. Owing' /\ OwedOnce'
  <2>1. inbox'.queue = <<>>
    BY <1>10, <1>14
  <2> QED  BY <2>1, SetOfNothing, BeforeNothing DEF Owing, OwedOnce
<1>21. Singles'
  <2> SUFFICES ASSUME NEW s \in Sid
               PROVE  NoneTwice(h[s]) /\ NoneTwice(offer[s].rest)
    BY <1>1, <1>14, <1>15 DEF Singles
  <2>1. NoneTwice(offer[s].rest)
    BY DEF Core, Singles
  <2>2. NoneTwice(h[s])
    BY <1>5, <1>7 DEF NoneTwice
  <2> QED  BY <2>1, <2>2
<1>22. \A s \in Sid : Left(s)' = <<>>
  BY <1>1, <1>10, NoOfferIs DEF Left
<1>23. Unhanded' /\ InOrder'
  <2>1. \A s \in Sid : ToSet(Left(s)') = {}
    BY <1>22, SetOfNothing
  <2>2. \A m \in Message : got'[m] = 0
    BY <1>1, <1>10
  <2>3. \A s \in Sid : \A m \in ToSet(inbox'.held[s]) : m \in Message
    BY <1>9, <1>14
  <2>4. Unhanded'
    BY <2>1, <2>2, <2>3 DEF Unhanded
  <2>5. InOrder'
    BY <2>1 DEF InOrder
  <2> QED  BY <2>4, <2>5
<1>24. Durable'
  <2>1. ASSUME NEW m \in Message, Lasting(m) PROVE Lasting(m)'
    <3>1. CASE m \in ever \/ m <= aged \/ m \in inbox.evicted \/ m \in strayed
      BY <1>1, <1>14, <3>1 DEF Lasting
    <3>2. CASE \E s \in Sid : m \in ToSet(Kept(file)[s])
      <4>1. PICK s \in Sid : m \in ToSet(k[s])
        BY <3>2 DEF k
      <4>2. CASE m > aged
        <5>1. m \in ToSet(h[s])
          BY <1>5, <4>1, <4>2 DEF Young
        <5>2. m \in ToSet(Kept(file')[s])
          BY <1>15, <5>1
        <5> QED  BY <5>2 DEF Lasting
      <4>3. CASE ~(m > aged)
        <5>1. m <= aged'
          BY <1>1, <4>3, CoreTypes
        <5> QED  BY <5>1 DEF Lasting
      <4> QED  BY <4>2, <4>3
    <3> QED  BY <2>1, <3>1, <3>2 DEF Lasting
  <2>2. \A m \in Message : said'[m] = "held" => said[m] = "held"
    BY <1>1
  <2>3. \A o \in Op : op'[o].pc # "dropping"
    BY <1>1, <1>10, <1>11
  <2> QED  BY <2>1, <2>2, <2>3, DurableKept
<1>25. TypeOK'
  BY <1>1, <1>13, <1>14, <1>15, CoreTypes DEF TypeOK
<1>26. IdleWhenDown' /\ Given'
  <2>1. IdleWhenDown'
    BY <1>1 DEF IdleWhenDown
  <2>2. Given'
    BY DEF Core, Given
  <2> QED  BY <2>1, <2>2
<1> QED  BY <1>18, <1>19, <1>20, <1>21, <1>23, <1>24, <1>25, <1>26 DEF Core

-----------------------------------------------------------------------------
(* The invariant is one.                                                   *)
LEMMA InitCore == ASSUME DeliveryAssumption, Init PROVE Core
<1>1. Given
  BY DEF Given, DeliveryAssumption
<1>2. /\ up = TRUE /\ crashes = 0 /\ standing \in [Sid -> Standing] /\ issued = <<>> /\ counter = 0
      /\ inbox = EmptyInbox /\ file = <<>> /\ torn = FALSE /\ aged = 0
      /\ offer = [s \in Sid |-> NoOffer] /\ op = [o \in Op |-> Free] /\ sub = {}
      /\ got = [m \in Message |-> 0] /\ ever = {} /\ strayed = {}
      /\ said = [m \in Message |-> "nothing"]
  BY DEF Init
<1>3. MaxSends \in Nat /\ MaxCrashes \in Nat
  BY <1>1 DEF Given
<1>4. /\ inbox \in InboxState /\ inbox.held = None /\ inbox.queue = <<>> /\ inbox.evicted = {}
  <2>1. inbox = [held |-> EmptyInbox.held, queue |-> <<>>, view |-> {}, evicted |-> {}, told |-> {}]
    BY <1>2 DEF EmptyInbox
  <2> DEFINE h == EmptyInbox.held
             q == <<>>
  <2>2. h \in [Sid -> Seq(Message)] /\ h = None /\ q \in Seq(Owed)
    BY NoneIsHeld, EmptySeq DEF Helds
  <2>3. inbox = [held |-> h, queue |-> q, view |-> {}, evicted |-> {}, told |-> {}]
    BY <2>1
  <2> HIDE DEF h, q
  <2>4. inbox \in InboxState /\ inbox.held = None /\ inbox.queue = q /\ inbox.evicted = {}
    BY <2>2, <2>3 DEF InboxState
  <2> QED  BY <2>4 DEF q
<1>5. \A s \in Sid : inbox.held[s] = <<>> /\ offer[s] = NoOffer /\ offer[s].rest = <<>> /\ offer[s].by = NoOp
  BY <1>2, <1>4, NoOfferIs DEF None
<1>6. \A o \in Op : op[o] = Free
  BY <1>2
<1>7. Free.pc = "free"
  BY DEF Free
<1>8. TypeOK
  <2>1. issued \in Seq(Nat) /\ Len(issued) = 0 /\ file \in Seq(InboxLine)
    BY <1>2, EmptySeq
  <2>2. offer \in [Sid -> Offer] /\ op \in [Op -> Request \cup {Free}] /\ got \in [Message -> 0..2]
        /\ said \in [Message -> {"nothing", "delivered", "held", "failed"}]
    BY <1>2, NoOfferIs
  <2>3. crashes \in 0..MaxCrashes /\ aged \in 0..MaxSends /\ Len(issued) <= MaxSends
    BY <1>2, <1>3, <2>1
  <2> QED  BY <1>2, <1>4, <2>1, <2>2, <2>3 DEF TypeOK
<1>9. About(file) = {} /\ About(inbox.queue) = {}
  BY <1>2, <1>4, AboutNothing
<1>10. \A s \in Sid, m \in Message : ~Knows(s, m)
  BY <1>5, <1>6, <1>9, SetOfNothing DEF Knows, Speaks
<1>11. Homes
  BY <1>10 DEF Homes, MidsApart, MidsCounted
<1>12. Sends /\ OfferWaits
  BY <1>5, <1>6, <1>7 DEF Sends, OfferWaits
<1>13. Owing /\ OwedOnce
  BY <1>4, SetOfNothing, BeforeNothing DEF Owing, OwedOnce
<1>14. Singles
  <2>1. \A s \in Sid : Kept(file)[s] = <<>>
    BY <1>2, KeptNothing DEF None
  <2> QED  BY <1>5, <2>1, BeforeNothing DEF Singles, NoneTwice
<1>15. Unhanded /\ InOrder /\ AtMostOnce
  <2>1. \A s \in Sid : Left(s) = <<>>
    BY <1>5 DEF Left
  <2>2. \A s \in Sid : ToSet(Left(s)) = {} /\ ToSet(inbox.held[s]) = {}
    BY <1>5, <2>1, SetOfNothing
  <2>3. \A m \in Message : got[m] = 0
    BY <1>2
  <2>4. Unhanded
    BY <2>2, <2>3 DEF Unhanded
  <2>5. InOrder
    BY <2>2 DEF InOrder
  <2>6. AtMostOnce
    BY <2>3 DEF AtMostOnce
  <2> QED  BY <2>4, <2>5, <2>6
<1>16. Durable
  BY <1>2, <1>6, <1>7 DEF Durable
<1>17. IdleWhenDown
  BY <1>2 DEF IdleWhenDown
<1> QED  BY <1>1, <1>8, <1>11, <1>12, <1>13, <1>14, <1>15, <1>16, <1>17 DEF Core

LEMMA StutterCore == ASSUME Core, UNCHANGED vars PROVE Core'
BY DEF vars, Core, Given, TypeOK, IdleWhenDown, Homes, MidsApart, MidsCounted, Knows, Speaks, Sends,
       Owing, OwedTrue, AddOwed, DroppedOwed, DeliveredOwed, OwedOnce, Singles, OfferWaits, Unhanded,
       InOrder, Left, Durable, Lasting, AtMostOnce

LEMMA NextCore == ASSUME Core, Next PROVE Core'
<1>1. ASSUME NEW o \in Op, NEW s \in Sid, Send(o, s) PROVE Core'
  BY <1>1, SendCore
<1>2. ASSUME NEW o \in Op, Carried(o) PROVE Core'
  BY <1>2, CarriedCore
<1>3. ASSUME NEW o \in Op, Refused(o) PROVE Core'
  BY <1>3, RefusedCore
<1>4. ASSUME NEW o \in Op, NEW full \in SUBSET Conn, Unavailable(o, full) PROVE Core'
  BY <1>4, UnavailableCore
<1>5. ASSUME NEW s \in Sid, OfferCarried(s) PROVE Core'
  BY <1>5, OfferCarriedCore
<1>6. ASSUME NEW s \in Sid, OfferStopped(s) PROVE Core'
  BY <1>6, OfferStoppedCore
<1>7. ASSUME NEW s \in Sid, NEW st \in Standing, Changed(s, st) PROVE Core'
  BY <1>7, ChangedCore
<1>8. CASE Landed
  BY <1>8, LandedCore
<1>9. CASE AppendFails
  BY <1>9, AppendFailsCore
<1>10. ASSUME NEW c \in Conn, NEW leaves \in BOOLEAN, Subscribe(c, leaves) PROVE Core'
  BY <1>10, SubscribeCore
<1>11. ASSUME NEW c \in Conn, Unsubscribe(c) PROVE Core'
  BY <1>11, UnsubscribeCore
<1>12. CASE Watch
  BY <1>12, WatchCore
<1>13. CASE Age
  BY <1>13, AgeCore
<1>14. CASE Crash
  BY <1>14, CrashCore
<1>15. CASE Restart
  BY <1>15, RestartCore
<1> QED  BY <1>1, <1>2, <1>3, <1>4, <1>5, <1>6, <1>7, <1>8, <1>9, <1>10, <1>11, <1>12, <1>13,
            <1>14, <1>15 DEF Next

LEMMA CoreAlways == ASSUME DeliveryAssumption PROVE Spec => []Core
<1>1. Init => Core
  BY InitCore
<1>2. Core /\ [Next]_vars => Core'
  BY NextCore, StutterCore
<1> QED  BY <1>1, <1>2, PTL DEF Spec

-----------------------------------------------------------------------------
(* While no append fails, the file catches up with the memory, and however *)
(* much of what is owed has reached it, a replay of it is within the limit *)
(* but for one message of each request and kill.                           *)
Brief(f, K, lim) == \A s \in Sid : Len(Only(Kept(f)[s], K)) <= lim

Within(f, q, K, lim) == \A a, b \in Seq(Owed) : q = a \o b => Brief(f \o a, K, lim)

Agrees(f, b, K) == \A s \in Sid : Only(Kept(f \o b.queue)[s], K) = Only(b.held[s], K)

Waiting(b) == UNION {ToSet(b.held[s]) : s \in Sid}

Dropping(b) == {b.queue[i].msg : i \in {j \in DOMAIN b.queue : b.queue[j].v = "dropped"}}

Views(b) == Waiting(b) \subseteq b.view /\ b.view \subseteq Waiting(b) \cup Dropping(b)

Sound(f, b, K, lim) == Agrees(f, b, K) /\ Views(b) /\ Within(f, b.queue, K, lim)

LEMMA OnlyLess ==
  ASSUME NEW E, NEW s \in Seq(E), NEW L, NEW K
  PROVE  Len(Only(Only(s, L), K)) <= Len(Only(s, K))
<1>1. Only(Only(s, L), K) = Only(s, L \cap K) /\ Only(Only(s, K), L) = Only(s, K \cap L)
  BY OnlyOnly
<1>2. L \cap K = K \cap L
  OBVIOUS
<1> DEFINE t == Only(s, K)
<1>3. t \in Seq(E) /\ Only(t, L) = Only(Only(s, L), K)
  BY <1>1, <1>2, OnlyType
<1> HIDE DEF t
<1>4. Len(Only(t, L)) <= Len(t)
  BY <1>3, OnlyShorter
<1> QED  BY <1>3, <1>4 DEF t

LEMMA Lined ==
  ASSUME NEW f \in Seq(InboxLine), NEW q \in Seq(Owed)
  PROVE  f \o q \in Seq(Entry) /\ Kept(f \o q) \in Helds /\ f \in Seq(Entry) /\ q \in Seq(Entry)
<1>1. f \in Seq(Entry) /\ q \in Seq(Entry)
  BY SeqMonotonic DEF Entry
<1>2. f \o q \in Seq(Entry)
  BY <1>1, ConcatProperties
<1> QED  BY <1>1, <1>2, KeptType

LEMMA WithinAll ==
  ASSUME NEW f \in Seq(InboxLine), NEW q \in Seq(Owed), NEW K, NEW lim, Within(f, q, K, lim)
  PROVE  Brief(f \o q, K, lim) /\ Brief(f, K, lim)
<1>1. q \o <<>> = q /\ <<>> \o q = q /\ f \o <<>> = f /\ <<>> \in Seq(Owed)
  BY ConcatEmptySeq, EmptySeq
<1> DEFINE n == <<>>
<1>2. q = q \o n /\ q = n \o q /\ f \o n = f /\ n \in Seq(Owed)
  BY <1>1
<1> HIDE DEF n
<1>3. Brief(f \o q, K, lim) /\ Brief(f \o n, K, lim)
  BY <1>2 DEF Within
<1> QED  BY <1>2, <1>3

LEMMA WithinNothing ==
  ASSUME NEW f \in Seq(InboxLine), NEW K, NEW lim, Brief(f, K, lim)
  PROVE  Within(f, <<>>, K, lim)
<1> SUFFICES ASSUME NEW a \in Seq(Owed), NEW b \in Seq(Owed), <<>> = a \o b
             PROVE  Brief(f \o a, K, lim)
  BY DEF Within
<1>1. a \o b = <<>>
  OBVIOUS
<1>2. a = <<>>
  BY <1>1, ConcatEqualIffEmpty
<1> QED  BY <1>2, ConcatEmptySeq

LEMMA WithinAppend ==
  ASSUME NEW f \in Seq(InboxLine), NEW q \in Seq(Owed), NEW x \in Owed, NEW K, NEW lim,
         Within(f, q, K, lim), Brief(f \o Append(q, x), K, lim)
  PROVE  Within(f, Append(q, x), K, lim)
<1> SUFFICES ASSUME NEW a \in Seq(Owed), NEW b \in Seq(Owed), Append(q, x) = a \o b
             PROVE  Brief(f \o a, K, lim)
  BY DEF Within
<1>1. CASE b = <<>>
  <2>1. a \o b = a
    BY <1>1, ConcatEmptySeq
  <2> QED  BY <2>1
<1>2. CASE b # <<>>
  <2>1. PICK c \in Seq(Owed), y \in Owed : b = Append(c, y)
    BY <1>2, SequenceEmptyOrAppend
  <2> DEFINE d == a \o c
  <2>2. Append(q, x) = Append(d, y) /\ d \in Seq(Owed)
    BY <2>1, ConcatAppend, ConcatProperties
  <2> HIDE DEF d
  <2>3. q = d
    BY <2>2, AppendInjective
  <2> QED  BY <2>3 DEF Within, d
<1> QED  BY <1>1, <1>2

LEMMA WithinGone ==
  ASSUME NEW f \in Seq(InboxLine), NEW q \in Seq(Owed), NEW x \in Owed, NEW K, NEW lim, lim \in Int,
         Within(f, q, K, lim), x.v # "add"
  PROVE  Within(f, Append(q, x), K, lim)
<1>1. x \in Entry /\ x.sid \in Sid
  BY LineOfSays, EntryHas
<1> DEFINE l == f \o q
           k == Kept(l)
<1>2. l \in Seq(Entry) /\ k \in Helds /\ Brief(l, K, lim)
  BY Lined, WithinAll
<1>3. f \o Append(q, x) = Append(l, x)
  <2>1. f \in Seq(Entry) /\ q \in Seq(Entry)
    BY Lined
  <2> QED  BY <1>1, <2>1, ConcatAppend
<1> HIDE DEF l
<1>4. Kept(Append(l, x)) = [k EXCEPT ![x.sid] = Only(@, Message \ {x.msg})]
  BY <1>1, <1>2, KeptAppend DEF Past
<1>5. ASSUME NEW s \in Sid PROVE Len(Only(Kept(Append(l, x))[s], K)) <= lim
  <2>1. Len(Only(k[s], K)) <= lim /\ k[s] \in Seq(Message)
    BY <1>2 DEF Brief, Helds
  <2>2. CASE s # x.sid
    <3>1. Kept(Append(l, x))[s] = k[s]
      BY <1>2, <1>4, <2>2 DEF Helds
    <3> QED  BY <2>1, <3>1
  <2>3. CASE s = x.sid
    <3> DEFINE q1 == k[s]
               L == Message \ {x.msg}
    <3>1. Kept(Append(l, x))[s] = Only(q1, L)
      BY <1>2, <1>4, <2>3 DEF Helds
    <3>2. q1 \in Seq(Message) /\ Len(Only(q1, K)) <= lim
      BY <2>1
    <3> HIDE DEF q1, L
    <3>3. Len(Only(Only(q1, L), K)) <= Len(Only(q1, K))
      BY <3>2, OnlyLess
    <3>4. Len(Only(q1, K)) \in Nat /\ Len(Only(Only(q1, L), K)) \in Nat
      BY <3>2, OnlyType, LenProperties
    <3> QED  BY <3>1, <3>2, <3>3, <3>4
  <2> QED  BY <2>2, <2>3
<1>6. Brief(f \o Append(q, x), K, lim)
  BY <1>3, <1>5 DEF Brief
<1> QED  BY <1>6, WithinAppend

LEMMA WithinLeaving ==
  ASSUME NEW f \in Seq(InboxLine), NEW q \in Seq(Owed), NEW s \in Sid, NEW by \in {"offer", "none"},
         NEW K, NEW lim, lim \in Int, Within(f, q, K, lim)
  PROVE  \A ms \in Seq(Message) : Within(f, q \o Leaving(ms, s, by), K, lim)
<1> DEFINE P == {ms \in Seq(Message) : Within(f, q \o Leaving(ms, s, by), K, lim)}
<1>1. <<>> \in P
  <2>1. Leaving(<<>>, s, by) = <<>>
    BY DEF Leaving
  <2>2. q \o <<>> = q
    BY ConcatEmptySeq
  <2> QED  BY <2>1, <2>2, EmptySeq
<1>2. ASSUME NEW ms \in Seq(Message), NEW m \in Message, ms \in P PROVE Append(ms, m) \in P
  <2> DEFINE x == [v |-> "delivered", sid |-> s, msg |-> m, by |-> by]
             t == q \o Leaving(ms, s, by)
  <2>1. x \in Owed /\ x.v # "add"
    BY DEF Owed
  <2>2. Leaving(ms, s, by) \in Seq(Owed)
    BY LeavingType
  <2>3. t \in Seq(Owed) /\ Within(f, t, K, lim)
    BY <1>2, <2>2, ConcatProperties
  <2>4. q \o Leaving(Append(ms, m), s, by) = Append(t, x)
    <3>1. Leaving(Append(ms, m), s, by) = Append(Leaving(ms, s, by), x)
      BY LeavingAppend
    <3> HIDE DEF x
    <3> QED  BY <2>1, <2>2, <3>1, ConcatAppend
  <2> HIDE DEF x, t
  <2>5. Within(f, Append(t, x), K, lim)
    BY <2>1, <2>3, WithinGone
  <2>6. Append(ms, m) \in Seq(Message)
    BY AppendProperties
  <2> QED  BY <2>4, <2>5, <2>6
<1> HIDE DEF P
<1>3. Seq(Message) \subseteq P
  BY <1>1, <1>2, SeqClimb
<1> QED  BY <1>3 DEF P

LEMMA WithinLanded ==
  ASSUME NEW f \in Seq(InboxLine), NEW q \in Seq(Owed), q # <<>>, NEW K, NEW lim, Within(f, q, K, lim)
  PROVE  Within(Append(f, LineOf(Head(q))), Tail(q), K, lim)
<1> DEFINE x == Head(q)
           g == Append(f, LineOf(x))
<1>1. x \in Owed /\ Tail(q) \in Seq(Owed) /\ q = <<x>> \o Tail(q)
  BY TailHas
<1> HIDE DEF x
<1> SUFFICES ASSUME NEW a \in Seq(Owed), NEW b \in Seq(Owed), Tail(q) = a \o b
             PROVE  Brief(g \o a, K, lim)
  BY DEF Within, x
<1>2. <<x>> \in Seq(Owed)
  BY <1>1, SetOfOne
<1> DEFINE h == <<x>>
<1>3. h \in Seq(Owed) /\ q = h \o (a \o b)
  BY <1>1, <1>2
<1> HIDE DEF h
<1>4. q = (h \o a) \o b /\ h \o a \in Seq(Owed)
  <2>1. (h \o a) \o b = h \o (a \o b)
    BY <1>3, ConcatAssociative
  <2>2. h \o a \in Seq(Owed)
    BY <1>3, ConcatProperties
  <2> QED  BY <1>3, <2>1, <2>2
<1>6. Brief(f \o (h \o a), K, lim)
  BY <1>4 DEF Within
<1>5. Kept(g \o a) = Kept(f \o (<<x>> \o a))
  BY <1>1, KeptLanded
<1> QED  BY <1>5, <1>6 DEF Brief, h

LEMMA BriefFewer ==
  ASSUME NEW f \in Seq(Entry), NEW K, NEW L, L \subseteq K, NEW lim, lim \in Int, Brief(f, K, lim)
  PROVE  Brief(f, L, lim)
<1> SUFFICES ASSUME NEW s \in Sid, NEW k, k = Kept(f)[s] PROVE Len(Only(k, L)) <= lim
  BY DEF Brief
<1>1. k \in Seq(Message) /\ Len(Only(k, K)) <= lim
  BY KeptType DEF Brief, Helds
<1>2. Only(Only(k, K), L) = Only(k, L)
  <2>1. Only(Only(k, K), L) = Only(k, K \cap L) /\ K \cap L = L
    BY <1>1, OnlyOnly
  <2> QED  BY <2>1
<1> DEFINE t == Only(k, K)
<1>3. t \in Seq(Message) /\ Len(t) <= lim
  BY <1>1, OnlyType
<1>4. Only(t, L) = Only(k, L)
  BY <1>2
<1> HIDE DEF t
<1>5. Len(Only(t, L)) <= Len(t) /\ Only(t, L) \in Seq(Message)
  BY <1>3, OnlyShorter, OnlyType
<1> QED  BY <1>3, <1>4, <1>5, LenProperties

LEMMA WithinFewer ==
  ASSUME NEW f \in Seq(InboxLine), NEW q \in Seq(Owed), NEW K, NEW L, L \subseteq K, NEW lim, lim \in Int,
         Within(f, q, K, lim)
  PROVE  Within(f, q, L, lim)
<1> SUFFICES ASSUME NEW a \in Seq(Owed), NEW b \in Seq(Owed), q = a \o b PROVE Brief(f \o a, L, lim)
  BY DEF Within
<1> DEFINE g == f \o a
<1>1. Brief(g, K, lim) /\ g \in Seq(Entry)
  BY Lined DEF Within
<1> HIDE DEF g
<1>2. Brief(g, L, lim)
  BY <1>1, BriefFewer
<1> QED  BY <1>2 DEF g

(* What an expiry, a delivery, a hold, an eviction and a line that lands   *)
(* leave of it.                                                            *)
ExpiredAs(b, e, S) ==
  /\ e \in InboxState /\ e.queue = b.queue
  /\ e.view = b.view \ GoneOf(b.held, S)
  /\ e.told = b.told \cup (GoneOf(b.held, S) \X {"expired"})
  /\ \A s \in Sid : e.held[s] = Only(b.held[s], IF s \in S THEN Young ELSE Message)

(* A message is held by one session.                                       *)
Homed(b) ==
  \A s, t \in Sid : \A m \in ToSet(b.held[s]) : m \in ToSet(b.held[t]) => s = t

LEMMA DroppingIs ==
  ASSUME NEW b \in InboxState
  PROVE  /\ \A m : m \in Dropping(b) <=> \E x \in ToSet(b.queue) : x.v = "dropped" /\ x.msg = m
         /\ \A m : m \in Waiting(b) <=> \E s \in Sid : m \in ToSet(b.held[s])
<1>1. \A m : m \in Waiting(b) <=> \E s \in Sid : m \in ToSet(b.held[s])
  BY DEF Waiting
<1>2. \A m : m \in Dropping(b) <=> \E x \in ToSet(b.queue) : x.v = "dropped" /\ x.msg = m
  BY DEF Dropping, ToSet
<1> QED  BY <1>1, <1>2

LEMMA SoundExpired ==
  ASSUME NEW f \in Seq(InboxLine), NEW b \in InboxState, NEW e, NEW S \in SUBSET Sid, NEW lim,
         aged \in Int, MaxSends \in Nat,
         ExpiredAs(b, e, S), Homed(b), Sound(f, b, Young, lim)
  PROVE  Sound(f, e, Young, lim) /\ \A s \in Sid : Len(e.held[s]) <= Len(b.held[s])
<1>1. /\ e \in InboxState /\ e.queue = b.queue
      /\ e.view = b.view \ GoneOf(b.held, S)
      /\ \A s \in Sid : e.held[s] = Only(b.held[s], IF s \in S THEN Young ELSE Message)
  BY DEF ExpiredAs
<1>2. \A s \in Sid : b.held[s] \in Seq(Message) /\ ToSet(b.held[s]) \subseteq Message
  BY InboxHas
<1>3. ASSUME NEW s \in Sid, NEW q, q = b.held[s], NEW K, K = IF s \in S THEN Young ELSE Message
      PROVE  /\ Only(Only(q, K), Young) = Only(q, Young)
             /\ ToSet(Only(q, K)) = ToSet(q) \cap K
             /\ Len(Only(q, K)) <= Len(q)
  <2>1. q \in Seq(Message)
    BY <1>2, <1>3
  <2>2. Only(Only(q, K), Young) = Only(q, K \cap Young)
    BY <2>1, OnlyOnly
  <2>3. K \cap Young = Young
    BY <1>3 DEF Young
  <2> QED  BY <2>1, <2>2, <2>3, OnlyHolds, OnlyShorter
<1>4. \A s \in Sid : /\ Only(e.held[s], Young) = Only(b.held[s], Young)
                     /\ ToSet(e.held[s]) = ToSet(b.held[s]) \cap (IF s \in S THEN Young ELSE Message)
                     /\ Len(e.held[s]) <= Len(b.held[s])
  BY <1>1, <1>3
<1>5. Agrees(f, e, Young)
  BY <1>1, <1>4 DEF Sound, Agrees
<1>6. \A m : m \in Dropping(e) <=> m \in Dropping(b)
  BY <1>1 DEF Dropping
<1>7. Waiting(e) \subseteq e.view
  <2> SUFFICES ASSUME NEW m, m \in Waiting(e) PROVE m \in e.view
    OBVIOUS
  <2>1. PICK s \in Sid : m \in ToSet(e.held[s])
    BY <1>1, DroppingIs
  <2>2. m \in ToSet(b.held[s]) /\ m \in Message /\ (s \in S => m \in Young)
    BY <1>2, <1>4, <2>1
  <2>3. m \in b.view
    BY <2>2, DroppingIs DEF Sound, Views
  <2>4. m \notin GoneOf(b.held, S)
    <3> SUFFICES ASSUME m <= aged, NEW t \in S, m \in ToSet(b.held[t]) PROVE FALSE
      BY DEF GoneOf
    <3>1. s = t
      BY <2>2 DEF Homed
    <3>2. m \in Young
      BY <2>2, <3>1
    <3> QED  BY <3>2 DEF Young, Message
  <2> QED  BY <1>1, <2>3, <2>4
<1>8. e.view \subseteq Waiting(e) \cup Dropping(e)
  <2> SUFFICES ASSUME NEW m, m \in b.view, m \notin GoneOf(b.held, S), m \notin Dropping(b)
               PROVE  m \in Waiting(e)
    BY <1>1, <1>6
  <2>1. PICK s \in Sid : m \in ToSet(b.held[s])
    BY DroppingIs DEF Sound, Views
  <2>2. m \in Message
    BY <1>2, <2>1
  <2>3. s \in S => m \in Young
    BY <2>1, <2>2 DEF GoneOf, Young, Message
  <2>4. m \in ToSet(e.held[s])
    BY <1>4, <2>1, <2>2, <2>3
  <2> QED  BY <1>1, <2>4, DroppingIs
<1>9. Within(f, e.queue, Young, lim)
  BY <1>1 DEF Sound
<1> QED  BY <1>4, <1>5, <1>7, <1>8, <1>9 DEF Sound, Views

LEMMA LinedMore ==
  ASSUME NEW f \in Seq(InboxLine), NEW q \in Seq(Owed), NEW L \in Seq(Owed)
  PROVE  f \o (q \o L) = (f \o q) \o L
<1>1. f \in Seq(Entry) /\ q \in Seq(Entry) /\ L \in Seq(Entry)
  BY Lined
<1> QED  BY <1>1, ConcatAssociative

LEMMA SoundLeft ==
  ASSUME NEW f \in Seq(InboxLine), NEW b \in InboxState, NEW e, NEW s \in Sid, NEW ms \in Seq(Message),
         NEW by \in {"offer", "none"}, NEW K, NEW lim, lim \in Int,
         LeftAs(b, e, s, ms, by), Sound(f, b, K, lim),
         \A t \in Sid : \A m \in ToSet(ms) : m \in ToSet(b.held[t]) => t = s
  PROVE  Sound(f, e, K, lim) /\ \A t \in Sid : Len(e.held[t]) <= Len(b.held[t])
<1>1. /\ e \in InboxState
      /\ e.held = [b.held EXCEPT ![s] = Only(@, Message \ ToSet(ms))]
      /\ \/ e = b
         \/ e.queue = b.queue \o Leaving(ms, s, by) /\ e.view = b.view \ ToSet(ms)
      /\ \A t \in Sid : Len(e.held[t]) <= Len(b.held[t])
  BY DEF LeftAs, Thinner
<1>2. CASE e = b
  BY <1>1, <1>2
<1>3. CASE e.queue = b.queue \o Leaving(ms, s, by) /\ e.view = b.view \ ToSet(ms)
  <2>1. b.held \in Helds /\ b.queue \in Seq(Owed) /\ \A t \in Sid : b.held[t] \in Seq(Message)
    BY InboxHas
  <2> DEFINE L == Leaving(ms, s, by)
             q == b.queue
             l == f \o q
             M == Message \ ToSet(ms)
             k == Kept(l)
  <2>2. L \in Seq(Owed) /\ L \in Seq(Entry) /\ q \in Seq(Owed) /\ q \in Seq(Entry)
        /\ l \in Seq(Entry) /\ f \in Seq(Entry) /\ k \in Helds
    <3>1. L \in Seq(Owed)
      BY LeavingType
    <3> HIDE DEF L
    <3> QED  BY <2>1, <3>1, Lined
  <2>3. f \o (q \o L) = l \o L
    <3> HIDE DEF L, q
    <3> QED  BY <2>2, LinedMore
  <2>4. Kept(l \o L) = [k EXCEPT ![s] = Only(@, M)]
    <3> HIDE DEF l
    <3>1. LeftOut(Kept(l \o L), k, s, M)
      BY <2>2, KeptLeaving
    <3> QED  BY <3>1 DEF LeftOut
  <2> HIDE DEF l, q, k, L
  <2>5. Agrees(f, e, K)
    <3> SUFFICES ASSUME NEW t \in Sid PROVE Only(Kept(f \o e.queue)[t], K) = Only(e.held[t], K)
      BY DEF Agrees
    <3>1. Kept(f \o e.queue)[t] = [k EXCEPT ![s] = Only(@, M)][t]
      BY <1>3, <2>3, <2>4 DEF q, L
    <3>2. Only(k[t], K) = Only(b.held[t], K)
      BY DEF Sound, Agrees, k, l, q
    <3>3. CASE t # s
      BY <1>1, <2>1, <2>2, <3>1, <3>2, <3>3 DEF Helds
    <3>4. CASE t = s
      <4>1. Kept(f \o e.queue)[t] = Only(k[s], M) /\ e.held[t] = Only(b.held[s], M)
        BY <1>1, <2>1, <2>2, <3>1, <3>4 DEF Helds
      <4> DEFINE u == k[s]
                 v == b.held[s]
      <4>2. u \in Seq(Message) /\ v \in Seq(Message) /\ Only(u, K) = Only(v, K)
        BY <2>1, <2>2, <3>2, <3>4 DEF Helds
      <4> HIDE DEF u, v, M
      <4>3. /\ Only(Only(u, M), K) = Only(u, M \cap K) /\ Only(Only(u, K), M) = Only(u, K \cap M)
            /\ Only(Only(v, M), K) = Only(v, M \cap K) /\ Only(Only(v, K), M) = Only(v, K \cap M)
        BY <4>2, OnlyOnly
      <4>4. M \cap K = K \cap M
        OBVIOUS
      <4>5. Only(Only(u, M), K) = Only(Only(v, M), K)
        BY <4>2, <4>3, <4>4
      <4> QED  BY <4>1, <4>5 DEF u, v
    <3> QED  BY <3>3, <3>4
  <2>6. Within(f, e.queue, K, lim)
    <3>1. Within(f, q, K, lim)
      BY DEF Sound, q
    <3>2. Within(f, q \o L, K, lim)
      BY <2>2, <3>1, WithinLeaving DEF L
    <3> QED  BY <1>3, <3>2 DEF q, L
  <2>7. ASSUME NEW m PROVE m \in Dropping(b) => m \in Dropping(e)
    <3> SUFFICES ASSUME NEW x \in ToSet(b.queue), x.v = "dropped", x.msg = m PROVE m \in Dropping(e)
      BY DroppingIs
    <3>1. x \in ToSet(q \o L)
      BY <2>2, SetOfConcat DEF q
    <3>2. x \in ToSet(e.queue)
      BY <1>3, <3>1 DEF q, L
    <3> QED  BY <1>1, <3>2, DroppingIs
  <2>8. ASSUME NEW t \in Sid PROVE ToSet(e.held[t]) = ToSet(b.held[t]) \ ToSet(ms)
    <3>1. CASE t = s
      <4> DEFINE v == b.held[s]
      <4>1. v \in Seq(Message) /\ e.held[t] = Only(v, M)
        BY <1>1, <2>1, <3>1 DEF Helds
      <4> HIDE DEF v, M
      <4>2. ToSet(Only(v, M)) = ToSet(v) \cap M /\ ToSet(v) \subseteq Message
        BY <4>1, OnlyHolds, SetType
      <4> QED  BY <3>1, <4>1, <4>2 DEF v, M
    <3>2. CASE t # s
      BY <1>1, <2>1, <3>2 DEF Helds
    <3> QED  BY <3>1, <3>2
  <2>9. Waiting(e) \subseteq e.view
    <3> SUFFICES ASSUME NEW m, m \in Waiting(e) PROVE m \in e.view
      OBVIOUS
    <3>1. PICK t \in Sid : m \in ToSet(e.held[t])
      BY <1>1, DroppingIs
    <3>2. m \in ToSet(b.held[t]) /\ m \notin ToSet(ms)
      BY <2>8, <3>1
    <3>3. m \in b.view
      BY <3>2, DroppingIs DEF Sound, Views
    <3> QED  BY <1>3, <3>2, <3>3
  <2>10. e.view \subseteq Waiting(e) \cup Dropping(e)
    <3> SUFFICES ASSUME NEW m, m \in b.view, m \notin ToSet(ms), m \notin Dropping(b)
                 PROVE  m \in Waiting(e)
      BY <1>3, <2>7
    <3>1. PICK t \in Sid : m \in ToSet(b.held[t])
      BY DroppingIs DEF Sound, Views
    <3>2. m \in ToSet(e.held[t])
      BY <2>8, <3>1
    <3> QED  BY <1>1, <3>2, DroppingIs
  <2> QED  BY <1>1, <2>5, <2>6, <2>9, <2>10 DEF Sound, Views
<1> QED  BY <1>1, <1>2, <1>3

LEMMA SoundHeld ==
  ASSUME NEW f \in Seq(InboxLine), NEW b \in InboxState, NEW e, NEW s \in Sid, NEW m \in Message,
         NEW o \in Op, NEW lim, lim \in Int, aged \in Int, MaxSends \in Nat, HeldAs(b, e, s, m, o), Homed(b),
         Sound(f, b, Young, lim), \A t \in Sid : m \notin ToSet(b.held[t]),
         \A t \in Sid : Len(e.held[t]) <= lim
  PROVE  Sound(f, e, Young, lim)
<1> DEFINE x == [v |-> "add", sid |-> s, msg |-> m, by |-> o]
           q == b.queue
           l == f \o q
           k == Kept(l)
<1>1. /\ e \in InboxState /\ e.queue = Append(q, x)
      /\ e.view = (b.view \cup {m}) \ GoneOf(b.held, {s})
      /\ \A t \in Sid : e.held[t] = IF t = s THEN Append(Only(b.held[s], Young), m) ELSE b.held[t]
  BY DEF HeldAs
<1>2. b.held \in Helds /\ q \in Seq(Owed) /\ \A t \in Sid : b.held[t] \in Seq(Message)
      /\ ToSet(b.held[t]) \subseteq Message
  BY InboxHas
<1>3. x \in Owed /\ x \in Entry /\ x.v = "add" /\ x.sid = s /\ x.msg = m
  BY DEF Owed, Entry
<1>4. l \in Seq(Entry) /\ k \in Helds /\ f \in Seq(Entry) /\ q \in Seq(Entry)
  BY <1>2, Lined
<1> HIDE DEF x, q
<1>5. f \o Append(q, x) = Append(l, x)
  BY <1>3, <1>4, ConcatAppend
<1> HIDE DEF l
<1>6. Kept(Append(l, x)) = [k EXCEPT ![s] = Append(@, m)]
  BY <1>3, <1>4, KeptAppend DEF Past
<1>7. Agrees(f, e, Young)
  <2> SUFFICES ASSUME NEW t \in Sid PROVE Only(Kept(f \o e.queue)[t], Young) = Only(e.held[t], Young)
    BY DEF Agrees
  <2>1. Kept(f \o e.queue)[t] = [k EXCEPT ![s] = Append(@, m)][t]
    BY <1>1, <1>5, <1>6
  <2>2. Only(k[t], Young) = Only(b.held[t], Young)
    BY DEF Sound, Agrees, l, q
  <2>3. CASE t # s
    BY <1>1, <1>4, <2>1, <2>2, <2>3 DEF Helds
  <2>4. CASE t = s
    <3> DEFINE u == k[s]
               v == b.held[s]
               w == Only(v, Young)
    <3>1. u \in Seq(Message) /\ v \in Seq(Message) /\ Only(u, Young) = Only(v, Young)
      BY <1>2, <1>4, <2>2, <2>4 DEF Helds
    <3>2. Kept(f \o e.queue)[t] = Append(u, m) /\ e.held[t] = Append(w, m)
      BY <1>1, <1>4, <2>1, <2>4 DEF Helds
    <3> HIDE DEF u, v
    <3>3. w \in Seq(Message) /\ Only(w, Young) = w
      <4>1. Only(Only(v, Young), Young) = Only(v, Young \cap Young)
        BY <3>1, OnlyOnly
      <4>2. Young \cap Young = Young
        OBVIOUS
      <4> QED  BY <3>1, <4>1, <4>2, OnlyType
    <3>4. Only(u, Young) = w
      BY <3>1
    <3> HIDE DEF w
    <3>5. /\ Only(Append(u, m), Young) = IF m \in Young THEN Append(Only(u, Young), m) ELSE Only(u, Young)
          /\ Only(Append(w, m), Young) = IF m \in Young THEN Append(Only(w, Young), m) ELSE Only(w, Young)
      BY <3>1, <3>3, OnlyAppend
    <3> QED  BY <3>2, <3>3, <3>4, <3>5
  <2> QED  BY <2>3, <2>4
<1>8. Within(f, e.queue, Young, lim)
  <2>1. Brief(f \o e.queue, Young, lim)
    <3> SUFFICES ASSUME NEW t \in Sid PROVE Len(Only(Kept(f \o e.queue)[t], Young)) <= lim
      BY DEF Brief
    <3> DEFINE v == e.held[t]
    <3>1. Only(Kept(f \o e.queue)[t], Young) = Only(v, Young) /\ v \in Seq(Message) /\ Len(v) <= lim
      BY <1>1, <1>7, InboxHas DEF Agrees
    <3> HIDE DEF v
    <3>2. Len(Only(v, Young)) <= Len(v) /\ Len(v) \in Nat /\ Len(Only(v, Young)) \in Nat
      BY <3>1, OnlyShorter, OnlyType, LenProperties
    <3> QED  BY <3>1, <3>2
  <2>2. Within(f, q, Young, lim)
    BY DEF Sound, q
  <2> QED  BY <1>1, <1>2, <1>3, <2>1, <2>2, WithinAppend
<1>9. ASSUME NEW n PROVE n \in Dropping(b) => n \in Dropping(e)
  <2> SUFFICES ASSUME NEW y \in ToSet(b.queue), y.v = "dropped", y.msg = n PROVE n \in Dropping(e)
    BY DroppingIs
  <2>1. y \in ToSet(e.queue)
    BY <1>1, <1>2, <1>3, SetOfAppend DEF q
  <2> QED  BY <1>1, <2>1, DroppingIs
<1>10. ToSet(e.held[s]) = (ToSet(b.held[s]) \cap Young) \cup {m}
  <2> DEFINE v == b.held[s]
             w == Only(v, Young)
  <2>1. v \in Seq(Message) /\ e.held[s] = Append(w, m)
    BY <1>1, <1>2
  <2> HIDE DEF v
  <2>2. w \in Seq(Message) /\ ToSet(w) = ToSet(v) \cap Young
    BY <2>1, OnlyType, OnlyHolds
  <2> HIDE DEF w
  <2>3. ToSet(Append(w, m)) = ToSet(w) \cup {m}
    BY <2>2, SetOfAppend
  <2> QED  BY <2>1, <2>2, <2>3 DEF v
<1>11. Waiting(e) \subseteq e.view
  <2> SUFFICES ASSUME NEW n, n \in Waiting(e) PROVE n \in e.view
    OBVIOUS
  <2>1. PICK t \in Sid : n \in ToSet(e.held[t])
    BY <1>1, DroppingIs
  <2>2. n = m \/ (n \in ToSet(b.held[t]) /\ (t = s => n \in Young))
    BY <1>1, <1>10, <2>1
  <2>3. n \in b.view \cup {m}
    BY <2>2, DroppingIs DEF Sound, Views
  <2>4. n \notin GoneOf(b.held, {s})
    <3> SUFFICES ASSUME n <= aged, n \in ToSet(b.held[s]) PROVE FALSE
      BY DEF GoneOf
    <3>1. n # m
      OBVIOUS
    <3>2. t = s
      BY <2>2, <3>1 DEF Homed
    <3>3. n \in Young
      BY <2>2, <3>1, <3>2
    <3> QED  BY <3>3 DEF Young, Message
  <2> QED  BY <1>1, <2>3, <2>4
<1>12. e.view \subseteq Waiting(e) \cup Dropping(e)
  <2> SUFFICES ASSUME NEW n, n \in b.view \cup {m}, n \notin GoneOf(b.held, {s}), n \notin Dropping(b)
               PROVE  n \in Waiting(e)
    BY <1>1, <1>9
  <2>1. CASE n = m
    BY <1>1, <1>10, <2>1, DroppingIs
  <2>2. CASE n # m
    <3>1. PICK t \in Sid : n \in ToSet(b.held[t])
      BY <2>2, DroppingIs DEF Sound, Views
    <3>2. n \in Message
      BY <1>2, <3>1
    <3>3. t = s => n \in Young
      BY <3>1, <3>2 DEF GoneOf, Young, Message
    <3>4. n \in ToSet(e.held[t])
      BY <1>1, <1>10, <3>1, <3>3
    <3> QED  BY <1>1, <3>4, DroppingIs
  <2> QED  BY <2>1, <2>2
<1> QED  BY <1>7, <1>8, <1>11, <1>12 DEF Sound, Views

LEMMA SoundLanded ==
  ASSUME NEW f \in Seq(InboxLine), NEW b \in InboxState, NEW e \in InboxState, NEW K, NEW lim,
         b.queue # <<>>, NEW h, h = Head(b.queue),
         e.queue = Tail(b.queue), e.held = b.held,
         \/ h.v # "dropped" /\ e.view = b.view
         \/ /\ h.v = "dropped" /\ e.view = b.view \ {h.msg}
            /\ \A s \in Sid : h.msg \notin ToSet(b.held[s]),
         Sound(f, b, K, lim)
  PROVE  Sound(Append(f, LineOf(h)), e, K, lim)
<1> DEFINE q == b.queue
           g == Append(f, LineOf(h))
<1>1. q \in Seq(Owed) /\ h \in Owed /\ Tail(q) \in Seq(Owed) /\ q = <<h>> \o Tail(q)
      /\ ToSet(q) = {h} \cup ToSet(Tail(q))
  BY InboxHas, TailHas
<1>2. Agrees(g, e, K)
  <2> SUFFICES ASSUME NEW s \in Sid PROVE Only(Kept(g \o Tail(q))[s], K) = Only(b.held[s], K)
    BY DEF Agrees
  <2>1. Kept(g \o Tail(q)) = Kept(f \o q)
    <3> DEFINE r == Tail(q)
    <3>1. r \in Seq(Owed) /\ q = <<h>> \o r
      BY <1>1
    <3> HIDE DEF r, q
    <3>2. Kept(g \o r) = Kept(f \o (<<h>> \o r))
      BY <1>1, <3>1, KeptLanded
    <3> QED  BY <3>1, <3>2 DEF r
  <2> QED  BY <2>1 DEF Sound, Agrees
<1>3. Within(g, e.queue, K, lim)
  <2> HIDE DEF q
  <2>1. Within(f, q, K, lim) /\ q # <<>>
    BY DEF Sound, q
  <2>2. Within(Append(f, LineOf(Head(q))), Tail(q), K, lim)
    BY <1>1, <2>1, WithinLanded
  <2> QED  BY <2>2 DEF q
<1>4. Waiting(e) = Waiting(b)
  BY DEF Waiting
<1>5. \A m : m \in Dropping(b) <=> m \in Dropping(e) \/ (h.v = "dropped" /\ m = h.msg)
  BY <1>1, DroppingIs
<1>6. Views(b)
  BY DEF Sound
<1>7. CASE h.v # "dropped" /\ e.view = b.view
  <2>1. Views(e)
    BY <1>4, <1>5, <1>6, <1>7 DEF Views
  <2> QED  BY <1>2, <1>3, <2>1 DEF Sound
<1>8. CASE /\ h.v = "dropped" /\ e.view = b.view \ {h.msg}
           /\ \A s \in Sid : h.msg \notin ToSet(b.held[s])
  <2>1. h.msg \notin Waiting(b)
    BY <1>8, DroppingIs
  <2>2. Views(e)
    BY <1>4, <1>5, <1>6, <1>8, <2>1 DEF Views
  <2> QED  BY <1>2, <1>3, <2>2 DEF Sound
<1> QED  BY <1>7, <1>8

(* The oldest message of a session is dropped, and the line is owed.       *)
DropsOldest(b, e, s, x) ==
  /\ x \in Owed /\ x.v = "dropped" /\ x.sid = s
  /\ b.held[s] # <<>> /\ NoneTwice(b.held[s]) /\ x.msg = Head(b.held[s])
  /\ e.queue = Append(b.queue, x) /\ e.held[s] = Tail(b.held[s])
  /\ \A t \in Sid \ {s} : e.held[t] = b.held[t]
  /\ e.view = b.view

LEMMA SoundDropped ==
  ASSUME NEW f \in Seq(InboxLine), NEW b \in InboxState, NEW e \in InboxState, NEW K, NEW lim, lim \in Int,
         NEW s \in Sid, NEW x, DropsOldest(b, e, s, x), Sound(f, b, K, lim)
  PROVE  Sound(f, e, K, lim)
<1>0. SUFFICES ASSUME x \in Owed, x.v = "dropped", x.sid = s,
         b.held[s] # <<>>, NoneTwice(b.held[s]), x.msg = Head(b.held[s]),
         e.queue = Append(b.queue, x), e.held[s] = Tail(b.held[s]),
         \A t \in Sid \ {s} : e.held[t] = b.held[t], e.view = b.view
               PROVE  Sound(f, e, K, lim)
  BY DEF DropsOldest
<1> USE <1>0
<1> DEFINE q == b.queue
           l == f \o q
           k == Kept(l)
           v == b.held[s]
           M == Message \ {x.msg}
<1>1. b.held \in Helds /\ q \in Seq(Owed) /\ v \in Seq(Message) /\ x \in Entry
  BY InboxHas DEF Entry
<1>2. l \in Seq(Entry) /\ k \in Helds /\ f \in Seq(Entry) /\ q \in Seq(Entry)
  BY <1>1, Lined
<1>3. e.held[s] = Only(v, M)
  <2>1. v # <<>> /\ NoneTwice(v) /\ x.msg = Head(v)
    OBVIOUS
  <2> HIDE DEF v
  <2>2. Tail(v) = Only(v, Message \ {Head(v)})
    BY <1>1, <2>1, TailIsOnly
  <2> QED  BY <2>1, <2>2 DEF v
<1> HIDE DEF q
<1>4. f \o Append(q, x) = Append(l, x)
  BY <1>1, <1>2, ConcatAppend
<1> HIDE DEF l
<1>5. Kept(Append(l, x)) = [k EXCEPT ![s] = Only(@, M)]
  BY <1>1, <1>2, KeptAppend DEF Past
<1>6. Agrees(f, e, K)
  <2> SUFFICES ASSUME NEW t \in Sid PROVE Only(Kept(f \o e.queue)[t], K) = Only(e.held[t], K)
    BY DEF Agrees
  <2>1. Kept(f \o e.queue)[t] = [k EXCEPT ![s] = Only(@, M)][t]
    BY <1>4, <1>5 DEF q
  <2>2. Only(k[t], K) = Only(b.held[t], K)
    BY DEF Sound, Agrees, l, q
  <2>3. CASE t # s
    BY <1>2, <2>1, <2>2, <2>3 DEF Helds
  <2>4. CASE t = s
    <3> DEFINE u == k[s]
    <3>1. u \in Seq(Message) /\ Only(u, K) = Only(v, K) /\ Kept(f \o e.queue)[t] = Only(u, M)
      BY <1>2, <2>1, <2>2, <2>4 DEF Helds
    <3> HIDE DEF u, v, M
    <3>2. /\ Only(Only(u, M), K) = Only(u, M \cap K) /\ Only(Only(u, K), M) = Only(u, K \cap M)
          /\ Only(Only(v, M), K) = Only(v, M \cap K) /\ Only(Only(v, K), M) = Only(v, K \cap M)
      BY <1>1, <3>1, OnlyOnly
    <3>3. M \cap K = K \cap M
      OBVIOUS
    <3> QED  BY <1>3, <2>4, <3>1, <3>2, <3>3
  <2> QED  BY <2>3, <2>4
<1>7. Within(f, e.queue, K, lim)
  <2>1. Within(f, q, K, lim) /\ x.v # "add"
    BY DEF Sound, q
  <2> QED  BY <1>1, <2>1, WithinGone DEF q
<1>8. \A m : m \in Dropping(e) <=> m \in Dropping(b) \/ m = x.msg
  <2>1. ToSet(e.queue) = ToSet(b.queue) \cup {x}
    BY <1>1, SetOfAppend DEF q
  <2>2. /\ \A m : m \in Dropping(e) <=> \E y \in ToSet(e.queue) : y.v = "dropped" /\ y.msg = m
        /\ \A m : m \in Dropping(b) <=> \E y \in ToSet(b.queue) : y.v = "dropped" /\ y.msg = m
    BY DroppingIs
  <2> QED  BY <2>1, <2>2, Zenon
<1>9. ToSet(e.held[s]) = ToSet(b.held[s]) \ {x.msg}
  <2> HIDE DEF v, M
  <2>1. ToSet(Only(v, M)) = ToSet(v) \cap M /\ ToSet(v) \subseteq Message
    BY <1>1, OnlyHolds, SetType
  <2> QED  BY <1>3, <2>1 DEF v, M
<1>10. \A m \in Waiting(b) : m \in Waiting(e) \/ m = x.msg
  <2> SUFFICES ASSUME NEW t \in Sid, NEW m \in ToSet(b.held[t]), m # x.msg
               PROVE  \E t1 \in Sid : m \in ToSet(e.held[t1])
    BY DroppingIs
  <2> QED  BY <1>9
<1>11. \A m \in Waiting(e) : m \in Waiting(b)
  <2> SUFFICES ASSUME NEW t \in Sid, NEW m \in ToSet(e.held[t])
               PROVE  \E t1 \in Sid : m \in ToSet(b.held[t1])
    BY DroppingIs
  <2> QED  BY <1>9
<1>12. Views(e)
  BY <1>8, <1>10, <1>11 DEF Sound, Views
<1> QED  BY <1>6, <1>7, <1>12 DEF Sound

LEMMA SoundFewer ==
  ASSUME NEW f \in Seq(InboxLine), NEW b \in InboxState, NEW K, NEW L, L \subseteq K, NEW lim, lim \in Int,
         Sound(f, b, K, lim)
  PROVE  Sound(f, b, L, lim)
<1> DEFINE q == b.queue
<1>1. q \in Seq(Owed) /\ b.held \in Helds
  BY InboxHas
<1>2. Within(f, q, L, lim)
  <2>1. Within(f, q, K, lim)
    BY DEF Sound
  <2> HIDE DEF q
  <2> QED  BY <1>1, <2>1, WithinFewer
<1>3. ASSUME NEW s \in Sid PROVE Only(Kept(f \o q)[s], L) = Only(b.held[s], L)
  <2> DEFINE u == Kept(f \o q)[s]
             v == b.held[s]
  <2>1. Kept(f \o q) \in Helds
    BY <1>1, Lined
  <2>2. u \in Seq(Message) /\ v \in Seq(Message) /\ Only(u, K) = Only(v, K)
    BY <1>1, <2>1 DEF Helds, Sound, Agrees
  <2> HIDE DEF u, v
  <2>3. Only(Only(u, K), L) = Only(u, K \cap L) /\ Only(Only(v, K), L) = Only(v, K \cap L)
    BY <2>2, OnlyOnly
  <2>4. K \cap L = L
    OBVIOUS
  <2> QED  BY <2>2, <2>3, <2>4 DEF u, v
<1> QED  BY <1>2, <1>3 DEF Sound, Agrees

-----------------------------------------------------------------------------
(* The second part of the invariant, for a disk that takes every line.     *)
Adders(s) == {o \in Op : op[o].pc = "adding" /\ op[o].sid = s}

Spare == crashes * Cardinality(Op)

Most == MaxHeld + Spare + Cardinality(Op)

Whole ==
  ~Failing => /\ ~torn /\ DeliveredHasArrived /\ InboxBounded
              /\ up => Sound(file, inbox, Young, Most)
              /\ ~up => Brief(file, Young, MaxHeld + Spare)

Inv == Core /\ Whole

LEMMA NumbersAre ==
  ASSUME Core
  PROVE  /\ Cardinality(Op) \in Nat /\ Spare \in Nat /\ Most \in Nat /\ Spare \in Int /\ Most \in Int
         /\ \A s \in Sid : /\ Cardinality(Adders(s)) \in Nat
                           /\ Cardinality(Adders(s)) <= Cardinality(Op)
                           /\ IsFiniteSet(Adders(s))
<1>1. Cardinality(Op) \in Nat /\ crashes \in Nat /\ MaxHeld \in Nat /\ IsFiniteSet(Op)
  BY CoreTypes, FS_CardinalityType
<1>2. Spare \in Nat
  BY <1>1 DEF Spare
<1>3. ASSUME NEW s \in Sid
      PROVE  /\ Cardinality(Adders(s)) \in Nat
             /\ Cardinality(Adders(s)) <= Cardinality(Op)
             /\ IsFiniteSet(Adders(s))
  <2>1. Adders(s) \subseteq Op
    BY DEF Adders
  <2> QED  BY <1>1, <2>1, FS_Subset, FS_CardinalityType
<1> QED  BY <1>1, <1>2, <1>3 DEF Most

LEMMA BoundedIs == InboxBounded <=> \A s \in Sid : Len(inbox.held[s]) <= MaxHeld + Cardinality(Adders(s)) + Spare
BY DEF InboxBounded, Adders, Spare

(* The requests whose message is being added go on adding it.              *)
AddersGoOn == \A o \in Op : op[o].pc = "adding" => op'[o] = op[o]

(* What a step states delivered has arrived with it, if not before.        *)
ArrivesNow ==
  /\ ever \subseteq ever'
  /\ \A m \in Message : <<m, "delivered">> \in inbox'.told =>
       (<<m, "delivered">> \in inbox.told \/ m \in ever')

LEMMA WholeStep ==
  ASSUME Core, Whole, ~Failing, up', crashes' = crashes, aged' = aged, torn' = FALSE,
         ArrivesNow, Sound(file', inbox', Young, Most),
         \A s \in Sid : Len(inbox'.held[s]) <= MaxHeld + Cardinality(Adders(s)') + Spare
  PROVE  Whole'
<1>1. DeliveredHasArrived'
  BY DEF Whole, DeliveredHasArrived, ArrivesNow
<1>2. InboxBounded'
  BY DEF InboxBounded, Adders, Spare
<1>3. Young' = Young /\ Most' = Most
  BY DEF Young, Most, Spare
<1>4. Sound(file', inbox', Young', Most')
  BY <1>3
<1>5. Sound(file, inbox, Young, Most)'
  BY <1>4
<1> QED  BY <1>1, <1>2, <1>5 DEF Whole

LEMMA AddersStay ==
  ASSUME Core, AddersGoOn, NEW s \in Sid
  PROVE  /\ Cardinality(Adders(s)) <= Cardinality(Adders(s)') /\ Cardinality(Adders(s)) \in Nat
         /\ Cardinality(Adders(s)') \in Nat
<1>1. IsFiniteSet(Op) /\ Adders(s)' \subseteq Op /\ Adders(s) \subseteq Adders(s)'
  BY CoreTypes DEF Adders, AddersGoOn
<1>2. IsFiniteSet(Adders(s)')
  BY <1>1, FS_Subset
<1> QED  BY <1>1, <1>2, FS_Subset, FS_CardinalityType

LEMMA LengthsAre ==
  ASSUME Core, NEW s \in Sid PROVE Len(inbox.held[s]) \in Nat /\ MaxHeld \in Nat /\ Spare \in Nat
<1>1. inbox.held[s] \in Seq(Message) /\ MaxHeld \in Nat
  BY CoreTypes
<1> QED  BY <1>1, LenProperties, NumbersAre

LEMMA ShorterWhole ==
  ASSUME Core, Whole, ~Failing, up', crashes' = crashes, aged' = aged, torn' = FALSE,
         ArrivesNow, AddersGoOn, Sound(file', inbox', Young, Most), inbox' \in InboxState,
         \A s \in Sid : Len(inbox'.held[s]) <= Len(inbox.held[s])
  PROVE  Whole'
<1>1. ASSUME NEW s \in Sid
      PROVE  Len(inbox'.held[s]) <= MaxHeld + Cardinality(Adders(s)') + Spare
  <2>1. Len(inbox.held[s]) <= MaxHeld + Cardinality(Adders(s)) + Spare
    BY BoundedIs DEF Whole
  <2> DEFINE a == Len(inbox.held[s])
             c == Len(inbox'.held[s])
             d == Cardinality(Adders(s))
             g == Cardinality(Adders(s)')
             p == Spare
  <2>2. a \in Nat /\ c \in Nat /\ d \in Nat /\ g \in Nat /\ p \in Nat /\ MaxHeld \in Nat
        /\ d <= g /\ c <= a /\ a <= MaxHeld + d + p
    <3>1. inbox'.held[s] \in Seq(Message)
      BY InboxHas
    <3>2. c \in Nat
      BY <3>1, LenProperties
    <3> QED  BY <2>1, <3>2, AddersStay, LengthsAre
  <2> HIDE DEF a, c, d, g, p
  <2>3. c <= MaxHeld + g + p
    BY <2>2
  <2> QED  BY <2>3 DEF c, g, p
<1> QED  BY <1>1, WholeStep

LEMMA CoreHomed == ASSUME Core PROVE Homed(inbox)
BY CoreApart DEF Homed

LEMMA ExpiredWhole ==
  ASSUME Core, Whole, ~Failing, up, up', crashes' = crashes, aged' = aged, torn' = torn, file' = file,
         NEW S \in SUBSET Sid, inbox' = Expire(inbox, S), ever \subseteq ever', AddersGoOn
  PROVE  Whole'
<1>1. ExpiredAs(inbox, inbox', S) /\ inbox' \in InboxState
  BY ExpireStep DEF ExpiredAs
<1>2. Sound(file, inbox, Young, Most) /\ torn' = FALSE
  BY CoreTypes DEF Whole
<1>3. Sound(file', inbox', Young, Most) /\ \A s \in Sid : Len(inbox'.held[s]) <= Len(inbox.held[s])
  <2> DEFINE b == inbox
             e == inbox'
             f == file
             lim == Most
  <2>1. f \in Seq(InboxLine) /\ b \in InboxState /\ aged \in Int /\ MaxSends \in Nat /\ Homed(b)
        /\ ExpiredAs(b, e, S) /\ Sound(f, b, Young, lim)
    BY <1>1, <1>2, CoreTypes, CoreHomed
  <2> HIDE DEF b, e, f, lim
  <2>2. Sound(f, e, Young, lim) /\ \A s \in Sid : Len(e.held[s]) <= Len(b.held[s])
    BY <2>1, SoundExpired
  <2> QED  BY <2>2 DEF b, e, f, lim
<1>4. ArrivesNow
  <2>1. inbox'.told = inbox.told \cup (GoneOf(inbox.held, S) \X {"expired"})
    BY <1>1 DEF ExpiredAs
  <2> QED  BY <2>1 DEF ArrivesNow
<1> QED  BY <1>1, <1>2, <1>3, <1>4, ShorterWhole

(* A step that leaves the inbox, or states in it what it handed over.      *)
LEMMA UntouchedWhole ==
  ASSUME Core, Whole, ~Failing, up, up', crashes' = crashes, aged' = aged, torn' = torn, file' = file,
         inbox' \in InboxState, inbox'.held = inbox.held, inbox'.queue = inbox.queue,
         inbox'.view = inbox.view, ArrivesNow, AddersGoOn
  PROVE  Whole'
<1>1. Sound(file, inbox, Young, Most) /\ torn' = FALSE
  BY CoreTypes DEF Whole
<1>2. Sound(file', inbox', Young, Most)
  BY <1>1 DEF Sound, Agrees, Views, Waiting, Dropping
<1>3. \A s \in Sid : Len(inbox'.held[s]) <= Len(inbox.held[s])
  BY LengthsAre
<1> QED  BY <1>1, <1>2, <1>3, ShorterWhole

LEMMA WatchWhole == ASSUME Core, Whole, ~Failing, Watch PROVE Whole'
<1>1. /\ inbox' = Expire(inbox, Sid) /\ up /\ up' = up /\ crashes' = crashes
      /\ file' = file /\ torn' = torn /\ aged' = aged /\ op' = op /\ ever' = ever
  BY DEF Watch
<1>2. AddersGoOn
  BY <1>1 DEF AddersGoOn
<1> QED  BY <1>1, <1>2, ExpiredWhole

LEMMA ChangedWhole ==
  ASSUME Core, Whole, ~Failing, NEW s \in Sid, NEW st \in Standing, Changed(s, st) PROVE Whole'
<1> DEFINE live == {t \in Sid : inbox.held[t] # <<>> /\ standing'[t] = "alive"}
           S == {t \in live : ~Offering(t)}
<1>1. /\ inbox' = Expire(inbox, S) /\ up /\ up' = up /\ crashes' = crashes
      /\ file' = file /\ torn' = torn /\ aged' = aged /\ op' = op /\ ever' = ever
  BY DEF Changed, OfferedInbox
<1>2. AddersGoOn
  BY <1>1 DEF AddersGoOn
<1>3. S \in SUBSET Sid
  OBVIOUS
<1> HIDE DEF S
<1> QED  BY <1>1, <1>2, <1>3, ExpiredWhole

LEMMA CarriedWhole == ASSUME Core, Whole, ~Failing, NEW o \in Op, Carried(o) PROVE Whole'
<1> DEFINE s == op[o].sid
           S == {t \in {s} : ~Offering(t)}
<1>1. /\ inbox' = Expire(inbox, S) /\ up /\ up' = up /\ crashes' = crashes
      /\ file' = file /\ torn' = torn /\ aged' = aged
      /\ op[o].pc = "direct" /\ ever' = ever \cup {op[o].msg}
      /\ op' = [op EXCEPT ![o] = Free] \/ op' = [op EXCEPT ![o].pc = "offering"]
  BY DEF Carried, OfferedInbox, At, Hand, HandAll, Answer
<1>2. op[o] # Free
  BY <1>1 DEF Free
<1>3. s \in Sid /\ S \in SUBSET Sid
  BY <1>2, CoreOps
<1>4. AddersGoOn
  <2>1. op \in [Op -> Request \cup {Free}]
    BY CoreTypes
  <2>2. \A p \in Op \ {o} : op'[p] = op[p]
    BY <1>1, <2>1
  <2> QED  BY <1>1, <2>2 DEF AddersGoOn
<1> HIDE DEF S
<1>5. ever \subseteq ever'
  BY <1>1
<1> QED  BY <1>1, <1>3, <1>4, <1>5, ExpiredWhole

LEMMA OfferStoppedWhole == ASSUME Core, Whole, ~Failing, NEW s \in Sid, OfferStopped(s) PROVE Whole'
<1>1. /\ inbox' = inbox /\ up /\ up' = up /\ crashes' = crashes
      /\ file' = file /\ torn' = torn /\ aged' = aged
      /\ HandNothing /\ EndOffer(s, "delivered")
  BY DEF OfferStopped, Offering, MaybeStray
<1>2. OfferOnly(s)
  BY <1>1, EndOfferDoes
<1>3. AddersGoOn
  BY <1>2, OfferOnlyMoves DEF AddersGoOn
<1>4. ArrivesNow
  BY <1>1 DEF ArrivesNow, HandNothing
<1> QED  BY <1>1, <1>3, <1>4, CoreTypes, UntouchedWhole

LEMMA SendWhole == ASSUME Core, Whole, ~Failing, NEW o \in Op, NEW s \in Sid, Send(o, s) PROVE Whole'
<1>1. /\ inbox' = inbox /\ up /\ up' = up /\ crashes' = crashes /\ ever' = ever
      /\ file' = file /\ torn' = torn /\ aged' = aged /\ op[o] = Free
      /\ op' = [op EXCEPT ![o] = [pc |-> "direct", sid |-> s, msg |-> Len(issued) + 1]]
  BY DEF Send
<1>2. AddersGoOn
  <2>1. op[o].pc # "adding"
    BY <1>1 DEF Free
  <2>2. \A p \in Op \ {o} : op'[p] = op[p]
    BY <1>1, CoreTypes
  <2> QED  BY <2>1, <2>2 DEF AddersGoOn
<1>3. ArrivesNow
  BY <1>1 DEF ArrivesNow
<1> QED  BY <1>1, <1>2, <1>3, CoreTypes, UntouchedWhole

LEMMA UnsubscribeWhole == ASSUME Core, Whole, ~Failing, NEW c \in Conn, Unsubscribe(c) PROVE Whole'
<1>1. /\ inbox' = inbox /\ up /\ up' = up /\ crashes' = crashes /\ ever' = ever
      /\ file' = file /\ torn' = torn /\ aged' = aged /\ op' = op
  BY DEF Unsubscribe
<1>2. AddersGoOn /\ ArrivesNow
  BY <1>1 DEF AddersGoOn, ArrivesNow
<1> QED  BY <1>1, <1>2, CoreTypes, UntouchedWhole

LEMMA HoldingWhole ==
  ASSUME Core, Whole, ~Failing, NEW o \in Op, op[o].pc = "direct", up, StartHold(o),
         ever \subseteq ever',
         UNCHANGED <<up, crashes, standing, issued, counter, file, torn, aged, sub>>
  PROVE  Whole'
<1>0. SUFFICES ASSUME NEW s, s = op[o].sid, NEW m, m = op[o].msg PROVE Whole'
  OBVIOUS
<1>1. /\ op[o] # Free /\ s \in Sid /\ m \in Message
      /\ op'[o] = [pc |-> "adding", sid |-> s, msg |-> m]
      /\ \A p \in Op \ {o} : op'[p] = op[p]
  BY <1>0, StartHoldOps
<1>2. HeldAs(inbox, inbox', s, m, o)
  <2>1. inbox' = Hold(inbox, s, m, o)
    BY <1>0 DEF StartHold
  <2> QED  BY <1>1, <2>1, HoldStep
<1>3. \A t \in Sid : m \notin ToSet(inbox.held[t])
  BY <1>0 DEF Core, Sends, Speaks
<1>4. AddersGoOn
  BY <1>1 DEF AddersGoOn
<1>5. Sound(file, inbox, Young, Most) /\ torn' = FALSE /\ InboxBounded
  BY CoreTypes DEF Whole
<1>6. inbox' \in InboxState /\ \A t \in Sid : inbox'.held[t] \in Seq(Message) /\ inbox.held[t] \in Seq(Message)
  BY <1>2, InboxHas, CoreTypes DEF HeldAs
<1>7. /\ \A t \in Sid \ {s} : inbox'.held[t] = inbox.held[t]
      /\ inbox'.held[s] = Append(Only(inbox.held[s], Young), m)
  BY <1>1, <1>2 DEF HeldAs
<1>8. Len(inbox'.held[s]) <= Len(inbox.held[s]) + 1
  <2> DEFINE v == inbox.held[s]
             w == Only(v, Young)
  <2>1. v \in Seq(Message) /\ inbox'.held[s] = Append(w, m)
    BY <1>1, <1>6, <1>7
  <2> HIDE DEF v
  <2>2. w \in Seq(Message) /\ Len(w) <= Len(v) /\ Len(w) \in Nat /\ Len(v) \in Nat
    BY <2>1, OnlyType, OnlyShorter, LenProperties
  <2> HIDE DEF w
  <2>3. Len(Append(w, m)) = Len(w) + 1
    BY <1>1, <2>2, AppendProperties
  <2> QED  BY <2>1, <2>2, <2>3 DEF v
<1>9. Cardinality(Adders(s)') = Cardinality(Adders(s)) + 1
  <2>1. Adders(s)' = Adders(s) \cup {o} /\ o \notin Adders(s)
    BY <1>1 DEF Adders
  <2>2. IsFiniteSet(Adders(s))
    BY <1>1, NumbersAre
  <2> QED  BY <2>1, <2>2, FS_AddElement
<1>10. ASSUME NEW t \in Sid
       PROVE  Len(inbox'.held[t]) <= MaxHeld + Cardinality(Adders(t)') + Spare
  <2> DEFINE a == Len(inbox.held[t])
             c == Len(inbox'.held[t])
             d == Cardinality(Adders(t))
             g == Cardinality(Adders(t)')
             p == Spare
  <2>1. a \in Nat /\ c \in Nat /\ d \in Nat /\ g \in Nat /\ p \in Nat /\ MaxHeld \in Nat
        /\ d <= g /\ a <= MaxHeld + d + p
    <3>1. c \in Nat
      BY <1>6, LenProperties
    <3>2. a <= MaxHeld + d + p
      BY <1>5, BoundedIs
    <3> QED  BY <1>4, <3>1, <3>2, AddersStay, LengthsAre
  <2>2. (c = a) \/ (c <= a + 1 /\ g = d + 1)
    BY <1>7, <1>8, <1>9
  <2> HIDE DEF a, c, d, g, p
  <2>3. c <= MaxHeld + g + p
    BY <2>1, <2>2
  <2> QED  BY <2>3 DEF c, g, p
<1>11. ASSUME NEW t \in Sid PROVE Len(inbox'.held[t]) <= Most
  <2> DEFINE c == Len(inbox'.held[t])
             g == Cardinality(Adders(t)')
             p == Spare
             n == Cardinality(Op)
  <2>1. c <= MaxHeld + g + p
    BY <1>10
  <2>2. g <= n /\ g \in Nat /\ n \in Nat
    <3>1. Adders(t)' \subseteq Op /\ IsFiniteSet(Op)
      BY CoreTypes DEF Adders
    <3> QED  BY <3>1, FS_Subset, FS_CardinalityType
  <2>3. c \in Nat /\ p \in Nat /\ MaxHeld \in Nat /\ Most = MaxHeld + p + n
    BY <1>6, LenProperties, LengthsAre DEF Most
  <2> HIDE DEF c, g, p, n
  <2>4. c <= Most
    BY <2>1, <2>2, <2>3
  <2> QED  BY <2>4 DEF c
<1>12. Sound(file', inbox', Young, Most)
  <2> DEFINE b == inbox
             e == inbox'
             f == file
             lim == Most
  <2>1. f \in Seq(InboxLine) /\ b \in InboxState /\ aged \in Int /\ MaxSends \in Nat /\ Homed(b) /\ lim \in Int
        /\ HeldAs(b, e, s, m, o) /\ Sound(f, b, Young, lim) /\ (\A t \in Sid : m \notin ToSet(b.held[t]))
        /\ \A t \in Sid : Len(e.held[t]) <= lim
    BY <1>2, <1>3, <1>5, <1>11, CoreTypes, CoreHomed, NumbersAre
  <2> HIDE DEF b, e, f, lim
  <2>2. Sound(f, e, Young, lim)
    BY <1>1, <2>1, SoundHeld
  <2> QED  BY <2>2 DEF b, e, f, lim
<1>13. ArrivesNow
  <2>1. inbox'.told = inbox.told \cup (GoneOf(inbox.held, {s}) \X {"expired"})
    BY <1>2 DEF HeldAs
  <2> QED  BY <2>1 DEF ArrivesNow
<1> QED  BY <1>5, <1>10, <1>12, <1>13, WholeStep

LEMMA RefusedWhole == ASSUME Core, Whole, ~Failing, NEW o \in Op, Refused(o) PROVE Whole'
<1>1. /\ op[o].pc = "direct" /\ up /\ StartHold(o) /\ ever' = ever
      /\ UNCHANGED <<up, crashes, standing, issued, counter, file, torn, aged, sub>>
  BY DEF Refused, At, MaybeStray, HandNothing
<1> QED  BY <1>1, HoldingWhole

LEMMA UnavailableWhole ==
  ASSUME Core, Whole, ~Failing, NEW o \in Op, NEW full, Unavailable(o, full) PROVE Whole'
<1>0. SUFFICES ASSUME NEW m, m = op[o].msg PROVE Whole'
  OBVIOUS
<1>1. /\ op[o].pc = "direct" /\ up
      /\ UNCHANGED <<up, crashes, standing, issued, counter, file, torn, aged, sub>>
      /\ \/ /\ ever' = ever \cup {m}
            /\ inbox' = [inbox EXCEPT !.told = @ \cup {<<m, "delivered">>}]
            /\ op' = [op EXCEPT ![o] = Free]
         \/ /\ ever \subseteq ever'
            /\ StartHold(o)
  BY <1>0 DEF Unavailable, At, MaybeStray, Stray, Hand, HandAll, HandNothing, Answer
<1>2. CASE StartHold(o) /\ ever \subseteq ever'
  BY <1>1, <1>2, HoldingWhole
<1>3. CASE /\ ever' = ever \cup {m}
           /\ inbox' = [inbox EXCEPT !.told = @ \cup {<<m, "delivered">>}]
           /\ op' = [op EXCEPT ![o] = Free]
  <2>1. m \in Message
    <3>1. op[o] # Free
      BY <1>1 DEF Free
    <3> QED  BY <1>0, <3>1, CoreOps
  <2>2. inbox \in InboxState
    BY CoreTypes
  <2>3. /\ inbox' \in InboxState /\ inbox'.held = inbox.held /\ inbox'.queue = inbox.queue
        /\ inbox'.view = inbox.view /\ inbox'.told = inbox.told \cup {<<m, "delivered">>}
    <3>1. <<m, "delivered">> \in Message \X {"delivered", "expired", "dropped"}
      BY <2>1
    <3> QED  BY <1>3, <2>2, <3>1 DEF InboxState
  <2>4. AddersGoOn
    <3>1. \A p \in Op \ {o} : op'[p] = op[p]
      BY <1>3, CoreTypes
    <3> QED  BY <1>1, <3>1 DEF AddersGoOn
  <2>5. ArrivesNow
    BY <1>3, <2>3 DEF ArrivesNow
  <2> QED  BY <1>1, <2>3, <2>4, <2>5, UntouchedWhole
<1> QED  BY <1>1, <1>2, <1>3

(* Messages held by one session leave its inbox.                           *)
LEMMA LeftWhole ==
  ASSUME Core, Whole, ~Failing, up, up', crashes' = crashes, aged' = aged, torn' = torn, file' = file,
         NEW e \in InboxState, NEW s \in Sid, NEW ms \in Seq(Message), NEW by \in {"offer", "none"},
         Sound(file, e, Young, Most), \A t \in Sid : Len(e.held[t]) <= Len(inbox.held[t]),
         \A m : <<m, "delivered">> \in e.told => <<m, "delivered">> \in inbox.told,
         LeftAs(e, inbox', s, ms, by),
         \A t \in Sid : \A m \in ToSet(ms) : m \in ToSet(e.held[t]) => t = s,
         ever' = ever \cup ToSet(ms), AddersGoOn
  PROVE  Whole'
<1>1. inbox' \in InboxState /\ inbox'.told \subseteq e.told \cup (ToSet(ms) \X {"delivered"})
  BY DEF LeftAs
<1>2. ArrivesNow
  BY <1>1 DEF ArrivesNow
<1>3. torn' = FALSE
  BY CoreTypes DEF Whole
<1>4. Sound(file, inbox', Young, Most) /\ \A t \in Sid : Len(inbox'.held[t]) <= Len(e.held[t])
  <2> SUFFICES ASSUME NEW i, i = inbox', NEW f, f = file, NEW lim, lim = Most, NEW K, K = Young
               PROVE  Sound(f, i, K, lim) /\ \A t \in Sid : Len(i.held[t]) <= Len(e.held[t])
    OBVIOUS
  <2>1. f \in Seq(InboxLine) /\ lim \in Int /\ LeftAs(e, i, s, ms, by) /\ Sound(f, e, K, lim)
    BY CoreTypes, NumbersAre
  <2>2. \A t \in Sid : \A m \in ToSet(ms) : m \in ToSet(e.held[t]) => t = s
    OBVIOUS
  <2> QED  BY <2>1, <2>2, SoundLeft
<1>5. \A t \in Sid : Len(inbox'.held[t]) <= Len(inbox.held[t])
  <2> SUFFICES ASSUME NEW t \in Sid PROVE Len(inbox'.held[t]) <= Len(inbox.held[t])
    OBVIOUS
  <2> DEFINE u == inbox'.held[t]
             v == e.held[t]
             w == inbox.held[t]
  <2>1. u \in Seq(Message) /\ v \in Seq(Message) /\ w \in Seq(Message)
    BY <1>1, InboxHas, CoreTypes
  <2>2. Len(u) <= Len(v) /\ Len(v) <= Len(w)
    BY <1>4
  <2> HIDE DEF u, v, w
  <2>3. Len(u) \in Nat /\ Len(v) \in Nat /\ Len(w) \in Nat
    BY <2>1, LenProperties
  <2>4. Len(u) <= Len(w)
    BY <2>2, <2>3
  <2> QED  BY <2>4 DEF u, w
<1> QED  BY <1>1, <1>2, <1>3, <1>4, <1>5, ShorterWhole

LEMMA OfferCarriedWhole ==
  ASSUME Core, Whole, ~Failing, NEW s \in Sid, OfferCarried(s) PROVE Whole'
<1>0. SUFFICES ASSUME NEW m, m = Head(offer[s].rest), NEW ms, ms = <<m>>, NEW by, by = "offer" PROVE Whole'
  OBVIOUS
<1>1. /\ up /\ up' = up /\ crashes' = crashes /\ file' = file /\ torn' = torn /\ aged' = aged
      /\ ever' = ever \cup {m} /\ offer[s].rest # <<>>
      /\ inbox' = Delivered(inbox, s, ms, by)
      /\ NextOffer(s) \/ op' = op
  BY <1>0 DEF OfferCarried, Offering, Hand, HandAll
<1>2. /\ m \in ToSet(offer[s].rest) /\ m \in Message
      /\ \A t \in Sid : Speaks(t, m) => t = s
  <2>1. m \in ToSet(offer[s].rest)
    BY <1>0, <1>1, CoreOffers, HeadIsIn
  <2> QED  BY <2>1, OfferedIsOurs
<1>3. ToSet(ms) = {m} /\ ms \in Seq(Message) /\ by \in {"offer", "none"}
  BY <1>0, <1>2, SetOfOne
<1>4. LeftAs(inbox, inbox', s, ms, by)
  <2>1. \A h \in ToSet(inbox.held[s]), n \in ToSet(ms) : issued[h] = issued[n] => h = n
    BY <1>2, <1>3, CoreApart
  <2> QED  BY <1>1, <1>3, <2>1, DeliveredStep
<1>5. AddersGoOn
  <2>1. CASE NextOffer(s)
    <3>1. OfferOnly(s)
      BY <1>1, <2>1, NextOfferDoes
    <3> QED  BY <3>1, OfferOnlyMoves DEF AddersGoOn
  <2>2. CASE op' = op
    BY <2>2 DEF AddersGoOn
  <2> QED  BY <1>1, <2>1, <2>2
<1>6. \A t \in Sid : \A n \in ToSet(ms) : n \in ToSet(inbox.held[t]) => t = s
  BY <1>2, <1>3 DEF Speaks
<1>7. Sound(file, inbox, Young, Most) /\ inbox \in InboxState
      /\ \A t \in Sid : Len(inbox.held[t]) <= Len(inbox.held[t])
  BY <1>1, CoreTypes, LengthsAre DEF Whole
<1>8. ever' = ever \cup ToSet(ms)
  BY <1>1, <1>3
<1> QED  BY <1>1, <1>3, <1>4, <1>5, <1>6, <1>7, <1>8, LeftWhole

LEMMA SubscribeWhole ==
  ASSUME Core, Whole, ~Failing, NEW c \in Conn, NEW leaves \in BOOLEAN, Subscribe(c, leaves)
  PROVE  Whole'
<1>0. SUFFICES ASSUME NEW s, s = SidOf[c], NEW e, e = Expire(inbox, {s}), NEW by, by = "none",
                      NEW ms, ms = Only(e.held[s], Message \ Claimed(s))
               PROVE  Whole'
  OBVIOUS
<1>1. /\ up /\ up' = up /\ crashes' = crashes /\ file' = file /\ torn' = torn /\ aged' = aged
      /\ ever' = ever \cup ToSet(ms) /\ op' = op
      /\ inbox' = Delivered(e, s, ms, by)
  BY <1>0 DEF Subscribe, HandAll
<1>2. s \in Sid /\ {s} \in SUBSET Sid /\ by \in {"offer", "none"}
  BY <1>0 DEF Core, Given
<1>3. ExpiredAs(inbox, e, {s}) /\ Thinner(inbox.held, e.held)
  <2> DEFINE S == {s}
             b == inbox
  <2>1. /\ S \in SUBSET Sid /\ e = Expire(b, S) /\ b \in InboxState /\ aged \in Int /\ MaxSends \in Nat
        /\ \A t \in Sid : TellsApart(b.held[t])
    BY <1>0, <1>2, CoreTypes, CoreApart
  <2> HIDE DEF S, b
  <2>2. ExpiredAs(b, e, S) /\ Thinner(b.held, e.held)
    BY <2>1, ExpireDoes DEF ExpiredAs
  <2> QED  BY <2>2 DEF S, b
<1>4. Sound(file, e, Young, Most) /\ \A t \in Sid : Len(e.held[t]) <= Len(inbox.held[t])
  <2> DEFINE b == inbox
             f == file
             lim == Most
             S == {s}
  <2>1. /\ f \in Seq(InboxLine) /\ b \in InboxState /\ aged \in Int /\ MaxSends \in Nat /\ Homed(b)
        /\ ExpiredAs(b, e, S) /\ Sound(f, b, Young, lim) /\ S \in SUBSET Sid
    BY <1>1, <1>2, <1>3, CoreTypes, CoreHomed DEF Whole
  <2> HIDE DEF b, f, lim, S
  <2>2. Sound(f, e, Young, lim) /\ \A t \in Sid : Len(e.held[t]) <= Len(b.held[t])
    BY <2>1, SoundExpired
  <2> QED  BY <2>2 DEF b, f, lim
<1>5. /\ e \in InboxState /\ e.told = inbox.told \cup (GoneOf(inbox.held, {s}) \X {"expired"})
      /\ \A t \in Sid : ToSet(e.held[t]) \subseteq ToSet(inbox.held[t])
  BY <1>3 DEF ExpiredAs, Thinner
<1>6. ms \in Seq(Message) /\ ToSet(ms) \subseteq ToSet(e.held[s])
  <2> DEFINE q == e.held[s]
             K == Message \ Claimed(s)
  <2>1. q \in Seq(Message) /\ ms = Only(q, K)
    BY <1>0, <1>2, <1>5, InboxHas
  <2> HIDE DEF q, K
  <2>2. ms \in Seq(Message) /\ ToSet(ms) = ToSet(q) \cap K
    BY <2>1, OnlyHas
  <2> QED  BY <2>2 DEF q
<1>7. LeftAs(e, inbox', s, ms, by)
  <2> DEFINE f == inbox'
  <2>1. f = Delivered(e, s, ms, by)
    BY <1>1
  <2> HIDE DEF f
  <2>2. \A m \in ToSet(e.held[s]), n \in ToSet(ms) : issued[m] = issued[n] => m = n
    BY <1>2, <1>5, <1>6, CoreApart DEF TellsApart
  <2>3. LeftAs(e, f, s, ms, by)
    BY <1>2, <1>5, <1>6, <2>1, <2>2, DeliveredDoes
  <2> QED  BY <2>3 DEF f
<1>8. \A t \in Sid : \A n \in ToSet(ms) : n \in ToSet(e.held[t]) => t = s
  BY <1>2, <1>5, <1>6, CoreApart
<1>9. \A m : <<m, "delivered">> \in e.told => <<m, "delivered">> \in inbox.told
  BY <1>5
<1>10. AddersGoOn
  BY <1>1 DEF AddersGoOn
<1> QED  BY <1>1, <1>2, <1>4, <1>5, <1>6, <1>7, <1>8, <1>9, <1>10, LeftWhole

(* A session's inbox stays within its bound when it does not grow and no   *)
(* request stops adding to it, when it is within the limit, and when it    *)
(* loses a message as one request stops adding.                            *)
LEMMA WithinBound ==
  ASSUME Core, Whole, ~Failing, NEW s \in Sid, inbox' \in InboxState,
         \/ Len(inbox'.held[s]) <= Len(inbox.held[s]) /\ Adders(s) \subseteq Adders(s)'
         \/ Len(inbox'.held[s]) <= MaxHeld
         \/ /\ Len(inbox'.held[s]) = Len(inbox.held[s]) - 1
            /\ \E o : Adders(s) \subseteq Adders(s)' \cup {o}
  PROVE  Len(inbox'.held[s]) <= MaxHeld + Cardinality(Adders(s)') + Spare
<1> DEFINE a == Len(inbox.held[s])
           c == Len(inbox'.held[s])
           A == Adders(s)
           B == Adders(s)'
           d == Cardinality(A)
           g == Cardinality(B)
           p == Spare
<1>1. a \in Nat /\ c \in Nat /\ d \in Nat /\ p \in Nat /\ MaxHeld \in Nat /\ a <= MaxHeld + d + p
  <2>1. inbox'.held[s] \in Seq(Message)
    BY InboxHas
  <2>2. a <= MaxHeld + d + p
    BY BoundedIs DEF Whole
  <2> QED  BY <2>1, <2>2, LenProperties, LengthsAre, NumbersAre
<1>2. IsFiniteSet(B) /\ IsFiniteSet(A)
  <2>1. IsFiniteSet(Op) /\ B \subseteq Op
    BY CoreTypes DEF Adders
  <2> QED  BY <2>1, NumbersAre, FS_Subset
<1>3. \/ c <= a /\ A \subseteq B
      \/ c <= MaxHeld
      \/ c = a - 1 /\ \E o : A \subseteq B \cup {o}
  OBVIOUS
<1> HIDE DEF a, c, p, A, B
<1>4. g \in Nat
  BY <1>2, FS_CardinalityType
<1>5. A \subseteq B => d <= g
  BY <1>2, FS_Subset
<1>6. ASSUME NEW o, A \subseteq B \cup {o} PROVE d <= g + 1
  <2>1. IsFiniteSet(B \cup {o}) /\ Cardinality(B \cup {o}) \in Nat /\ Cardinality(B \cup {o}) <= g + 1
    <3>1. IsFiniteSet(B \cup {o}) /\ (Cardinality(B \cup {o}) = Cardinality(B)
                                       \/ Cardinality(B \cup {o}) = Cardinality(B) + 1)
      BY <1>2, FS_AddElement
    <3> QED  BY <1>4, <3>1, FS_CardinalityType
  <2>2. d <= Cardinality(B \cup {o})
    BY <1>6, <2>1, FS_Subset
  <2> QED  BY <1>1, <1>4, <2>1, <2>2
<1> HIDE DEF d, g
<1>7. c <= MaxHeld + g + p
  BY <1>1, <1>3, <1>4, <1>5, <1>6
<1> QED  BY <1>7 DEF c, g, B, p

(* A line that landed, and took the message it is about out of the view if *)
(* it says it was dropped.                                                 *)
LEMMA HeadLandsWhole ==
  ASSUME Core, Whole, ~Failing, up, inbox.queue # <<>>, NEW h, h = Head(inbox.queue),
         NEW e \in InboxState, e.queue = Tail(inbox.queue), e.held = inbox.held,
         \/ h.v # "dropped" /\ e.view = inbox.view
         \/ h.v = "dropped" /\ e.view = inbox.view \ {h.msg},
         file' = IF torn THEN file ELSE Append(file, LineOf(h))
  PROVE  Sound(file', e, Young, Most)
<1>1. h.v = "dropped" => \A s \in Sid : h.msg \notin ToSet(inbox.held[s])
  <2>1. OwedTrue(h)
    BY QueueHead
  <2> QED  BY <2>1 DEF OwedTrue, DroppedOwed
<1>2. ~torn /\ Sound(file, inbox, Young, Most)
  BY DEF Whole
<1> SUFFICES ASSUME NEW f, f = file, NEW b, b = inbox, NEW K, K = Young, NEW lim, lim = Most
             PROVE  Sound(Append(f, LineOf(h)), e, K, lim)
  BY <1>2
<1>3. /\ f \in Seq(InboxLine) /\ b \in InboxState /\ b.queue # <<>> /\ h = Head(b.queue)
      /\ e.queue = Tail(b.queue) /\ e.held = b.held
      /\ \/ h.v # "dropped" /\ e.view = b.view
         \/ /\ h.v = "dropped" /\ e.view = b.view \ {h.msg}
            /\ \A s \in Sid : h.msg \notin ToSet(b.held[s])
      /\ Sound(f, b, K, lim)
  BY <1>1, <1>2, CoreTypes
<1> QED  BY <1>3, SoundLanded

LEMMA AnsweredWhole ==
  ASSUME Core, Whole, ~Failing, up, up' = up, crashes' = crashes, aged' = aged, ever' = ever, torn' = FALSE,
         inbox.queue # <<>>, NEW h, h = Head(inbox.queue),
         NEW o \in Op, op[o] # Free, op' = [op EXCEPT ![o] = Free],
         op[o].pc = "adding" => ~OverLimit(op[o].sid),
         inbox' \in InboxState, inbox'.queue = Tail(inbox.queue), inbox'.held = inbox.held,
         \/ h.v # "dropped" /\ inbox'.view = inbox.view
         \/ h.v = "dropped" /\ inbox'.view = inbox.view \ {h.msg},
         inbox'.told = inbox.told \/ inbox'.told = inbox.told \cup {<<h.msg, "dropped">>},
         file' = IF torn THEN file ELSE Append(file, LineOf(h))
  PROVE  Whole'
<1>1. Sound(file', inbox', Young, Most)
  BY HeadLandsWhole
<1>2. \A p \in Op \ {o} : op'[p] = op[p]
  BY CoreTypes
<1>3. ASSUME NEW s \in Sid PROVE Len(inbox'.held[s]) <= MaxHeld + Cardinality(Adders(s)') + Spare
  <2>1. \/ Len(inbox'.held[s]) <= Len(inbox.held[s]) /\ Adders(s) \subseteq Adders(s)'
        \/ Len(inbox'.held[s]) <= MaxHeld
    <3>1. CASE op[o].pc = "adding" /\ op[o].sid = s
      BY <3>1, LengthsAre DEF OverLimit
    <3>2. CASE ~(op[o].pc = "adding" /\ op[o].sid = s)
      BY <1>2, <3>2, LengthsAre DEF Adders
    <3> QED  BY <3>1, <3>2
  <2> QED  BY <2>1, WithinBound
<1>4. ArrivesNow
  BY DEF ArrivesNow
<1> QED  BY <1>1, <1>3, <1>4, WholeStep

LEMMA EvictedWhole ==
  ASSUME Core, Whole, ~Failing, up, up' = up, crashes' = crashes, aged' = aged, ever' = ever, torn' = FALSE,
         inbox.queue # <<>>, NEW h, h = Head(inbox.queue), h.v = "add",
         NEW o \in Op, NEW s \in Sid, op[o].sid = s, OverLimit(s),
         NEW x \in Owed, x.v = "dropped", x.sid = s, x.msg = Head(inbox.held[s]),
         inbox' \in InboxState, inbox'.queue = Append(Tail(inbox.queue), x),
         inbox'.view = inbox.view, inbox'.told = inbox.told,
         inbox'.held[s] = Tail(inbox.held[s]), \A t \in Sid \ {s} : inbox'.held[t] = inbox.held[t],
         op' = [op EXCEPT ![o].pc = "dropping"],
         file' = IF torn THEN file ELSE Append(file, LineOf(h))
  PROVE  Whole'
<1> DEFINE c == [inbox EXCEPT !.queue = Tail(@)]
<1>1. /\ h \in ToSet(inbox.queue) /\ h \in Owed /\ Tail(inbox.queue) \in Seq(Owed)
      /\ inbox \in InboxState
  BY QueueHead, QueueOwners, CoreTypes
<1>2. /\ c \in InboxState /\ c.queue = Tail(inbox.queue) /\ c.held = inbox.held /\ c.view = inbox.view
      /\ c.told = inbox.told
  BY <1>1 DEF InboxState
<1> DEFINE l == inbox.held[s]
<1>3. l \in Seq(Message) /\ l # <<>> /\ NoneTwice(l)
  <2>1. l \in Seq(Message) /\ MaxHeld \in Nat
    BY CoreTypes
  <2> QED  BY <2>1 DEF Core, Singles, OverLimit
<1>4. Tail(l) \in Seq(Message) /\ Len(Tail(l)) = Len(l) - 1
  <2> HIDE DEF l
  <2> QED  BY <1>3, TailHas
<1> HIDE DEF c
<1>7. Sound(file', c, Young, Most)
  BY <1>2, HeadLandsWhole
<1>8. Sound(file', inbox', Young, Most)
  <2>1. file' \in Seq(InboxLine)
    BY HeadWritten DEF Whole
  <2>2. /\ c.held[s] # <<>> /\ NoneTwice(c.held[s]) /\ x.msg = Head(c.held[s])
        /\ inbox'.held[s] = Tail(c.held[s])
        /\ \A t \in Sid \ {s} : inbox'.held[t] = c.held[t]
    BY <1>2, <1>3
  <2> SUFFICES ASSUME NEW f, f = file', NEW e, e = inbox', NEW K, K = Young, NEW lim, lim = Most,
                      NEW b, b = c
               PROVE  Sound(f, e, K, lim)
    OBVIOUS
  <2>3. /\ f \in Seq(InboxLine) /\ e \in InboxState /\ lim \in Int /\ Sound(f, b, K, lim) /\ b \in InboxState
    BY <1>2, <1>7, <2>1, NumbersAre
  <2>4. /\ b.held[s] # <<>> /\ NoneTwice(b.held[s]) /\ x.msg = Head(b.held[s])
        /\ e.queue = Append(b.queue, x) /\ e.held[s] = Tail(b.held[s])
        /\ \A t \in Sid \ {s} : e.held[t] = b.held[t]
        /\ e.view = b.view
    BY <1>2, <2>2
  <2>5. DropsOldest(b, e, s, x)
    BY <2>4 DEF DropsOldest
  <2> QED  BY <2>3, <2>5, SoundDropped
<1>9. \A p \in Op \ {o} : op'[p] = op[p]
  BY CoreTypes
<1>10. ASSUME NEW t \in Sid PROVE Len(inbox'.held[t]) <= MaxHeld + Cardinality(Adders(t)') + Spare
  <2>1. CASE t = s
    <3>1. Adders(s) \subseteq Adders(s)' \cup {o}
      BY <1>9 DEF Adders
    <3>2. Len(inbox'.held[s]) = Len(inbox.held[s]) - 1
      BY <1>4
    <3> QED  BY <2>1, <3>1, <3>2, WithinBound
  <2>2. CASE t # s
    <3>1. Adders(t) \subseteq Adders(t)'
      BY <1>9, <2>2 DEF Adders
    <3>2. inbox'.held[t] = inbox.held[t]
      BY <2>2
    <3>3. Len(inbox'.held[t]) <= Len(inbox.held[t])
      BY <3>2, LengthsAre
    <3> QED  BY <3>1, <3>3, WithinBound
  <2> QED  BY <2>1, <2>2
<1>11. ArrivesNow
  BY DEF ArrivesNow
<1> QED  BY <1>8, <1>10, <1>11, WholeStep

LEMMA LandedWhole == ASSUME Core, Whole, ~Failing, Landed PROVE Whole'
<1>0. SUFFICES ASSUME NEW h, h = Head(inbox.queue), NEW o, o = h.by, NEW s, s = op[o].sid,
                      NEW m, m = Head(inbox.held[s]),
                      NEW x, x = [v |-> "dropped", sid |-> s, msg |-> m, by |-> o]
               PROVE  Whole'
  OBVIOUS
<1>1. /\ up /\ up' = up /\ crashes' = crashes /\ aged' = aged /\ ever' = ever
      /\ torn' = FALSE /\ inbox.queue # <<>>
      /\ file' = IF torn THEN file ELSE Append(file, LineOf(h))
  BY <1>0 DEF Landed
<1>2. \/ h.v = "add" /\ Evict(o)
      \/ /\ h.v = "dropped" /\ Answer(o, "held")
         /\ inbox' = [inbox EXCEPT !.queue = Tail(@), !.view = @ \ {h.msg},
                                   !.told = @ \cup {<<h.msg, "dropped">>}]
      \/ /\ h.v = "delivered" /\ inbox' = [inbox EXCEPT !.queue = Tail(@)]
         /\ (o = "offer" /\ NextOffer(h.sid)) \/ (o # "offer" /\ UNCHANGED <<offer, op, said>>)
  BY <1>0 DEF Landed
<1>3. /\ h \in Owed /\ h.msg \in Message /\ Tail(inbox.queue) \in Seq(Owed) /\ inbox \in InboxState
      /\ h.sid \in Sid
      /\ h.v \in {"add", "dropped"} => (o \in Op /\ op[o] # Free)
      /\ h.v = "dropped" => op[o].pc = "dropping"
      /\ h.by = "offer" => offer[h.sid].rest # <<>>
      /\ OwedTrue(h)
  <2>1. h \in ToSet(inbox.queue) /\ OwedTrue(h)
    BY <1>0, <1>1, QueueHead
  <2> QED  BY <1>0, <1>1, <2>1, QueueHead, QueueOwners, CoreTypes DEF OwedTrue, DroppedOwed
<1>4. Core'
  <2>1. Landed
    OBVIOUS
  <2> QED  BY <2>1, LandedCore
<1>5. inbox' \in InboxState
  BY <1>4 DEF Core, TypeOK
<1>6. CASE h.v = "add" /\ Evict(o)
  <2>1. CASE ~OverLimit(s)
    <3>1. op' = [op EXCEPT ![o] = Free] /\ inbox' = [inbox EXCEPT !.queue = Tail(@)]
      BY <1>0, <1>6, <2>1 DEF Evict, Answer
    <3>2. /\ inbox'.queue = Tail(inbox.queue) /\ inbox'.held = inbox.held
          /\ inbox'.view = inbox.view /\ inbox'.told = inbox.told
      BY <1>3, <3>1 DEF InboxState
    <3>3. o \in Op /\ op[o] # Free /\ ~OverLimit(op[o].sid) /\ h.v # "dropped"
      BY <1>0, <1>3, <1>6, <2>1
    <3> QED  BY <1>0, <1>1, <1>5, <3>1, <3>2, <3>3, AnsweredWhole
  <2>2. CASE OverLimit(s)
    <3>1. /\ inbox' = [inbox EXCEPT !.held[s] = Tail(@), !.evicted = @ \cup {m},
                                    !.queue = Append(Tail(@), x)]
          /\ op' = [op EXCEPT ![o].pc = "dropping"]
      BY <1>0, <1>6, <2>2 DEF Evict
    <3>2. o \in Op /\ s \in Sid /\ op[o].sid = s
      BY <1>0, <1>3, <1>6, CoreOps
    <3>3. inbox.held[s] \in Seq(Message) /\ inbox.held[s] # <<>>
      <4>1. inbox.held[s] \in Seq(Message) /\ MaxHeld \in Nat
        BY <3>2, CoreTypes
      <4> QED  BY <2>2, <4>1 DEF OverLimit
    <3>4. m \in Message
      BY <1>0, <3>3, HeadIsIn
    <3>5. x \in Owed /\ x.v = "dropped" /\ x.sid = s /\ x.msg = Head(inbox.held[s])
      BY <1>0, <3>2, <3>4 DEF Owed
    <3>6. /\ inbox'.queue = Append(Tail(inbox.queue), x) /\ inbox'.view = inbox.view
          /\ inbox'.told = inbox.told /\ inbox'.held[s] = Tail(inbox.held[s])
          /\ \A t \in Sid \ {s} : inbox'.held[t] = inbox.held[t]
      BY <1>3, <3>1, <3>2, CoreTypes DEF InboxState, Helds
    <3>7. h = Head(inbox.queue) /\ h.v = "add" /\ op' = [op EXCEPT ![o].pc = "dropping"]
      BY <1>0, <1>6, <3>1
    <3> QED  BY <1>1, <1>5, <2>2, <3>2, <3>5, <3>6, <3>7, EvictedWhole
  <2> QED  BY <2>1, <2>2
<1>7. CASE /\ h.v = "dropped" /\ Answer(o, "held")
           /\ inbox' = [inbox EXCEPT !.queue = Tail(@), !.view = @ \ {h.msg},
                                     !.told = @ \cup {<<h.msg, "dropped">>}]
  <2>1. /\ inbox'.queue = Tail(inbox.queue) /\ inbox'.held = inbox.held
        /\ inbox'.view = inbox.view \ {h.msg} /\ inbox'.told = inbox.told \cup {<<h.msg, "dropped">>}
    BY <1>3, <1>7 DEF InboxState
  <2>2. /\ op' = [op EXCEPT ![o] = Free] /\ o \in Op /\ op[o] # Free /\ h.v = "dropped"
        /\ op[o].pc # "adding"
    BY <1>3, <1>7 DEF Answer
  <2> QED  BY <1>0, <1>1, <1>5, <2>1, <2>2, AnsweredWhole
<1>8. CASE /\ h.v = "delivered" /\ inbox' = [inbox EXCEPT !.queue = Tail(@)]
           /\ (o = "offer" /\ NextOffer(h.sid)) \/ (o # "offer" /\ UNCHANGED <<offer, op, said>>)
  <2>1. /\ inbox'.queue = Tail(inbox.queue) /\ inbox'.held = inbox.held
        /\ inbox'.view = inbox.view /\ inbox'.told = inbox.told
    BY <1>3, <1>8 DEF InboxState
  <2>2. AddersGoOn
    <3>1. CASE o = "offer" /\ NextOffer(h.sid)
      <4>1. OfferOnly(h.sid)
        BY <1>0, <1>3, <3>1, NextOfferDoes
      <4> QED  BY <1>3, <4>1, OfferOnlyMoves DEF AddersGoOn
    <3>2. CASE op' = op
      BY <3>2 DEF AddersGoOn
    <3> QED  BY <1>8, <3>1, <3>2
  <2>3. Sound(file', inbox', Young, Most)
    <3>1. h.v # "dropped"
      BY <1>8
    <3> QED  BY <1>0, <1>1, <1>5, <2>1, <3>1, HeadLandsWhole
  <2>4. ArrivesNow
    BY <1>1, <2>1 DEF ArrivesNow
  <2>5. \A t \in Sid : Len(inbox'.held[t]) <= Len(inbox.held[t])
    BY <2>1, LengthsAre
  <2> QED  BY <1>1, <1>5, <2>2, <2>3, <2>4, <2>5, ShorterWhole
<1> QED  BY <1>2, <1>6, <1>7, <1>8

(* Time passes; the process is killed, and starts again.                   *)
LEMMA AgeWhole == ASSUME Core, Whole, ~Failing, Age PROVE Whole'
<1>1. /\ aged' = aged + 1 /\ up' = up /\ crashes' = crashes /\ inbox' = inbox /\ file' = file
      /\ torn' = torn /\ op' = op /\ ever' = ever
  BY DEF Age
<1>2. Young' \subseteq Young
  <2>1. aged \in Int /\ MaxSends \in Nat
    BY CoreTypes
  <2> QED  BY <1>1, <2>1 DEF Young, Message
<1>3. DeliveredHasArrived' /\ InboxBounded' /\ ~torn'
  BY <1>1 DEF Whole, DeliveredHasArrived, InboxBounded
<1>0. SUFFICES ASSUME NEW L, L = Young', NEW K, K = Young, NEW f, f = file, NEW b, b = inbox,
                      NEW lim, lim = Most, NEW low, low = MaxHeld + Spare
               PROVE  Whole'
  OBVIOUS
<1>4. /\ f \in Seq(InboxLine) /\ f \in Seq(Entry) /\ b \in InboxState /\ lim \in Int /\ low \in Int
      /\ L \subseteq K
  BY <1>0, <1>2, CoreTypes, NumbersAre
<1>5. up => Sound(f, b, L, lim)
  <2>1. up => Sound(f, b, K, lim)
    BY <1>0 DEF Whole
  <2> QED  BY <1>4, <2>1, SoundFewer
<1>6. ~up => Brief(f, L, low)
  <2>1. ~up => Brief(f, K, low)
    BY <1>0 DEF Whole
  <2> QED  BY <1>4, <2>1, BriefFewer
<1>7. Most' = lim /\ MaxHeld + Spare' = low
  BY <1>0, <1>1 DEF Most, Spare
<1>8. up' => Sound(file', inbox', Young', Most')
  BY <1>0, <1>1, <1>5, <1>7
<1>9. ~up' => Brief(file', Young', MaxHeld + Spare')
  BY <1>0, <1>1, <1>6, <1>7
<1>10. (up => Sound(file, inbox, Young, Most))' /\ (~up => Brief(file, Young, MaxHeld + Spare))'
  BY <1>8, <1>9
<1> QED  BY <1>3, <1>10 DEF Whole

LEMMA CrashWhole == ASSUME Core, Whole, ~Failing, Crash PROVE Whole'
<1>1. /\ up /\ crashes' = crashes + 1 /\ up' = FALSE /\ torn' = torn /\ aged' = aged /\ ever' = ever
      /\ \/ file' = file
         \/ inbox.queue # <<>> /\ file' = Append(file, LineOf(Head(inbox.queue)))
      /\ inbox' = [EmptyInbox EXCEPT !.told = inbox.told, !.evicted = inbox.evicted]
  BY DEF Crash
<1>2. inbox'.told = inbox.told /\ \A s \in Sid : inbox'.held[s] = <<>>
  BY <1>1 DEF EmptyInbox
<1>3. DeliveredHasArrived' /\ ~torn'
  BY <1>1, <1>2 DEF Whole, DeliveredHasArrived
<1>4. Spare' = Spare + Cardinality(Op) /\ Spare' \in Nat
  <2> DEFINE n == Cardinality(Op)
  <2>1. n \in Nat /\ crashes \in Nat /\ Spare \in Nat
    BY CoreTypes, NumbersAre
  <2> HIDE DEF n
  <2>2. (crashes + 1) * n = crashes * n + n
    BY <2>1
  <2> QED  BY <1>1, <2>1, <2>2 DEF Spare, n
<1>5. InboxBounded'
  <2> SUFFICES ASSUME NEW s \in Sid
               PROVE  Len(inbox'.held[s]) <= MaxHeld + Cardinality(Adders(s)') + Spare'
    BY DEF InboxBounded, Adders, Spare
  <2>1. Cardinality(Adders(s)') \in Nat
    <3>1. Adders(s)' \subseteq Op /\ IsFiniteSet(Op)
      BY CoreTypes DEF Adders
    <3> QED  BY <3>1, FS_Subset, FS_CardinalityType
  <2>2. Len(inbox'.held[s]) = 0 /\ MaxHeld \in Nat
    BY <1>2, CoreTypes
  <2> QED  BY <1>4, <2>1, <2>2
<1>0. SUFFICES ASSUME NEW K, K = Young, NEW f, f = file, NEW q, q = inbox.queue, NEW lim, lim = Most
               PROVE  Whole'
  OBVIOUS
<1>6. f \in Seq(InboxLine) /\ q \in Seq(Owed) /\ Within(f, q, K, lim)
  BY <1>0, <1>1, CoreTypes DEF Whole, Sound
<1>7. Brief(f, K, lim)
  BY <1>6, WithinAll
<1>8. q # <<>> => Brief(Append(f, LineOf(Head(q))), K, lim)
  <2> SUFFICES ASSUME q # <<>> PROVE Brief(Append(f, LineOf(Head(q))), K, lim)
    OBVIOUS
  <2> DEFINE h == Head(q)
             t == Tail(q)
             g == Append(f, LineOf(h))
  <2>1. h \in Owed /\ t \in Seq(Owed)
    BY <1>6, TailHas
  <2>2. Within(g, t, K, lim)
    BY <1>6, WithinLanded
  <2> HIDE DEF h, t
  <2>3. g \in Seq(InboxLine)
    BY <1>6, <2>1, LineOfSays, AppendProperties
  <2> HIDE DEF g
  <2>4. Brief(g, K, lim)
    BY <2>1, <2>2, <2>3, WithinAll
  <2> QED  BY <2>4 DEF g, h
<1>9. Brief(file', Young', MaxHeld + Spare')
  <2>1. Young' = Young /\ MaxHeld + Spare' = Most
    <3>1. MaxHeld \in Nat /\ Spare \in Nat /\ Cardinality(Op) \in Nat
      BY CoreTypes, NumbersAre
    <3> QED  BY <1>1, <1>4, <3>1 DEF Young, Most
  <2>2. Brief(file', K, lim)
    BY <1>0, <1>1, <1>7, <1>8
  <2> QED  BY <1>0, <2>1, <2>2
<1>10. (~up => Brief(file, Young, MaxHeld + Spare))' /\ ~up'
  BY <1>1, <1>9
<1> QED  BY <1>3, <1>5, <1>10 DEF Whole

LEMMA RestartWhole == ASSUME Core, Whole, ~Failing, Restart PROVE Whole'
<1> DEFINE k == Kept(file)
           h == [s \in Sid |-> Only(k[s], Young)]
           all == UNION {ToSet(h[s]) : s \in Sid}
<1>1. /\ ~up /\ up' = TRUE /\ torn' = FALSE /\ crashes' = crashes /\ aged' = aged /\ op' = op /\ ever' = ever
  BY DEF Restart
<1>2. k \in Helds /\ k = Replay(file)
  <2>1. file \in Seq(Entry) /\ Apart(About(file))
    BY CoreTypes, CoreApart
  <2> QED  BY <2>1, KeptType, ReplayIsKept
<1>3. h = [s \in Sid |-> Unexpired(Replay(file)[s])]
  BY <1>2 DEF Unexpired, Young
<1>4. inbox' = [inbox EXCEPT !.held = h, !.view = all] /\ file' = Compacted(h)
  BY <1>3 DEF Restart
<1>5. ASSUME NEW s \in Sid
      PROVE  h[s] \in Seq(Message) /\ Len(h[s]) <= MaxHeld + Spare
  <2>1. k[s] \in Seq(Message) /\ h[s] = Only(k[s], Young)
    BY <1>2 DEF Helds
  <2>2. Len(Only(k[s], Young)) <= MaxHeld + Spare
    BY <1>1 DEF Whole, Brief
  <2> DEFINE q == k[s]
  <2>3. q \in Seq(Message) /\ h[s] = Only(q, Young) /\ Len(Only(q, Young)) <= MaxHeld + Spare
    BY <2>1, <2>2
  <2> HIDE DEF q
  <2>4. Only(q, Young) \in Seq(Message)
    BY <2>3, OnlyType
  <2> QED  BY <2>3, <2>4
<1>6. h \in Helds
  BY <1>5 DEF Helds
<1>7. /\ inbox'.held = h /\ inbox'.queue = <<>> /\ inbox'.view = all /\ inbox'.told = inbox.told
  <2>1. inbox.queue = <<>> /\ inbox \in InboxState
    BY <1>1, CoreTypes DEF Core, IdleWhenDown
  <2> QED  BY <1>4, <2>1 DEF InboxState
<1> HIDE DEF h, k
<1>8. file' \in Seq(InboxLine) /\ Kept(file') = h
  BY <1>4, <1>6, CoreTypes, CompactedIsHeld
<1>9. MaxHeld \in Nat /\ Spare \in Nat /\ Cardinality(Op) \in Nat /\ Most = MaxHeld + Spare + Cardinality(Op)
  BY CoreTypes, NumbersAre DEF Most
<1>10. Brief(file', Young, Most)
  <2> SUFFICES ASSUME NEW s \in Sid PROVE Len(Only(h[s], Young)) <= Most
    BY <1>8 DEF Brief
  <2> DEFINE q == h[s]
             u == Only(q, Young)
  <2>1. q \in Seq(Message) /\ Len(q) <= MaxHeld + Spare
    BY <1>5
  <2> HIDE DEF q
  <2>2. Len(u) <= Len(q) /\ u \in Seq(Message)
    BY <2>1, OnlyShorter, OnlyType
  <2> HIDE DEF u
  <2>3. Len(u) \in Nat /\ Len(q) \in Nat
    BY <2>1, <2>2, LenProperties
  <2>4. Len(u) <= Most
    BY <1>9, <2>1, <2>2, <2>3
  <2> QED  BY <2>4 DEF u, q
<1>11. Sound(file', inbox', Young, Most)
  <2>1. Within(file', inbox'.queue, Young, Most)
    <3> SUFFICES ASSUME NEW f, f = file', NEW K, K = Young, NEW lim, lim = Most
                 PROVE  Within(f, <<>>, K, lim)
      BY <1>7
    <3>1. f \in Seq(InboxLine) /\ Brief(f, K, lim)
      BY <1>8, <1>10
    <3> QED  BY <3>1, WithinNothing
  <2>2. Agrees(file', inbox', Young)
    <3>1. file' \o inbox'.queue = file'
      BY <1>7, <1>8, ConcatEmptySeq
    <3> QED  BY <1>7, <1>8, <3>1 DEF Agrees
  <2>3. Views(inbox')
    <3>1. Waiting(inbox') = all
      BY <1>7 DEF Waiting
    <3> QED  BY <1>7, <3>1 DEF Views
  <2> QED  BY <2>1, <2>2, <2>3 DEF Sound
<1>12. InboxBounded'
  <2> SUFFICES ASSUME NEW s \in Sid
               PROVE  Len(inbox'.held[s]) <= MaxHeld + Cardinality(Adders(s)') + Spare'
    BY DEF InboxBounded, Adders, Spare
  <2>1. Cardinality(Adders(s)') \in Nat
    <3>1. Adders(s)' \subseteq Op /\ IsFiniteSet(Op)
      BY CoreTypes DEF Adders
    <3> QED  BY <3>1, FS_Subset, FS_CardinalityType
  <2>2. Len(inbox'.held[s]) <= MaxHeld + Spare /\ Len(inbox'.held[s]) \in Nat
    BY <1>5, <1>7, LenProperties
  <2>3. Spare' = Spare
    BY <1>1 DEF Spare
  <2> QED  BY <1>9, <2>1, <2>2, <2>3
<1>13. DeliveredHasArrived' /\ ~torn'
  BY <1>1, <1>7 DEF Whole, DeliveredHasArrived
<1>14. Young' = Young /\ Most' = Most
  BY <1>1 DEF Young, Most, Spare
<1>15. Sound(file', inbox', Young', Most')
  BY <1>11, <1>14
<1>16. Sound(file, inbox, Young, Most)' /\ up'
  BY <1>1, <1>15
<1> QED  BY <1>12, <1>13, <1>16 DEF Whole

LEMMA InitWhole == ASSUME Core, Init PROVE Whole
<1>1. /\ up = TRUE /\ crashes = 0 /\ inbox = EmptyInbox /\ file = <<>> /\ torn = FALSE
  BY DEF Init
<1>2. /\ inbox.queue = <<>> /\ inbox.view = {} /\ inbox.told = {}
      /\ \A s \in Sid : inbox.held[s] = <<>>
  BY <1>1 DEF EmptyInbox
<1>3. MaxHeld \in Nat /\ Spare \in Nat /\ Most \in Nat
  BY CoreTypes, NumbersAre
<1>4. InboxBounded
  <2> SUFFICES ASSUME NEW s \in Sid PROVE Len(inbox.held[s]) <= MaxHeld + Cardinality(Adders(s)) + Spare
    BY BoundedIs
  <2>1. Cardinality(Adders(s)) \in Nat /\ Len(inbox.held[s]) = 0
    BY <1>2, NumbersAre
  <2> QED  BY <1>3, <2>1
<1>5. \A s \in Sid : Kept(file)[s] = <<>>
  BY <1>1, KeptNothing DEF None
<1>6. Brief(file, Young, Most)
  BY <1>3, <1>5, OnlyNothing DEF Brief
<1>7. Within(file, inbox.queue, Young, Most)
  <2> SUFFICES ASSUME NEW f, f = file, NEW K, K = Young, NEW lim, lim = Most
               PROVE  Within(f, <<>>, K, lim)
    BY <1>2
  <2>1. f \in Seq(InboxLine) /\ Brief(f, K, lim)
    BY <1>6, CoreTypes
  <2> QED  BY <2>1, WithinNothing
<1>8. Agrees(file, inbox, Young)
  <2>1. file \o inbox.queue = file
    BY <1>2, CoreTypes, ConcatEmptySeq
  <2> QED  BY <1>2, <1>5, <2>1 DEF Agrees
<1>9. Views(inbox)
  <2>1. \A s \in Sid : ToSet(inbox.held[s]) = {}
    BY <1>2, SetOfNothing
  <2> QED  BY <1>2, <2>1 DEF Views, Waiting
<1> QED  BY <1>1, <1>2, <1>4, <1>7, <1>8, <1>9 DEF Whole, Sound, DeliveredHasArrived

LEMMA StutterWhole == ASSUME Whole, UNCHANGED vars PROVE Whole'
BY DEF vars, Whole, DeliveredHasArrived, InboxBounded, Sound, Agrees, Views, Waiting, Dropping, Within,
       Young, Most, Spare

LEMMA NextWhole == ASSUME Core, Whole, Next PROVE Whole'
<1>0. CASE Failing
  BY <1>0 DEF Whole
<1> SUFFICES ASSUME ~Failing PROVE Whole'
  BY <1>0
<1>1. ASSUME NEW o \in Op, NEW s \in Sid, Send(o, s) PROVE Whole'
  BY <1>1, SendWhole
<1>2. ASSUME NEW o \in Op, Carried(o) PROVE Whole'
  BY <1>2, CarriedWhole
<1>3. ASSUME NEW o \in Op, Refused(o) PROVE Whole'
  BY <1>3, RefusedWhole
<1>4. ASSUME NEW o \in Op, NEW full \in SUBSET Conn, Unavailable(o, full) PROVE Whole'
  BY <1>4, UnavailableWhole
<1>5. ASSUME NEW s \in Sid, OfferCarried(s) PROVE Whole'
  BY <1>5, OfferCarriedWhole
<1>6. ASSUME NEW s \in Sid, OfferStopped(s) PROVE Whole'
  BY <1>6, OfferStoppedWhole
<1>7. ASSUME NEW s \in Sid, NEW st \in Standing, Changed(s, st) PROVE Whole'
  BY <1>7, ChangedWhole
<1>8. CASE Landed
  BY <1>8, LandedWhole
<1>9. CASE AppendFails
  BY <1>9 DEF AppendFails
<1>10. ASSUME NEW c \in Conn, NEW leaves \in BOOLEAN, Subscribe(c, leaves) PROVE Whole'
  BY <1>10, SubscribeWhole
<1>11. ASSUME NEW c \in Conn, Unsubscribe(c) PROVE Whole'
  BY <1>11, UnsubscribeWhole
<1>12. CASE Watch
  BY <1>12, WatchWhole
<1>13. CASE Age
  BY <1>13, AgeWhole
<1>14. CASE Crash
  BY <1>14, CrashWhole
<1>15. CASE Restart
  BY <1>15, RestartWhole
<1> QED  BY <1>1, <1>2, <1>3, <1>4, <1>5, <1>6, <1>7, <1>8, <1>9, <1>10, <1>11, <1>12, <1>13,
            <1>14, <1>15 DEF Next

LEMMA InvAlways == ASSUME DeliveryAssumption PROVE Spec => []Inv
<1>1. Init => Inv
  BY InitCore, InitWhole DEF Inv
<1>2. Inv /\ [Next]_vars => Inv'
  BY NextCore, StutterCore, NextWhole, StutterWhole DEF Inv
<1> QED  BY <1>1, <1>2, PTL DEF Spec

(* What it says, of a disk that takes every line.                          *)
LEMMA WholeIsMemory == ASSUME Inv, ~Failing PROVE FileIsMemory
<1> SUFFICES ASSUME up, NEW s \in Sid
             PROVE  Unexpired(Replay(file \o inbox.queue)[s]) = Unexpired(inbox.held[s])
  BY DEF FileIsMemory
<1> DEFINE l == file \o inbox.queue
<1>1. l \in Seq(Entry) /\ Apart(About(l))
  <2>1. l \in Seq(Entry)
    BY CoreTypes, ConcatProperties DEF Inv
  <2> QED  BY <2>1, CoreApart DEF Inv
<1>2. Only(Kept(l)[s], Young) = Only(inbox.held[s], Young)
  BY DEF Inv, Whole, Sound, Agrees
<1> HIDE DEF l
<1>3. Replay(l) = Kept(l)
  BY <1>1, ReplayIsKept
<1> QED  BY <1>2, <1>3 DEF Unexpired, Young, l

LEMMA WholeIsView == ASSUME Inv, ~Failing PROVE ViewIsInbox
<1>1. CASE up
  BY <1>1 DEF Inv, Whole, Sound, Views, Waiting, Dropping, ViewIsInbox
<1>2. CASE ~up
  <2>1. inbox.view = {} /\ inbox.held = None
    BY <1>2 DEF Inv, Core, IdleWhenDown
  <2>2. \A s \in Sid : ToSet(inbox.held[s]) = {}
    BY <2>1, SetOfNothing DEF None
  <2> QED  BY <2>1, <2>2 DEF ViewIsInbox
<1> QED  BY <1>1, <1>2

-----------------------------------------------------------------------------
(* What it says.                                                           *)
LEMMA CoreIsDurable == ASSUME Core PROVE HeldIsDurable
<1>1. file \in Seq(Entry) /\ Apart(About(file))
  BY CoreTypes, CoreApart
<1>2. Replay(file) = Kept(file)
  BY <1>1, ReplayIsKept
<1> QED  BY <1>2 DEF Core, Durable, Lasting, HeldIsDurable

LEMMA CoreOldestFirst == ASSUME Core PROVE OldestFirst
<1> SUFFICES ASSUME NEW s \in Sid, Offering(s), ~offer[s].writing,
                    NEW r, r = offer[s].rest, NEW h, h = inbox.held[s], Head(r) \in ToSet(h)
             PROVE  Head(r) = Head(h)
  BY DEF OldestFirst
<1>1. r \in Seq(Message) /\ r # <<>> /\ h \in Seq(Message) /\ Left(s) = r /\ NoneTwice(r)
  BY CoreOffers, CoreTypes DEF Offering, Left, Core, Singles
<1>2. Head(r) \in ToSet(r) /\ Head(r) \in Message
  BY <1>1, HeadIsIn
<1>3. h # <<>>
  BY SetOfNothing
<1>4. Head(h) \in Message
  BY <1>1, <1>3, HeadIsIn
<1>5. \A a, b \in Message : (Before(h, a, b) /\ b \in ToSet(r)) => Before(r, a, b)
  BY <1>1 DEF Core, InOrder
<1> SUFFICES ASSUME Head(r) # Head(h) PROVE FALSE
  OBVIOUS
<1>6. Before(h, Head(h), Head(r))
  BY <1>1, <1>3, HeadIsFirst
<1>7. Before(r, Head(h), Head(r))
  BY <1>2, <1>4, <1>5, <1>6
<1>8. PICK i, j \in 1..Len(r) : i < j /\ r[i] = Head(h) /\ r[j] = Head(r)
  BY <1>7 DEF Before
<1>9. 1 \in 1..Len(r) /\ 1 < j /\ r[1] = Head(r)
  BY <1>1, <1>8, LenProperties
<1>10. Before(r, Head(r), Head(r))
  BY <1>8, <1>9 DEF Before
<1> QED  BY <1>1, <1>10 DEF NoneTwice

LEMMA CoreMidsDiffer == ASSUME Core PROVE HeldMidsDiffer
<1> SUFFICES ASSUME NEW s \in Sid, NEW t \in Sid, NEW m \in ToSet(inbox.held[s]),
                    NEW n \in ToSet(inbox.held[t]), issued[m] = issued[n]
             PROVE  m = n
  BY DEF HeldMidsDiffer
<1>1. Knows(s, m) /\ Knows(t, n) /\ m \in Message /\ n \in Message
  BY CoreTypes DEF Knows, Speaks
<1> QED  BY <1>1 DEF Core, Homes, MidsApart

(* Every variable keeps its type.                                          *)
THEOREM DeliveryTypes == Spec => []TypeOK
<1>1. Core => TypeOK
  BY DEF Core
<1> QED  BY <1>1, CoreAlways, DeliveryAssumption, PTL

(* A message its sender was told is held is in the file, or was handed     *)
(* over, dropped for a newer one, is too old, or strayed, whenever the     *)
(* process is killed and whichever line fails to be written (Inbox.hold,   *)
(* load, #compact).                                                        *)
THEOREM HeldSurvives == Spec => []HeldIsDurable
<1> QED  BY CoreIsDurable, CoreAlways, DeliveryAssumption, PTL

(* A message goes out on one route only while the process lives, but one   *)
(* that strayed (Delivery.#claimed, #offering).                            *)
THEOREM OneRouteOnly == Spec => []AtMostOnce
<1>1. Core => AtMostOnce
  BY DEF Core
<1> QED  BY <1>1, CoreAlways, DeliveryAssumption, PTL

(* What an offer sends, if it is still held, is the oldest held            *)
(* (Delivery.#offer).                                                      *)
THEOREM OldestGoesFirst == Spec => []OldestFirst
<1> QED  BY CoreOldestFirst, CoreAlways, DeliveryAssumption, PTL

(* No two messages held carry one mid, restarts included                   *)
(* (Inbox.lastCounter).                                                    *)
THEOREM MidsStayApart == Spec => []HeldMidsDiffer
<1> QED  BY CoreMidsDiffer, CoreAlways, DeliveryAssumption, PTL

(* Where no append fails, replaying the file and what is owed to it gives  *)
(* what memory holds, in the same order, but for what is too old           *)
(* (Inbox.#append, #replay).                                               *)
THEOREM FileFollowsMemory == ~Failing => (Spec => []FileIsMemory)
<1> SUFFICES ASSUME ~Failing PROVE Spec => []FileIsMemory
  OBVIOUS
<1> QED  BY WholeIsMemory, InvAlways, DeliveryAssumption, PTL

(* Where no append fails, whoever watches the inbox topic sees what is     *)
(* held, and at most a message being dropped (Delivery's frames).          *)
THEOREM ViewShowsTheInbox == ~Failing => (Spec => []ViewIsInbox)
<1> SUFFICES ASSUME ~Failing PROVE Spec => []ViewIsInbox
  OBVIOUS
<1> QED  BY WholeIsView, InvAlways, DeliveryAssumption, PTL

(* Where no append fails, an inbox is over its limit by no more than the   *)
(* messages being added and what the kills left behind (Inbox.hold).       *)
THEOREM InboxStaysBounded == ~Failing => (Spec => []InboxBounded)
<1> SUFFICES ASSUME ~Failing PROVE Spec => []InboxBounded
  OBVIOUS
<1>1. Inv => InboxBounded
  BY DEF Inv, Whole
<1> QED  BY <1>1, InvAlways, DeliveryAssumption, PTL

(* Where no message strays, what was stated delivered was handed over      *)
(* (Delivery, DESIGN 6.7).                                                 *)
THEOREM DeliveredArrived == ~Failing => (Spec => []DeliveredHasArrived)
<1> SUFFICES ASSUME ~Failing PROVE Spec => []DeliveredHasArrived
  OBVIOUS
<1>1. Inv => DeliveredHasArrived
  BY DEF Inv, Whole
<1> QED  BY <1>1, InvAlways, DeliveryAssumption, PTL
=============================================================================
