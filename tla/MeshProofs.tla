----------------------------- MODULE MeshProofs -----------------------------
(***************************************************************************)
(* What holds of the link between two instances however many connections,  *)
(* requests, losses and stops there are; from "The files of a host" on, of *)
(* the files that say which instances a host runs however many homes,      *)
(* commands and kills there are; and, from "What is relayed" on, of the    *)
(* rows two instances relay however many rows, changes and losses.         *)
(***************************************************************************)
EXTENDS MCMeshes, FiniteSetTheorems, SequenceTheorems, WellFoundedInduction, TLAPS

(* A connection that is held has not been noticed to be closed.            *)
HeldIsThere == \A e \in End : link[e] # NoConn => conn[link[e]].end[e] # "gone"

(* A connection that is in use was dialled by one of the two.              *)
Known(C) == \A d \in Conn : C[d].hs # "none" => C[d].by \in End

(* The inductive invariant.  HeldIsProven needs HeldIsThere: what neither  *)
(* end is aware of any more is forgotten, and its record used again.       *)
Founded == TypeOK /\ Known(conn) /\ HeldIsProven /\ HeldIsThere /\ WaitingHasLink

-----------------------------------------------------------------------------
LEMMA OtherIsEnd == \A e : Other(e) \in End
  BY DEF Other, End

LEMMA UnusedIsConnection == Unused \in Connection
  BY DEF Unused, Connection

(* A greeting that gets further, seen from outside.                        *)
Moved(C, c, h) == [C EXCEPT ![c].hs = h]

LEMMA GreetingMoves ==
  ASSUME NEW C \in [Conn -> Connection], NEW c \in Conn,
         NEW h \in {"none", "dialling", "greeting", "checking", "proofIn", "acked",
                    "refused", "proven", "over"}
  PROVE  /\ Moved(C, c, h) \in [Conn -> Connection]
         /\ \A d \in Conn : /\ Moved(C, c, h)[d].end = C[d].end
                            /\ Moved(C, c, h)[d].by = C[d].by
                            /\ d # c => Moved(C, c, h)[d].hs = C[d].hs
         /\ Moved(C, c, h)[c].hs = h
  BY DEF Connection, Moved

(* The rest of its record, and every other one, stays.                     *)
LEMMA GreetingLeaves ==
  ASSUME NEW C \in [Conn -> Connection], NEW c \in Conn, NEW h
  PROVE  /\ Moved(C, c, h)[c].wire = C[c].wire
         /\ \A d \in Conn \ {c} : Moved(C, c, h)[d] = C[d]
  BY DEF Connection, Moved

(* Closing tells ends of it, and nothing else.                             *)
LEMMA ClosingTells ==
  ASSUME NEW C \in [Conn -> Connection], NEW c \in Conn, NEW e \in End,
         NEW code \in {"plain", "glare"}
  PROVE  /\ Closing(C, c, e, code) \in [Conn -> Connection]
         /\ \A d \in Conn :
              /\ Closing(C, c, e, code)[d].hs = C[d].hs
              /\ Closing(C, c, e, code)[d].by = C[d].by
              /\ \A x \in End : C[d].end[x] # "gone" => Closing(C, c, e, code)[d].end[x] # "gone"
         /\ Known(C) => Known(Closing(C, c, e, code))
<1> DEFINE f == [x \in End |->
                   IF C[c].end[x] # "open" THEN C[c].end[x]
                   ELSE IF C[c].wire = "alive" THEN code
                   ELSE IF x = e THEN "plain" ELSE "open"]
<1>1. C[c] \in Connection
  OBVIOUS
<1>2. C[c].end \in [End -> {"open", "plain", "glare", "gone"}]
  BY <1>1 DEF Connection
<1>3. f \in [End -> {"open", "plain", "glare", "gone"}]
  BY <1>2
<1>4. Closing(C, c, e, code) = [C EXCEPT ![c].end = f]
  BY DEF Closing
<1>5. \A x \in End : C[c].end[x] # "gone" => f[x] # "gone"
  BY <1>2
<1> HIDE DEF f
<1>6. [C EXCEPT ![c].end = f] \in [Conn -> Connection]
  BY <1>3 DEF Connection
<1>7. ASSUME NEW d \in Conn
      PROVE  /\ [C EXCEPT ![c].end = f][d].hs = C[d].hs
             /\ [C EXCEPT ![c].end = f][d].by = C[d].by
             /\ [C EXCEPT ![c].end = f][d].end = IF d = c THEN f ELSE C[d].end
  BY DEF Connection
<1>8. Known(C) => Known([C EXCEPT ![c].end = f])
  BY <1>7 DEF Known
<1>9. QED
  BY <1>4, <1>5, <1>6, <1>7, <1>8

(* Tidying keeps what an end is still aware of.                            *)
LEMMA TidyKeeps ==
  ASSUME NEW C \in [Conn -> Connection]
  PROVE  /\ Tidy(C) \in [Conn -> Connection]
         /\ \A d \in Conn, e \in End : C[d].end[e] # "gone" => Tidy(C)[d] = C[d]
         /\ Known(C) => Known(Tidy(C))
<1>1. \A d \in Conn : Tidy(C)[d] = C[d] \/ Tidy(C)[d] = Unused
  BY DEF Tidy
<1>2. Known(C) => Known(Tidy(C))
  BY <1>1 DEF Known, Unused
<1>3. QED
  BY <1>2, UnusedIsConnection DEF Tidy

(* The links of the next state are founded when those of the connections   *)
(* it is tidied from are.                                                  *)
LEMMA TidiedIsFounded ==
  ASSUME NEW C \in [Conn -> Connection], Known(C), conn' = Tidy(C),
         link' \in [End -> Conn \cup {NoConn}],
         \A e \in End : link'[e] # NoConn =>
            /\ C[link'[e]].hs \in {"acked", "proven"}
            /\ e \notin forgot'
            /\ C[link'[e]].end[e] # "gone"
  PROVE  conn' \in [Conn -> Connection] /\ Known(conn') /\ HeldIsProven' /\ HeldIsThere'
<1>1. \A e \in End : link'[e] # NoConn => link'[e] \in Conn /\ conn'[link'[e]] = C[link'[e]]
  BY TidyKeeps
<1>2. QED
  BY <1>1, TidyKeeps DEF HeldIsProven, HeldIsThere

(* #hold keeps the links founded when what it is given was proven, or is   *)
(* not taken.                                                              *)
LEMMA HoldIsFounded ==
  ASSUME Founded, NEW e \in End, NEW c \in Conn, NEW C \in [Conn -> Connection],
         Known(C), \A d \in Conn : C[d].end = conn[d].end /\ (d # c => C[d].hs = conn[d].hs),
         C[c].hs \in {"acked", "proven"}
           \/ (~Taken(e, c) /\ \A x \in End : link[x] # c),
         e \notin forgot, UNCHANGED forgot, Hold(e, c, C)
  PROVE  /\ conn' \in [Conn -> Connection] /\ Known(conn')
         /\ link' \in [End -> Conn \cup {NoConn}]
         /\ waiting' \in [End -> SUBSET Call]
         /\ misjudged' \in BOOLEAN
         /\ HeldIsProven' /\ HeldIsThere' /\ WaitingHasLink'
<1> DEFINE D == IF ~Taken(e, c) THEN Closing(C, c, e, "glare")
                ELSE IF link[e] = NoConn THEN C
                ELSE Closing(C, link[e], e, "glare")
<1>1. link \in [End -> Conn \cup {NoConn}] /\ waiting \in [End -> SUBSET Call]
      /\ misjudged \in BOOLEAN
  BY DEF Founded, TypeOK
<1>2. /\ D \in [Conn -> Connection]
      /\ \A d \in Conn :
           /\ D[d].hs = C[d].hs
           /\ \A x \in End : C[d].end[x] # "gone" => D[d].end[x] # "gone"
  BY <1>1, ClosingTells
<1>2a. Known(D)
  BY <1>1, ClosingTells DEF Known
<1>3. conn' = Tidy(D)
  BY DEF Hold
<1>4. link' = [link EXCEPT ![e] = IF ~Taken(e, c) THEN link[e]
                                  ELSE IF C[c].end[e] = "gone" THEN NoConn ELSE c]
  BY DEF Hold
<1>5. waiting' = IF Taken(e, c) /\ C[c].end[e] = "gone"
                 THEN [waiting EXCEPT ![e] = {}] ELSE waiting
  BY DEF Hold
<1>6. misjudged' \in BOOLEAN
  BY DEF Hold
<1> HIDE DEF D
<1>7. link' \in [End -> Conn \cup {NoConn}] /\ waiting' \in [End -> SUBSET Call]
  BY <1>1, <1>4, <1>5
<1>8. ASSUME NEW x \in End, link'[x] # NoConn
      PROVE  /\ D[link'[x]].hs \in {"acked", "proven"}
             /\ x \notin forgot'
             /\ D[link'[x]].end[x] # "gone"
  <2>1. CASE link'[x] = link[x]
    <3>1. /\ link[x] \in Conn
          /\ conn[link[x]].hs \in {"acked", "proven"}
          /\ x \notin forgot
          /\ conn[link[x]].end[x] # "gone"
      BY <1>1, <1>8, <2>1 DEF Founded, HeldIsProven, HeldIsThere
    <3>2. C[link[x]].hs \in {"acked", "proven"}
      BY <3>1
    <3>3. C[link[x]].end[x] # "gone"
      BY <3>1
    <3>4. QED
      BY <1>2, <2>1, <3>1, <3>2, <3>3
  <2>2. CASE link'[x] # link[x]
    <3>1. x = e /\ Taken(e, c) /\ link'[x] = c /\ C[c].end[e] # "gone"
      BY <1>1, <1>4, <1>8, <2>2
    <3>2. QED
      BY <1>2, <3>1
  <2>3. QED
    BY <2>1, <2>2
<1>9. WaitingHasLink'
  BY <1>1, <1>4, <1>5, MeshAssumption DEF Founded, WaitingHasLink
<1>10. QED
  BY <1>2, <1>2a, <1>3, <1>6, <1>7, <1>8, <1>9, TidiedIsFounded

(* Steps that leave the links where they are: the connections held keep    *)
(* their ends and stay proven.                                             *)
LEMMA LinksStay ==
  ASSUME Founded, NEW C \in [Conn -> Connection], Known(C),
         conn' = C \/ conn' = Tidy(C), UNCHANGED <<link, forgot, waiting>>,
         \A d \in Conn, e \in End : link[e] = d =>
            /\ C[d].hs \in {"acked", "proven"}
            /\ C[d].end[e] # "gone"
  PROVE  /\ conn' \in [Conn -> Connection] /\ Known(conn')
         /\ HeldIsProven' /\ HeldIsThere' /\ WaitingHasLink'
<1>1. link \in [End -> Conn \cup {NoConn}]
  BY DEF Founded, TypeOK
<1>2. WaitingHasLink'
  BY DEF Founded, WaitingHasLink
<1>3. \A e \in End : link'[e] # NoConn =>
        /\ C[link'[e]].hs \in {"acked", "proven"}
        /\ e \notin forgot'
        /\ C[link'[e]].end[e] # "gone"
  BY <1>1 DEF Founded, HeldIsProven
<1>4. CASE conn' = C
  BY <1>2, <1>3, <1>4 DEF HeldIsProven, HeldIsThere, Known
<1>5. CASE conn' = Tidy(C)
  BY <1>1, <1>2, <1>3, <1>5, TidiedIsFounded
<1>6. QED
  BY <1>4, <1>5

(* #drop, and what else lets a link go, at one end.                        *)
LEMMA LettingGo ==
  ASSUME Founded, NEW e \in End, NEW C \in [Conn -> Connection], Known(C),
         conn' = C \/ conn' = Tidy(C),
         forgot' \subseteq forgot \cup {e},
         link' = [link EXCEPT ![e] = NoConn],
         waiting' = [waiting EXCEPT ![e] = {}],
         \A d \in Conn : \A x \in End \ {e} : link[x] = d =>
            /\ C[d].hs \in {"acked", "proven"}
            /\ C[d].end[x] # "gone"
  PROVE  /\ conn' \in [Conn -> Connection] /\ Known(conn')
         /\ link' \in [End -> Conn \cup {NoConn}]
         /\ waiting' \in [End -> SUBSET Call]
         /\ HeldIsProven' /\ HeldIsThere' /\ WaitingHasLink'
<1>1. link \in [End -> Conn \cup {NoConn}] /\ waiting \in [End -> SUBSET Call]
  BY DEF Founded, TypeOK
<1>2. link' \in [End -> Conn \cup {NoConn}] /\ waiting' \in [End -> SUBSET Call]
  BY <1>1
<1>3. WaitingHasLink'
  BY <1>1 DEF Founded, WaitingHasLink
<1>4. \A x \in End : link'[x] # NoConn =>
        /\ C[link'[x]].hs \in {"acked", "proven"}
        /\ x \notin forgot'
        /\ C[link'[x]].end[x] # "gone"
  BY <1>1 DEF Founded, HeldIsProven
<1>5. CASE conn' = C
  BY <1>2, <1>3, <1>4, <1>5 DEF HeldIsProven, HeldIsThere
<1>6. CASE conn' = Tidy(C)
  BY <1>2, <1>3, <1>4, <1>6, TidiedIsFounded
<1>7. QED
  BY <1>5, <1>6

-----------------------------------------------------------------------------
LEMMA FoundedAtFirst == Init => Founded
<1> SUFFICES ASSUME Init PROVE Founded
  OBVIOUS
<1>1. TypeOK
  <2>1. conn \in [Conn -> Connection]
    BY UnusedIsConnection DEF Init
  <2>2. cuts \in 0..MaxCuts /\ exits \in 0..MaxExits
    BY MeshAssumption DEF Init
  <2>3. QED
    BY <2>1, <2>2 DEF Init, TypeOK
<1>2. Known(conn)
  BY DEF Init, Known, Unused
<1>3. HeldIsProven /\ HeldIsThere /\ WaitingHasLink
  BY DEF Init, HeldIsProven, HeldIsThere, WaitingHasLink
<1>4. QED
  BY <1>1, <1>2, <1>3 DEF Founded

(* A record of which some fields change is still a connection.             *)
LEMMA FieldsAreTyped ==
  ASSUME NEW C \in [Conn -> Connection], NEW c \in Conn,
         NEW g \in End \cup {NoEnd}, NEW w \in {"alive", "silent"},
         NEW h \in {"none", "dialling", "greeting", "checking", "proofIn", "acked",
                    "refused", "proven", "over"},
         NEW f \in [End -> {"open", "plain", "glare", "gone"}]
  PROVE  /\ [C EXCEPT ![c] = [by |-> g, wire |-> w, hs |-> h, end |-> f]]
              \in [Conn -> Connection]
         /\ C[c] = [by |-> C[c].by, wire |-> C[c].wire, hs |-> C[c].hs, end |-> C[c].end]
         /\ C[c].by \in End \cup {NoEnd}
         /\ C[c].wire \in {"alive", "silent"}
         /\ C[c].end \in [End -> {"open", "plain", "glare", "gone"}]
  BY DEF Connection

LEMMA DialIsFounded ==
  ASSUME Founded, NEW e \in End, Dial(e), UNCHANGED <<link, forgot, waiting>>
  PROVE  /\ conn' \in [Conn -> Connection] /\ Known(conn')
         /\ HeldIsProven' /\ HeldIsThere' /\ WaitingHasLink'
<1> USE DEF Founded
<1>1. CASE UNCHANGED conn
  BY <1>1 DEF TypeOK, Known, HeldIsProven, HeldIsThere, WaitingHasLink
<1>2. CASE \E c \in Conn :
             /\ conn[c] = Unused
             /\ conn' = [conn EXCEPT ![c].by = e, ![c].hs = "dialling"]
  <2>1. PICK c \in Conn : /\ conn[c] = Unused
                          /\ conn' = [conn EXCEPT ![c].by = e, ![c].hs = "dialling"]
    BY <1>2
  <2>2. conn \in [Conn -> Connection] /\ link \in [End -> Conn \cup {NoConn}]
    BY DEF TypeOK
  <2>3. conn' \in [Conn -> Connection]
    <3>1. conn' = [conn EXCEPT ![c] = [by |-> e, wire |-> "alive", hs |-> "dialling",
                                       end |-> [x \in End |-> "gone"]]]
      BY <2>1, <2>2 DEF Unused
    <3>2. QED
      BY <2>2, <3>1, FieldsAreTyped
  <2>4. \A d \in Conn : d # c => conn'[d] = conn[d]
    BY <2>1, <2>2
  <2>5. conn'[c].by = e
    BY <2>1, <2>2 DEF Connection
  <2>6. Known(conn')
    BY <2>4, <2>5 DEF Known
  <2>7. \A x \in End : link[x] # c
    BY <2>1, MeshAssumption DEF HeldIsProven, Unused
  <2>8. QED
    BY <2>2, <2>3, <2>4, <2>6, <2>7 DEF HeldIsProven, HeldIsThere, WaitingHasLink
<1>3. QED
  BY <1>1, <1>2 DEF Dial

(* A greeting of a connection nobody holds goes on.                        *)
LEMMA GreetingIsFounded ==
  ASSUME Founded, NEW c \in Conn,
         NEW h \in {"checking", "proofIn", "refused"},
         conn[c].hs \in {"greeting", "checking", "proofIn"},
         conn' = Moved(conn, c, h) \/ conn' = Tidy(Moved(conn, c, h)),
         UNCHANGED <<link, forgot, waiting>>
  PROVE  /\ conn' \in [Conn -> Connection] /\ Known(conn')
         /\ HeldIsProven' /\ HeldIsThere' /\ WaitingHasLink'
<1> DEFINE C == Moved(conn, c, h)
<1>1. conn \in [Conn -> Connection] /\ Known(conn)
  BY DEF Founded, TypeOK
<1>2. /\ C \in [Conn -> Connection]
      /\ \A d \in Conn : /\ C[d].end = conn[d].end /\ C[d].by = conn[d].by
                         /\ d # c => C[d].hs = conn[d].hs
  BY <1>1, GreetingMoves
<1> HIDE DEF C
<1>3. Known(C)
  BY <1>1, <1>2 DEF Known
<1>4. \A d \in Conn, e \in End : link[e] = d =>
        C[d].hs \in {"acked", "proven"} /\ C[d].end[e] # "gone"
  BY <1>2, MeshAssumption DEF Founded, HeldIsProven, HeldIsThere
<1>5. QED
  BY <1>2, <1>3, <1>4, LinksStay DEF C

(* Every step keeps the links founded.                                     *)
LEMMA FoundedStep == Founded /\ [Next]_vars => Founded'
<1> SUFFICES ASSUME Founded, [Next]_vars PROVE Founded'
  OBVIOUS
<1> USE DEF Founded
<1>t. /\ conn \in [Conn -> Connection] /\ Known(conn)
      /\ link \in [End -> Conn \cup {NoConn}]
      /\ waiting \in [End -> SUBSET Call]
      /\ up \subseteq End /\ retry \subseteq End /\ forgot \subseteq End
      /\ cuts \in 0..MaxCuts /\ exits \in 0..MaxExits /\ misjudged \in BOOLEAN
  BY DEF TypeOK
<1>h. \A d \in Conn, e \in End : link[e] = d =>
        /\ conn[d].hs \in {"acked", "proven"}
        /\ conn[d].end[e] # "gone"
        /\ e \notin forgot
  BY MeshAssumption DEF HeldIsProven, HeldIsThere
<1>r. \A e \in End : Retries(e) \subseteq End
  BY <1>t DEF Retries
<1>1. ASSUME NEW e \in End, Start(e) PROVE Founded'
  <2>1. Dial(e) /\ UNCHANGED <<link, forgot, waiting>>
    BY <1>1 DEF Start
  <2>2. QED
    BY <1>1, <1>t, <2>1, DialIsFounded DEF Start, TypeOK, Known
<1>2. ASSUME NEW e \in End, RetryFires(e) PROVE Founded'
  <2>1. Dial(e) /\ UNCHANGED <<link, forgot, waiting>>
    BY <1>2 DEF RetryFires
  <2>2. QED
    BY <1>2, <1>t, <2>1, DialIsFounded DEF RetryFires, TypeOK, Known
<1>3. ASSUME NEW c \in Conn, Opens(c) PROVE Founded'
  <2> DEFINE G == [conn[c] EXCEPT !.hs = "greeting", !.end = [e \in End |-> "open"]]
             C == [conn EXCEPT ![c] = G]
  <2>1. C \in [Conn -> Connection]
    <3>1. conn[c] \in Connection
      BY <1>t
    <3>2. G \in Connection
      BY <3>1 DEF Connection
    <3> HIDE DEF G
    <3>3. QED
      BY <1>t, <3>2
  <2>2. \A d \in Conn : d # c => C[d] = conn[d]
    BY <1>t
  <2>3. C[c].by = conn[c].by
    BY <1>t DEF Connection
  <2>4. conn' = C /\ conn[c].hs = "dialling" /\ UNCHANGED <<link, forgot, waiting>>
    BY <1>3 DEF Opens
  <2> HIDE DEF C
  <2>5. Known(C)
    BY <1>t, <2>2, <2>3, <2>4 DEF Known
  <2>6. \A d \in Conn, e \in End : link[e] = d =>
          C[d].hs \in {"acked", "proven"} /\ C[d].end[e] # "gone"
    BY <1>h, <2>2, <2>4
  <2>7. QED
    BY <1>3, <1>t, <2>1, <2>4, <2>5, <2>6, LinksStay DEF Opens, TypeOK, Known
<1>4. ASSUME NEW c \in Conn, OpenFails(c) PROVE Founded'
  <2> DEFINE C == [conn EXCEPT ![c] = Unused]
  <2>1. C \in [Conn -> Connection]
    BY <1>t, UnusedIsConnection
  <2>2. \A d \in Conn : C[d] = IF d = c THEN Unused ELSE conn[d]
    BY <1>t
  <2>3. conn' = C /\ conn[c].hs = "dialling" /\ UNCHANGED <<link, forgot, waiting>>
    BY <1>4 DEF OpenFails
  <2> HIDE DEF C
  <2>4. Known(C)
    BY <1>t, <2>2 DEF Known, Unused
  <2>5. \A d \in Conn, e \in End : link[e] = d =>
          C[d].hs \in {"acked", "proven"} /\ C[d].end[e] # "gone"
    BY <1>h, <2>2, <2>3
  <2>6. retry' \subseteq End
    BY <1>4, <1>t, <1>r, <2>3 DEF OpenFails, Dialler, Known
  <2>7. QED
    BY <1>4, <1>t, <2>1, <2>3, <2>4, <2>5, <2>6, LinksStay DEF OpenFails, TypeOK, Known
<1>5. ASSUME NEW c \in Conn, Greets(c) PROVE Founded'
  <2>1. /\ conn' = Moved(conn, c, IF Acceptor(c) \in forgot THEN "refused" ELSE "checking")
        /\ conn[c].hs = "greeting" /\ UNCHANGED <<link, forgot, waiting>>
    BY <1>5 DEF Greets, Moved
  <2>2. QED
    BY <1>5, <1>t, <2>1, GreetingIsFounded DEF Greets, TypeOK, Known
<1>6. ASSUME NEW c \in Conn, ServesKey(c) PROVE Founded'
  <2>1. /\ conn' = Moved(conn, c, "proofIn")
        /\ conn[c].hs = "checking" /\ UNCHANGED <<link, forgot, waiting>>
    BY <1>6 DEF ServesKey, Moved
  <2>2. QED
    BY <1>6, <1>t, <2>1, GreetingIsFounded DEF ServesKey, TypeOK, Known
<1>7. ASSUME NEW c \in Conn, ProofFails(c) PROVE Founded'
  <2>1. /\ conn' = Tidy(Moved(conn, c, "refused"))
        /\ conn[c].hs \in {"checking", "proofIn"} /\ UNCHANGED <<link, forgot, waiting>>
    BY <1>7 DEF ProofFails, Moved
  <2>2. cuts' \in 0..MaxCuts
    BY <1>7, <1>t, MeshAssumption DEF ProofFails
  <2>3. QED
    BY <1>7, <1>t, <2>1, <2>2, GreetingIsFounded DEF ProofFails, TypeOK, Known
<1>8. ASSUME NEW c \in Conn, KeyIn(c) PROVE Founded'
  <2>1. conn[c].hs = "proofIn" /\ UNCHANGED <<up, retry, forgot, cuts, exits>>
    BY <1>8 DEF KeyIn
  <2>2. \A e \in End : link[e] # c
    BY <1>h, <2>1
  <2>3. CASE Acceptor(c) \in forgot
    <3>1. conn' = Tidy(Moved(conn, c, "refused")) /\ UNCHANGED <<link, waiting, misjudged>>
      BY <1>8, <2>3 DEF KeyIn, Moved
    <3>2. QED
      BY <1>t, <2>1, <3>1, GreetingIsFounded DEF TypeOK, Known
  <2>4. CASE Acceptor(c) \notin forgot
    <3> DEFINE h == IF conn[c].end[Acceptor(c)] # "open" THEN "proven"
                    ELSE IF Taken(Acceptor(c), c) THEN "acked" ELSE "over"
               C == Moved(conn, c, h)
    <3>1. Hold(Acceptor(c), c, C) /\ Acceptor(c) \in End
      BY <1>8, <2>4, OtherIsEnd DEF KeyIn, Proven, Acceptor, Moved
    <3>2. /\ C \in [Conn -> Connection]
          /\ \A d \in Conn : /\ C[d].end = conn[d].end /\ C[d].by = conn[d].by
                             /\ d # c => C[d].hs = conn[d].hs
          /\ C[c].hs = h
      BY <1>t, GreetingMoves
    <3>3. C[c].hs \in {"acked", "proven"} \/ ~Taken(Acceptor(c), c)
      BY <3>2
    <3> HIDE DEF C
    <3>4. Known(C)
      BY <1>t, <2>1, <3>2 DEF Known
    <3>5. QED
      BY <1>t, <2>1, <2>2, <2>4, <3>1, <3>2, <3>3, <3>4, HoldIsFounded DEF TypeOK, Known
  <2>5. QED
    BY <2>3, <2>4
<1>9. ASSUME NEW c \in Conn, Acknowledged(c) PROVE Founded'
  <2> DEFINE e == Dialler(c)
             C == Moved(conn, c, "proven")
  <2>1. conn[c].hs = "acked" /\ UNCHANGED <<up, retry, forgot, cuts, exits>>
    BY <1>9 DEF Acknowledged
  <2>2. e \in End
    BY <1>t, <2>1 DEF Known, Dialler
  <2>3. /\ C \in [Conn -> Connection]
        /\ \A d \in Conn : /\ C[d].end = conn[d].end /\ C[d].by = conn[d].by
                           /\ d # c => C[d].hs = conn[d].hs
        /\ C[c].hs = "proven"
    BY <1>t, GreetingMoves
  <2>4. CASE e \in forgot
    <3>1. conn' = Tidy(Closing(C, c, e, "plain")) /\ UNCHANGED <<link, waiting, misjudged>>
      BY <1>9, <2>4 DEF Acknowledged, Moved
    <3> HIDE DEF C, e
    <3>k. Known(C)
      BY <1>t, <2>1, <2>3 DEF Known
    <3>2. Closing(C, c, e, "plain") \in [Conn -> Connection] /\ Known(Closing(C, c, e, "plain"))
      BY <2>2, <2>3, <3>k, ClosingTells
    <3>3. \A d \in Conn, x \in End : link[x] = d =>
            /\ Closing(C, c, e, "plain")[d].hs \in {"acked", "proven"}
            /\ Closing(C, c, e, "plain")[d].end[x] # "gone"
      BY <1>h, <2>2, <2>3, ClosingTells
    <3>4. QED
      BY <1>t, <2>1, <3>1, <3>2, <3>3, LinksStay DEF TypeOK, Known
  <2>5. CASE e \notin forgot
    <3>1. Hold(e, c, C)
      BY <1>9, <2>5 DEF Acknowledged, Moved
    <3> HIDE DEF C, e
    <3>2. Known(C)
      BY <1>t, <2>1, <2>3 DEF Known
    <3>3. QED
      BY <1>t, <2>1, <2>2, <2>3, <2>5, <3>1, <3>2, HoldIsFounded DEF TypeOK, Known
  <2>6. QED
    BY <2>4, <2>5
<1>10. ASSUME NEW c \in Conn, Refused(c) PROVE Founded'
  <2> DEFINE e == Dialler(c)
             C == Moved(conn, c, "over")
  <2>1. /\ conn[c].hs = "refused" /\ UNCHANGED <<link, forgot, waiting>>
        /\ conn' = Closing(C, c, e, "plain")
    BY <1>10 DEF Refused, Moved
  <2>2. e \in End
    BY <1>t, <2>1 DEF Known, Dialler
  <2>3. /\ C \in [Conn -> Connection]
        /\ \A d \in Conn : /\ C[d].end = conn[d].end /\ C[d].by = conn[d].by
                           /\ d # c => C[d].hs = conn[d].hs
    BY <1>t, GreetingMoves
  <2> HIDE DEF C, e
  <2>k. Known(C)
    BY <1>t, <2>1, <2>3 DEF Known
  <2>h. \A d \in Conn, x \in End : link[x] = d =>
          C[d].hs \in {"acked", "proven"} /\ C[d].end[x] # "gone"
    BY <1>h, <2>1, <2>3
  <2>4. Closing(C, c, e, "plain") \in [Conn -> Connection] /\ Known(Closing(C, c, e, "plain"))
    BY <2>2, <2>3, <2>k, ClosingTells
  <2>5. \A d \in Conn, x \in End : link[x] = d =>
          /\ Closing(C, c, e, "plain")[d].hs \in {"acked", "proven"}
          /\ Closing(C, c, e, "plain")[d].end[x] # "gone"
    BY <2>2, <2>3, <2>h, ClosingTells
  <2>6. QED
    BY <1>10, <1>t, <2>1, <2>4, <2>5, LinksStay DEF Refused, TypeOK, Known
<1>11. ASSUME NEW c \in Conn, NEW e \in End, Closed(c, e) PROVE Founded'
  <2> DEFINE h == IF e = Acceptor(c) /\ conn[c].hs \in {"greeting", "checking"}
                  THEN "over" ELSE conn[c].hs
             G == [conn[c] EXCEPT !.end[e] = "gone", !.hs = h]
             C == [conn EXCEPT ![c] = G]
  <2>1. conn' = Tidy(C) /\ UNCHANGED <<up, forgot, cuts, exits, misjudged>>
    BY <1>11 DEF Closed
  <2>r. /\ G \in Connection /\ G.by = conn[c].by /\ G.hs = h
        /\ \A x \in End \ {e} : G.end[x] = conn[c].end[x]
    <3>1. conn[c] \in Connection
      BY <1>t
    <3>2. QED
      BY <3>1 DEF Connection
  <2> HIDE DEF G
  <2>2. C \in [Conn -> Connection]
    BY <1>t, <2>r
  <2>3. \A d \in Conn : d # c => C[d] = conn[d]
    BY <1>t
  <2>4. C[c].by = conn[c].by /\ C[c].hs = h /\ \A x \in End \ {e} : C[c].end[x] = conn[c].end[x]
    BY <1>t, <2>r
  <2>5. (conn[c].hs = "none" => C[c].hs = "none")
        /\ (conn[c].hs \in {"acked", "proven"} => C[c].hs = conn[c].hs)
    BY <2>4
  <2> HIDE DEF C
  <2>6. Known(C)
    BY <1>t, <2>3, <2>4, <2>5 DEF Known
  <2>7. \A d \in Conn : \A x \in End \ {e} : link[x] = d =>
          C[d].hs \in {"acked", "proven"} /\ C[d].end[x] # "gone"
    BY <1>h, <2>3, <2>4, <2>5
  <2>8. retry' \subseteq End
    BY <1>11, <1>t, <1>r DEF Closed, Drop
  <2>9. CASE link[e] = c
    <3>1. link' = [link EXCEPT ![e] = NoConn] /\ waiting' = [waiting EXCEPT ![e] = {}]
      BY <1>11, <2>9 DEF Closed, Drop
    <3>2. QED
      BY <1>t, <2>1, <2>2, <2>6, <2>7, <2>8, <3>1, LettingGo DEF TypeOK, Known
  <2>10. CASE link[e] # c
    <3>1. UNCHANGED <<link, waiting>>
      BY <1>11, <1>t, <2>10 DEF Closed, Drop
    <3>2. \A d \in Conn, x \in End : link[x] = d =>
            C[d].hs \in {"acked", "proven"} /\ C[d].end[x] # "gone"
      BY <1>h, <2>3, <2>7, <2>10
    <3>3. QED
      BY <1>t, <2>1, <2>2, <2>6, <2>8, <3>1, <3>2, LinksStay DEF TypeOK, Known
  <2>11. QED
    BY <2>9, <2>10
<1>12. ASSUME NEW e \in End, Beat(e) PROVE Founded'
  <2> DEFINE C == Closing(conn, link[e], e, "plain")
  <2>1. /\ link[e] \in Conn /\ conn' = C
        /\ link' = [link EXCEPT ![e] = NoConn] /\ waiting' = [waiting EXCEPT ![e] = {}]
        /\ UNCHANGED <<up, forgot, cuts, exits, misjudged>>
    BY <1>12, <1>t DEF Beat, Drop
  <2>2. C \in [Conn -> Connection] /\ Known(C)
    BY <1>t, <2>1, ClosingTells
  <2>3. \A d \in Conn : /\ C[d].hs = conn[d].hs
                        /\ \A x \in End : conn[d].end[x] # "gone" => C[d].end[x] # "gone"
    BY <1>t, <2>1, ClosingTells
  <2> HIDE DEF C
  <2>4. \A d \in Conn : \A x \in End \ {e} : link[x] = d =>
          C[d].hs \in {"acked", "proven"} /\ C[d].end[x] # "gone"
    BY <1>h, <2>3
  <2>5. retry' \subseteq End
    BY <1>12, <1>t, <1>r DEF Beat, Drop
  <2>6. QED
    BY <1>t, <2>1, <2>2, <2>4, <2>5, LettingGo DEF TypeOK, Known
<1>13. ASSUME NEW e \in End, Forget(e) PROVE Founded'
  <2> DEFINE C == IF link[e] = NoConn THEN conn ELSE Closing(conn, link[e], e, "plain")
  <2>1. /\ conn' = C /\ forgot' = forgot \cup {e} /\ retry' = retry \ {e}
        /\ link' = [link EXCEPT ![e] = NoConn] /\ waiting' = [waiting EXCEPT ![e] = {}]
        /\ UNCHANGED <<up, cuts, exits, misjudged>>
    BY <1>13 DEF Forget
  <2>2. C \in [Conn -> Connection] /\ Known(C)
    BY <1>t, ClosingTells
  <2>3. \A d \in Conn : /\ C[d].hs = conn[d].hs
                        /\ \A x \in End : conn[d].end[x] # "gone" => C[d].end[x] # "gone"
    BY <1>t, ClosingTells
  <2> HIDE DEF C
  <2>4. \A d \in Conn : \A x \in End \ {e} : link[x] = d =>
          C[d].hs \in {"acked", "proven"} /\ C[d].end[x] # "gone"
    BY <1>h, <2>3
  <2>5. QED
    BY <1>t, <2>1, <2>2, <2>4, LettingGo DEF TypeOK, Known
<1>14. ASSUME NEW e \in End, Exit(e) PROVE Founded'
  <2> DEFINE f(c) == [x \in End |-> IF x = e THEN "gone"
                       ELSE IF conn[c].end[x] = "open" /\ conn[c].wire = "alive"
                       THEN "plain" ELSE conn[c].end[x]]
             h(c) == IF Dialler(c) = Other(e) /\ conn[c].hs \in {"greeting", "checking", "proofIn"}
                     THEN "over" ELSE conn[c].hs
             G(c) == [conn[c] EXCEPT !.end = f(c), !.hs = h(c)]
             C == [c \in Conn |-> IF conn[c].hs = "dialling" /\ Dialler(c) = e
                                  THEN Unused ELSE G(c)]
  <2>1. /\ conn' = Tidy(C) /\ up' = up \ {e} /\ retry' = retry \ {e} /\ forgot' = forgot \ {e}
        /\ link' = [link EXCEPT ![e] = NoConn] /\ waiting' = [waiting EXCEPT ![e] = {}]
        /\ UNCHANGED <<cuts, misjudged>>
    BY <1>14 DEF Exit
  <2>2. exits' \in 0..MaxExits
    <3>1. exits < MaxExits /\ exits' = exits + 1
      BY <1>14 DEF Exit
    <3>2. QED
      BY <1>t, <3>1, MeshAssumption
  <2>3. ASSUME NEW c \in Conn
        PROVE  /\ G(c) \in Connection /\ G(c).by = conn[c].by /\ G(c).hs = h(c)
               /\ \A x \in End \ {e} : conn[c].end[x] # "gone" => G(c).end[x] # "gone"
    <3>1. conn[c] \in Connection
      BY <1>t
    <3>2. f(c) \in [End -> {"open", "plain", "glare", "gone"}]
      BY <3>1 DEF Connection
    <3>3. \A x \in End \ {e} : conn[c].end[x] # "gone" => f(c)[x] # "gone"
      OBVIOUS
    <3>4. h(c) \in {"none", "dialling", "greeting", "checking", "proofIn", "acked",
                    "refused", "proven", "over"}
      BY <3>1 DEF Connection
    <3> HIDE DEF f, h
    <3>5. QED
      BY <3>1, <3>2, <3>3, <3>4 DEF Connection
  <2>4. \A c \in Conn : /\ h(c) # "none" => conn[c].hs # "none"
                        /\ conn[c].hs \in {"acked", "proven"} => h(c) = conn[c].hs
    OBVIOUS
  <2> HIDE DEF G, h
  <2>5. C \in [Conn -> Connection]
    BY <2>3, UnusedIsConnection
  <2>6. Known(C)
    BY <1>t, <2>3, <2>4 DEF Known, Unused
  <2>7. \A d \in Conn : \A x \in End \ {e} : link[x] = d =>
          C[d].hs \in {"acked", "proven"} /\ C[d].end[x] # "gone"
    BY <1>h, <2>3, <2>4
  <2> HIDE DEF C
  <2>8. forgot' \subseteq forgot \cup {e}
    BY <2>1
  <2>9. QED
    BY <1>t, <2>1, <2>2, <2>5, <2>6, <2>7, <2>8, LettingGo DEF TypeOK, Known
<1>15. ASSUME NEW c \in Conn, Breaks(c) PROVE Founded'
  <2>1. /\ UNCHANGED <<up, link, retry, forgot, waiting, exits, misjudged>>
        /\ cuts' \in 0..MaxCuts
    BY <1>15, <1>t, MeshAssumption DEF Breaks
  <2> DEFINE D == Closing(conn, c, Small, "plain")
  <2>2. /\ D \in [Conn -> Connection] /\ Known(D)
        /\ \A d \in Conn : /\ D[d].hs = conn[d].hs
                           /\ \A x \in End : conn[d].end[x] # "gone" => D[d].end[x] # "gone"
    BY <1>t, ClosingTells DEF End
  <2> HIDE DEF D
  <2> DEFINE S(C) == [C EXCEPT ![c].wire = "silent"]
  <2>3. ASSUME NEW C \in [Conn -> Connection]
        PROVE  /\ S(C) \in [Conn -> Connection]
               /\ \A d \in Conn : /\ S(C)[d].hs = C[d].hs /\ S(C)[d].by = C[d].by
                                  /\ S(C)[d].end = C[d].end
    BY DEF Connection
  <2>4. PICK C \in {conn, D} : conn' = S(C)
    BY <1>15 DEF Breaks, D
  <2> HIDE DEF S
  <2>5. conn' \in [Conn -> Connection]
        /\ \A d \in Conn : conn'[d].hs = C[d].hs /\ conn'[d].by = C[d].by /\ conn'[d].end = C[d].end
    BY <1>t, <2>2, <2>3, <2>4
  <2>6. Known(conn')
    BY <1>t, <2>2, <2>4, <2>5 DEF Known
  <2>7. \A d \in Conn, e \in End : link[e] = d =>
          conn'[d].hs \in {"acked", "proven"} /\ conn'[d].end[e] # "gone"
    BY <1>h, <2>2, <2>4, <2>5
  <2>8. QED
    BY <1>t, <2>1, <2>5, <2>6, <2>7, LinksStay DEF TypeOK, Known
<1>16. ASSUME NEW e \in End, NEW k \in Call, Forward(e, k) PROVE Founded'
  BY <1>16, <1>t
  DEF Forward, TypeOK, Known, HeldIsProven, HeldIsThere, WaitingHasLink
<1>17. ASSUME NEW e \in End, NEW k \in Call, Answered(e, k) PROVE Founded'
  BY <1>17, <1>t
  DEF Answered, TypeOK, Known, HeldIsProven, HeldIsThere, WaitingHasLink
<1>18. CASE UNCHANGED vars
  BY <1>18, <1>t DEF vars, TypeOK, Known, HeldIsProven, HeldIsThere, WaitingHasLink
<1>19. QED
  BY <1>1, <1>2, <1>3, <1>4, <1>5, <1>6, <1>7, <1>8, <1>9, <1>10, <1>11, <1>12, <1>13,
     <1>14, <1>15, <1>16, <1>17, <1>18 DEF Next, Handshake

-----------------------------------------------------------------------------
(* What each connection says of the links of the two ends.  Over a wire    *)
(* that carries, an end hears of a closing as soon as the other closes; an *)
(* acknowledged connection is the link of the end that accepted it; and    *)
(* one that is proven is the link of both ends or of none, until a closing *)
(* is on its way.                                                          *)
Fits(k, d, L) ==
  /\ k.wire = "alive" => (k.end[Small] = "open" <=> k.end[Large] = "open")
  /\ k.wire = "alive" /\ k.hs = "acked" /\ k.end[Other(k.by)] = "open" => L[Other(k.by)] = d
  /\ \A e \in End : L[e] = d /\ k.hs = "proven" /\ k.wire = "alive" /\ k.end[e] = "open"
                      => L[Other(e)] = d

Agreed == \A d \in Conn : Fits(conn[d], d, link)

(* A connection that carries nothing, or is closed at both ends, says      *)
(* nothing.                                                                *)
Shut(k) == k.wire = "alive" => \A e \in End : k.end[e] # "open"

LEMMA ShutFits == ASSUME NEW k, NEW d, NEW L, Shut(k) PROVE Fits(k, d, L)
BY OtherIsEnd DEF Shut, Fits, End

LEMMA ClosedIsShut ==
  ASSUME NEW C \in [Conn -> Connection], NEW c \in Conn, NEW e \in End,
         NEW code \in {"plain", "glare"}
  PROVE  /\ Shut(Closing(C, c, e, code)[c])
         /\ \A d \in Conn \ {c} : Closing(C, c, e, code)[d] = C[d]
<1> DEFINE f == [x \in End |->
                   IF C[c].end[x] # "open" THEN C[c].end[x]
                   ELSE IF C[c].wire = "alive" THEN code
                   ELSE IF x = e THEN "plain" ELSE "open"]
<1>1. Closing(C, c, e, code) = [C EXCEPT ![c].end = f]
  BY DEF Closing
<1>2. C[c].wire = "alive" => \A x \in End : f[x] # "open"
  OBVIOUS
<1> HIDE DEF f
<1>3. [C EXCEPT ![c].end = f][c].wire = C[c].wire /\ [C EXCEPT ![c].end = f][c].end = f
  BY DEF Connection
<1> QED  BY <1>1, <1>2, <1>3 DEF Shut

(* A connection whose record and whose holders stay as they are fits as it *)
(* did.                                                                    *)
LEMMA ElsewhereFits ==
  ASSUME NEW k, NEW d, NEW L, NEW M, Fits(k, d, L), \A x \in End : L[x] = d <=> M[x] = d
  PROVE  Fits(k, d, M)
BY OtherIsEnd DEF Fits

LEMMA AgreedBy ==
  ASSUME Agreed, NEW C \in [Conn -> Connection], conn' = C \/ conn' = Tidy(C),
         \A d \in Conn : \/ Shut(C[d])
                         \/ C[d] = conn[d] /\ \A x \in End : link[x] = d <=> link'[x] = d
                         \/ Fits(C[d], d, link')
  PROVE  Agreed'
<1>1. ASSUME NEW d \in Conn  PROVE Fits(C[d], d, link')
  <2>1. CASE Shut(C[d])
    BY <2>1, ShutFits
  <2>2. CASE C[d] = conn[d] /\ \A x \in End : link[x] = d <=> link'[x] = d
    BY <2>2, ElsewhereFits DEF Agreed
  <2> QED  BY <2>1, <2>2
<1>2. Shut(Unused)
  BY DEF Shut, Unused
<1>3. \A d \in Conn : conn'[d] = C[d] \/ conn'[d] = Unused
  BY DEF Tidy
<1> QED  BY <1>1, <1>2, <1>3, ShutFits DEF Agreed

(* #hold of a connection that was proven, just acknowledged or about to be *)
(* closed again: the one it is told of is the link of this end, the one it *)
(* replaces or turns down is shut.                                         *)
LEMMA HoldAgrees ==
  ASSUME Founded, Agreed, NEW e \in End, NEW c \in Conn, NEW C \in [Conn -> Connection],
         \A d \in Conn \ {c} : C[d] = conn[d],
         Hold(e, c, C),
         Taken(e, c) /\ C[c].end[e] # "gone"
           => \A L \in [End -> Conn \cup {NoConn}] :
                L[e] = c /\ L[Other(e)] = link[Other(e)] => Fits(C[c], c, L),
         Taken(e, c) /\ C[c].end[e] = "gone" => Shut(C[c])
  PROVE  Agreed'
<1> DEFINE D == IF ~Taken(e, c) THEN Closing(C, c, e, "glare")
                ELSE IF link[e] = NoConn THEN C
                ELSE Closing(C, link[e], e, "glare")
<1>1. link \in [End -> Conn \cup {NoConn}] /\ NoConn \notin Conn
  BY MeshAssumption DEF Founded, TypeOK
<1>2. conn' = Tidy(D)
  BY DEF Hold
<1>3. link' = [link EXCEPT ![e] = IF ~Taken(e, c) THEN link[e]
                                  ELSE IF C[c].end[e] = "gone" THEN NoConn ELSE c]
  BY DEF Hold
<1>4. CASE ~Taken(e, c)
  <2>1. D = Closing(C, c, e, "glare") /\ link' = link
    BY <1>1, <1>3, <1>4
  <2>2. D \in [Conn -> Connection] /\ Shut(D[c]) /\ \A d \in Conn \ {c} : D[d] = conn[d]
    BY <2>1, ClosingTells, ClosedIsShut
  <2> HIDE DEF D
  <2> QED  BY <1>2, <2>1, <2>2, AgreedBy
<1>5. CASE Taken(e, c)
  <2>1. /\ link'[e] = IF C[c].end[e] = "gone" THEN NoConn ELSE c
        /\ \A x \in End \ {e} : link'[x] = link[x]
        /\ link' \in [End -> Conn \cup {NoConn}]
    BY <1>1, <1>3, <1>5
  <2>2. Other(e) \in End \ {e}
    BY MeshAssumption DEF Other, End
  <2>3. Fits(C[c], c, link')
    <3>1. CASE C[c].end[e] = "gone"
      BY <1>5, <3>1, ShutFits
    <3>2. CASE C[c].end[e] # "gone"
      BY <1>5, <2>1, <2>2, <3>2
    <3> QED  BY <3>1, <3>2
  <2>4. \A d \in Conn \ {c} : d # link[e] => \A x \in End : link[x] = d <=> link'[x] = d
    BY <1>1, <2>1
  <2>5. CASE link[e] = NoConn
    <3>1. D = C
      BY <1>5, <2>5
    <3> HIDE DEF D
    <3> QED  BY <1>1, <1>2, <2>3, <2>4, <2>5, <3>1, AgreedBy
  <2>6. CASE link[e] # NoConn
    <3>1. D = Closing(C, link[e], e, "glare") /\ link[e] \in Conn
      BY <1>1, <1>5, <2>6
    <3>2. D \in [Conn -> Connection] /\ Shut(D[link[e]])
          /\ \A d \in Conn \ {link[e]} : D[d] = C[d]
      BY <3>1, ClosingTells, ClosedIsShut
    <3> HIDE DEF D
    <3> QED  BY <1>2, <2>3, <2>4, <3>2, AgreedBy
  <2> QED  BY <2>5, <2>6
<1> QED  BY <1>4, <1>5

LEMMA AgreedStep == Founded /\ Agreed /\ [Next]_vars => Agreed'
<1> SUFFICES ASSUME Founded, Agreed, [Next]_vars PROVE Agreed'
  OBVIOUS
<1>t. /\ conn \in [Conn -> Connection] /\ Known(conn)
      /\ link \in [End -> Conn \cup {NoConn}] /\ NoConn \notin Conn
  BY MeshAssumption DEF Founded, TypeOK
<1>e. Small \in End /\ Large \in End /\ \A e : Other(e) \in End
  BY OtherIsEnd DEF End
<1>f. \A d \in Conn : Fits(conn[d], d, link)
  BY DEF Agreed
<1>h. \A d \in Conn, e \in End : link[e] = d => conn[d].hs \in {"acked", "proven"}
  BY <1>t DEF Founded, HeldIsProven
<1>1. ASSUME NEW e \in End, Start(e) \/ RetryFires(e)  PROVE Agreed'
  <2>1. Dial(e) /\ link' = link
    BY <1>1 DEF Start, RetryFires
  <2>2. CASE UNCHANGED conn
    BY <1>t, <2>1, <2>2, AgreedBy
  <2>3. CASE ~UNCHANGED conn
    <3>1. PICK c \in Conn : /\ conn[c] = Unused
                            /\ conn' = [conn EXCEPT ![c].by = e, ![c].hs = "dialling"]
      BY <2>1, <2>3 DEF Dial
    <3> DEFINE G == [conn[c] EXCEPT !.by = e, !.hs = "dialling"]
    <3>2. conn' = [conn EXCEPT ![c] = G]
      BY <1>t, <3>1
    <3>3. G \in Connection /\ G.end = Unused.end
      BY <1>t, <3>1 DEF Connection
    <3>4. Shut(G)
      BY <3>3 DEF Shut, Unused
    <3> HIDE DEF G
    <3>5. conn' \in [Conn -> Connection] /\ Shut(conn'[c]) /\ \A d \in Conn \ {c} : conn'[d] = conn[d]
      BY <1>t, <3>2, <3>3, <3>4
    <3> QED  BY <2>1, <3>5, AgreedBy
  <2> QED  BY <2>2, <2>3
<1>2. ASSUME NEW c \in Conn, NEW h \in {"checking", "proofIn", "refused", "over"},
             conn' = Moved(conn, c, h) \/ conn' = Tidy(Moved(conn, c, h)), link' = link
      PROVE  Agreed'
  <2> DEFINE C == Moved(conn, c, h)
  <2>1. /\ C \in [Conn -> Connection] /\ C[c].end = conn[c].end /\ C[c].hs = h
        /\ C[c].wire = conn[c].wire
        /\ \A d \in Conn \ {c} : C[d] = conn[d]
    BY <1>t, GreetingMoves, GreetingLeaves
  <2> HIDE DEF C
  <2>2. Fits(C[c], c, link')
    BY <1>f, <2>1 DEF Fits
  <2>3. conn' = C \/ conn' = Tidy(C)
    BY <1>2 DEF C
  <2> QED  BY <1>2, <2>1, <2>2, <2>3, AgreedBy
<1>3. ASSUME NEW c \in Conn, Opens(c)  PROVE Agreed'
  <2> DEFINE G == [conn[c] EXCEPT !.hs = "greeting", !.end = [e \in End |-> "open"]]
  <2>1. conn' = [conn EXCEPT ![c] = G] /\ link' = link
    BY <1>3 DEF Opens
  <2>2. G \in Connection /\ G.hs = "greeting" /\ G.end = [e \in End |-> "open"]
    BY <1>t DEF Connection
  <2> HIDE DEF G
  <2>3. Fits(G, c, link')
    BY <1>e, <2>2 DEF Fits
  <2>4. /\ conn' \in [Conn -> Connection] /\ Fits(conn'[c], c, link')
        /\ \A d \in Conn \ {c} : conn'[d] = conn[d]
    BY <1>t, <2>1, <2>2, <2>3
  <2> QED  BY <2>1, <2>4, AgreedBy
<1>4. ASSUME NEW c \in Conn, OpenFails(c)  PROVE Agreed'
  <2>1. /\ conn' \in [Conn -> Connection] /\ conn'[c] = Unused /\ link' = link
        /\ \A d \in Conn \ {c} : conn'[d] = conn[d]
    BY <1>t, <1>4, UnusedIsConnection DEF OpenFails
  <2>2. Shut(Unused)
    BY DEF Shut, Unused
  <2> QED  BY <2>1, <2>2, AgreedBy
<1>5. ASSUME NEW c \in Conn, Greets(c) \/ ServesKey(c) \/ ProofFails(c)  PROVE Agreed'
  <2>1. PICK h \in {"checking", "proofIn", "refused"} :
          (conn' = Moved(conn, c, h) \/ conn' = Tidy(Moved(conn, c, h))) /\ link' = link
    BY <1>5 DEF Greets, ServesKey, ProofFails, Moved
  <2> QED  BY <1>2, <2>1
<1>6. ASSUME NEW c \in Conn, KeyIn(c)  PROVE Agreed'
  <2> DEFINE q == Acceptor(c)
             h == IF conn[c].end[q] # "open" THEN "proven"
                  ELSE IF Taken(q, c) THEN "acked" ELSE "over"
             C == Moved(conn, c, h)
  <2>1. CASE q \in forgot
    <3>1. conn' = Tidy(Moved(conn, c, "refused")) /\ link' = link
      BY <1>6, <2>1 DEF KeyIn, Moved
    <3> QED  BY <1>2, <3>1
  <2>2. CASE q \notin forgot
    <3>1. Hold(q, c, C) /\ q \in End /\ conn[c].hs = "proofIn"
      BY <1>e, <1>6, <2>2 DEF KeyIn, Proven, Acceptor, Moved
    <3>2. /\ C \in [Conn -> Connection] /\ C[c].end = conn[c].end /\ C[c].hs = h
          /\ C[c].wire = conn[c].wire /\ C[c].by = conn[c].by
          /\ \A d \in Conn \ {c} : C[d] = conn[d]
      BY <1>t, GreetingMoves, GreetingLeaves
    <3>3. q = Other(conn[c].by)
      BY DEF Acceptor
    <3> HIDE DEF C, q
    <3>4. conn[c].wire = "alive" => \A x, y \in End : conn[c].end[x] = "open" => conn[c].end[y] = "open"
      BY <1>f DEF Fits, End
    <3>5. \A x \in End : link[x] # c
      BY <1>h, <3>1
    <3>6. C[c].end[q] # "open" => Shut(C[c])
      BY <3>1, <3>2, <3>4 DEF Shut
    <3>7. ASSUME Taken(q, c), NEW L \in [End -> Conn \cup {NoConn}], L[q] = c  PROVE Fits(C[c], c, L)
      <4>1. CASE conn[c].end[q] # "open"
        BY <3>2, <3>6, <4>1, ShutFits
      <4>2. CASE conn[c].end[q] = "open"
        <5>1. C[c].hs = "acked"
          BY <3>2, <3>7, <4>2
        <5> QED  BY <1>e, <3>2, <3>3, <3>4, <3>7, <5>1 DEF Fits
      <4> QED  BY <4>1, <4>2
    <3> QED  BY <3>1, <3>2, <3>6, <3>7, HoldAgrees
  <2> QED  BY <2>1, <2>2
<1>7. ASSUME NEW c \in Conn, Acknowledged(c)  PROVE Agreed'
  <2> DEFINE e == Dialler(c)
             C == Moved(conn, c, "proven")
  <2>1. /\ C \in [Conn -> Connection] /\ C[c].end = conn[c].end /\ C[c].hs = "proven"
        /\ C[c].wire = conn[c].wire /\ C[c].by = conn[c].by
        /\ \A d \in Conn \ {c} : C[d] = conn[d]
    BY <1>t, GreetingMoves, GreetingLeaves
  <2>2. e \in End /\ conn[c].hs = "acked" /\ e = conn[c].by /\ conn[c].end[e] # "gone"
    BY <1>7, <1>t DEF Acknowledged, Known, Dialler
  <2>3. CASE e \in forgot
    <3>1. conn' = Tidy(Closing(C, c, e, "plain")) /\ link' = link
      BY <1>7, <2>3 DEF Acknowledged, Moved
    <3> HIDE DEF C, e
    <3>2. /\ Closing(C, c, e, "plain") \in [Conn -> Connection]
          /\ Shut(Closing(C, c, e, "plain")[c])
          /\ \A d \in Conn \ {c} : Closing(C, c, e, "plain")[d] = conn[d]
      BY <2>1, <2>2, ClosingTells, ClosedIsShut
    <3> QED  BY <3>1, <3>2, AgreedBy
  <2>4. CASE e \notin forgot
    <3>1. Hold(e, c, C)
      BY <1>7, <2>4 DEF Acknowledged, Moved
    <3> HIDE DEF C, e
    <3>2. conn[c].wire = "alive" => \A x, y \in End : conn[c].end[x] = "open" => conn[c].end[y] = "open"
      BY <1>f DEF Fits, End
    <3>3. conn[c].wire = "alive" /\ conn[c].end[Other(e)] = "open" => link[Other(e)] = c
      BY <1>f, <2>2 DEF Fits
    <3>4. ASSUME NEW L \in [End -> Conn \cup {NoConn}], L[e] = c, L[Other(e)] = link[Other(e)]
          PROVE  Fits(C[c], c, L)
      <4>1. ASSUME C[c].wire = "alive", NEW x \in End, C[c].end[x] = "open"
            PROVE  L[Other(x)] = c
        <5>1. link[Other(e)] = c
          BY <1>e, <2>1, <3>2, <3>3, <4>1
        <5>2. Other(x) = e \/ Other(x) = Other(e)
          BY <2>2 DEF Other, End
        <5> QED  BY <3>4, <5>1, <5>2
      <4> QED  BY <1>e, <2>1, <3>2, <4>1 DEF Fits
    <3> QED  BY <2>1, <2>2, <3>1, <3>4, HoldAgrees
  <2> QED  BY <2>3, <2>4
<1>8. ASSUME NEW c \in Conn, Refused(c)  PROVE Agreed'
  <2> DEFINE e == Dialler(c)
             C == Moved(conn, c, "over")
  <2>1. C \in [Conn -> Connection] /\ \A d \in Conn \ {c} : C[d] = conn[d]
    BY <1>t, GreetingMoves, GreetingLeaves
  <2>2. e \in End /\ conn' = Closing(C, c, e, "plain") /\ link' = link
    BY <1>8, <1>t DEF Refused, Known, Dialler, Moved
  <2> HIDE DEF C, e
  <2>3. /\ conn' \in [Conn -> Connection] /\ Shut(conn'[c])
        /\ \A d \in Conn \ {c} : conn'[d] = conn[d]
    BY <2>1, <2>2, ClosingTells, ClosedIsShut
  <2> QED  BY <2>2, <2>3, AgreedBy
<1>9. ASSUME NEW c \in Conn, NEW e \in End, Closed(c, e)  PROVE Agreed'
  <2> DEFINE h == IF e = Acceptor(c) /\ conn[c].hs \in {"greeting", "checking"}
                  THEN "over" ELSE conn[c].hs
             G == [conn[c] EXCEPT !.end[e] = "gone", !.hs = h]
             C == [conn EXCEPT ![c] = G]
  <2>1. conn' = Tidy(C) /\ conn[c].end[e] \in {"plain", "glare"}
    BY <1>9 DEF Closed
  <2>2. /\ G \in Connection /\ G.wire = conn[c].wire /\ G.end[e] = "gone"
        /\ \A x \in End \ {e} : G.end[x] = conn[c].end[x]
    <3>1. conn[c] \in Connection
      BY <1>t
    <3>2. h \in {"none", "dialling", "greeting", "checking", "proofIn", "acked",
                 "refused", "proven", "over"}
      BY <3>1 DEF Connection
    <3> HIDE DEF h
    <3> QED  BY <3>1, <3>2 DEF Connection
  <2>3. Shut(G)
    BY <1>f, <2>1, <2>2 DEF Shut, Fits, End
  <2> HIDE DEF G
  <2>4. C \in [Conn -> Connection] /\ Shut(C[c]) /\ \A d \in Conn \ {c} : C[d] = conn[d]
    BY <1>t, <2>2, <2>3
  <2>5. \A d \in Conn \ {c} : \A x \in End : link[x] = d <=> link'[x] = d
    BY <1>9, <1>t DEF Closed, Drop
  <2> HIDE DEF C
  <2> QED  BY <2>1, <2>4, <2>5, AgreedBy
<1>10. ASSUME NEW e \in End, Beat(e)  PROVE Agreed'
  <2>1. /\ link[e] \in Conn /\ conn' = Closing(conn, link[e], e, "plain")
        /\ link' = [link EXCEPT ![e] = NoConn]
    BY <1>10, <1>t DEF Beat, Drop
  <2>2. /\ conn' \in [Conn -> Connection] /\ Shut(conn'[link[e]])
        /\ \A d \in Conn \ {link[e]} : conn'[d] = conn[d]
    BY <1>t, <2>1, ClosingTells, ClosedIsShut
  <2>3. \A d \in Conn \ {link[e]} : \A x \in End : link[x] = d <=> link'[x] = d
    BY <1>t, <2>1
  <2> QED  BY <2>1, <2>2, <2>3, AgreedBy
<1>11. ASSUME NEW e \in End, Forget(e)  PROVE Agreed'
  <2>1. link' = [link EXCEPT ![e] = NoConn]
    BY <1>11 DEF Forget
  <2>2. \A d \in Conn \ {link[e]} : \A x \in End : link[x] = d <=> link'[x] = d
    BY <1>t, <2>1
  <2>3. CASE link[e] = NoConn
    <3>1. conn' = conn
      BY <1>11, <2>3 DEF Forget
    <3> QED  BY <1>t, <2>2, <2>3, <3>1, AgreedBy
  <2>4. CASE link[e] # NoConn
    <3>1. link[e] \in Conn /\ conn' = Closing(conn, link[e], e, "plain")
      BY <1>11, <1>t, <2>4 DEF Forget
    <3>2. /\ conn' \in [Conn -> Connection] /\ Shut(conn'[link[e]])
          /\ \A d \in Conn \ {link[e]} : conn'[d] = conn[d]
      BY <1>t, <3>1, ClosingTells, ClosedIsShut
    <3> QED  BY <2>2, <3>1, <3>2, AgreedBy
  <2> QED  BY <2>3, <2>4
<1>12. ASSUME NEW e \in End, Exit(e)  PROVE Agreed'
  <2> DEFINE f(c) == [x \in End |-> IF x = e THEN "gone"
                       ELSE IF conn[c].end[x] = "open" /\ conn[c].wire = "alive"
                       THEN "plain" ELSE conn[c].end[x]]
             h(c) == IF Dialler(c) = Other(e) /\ conn[c].hs \in {"greeting", "checking", "proofIn"}
                     THEN "over" ELSE conn[c].hs
             G(c) == [conn[c] EXCEPT !.end = f(c), !.hs = h(c)]
             C == [c \in Conn |-> IF conn[c].hs = "dialling" /\ Dialler(c) = e
                                  THEN Unused ELSE G(c)]
  <2>1. conn' = Tidy(C)
    BY <1>12 DEF Exit
  <2>2. ASSUME NEW c \in Conn  PROVE G(c) \in Connection /\ Shut(G(c))
    <3>1. conn[c] \in Connection
      BY <1>t
    <3>2. f(c) \in [End -> {"open", "plain", "glare", "gone"}]
      BY <3>1 DEF Connection
    <3>3. conn[c].wire = "alive" => \A x \in End : f(c)[x] # "open"
      OBVIOUS
    <3>4. h(c) \in {"none", "dialling", "greeting", "checking", "proofIn", "acked",
                    "refused", "proven", "over"}
      BY <3>1 DEF Connection
    <3> HIDE DEF f, h
    <3>5. G(c) \in Connection /\ G(c).end = f(c) /\ G(c).wire = conn[c].wire
      BY <3>1, <3>2, <3>4 DEF Connection
    <3> QED  BY <3>3, <3>5 DEF Shut
  <2> HIDE DEF G
  <2>3. Shut(Unused)
    BY DEF Shut, Unused
  <2>4. C \in [Conn -> Connection] /\ \A d \in Conn : Shut(C[d])
    BY <2>2, <2>3, UnusedIsConnection
  <2> HIDE DEF C
  <2> QED  BY <2>1, <2>4, AgreedBy
<1>13. ASSUME NEW c \in Conn, Breaks(c)  PROVE Agreed'
  <2> DEFINE D == Closing(conn, c, Small, "plain")
             S(C) == [C EXCEPT ![c].wire = "silent"]
  <2>1. D \in [Conn -> Connection] /\ \A d \in Conn \ {c} : D[d] = conn[d]
    BY <1>t, <1>e, ClosingTells, ClosedIsShut
  <2> HIDE DEF D
  <2>2. PICK C \in {conn, D} : conn' = S(C) /\ link' = link
    BY <1>13 DEF Breaks, D
  <2>3. C \in [Conn -> Connection] /\ \A d \in Conn \ {c} : C[d] = conn[d]
    BY <1>t, <2>1, <2>2
  <2>4. S(C) \in [Conn -> Connection] /\ S(C)[c].wire = "silent"
        /\ \A d \in Conn \ {c} : S(C)[d] = conn[d]
    <3> DEFINE w == [C[c] EXCEPT !.wire = "silent"]
    <3>1. w \in Connection /\ w.wire = "silent"
      BY <2>3 DEF Connection
    <3>2. S(C) = [C EXCEPT ![c] = w]
      BY <2>3
    <3> HIDE DEF w, S
    <3> QED  BY <2>3, <3>1, <3>2
  <2> HIDE DEF S
  <2> QED  BY <2>2, <2>4, AgreedBy DEF Shut
<1>14. CASE UNCHANGED <<conn, link>>
  BY <1>14 DEF Agreed
<1> QED
  BY <1>1, <1>3, <1>4, <1>5, <1>6, <1>7, <1>8, <1>9, <1>10, <1>11, <1>12, <1>13, <1>14
  DEF Next, Handshake, Forward, Answered, vars

-----------------------------------------------------------------------------
LEMMA AlwaysFounded == Spec => []Founded
  BY FoundedAtFirst, FoundedStep, PTL DEF Spec

(* The mesh keeps its types, whatever is dialled, broken, stopped or       *)
(* forgotten (Mesh).                                                       *)
THEOREM MeshTypes == Spec => []TypeOK
<1>1. Founded => TypeOK
  BY DEF Founded
<1>2. QED
  BY <1>1, AlwaysFounded, PTL

(* However many connections are dialled and proven at once, an end holds   *)
(* only one that was proven, of a peer it has not forgotten (greet, #hold, *)
(* forget).                                                                *)
THEOREM LinkIsProven == Spec => []HeldIsProven
<1>1. Founded => HeldIsProven
  BY DEF Founded
<1>2. QED
  BY <1>1, AlwaysFounded, PTL

(* A forwarded request never waits for a peer that has no link: whatever   *)
(* takes the link away answers it (forward, #drop, #abandon).              *)
THEOREM NobodyWaitsInVain == Spec => []WaitingHasLink
<1>1. Founded => WaitingHasLink
  BY DEF Founded
<1>2. QED
  BY <1>1, AlwaysFounded, PTL

(* Once no reply and no notice of a closing is on its way, what one end    *)
(* holds over a wire that carries is what the other holds, however many    *)
(* connections the two opened at once and in whatever order greetings,     *)
(* replies, cuts, stops and forgetting crossed (#hold, glareKeepsNew).     *)
THEOREM GlareIsSettled == Spec => []EndsAgree
<1>1. Init => Agreed
  BY ShutFits DEF Init, Agreed, Unused, Shut
<1>2. Founded /\ Agreed => EndsAgree
  <2> SUFFICES ASSUME Founded, Agreed, Still, NEW e \in End,
                      link[e] # NoConn, conn[link[e]].wire = "alive"
               PROVE  link[Other(e)] = link[e]
    BY DEF EndsAgree
  <2>1. link[e] \in Conn
    BY DEF Founded, TypeOK
  <2>2. conn[link[e]].hs = "proven"
    BY <2>1 DEF Founded, HeldIsProven, Still
  <2>3. conn[link[e]].end[e] = "open"
    BY <2>1 DEF Founded, HeldIsThere, Still
  <2> QED  BY <2>1, <2>2, <2>3 DEF Agreed, Fits
<1>3. QED
  BY <1>1, <1>2, AgreedStep, AlwaysFounded, PTL DEF Spec

-----------------------------------------------------------------------------
(* The files of a host.                                                    *)

OwnFile == [dir : Home, port : Nat]
RowLists == [Home -> Nat \cup {None}]
Commands == {"add", "remove", "adopt", "revert"}

RowFile == RowLists \cup {None, Broken}
ListFile == (SUBSET Home) \cup {None, Broken}
OwnFiles == [Home -> OwnFile \cup {None, Broken}]
Applied == [endpoints : RowFile, instances : [Home -> OwnFile \cup {None}]]

(* Constants that mean what the code means by them, and commands that      *)
(* follow each other: two at once lose each other's updates.               *)
CommandsFollow ==
  /\ \A p, q \in Proc : p = q
  /\ IsFiniteSet(Home)
  /\ Doing \subseteq Commands
  /\ None \notin Nat \cup (SUBSET Home) \cup OwnFile \cup RowLists \cup Applied
              \cup Commands \cup {Broken}
  /\ Broken \notin Nat \cup (SUBSET Home) \cup OwnFile \cup RowLists

Idle == [doing |-> None]
Task == [doing : Commands, home : Home, at : Nat, port : Nat \cup {None},
         e : RowFile, s : ListFile, o : OwnFiles]

LEMMA AddSteps ==
  /\ Len(F!Steps("add")) = 14 /\ F!Steps("add")[1] = "readEndpoints"
  /\ F!Steps("add")[2] = "readSupervised" /\ F!Steps("add")[3] = "readOwn"
  /\ F!Steps("add")[4] = "choose" /\ F!Steps("add")[5] = "writeOwn"
  /\ F!Steps("add")[6] = "getEndpoints" /\ F!Steps("add")[7] = "putEndpoints"
  /\ F!Steps("add")[8] = "getSupervised" /\ F!Steps("add")[9] = "putSupervised"
  /\ F!Steps("add")[10] = "readEndpoints" /\ F!Steps("add")[11] = "readSupervised"
  /\ F!Steps("add")[12] = "readOwn" /\ F!Steps("add")[13] = "copy"
  /\ F!Steps("add")[14] = "satisfy"
BY DEF F!Steps

LEMMA RemoveSteps ==
  /\ Len(F!Steps("remove")) = 14 /\ F!Steps("remove")[1] = "readEndpoints"
  /\ F!Steps("remove")[2] = "readSupervised" /\ F!Steps("remove")[3] = "readOwn"
  /\ F!Steps("remove")[4] = "find" /\ F!Steps("remove")[5] = "getSupervised"
  /\ F!Steps("remove")[6] = "putSupervised" /\ F!Steps("remove")[7] = "getEndpoints"
  /\ F!Steps("remove")[8] = "putEndpoints" /\ F!Steps("remove")[9] = "dropOwn"
  /\ F!Steps("remove")[10] = "readEndpoints"
  /\ F!Steps("remove")[11] = "readSupervised" /\ F!Steps("remove")[12] = "readOwn"
  /\ F!Steps("remove")[13] = "copy" /\ F!Steps("remove")[14] = "satisfy"
BY DEF F!Steps

LEMMA AdoptSteps ==
  /\ Len(F!Steps("adopt")) = 5 /\ F!Steps("adopt")[1] = "readEndpoints"
  /\ F!Steps("adopt")[2] = "readSupervised" /\ F!Steps("adopt")[3] = "readOwn"
  /\ F!Steps("adopt")[4] = "copy" /\ F!Steps("adopt")[5] = "satisfy"
BY DEF F!Steps

LEMMA RevertSteps ==
  /\ Len(F!Steps("revert")) = 3 /\ F!Steps("revert")[1] = "restoreEndpoints"
  /\ F!Steps("revert")[2] = "restoreSupervised"
  /\ F!Steps("revert")[3] = "restoreOwn"
BY DEF F!Steps

(* Where a command stands when it is about to take a step.                 *)
LEMMA Where ==
  ASSUME NEW d \in Commands, NEW k \in 1..Len(F!Steps(d))
  PROVE  LET g == F!Steps(d)[k]
             two == d \in {"add", "remove"}
         IN  /\ g = "choose" => d = "add" /\ k = 4
             /\ g = "writeOwn" => d = "add" /\ k = 5
             /\ g = "find" => d = "remove" /\ k = 4
             /\ g = "getEndpoints" => (d = "add" /\ k = 6) \/ (d = "remove" /\ k = 7)
             /\ g = "putEndpoints" => (d = "add" /\ k = 7) \/ (d = "remove" /\ k = 8)
             /\ g = "getSupervised" => (d = "add" /\ k = 8) \/ (d = "remove" /\ k = 5)
             /\ g = "putSupervised" => (d = "add" /\ k = 9) \/ (d = "remove" /\ k = 6)
             /\ g = "dropOwn" => d = "remove" /\ k = 9
             /\ g = "copy" => (two /\ k = 13) \/ (d = "adopt" /\ k = 4)
             /\ g = "satisfy" => (two /\ k = 14) \/ (d = "adopt" /\ k = 5)
             /\ g = "readEndpoints" => (two /\ k \in {1, 10}) \/ (d = "adopt" /\ k = 1)
             /\ g = "readSupervised" => (two /\ k \in {2, 11}) \/ (d = "adopt" /\ k = 2)
             /\ g = "readOwn" => (two /\ k \in {3, 12}) \/ (d = "adopt" /\ k = 3)
             /\ g \in {"restoreEndpoints", "restoreSupervised", "restoreOwn"} => d = "revert"
<1>1. CASE d = "add"
  <2>1. k \in 1..14
    BY <1>1, AddSteps
  <2>2. \/ k = 1 \/ k = 2 \/ k = 3 \/ k = 4 \/ k = 5 \/ k = 6 \/ k = 7
        \/ k = 8 \/ k = 9 \/ k = 10 \/ k = 11 \/ k = 12 \/ k = 13 \/ k = 14
    BY <2>1
  <2> QED  BY <1>1, <2>2, AddSteps, SMTT(60)
<1>2. CASE d = "remove"
  <2>1. k \in 1..14
    BY <1>2, RemoveSteps
  <2>2. \/ k = 1 \/ k = 2 \/ k = 3 \/ k = 4 \/ k = 5 \/ k = 6 \/ k = 7
        \/ k = 8 \/ k = 9 \/ k = 10 \/ k = 11 \/ k = 12 \/ k = 13 \/ k = 14
    BY <2>1
  <2> QED  BY <1>2, <2>2, RemoveSteps, SMTT(60)
<1>3. CASE d = "adopt"
  <2>1. k \in 1..5
    BY <1>3, AdoptSteps
  <2> QED  BY <1>3, <2>1, AdoptSteps
<1>4. CASE d = "revert"
  <2>1. k \in 1..3
    BY <1>4, RevertSteps
  <2> QED  BY <1>4, <2>1, RevertSteps
<1> QED  BY <1>1, <1>2, <1>3, <1>4 DEF Commands

Last(p) == proc[p].at = Len(F!Steps(proc[p].doing))

(* How far a command has come: it is about to take one of these steps.     *)
Within(p, d, first, last) == proc[p].doing = d /\ proc[p].at \in first..last

(* A command has at hand what its next step uses.                          *)
Prepared(p) ==
  /\ F!At(p, "putEndpoints") => proc[p].e \in RowLists
  /\ F!At(p, "putSupervised") => proc[p].s \in SUBSET Home
  /\ F!At(p, "writeOwn") => proc[p].port \in Nat
  /\ F!At(p, "satisfy") => F!ReadHolds(p)

ConfigTypes ==
  /\ endpoints \in RowFile /\ supervised \in ListFile /\ own \in OwnFiles
  /\ copies \in [endpoints : RowFile, supervised : ListFile, own : OwnFiles]
  /\ applied \in Applied \cup {None}
  /\ proc \in [Proc -> Task \cup {Idle}]
  /\ \A p \in Proc : proc[p] # Idle => proc[p].at \in 1..Len(F!Steps(proc[p].doing))
  /\ \A p \in Proc : Prepared(p)
  /\ asked \subseteq Home /\ edits \in Nat
  /\ reused \in BOOLEAN /\ reverted \in BOOLEAN

LEMMA BusyIs ==
  ASSUME CommandsFollow, ConfigTypes, NEW p \in Proc, proc[p].doing # None
  PROVE  /\ proc[p] \in Task /\ proc[p] # Idle
         /\ proc[p].at \in 1..Len(F!Steps(proc[p].doing))
         /\ proc[p].doing \in Commands /\ proc[p].home \in Home
         /\ proc[p].at \in Nat /\ proc[p].port \in Nat \cup {None}
         /\ proc[p].e \in RowFile /\ proc[p].s \in ListFile /\ proc[p].o \in OwnFiles
<1>1. proc[p] # Idle
  BY DEF Idle
<1>2. proc[p] \in Task
  BY <1>1 DEF ConfigTypes
<1> QED  BY <1>1, <1>2 DEF ConfigTypes, Task

LEMMA StandsAt ==
  ASSUME CommandsFollow, ConfigTypes, NEW p \in Proc, NEW step, F!At(p, step)
  PROVE  /\ proc[p].doing # None /\ proc[p].doing \in Commands
         /\ F!Steps(proc[p].doing)[proc[p].at] = step
         /\ proc[p].at \in 1..Len(F!Steps(proc[p].doing))
BY BusyIs DEF F!At

Fields == {"e", "s", "o", "port"}

(* What becomes of a command that takes a step.                            *)
LEMMA GoesIs ==
  ASSUME CommandsFollow, ConfigTypes, NEW p \in Proc, proc[p].doing # None,
         NEW f \in Fields, NEW val, F!Goes(p, f, val),
         f = "e" => val \in RowFile, f = "s" => val \in ListFile, f = "o" => val \in OwnFiles,
         f = "port" => val \in Nat \cup {None}
  PROVE  /\ proc' \in [Proc -> Task \cup {Idle}]
         /\ \A q \in Proc : proc'[q] # Idle => proc'[q].at \in 1..Len(F!Steps(proc'[q].doing))
         /\ Last(p) => proc'[p] = Idle
         /\ ~Last(p) => /\ proc'[p] # Idle /\ proc'[p].at = proc[p].at + 1
                        /\ proc'[p].doing = proc[p].doing /\ proc'[p].home = proc[p].home
                        /\ proc'[p].e = IF f = "e" THEN val ELSE proc[p].e
                        /\ proc'[p].s = IF f = "s" THEN val ELSE proc[p].s
                        /\ proc'[p].o = IF f = "o" THEN val ELSE proc[p].o
                        /\ proc'[p].port = IF f = "port" THEN val ELSE proc[p].port
<1> DEFINE t == proc[p]
           u == [t EXCEPT !.at = t.at + 1]
           w == [u EXCEPT ![f] = val]
<1>1. t \in Task /\ t # Idle /\ t.at \in 1..Len(F!Steps(t.doing)) /\ t.doing \in Commands
  BY BusyIs
<1>2. u \in Task /\ u.at = t.at + 1 /\ u.doing = t.doing /\ u.home = t.home /\ u.e = t.e
      /\ u.s = t.s /\ u.o = t.o /\ u.port = t.port
  BY <1>1 DEF Task
<1> HIDE DEF u
<1>3. /\ w \in Task /\ w.at = u.at /\ w.doing = u.doing /\ w.home = u.home
      /\ w.e = (IF f = "e" THEN val ELSE u.e) /\ w.s = (IF f = "s" THEN val ELSE u.s)
      /\ w.o = (IF f = "o" THEN val ELSE u.o) /\ w.port = (IF f = "port" THEN val ELSE u.port)
  <2>1. CASE f = "e"
    BY <1>2, <2>1 DEF Task
  <2>2. CASE f = "s"
    BY <1>2, <2>2 DEF Task
  <2>3. CASE f = "o"
    BY <1>2, <2>3 DEF Task
  <2>4. CASE f = "port"
    BY <1>2, <2>4 DEF Task
  <2> QED  BY <2>1, <2>2, <2>3, <2>4 DEF Fields
<1>4. /\ proc \in [Proc -> Task \cup {Idle}] /\ Idle \in Task \cup {Idle}
      /\ \A q \in Proc : proc[q] # Idle => proc[q].at \in 1..Len(F!Steps(proc[q].doing))
  BY DEF ConfigTypes
<1>5. proc' = [proc EXCEPT ![p] = IF t.at = Len(F!Steps(t.doing)) THEN Idle ELSE w]
  BY Zenon DEF F!Goes, u, Idle
<1>6. w # Idle
  <2>1. w.doing # None
    BY <1>1, <1>2, <1>3 DEF CommandsFollow
  <2> QED  BY <2>1 DEF Idle
<1> HIDE DEF w
<1>7. CASE Last(p)
  BY <1>4, <1>5, <1>7 DEF Last
<1>8. CASE ~Last(p)
  <2>1. Len(F!Steps(t.doing)) \in Nat
    BY <1>1, AddSteps, RemoveSteps, AdoptSteps, RevertSteps DEF Commands
  <2>2. t.at + 1 \in 1..Len(F!Steps(t.doing))
    BY <1>1, <1>8, <2>1 DEF Last
  <2>3. proc' = [proc EXCEPT ![p] = w]
    BY <1>5, <1>8 DEF Last
  <2> QED  BY <1>2, <1>3, <1>4, <1>6, <1>8, <2>2, <2>3
<1> QED  BY <1>7, <1>8

(* The files as every step leaves them, if nobody mistyped one: what is    *)
(* listed has its row of the mesh and its own file, which agree on a port, *)
(* and no two rows have one port.                                          *)
FilesFit ==
  LET r == F!Rows(endpoints)
  IN  /\ endpoints # Broken /\ supervised # Broken
      /\ \A h \in Home : own[h] # Broken
      /\ \A h \in Home : own[h] # None => own[h].dir = h
      /\ \A g, h \in Home : g # h /\ r[g] # None => r[g] # r[h]
      /\ \A h \in F!Listed(supervised) : r[h] # None /\ own[h] # None /\ own[h].port = r[h]

(* What a command has read is what is there.                               *)
HasRead(p) ==
  \A d \in {"add", "remove"} :
    /\ Within(p, d, 2, 4) => proc[p].e = endpoints
    /\ Within(p, d, 3, 4) => proc[p].s = supervised
    /\ Within(p, d, 4, 4) => proc[p].o = own

(* An add has a port no other row has, and has written what it has.        *)
AddFits(p) ==
  LET t == proc[p]
      r == F!Rows(endpoints)
  IN  /\ Within(p, "add", 5, 9) => /\ t.home \notin F!Listed(supervised) /\ t.port \in Nat
                                   /\ \A h \in Home \ {t.home} : r[h] # t.port
      /\ Within(p, "add", 6, 9) => own[t.home] = [dir |-> t.home, port |-> t.port]
      /\ Within(p, "add", 7, 7) => t.e = r
      /\ Within(p, "add", 8, 9) => r[t.home] = t.port
      /\ Within(p, "add", 9, 9) => t.s = F!Listed(supervised)

RemoveFits(p) ==
  /\ Within(p, "remove", 1, 14) => proc[p].port = None
  /\ Within(p, "remove", 6, 6) => proc[p].s = F!Listed(supervised)
  /\ Within(p, "remove", 7, 9) => proc[p].home \notin F!Listed(supervised)
  /\ Within(p, "remove", 8, 8) => proc[p].e = F!Rows(endpoints)

(* The list a command is about to write is the one that is there.          *)
ListIsRead(p) ==
  Within(p, "add", 9, 9) \/ Within(p, "remove", 6, 6) => proc[p].s = F!Listed(supervised)

Reverting(p) == proc[p].doing = "revert" => reverted

(* Nothing this says nothing of has come between.                          *)
Clean == edits = 0 /\ ~reused /\ ~reverted

ConfigFits ==
  Clean =>
    FilesFit /\ \A p \in Proc : HasRead(p) /\ AddFits(p) /\ RemoveFits(p)

(* What is applied and nobody asked to remove.                             *)
Kept == {h \in Home \ asked : applied # None /\ applied.instances[h] # None}

(* A command that has got so far in settling: the lists are read first.    *)
Settled(p, m, n) ==
  Within(p, "add", m, 14) \/ Within(p, "remove", m, 14) \/ Within(p, "adopt", n, 5)

(* It has read the lists, and before it applies what it read that is       *)
(* copied.  No list it reads is without a row for what is kept.            *)
Settles(p) ==
  LET t == proc[p]
  IN  /\ Settled(p, 11, 2) => (t.e = None => Kept = {}) /\ (t.e # None => endpoints # None)
      /\ Settled(p, 12, 3) => t.s = supervised
      /\ F!At(p, "satisfy") /\ supervised # None => copies.supervised = supervised

(* What is kept is on the list and on its checked copy, so neither an      *)
(* edit nor a revert takes it off.                                         *)
KeptIsListed ==
  /\ Kept \subseteq F!Listed(supervised)
  /\ copies.supervised # None => Kept \subseteq copies.supervised
  /\ Kept # {} => endpoints # None
  /\ supervised # Broken /\ copies.supervised # Broken

Asked(p) == proc[p].doing = "remove" => proc[p].home \in asked

Applies == KeptIsListed /\ \A p \in Proc : ListIsRead(p) /\ Settles(p) /\ Asked(p)

(* Only one command runs, and an idle one is nowhere.                      *)
LEMMA IdleIsNowhere ==
  ASSUME CommandsFollow
  PROVE  Idle.doing = None /\ None \notin Commands
BY DEF CommandsFollow, Idle

LEMMA Lengths ==
  /\ Len(F!Steps("add")) = 14 /\ Len(F!Steps("remove")) = 14
  /\ Len(F!Steps("adopt")) = 5 /\ Len(F!Steps("revert")) = 3
  /\ \A d \in Commands : 1 \in 1..Len(F!Steps(d))
<1>1. /\ Len(F!Steps("add")) = 14 /\ Len(F!Steps("remove")) = 14
      /\ Len(F!Steps("adopt")) = 5 /\ Len(F!Steps("revert")) = 3
  BY AddSteps, RemoveSteps, AdoptSteps, RevertSteps
<1> QED  BY <1>1 DEF Commands

(* A command that begins, and one that is over.                            *)
LEMMA BeginIs ==
  ASSUME CommandsFollow, ConfigTypes, NEW p \in Proc, NEW d \in Doing, NEW h \in Home,
         F!Begin(p, d, h)
  PROVE  /\ proc' \in [Proc -> Task \cup {Idle}]
         /\ \A q \in Proc : proc'[q] # Idle => proc'[q].at \in 1..Len(F!Steps(proc'[q].doing))
         /\ proc'[p].doing = d /\ proc'[p].at = 1 /\ proc'[p].home = h /\ proc'[p].port = None
<1> DEFINE t == [doing |-> d, home |-> h, at |-> 1, port |-> None, e |-> None, s |-> None,
                 o |-> IF d = "revert" THEN F!Standing.instances ELSE F!NoFiles]
<1>1. proc' = [proc EXCEPT ![p] = t]
  BY DEF F!Begin
<1>2. F!NoFiles \in OwnFiles /\ F!Standing.instances \in OwnFiles
  BY DEF F!Standing, F!Empty, F!NoFiles, ConfigTypes, Applied, OwnFiles
<1>3. d \in Commands /\ d # None
  BY DEF CommandsFollow
<1>4. t \in Task
  BY <1>2, <1>3 DEF Task, RowFile, ListFile
<1>5. t # Idle /\ t.doing = d /\ t.at = 1
  <2>1. t.doing = d /\ t.at = 1
    OBVIOUS
  <2>2. t.doing # None /\ Idle.doing = None
    BY <1>3, <2>1, IdleIsNowhere
  <2> QED  BY <2>1, <2>2
<1>6. 1 \in 1..Len(F!Steps(d))
  BY <1>3, Lengths
<1>7. /\ proc \in [Proc -> Task \cup {Idle}]
      /\ \A q \in Proc : proc[q] # Idle => proc[q].at \in 1..Len(F!Steps(proc[q].doing))
  BY DEF ConfigTypes
<1>8. t.home = h /\ t.port = None
  OBVIOUS
<1> HIDE DEF t
<1> QED  BY <1>1, <1>4, <1>5, <1>6, <1>7, <1>8

LEMMA OverIs ==
  ASSUME CommandsFollow, ConfigTypes, NEW p \in Proc, proc' = [proc EXCEPT ![p] = [doing |-> None]]
  PROVE  /\ proc' \in [Proc -> Task \cup {Idle}]
         /\ \A q \in Proc : proc'[q] # Idle => proc'[q].at \in 1..Len(F!Steps(proc'[q].doing))
         /\ proc'[p] = Idle
BY DEF ConfigTypes, Idle

LEMMA RowsTyped ==
  ASSUME CommandsFollow, ConfigTypes
  PROVE  /\ F!Rows(endpoints) \in RowLists /\ F!Listed(supervised) \in SUBSET Home
         /\ F!Rows(endpoints) \in RowFile /\ F!Listed(supervised) \in ListFile
BY DEF ConfigTypes, F!Rows, F!Listed, F!NoRows, RowFile, ListFile, RowLists

(* What a holding state of the files makes of them is without a broken one. *)
LEMMA SatisfiedTyped ==
  ASSUME CommandsFollow, NEW e \in RowFile, NEW s \in ListFile, NEW o \in OwnFiles,
         F!Holds(e, s, o)
  PROVE  F!Satisfied(e, s, o) \in Applied
<1>1. CASE e = None \/ s = None
  BY <1>1 DEF F!Satisfied, F!Empty, F!NoRows, F!NoFiles, Applied, RowFile, RowLists
<1>2. CASE e # None /\ s # None
  <2>1. s \in SUBSET Home /\ \A h \in s : o[h] # None /\ o[h] # Broken
    BY <1>2 DEF F!Holds, F!InstancesHold, F!Readable, ListFile
  <2>2. [h \in Home |-> IF h \in s THEN o[h] ELSE None] \in [Home -> OwnFile \cup {None}]
    BY <2>1 DEF OwnFiles
  <2> QED  BY <1>2, <2>2 DEF F!Satisfied, Applied
<1> QED  BY <1>1, <1>2

LEMMA KnownTyped ==
  ASSUME CommandsFollow, ConfigTypes, NEW p \in Proc, proc[p].doing # None
  PROVE  F!Known(p).instances \in [Home -> OwnFile \cup {None}]
<1>1. F!ReadHolds(p) => F!Known(p) \in Applied
  BY BusyIs, SatisfiedTyped DEF F!ReadHolds, F!Known
<1>2. F!Empty \in Applied
  BY DEF F!Empty, F!NoRows, F!NoFiles, Applied, RowFile, RowLists
<1>3. ~F!ReadHolds(p) => F!Known(p) \in Applied
  BY <1>2 DEF F!Known, F!Standing, ConfigTypes
<1> QED  BY <1>1, <1>3 DEF Applied

-----------------------------------------------------------------------------
(* A port past the highest of what is registered is nobody's.              *)

LEMMA LessIsFounded ==
  ASSUME NEW S, S \subseteq Nat, S # {}
  PROVE  \E m \in S : \A n \in S : ~(n < m)
<1>1. IsWellFoundedOn(OpToRel(<, Nat), Nat)
  BY NatLessThanWellFounded
<1>2. PICK m \in S : \A n \in S : ~(<<n, m>> \in OpToRel(<, Nat))
  BY <1>1, WFMin
<1>3. \A n \in S : n < m => <<n, m>> \in OpToRel(<, Nat)
  BY DEF OpToRel
<1> QED  BY <1>2, <1>3

LEMMA GreatestIsThere ==
  ASSUME NEW S, IsFiniteSet(S), S \subseteq Nat, S # {}
  PROVE  \E g \in S : \A n \in S : n <= g
<1> DEFINE Topless(U) == U \subseteq S /\ U # {} /\ ~(\E g \in U : \A n \in U : n <= g)
           sizes == {Cardinality(U) : U \in {V \in SUBSET S : Topless(V)}}
<1>1. \A U \in SUBSET S : IsFiniteSet(U) /\ Cardinality(U) \in Nat
  BY FS_Subset, FS_CardinalityType
<1> SUFFICES ASSUME Topless(S) PROVE FALSE
  OBVIOUS
<1>2. sizes \subseteq Nat /\ sizes # {}
  BY <1>1
<1>3. PICK U \in SUBSET S : Topless(U) /\ \A V \in SUBSET S : Topless(V) => ~(Cardinality(V) < Cardinality(U))
  <2>1. PICK m \in sizes : \A n \in sizes : ~(n < m)
    BY <1>2, LessIsFounded
  <2> QED  BY <2>1
<1>4. PICK x \in U : TRUE
  BY <1>3
<1>5. Cardinality(U \ {x}) < Cardinality(U)
  <2>1. Cardinality(U \ {x}) = Cardinality(U) - 1
    BY <1>1, <1>4, FS_RemoveElement
  <2> QED  BY <1>1, <2>1
<1>6. ~Topless(U \ {x})
  BY <1>3, <1>5
<1>7. U \ {x} # {}
  <2>1. CASE U \ {x} = {}
    <3>1. U = {x} /\ x \in Nat
      BY <1>4, <2>1
    <3> QED  BY <1>3, <3>1
  <2> QED  BY <2>1
<1>8. PICK g \in U \ {x} : \A n \in U \ {x} : n <= g
  BY <1>6, <1>7
<1>9. g \in Nat /\ x \in Nat /\ U \subseteq Nat
  BY <1>8, <1>4
<1>10. CASE x <= g
  BY <1>3, <1>8, <1>10
<1>11. CASE ~(x <= g)
  <2>1. \A n \in U : n <= x
    BY <1>8, <1>9, <1>11
  <2> QED  BY <1>3, <1>4, <2>1
<1> QED  BY <1>10, <1>11

LEMMA FreePortIsFree ==
  ASSUME IsFiniteSet(Home), None \notin OwnFile, NEW i \in [Home -> OwnFile \cup {None}]
  PROVE  /\ F!FreePort(i) \in Nat
         /\ \A h \in Home : i[h] # None => i[h].port # F!FreePort(i)
<1> DEFINE there == {h \in Home : i[h] # None}
           f == [h \in there |-> i[h].port]
           all == F!Ports(i)
<1>1. all = {i[h].port : h \in there} /\ all \subseteq Nat
  BY DEF F!Ports, OwnFile
<1>2. IsFiniteSet(all)
  <2>1. IsFiniteSet(there)
    BY FS_Subset
  <2>2. f \in [there -> all] /\ \A n \in all : \E h \in there : f[h] = n
    BY <1>1
  <2> HIDE DEF f, all, there
  <2>3. f \in Surjection(there, all)
    BY <2>2 DEF Surjection
  <2> QED  BY <2>1, <2>3, FS_Surjection
<1>3. \A h \in Home : i[h] # None => i[h].port \in all
  BY <1>1
<1> HIDE DEF all, there
<1>4. CASE all = {}
  BY <1>3, <1>4 DEF F!FreePort, F!FIRST_PORT, all
<1>5. CASE all # {}
  <2>1. \E g \in all : \A n \in all : n <= g
    BY <1>1, <1>2, <1>5, GreatestIsThere
  <2>2. \E g \in all : \A n \in all : g >= n
    <3>1. PICK g \in all : \A n \in all : n <= g
      BY <2>1
    <3>2. \A n \in all : g >= n
      BY <1>1, <3>1
    <3> QED  BY <3>2
  <2>3. F!Max(all) \in all /\ \A n \in all : F!Max(all) >= n
    BY <2>2, Zenon DEF F!Max
  <2>4. F!FreePort(i) = F!Max(all) + 1
    BY <1>5, Zenon DEF F!FreePort, all
  <2>5. \A n \in all : n \in Nat
    BY <1>1
  <2>6. F!Max(all) + 1 \in Nat /\ \A n \in all : n # F!Max(all) + 1
    BY <2>3, <2>5
  <2> QED  BY <1>3, <2>4, <2>6
<1> QED  BY <1>4, <1>5

-----------------------------------------------------------------------------
(* What is there stays what it is, step by step.                           *)

LEMMA ConfigBegins == ASSUME CommandsFollow, F!Init PROVE ConfigTypes
<1>1. F!NoFiles \in OwnFiles
  BY DEF F!NoFiles, OwnFiles
<1>2. proc \in [Proc -> Task \cup {Idle}] /\ \A p \in Proc : proc[p] = Idle
  BY DEF F!Init, Idle
<1>3. \A p \in Proc : Prepared(p)
  BY <1>2, IdleIsNowhere DEF Prepared, F!At
<1> QED  BY <1>1, <1>2, <1>3 DEF F!Init, ConfigTypes, RowFile, ListFile

(* One command runs, so what is so of it is so of all.                     *)
LEMMA OnlyOne ==
  ASSUME CommandsFollow, NEW p \in Proc, NEW q \in Proc
  PROVE  q = p
BY DEF CommandsFollow

LEMMA TypesOfAStep ==
  ASSUME CommandsFollow, ConfigTypes, NEW p \in Proc,
         proc' \in [Proc -> Task \cup {Idle}],
         \A q \in Proc : proc'[q] # Idle => proc'[q].at \in 1..Len(F!Steps(proc'[q].doing)),
         Prepared(p)',
         endpoints' \in RowFile, supervised' \in ListFile, own' \in OwnFiles,
         copies' \in [endpoints : RowFile, supervised : ListFile, own : OwnFiles],
         applied' \in Applied \cup {None}, asked' \subseteq Home, edits' \in Nat,
         reused' \in BOOLEAN, reverted' \in BOOLEAN
  PROVE  ConfigTypes'
BY OnlyOne DEF ConfigTypes

LEMMA BeginTypes ==
  ASSUME CommandsFollow, ConfigTypes, NEW p \in Proc, NEW d \in Doing, NEW h \in Home,
         F!Begin(p, d, h)
  PROVE  ConfigTypes'
<1>1. proc'[p].doing = d /\ proc'[p].at = 1 /\ d \in Commands
  BY BeginIs DEF CommandsFollow
<1>2. Prepared(p)'
  BY <1>1, AddSteps, RemoveSteps, AdoptSteps, RevertSteps DEF Prepared, F!At, Commands
<1>3. /\ endpoints' = endpoints /\ supervised' = supervised /\ own' = own /\ copies' = copies
      /\ applied' = applied /\ edits' = edits /\ reused' = reused
      /\ asked' \subseteq Home /\ reverted' \in BOOLEAN
  BY DEF F!Begin, F!files, ConfigTypes
<1>4. /\ endpoints' \in RowFile /\ supervised' \in ListFile /\ own' \in OwnFiles
      /\ copies' \in [endpoints : RowFile, supervised : ListFile, own : OwnFiles]
      /\ applied' \in Applied \cup {None} /\ edits' \in Nat /\ reused' \in BOOLEAN
  BY <1>3 DEF ConfigTypes
<1>5. /\ proc' \in [Proc -> Task \cup {Idle}]
      /\ \A q \in Proc : proc'[q] # Idle => proc'[q].at \in 1..Len(F!Steps(proc'[q].doing))
  BY BeginIs
<1> QED  BY <1>2, <1>3, <1>4, <1>5, TypesOfAStep

LEMMA OverTypes ==
  ASSUME CommandsFollow, ConfigTypes, NEW p \in Proc, proc' = [proc EXCEPT ![p] = [doing |-> None]],
         UNCHANGED <<endpoints, supervised, own, copies, applied, asked, edits, reused, reverted>>
  PROVE  ConfigTypes'
<1>1. /\ proc' \in [Proc -> Task \cup {Idle}] /\ proc'[p] = Idle
      /\ \A q \in Proc : proc'[q] # Idle => proc'[q].at \in 1..Len(F!Steps(proc'[q].doing))
  BY OverIs
<1>2. Prepared(p)'
  BY <1>1, IdleIsNowhere DEF Prepared, F!At
<1>3. /\ endpoints' \in RowFile /\ supervised' \in ListFile /\ own' \in OwnFiles
      /\ copies' \in [endpoints : RowFile, supervised : ListFile, own : OwnFiles]
      /\ applied' \in Applied \cup {None} /\ edits' \in Nat /\ reused' \in BOOLEAN
      /\ reverted' \in BOOLEAN /\ asked' \subseteq Home
  BY DEF ConfigTypes
<1> QED  BY <1>1, <1>2, <1>3, TypesOfAStep

(* The field a step leaves in the task, and what may be in it.             *)
Fitting(f, val) ==
  /\ f \in Fields
  /\ f = "e" => val \in RowFile
  /\ f = "s" => val \in ListFile
  /\ f = "o" => val \in OwnFiles
  /\ f = "port" => val \in Nat \cup {None}

Stepped(p, f, val) ==
  /\ Last(p) => proc'[p] = Idle
  /\ ~Last(p) => /\ proc'[p] # Idle /\ proc'[p].at = proc[p].at + 1
                 /\ proc'[p].doing = proc[p].doing /\ proc'[p].home = proc[p].home
                 /\ proc'[p].e = IF f = "e" THEN val ELSE proc[p].e
                 /\ proc'[p].s = IF f = "s" THEN val ELSE proc[p].s
                 /\ proc'[p].o = IF f = "o" THEN val ELSE proc[p].o
                 /\ proc'[p].port = IF f = "port" THEN val ELSE proc[p].port

LEMMA GoesTyped ==
  ASSUME CommandsFollow, ConfigTypes, NEW p \in Proc, proc[p].doing # None,
         NEW f, NEW val, F!Goes(p, f, val), Fitting(f, val)
  PROVE  /\ proc' \in [Proc -> Task \cup {Idle}]
         /\ \A q \in Proc : proc'[q] # Idle => proc'[q].at \in 1..Len(F!Steps(proc'[q].doing))
         /\ Stepped(p, f, val)
<1>1. /\ f \in Fields
      /\ f = "e" => val \in RowFile
      /\ f = "s" => val \in ListFile
      /\ f = "o" => val \in OwnFiles
      /\ f = "port" => val \in Nat \cup {None}
  BY DEF Fitting
<1>2. /\ proc' \in [Proc -> Task \cup {Idle}]
      /\ \A q \in Proc : proc'[q] # Idle => proc'[q].at \in 1..Len(F!Steps(proc'[q].doing))
  BY <1>1, GoesIs
<1>3. Last(p) => proc'[p] = Idle
  BY <1>1, GoesIs
<1>4. ~Last(p) => /\ proc'[p] # Idle /\ proc'[p].at = proc[p].at + 1
                 /\ proc'[p].doing = proc[p].doing /\ proc'[p].home = proc[p].home
                 /\ proc'[p].e = (IF f = "e" THEN val ELSE proc[p].e)
                 /\ proc'[p].s = (IF f = "s" THEN val ELSE proc[p].s)
                 /\ proc'[p].o = (IF f = "o" THEN val ELSE proc[p].o)
                 /\ proc'[p].port = (IF f = "port" THEN val ELSE proc[p].port)
  BY <1>1, GoesIs
<1> QED  BY <1>2, <1>3, <1>4 DEF Stepped

(* What comes before a step that uses what was got.                        *)
LEMMA StepBefore ==
  ASSUME CommandsFollow, ConfigTypes, NEW p \in Proc, proc[p].doing # None,
         NEW f, NEW val, Stepped(p, f, val)
  PROVE  /\ F!At(p, "putEndpoints")' => F!At(p, "getEndpoints") /\ ~Last(p)
         /\ F!At(p, "putSupervised")' => F!At(p, "getSupervised") /\ ~Last(p)
         /\ F!At(p, "writeOwn")' => F!At(p, "choose") /\ ~Last(p)
         /\ F!At(p, "satisfy")' => F!At(p, "copy") /\ ~Last(p)
<1> SUFFICES ASSUME proc'[p].doing # None
             PROVE  /\ F!At(p, "putEndpoints")' => F!At(p, "getEndpoints") /\ ~Last(p)
                    /\ F!At(p, "putSupervised")' => F!At(p, "getSupervised") /\ ~Last(p)
                    /\ F!At(p, "writeOwn")' => F!At(p, "choose") /\ ~Last(p)
                    /\ F!At(p, "satisfy")' => F!At(p, "copy") /\ ~Last(p)
  BY DEF F!At
<1>1. ~Last(p)
  BY IdleIsNowhere DEF Stepped
<1> DEFINE d == proc[p].doing
           k == proc[p].at
<1>2. proc'[p].at = k + 1 /\ proc'[p].doing = d /\ d \in Commands /\ k \in 1..Len(F!Steps(d))
  BY <1>1, BusyIs DEF Stepped
<1>3. k \in Nat /\ k + 1 \in 1..Len(F!Steps(d))
  <2>1. Len(F!Steps(d)) \in Nat
    BY <1>2, Lengths DEF Commands
  <2> QED  BY <1>1, <1>2, <2>1 DEF Last
<1>4. LET g == F!Steps(d)[k + 1]
      IN  /\ g = "putEndpoints" => (d = "add" /\ k + 1 = 7) \/ (d = "remove" /\ k + 1 = 8)
          /\ g = "putSupervised" => (d = "add" /\ k + 1 = 9) \/ (d = "remove" /\ k + 1 = 6)
          /\ g = "writeOwn" => d = "add" /\ k + 1 = 5
          /\ g = "satisfy" => (d \in {"add", "remove"} /\ k + 1 = 14) \/ (d = "adopt" /\ k + 1 = 5)
  BY <1>2, <1>3, Where
<1>5. F!Steps(d)[k + 1] = "putEndpoints" => F!Steps(d)[k] = "getEndpoints"
  <2>1. CASE d = "add" /\ k = 6
    BY <2>1, AddSteps
  <2>2. CASE d = "remove" /\ k = 7
    BY <2>2, RemoveSteps
  <2> QED  BY <1>3, <1>4, <2>1, <2>2
<1>6. F!Steps(d)[k + 1] = "putSupervised" => F!Steps(d)[k] = "getSupervised"
  <2>1. CASE d = "add" /\ k = 8
    BY <2>1, AddSteps
  <2>2. CASE d = "remove" /\ k = 5
    BY <2>2, RemoveSteps
  <2> QED  BY <1>3, <1>4, <2>1, <2>2
<1>7. F!Steps(d)[k + 1] = "writeOwn" => F!Steps(d)[k] = "choose"
  <2>1. CASE d = "add" /\ k = 4
    BY <2>1, AddSteps
  <2> QED  BY <1>3, <1>4, <2>1
<1>8. F!Steps(d)[k + 1] = "satisfy" => F!Steps(d)[k] = "copy"
  <2>1. CASE d = "add" /\ k = 13
    BY <2>1, AddSteps
  <2>2. CASE d = "remove" /\ k = 13
    BY <2>2, RemoveSteps
  <2>3. CASE d = "adopt" /\ k = 4
    BY <2>3, AdoptSteps
  <2> QED  BY <1>3, <1>4, <2>1, <2>2, <2>3
<1> HIDE DEF d, k
<1>9. \A g : F!At(p, g)' <=> F!Steps(d)[k + 1] = g
  BY <1>2 DEF F!At, d, k
<1>10. \A g : F!At(p, g) <=> F!Steps(d)[k] = g
  BY DEF F!At, d, k
<1> QED  BY <1>1, <1>5, <1>6, <1>7, <1>8, <1>9, <1>10

(* What a step that gets something leaves for the next.                    *)
Preparing(p, f, val) ==
  /\ F!At(p, "getEndpoints") => f = "e" /\ val \in RowLists
  /\ F!At(p, "getSupervised") => f = "s" /\ val \in SUBSET Home
  /\ F!At(p, "choose") => f = "port" /\ val \in Nat
  /\ F!At(p, "copy") => f = "port" /\ F!ReadHolds(p)

LEMMA MovesTypes ==
  ASSUME CommandsFollow, ConfigTypes, NEW p \in Proc, proc[p].doing # None,
         NEW f, NEW val, F!Goes(p, f, val), Fitting(f, val), Preparing(p, f, val),
         endpoints' \in RowFile, supervised' \in ListFile, own' \in OwnFiles,
         copies' \in [endpoints : RowFile, supervised : ListFile, own : OwnFiles],
         applied' \in Applied \cup {None}, reused' \in BOOLEAN,
         UNCHANGED <<asked, edits, reverted>>
  PROVE  ConfigTypes' /\ Stepped(p, f, val)
<1>1. /\ proc' \in [Proc -> Task \cup {Idle}] /\ Stepped(p, f, val)
      /\ \A q \in Proc : proc'[q] # Idle => proc'[q].at \in 1..Len(F!Steps(proc'[q].doing))
  BY GoesTyped
<1>2. Prepared(p)'
  <2>1. F!At(p, "putEndpoints")' => proc'[p].e \in RowLists
    BY <1>1, StepBefore DEF Preparing, Stepped
  <2>2. F!At(p, "putSupervised")' => proc'[p].s \in SUBSET Home
    BY <1>1, StepBefore DEF Preparing, Stepped
  <2>3. F!At(p, "writeOwn")' => proc'[p].port \in Nat
    BY <1>1, StepBefore DEF Preparing, Stepped
  <2>4. F!At(p, "satisfy")' => F!ReadHolds(p)'
    <3>1. F!At(p, "satisfy")' => /\ proc'[p].e = proc[p].e /\ proc'[p].s = proc[p].s
                                 /\ proc'[p].o = proc[p].o /\ F!ReadHolds(p)
      BY <1>1, StepBefore DEF Preparing, Stepped
    <3> QED  BY <3>1 DEF F!ReadHolds
  <2> QED  BY <2>1, <2>2, <2>3, <2>4 DEF Prepared
<1>3. /\ edits' \in Nat /\ reverted' \in BOOLEAN /\ asked' \subseteq Home
  BY DEF ConfigTypes
<1> QED  BY <1>1, <1>2, <1>3, TypesOfAStep

LEMMA TypedParts ==
  ASSUME ConfigTypes
  PROVE  /\ endpoints \in RowFile /\ supervised \in ListFile /\ own \in OwnFiles
         /\ copies \in [endpoints : RowFile, supervised : ListFile, own : OwnFiles]
         /\ applied \in Applied \cup {None} /\ reused \in BOOLEAN /\ asked \subseteq Home
         /\ edits \in Nat /\ reverted \in BOOLEAN
BY DEF ConfigTypes

LEMMA ReadsTypes ==
  ASSUME CommandsFollow, ConfigTypes, NEW p \in Proc, F!Reads(p)
  PROVE  /\ ConfigTypes'
         /\ \/ F!At(p, "readEndpoints") /\ Stepped(p, "e", endpoints)
            \/ F!At(p, "readSupervised") /\ Stepped(p, "s", supervised)
            \/ F!At(p, "readOwn") /\ Stepped(p, "o", own)
<1>1. /\ UNCHANGED <<endpoints, supervised, own, copies, applied, asked, edits, reused, reverted>>
      /\ proc[p].doing # None
  BY DEF F!Reads, F!files, F!story, F!bounds, F!At
<1>2. /\ endpoints' \in RowFile /\ supervised' \in ListFile /\ own' \in OwnFiles
      /\ copies' \in [endpoints : RowFile, supervised : ListFile, own : OwnFiles]
      /\ applied' \in Applied \cup {None} /\ reused' \in BOOLEAN
      /\ UNCHANGED <<asked, edits, reverted>>
  BY <1>1, TypedParts
<1>3. CASE F!At(p, "readEndpoints") /\ F!Goes(p, "e", endpoints)
  <2>1. Fitting("e", endpoints) /\ Preparing(p, "e", endpoints)
    BY <1>3, TypedParts DEF Fitting, Fields, Preparing, F!At
  <2> QED  BY <1>1, <1>2, <1>3, <2>1, MovesTypes
<1>4. CASE F!At(p, "readSupervised") /\ F!Goes(p, "s", supervised)
  <2>1. Fitting("s", supervised) /\ Preparing(p, "s", supervised)
    BY <1>4, TypedParts DEF Fitting, Fields, Preparing, F!At
  <2> QED  BY <1>1, <1>2, <1>4, <2>1, MovesTypes
<1>5. CASE F!At(p, "readOwn") /\ F!Goes(p, "o", own)
  <2>1. Fitting("o", own) /\ Preparing(p, "o", own)
    BY <1>5, TypedParts DEF Fitting, Fields, Preparing, F!At
  <2> QED  BY <1>1, <1>2, <1>5, <2>1, MovesTypes
<1> QED  BY <1>3, <1>4, <1>5 DEF F!Reads

LEMMA ChooseTypes ==
  ASSUME CommandsFollow, ConfigTypes, NEW p \in Proc, F!Choose(p)
  PROVE  /\ ConfigTypes' /\ F!At(p, "choose")
         /\ \/ proc' = [proc EXCEPT ![p] = [doing |-> None]]
            \/ /\ Stepped(p, "port", F!FreePort(F!Known(p).instances))
               /\ ~\E h \in Home : /\ F!Known(p).instances[h] # None
                                   /\ F!Known(p).instances[h].dir = proc[p].home
<1> DEFINE known == F!Known(p).instances
           port == F!FreePort(known)
<1>1. /\ UNCHANGED <<endpoints, supervised, own, copies, applied, asked, edits, reverted>>
      /\ F!At(p, "choose") /\ proc[p].doing # None
      /\ reused' \in BOOLEAN
  <2>1. reused' = reused \/ reused' \in BOOLEAN
    BY DEF F!Choose
  <2> QED  BY <2>1, TypedParts DEF F!Choose, F!files, F!story, F!bounds, F!At
<1>2. /\ endpoints' \in RowFile /\ supervised' \in ListFile /\ own' \in OwnFiles
      /\ copies' \in [endpoints : RowFile, supervised : ListFile, own : OwnFiles]
      /\ applied' \in Applied \cup {None}
      /\ UNCHANGED <<asked, edits, reverted>>
  BY <1>1, TypedParts
<1>3. CASE \E h \in Home : known[h] # None /\ known[h].dir = proc[p].home
  <2>1. proc' = [proc EXCEPT ![p] = [doing |-> None]] /\ reused' = reused
    BY <1>3 DEF F!Choose, F!Ends
  <2> QED  BY <1>1, <2>1, OverTypes
<1>4. CASE ~\E h \in Home : known[h] # None /\ known[h].dir = proc[p].home
  <2>1. F!Goes(p, "port", port)
    BY <1>4 DEF F!Choose
  <2>2. port \in Nat
    BY <1>1, KnownTyped, FreePortIsFree DEF CommandsFollow
  <2>3. Fitting("port", port) /\ Preparing(p, "port", port)
    BY <1>1, <2>2 DEF Fitting, Fields, Preparing, F!At
  <2> QED  BY <1>1, <1>2, <1>4, <2>1, <2>3, MovesTypes
<1> QED  BY <1>3, <1>4

LEMMA FindTypes ==
  ASSUME CommandsFollow, ConfigTypes, NEW p \in Proc, F!Find(p)
  PROVE  /\ ConfigTypes' /\ F!At(p, "find")
         /\ \/ proc' = [proc EXCEPT ![p] = [doing |-> None]]
            \/ Stepped(p, "port", None)
<1>1. /\ UNCHANGED <<endpoints, supervised, own, copies, applied, asked, edits, reused, reverted>>
      /\ F!At(p, "find") /\ proc[p].doing # None
  BY DEF F!Find, F!files, F!story, F!bounds, F!At
<1>2. /\ endpoints' \in RowFile /\ supervised' \in ListFile /\ own' \in OwnFiles
      /\ copies' \in [endpoints : RowFile, supervised : ListFile, own : OwnFiles]
      /\ applied' \in Applied \cup {None} /\ reused' \in BOOLEAN
      /\ UNCHANGED <<asked, edits, reverted>>
  BY <1>1, TypedParts
<1>3. CASE F!Known(p).instances[proc[p].home] = None
  <2>1. proc' = [proc EXCEPT ![p] = [doing |-> None]]
    BY <1>3 DEF F!Find, F!Ends
  <2> QED  BY <1>1, <2>1, OverTypes
<1>4. CASE F!Known(p).instances[proc[p].home] # None
  <2>1. F!Goes(p, "port", None)
    BY <1>4 DEF F!Find
  <2>2. Fitting("port", None) /\ Preparing(p, "port", None)
    BY <1>1 DEF Fitting, Fields, Preparing, F!At
  <2> QED  BY <1>1, <1>2, <2>1, <2>2, MovesTypes
<1> QED  BY <1>3, <1>4

LEMMA GetsTypes ==
  ASSUME CommandsFollow, ConfigTypes, NEW p \in Proc, F!Gets(p)
  PROVE  /\ ConfigTypes'
         /\ \/ F!At(p, "getEndpoints") /\ Stepped(p, "e", F!Rows(endpoints))
            \/ F!At(p, "getSupervised") /\ Stepped(p, "s", F!Listed(supervised))
<1>1. /\ UNCHANGED <<endpoints, supervised, own, copies, applied, asked, edits, reused, reverted>>
      /\ proc[p].doing # None
  BY DEF F!Gets, F!files, F!story, F!bounds, F!At
<1>2. /\ endpoints' \in RowFile /\ supervised' \in ListFile /\ own' \in OwnFiles
      /\ copies' \in [endpoints : RowFile, supervised : ListFile, own : OwnFiles]
      /\ applied' \in Applied \cup {None} /\ reused' \in BOOLEAN
      /\ UNCHANGED <<asked, edits, reverted>>
  BY <1>1, TypedParts
<1>3. CASE F!At(p, "getEndpoints") /\ F!Goes(p, "e", F!Rows(endpoints))
  <2>1. Fitting("e", F!Rows(endpoints)) /\ Preparing(p, "e", F!Rows(endpoints))
    BY <1>3, RowsTyped DEF Fitting, Fields, Preparing, F!At
  <2> QED  BY <1>1, <1>2, <1>3, <2>1, MovesTypes
<1>4. CASE F!At(p, "getSupervised") /\ F!Goes(p, "s", F!Listed(supervised))
  <2>1. Fitting("s", F!Listed(supervised)) /\ Preparing(p, "s", F!Listed(supervised))
    BY <1>4, RowsTyped DEF Fitting, Fields, Preparing, F!At
  <2> QED  BY <1>1, <1>2, <1>4, <2>1, MovesTypes
<1> QED  BY <1>3, <1>4 DEF F!Gets

LEMMA PutEndpointsTypes ==
  ASSUME CommandsFollow, ConfigTypes, NEW p \in Proc, F!PutEndpoints(p)
  PROVE  /\ ConfigTypes' /\ F!At(p, "putEndpoints") /\ Stepped(p, "e", None)
         /\ proc[p].e \in RowLists /\ proc[p].home \in Home
         /\ endpoints' = [proc[p].e EXCEPT ![proc[p].home] = proc[p].port]
         /\ endpoints' \in RowLists
<1>1. /\ UNCHANGED <<supervised, own, copies, applied, asked, edits, reused, reverted>>
      /\ proc[p].doing # None /\ F!At(p, "putEndpoints") /\ F!Goes(p, "e", None)
      /\ endpoints' = [proc[p].e EXCEPT ![proc[p].home] = proc[p].port]
  BY DEF F!PutEndpoints, F!story, F!bounds, F!At
<1>2. proc[p].e \in RowLists /\ proc[p].home \in Home /\ proc[p].port \in Nat \cup {None}
  BY <1>1, BusyIs DEF ConfigTypes, Prepared
<1>3. endpoints' \in RowLists
  BY <1>1, <1>2 DEF RowLists
<1>4. /\ endpoints' \in RowFile /\ supervised' \in ListFile /\ own' \in OwnFiles
      /\ copies' \in [endpoints : RowFile, supervised : ListFile, own : OwnFiles]
      /\ applied' \in Applied \cup {None} /\ reused' \in BOOLEAN
      /\ UNCHANGED <<asked, edits, reverted>>
  BY <1>1, <1>3, TypedParts DEF RowFile
<1>5. Fitting("e", None) /\ Preparing(p, "e", None)
  BY <1>1 DEF Fitting, Fields, Preparing, F!At, RowFile
<1> QED  BY <1>1, <1>2, <1>3, <1>4, <1>5, MovesTypes

LEMMA PutSupervisedTypes ==
  ASSUME CommandsFollow, ConfigTypes, NEW p \in Proc, F!PutSupervised(p)
  PROVE  /\ ConfigTypes' /\ F!At(p, "putSupervised") /\ Stepped(p, "s", None)
         /\ proc[p].s \in SUBSET Home /\ proc[p].home \in Home
         /\ supervised' = IF proc[p].doing = "add" THEN proc[p].s \cup {proc[p].home}
                          ELSE proc[p].s \ {proc[p].home}
         /\ supervised' \in SUBSET Home
<1>1. /\ UNCHANGED <<endpoints, own, copies, applied, asked, edits, reused, reverted>>
      /\ proc[p].doing # None /\ F!At(p, "putSupervised") /\ F!Goes(p, "s", None)
      /\ supervised' = IF proc[p].doing = "add" THEN proc[p].s \cup {proc[p].home}
                          ELSE proc[p].s \ {proc[p].home}
  BY DEF F!PutSupervised, F!story, F!bounds, F!At
<1>2. proc[p].s \in SUBSET Home /\ proc[p].home \in Home
  BY <1>1, BusyIs DEF ConfigTypes, Prepared
<1>3. supervised' \in SUBSET Home
  BY <1>1, <1>2
<1>4. /\ endpoints' \in RowFile /\ supervised' \in ListFile /\ own' \in OwnFiles
      /\ copies' \in [endpoints : RowFile, supervised : ListFile, own : OwnFiles]
      /\ applied' \in Applied \cup {None} /\ reused' \in BOOLEAN
      /\ UNCHANGED <<asked, edits, reverted>>
  BY <1>1, <1>3, TypedParts DEF ListFile
<1>5. Fitting("s", None) /\ Preparing(p, "s", None)
  BY <1>1 DEF Fitting, Fields, Preparing, F!At, ListFile
<1> QED  BY <1>1, <1>2, <1>3, <1>4, <1>5, MovesTypes

LEMMA PutOwnTypes ==
  ASSUME CommandsFollow, ConfigTypes, NEW p \in Proc, F!PutOwn(p)
  PROVE  /\ ConfigTypes' /\ proc[p].home \in Home
         /\ \/ /\ F!At(p, "writeOwn") /\ Stepped(p, "port", proc[p].port)
               /\ proc[p].port \in Nat
               /\ own' = [own EXCEPT ![proc[p].home] =
                            [dir |-> proc[p].home, port |-> proc[p].port]]
            \/ /\ F!At(p, "dropOwn") /\ Stepped(p, "port", None)
               /\ own' = [own EXCEPT ![proc[p].home] = None]
<1>1. /\ UNCHANGED <<endpoints, supervised, copies, applied, asked, edits, reused, reverted>>
      /\ proc[p].doing # None
  BY DEF F!PutOwn, F!story, F!bounds, F!At
<1>2. proc[p].home \in Home /\ proc[p].port \in Nat \cup {None}
  BY <1>1, BusyIs
<1>3. /\ endpoints' \in RowFile /\ supervised' \in ListFile
      /\ copies' \in [endpoints : RowFile, supervised : ListFile, own : OwnFiles]
      /\ applied' \in Applied \cup {None} /\ reused' \in BOOLEAN
      /\ UNCHANGED <<asked, edits, reverted>>
  BY <1>1, TypedParts
<1>4. CASE /\ F!At(p, "writeOwn")
           /\ own' = [own EXCEPT ![proc[p].home] = [dir |-> proc[p].home, port |-> proc[p].port]]
           /\ F!Goes(p, "port", proc[p].port)
  <2>1. proc[p].port \in Nat
    BY <1>4 DEF ConfigTypes, Prepared
  <2>2. [dir |-> proc[p].home, port |-> proc[p].port] \in OwnFile
    BY <1>2, <2>1 DEF OwnFile
  <2>3. own' \in OwnFiles
    BY <1>4, <2>2, TypedParts DEF OwnFiles
  <2>4. Fitting("port", proc[p].port) /\ Preparing(p, "port", proc[p].port)
    BY <1>2, <1>4 DEF Fitting, Fields, Preparing, F!At
  <2> QED  BY <1>1, <1>2, <1>3, <1>4, <2>1, <2>3, <2>4, MovesTypes
<1>5. CASE /\ F!At(p, "dropOwn")
           /\ own' = [own EXCEPT ![proc[p].home] = None]
           /\ F!Goes(p, "port", None)
  <2>1. own' \in OwnFiles
    BY <1>5, TypedParts DEF OwnFiles
  <2>2. Fitting("port", None) /\ Preparing(p, "port", None)
    BY <1>5 DEF Fitting, Fields, Preparing, F!At
  <2> QED  BY <1>1, <1>2, <1>3, <1>5, <2>1, <2>2, MovesTypes
<1> QED  BY <1>4, <1>5 DEF F!PutOwn

LEMMA CopiedTyped ==
  ASSUME CommandsFollow, ConfigTypes
  PROVE  /\ F!Copied(endpoints, copies.endpoints) \in RowFile
         /\ F!Copied(supervised, copies.supervised) \in ListFile
         /\ \A h \in Home : /\ copies.own[h] \in OwnFile \cup {None, Broken}
                            /\ F!Copied(own[h], copies.own[h]) \in OwnFile \cup {None, Broken}
<1>1. copies.endpoints \in RowFile /\ copies.supervised \in ListFile /\ copies.own \in OwnFiles
      /\ own \in OwnFiles
  BY TypedParts
<1> QED  BY <1>1, TypedParts DEF F!Copied, OwnFiles

LEMMA CopiesTypes ==
  ASSUME CommandsFollow, ConfigTypes, NEW p \in Proc, F!Copies(p)
  PROVE  /\ ConfigTypes' /\ F!At(p, "copy")
         /\ \/ /\ F!ReadHolds(p) /\ Stepped(p, "port", None)
               /\ copies'.supervised = F!Copied(supervised, copies.supervised)
            \/ /\ proc' = [proc EXCEPT ![p] = [doing |-> None]] /\ UNCHANGED copies
<1>1. /\ UNCHANGED <<endpoints, supervised, own, applied, asked, edits, reused, reverted>>
      /\ proc[p].doing # None /\ F!At(p, "copy")
  BY DEF F!Copies, F!files, F!story, F!bounds, F!At
<1>2. CASE F!ReadHolds(p)
  <2> DEFINE fresh == [h \in Home |->
                         IF F!Satisfied(proc[p].e, proc[p].s, proc[p].o).instances[h] = None
                         THEN copies.own[h] ELSE F!Copied(own[h], copies.own[h])]
  <2>1. /\ copies' = [endpoints |-> F!Copied(endpoints, copies.endpoints),
                      supervised |-> F!Copied(supervised, copies.supervised), own |-> fresh]
        /\ F!Goes(p, "port", None)
    BY <1>2 DEF F!Copies
  <2>2. fresh \in OwnFiles
    BY CopiedTyped DEF OwnFiles
  <2> HIDE DEF fresh
  <2>3. copies' \in [endpoints : RowFile, supervised : ListFile, own : OwnFiles]
        /\ copies'.supervised = F!Copied(supervised, copies.supervised)
    BY <2>1, <2>2, CopiedTyped
  <2>4. Fitting("port", None) /\ Preparing(p, "port", None)
    BY <1>1, <1>2 DEF Fitting, Fields, Preparing, F!At
  <2> QED  BY <1>1, <1>2, <2>1, <2>3, <2>4, TypedParts, MovesTypes
<1>3. CASE ~F!ReadHolds(p)
  <2>1. proc' = [proc EXCEPT ![p] = [doing |-> None]] /\ copies' = copies
    BY <1>3 DEF F!Copies, F!Ends
  <2> QED  BY <1>1, <2>1, OverTypes
<1> QED  BY <1>2, <1>3

LEMMA SatisfiesTypes ==
  ASSUME CommandsFollow, ConfigTypes, NEW p \in Proc, F!Satisfies(p)
  PROVE  /\ ConfigTypes' /\ F!At(p, "satisfy") /\ Stepped(p, "port", None)
         /\ F!ReadHolds(p)
<1>1. /\ UNCHANGED <<endpoints, supervised, own, copies, asked, edits, reused, reverted>>
      /\ proc[p].doing # None /\ F!At(p, "satisfy") /\ F!Goes(p, "port", None)
      /\ applied' = F!Satisfied(proc[p].e, proc[p].s, proc[p].o)
  BY DEF F!Satisfies, F!files, F!story, F!bounds, F!At
<1>2. F!ReadHolds(p)
  BY <1>1 DEF ConfigTypes, Prepared
<1>3. applied' \in Applied
  BY <1>1, <1>2, BusyIs, SatisfiedTyped DEF F!ReadHolds
<1>4. Fitting("port", None) /\ Preparing(p, "port", None)
  BY <1>1 DEF Fitting, Fields, Preparing, F!At
<1>5. /\ endpoints' \in RowFile /\ supervised' \in ListFile /\ own' \in OwnFiles
      /\ copies' \in [endpoints : RowFile, supervised : ListFile, own : OwnFiles]
      /\ applied' \in Applied \cup {None} /\ reused' \in BOOLEAN
      /\ UNCHANGED <<asked, edits, reverted>>
  BY <1>1, <1>3, TypedParts
<1> QED  BY <1>1, <1>2, <1>4, <1>5, MovesTypes

LEMMA RestoresTypes ==
  ASSUME CommandsFollow, ConfigTypes, NEW p \in Proc, F!Restores(p)
  PROVE  /\ ConfigTypes' /\ Stepped(p, "port", None)
         /\ \/ F!At(p, "restoreEndpoints") \/ F!At(p, "restoreSupervised") \/ F!At(p, "restoreOwn")
         /\ endpoints' = endpoints \/ (endpoints' = copies.endpoints /\ copies.endpoints # None)
         /\ supervised' = supervised \/ (supervised' = copies.supervised /\ copies.supervised # None)
<1>1. /\ UNCHANGED <<copies, applied, asked, edits, reused, reverted>>
      /\ proc[p].doing # None /\ F!Goes(p, "port", None)
      /\ \/ F!At(p, "restoreEndpoints") \/ F!At(p, "restoreSupervised") \/ F!At(p, "restoreOwn")
  BY DEF F!Restores, F!story, F!bounds, F!At
<1>2. endpoints' = endpoints \/ (endpoints' = copies.endpoints /\ copies.endpoints # None)
  BY DEF F!Restores
<1>3. supervised' = supervised \/ (supervised' = copies.supervised /\ copies.supervised # None)
  BY DEF F!Restores
<1>4. own' \in OwnFiles
  <2>1. CASE own' = own
    BY <2>1, TypedParts
  <2>2. CASE own' = [h \in Home |-> IF proc[p].o[h] = None \/ copies.own[h] = None
                                    THEN own[h] ELSE copies.own[h]]
    <3>1. \A h \in Home : copies.own[h] \in OwnFile \cup {None, Broken} /\ own[h] \in OwnFile \cup {None, Broken}
      BY CopiedTyped, TypedParts DEF OwnFiles
    <3> QED  BY <2>2, <3>1 DEF OwnFiles
  <2> QED  BY <2>1, <2>2 DEF F!Restores
<1>5. /\ endpoints' \in RowFile /\ supervised' \in ListFile /\ own' \in OwnFiles
      /\ copies' \in [endpoints : RowFile, supervised : ListFile, own : OwnFiles]
      /\ applied' \in Applied \cup {None} /\ reused' \in BOOLEAN
      /\ UNCHANGED <<asked, edits, reverted>>
  BY <1>1, <1>2, <1>3, <1>4, TypedParts
<1>6. Fitting("port", None) /\ Preparing(p, "port", None)
  BY <1>1 DEF Fitting, Fields, Preparing, F!At
<1> QED  BY <1>1, <1>2, <1>3, <1>5, <1>6, MovesTypes

LEMMA TypoTypes ==
  ASSUME CommandsFollow, ConfigTypes, NEW f \in Mistyped, NEW h \in Home, F!Typo(f, h)
  PROVE  ConfigTypes'
<1>1. /\ UNCHANGED <<proc, copies, applied, asked, reused, reverted>> /\ edits' \in Nat
      /\ endpoints' \in RowFile /\ supervised' \in ListFile
  BY TypedParts DEF F!Typo, F!story, RowFile, ListFile
<1>2. own' \in OwnFiles
  BY TypedParts DEF F!Typo, OwnFiles
<1>3. \A p \in Proc : Prepared(p)'
  <2>1. \A p \in Proc : Prepared(p)
    BY DEF ConfigTypes
  <2> QED  BY <1>1, <2>1 DEF Prepared, F!At, F!ReadHolds
<1>4. /\ proc' \in [Proc -> Task \cup {Idle}] /\ copies' = copies /\ applied' = applied
      /\ asked' = asked /\ reused' = reused /\ reverted' = reverted
      /\ \A p \in Proc : proc'[p] # Idle => proc'[p].at \in 1..Len(F!Steps(proc'[p].doing))
  BY <1>1 DEF ConfigTypes
<1> QED  BY <1>1, <1>2, <1>3, <1>4, TypedParts DEF ConfigTypes

(* Where a command is that is about to take a step.                        *)
LEMMA Located ==
  ASSUME CommandsFollow, ConfigTypes, NEW p \in Proc, NEW step, F!At(p, step)
  PROVE  LET d == proc[p].doing
             k == proc[p].at
             two == d \in {"add", "remove"}
         IN  /\ d # None /\ d \in Commands /\ k \in Nat /\ proc[p].home \in Home
             /\ step = "choose" => d = "add" /\ k = 4
             /\ step = "writeOwn" => d = "add" /\ k = 5
             /\ step = "find" => d = "remove" /\ k = 4
             /\ step = "getEndpoints" => (d = "add" /\ k = 6) \/ (d = "remove" /\ k = 7)
             /\ step = "putEndpoints" => (d = "add" /\ k = 7) \/ (d = "remove" /\ k = 8)
             /\ step = "getSupervised" => (d = "add" /\ k = 8) \/ (d = "remove" /\ k = 5)
             /\ step = "putSupervised" => (d = "add" /\ k = 9) \/ (d = "remove" /\ k = 6)
             /\ step = "dropOwn" => d = "remove" /\ k = 9
             /\ step = "copy" => (two /\ k = 13) \/ (d = "adopt" /\ k = 4)
             /\ step = "satisfy" => (two /\ k = 14) \/ (d = "adopt" /\ k = 5)
             /\ step = "readEndpoints" => (two /\ k \in {1, 10}) \/ (d = "adopt" /\ k = 1)
             /\ step = "readSupervised" => (two /\ k \in {2, 11}) \/ (d = "adopt" /\ k = 2)
             /\ step = "readOwn" => (two /\ k \in {3, 12}) \/ (d = "adopt" /\ k = 3)
             /\ step \in {"restoreEndpoints", "restoreSupervised", "restoreOwn"} => d = "revert"
<1>1. /\ proc[p].doing # None /\ proc[p].doing \in Commands /\ proc[p].at \in Nat
      /\ proc[p].home \in Home /\ proc[p].at \in 1..Len(F!Steps(proc[p].doing))
      /\ F!Steps(proc[p].doing)[proc[p].at] = step
  BY StandsAt, BusyIs
<1> QED  BY <1>1, Where

LEMMA BeforeTheLast ==
  ASSUME NEW p \in Proc, proc[p].doing \in {"add", "remove"}, proc[p].at \in Nat, proc[p].at < 14
  PROVE  ~Last(p)
<1>1. CASE proc[p].doing = "add"
  <2>1. Len(F!Steps(proc[p].doing)) = 14
    BY <1>1, Lengths
  <2> QED  BY <2>1 DEF Last
<1>2. CASE proc[p].doing = "remove"
  <2>1. Len(F!Steps(proc[p].doing)) = 14
    BY <1>2, Lengths
  <2> QED  BY <2>1 DEF Last
<1> QED  BY <1>1, <1>2

-----------------------------------------------------------------------------
(* The files as a command leaves them.                                     *)
LEMMA FilesAreHeld ==
  ASSUME CommandsFollow, ConfigTypes, FilesFit
  PROVE  F!Holds(endpoints, supervised, own)
<1>1. /\ endpoints # Broken /\ supervised # Broken
      /\ \A h \in Home : own[h] # Broken
      /\ \A h \in Home : own[h] # None => own[h].dir = h
      /\ \A g, h \in Home : g # h /\ F!Rows(endpoints)[g] # None => F!Rows(endpoints)[g] # F!Rows(endpoints)[h]
      /\ \A h \in F!Listed(supervised) : /\ F!Rows(endpoints)[h] # None /\ own[h] # None
                                         /\ own[h].port = F!Rows(endpoints)[h]
  BY DEF FilesFit
<1>2. endpoints # None => F!Rows(endpoints) = endpoints
  BY <1>1 DEF F!Rows
<1>3. supervised # None => F!Listed(supervised) = supervised /\ supervised \subseteq Home
  BY <1>1, TypedParts DEF F!Listed, ListFile
<1>4. endpoints # None => F!Distinct(endpoints, {h \in Home : endpoints[h] # None})
  BY <1>1, <1>2 DEF F!Distinct
<1>5. endpoints # None /\ supervised # None => F!InstancesHold(endpoints, supervised, own)
  <2> SUFFICES ASSUME endpoints # None, supervised # None
               PROVE  F!InstancesHold(endpoints, supervised, own)
    OBVIOUS
  <2>1. \A h \in supervised : endpoints[h] # None /\ F!Readable(own[h])
    BY <1>1, <1>2, <1>3 DEF F!Readable
  <2>2. F!Distinct([h \in supervised |-> own[h].dir], supervised)
    BY <1>1, <1>3 DEF F!Distinct
  <2>3. F!Distinct([h \in supervised |-> own[h].port], supervised)
    BY <1>1, <1>2, <1>3 DEF F!Distinct
  <2> QED  BY <2>1, <2>2, <2>3 DEF F!InstancesHold
<1> QED  BY <1>1, <1>4, <1>5 DEF F!Holds

LEMMA FitsOfAStep ==
  ASSUME CommandsFollow, NEW p \in Proc,
         Clean' => FilesFit' /\ HasRead(p)' /\ AddFits(p)' /\ RemoveFits(p)'
  PROVE  ConfigFits'
BY OnlyOne DEF ConfigFits, Clean

LEMMA FitsNow ==
  ASSUME ConfigFits, Clean, NEW p \in Proc
  PROVE  FilesFit /\ HasRead(p) /\ AddFits(p) /\ RemoveFits(p)
BY DEF ConfigFits, Clean

(* A command that is over, or has just begun, has nothing to be right      *)
(* about but the files.                                                    *)
LEMMA NowhereFits ==
  ASSUME CommandsFollow, NEW p \in Proc,
         \/ proc'[p].doing = None
         \/ proc'[p].at = 1 /\ proc'[p].port = None
  PROVE  HasRead(p)' /\ AddFits(p)' /\ RemoveFits(p)'
BY DEF HasRead, AddFits, RemoveFits, Within, CommandsFollow, Commands

LEMMA FilesUnchanged ==
  ASSUME FilesFit, UNCHANGED <<endpoints, supervised, own>>
  PROVE  FilesFit'
BY DEF FilesFit, F!Rows, F!Listed, F!NoRows

LEMMA BeginFits ==
  ASSUME CommandsFollow, ConfigTypes, ConfigFits, NEW p \in Proc, NEW d \in Doing, NEW h \in Home,
         F!Begin(p, d, h)
  PROVE  ConfigFits'
<1>1. UNCHANGED <<endpoints, supervised, own, edits, reused>> /\ (reverted => reverted')
  BY DEF F!Begin, F!files
<1>2. Clean' => FilesFit'
  BY <1>1, FitsNow, FilesUnchanged DEF Clean
<1>3. HasRead(p)' /\ AddFits(p)' /\ RemoveFits(p)'
  BY BeginIs, NowhereFits
<1> QED  BY <1>2, <1>3, FitsOfAStep

LEMMA OverFits ==
  ASSUME CommandsFollow, ConfigTypes, ConfigFits, NEW p \in Proc, proc' = [proc EXCEPT ![p] = [doing |-> None]],
         UNCHANGED <<endpoints, supervised, own, edits, reused, reverted>>
  PROVE  ConfigFits'
<1>1. Clean' => FilesFit'
  BY FitsNow, FilesUnchanged DEF Clean
<1>2. HasRead(p)' /\ AddFits(p)' /\ RemoveFits(p)'
  BY OverIs, IdleIsNowhere, NowhereFits
<1> QED  BY <1>1, <1>2, FitsOfAStep

(* A step that writes no file of the three.                                *)
LEMMA ReadsFits ==
  ASSUME CommandsFollow, ConfigTypes, ConfigFits, NEW p \in Proc, F!Reads(p)
  PROVE  ConfigFits'
<1>1. UNCHANGED <<endpoints, supervised, own, edits, reused, reverted>>
  BY DEF F!Reads, F!files, F!story, F!bounds
<1> SUFFICES ASSUME Clean' PROVE FilesFit' /\ HasRead(p)' /\ AddFits(p)' /\ RemoveFits(p)'
  BY FitsOfAStep
<1>2. FilesFit /\ HasRead(p) /\ AddFits(p) /\ RemoveFits(p)
  BY <1>1, FitsNow DEF Clean
<1>3. FilesFit'
  BY <1>1, <1>2, FilesUnchanged
<1>4. CASE Last(p)
  <2>1. proc'[p].doing = None
    BY <1>4, ReadsTypes, IdleIsNowhere DEF Stepped
  <2> QED  BY <1>3, <2>1, NowhereFits
<1>5. CASE ~Last(p)
  <2> DEFINE d == proc[p].doing
             k == proc[p].at
  <2>1. /\ proc'[p].doing = d /\ proc'[p].at = k + 1 /\ proc'[p].port = proc[p].port
        /\ d # None /\ d \in Commands /\ k \in Nat
    BY <1>5, ReadsTypes, Located DEF Stepped
  <2>2. CASE F!At(p, "readEndpoints") /\ Stepped(p, "e", endpoints)
    <3>1. k = 1 \/ k = 10
      BY <2>2, Located
    <3>2. proc'[p].e = endpoints
      BY <1>5, <2>2 DEF Stepped
    <3>3. HasRead(p)'
      BY <1>1, <2>1, <3>1, <3>2 DEF HasRead, Within
    <3>4. AddFits(p)'
      BY <2>1, <3>1 DEF AddFits, Within
    <3>5. RemoveFits(p)'
      BY <1>2, <2>1, <3>1 DEF RemoveFits, Within
    <3> QED  BY <1>3, <3>3, <3>4, <3>5
  <2>3. CASE F!At(p, "readSupervised") /\ Stepped(p, "s", supervised)
    <3>1. (k = 2 \/ k = 11) \/ (d = "adopt" /\ k = 2)
      BY <2>3, Located
    <3>2. proc'[p].s = supervised /\ proc'[p].e = proc[p].e
      BY <1>5, <2>3 DEF Stepped
    <3>3. HasRead(p)'
      BY <1>1, <1>2, <2>1, <3>1, <3>2 DEF HasRead, Within
    <3>4. AddFits(p)'
      BY <2>1, <3>1 DEF AddFits, Within
    <3>5. RemoveFits(p)'
      BY <1>2, <2>1, <3>1 DEF RemoveFits, Within
    <3> QED  BY <1>3, <3>3, <3>4, <3>5
  <2>4. CASE F!At(p, "readOwn") /\ Stepped(p, "o", own)
    <3>1. k = 3 \/ k = 12
      BY <2>4, Located
    <3>2. proc'[p].o = own /\ proc'[p].e = proc[p].e /\ proc'[p].s = proc[p].s
      BY <1>5, <2>4 DEF Stepped
    <3>3. HasRead(p)'
      BY <1>1, <1>2, <2>1, <3>1, <3>2 DEF HasRead, Within
    <3>4. AddFits(p)'
      BY <2>1, <3>1 DEF AddFits, Within
    <3>5. RemoveFits(p)'
      BY <1>2, <2>1, <3>1 DEF RemoveFits, Within
    <3> QED  BY <1>3, <3>3, <3>4, <3>5
  <2> QED  BY <2>2, <2>3, <2>4, ReadsTypes
<1> QED  BY <1>4, <1>5

(* What an add is to choose a port of: the files it has read.              *)
LEMMA ChooseFits ==
  ASSUME CommandsFollow, ConfigTypes, ConfigFits, NEW p \in Proc, F!Choose(p)
  PROVE  ConfigFits'
<1> DEFINE known == F!Known(p).instances
           port == F!FreePort(known)
           me == proc[p].home
           r == F!Rows(endpoints)
           l == F!Listed(supervised)
<1>1. UNCHANGED <<endpoints, supervised, own, edits, reverted>> /\ F!At(p, "choose")
  BY DEF F!Choose, F!files, F!story, F!bounds
<1>2. CASE proc' = [proc EXCEPT ![p] = [doing |-> None]]
  <2>1. reused \in BOOLEAN /\ (~reused' => ~reused)
    BY TypedParts DEF F!Choose
  <2>2. Clean' => FilesFit'
    BY <1>1, <2>1, FitsNow, FilesUnchanged DEF Clean
  <2>3. HasRead(p)' /\ AddFits(p)' /\ RemoveFits(p)'
    BY <1>2, OverIs, IdleIsNowhere, NowhereFits
  <2> QED  BY <2>2, <2>3, FitsOfAStep
<1>3. CASE /\ Stepped(p, "port", port)
           /\ ~\E h \in Home : known[h] # None /\ known[h].dir = me
           /\ ~proc' = [proc EXCEPT ![p] = [doing |-> None]]
  <2> SUFFICES ASSUME Clean' PROVE FilesFit' /\ HasRead(p)' /\ AddFits(p)' /\ RemoveFits(p)'
    BY FitsOfAStep
  <2>1. ~reused' /\ reused' = (reused \/ (/\ F!Readable(endpoints)
                                         /\ \E h \in Home \ {me} : endpoints[h] = port /\ known[h] = None))
    BY <1>3 DEF F!Choose, F!Ends, Clean
  <2>2. Clean
    BY <1>1, <2>1, TypedParts DEF Clean
  <2>3. FilesFit /\ HasRead(p)
    BY <2>2, FitsNow
  <2>4. FilesFit'
    BY <1>1, <2>3, FilesUnchanged
  <2>5. proc[p].doing = "add" /\ proc[p].at = 4 /\ me \in Home
    BY <1>1, Located
  <2>6. ~Last(p)
    BY <2>5, BeforeTheLast
  <2>7. proc'[p].doing = "add" /\ proc'[p].at = 5 /\ proc'[p].home = me /\ proc'[p].port = port
    BY <1>3, <2>5, <2>6 DEF Stepped
  <2>8. proc[p].e = endpoints /\ proc[p].s = supervised /\ proc[p].o = own
    BY <2>3, <2>5 DEF HasRead, Within
  <2>9. known = F!Satisfied(endpoints, supervised, own).instances
    BY <2>3, <2>8, FilesAreHeld DEF F!Known, F!ReadHolds
  <2>10. known \in [Home -> OwnFile \cup {None}]
    BY <2>5, KnownTyped DEF CommandsFollow, Commands
  <2>11. port \in Nat /\ \A h \in Home : known[h] # None => known[h].port # port
    BY <2>10, FreePortIsFree DEF CommandsFollow
  <2>12. /\ \A h \in l : r[h] # None /\ own[h] # None /\ own[h].port = r[h] /\ own[h].dir = h
         /\ endpoints # Broken /\ supervised # Broken /\ l \subseteq Home
    BY <2>3, RowsTyped DEF FilesFit
  <2>13. endpoints # None /\ supervised # None =>
           r = endpoints /\ l = supervised /\ \A h \in Home : known[h] = IF h \in l THEN own[h] ELSE None
    BY <2>9, <2>12 DEF F!Rows, F!Listed, F!Satisfied
  <2>14. endpoints = None => \A h \in Home : r[h] = None
    BY DEF F!Rows, F!NoRows
  <2>15. supervised = None => l = {}
    BY DEF F!Listed
  <2>16. me \notin l
    <3> SUFFICES ASSUME me \in l PROVE FALSE
      OBVIOUS
    <3>1. endpoints # None /\ supervised # None
      BY <2>5, <2>12, <2>14, <2>15
    <3>2. known[me] = own[me] /\ own[me] # None /\ own[me].dir = me
      BY <2>5, <2>12, <2>13, <3>1
    <3> QED  BY <1>3, <2>5, <3>2
  <2>17. \A h \in Home \ {me} : r[h] # port
    <3> SUFFICES ASSUME NEW h \in Home \ {me}, r[h] = port PROVE FALSE
      OBVIOUS
    <3>1. endpoints # None /\ r = endpoints
      BY <2>11, <2>12, <2>14 DEF CommandsFollow, F!Rows
    <3>2. F!Readable(endpoints)
      BY <2>12, <3>1 DEF F!Readable
    <3>3. known[h] # None
      BY <2>1, <3>1, <3>2
    <3>4. supervised # None
      BY <2>9, <3>3 DEF F!Satisfied, F!Empty, F!NoFiles
    <3>5. h \in l /\ known[h] = own[h]
      BY <2>13, <3>1, <3>3, <3>4
    <3> QED  BY <2>11, <2>12, <3>3, <3>5
  <2>18. HasRead(p)' /\ RemoveFits(p)'
    BY <2>7 DEF HasRead, RemoveFits, Within
  <2>19. r' = r /\ l' = l
    BY <1>1 DEF F!Rows, F!Listed, F!NoRows
  <2>20. AddFits(p)'
    BY <2>7, <2>11, <2>16, <2>17, <2>19 DEF AddFits, Within
  <2> QED  BY <2>4, <2>18, <2>20
<1> QED  BY <1>2, <1>3, ChooseTypes

LEMMA FindFits ==
  ASSUME CommandsFollow, ConfigTypes, ConfigFits, NEW p \in Proc, F!Find(p)
  PROVE  ConfigFits'
<1>1. /\ UNCHANGED <<endpoints, supervised, own, edits, reused, reverted>>
      /\ F!At(p, "find")
  BY DEF F!Find, F!files, F!story, F!bounds
<1>2. CASE proc' = [proc EXCEPT ![p] = [doing |-> None]]
  BY <1>1, <1>2, OverFits
<1>3. CASE Stepped(p, "port", None)
  <2>1. Clean' => FilesFit'
    BY <1>1, FitsNow, FilesUnchanged DEF Clean
  <2>2. proc[p].doing = "remove" /\ proc[p].at = 4
    BY <1>1, Located
  <2>3. proc'[p].doing = "remove" /\ proc'[p].at = 5 /\ proc'[p].port = None
    BY <1>3, <2>2, BeforeTheLast DEF Stepped
  <2>4. HasRead(p)' /\ AddFits(p)' /\ RemoveFits(p)'
    BY <2>3 DEF HasRead, AddFits, RemoveFits, Within
  <2> QED  BY <2>1, <2>4, FitsOfAStep
<1> QED  BY <1>2, <1>3, FindTypes

LEMMA GetsFits ==
  ASSUME CommandsFollow, ConfigTypes, ConfigFits, NEW p \in Proc, F!Gets(p)
  PROVE  ConfigFits'
<1>1. UNCHANGED <<endpoints, supervised, own, edits, reused, reverted>>
  BY DEF F!Gets, F!files, F!story, F!bounds
<1> SUFFICES ASSUME Clean' PROVE FilesFit' /\ HasRead(p)' /\ AddFits(p)' /\ RemoveFits(p)'
  BY FitsOfAStep
<1>2. FilesFit /\ AddFits(p) /\ RemoveFits(p)
  BY <1>1, FitsNow DEF Clean
<1>3. FilesFit'
  BY <1>1, <1>2, FilesUnchanged
<1>4. F!Rows(endpoints)' = F!Rows(endpoints) /\ F!Listed(supervised)' = F!Listed(supervised)
  BY <1>1 DEF F!Rows, F!Listed, F!NoRows
<1>5. CASE F!At(p, "getEndpoints") /\ Stepped(p, "e", F!Rows(endpoints))
  <2>1. (proc[p].doing = "add" /\ proc[p].at = 6) \/ (proc[p].doing = "remove" /\ proc[p].at = 7)
    BY <1>5, Located
  <2>2. /\ proc'[p].doing = proc[p].doing /\ proc'[p].at = proc[p].at + 1
        /\ proc'[p].e = F!Rows(endpoints) /\ proc'[p].home = proc[p].home
        /\ proc'[p].port = proc[p].port
    BY <1>5, <2>1, BeforeTheLast DEF Stepped
  <2>3. CASE proc[p].doing = "add" /\ proc[p].at = 6
    BY <1>1, <1>2, <1>3, <1>4, <2>2, <2>3 DEF HasRead, AddFits, RemoveFits, Within
  <2>4. CASE proc[p].doing = "remove" /\ proc[p].at = 7
    BY <1>2, <1>3, <1>4, <2>2, <2>4 DEF HasRead, AddFits, RemoveFits, Within
  <2> QED  BY <2>1, <2>3, <2>4
<1>6. CASE F!At(p, "getSupervised") /\ Stepped(p, "s", F!Listed(supervised))
  <2>1. (proc[p].doing = "add" /\ proc[p].at = 8) \/ (proc[p].doing = "remove" /\ proc[p].at = 5)
    BY <1>6, Located
  <2>2. /\ proc'[p].doing = proc[p].doing /\ proc'[p].at = proc[p].at + 1
        /\ proc'[p].s = F!Listed(supervised) /\ proc'[p].home = proc[p].home
        /\ proc'[p].port = proc[p].port
    BY <1>6, <2>1, BeforeTheLast DEF Stepped
  <2>3. CASE proc[p].doing = "add" /\ proc[p].at = 8
    BY <1>1, <1>2, <1>3, <1>4, <2>2, <2>3 DEF HasRead, AddFits, RemoveFits, Within
  <2>4. CASE proc[p].doing = "remove" /\ proc[p].at = 5
    BY <1>2, <1>3, <1>4, <2>2, <2>4 DEF HasRead, AddFits, RemoveFits, Within
  <2> QED  BY <2>1, <2>3, <2>4
<1> QED  BY <1>5, <1>6, GetsTypes

LEMMA PutEndpointsFits ==
  ASSUME CommandsFollow, ConfigTypes, ConfigFits, NEW p \in Proc, F!PutEndpoints(p)
  PROVE  ConfigFits'
<1> DEFINE me == proc[p].home
           r == F!Rows(endpoints)
           l == F!Listed(supervised)
<1>1. UNCHANGED <<supervised, own, edits, reused, reverted>>
  BY DEF F!PutEndpoints, F!story, F!bounds
<1> SUFFICES ASSUME Clean' PROVE FilesFit' /\ HasRead(p)' /\ AddFits(p)' /\ RemoveFits(p)'
  BY FitsOfAStep
<1>2. FilesFit /\ AddFits(p) /\ RemoveFits(p)
  BY <1>1, FitsNow DEF Clean
<1>3. /\ Stepped(p, "e", None) /\ me \in Home /\ endpoints' \in RowLists
      /\ endpoints' = [proc[p].e EXCEPT ![me] = proc[p].port]
      /\ (proc[p].doing = "add" /\ proc[p].at = 7) \/ (proc[p].doing = "remove" /\ proc[p].at = 8)
  BY PutEndpointsTypes, Located
<1>4. F!Rows(endpoints)' = endpoints' /\ l' = l /\ endpoints' # Broken
  BY <1>1, <1>3 DEF F!Rows, F!Listed, CommandsFollow
<1>5. /\ proc'[p].doing = proc[p].doing /\ proc'[p].at = proc[p].at + 1
      /\ proc'[p].home = me /\ proc'[p].port = proc[p].port
  BY <1>3, BeforeTheLast DEF Stepped
<1>6. r \in RowLists /\ l \subseteq Home
  BY RowsTyped
<1>7. proc[p].e = r /\ me \notin l
  BY <1>2, <1>3 DEF AddFits, RemoveFits, Within
<1>8. \A h \in Home : endpoints'[h] = IF h = me THEN proc[p].port ELSE r[h]
  BY <1>3, <1>6, <1>7 DEF RowLists
<1>9. /\ supervised # Broken /\ \A h \in Home : own[h] # Broken
      /\ \A h \in Home : own[h] # None => own[h].dir = h
      /\ \A g, h \in Home : g # h /\ r[g] # None => r[g] # r[h]
      /\ \A h \in l : r[h] # None /\ own[h] # None /\ own[h].port = r[h]
  BY <1>2 DEF FilesFit
<1>10. \A h \in l : endpoints'[h] # None /\ own[h] # None /\ own[h].port = endpoints'[h]
  BY <1>6, <1>7, <1>8, <1>9
<1>11. proc[p].port = None \/ (proc[p].port # None /\ \A h \in Home \ {me} : r[h] # proc[p].port)
  <2>1. CASE proc[p].doing = "add" /\ proc[p].at = 7
    BY <1>2, <2>1 DEF AddFits, Within, CommandsFollow
  <2>2. CASE proc[p].doing = "remove" /\ proc[p].at = 8
    BY <1>2, <2>2 DEF RemoveFits, Within
  <2> QED  BY <1>3, <2>1, <2>2
<1>12. \A g, h \in Home : g # h /\ endpoints'[g] # None => endpoints'[g] # endpoints'[h]
  BY <1>8, <1>9, <1>11
<1>13. FilesFit'
  BY <1>1, <1>4, <1>9, <1>10, <1>12 DEF FilesFit
<1>14. CASE proc[p].doing = "add" /\ proc[p].at = 7
  <2>1. proc[p].port \in Nat /\ own[me] = [dir |-> me, port |-> proc[p].port]
        /\ \A h \in Home \ {me} : r[h] # proc[p].port
    BY <1>2, <1>14 DEF AddFits, Within
  <2>2. HasRead(p)' /\ RemoveFits(p)'
    BY <1>5, <1>14 DEF HasRead, RemoveFits, Within
  <2>3. proc'[p].doing = "add" /\ proc'[p].at = 8
    BY <1>5, <1>14
  <2>4. endpoints'[me] = proc[p].port /\ \A h \in Home \ {me} : endpoints'[h] # proc[p].port
    BY <1>3, <1>8, <2>1
  <2>5. own'[me] = [dir |-> me, port |-> proc[p].port]
    BY <1>1, <2>1
  <2> HIDE DEF r, l, me
  <2>6. AddFits(p)'
    BY <1>4, <1>5, <1>7, <2>1, <2>3, <2>4, <2>5 DEF AddFits, Within, l
  <2> QED  BY <1>13, <2>2, <2>6
<1>15. CASE proc[p].doing = "remove" /\ proc[p].at = 8
  <2>1. HasRead(p)' /\ AddFits(p)'
    BY <1>5, <1>15 DEF HasRead, AddFits, Within
  <2>2. RemoveFits(p)'
    BY <1>2, <1>4, <1>5, <1>7, <1>15 DEF RemoveFits, Within
  <2> QED  BY <1>13, <2>1, <2>2
<1> QED  BY <1>3, <1>14, <1>15

LEMMA PutSupervisedFits ==
  ASSUME CommandsFollow, ConfigTypes, ConfigFits, NEW p \in Proc, F!PutSupervised(p)
  PROVE  ConfigFits'
<1> DEFINE me == proc[p].home
           r == F!Rows(endpoints)
           l == F!Listed(supervised)
<1>1. UNCHANGED <<endpoints, own, edits, reused, reverted>>
  BY DEF F!PutSupervised, F!story, F!bounds
<1> SUFFICES ASSUME Clean' PROVE FilesFit' /\ HasRead(p)' /\ AddFits(p)' /\ RemoveFits(p)'
  BY FitsOfAStep
<1>2. FilesFit /\ AddFits(p) /\ RemoveFits(p)
  BY <1>1, FitsNow DEF Clean
<1>3. /\ Stepped(p, "s", None) /\ me \in Home /\ supervised' \in SUBSET Home
      /\ supervised' = (IF proc[p].doing = "add" THEN proc[p].s \cup {me} ELSE proc[p].s \ {me})
      /\ (proc[p].doing = "add" /\ proc[p].at = 9) \/ (proc[p].doing = "remove" /\ proc[p].at = 6)
  BY PutSupervisedTypes, Located
<1>4. F!Listed(supervised)' = supervised' /\ r' = r /\ supervised' # Broken
  BY <1>1, <1>3 DEF F!Rows, F!Listed, F!NoRows, CommandsFollow
<1>5. /\ proc'[p].doing = proc[p].doing /\ proc'[p].at = proc[p].at + 1
      /\ proc'[p].home = me /\ proc'[p].port = proc[p].port
  BY <1>3, BeforeTheLast DEF Stepped
<1>6. proc[p].s = l
  BY <1>2, <1>3 DEF AddFits, RemoveFits, Within
<1>7. /\ endpoints # Broken /\ \A h \in Home : own[h] # Broken
      /\ \A h \in Home : own[h] # None => own[h].dir = h
      /\ \A g, h \in Home : g # h /\ r[g] # None => r[g] # r[h]
      /\ \A h \in l : r[h] # None /\ own[h] # None /\ own[h].port = r[h]
  BY <1>2 DEF FilesFit
<1>8. CASE proc[p].doing = "add" /\ proc[p].at = 9
  <2>1. /\ proc[p].port \in Nat /\ r[me] = proc[p].port
        /\ own[me] = [dir |-> me, port |-> proc[p].port]
    BY <1>2, <1>8 DEF AddFits, Within
  <2>2. own[me] # None /\ own[me].port = r[me] /\ r[me] # None
    <3>1. own[me] \in OwnFile
      BY <1>3, <2>1 DEF OwnFile
    <3> QED  BY <2>1, <3>1 DEF CommandsFollow
  <2>3. \A h \in supervised' : r[h] # None /\ own[h] # None /\ own[h].port = r[h]
    BY <1>3, <1>6, <1>7, <1>8, <2>2
  <2>4. FilesFit'
    BY <1>1, <1>4, <1>7, <2>3 DEF FilesFit
  <2>5. HasRead(p)' /\ AddFits(p)' /\ RemoveFits(p)'
    BY <1>5, <1>8 DEF HasRead, AddFits, RemoveFits, Within
  <2> QED  BY <2>4, <2>5
<1>9. CASE proc[p].doing = "remove" /\ proc[p].at = 6
  <2>1. \A h \in supervised' : r[h] # None /\ own[h] # None /\ own[h].port = r[h]
    BY <1>3, <1>6, <1>7, <1>9
  <2>2. me \notin supervised'
    BY <1>3, <1>9
  <2>3. FilesFit'
    BY <1>1, <1>4, <1>7, <2>1 DEF FilesFit
  <2>4. HasRead(p)' /\ AddFits(p)' /\ RemoveFits(p)'
    BY <1>2, <1>4, <1>5, <1>9, <2>2 DEF HasRead, AddFits, RemoveFits, Within
  <2> QED  BY <2>3, <2>4
<1> QED  BY <1>3, <1>8, <1>9

LEMMA PutOwnFits ==
  ASSUME CommandsFollow, ConfigTypes, ConfigFits, NEW p \in Proc, F!PutOwn(p)
  PROVE  ConfigFits'
<1> DEFINE me == proc[p].home
           r == F!Rows(endpoints)
           l == F!Listed(supervised)
<1>1. UNCHANGED <<endpoints, supervised, edits, reused, reverted>>
  BY DEF F!PutOwn, F!story, F!bounds
<1> SUFFICES ASSUME Clean' PROVE FilesFit' /\ HasRead(p)' /\ AddFits(p)' /\ RemoveFits(p)'
  BY FitsOfAStep
<1>2. FilesFit /\ AddFits(p) /\ RemoveFits(p)
  BY <1>1, FitsNow DEF Clean
<1>3. r' = r /\ l' = l /\ l \subseteq Home /\ me \in Home /\ own \in OwnFiles
  BY <1>1, RowsTyped, PutOwnTypes, TypedParts DEF F!Rows, F!Listed, F!NoRows
<1>4. /\ endpoints # Broken /\ supervised # Broken /\ \A h \in Home : own[h] # Broken
      /\ \A h \in Home : own[h] # None => own[h].dir = h
      /\ \A g, h \in Home : g # h /\ r[g] # None => r[g] # r[h]
      /\ \A h \in l : r[h] # None /\ own[h] # None /\ own[h].port = r[h]
  BY <1>2 DEF FilesFit
<1>5. CASE /\ F!At(p, "writeOwn") /\ Stepped(p, "port", proc[p].port)
           /\ proc[p].port \in Nat
           /\ own' = [own EXCEPT ![me] = [dir |-> me, port |-> proc[p].port]]
  <2>1. proc[p].doing = "add" /\ proc[p].at = 5
    BY <1>5, Located
  <2>2. /\ proc'[p].doing = "add" /\ proc'[p].at = 6 /\ proc'[p].home = me
        /\ proc'[p].port = proc[p].port
    BY <1>5, <2>1, BeforeTheLast DEF Stepped
  <2>3. me \notin l /\ \A h \in Home \ {me} : r[h] # proc[p].port
    BY <1>2, <2>1 DEF AddFits, Within
  <2>4. [dir |-> me, port |-> proc[p].port] \in OwnFile /\ [dir |-> me, port |-> proc[p].port].dir = me
    BY <1>3, <1>5 DEF OwnFile
  <2>5. [dir |-> me, port |-> proc[p].port] # Broken
    BY <2>4 DEF CommandsFollow
  <2>6. /\ own'[me] = [dir |-> me, port |-> proc[p].port]
        /\ \A h \in Home : h # me => own'[h] = own[h]
    BY <1>3, <1>5 DEF OwnFiles
  <2>7. /\ \A h \in Home : own'[h] # Broken
        /\ \A h \in Home : own'[h] # None => own'[h].dir = h
        /\ \A h \in l : r[h] # None /\ own'[h] # None /\ own'[h].port = r[h]
    BY <1>3, <1>4, <2>3, <2>4, <2>5, <2>6
  <2>8. FilesFit'
    BY <1>1, <1>3, <1>4, <2>7 DEF FilesFit
  <2>9. HasRead(p)' /\ RemoveFits(p)'
    BY <2>2 DEF HasRead, RemoveFits, Within
  <2>10. AddFits(p)'
    BY <1>3, <1>5, <2>2, <2>3, <2>6 DEF AddFits, Within
  <2> QED  BY <2>8, <2>9, <2>10
<1>6. CASE /\ F!At(p, "dropOwn") /\ Stepped(p, "port", None)
           /\ own' = [own EXCEPT ![me] = None]
  <2>1. proc[p].doing = "remove" /\ proc[p].at = 9
    BY <1>6, Located
  <2>2. proc'[p].doing = "remove" /\ proc'[p].at = 10 /\ proc'[p].port = None
    BY <1>6, <2>1, BeforeTheLast DEF Stepped
  <2>3. me \notin l
    BY <1>2, <2>1 DEF RemoveFits, Within
  <2>4. own'[me] = None /\ \A h \in Home : h # me => own'[h] = own[h]
    BY <1>3, <1>6 DEF OwnFiles
  <2>5. /\ \A h \in Home : own'[h] # Broken
        /\ \A h \in Home : own'[h] # None => own'[h].dir = h
        /\ \A h \in l : r[h] # None /\ own'[h] # None /\ own'[h].port = r[h]
    BY <1>3, <1>4, <2>3, <2>4 DEF CommandsFollow
  <2>6. FilesFit'
    BY <1>1, <1>3, <1>4, <2>5 DEF FilesFit
  <2>7. HasRead(p)' /\ RemoveFits(p)' /\ AddFits(p)'
    BY <2>2 DEF HasRead, RemoveFits, AddFits, Within
  <2> QED  BY <2>6, <2>7
<1> QED  BY <1>5, <1>6, PutOwnTypes

(* A command that has read everything again has nothing left to be right   *)
(* about.                                                                  *)
LEMMA LateFits ==
  ASSUME CommandsFollow, ConfigTypes, ConfigFits, NEW p \in Proc,
         F!At(p, "copy") \/ F!At(p, "satisfy"), Stepped(p, "port", None),
         UNCHANGED <<endpoints, supervised, own, edits, reused, reverted>>
  PROVE  ConfigFits'
<1>1. Clean' => FilesFit'
  BY FitsNow, FilesUnchanged DEF Clean
<1>2. CASE Last(p)
  <2>1. proc'[p].doing = None
    BY <1>2, IdleIsNowhere DEF Stepped
  <2> QED  BY <1>1, <2>1, NowhereFits, FitsOfAStep
<1>3. CASE ~Last(p)
  <2>1. proc[p].doing = "adopt" \/ proc[p].at \in {13, 14}
    BY Located
  <2>2. proc'[p].doing = proc[p].doing /\ proc'[p].at = proc[p].at + 1 /\ proc'[p].port = None
    BY <1>3 DEF Stepped
  <2>3. HasRead(p)' /\ AddFits(p)' /\ RemoveFits(p)'
    BY <2>1, <2>2 DEF HasRead, AddFits, RemoveFits, Within
  <2> QED  BY <1>1, <2>3, FitsOfAStep
<1> QED  BY <1>2, <1>3

LEMMA CopiesFits ==
  ASSUME CommandsFollow, ConfigTypes, ConfigFits, NEW p \in Proc, F!Copies(p)
  PROVE  ConfigFits'
<1>1. UNCHANGED <<endpoints, supervised, own, edits, reused, reverted>>
  BY DEF F!Copies, F!files, F!story, F!bounds
<1> QED  BY <1>1, CopiesTypes, OverFits, LateFits

LEMMA SatisfiesFits ==
  ASSUME CommandsFollow, ConfigTypes, ConfigFits, NEW p \in Proc, F!Satisfies(p)
  PROVE  ConfigFits'
<1>1. UNCHANGED <<endpoints, supervised, own, edits, reused, reverted>>
  BY DEF F!Satisfies, F!files, F!story, F!bounds
<1> QED  BY <1>1, SatisfiesTypes, LateFits

(* What a revert does and what a person types are not answered for.        *)
LEMMA RestoresFits ==
  ASSUME CommandsFollow, ConfigTypes, NEW p \in Proc, Reverting(p), F!Restores(p)
  PROVE  ConfigFits' /\ Reverting(p)'
<1>1. proc[p].doing = "revert"
  BY RestoresTypes, Located
<1>2. reverted' = reverted
  BY DEF F!Restores, F!story
<1> QED  BY <1>1, <1>2 DEF Reverting, ConfigFits, Clean

LEMMA TypoFits ==
  ASSUME ConfigTypes, NEW f \in Mistyped, NEW h \in Home, F!Typo(f, h)
  PROVE  ConfigFits'
<1>1. edits' = edits + 1 /\ edits \in Nat
  BY TypedParts DEF F!Typo
<1> QED  BY <1>1 DEF ConfigFits, Clean

-----------------------------------------------------------------------------
(* What is applied stays applied.                                          *)

LEMMA AppliesOfAStep ==
  ASSUME CommandsFollow, NEW p \in Proc,
         KeptIsListed', ListIsRead(p)', Settles(p)', Asked(p)'
  PROVE  Applies'
BY OnlyOne DEF Applies

LEMMA AppliesNow ==
  ASSUME Applies, NEW p \in Proc
  PROVE  KeptIsListed /\ ListIsRead(p) /\ Settles(p) /\ Asked(p)
BY DEF Applies

LEMMA KeptShrinks ==
  ASSUME UNCHANGED applied, asked \subseteq asked'
  PROVE  Kept' \subseteq Kept
BY DEF Kept

LEMMA KeptStays ==
  ASSUME KeptIsListed, UNCHANGED <<endpoints, supervised, copies, applied>>, asked \subseteq asked'
  PROVE  KeptIsListed'
<1>1. Kept' \subseteq Kept
  BY KeptShrinks
<1> QED  BY <1>1 DEF KeptIsListed, F!Listed

LEMMA NowhereSettles ==
  ASSUME CommandsFollow, NEW p \in Proc,
         proc'[p].doing = None \/ (proc'[p].at = 1 /\ proc'[p].doing \in Commands)
  PROVE  ListIsRead(p)' /\ Settles(p)'
<1>1. ~F!At(p, "satisfy")'
  BY AddSteps, RemoveSteps, AdoptSteps, RevertSteps DEF F!At, Commands
<1>2. ListIsRead(p)' /\ ~Settled(p, 11, 2)' /\ ~Settled(p, 12, 3)'
  BY DEF ListIsRead, Settled, Within, CommandsFollow, Commands
<1> QED  BY <1>1, <1>2 DEF Settles

LEMMA BeginApplies ==
  ASSUME CommandsFollow, ConfigTypes, Applies, NEW p \in Proc, NEW d \in Doing, NEW h \in Home,
         F!Begin(p, d, h)
  PROVE  Applies'
<1>1. UNCHANGED <<endpoints, supervised, copies, applied>> /\ asked \subseteq asked'
  BY DEF F!Begin, F!files
<1>2. KeptIsListed'
  BY <1>1, AppliesNow, KeptStays
<1>3. proc'[p].at = 1 /\ proc'[p].doing = d /\ proc'[p].home = h /\ d \in Commands
  BY BeginIs DEF CommandsFollow
<1>4. ListIsRead(p)' /\ Settles(p)'
  BY <1>3, NowhereSettles
<1>5. Asked(p)'
  BY <1>3 DEF Asked, F!Begin
<1> QED  BY <1>2, <1>4, <1>5, AppliesOfAStep

LEMMA OverApplies ==
  ASSUME CommandsFollow, ConfigTypes, Applies, NEW p \in Proc, proc' = [proc EXCEPT ![p] = [doing |-> None]],
         UNCHANGED <<endpoints, supervised, copies, applied, asked>>
  PROVE  Applies'
<1>1. KeptIsListed'
  BY AppliesNow, KeptStays
<1>2. proc'[p].doing = None
  BY OverIs, IdleIsNowhere
<1>3. ListIsRead(p)' /\ Settles(p)' /\ Asked(p)'
  BY <1>2, NowhereSettles, IdleIsNowhere DEF Asked, Commands
<1> QED  BY <1>1, <1>3, AppliesOfAStep

LEMMA MovedIsAsked ==
  ASSUME CommandsFollow, ConfigTypes, Applies, NEW p \in Proc, NEW f, NEW val, Stepped(p, f, val),
         UNCHANGED asked
  PROVE  Asked(p)'
<1>1. CASE Last(p)
  BY <1>1, IdleIsNowhere DEF Stepped, Asked, Commands
<1>2. CASE ~Last(p)
  BY <1>2, AppliesNow DEF Stepped, Asked
<1> QED  BY <1>1, <1>2

(* The steps between choosing or finding and reading everything again.     *)
LEMMA MiddleSettles ==
  ASSUME CommandsFollow, ConfigTypes, NEW p \in Proc, NEW f, NEW val, Stepped(p, f, val),
         proc[p].doing \in {"add", "remove"}, proc[p].at \in 4..9
  PROVE  /\ Settles(p)'
         /\ proc[p].at \notin {5, 8} => ListIsRead(p)'
<1>1. proc'[p].doing = proc[p].doing /\ proc'[p].at = proc[p].at + 1
  BY BeforeTheLast DEF Stepped
<1>2. ~Settled(p, 11, 2)' /\ ~Settled(p, 12, 3)'
  BY <1>1 DEF Settled, Within
<1>3. ~F!At(p, "satisfy")'
  <2> SUFFICES ASSUME F!At(p, "satisfy")' PROVE FALSE
    OBVIOUS
  <2>1. proc[p].doing # None
    BY IdleIsNowhere DEF Commands
  <2>2. F!At(p, "copy")
    BY <2>1, StepBefore
  <2> QED  BY <2>2, Located
<1>4. proc[p].at \notin {5, 8} => ListIsRead(p)'
  BY <1>1 DEF ListIsRead, Within
<1> QED  BY <1>2, <1>3, <1>4 DEF Settles

LEMMA ReadsApplies ==
  ASSUME CommandsFollow, ConfigTypes, Applies, NEW p \in Proc, F!Reads(p)
  PROVE  Applies'
<1>1. UNCHANGED <<endpoints, supervised, copies, applied, asked>>
  BY DEF F!Reads, F!files, F!story, F!bounds
<1>2. KeptIsListed /\ Settles(p) /\ KeptIsListed' /\ Kept' = Kept
  BY <1>1, AppliesNow, KeptStays DEF Kept
<1>3. Asked(p)'
  BY <1>1, ReadsTypes, MovedIsAsked
<1> SUFFICES ListIsRead(p)' /\ Settles(p)'
  BY <1>2, <1>3, AppliesOfAStep
<1>4. CASE Last(p)
  <2>1. proc'[p].doing = None
    BY <1>4, ReadsTypes, IdleIsNowhere DEF Stepped
  <2> QED  BY <2>1, NowhereSettles
<1>5. CASE ~Last(p)
  <2> DEFINE d == proc[p].doing
             k == proc[p].at
  <2>1. /\ proc'[p].doing = d /\ proc'[p].at = k + 1
        /\ d # None /\ d \in Commands /\ k \in Nat
    BY <1>5, ReadsTypes, Located DEF Stepped
  <2>2. ~F!At(p, "satisfy")'
    <3> SUFFICES ASSUME F!At(p, "satisfy")' PROVE FALSE
      OBVIOUS
    <3>1. F!At(p, "copy")
      BY <2>1, ReadsTypes, StepBefore
    <3> QED  BY <3>1, ReadsTypes DEF F!At
  <2>3. CASE F!At(p, "readEndpoints") /\ Stepped(p, "e", endpoints)
    <3>1. (d \in {"add", "remove"} /\ (k = 1 \/ k = 10)) \/ (d = "adopt" /\ k = 1)
      BY <2>3, Located
    <3>2. proc'[p].e = endpoints
      BY <1>5, <2>3 DEF Stepped
    <3>3. ListIsRead(p)' /\ ~Settled(p, 12, 3)'
      BY <2>1, <3>1 DEF ListIsRead, Settled, Within
    <3> QED  BY <1>1, <1>2, <2>2, <3>2, <3>3 DEF Settles, KeptIsListed
  <2>4. CASE F!At(p, "readSupervised") /\ Stepped(p, "s", supervised)
    <3>1. (d \in {"add", "remove"} /\ (k = 2 \/ k = 11)) \/ (d = "adopt" /\ k = 2)
      BY <2>4, Located
    <3>2. proc'[p].s = supervised /\ proc'[p].e = proc[p].e
      BY <1>5, <2>4 DEF Stepped
    <3>3. ListIsRead(p)' /\ (Settled(p, 11, 2)' => Settled(p, 11, 2))
      BY <2>1, <3>1 DEF ListIsRead, Settled, Within
    <3> QED  BY <1>1, <1>2, <2>2, <3>2, <3>3 DEF Settles
  <2>5. CASE F!At(p, "readOwn") /\ Stepped(p, "o", own)
    <3>1. (d \in {"add", "remove"} /\ (k = 3 \/ k = 12)) \/ (d = "adopt" /\ k = 3)
      BY <2>5, Located
    <3>2. proc'[p].s = proc[p].s /\ proc'[p].e = proc[p].e
      BY <1>5, <2>5 DEF Stepped
    <3>3. /\ ListIsRead(p)' /\ (Settled(p, 11, 2)' => Settled(p, 11, 2))
          /\ Settled(p, 12, 3)' => Settled(p, 12, 3)
      BY <2>1, <3>1 DEF ListIsRead, Settled, Within
    <3> QED  BY <1>1, <1>2, <2>2, <3>2, <3>3 DEF Settles
  <2> QED  BY <2>3, <2>4, <2>5, ReadsTypes
<1> QED  BY <1>4, <1>5

LEMMA ChooseApplies ==
  ASSUME CommandsFollow, ConfigTypes, Applies, NEW p \in Proc, F!Choose(p)
  PROVE  Applies'
<1>1. UNCHANGED <<endpoints, supervised, own, copies, applied, asked>>
  BY DEF F!Choose, F!files, F!bounds
<1>2. CASE proc' = [proc EXCEPT ![p] = [doing |-> None]]
  BY <1>1, <1>2, OverApplies
<1>3. CASE Stepped(p, "port", F!FreePort(F!Known(p).instances))
  <2>1. proc[p].doing = "add" /\ proc[p].at = 4
    BY ChooseTypes, Located
  <2>2. ListIsRead(p)' /\ Settles(p)'
    BY <1>3, <2>1, MiddleSettles
  <2> QED  BY <1>1, <1>3, <2>2, AppliesNow, KeptStays, MovedIsAsked, AppliesOfAStep
<1> QED  BY <1>2, <1>3, ChooseTypes

LEMMA FindApplies ==
  ASSUME CommandsFollow, ConfigTypes, Applies, NEW p \in Proc, F!Find(p)
  PROVE  Applies'
<1>1. UNCHANGED <<endpoints, supervised, own, copies, applied, asked>>
  BY DEF F!Find, F!files, F!story, F!bounds
<1>2. CASE proc' = [proc EXCEPT ![p] = [doing |-> None]]
  BY <1>1, <1>2, OverApplies
<1>3. CASE Stepped(p, "port", None)
  <2>1. proc[p].doing = "remove" /\ proc[p].at = 4
    BY FindTypes, Located
  <2>2. ListIsRead(p)' /\ Settles(p)'
    BY <1>3, <2>1, MiddleSettles
  <2> QED  BY <1>1, <1>3, <2>2, AppliesNow, KeptStays, MovedIsAsked, AppliesOfAStep
<1> QED  BY <1>2, <1>3, FindTypes

LEMMA GetsApplies ==
  ASSUME CommandsFollow, ConfigTypes, Applies, NEW p \in Proc, F!Gets(p)
  PROVE  Applies'
<1>1. UNCHANGED <<endpoints, supervised, own, copies, applied, asked>>
  BY DEF F!Gets, F!files, F!story, F!bounds
<1>2. KeptIsListed'
  BY <1>1, AppliesNow, KeptStays
<1>3. CASE F!At(p, "getEndpoints") /\ Stepped(p, "e", F!Rows(endpoints))
  <2>1. proc[p].doing \in {"add", "remove"} /\ proc[p].at \in {6, 7}
    BY <1>3, Located
  <2>2. ListIsRead(p)' /\ Settles(p)'
    BY <1>3, <2>1, MiddleSettles
  <2> QED  BY <1>1, <1>2, <1>3, <2>2, MovedIsAsked, AppliesOfAStep
<1>4. CASE F!At(p, "getSupervised") /\ Stepped(p, "s", F!Listed(supervised))
  <2>1. proc[p].doing \in {"add", "remove"} /\ proc[p].at \in {5, 8}
    BY <1>4, Located
  <2>2. Settles(p)'
    BY <1>4, <2>1, MiddleSettles
  <2>3. proc'[p].s = F!Listed(supervised)
    BY <1>4, <2>1, BeforeTheLast DEF Stepped
  <2>4. ListIsRead(p)'
    BY <1>1, <2>3 DEF ListIsRead, F!Listed
  <2> QED  BY <1>1, <1>2, <1>4, <2>2, <2>4, MovedIsAsked, AppliesOfAStep
<1> QED  BY <1>3, <1>4, GetsTypes

LEMMA PutEndpointsApplies ==
  ASSUME CommandsFollow, ConfigTypes, Applies, NEW p \in Proc, F!PutEndpoints(p)
  PROVE  Applies'
<1>1. UNCHANGED <<supervised, own, copies, applied, asked>>
  BY DEF F!PutEndpoints, F!story, F!bounds
<1>2. endpoints' # None
  BY PutEndpointsTypes DEF CommandsFollow
<1>3. KeptIsListed'
  BY <1>1, <1>2, AppliesNow, KeptShrinks DEF KeptIsListed, F!Listed
<1>4. proc[p].doing \in {"add", "remove"} /\ proc[p].at \in {7, 8} /\ (proc[p].at = 8 => proc[p].doing = "remove")
  BY PutEndpointsTypes, Located
<1>5. Settles(p)'
  BY <1>4, PutEndpointsTypes, MiddleSettles
<1>6. ListIsRead(p)'
  <2>1. proc'[p].doing = proc[p].doing /\ proc'[p].at = proc[p].at + 1
    BY <1>4, PutEndpointsTypes, BeforeTheLast DEF Stepped
  <2> QED  BY <1>4, <2>1 DEF ListIsRead, Within
<1> QED  BY <1>1, <1>3, <1>5, <1>6, PutEndpointsTypes, MovedIsAsked, AppliesOfAStep

LEMMA PutSupervisedApplies ==
  ASSUME CommandsFollow, ConfigTypes, Applies, NEW p \in Proc, F!PutSupervised(p)
  PROVE  Applies'
<1> DEFINE me == proc[p].home
<1>1. UNCHANGED <<endpoints, own, copies, applied, asked>>
  BY DEF F!PutSupervised, F!story, F!bounds
<1>2. /\ (proc[p].doing = "add" /\ proc[p].at = 9) \/ (proc[p].doing = "remove" /\ proc[p].at = 6)
      /\ supervised' = (IF proc[p].doing = "add" THEN proc[p].s \cup {me} ELSE proc[p].s \ {me})
      /\ supervised' \in SUBSET Home /\ Stepped(p, "s", None)
  BY PutSupervisedTypes, Located
<1>3. proc[p].s = F!Listed(supervised) /\ KeptIsListed /\ (proc[p].doing = "remove" => me \in asked)
  BY <1>2, AppliesNow DEF ListIsRead, Within, Asked
<1>4. F!Listed(supervised)' = supervised' /\ supervised' # Broken
  BY <1>2 DEF F!Listed, CommandsFollow
<1>5. Kept' = Kept /\ Kept \cap asked = {}
  BY <1>1 DEF Kept
<1>6. Kept \subseteq supervised'
  BY <1>2, <1>3, <1>5 DEF KeptIsListed
<1>7. KeptIsListed'
  BY <1>1, <1>3, <1>4, <1>5, <1>6 DEF KeptIsListed
<1>8. ListIsRead(p)' /\ Settles(p)'
  BY <1>2, MiddleSettles
<1> QED  BY <1>1, <1>2, <1>7, <1>8, MovedIsAsked, AppliesOfAStep

LEMMA PutOwnApplies ==
  ASSUME CommandsFollow, ConfigTypes, Applies, NEW p \in Proc, F!PutOwn(p)
  PROVE  Applies'
<1>1. UNCHANGED <<endpoints, supervised, copies, applied, asked>>
  BY DEF F!PutOwn, F!story, F!bounds
<1>2. CASE F!At(p, "writeOwn") /\ Stepped(p, "port", proc[p].port)
  <2>1. proc[p].doing = "add" /\ proc[p].at = 5
    BY <1>2, Located
  <2>2. Settles(p)'
    BY <1>2, <2>1, MiddleSettles
  <2>3. ListIsRead(p)'
    BY <1>2, <2>1, BeforeTheLast DEF Stepped, ListIsRead, Within
  <2> QED  BY <1>1, <1>2, <2>2, <2>3, AppliesNow, KeptStays, MovedIsAsked, AppliesOfAStep
<1>3. CASE F!At(p, "dropOwn") /\ Stepped(p, "port", None)
  <2>1. proc[p].doing = "remove" /\ proc[p].at = 9
    BY <1>3, Located
  <2>2. ListIsRead(p)' /\ Settles(p)'
    BY <1>3, <2>1, MiddleSettles
  <2> QED  BY <1>1, <1>3, <2>2, AppliesNow, KeptStays, MovedIsAsked, AppliesOfAStep
<1> QED  BY <1>2, <1>3, PutOwnTypes

LEMMA CopiesApplies ==
  ASSUME CommandsFollow, ConfigTypes, Applies, NEW p \in Proc, F!Copies(p)
  PROVE  Applies'
<1>1. UNCHANGED <<endpoints, supervised, own, applied, asked>>
  BY DEF F!Copies, F!files, F!story, F!bounds
<1>2. CASE proc' = [proc EXCEPT ![p] = [doing |-> None]] /\ UNCHANGED copies
  BY <1>1, <1>2, OverApplies
<1>3. CASE Stepped(p, "port", None) /\ copies'.supervised = F!Copied(supervised, copies.supervised)
  <2>1. KeptIsListed /\ Settles(p) /\ Kept' = Kept /\ supervised \in ListFile
    BY <1>1, AppliesNow, TypedParts DEF Kept
  <2>2. supervised # None => copies'.supervised = supervised /\ F!Listed(supervised) = supervised
    BY <1>3, <2>1 DEF F!Copied, F!Listed, KeptIsListed
  <2>3. supervised = None => copies'.supervised = copies.supervised
    BY <1>3 DEF F!Copied
  <2>4. KeptIsListed'
    BY <1>1, <2>1, <2>2, <2>3 DEF KeptIsListed, F!Listed
  <2>5. (proc[p].doing \in {"add", "remove"} /\ proc[p].at = 13) \/ (proc[p].doing = "adopt" /\ proc[p].at = 4)
    BY CopiesTypes, Located
  <2>6. ~Last(p)
    <3>1. CASE proc[p].doing = "adopt" /\ proc[p].at = 4
      <4>1. Len(F!Steps(proc[p].doing)) = 5
        BY <3>1, Lengths
      <4> QED  BY <3>1, <4>1 DEF Last
    <3> QED  BY <2>5, <3>1, BeforeTheLast
  <2>7. /\ proc'[p].doing = proc[p].doing /\ proc'[p].at = proc[p].at + 1
        /\ proc'[p].s = proc[p].s /\ proc'[p].e = proc[p].e
    BY <1>3, <2>6 DEF Stepped
  <2>8. ListIsRead(p)' /\ Settled(p, 11, 2) /\ Settled(p, 12, 3)
    BY <2>5, <2>7 DEF ListIsRead, Settled, Within
  <2>9. Settles(p)'
    BY <1>1, <2>1, <2>2, <2>7, <2>8 DEF Settles
  <2> QED  BY <1>1, <1>3, <2>4, <2>8, <2>9, MovedIsAsked, AppliesOfAStep
<1> QED  BY <1>2, <1>3, CopiesTypes

(* What is applied is what was read, and that has all that is kept.        *)
LEMMA SatisfiesApplies ==
  ASSUME CommandsFollow, ConfigTypes, Applies, NEW p \in Proc, F!Satisfies(p)
  PROVE  Applies' /\ F!KeepsApplied
<1> DEFINE t == proc[p]
<1>1. /\ UNCHANGED <<endpoints, supervised, own, copies, asked>>
      /\ applied' = F!Satisfied(t.e, t.s, t.o) /\ F!At(p, "satisfy")
  BY DEF F!Satisfies, F!files, F!story, F!bounds
<1>2. KeptIsListed /\ Settles(p) /\ F!Holds(t.e, t.s, t.o) /\ Stepped(p, "port", None)
  BY AppliesNow, SatisfiesTypes DEF F!ReadHolds
<1>3. (t.doing \in {"add", "remove"} /\ t.at = 14) \/ (t.doing = "adopt" /\ t.at = 5)
  BY <1>1, Located
<1>4. /\ t.e = None => Kept = {}
      /\ t.e # None => endpoints # None
      /\ t.s = supervised
      /\ supervised # None => copies.supervised = supervised
  BY <1>1, <1>2, <1>3 DEF Settles, Settled, Within
<1>5. /\ supervised # Broken /\ supervised \in ListFile /\ (supervised # None => supervised \subseteq Home)
      /\ supervised # None => F!Listed(supervised) = supervised
      /\ supervised = None => F!Listed(supervised) = {}
  BY <1>2, TypedParts DEF KeptIsListed, ListFile, F!Listed
<1>6. applied' # None
  <2>1. applied' \in Applied
    BY <1>1, <1>2, StandsAt, BusyIs, SatisfiedTyped
  <2> QED  BY <2>1 DEF CommandsFollow
<1>7. t.e # None /\ t.s # None =>
        \A h \in Home : (applied'.instances[h] # None => h \in t.s)
                        /\ (h \in t.s => applied'.instances[h] # None)
  <2> SUFFICES ASSUME t.e # None, t.s # None, NEW h \in Home
               PROVE  /\ applied'.instances[h] # None => h \in t.s
                      /\ h \in t.s => applied'.instances[h] # None
    OBVIOUS
  <2>1. applied'.instances[h] = IF h \in t.s THEN t.o[h] ELSE None
    BY <1>1 DEF F!Satisfied
  <2>2. h \in t.s => t.o[h] # None
    BY <1>2 DEF F!Holds, F!InstancesHold, F!Readable
  <2> QED  BY <2>1, <2>2
<1>8. t.e = None \/ t.s = None => \A h \in Home : applied'.instances[h] = None
  BY <1>1 DEF F!Satisfied, F!Empty, F!NoFiles
<1>9. \A h \in Kept : applied'.instances[h] # None
  <2> SUFFICES ASSUME NEW h \in Kept PROVE applied'.instances[h] # None
    OBVIOUS
  <2>1. t.e # None /\ h \in F!Listed(supervised) /\ h \in Home
    BY <1>2, <1>4 DEF KeptIsListed, Kept
  <2>2. t.s # None /\ h \in t.s
    BY <1>4, <1>5, <2>1
  <2> QED  BY <1>7, <2>1, <2>2
<1>10. F!KeepsApplied
  BY <1>9 DEF F!KeepsApplied, Kept
<1>11. Kept' = {h \in Home \ asked : applied'.instances[h] # None}
  BY <1>1, <1>6 DEF Kept
<1>12. Kept' # {} => t.e # None /\ t.s # None /\ Kept' \subseteq t.s
  <2>1. ASSUME NEW h \in Kept' PROVE t.e # None /\ t.s # None /\ h \in t.s
    <3>1. h \in Home /\ applied'.instances[h] # None
      BY <1>11
    <3>2. t.e # None /\ t.s # None
      BY <1>8, <3>1, Zenon
    <3>3. h \in t.s
      BY <1>7, <3>1, <3>2, Zenon
    <3> QED  BY <3>2, <3>3
  <2> QED  BY <2>1, Zenon
<1>13. KeptIsListed'
  BY <1>1, <1>2, <1>4, <1>5, <1>12 DEF KeptIsListed, F!Listed
<1>14. ListIsRead(p)' /\ Settles(p)'
  <2>1. CASE Last(p)
    <3>1. proc'[p].doing = None
      BY <1>2, <2>1, IdleIsNowhere DEF Stepped
    <3> QED  BY <3>1, NowhereSettles
  <2>2. CASE ~Last(p)
    <3>1. proc'[p].doing = t.doing /\ proc'[p].at = t.at + 1
      BY <1>2, <2>2 DEF Stepped
    <3>2. ListIsRead(p)' /\ ~Settled(p, 11, 2)' /\ ~Settled(p, 12, 3)'
      BY <1>3, <3>1 DEF ListIsRead, Settled, Within
    <3>3. ~F!At(p, "satisfy")'
      <4> SUFFICES ASSUME F!At(p, "satisfy")' PROVE FALSE
        OBVIOUS
      <4>1. F!At(p, "copy")
        BY <1>1, <1>2, StepBefore DEF F!At
      <4> QED  BY <1>1, <4>1 DEF F!At
    <3> QED  BY <3>2, <3>3 DEF Settles
  <2> QED  BY <2>1, <2>2
<1> QED  BY <1>1, <1>2, <1>10, <1>13, <1>14, MovedIsAsked, AppliesOfAStep

LEMMA RestoresApplies ==
  ASSUME CommandsFollow, ConfigTypes, Applies, NEW p \in Proc, F!Restores(p)
  PROVE  Applies'
<1>1. UNCHANGED <<copies, applied, asked>>
  BY DEF F!Restores, F!story, F!bounds
<1>2. /\ endpoints' = endpoints \/ (endpoints' = copies.endpoints /\ copies.endpoints # None)
      /\ supervised' = supervised \/ (supervised' = copies.supervised /\ copies.supervised # None)
      /\ proc[p].doing = "revert" /\ Stepped(p, "port", None)
  BY RestoresTypes, Located
<1>3. KeptIsListed /\ Kept' = Kept
  BY <1>1, AppliesNow DEF Kept
<1>4. supervised' # Broken /\ Kept \subseteq F!Listed(supervised')
  <2>1. CASE supervised' = supervised
    BY <1>3, <2>1 DEF KeptIsListed
  <2>2. CASE supervised' = copies.supervised /\ copies.supervised # None
    <3>1. F!Listed(copies.supervised) = copies.supervised
      BY <1>3, <2>2 DEF KeptIsListed, F!Listed
    <3> QED  BY <1>3, <2>2, <3>1 DEF KeptIsListed
  <2> QED  BY <1>2, <2>1, <2>2
<1>5. F!Listed(supervised)' = F!Listed(supervised')
  BY DEF F!Listed
<1>6. KeptIsListed'
  BY <1>1, <1>2, <1>3, <1>4, <1>5 DEF KeptIsListed
<1>7. proc'[p].doing \in {"revert", None}
  <2>1. CASE Last(p)
    BY <1>2, <2>1, IdleIsNowhere DEF Stepped
  <2>2. CASE ~Last(p)
    BY <1>2, <2>2 DEF Stepped
  <2> QED  BY <2>1, <2>2
<1>8. ~F!At(p, "satisfy")'
  BY <1>7, <1>2, StepBefore, Located, IdleIsNowhere DEF F!At, Commands
<1>9. ListIsRead(p)' /\ ~Settled(p, 11, 2)' /\ ~Settled(p, 12, 3)'
  BY <1>7, IdleIsNowhere DEF ListIsRead, Settled, Within, Commands
<1>10. Settles(p)'
  BY <1>8, <1>9 DEF Settles
<1> QED  BY <1>1, <1>2, <1>6, <1>9, <1>10, MovedIsAsked, AppliesOfAStep

LEMMA TypoApplies ==
  ASSUME CommandsFollow, ConfigTypes, Applies, "supervised" \notin Mistyped,
         NEW f \in Mistyped, NEW h \in Home, F!Typo(f, h)
  PROVE  Applies'
<1>1. /\ UNCHANGED <<supervised, copies, applied, asked, proc>>
      /\ endpoints' = endpoints \/ endpoints' = Broken
  BY DEF F!Typo, F!story
<1>2. endpoints # None => endpoints' # None
  BY <1>1 DEF CommandsFollow
<1>3. KeptIsListed /\ Kept' = Kept /\ F!Listed(supervised)' = F!Listed(supervised)
  BY <1>1 DEF Applies, Kept, F!Listed
<1>4. KeptIsListed'
  BY <1>1, <1>2, <1>3 DEF KeptIsListed
<1>5. ASSUME NEW p \in Proc PROVE ListIsRead(p)' /\ Settles(p)' /\ Asked(p)'
  <2>1. ListIsRead(p) /\ Settles(p) /\ Asked(p)
    BY DEF Applies
  <2>2. ListIsRead(p)' /\ Asked(p)'
    BY <1>1, <1>3, <2>1 DEF ListIsRead, Asked, Within
  <2>3. /\ Settled(p, 11, 2)' = Settled(p, 11, 2) /\ Settled(p, 12, 3)' = Settled(p, 12, 3)
        /\ F!At(p, "satisfy")' = F!At(p, "satisfy")
    BY <1>1 DEF Settled, Within, F!At
  <2>4. Settles(p)'
    BY <1>1, <1>2, <1>3, <2>1, <2>3 DEF Settles
  <2> QED  BY <2>2, <2>4
<1> QED  BY <1>4, <1>5 DEF Applies

-----------------------------------------------------------------------------
(* No edit leaves the list of what is started unreadable: an add takes     *)
(* such a list for an empty one, and then what was applied is lost.        *)
ListUntouched == "supervised" \notin Mistyped

(* The inductive invariant of the files of a host.                         *)
ConfigIInv ==
  /\ ConfigTypes /\ ConfigFits
  /\ \A p \in Proc : Reverting(p)
  /\ ListUntouched => Applies

LEMMA ConfigInit == ASSUME CommandsFollow, F!Init PROVE ConfigIInv
<1>1. ConfigTypes
  BY ConfigBegins
<1>2. /\ endpoints = None /\ supervised = None /\ own = F!NoFiles /\ applied = None
      /\ copies.supervised = None
      /\ \A p \in Proc : proc[p].doing = None
  BY DEF F!Init
<1>3. F!Rows(endpoints) = F!NoRows /\ F!Listed(supervised) = {} /\ None # Broken
  BY <1>2 DEF F!Rows, F!Listed, CommandsFollow
<1>4. FilesFit
  BY <1>2, <1>3 DEF FilesFit, F!NoRows, F!NoFiles
<1>5. \A p \in Proc : /\ HasRead(p) /\ AddFits(p) /\ RemoveFits(p) /\ Reverting(p)
                      /\ ListIsRead(p) /\ Settles(p) /\ Asked(p)
  BY <1>2, IdleIsNowhere
     DEF HasRead, AddFits, RemoveFits, Reverting, ListIsRead, Settles, Settled, Asked, Within, F!At, Commands
<1>6. Kept = {}
  BY <1>2 DEF Kept
<1>7. KeptIsListed
  BY <1>2, <1>3, <1>6 DEF KeptIsListed
<1> QED  BY <1>1, <1>4, <1>5, <1>7 DEF ConfigIInv, ConfigFits, Applies

LEMMA MovedReverts ==
  ASSUME CommandsFollow, NEW p \in Proc, Reverting(p), UNCHANGED reverted, NEW f, NEW val, Stepped(p, f, val)
  PROVE  Reverting(p)'
<1>1. CASE Last(p)
  BY <1>1, IdleIsNowhere DEF Stepped, Reverting, Commands
<1>2. CASE ~Last(p)
  BY <1>2 DEF Stepped, Reverting
<1> QED  BY <1>1, <1>2

LEMMA OverReverts ==
  ASSUME CommandsFollow, ConfigTypes, NEW p \in Proc, proc' = [proc EXCEPT ![p] = [doing |-> None]]
  PROVE  Reverting(p)'
BY OverIs, IdleIsNowhere DEF Reverting, Commands

(* What a step of a command has to leave, for all of it to hold again.     *)
LEMMA ConfigOfAStep ==
  ASSUME CommandsFollow, NEW p \in Proc, ConfigTypes', ConfigFits', Reverting(p)', ListUntouched => Applies',
         UNCHANGED applied
  PROVE  ConfigIInv' /\ (ListUntouched => F!KeepsApplied)
<1>1. \A q \in Proc : Reverting(q)'
  BY OnlyOne
<1> QED  BY <1>1 DEF ConfigIInv, F!KeepsApplied, ListUntouched

LEMMA ConfigStep ==
  ASSUME CommandsFollow, ConfigIInv, F!Next
  PROVE  ConfigIInv' /\ (ListUntouched => F!KeepsApplied)
<1>1. ConfigTypes /\ ConfigFits /\ (\A p \in Proc : Reverting(p)) /\ (ListUntouched => Applies)
  BY DEF ConfigIInv
<1>2. ASSUME NEW p \in Proc, NEW d \in Doing, NEW h \in Home, F!Begin(p, d, h)
      PROVE  ConfigIInv' /\ (ListUntouched => F!KeepsApplied)
  <2>1. applied' = applied /\ (d = "revert" => reverted')
    BY <1>2 DEF F!Begin
  <2>2. Reverting(p)'
    BY <1>1, <1>2, <2>1, BeginIs DEF Reverting
  <2> QED  BY <1>1, <1>2, <2>1, <2>2, BeginTypes, BeginFits, BeginApplies, ConfigOfAStep
<1>3. ASSUME NEW p \in Proc, F!Killed(p)
      PROVE  ConfigIInv' /\ (ListUntouched => F!KeepsApplied)
  <2>1. /\ UNCHANGED <<endpoints, supervised, own, copies, applied, asked, edits, reused, reverted>>
        /\ proc' = [proc EXCEPT ![p] = [doing |-> None]]
    BY <1>3 DEF F!Killed, F!files, F!story
  <2> QED  BY <1>1, <2>1, OverTypes, OverFits, OverApplies, OverReverts, ConfigOfAStep
<1>4. ASSUME NEW p \in Proc, F!Reads(p)
      PROVE  ConfigIInv' /\ (ListUntouched => F!KeepsApplied)
  <2>1. applied' = applied /\ reverted' = reverted
    BY <1>4 DEF F!Reads, F!story
  <2>2. Reverting(p)'
    BY <1>1, <1>4, <2>1, ReadsTypes, MovedReverts
  <2> QED  BY <1>1, <1>4, <2>1, <2>2, ReadsTypes, ReadsFits, ReadsApplies, ConfigOfAStep
<1>5. ASSUME NEW p \in Proc, F!Choose(p)
      PROVE  ConfigIInv' /\ (ListUntouched => F!KeepsApplied)
  <2>1. applied' = applied /\ reverted' = reverted
    BY <1>5 DEF F!Choose
  <2>2. Reverting(p)'
    BY <1>1, <1>5, <2>1, ChooseTypes, MovedReverts, OverReverts
  <2> QED  BY <1>1, <1>5, <2>1, <2>2, ChooseTypes, ChooseFits, ChooseApplies, ConfigOfAStep
<1>6. ASSUME NEW p \in Proc, F!Find(p)
      PROVE  ConfigIInv' /\ (ListUntouched => F!KeepsApplied)
  <2>1. applied' = applied /\ reverted' = reverted
    BY <1>6 DEF F!Find, F!story
  <2>2. Reverting(p)'
    BY <1>1, <1>6, <2>1, FindTypes, MovedReverts, OverReverts
  <2> QED  BY <1>1, <1>6, <2>1, <2>2, FindTypes, FindFits, FindApplies, ConfigOfAStep
<1>7. ASSUME NEW p \in Proc, F!Gets(p)
      PROVE  ConfigIInv' /\ (ListUntouched => F!KeepsApplied)
  <2>1. applied' = applied /\ reverted' = reverted
    BY <1>7 DEF F!Gets, F!story
  <2>2. Reverting(p)'
    BY <1>1, <1>7, <2>1, GetsTypes, MovedReverts
  <2> QED  BY <1>1, <1>7, <2>1, <2>2, GetsTypes, GetsFits, GetsApplies, ConfigOfAStep
<1>8. ASSUME NEW p \in Proc, F!PutEndpoints(p)
      PROVE  ConfigIInv' /\ (ListUntouched => F!KeepsApplied)
  <2>1. applied' = applied /\ reverted' = reverted
    BY <1>8 DEF F!PutEndpoints, F!story
  <2>2. Reverting(p)'
    BY <1>1, <1>8, <2>1, PutEndpointsTypes, MovedReverts
  <2> QED  BY <1>1, <1>8, <2>1, <2>2, PutEndpointsTypes, PutEndpointsFits, PutEndpointsApplies, ConfigOfAStep
<1>9. ASSUME NEW p \in Proc, F!PutSupervised(p)
      PROVE  ConfigIInv' /\ (ListUntouched => F!KeepsApplied)
  <2>1. applied' = applied /\ reverted' = reverted
    BY <1>9 DEF F!PutSupervised, F!story
  <2>2. Reverting(p)'
    BY <1>1, <1>9, <2>1, PutSupervisedTypes, MovedReverts
  <2> QED  BY <1>1, <1>9, <2>1, <2>2, PutSupervisedTypes, PutSupervisedFits, PutSupervisedApplies, ConfigOfAStep
<1>10. ASSUME NEW p \in Proc, F!PutOwn(p)
       PROVE  ConfigIInv' /\ (ListUntouched => F!KeepsApplied)
  <2>1. applied' = applied /\ reverted' = reverted
    BY <1>10 DEF F!PutOwn, F!story
  <2>2. Reverting(p)'
    BY <1>1, <1>10, <2>1, PutOwnTypes, MovedReverts
  <2> QED  BY <1>1, <1>10, <2>1, <2>2, PutOwnTypes, PutOwnFits, PutOwnApplies, ConfigOfAStep
<1>11. ASSUME NEW p \in Proc, F!Copies(p)
       PROVE  ConfigIInv' /\ (ListUntouched => F!KeepsApplied)
  <2>1. applied' = applied /\ reverted' = reverted
    BY <1>11 DEF F!Copies, F!story
  <2>2. Reverting(p)'
    BY <1>1, <1>11, <2>1, CopiesTypes, MovedReverts, OverReverts
  <2> QED  BY <1>1, <1>11, <2>1, <2>2, CopiesTypes, CopiesFits, CopiesApplies, ConfigOfAStep
<1>12. ASSUME NEW p \in Proc, F!Satisfies(p)
       PROVE  ConfigIInv' /\ (ListUntouched => F!KeepsApplied)
  <2>1. reverted' = reverted
    BY <1>12 DEF F!Satisfies, F!story
  <2>2. Reverting(p)'
    BY <1>1, <1>12, <2>1, SatisfiesTypes, MovedReverts
  <2>3. \A q \in Proc : Reverting(q)'
    BY <2>2, OnlyOne
  <2>4. ConfigTypes' /\ ConfigFits' /\ (ListUntouched => Applies' /\ F!KeepsApplied)
    BY <1>1, <1>12, SatisfiesTypes, SatisfiesFits, SatisfiesApplies
  <2> QED  BY <2>3, <2>4 DEF ConfigIInv, ListUntouched
<1>13. ASSUME NEW p \in Proc, F!Restores(p)
       PROVE  ConfigIInv' /\ (ListUntouched => F!KeepsApplied)
  <2>1. applied' = applied
    BY <1>13 DEF F!Restores
  <2> QED  BY <1>1, <1>13, <2>1, RestoresTypes, RestoresFits, RestoresApplies, ConfigOfAStep
<1>14. ASSUME NEW f \in Mistyped, NEW h \in Home, F!Typo(f, h)
       PROVE  ConfigIInv' /\ (ListUntouched => F!KeepsApplied)
  <2>1. applied' = applied /\ reverted' = reverted /\ proc' = proc
    BY <1>14 DEF F!Typo, F!story
  <2>2. \A p \in Proc : Reverting(p)'
    BY <1>1, <2>1 DEF Reverting
  <2>3. ConfigTypes' /\ ConfigFits' /\ (ListUntouched => Applies')
    BY <1>1, <1>14, TypoTypes, TypoFits, TypoApplies DEF ListUntouched
  <2> QED  BY <2>1, <2>2, <2>3 DEF ConfigIInv, F!KeepsApplied, ListUntouched
<1> QED  BY <1>2, <1>3, <1>4, <1>5, <1>6, <1>7, <1>8, <1>9, <1>10, <1>11, <1>12, <1>13, <1>14
         DEF F!Next

LEMMA ConfigRests ==
  ASSUME ConfigIInv, UNCHANGED <<endpoints, supervised, own, copies, applied, proc, reused, reverted,
                                 asked, edits>>
  PROVE  ConfigIInv' /\ F!KeepsApplied
<1>1. ConfigTypes'
  BY DEF ConfigIInv, ConfigTypes, Prepared, F!At, F!ReadHolds
<1>2. ConfigFits'
  <2>1. F!Rows(endpoints)' = F!Rows(endpoints) /\ F!Listed(supervised)' = F!Listed(supervised)
    BY DEF F!Rows, F!Listed, F!NoRows
  <2> QED  BY <2>1 DEF ConfigIInv, ConfigFits, Clean, FilesFit, HasRead, AddFits, RemoveFits, Within
<1>3. \A p \in Proc : Reverting(p)'
  BY DEF ConfigIInv, Reverting
<1>4. Applies => Applies'
  BY DEF Applies, KeptIsListed, Kept, ListIsRead, Settles, Settled, Within, Asked, F!At, F!Listed
<1> QED  BY <1>1, <1>2, <1>3, <1>4 DEF ConfigIInv, F!KeepsApplied, ListUntouched

ConfigInductive == machine = "config" => ConfigIInv

LEMMA ConfigAlways ==
  ASSUME CommandsFollow
  PROVE  MCSpec => []ConfigInductive
<1>1. MCInit => ConfigInductive
  BY ConfigInit DEF MCInit, InitLinks, InitRelay, InitConfig, ConfigInductive
<1>2. ConfigInductive /\ [MCNext]_MCvars => ConfigInductive'
  <2> SUFFICES ASSUME ConfigInductive, [MCNext]_MCvars PROVE ConfigInductive'
    OBVIOUS
  <2>1. CASE OnlyConfig /\ F!Next
    BY <2>1, ConfigStep DEF ConfigInductive, OnlyConfig
  <2>2. CASE (OnlyLinks /\ Next) \/ (OnlyRelay /\ R!Next)
    BY <2>2 DEF ConfigInductive, OnlyLinks, OnlyRelay
  <2>3. CASE UNCHANGED MCvars
    BY <2>3, ConfigRests DEF ConfigInductive, MCvars
  <2> QED  BY <2>1, <2>2, <2>3 DEF MCNext
<1> QED  BY <1>1, <1>2, PTL DEF MCSpec, ConfigInductive

(* The three kinds of file, taken together, pass the check evaluate makes  *)
(* of them after every step of an add or a remove and wherever one is      *)
(* killed (addInstance, removeInstance of registry.ts), for any number of  *)
(* homes, runs and kills, if commands follow each other, nobody has typed  *)
(* into a file, no add has taken the port of a row that a killed command   *)
(* left and no revert was run.                                             *)
THEOREM FilesAlwaysHold ==
  ASSUME CommandsFollow
  PROVE  MCSpec => []FilesHold
<1>1. ConfigInductive => FilesHold
  <2> SUFFICES ASSUME machine = "config", ConfigIInv, edits = 0, ~reused, ~reverted
               PROVE  F!Holds(endpoints, supervised, own)
    BY DEF ConfigInductive, FilesHold, F!FilesHold
  <2>1. ConfigTypes /\ FilesFit
    BY DEF ConfigIInv, ConfigFits, Clean
  <2> QED  BY <2>1, FilesAreHeld
<1> QED  BY <1>1, ConfigAlways, PTL

(* What is applied loses an instance only to a command that removes it     *)
(* (settle and apply of config.ts): through adds, removes of others,       *)
(* reverts, kills, and edits that leave any file but the list of what is   *)
(* started unreadable.                                                     *)
THEOREM AppliedIsKept ==
  ASSUME CommandsFollow, ListUntouched
  PROVE  MCSpec => AppliedStays
<1>1. ConfigInductive /\ [MCNext]_MCvars => [machine = "config" => F!KeepsApplied]_MCvars
  <2> SUFFICES ASSUME ConfigInductive, [MCNext]_MCvars
               PROVE  (machine = "config" => F!KeepsApplied) \/ UNCHANGED MCvars
    OBVIOUS
  <2>1. CASE OnlyConfig /\ F!Next
    BY <2>1, ConfigStep DEF ConfigInductive, OnlyConfig
  <2>2. CASE (OnlyLinks /\ Next) \/ (OnlyRelay /\ R!Next)
    BY <2>2 DEF OnlyLinks, OnlyRelay
  <2> QED  BY <2>1, <2>2 DEF MCNext
<1> QED  BY <1>1, ConfigAlways, PTL DEF MCSpec, AppliedStays

-----------------------------------------------------------------------------
(* What is relayed between two instances.                                  *)

Two == {a, b}
Said == Value \cup {Gone}
HeldRows == R!Rows \cup {Unheld}
Views == [Two -> HeldRows]
RowFrame == [is : {"rows"}, of : Two, whole : BOOLEAN,
             said : UNION {[K -> Said] : K \in SUBSET Key}]
Mail == {R!Ask, R!GiveUp} \cup RowFrame

(* Two instances that are two, and nothing held is no row and no view.     *)
TwoApart == a # b /\ Unheld \notin R!Rows \cup Views

RelayTypes ==
  /\ rows \in [Two -> R!Rows]
  /\ held \in [Two -> [Two -> HeldRows]]
  /\ lostAt \in [Two -> [Two -> Int]]
  /\ upInRelay \subseteq {Two}
  /\ subs \in [Two -> SUBSET Two]
  /\ out \in [Two -> [Two -> Seq(RowFrame)]]
  /\ wire \in [Two -> [Two -> Seq(Mail)]]
  /\ view \in [Two -> Views \cup {Unheld}]
  /\ clock \in Int

(* Nothing of a queue speaks of j's rows.                                  *)
Mute(q, j) == \A n \in 1..Len(q) : ~(q[n].is = "rows" /\ q[n].of = j)

Asks(q) == {n \in 1..Len(q) : q[n].is = "ask"}

(* An instance holds nothing of itself, nor marks itself lost, nor         *)
(* subscribes to itself.                                                   *)
NothingOfItself(i) == held[i][i] = Unheld /\ lostAt[i][i] = -1 /\ i \notin subs[i]

(* A link that is down has no subscription and nothing on its way; one     *)
(* that is up has no mark of a loss.                                       *)
DownIsEmpty(i, j) ==
  {i, j} \notin upInRelay => wire[j][i] = <<>> /\ out[j][i] = <<>> /\ i \notin subs[j]

UpIsUnmarked(i, j) == {i, j} \in upInRelay => lostAt[i][j] = -1

(* At most one subscription is asked for, and none is given up.            *)
Orderly(w) ==
  /\ \A m, n \in Asks(w) : m = n
  /\ \A n \in 1..Len(w) : w[n].is # "giveUp"

(* Of i, who asks j for its rows r with what is under way in x, who holds  *)
(* h with q on its way to it: while it is not among the subscribed S       *)
(* nothing of the rows is on its way; once it is, nothing more is asked    *)
(* and what is on its way makes up for what is held.  It asks while        *)
(* somebody there is shown them, in v.                                     *)
Following(i, j, x, q, h, r, S, v) ==
  /\ i \notin S => Mute(q, j)
  /\ i \in S => Asks(x) = {} /\ R!ComesTo(q, h, j, r)
  /\ Orderly(x)
  /\ i \in S \/ Asks(x) # {} => v # Unheld

Follows(i, j) ==
  <<i, j>> \notin givenUp =>
    Following(i, j, wire[i][j], wire[j][i] \o out[j][i], R!Stated(held[i][j]), rows[j],
              subs[j], view[i])

SeesHeld(i, j) == view[i] # Unheld => view[i][j] \in {R!Stated(held[i][j]), Unheld}

Pair(i, j) == DownIsEmpty(i, j) /\ UpIsUnmarked(i, j) /\ Follows(i, j) /\ SeesHeld(i, j)

RelayIInv ==
  /\ RelayTypes
  /\ \A i, j \in Two : i # j => Pair(i, j)
  /\ \A i \in Two : NothingOfItself(i)

(* A frame of rows says what it says of the names it has.                  *)
LEMMA FrameSays ==
  ASSUME NEW f \in RowFrame
  PROVE  /\ f.is = "rows" /\ f.of \in Two /\ f.whole \in BOOLEAN
         /\ DOMAIN f.said \subseteq Key
         /\ \A k \in DOMAIN f.said : f.said[k] \in Said
         /\ \A k : R!Says(f, k) \in Said
<1>1. PICK K \in SUBSET Key : f.said \in [K -> Said]
  BY DEF RowFrame
<1> QED  BY <1>1 DEF RowFrame, R!Says, Said

LEMMA MailIs ==
  ASSUME NEW f \in Mail
  PROVE  /\ f.is \in {"ask", "giveUp", "rows"}
         /\ f.is = "rows" => f \in RowFrame
         /\ f.is = "ask" => f = R!Ask
         /\ f.is = "giveUp" => f = R!GiveUp
BY DEF Mail, RowFrame, R!Ask, R!GiveUp

LEMMA FrameIs ==
  ASSUME NEW i \in Two, NEW s, DOMAIN s \subseteq Key, s \in [DOMAIN s -> Said]
  PROVE  R!Frame(i, TRUE, s) \in RowFrame /\ R!Frame(i, FALSE, s) \in RowFrame
<1>1. s \in UNION {[K -> Said] : K \in SUBSET Key}
  OBVIOUS
<1> QED  BY <1>1 DEF R!Frame, RowFrame

LEMMA RowFrameIsMail == RowFrame \subseteq Mail
BY DEF Mail

(* What a frame does to what is held: a row it speaks of is what it says.  *)
LEMMA OntoIs ==
  ASSUME NEW h \in R!Rows, NEW f \in RowFrame
  PROVE  /\ R!Onto(h, f) \in R!Rows
         /\ \A k \in Key : R!Onto(h, f)[k] =
              IF R!Speaks(f, f.of, k) THEN R!Says(f, k) ELSE h[k]
<1>1. \A k \in Key : R!Onto(h, f)[k] =
              IF R!Speaks(f, f.of, k) THEN R!Says(f, k) ELSE h[k]
  BY FrameSays DEF R!Onto, R!Speaks, R!Says
<1>2. \A k \in Key : R!Onto(h, f)[k] \in Said
  BY <1>1, FrameSays DEF R!Rows, Said
<1>3. R!Onto(h, f) = [k \in Key |-> R!Onto(h, f)[k]]
  BY DEF R!Onto
<1> QED  BY <1>1, <1>2, <1>3 DEF R!Rows, Said

(* Taking the first frame that waits leaves the rest to make up for what   *)
(* is held then.                                                           *)
LEMMA TakesFirst ==
  ASSUME NEW q \in Seq(Mail), q # <<>>, NEW h \in R!Rows, NEW r \in R!Rows,
         NEW j \in Two, R!ComesTo(q, h, j, r),
         Head(q) \in RowFrame, Head(q).of = j
  PROVE  R!ComesTo(Tail(q), R!Onto(h, Head(q)), j, r)
<1> DEFINE f == Head(q)
           t == Tail(q)
<1>1. /\ t \in Seq(Mail) /\ Len(t) = Len(q) - 1 /\ Len(q) \in Nat
      /\ \A n \in 1..Len(t) : t[n] = q[n + 1]
      /\ f = q[1] /\ Len(q) >= 1
  BY HeadTailProperties, LenProperties, EmptySeq
<1> SUFFICES ASSUME NEW k \in Key
             PROVE  /\ (\A n \in 1..Len(t) : ~R!Speaks(t[n], j, k)) => R!Onto(h, f)[k] = r[k]
                    /\ \A n \in 1..Len(t) :
                         /\ R!Speaks(t[n], j, k)
                         /\ \A m \in n + 1..Len(t) : ~R!Speaks(t[m], j, k)
                         => R!Says(t[n], k) = r[k]
  BY DEF R!ComesTo
<1>2. R!Onto(h, f)[k] = IF R!Speaks(f, j, k) THEN R!Says(f, k) ELSE h[k]
  BY OntoIs
<1>3. /\ (\A n \in 1..Len(q) : ~R!Speaks(q[n], j, k)) => h[k] = r[k]
      /\ \A n \in 1..Len(q) :
           /\ R!Speaks(q[n], j, k)
           /\ \A m \in n + 1..Len(q) : ~R!Speaks(q[m], j, k)
           => R!Says(q[n], k) = r[k]
  BY DEF R!ComesTo
<1>4. ASSUME \A n \in 1..Len(t) : ~R!Speaks(t[n], j, k) PROVE R!Onto(h, f)[k] = r[k]
  <2>1. \A m \in 1 + 1..Len(q) : ~R!Speaks(q[m], j, k)
    <3> SUFFICES ASSUME NEW m \in 1 + 1..Len(q) PROVE ~R!Speaks(q[m], j, k)
      OBVIOUS
    <3>1. m - 1 \in 1..Len(t) /\ (m - 1) + 1 = m
      BY <1>1
    <3> QED  BY <3>1, <1>1, <1>4
  <2>2. CASE R!Speaks(f, j, k)
    <3>1. 1 \in 1..Len(q) /\ R!Speaks(q[1], j, k)
      BY <1>1, <2>2
    <3>2. R!Says(q[1], k) = r[k]
      BY <3>1, <2>1, <1>3
    <3> QED  BY <3>2, <2>2, <1>1, <1>2
  <2>3. CASE ~R!Speaks(f, j, k)
    <3>1. \A n \in 1..Len(q) : ~R!Speaks(q[n], j, k)
      BY <2>1, <2>3, <1>1
    <3> QED  BY <3>1, <1>2, <1>3, <2>3
  <2> QED  BY <2>2, <2>3
<1>5. ASSUME NEW n \in 1..Len(t), R!Speaks(t[n], j, k),
             \A m \in n + 1..Len(t) : ~R!Speaks(t[m], j, k)
      PROVE  R!Says(t[n], k) = r[k]
  <2>1. n + 1 \in 1..Len(q) /\ q[n + 1] = t[n]
    BY <1>1
  <2>2. \A m \in (n + 1) + 1..Len(q) : ~R!Speaks(q[m], j, k)
    <3> SUFFICES ASSUME NEW m \in (n + 1) + 1..Len(q) PROVE ~R!Speaks(q[m], j, k)
      OBVIOUS
    <3>1. m - 1 \in n + 1..Len(t) /\ m - 1 \in 1..Len(t) /\ (m - 1) + 1 = m
      BY <1>1
    <3> QED  BY <3>1, <1>1, <1>5
  <2> QED  BY <2>1, <2>2, <1>3, <1>5
<1> QED  BY <1>4, <1>5

(* A queue with p put where q's first c frames end, p saying nothing of j, *)
(* comes to what q does.                                                   *)
Put(q, c, f, p) ==
  /\ c \in 0..Len(q) /\ Len(p) = Len(q) + 1 /\ p[c + 1] = f
  /\ \A n \in 1..c : p[n] = q[n]
  /\ \A n \in c + 1..Len(q) : p[n + 1] = q[n]

LEMMA PutIsMute ==
  ASSUME NEW q \in Seq(Mail), NEW p \in Seq(Mail), NEW c, NEW f,
         NEW j, Put(q, c, f, p), ~(f.is = "rows" /\ f.of = j)
  PROVE  /\ Mute(q, j) <=> Mute(p, j)
         /\ \A h, r : R!ComesTo(q, h, j, r) <=> R!ComesTo(p, h, j, r)
<1>1. Len(q) \in Nat /\ Len(p) = Len(q) + 1 /\ c \in 0..Len(q)
  BY LenProperties DEF Put
<1> DEFINE At(n) == IF n <= c THEN n ELSE n + 1
<1>2. \A n \in 1..Len(q) : At(n) \in 1..Len(p) /\ At(n) # c + 1 /\ p[At(n)] = q[n]
  <2> SUFFICES ASSUME NEW n \in 1..Len(q)
               PROVE  At(n) \in 1..Len(p) /\ At(n) # c + 1 /\ p[At(n)] = q[n]
    OBVIOUS
  <2>1. CASE n <= c
    BY <2>1, <1>1 DEF Put
  <2>2. CASE n > c
    <3>1. n \in c + 1..Len(q)
      BY <2>2, <1>1
    <3> QED  BY <3>1, <2>2, <1>1 DEF Put
  <2> QED  BY <2>1, <2>2, <1>1
<1>3. \A n \in 1..Len(p) : n # c + 1 => \E m \in 1..Len(q) : n = At(m)
  <2> SUFFICES ASSUME NEW n \in 1..Len(p), n # c + 1
               PROVE  \E m \in 1..Len(q) : n = At(m)
    OBVIOUS
  <2>1. CASE n <= c
    BY <2>1, <1>1
  <2>2. CASE n > c
    <3>1. n - 1 \in 1..Len(q) /\ n = At(n - 1)
      BY <2>2, <1>1
    <3> QED  BY <3>1
  <2> QED  BY <2>1, <2>2, <1>1
<1>4. p[c + 1] = f
  BY DEF Put
<1>5. Mute(q, j) <=> Mute(p, j)
  <2>1. ASSUME Mute(q, j) PROVE Mute(p, j)
    <3> SUFFICES ASSUME NEW n \in 1..Len(p) PROVE ~(p[n].is = "rows" /\ p[n].of = j)
      BY DEF Mute
    <3>1. CASE n = c + 1
      BY <3>1, <1>4
    <3>2. CASE n # c + 1
      BY <3>2, <2>1, <1>2, <1>3 DEF Mute
    <3> QED  BY <3>1, <3>2
  <2>2. ASSUME Mute(p, j) PROVE Mute(q, j)
    BY <2>2, <1>2 DEF Mute
  <2> QED  BY <2>1, <2>2
<1>6. \A m, n \in 1..Len(q) : m > n <=> At(m) > At(n)
  BY <1>1
<1> HIDE DEF At
<1>7. ASSUME NEW k
      PROVE  /\ (\A n \in 1..Len(q) : ~R!Speaks(q[n], j, k))
                  <=> \A n \in 1..Len(p) : ~R!Speaks(p[n], j, k)
  BY <1>2, <1>3, <1>4 DEF R!Speaks
<1>8. ASSUME NEW k, NEW n \in 1..Len(q)
      PROVE  (\A m \in n + 1..Len(q) : ~R!Speaks(q[m], j, k))
               <=> \A m \in At(n) + 1..Len(p) : ~R!Speaks(p[m], j, k)
  <2>0. ~R!Speaks(f, j, k)
    BY DEF R!Speaks
  <2>1. ASSUME \A m \in n + 1..Len(q) : ~R!Speaks(q[m], j, k),
               NEW m \in At(n) + 1..Len(p), R!Speaks(p[m], j, k)
        PROVE  FALSE
    <3>1. m \in 1..Len(p) /\ m # c + 1 /\ m > At(n)
      BY <2>1, <1>2, <1>4, <2>0
    <3>2. PICK x \in 1..Len(q) : m = At(x)
      BY <3>1, <1>3
    <3>3. x > n
      BY <3>1, <3>2, <1>6
    <3> QED  BY <3>2, <3>3, <2>1, <1>1, <1>2
  <2>2. ASSUME \A m \in At(n) + 1..Len(p) : ~R!Speaks(p[m], j, k),
               NEW m \in n + 1..Len(q), R!Speaks(q[m], j, k)
        PROVE  FALSE
    <3>1. m \in 1..Len(q) /\ m > n
      BY <1>1
    <3>2. At(m) > At(n) /\ At(m) \in 1..Len(p) /\ At(n) \in 1..Len(p)
      BY <3>1, <1>6, <1>2
    <3>3. At(m) \in At(n) + 1..Len(p)
      BY <3>2, <1>1
    <3> QED  BY <3>1, <3>3, <2>2, <1>2
  <2> QED  BY <2>1, <2>2
<1>9. ASSUME NEW h, NEW r PROVE R!ComesTo(q, h, j, r) <=> R!ComesTo(p, h, j, r)
  <2>1. ASSUME R!ComesTo(q, h, j, r) PROVE R!ComesTo(p, h, j, r)
    <3> SUFFICES ASSUME NEW k \in Key
                 PROVE  /\ (\A n \in 1..Len(p) : ~R!Speaks(p[n], j, k)) => h[k] = r[k]
                        /\ \A n \in 1..Len(p) :
                             /\ R!Speaks(p[n], j, k)
                             /\ \A m \in n + 1..Len(p) : ~R!Speaks(p[m], j, k)
                             => R!Says(p[n], k) = r[k]
      BY DEF R!ComesTo
    <3>1. (\A n \in 1..Len(p) : ~R!Speaks(p[n], j, k)) => h[k] = r[k]
      BY <2>1, <1>7 DEF R!ComesTo
    <3>2. ASSUME NEW n \in 1..Len(p), R!Speaks(p[n], j, k),
                 \A m \in n + 1..Len(p) : ~R!Speaks(p[m], j, k)
          PROVE  R!Says(p[n], k) = r[k]
      <4>1. n # c + 1
        BY <3>2, <1>4 DEF R!Speaks
      <4>2. PICK x \in 1..Len(q) : n = At(x)
        BY <4>1, <1>3
      <4> QED  BY <4>2, <3>2, <2>1, <1>2, <1>8 DEF R!ComesTo
    <3> QED  BY <3>1, <3>2
  <2>2. ASSUME R!ComesTo(p, h, j, r) PROVE R!ComesTo(q, h, j, r)
    <3> SUFFICES ASSUME NEW k \in Key
                 PROVE  /\ (\A n \in 1..Len(q) : ~R!Speaks(q[n], j, k)) => h[k] = r[k]
                        /\ \A n \in 1..Len(q) :
                             /\ R!Speaks(q[n], j, k)
                             /\ \A m \in n + 1..Len(q) : ~R!Speaks(q[m], j, k)
                             => R!Says(q[n], k) = r[k]
      BY DEF R!ComesTo
    <3>1. (\A n \in 1..Len(q) : ~R!Speaks(q[n], j, k)) => h[k] = r[k]
      BY <2>2, <1>7 DEF R!ComesTo
    <3>2. ASSUME NEW n \in 1..Len(q), R!Speaks(q[n], j, k),
                 \A m \in n + 1..Len(q) : ~R!Speaks(q[m], j, k)
          PROVE  R!Says(q[n], k) = r[k]
      <4>1. \A m \in At(n) + 1..Len(p) : ~R!Speaks(p[m], j, k)
        BY <3>2, <1>8
      <4>2. At(n) \in 1..Len(p) /\ p[At(n)] = q[n]
        BY <1>2
      <4>3. R!Says(p[At(n)], k) = r[k]
        BY <4>1, <4>2, <3>2, <2>2 DEF R!ComesTo
      <4> QED  BY <4>2, <4>3
    <3> QED  BY <3>1, <3>2
  <2> QED  BY <2>1, <2>2
<1> QED  BY <1>5, <1>9

(* Where the frames of two queues stand in one.                            *)
LEMMA Joined ==
  ASSUME NEW w \in Seq(Mail), NEW o \in Seq(Mail)
  PROVE  /\ w \o o \in Seq(Mail) /\ Len(w \o o) = Len(w) + Len(o)
         /\ Len(w) \in Nat /\ Len(o) \in Nat
         /\ \A n \in 1..Len(w) : (w \o o)[n] = w[n]
         /\ \A n \in 1..Len(o) : (w \o o)[Len(w) + n] = o[n]
<1>1. /\ Len(w) \in Nat /\ Len(o) \in Nat
      /\ w \o o \in Seq(Mail) /\ Len(w \o o) = Len(w) + Len(o)
      /\ \A n \in 1..Len(w) + Len(o) :
           (w \o o)[n] = IF n <= Len(w) THEN w[n] ELSE o[n - Len(w)]
  BY ConcatProperties, LenProperties
<1>2. ASSUME NEW n \in 1..Len(o) PROVE (w \o o)[Len(w) + n] = o[n]
  <2>1. Len(w) + n \in 1..Len(w) + Len(o) /\ ~(Len(w) + n <= Len(w))
        /\ (Len(w) + n) - Len(w) = n
    BY <1>1
  <2> QED  BY <2>1, <1>1
<1>3. ASSUME NEW n \in 1..Len(w) PROVE (w \o o)[n] = w[n]
  BY <1>1
<1> QED  BY <1>1, <1>2, <1>3

LEMMA FirstOfJoined ==
  ASSUME NEW w \in Seq(Mail), NEW o \in Seq(Mail), w # <<>>
  PROVE  /\ w \o o # <<>> /\ Head(w \o o) = Head(w) /\ Tail(w \o o) = Tail(w) \o o
         /\ Head(w) \in Mail /\ Tail(w) \in Seq(Mail)
         /\ Put(Tail(w) \o o, 0, Head(w), w \o o)
<1> DEFINE t == Tail(w)
           q == w \o o
           z == t \o o
<1>1. /\ Head(w) \in Mail /\ t \in Seq(Mail) /\ Len(t) = Len(w) - 1 /\ Len(w) \in Nat
      /\ \A n \in 1..Len(t) : t[n] = w[n + 1]
      /\ Head(w) = w[1] /\ Len(w) >= 1 /\ Len(t) \in Nat
  BY HeadTailProperties, LenProperties, EmptySeq
<1>2. /\ q \in Seq(Mail) /\ Len(q) = Len(w) + Len(o) /\ Len(o) \in Nat
      /\ \A n \in 1..Len(w) : q[n] = w[n]
      /\ \A n \in 1..Len(o) : q[Len(w) + n] = o[n]
  BY Joined
<1>3. /\ z \in Seq(Mail) /\ Len(z) = Len(t) + Len(o)
      /\ \A n \in 1..Len(t) : z[n] = t[n]
      /\ \A n \in 1..Len(o) : z[Len(t) + n] = o[n]
  BY <1>1, Joined
<1>4. q # <<>>
  BY <1>1, <1>2, EmptySeq
<1>5. /\ Tail(q) \in Seq(Mail) /\ Len(Tail(q)) = Len(q) - 1
      /\ \A n \in 1..Len(Tail(q)) : Tail(q)[n] = q[n + 1]
      /\ Head(q) = q[1]
  BY <1>2, <1>4, HeadTailProperties
<1>6. \A n \in 1..Len(z) : z[n] = q[n + 1]
  <2> SUFFICES ASSUME NEW n \in 1..Len(z) PROVE z[n] = q[n + 1]
    OBVIOUS
  <2>1. CASE n <= Len(t)
    <3>1. n \in 1..Len(t) /\ n + 1 \in 1..Len(w)
      BY <2>1, <1>1
    <3> QED  BY <3>1, <1>1, <1>2, <1>3
  <2>2. CASE n > Len(t)
    <3>1. n - Len(t) \in 1..Len(o) /\ Len(t) + (n - Len(t)) = n
          /\ Len(w) + (n - Len(t)) = n + 1
      BY <2>2, <1>1, <1>2, <1>3
    <3> QED  BY <3>1, <1>2, <1>3
  <2> QED  BY <2>1, <2>2, <1>1, <1>3
<1>7. Tail(q) = z
  <2>1. Len(Tail(q)) = Len(z)
    BY <1>1, <1>2, <1>3, <1>5
  <2>2. \A n \in 1..Len(Tail(q)) : Tail(q)[n] = z[n]
    BY <2>1, <1>5, <1>6
  <2> QED  BY <2>1, <2>2, <1>3, <1>5, SeqEqual
<1>8. q[1] = w[1]
  BY <1>1, <1>2
<1>9. Put(z, 0, Head(w), q)
  <2>1. 0 \in 0..Len(z) /\ Len(q) = Len(z) + 1 /\ q[0 + 1] = Head(w)
    BY <1>1, <1>2, <1>3, <1>8
  <2>2. \A n \in 1..0 : q[n] = z[n]
    OBVIOUS
  <2>3. \A n \in 0 + 1..Len(z) : q[n + 1] = z[n]
    BY <1>6
  <2> QED  BY <2>1, <2>2, <2>3 DEF Put
<1> QED  BY <1>1, <1>4, <1>5, <1>7, <1>8, <1>9

LEMMA AppendIs ==
  ASSUME NEW w \in Seq(Mail), NEW f \in Mail
  PROVE  /\ Append(w, f) \in Seq(Mail) /\ Len(Append(w, f)) = Len(w) + 1
         /\ Len(w) \in Nat /\ Append(w, f)[Len(w) + 1] = f
         /\ \A n \in 1..Len(w) : Append(w, f)[n] = w[n]
<1>1. Len(w) \in Nat
  BY LenProperties
<1> QED  BY <1>1, AppendProperties

(* A frame written after those before it, in front of what still waits.    *)
LEMMA WrittenIsPut ==
  ASSUME NEW w \in Seq(Mail), NEW o \in Seq(Mail), NEW f \in Mail
  PROVE  Put(w \o o, Len(w), f, Append(w, f) \o o) /\ Append(w, f) \o o \in Seq(Mail)
<1> DEFINE u == Append(w, f)
           q == w \o o
           p == u \o o
<1>1. /\ u \in Seq(Mail) /\ Len(u) = Len(w) + 1 /\ u[Len(w) + 1] = f
      /\ \A n \in 1..Len(w) : u[n] = w[n]
  BY AppendIs
<1>2. /\ q \in Seq(Mail) /\ Len(q) = Len(w) + Len(o) /\ Len(o) \in Nat /\ Len(w) \in Nat
      /\ \A n \in 1..Len(w) : q[n] = w[n]
      /\ \A n \in 1..Len(o) : q[Len(w) + n] = o[n]
  BY Joined
<1>3. /\ p \in Seq(Mail) /\ Len(p) = Len(u) + Len(o)
      /\ \A n \in 1..Len(u) : p[n] = u[n]
      /\ \A n \in 1..Len(o) : p[Len(u) + n] = o[n]
  BY <1>1, Joined
<1> HIDE DEF u, q, p
<1>4. Len(w) \in 0..Len(q) /\ Len(p) = Len(q) + 1 /\ p[Len(w) + 1] = f
  BY <1>1, <1>2, <1>3
<1>5. \A n \in 1..Len(w) : p[n] = q[n]
  BY <1>1, <1>2, <1>3
<1>6. ASSUME NEW n \in Len(w) + 1..Len(q) PROVE p[n + 1] = q[n]
  <2>1. n - Len(w) \in 1..Len(o) /\ Len(w) + (n - Len(w)) = n
        /\ Len(u) + (n - Len(w)) = n + 1
    BY <1>1, <1>2
  <2>2. q[Len(w) + (n - Len(w))] = o[n - Len(w)]
    BY <2>1, <1>2
  <2>3. p[Len(u) + (n - Len(w))] = o[n - Len(w)]
    BY <2>1, <1>3
  <2> QED  BY <2>1, <2>2, <2>3
<1>7. Put(q, Len(w), f, p)
  BY <1>4, <1>5, <1>6 DEF Put
<1> QED  BY <1>3, <1>7 DEF u, q, p

(* A frame that waits behind all others.                                   *)
LEMMA QueuedIsPut ==
  ASSUME NEW w \in Seq(Mail), NEW o \in Seq(Mail), NEW f \in Mail
  PROVE  /\ Put(w \o o, Len(w \o o), f, w \o Append(o, f))
         /\ w \o Append(o, f) \in Seq(Mail)
<1> DEFINE u == Append(o, f)
           q == w \o o
           p == w \o u
<1>1. /\ u \in Seq(Mail) /\ Len(u) = Len(o) + 1 /\ u[Len(o) + 1] = f
      /\ \A n \in 1..Len(o) : u[n] = o[n]
  BY AppendIs
<1>2. /\ q \in Seq(Mail) /\ Len(q) = Len(w) + Len(o) /\ Len(o) \in Nat /\ Len(w) \in Nat
      /\ \A n \in 1..Len(w) : q[n] = w[n]
      /\ \A n \in 1..Len(o) : q[Len(w) + n] = o[n]
  BY Joined
<1>3. /\ p \in Seq(Mail) /\ Len(p) = Len(w) + Len(u)
      /\ \A n \in 1..Len(w) : p[n] = w[n]
      /\ \A n \in 1..Len(u) : p[Len(w) + n] = u[n]
  BY <1>1, Joined
<1> HIDE DEF u, q, p
<1>4. Len(q) \in 0..Len(q) /\ Len(p) = Len(q) + 1 /\ p[Len(q) + 1] = f
  <2>1. Len(o) + 1 \in 1..Len(u) /\ Len(q) + 1 = Len(w) + (Len(o) + 1)
    BY <1>1, <1>2
  <2>2. p[Len(w) + (Len(o) + 1)] = u[Len(o) + 1]
    BY <2>1, <1>3
  <2> QED  BY <2>1, <2>2, <1>1, <1>2, <1>3
<1>5. ASSUME NEW n \in 1..Len(q) PROVE p[n] = q[n]
  <2>1. CASE n <= Len(w)
    <3>1. n \in 1..Len(w)
      BY <2>1, <1>2
    <3>2. q[n] = w[n]
      BY <3>1, <1>2
    <3>3. p[n] = w[n]
      BY <3>1, <1>3
    <3> QED  BY <3>2, <3>3
  <2>2. CASE n > Len(w)
    <3>1. PICK k \in 1..Len(o) : k \in 1..Len(u) /\ n = Len(w) + k
      <4>1. n - Len(w) \in 1..Len(o) /\ n - Len(w) \in 1..Len(u) /\ n = Len(w) + (n - Len(w))
        BY <2>2, <1>1, <1>2
      <4> QED  BY <4>1
    <3>2. u[k] = o[k]
      BY <1>1
    <3>3. q[Len(w) + k] = o[k]
      BY <1>2
    <3>4. p[Len(w) + k] = u[k]
      BY <3>1, <1>3
    <3> QED  BY <3>1, <3>2, <3>3, <3>4
  <2> QED  BY <2>1, <2>2, <1>2
<1>6. \A n \in Len(q) + 1..Len(q) : p[n + 1] = q[n]
  BY <1>2
<1>7. Put(q, Len(q), f, p)
  BY <1>4, <1>5, <1>6 DEF Put
<1> QED  BY <1>3, <1>7 DEF u, q, p

(* The last frame says of one row what the row now is.                     *)
LEMMA LastSays ==
  ASSUME NEW q \in Seq(Mail), NEW p \in Seq(Mail), NEW f \in Mail, NEW j,
         NEW h, NEW r \in R!Rows, NEW k \in Key, NEW v,
         Put(q, Len(q), f, p), R!ComesTo(q, h, j, r),
         \A x : R!Speaks(f, j, x) <=> x = k, R!Says(f, k) = v
  PROVE  R!ComesTo(p, h, j, [r EXCEPT ![k] = v])
<1> DEFINE s == [r EXCEPT ![k] = v]
<1>1. Len(q) \in Nat /\ Len(p) = Len(q) + 1 /\ p[Len(q) + 1] = f
      /\ \A n \in 1..Len(q) : p[n] = q[n]
  BY LenProperties DEF Put
<1>2. \A x \in Key : s[x] = IF x = k THEN v ELSE r[x]
  BY DEF R!Rows
<1> HIDE DEF s
<1> SUFFICES ASSUME NEW x \in Key
             PROVE  /\ (\A n \in 1..Len(p) : ~R!Speaks(p[n], j, x)) => h[x] = s[x]
                    /\ \A n \in 1..Len(p) :
                         /\ R!Speaks(p[n], j, x)
                         /\ \A m \in n + 1..Len(p) : ~R!Speaks(p[m], j, x)
                         => R!Says(p[n], x) = s[x]
  BY DEF R!ComesTo, s
<1>3. Len(p) \in 1..Len(p)
  BY <1>1
<1>4. CASE x = k
  <2>1. R!Speaks(p[Len(p)], j, x) /\ R!Says(p[Len(p)], x) = s[x]
    BY <1>1, <1>2, <1>4
  <2>2. ASSUME NEW n \in 1..Len(p), \A m \in n + 1..Len(p) : ~R!Speaks(p[m], j, x)
        PROVE  n = Len(p)
    <3>1. Len(p) \notin n + 1..Len(p)
      BY <2>1, <2>2
    <3> QED  BY <3>1, <1>1
  <2> QED  BY <2>1, <2>2, <1>3
<1>5. CASE x # k
  <2>1. ~R!Speaks(p[Len(p)], j, x) /\ s[x] = r[x]
    BY <1>1, <1>2, <1>5
  <2>2. ASSUME \A n \in 1..Len(p) : ~R!Speaks(p[n], j, x) PROVE h[x] = s[x]
    <3>1. \A n \in 1..Len(q) : ~R!Speaks(q[n], j, x)
      BY <2>2, <1>1
    <3> QED  BY <3>1, <2>1 DEF R!ComesTo
  <2>3. ASSUME NEW n \in 1..Len(p), R!Speaks(p[n], j, x),
               \A m \in n + 1..Len(p) : ~R!Speaks(p[m], j, x)
        PROVE  R!Says(p[n], x) = s[x]
    <3>1. n \in 1..Len(q) /\ p[n] = q[n]
      BY <2>1, <2>3, <1>1
    <3>2. \A m \in n + 1..Len(q) : ~R!Speaks(q[m], j, x)
      BY <2>3, <1>1
    <3> QED  BY <3>1, <3>2, <2>1, <2>3 DEF R!ComesTo
  <2> QED  BY <2>2, <2>3
<1> QED  BY <1>4, <1>5

(* An opening frame says of every row what it is, whatever was held.       *)
LEMMA OpeningSays ==
  ASSUME NEW w \in Seq(Mail), NEW s \in Seq(Mail), NEW o \in Seq(Mail), NEW j,
         NEW h, NEW r, Mute(w, j), Mute(o, j), Len(s) >= 1,
         \A x \in Key : R!Speaks(s[1], j, x) /\ R!Says(s[1], x) = r[x],
         \A n \in 2..Len(s) : ~(s[n].is = "rows" /\ s[n].of = j)
  PROVE  R!ComesTo((w \o s) \o o, h, j, r)
<1> DEFINE u == w \o s
           q == u \o o
<1>1. /\ u \in Seq(Mail) /\ Len(u) = Len(w) + Len(s) /\ Len(w) \in Nat /\ Len(s) \in Nat
      /\ \A n \in 1..Len(w) : u[n] = w[n]
      /\ \A n \in 1..Len(s) : u[Len(w) + n] = s[n]
  BY Joined
<1>2. /\ q \in Seq(Mail) /\ Len(q) = Len(u) + Len(o) /\ Len(o) \in Nat
      /\ \A n \in 1..Len(u) : q[n] = u[n]
      /\ \A n \in 1..Len(o) : q[Len(u) + n] = o[n]
  BY <1>1, Joined
<1> HIDE DEF u, q
<1>3. Len(w) + 1 \in 1..Len(q) /\ q[Len(w) + 1] = s[1]
  <2>1. 1 \in 1..Len(s) /\ Len(w) + 1 \in 1..Len(u)
    BY <1>1
  <2> QED  BY <2>1, <1>1, <1>2
<1>4. ASSUME NEW n \in 1..Len(q), n # Len(w) + 1, NEW x
      PROVE  ~R!Speaks(q[n], j, x)
  <2>1. CASE n <= Len(w)
    <3>1. n \in 1..Len(w) /\ n \in 1..Len(u)
      BY <2>1, <1>1
    <3>2. q[n] = w[n]
      BY <3>1, <1>1, <1>2
    <3> QED  BY <3>1, <3>2 DEF Mute, R!Speaks
  <2>2. CASE n > Len(w) /\ n <= Len(u)
    <3>1. n - Len(w) \in 2..Len(s) /\ n - Len(w) \in 1..Len(s) /\ n \in 1..Len(u)
          /\ Len(w) + (n - Len(w)) = n
      BY <2>2, <1>1, <1>4
    <3>2. q[n] = s[n - Len(w)]
      BY <3>1, <1>1, <1>2
    <3> QED  BY <3>1, <3>2 DEF R!Speaks
  <2>3. CASE n > Len(u)
    <3>1. n - Len(u) \in 1..Len(o) /\ Len(u) + (n - Len(u)) = n
      BY <2>3, <1>1, <1>2
    <3>2. q[n] = o[n - Len(u)]
      BY <3>1, <1>2
    <3> QED  BY <3>1, <3>2 DEF Mute, R!Speaks
  <2> QED  BY <2>1, <2>2, <2>3, <1>1, <1>2
<1>5. ASSUME NEW x \in Key
      PROVE  /\ (\A n \in 1..Len(q) : ~R!Speaks(q[n], j, x)) => h[x] = r[x]
             /\ \A n \in 1..Len(q) :
                  /\ R!Speaks(q[n], j, x)
                  /\ \A m \in n + 1..Len(q) : ~R!Speaks(q[m], j, x)
                  => R!Says(q[n], x) = r[x]
  <2>1. R!Speaks(q[Len(w) + 1], j, x) /\ R!Says(q[Len(w) + 1], x) = r[x]
    BY <1>3
  <2>2. \A n \in 1..Len(q) : R!Speaks(q[n], j, x) => n = Len(w) + 1
    BY <1>4
  <2> QED  BY <2>1, <2>2, <1>3
<1> QED  BY <1>5 DEF R!ComesTo, u, q

LEMMA FirstAsked ==
  ASSUME NEW w \in Seq(Mail), w # <<>>
  PROVE  /\ Orderly(w) => Orderly(Tail(w)) /\ Head(w).is # "giveUp"
         /\ Asks(w) = {} => Asks(Tail(w)) = {} /\ Head(w).is # "ask"
         /\ Orderly(w) /\ Head(w).is = "ask" => Asks(Tail(w)) = {}
         /\ Asks(Tail(w)) # {} => Asks(w) # {}
<1>1. /\ Tail(w) \in Seq(Mail) /\ Len(Tail(w)) = Len(w) - 1 /\ Len(w) \in Nat
      /\ \A n \in 1..Len(Tail(w)) : Tail(w)[n] = w[n + 1]
      /\ Head(w) = w[1] /\ Len(w) >= 1
  BY HeadTailProperties, LenProperties, EmptySeq
<1>2. \A n \in 1..Len(Tail(w)) : n + 1 \in 1..Len(w)
  BY <1>1
<1>3. \A n \in Asks(Tail(w)) : n + 1 \in Asks(w)
  BY <1>1, <1>2 DEF Asks
<1>4. Head(w).is = "ask" <=> 1 \in Asks(w)
  BY <1>1 DEF Asks
<1>5. \A n \in Asks(Tail(w)) : n \in Nat /\ n >= 1
  BY <1>1 DEF Asks
<1>6. ASSUME Orderly(w) PROVE Orderly(Tail(w)) /\ Head(w).is # "giveUp"
  <2>1. ASSUME NEW m \in Asks(Tail(w)), NEW n \in Asks(Tail(w)) PROVE m = n
    <3>1. m + 1 = n + 1
      BY <1>3, <1>6 DEF Orderly
    <3> QED  BY <3>1, <1>5
  <2>2. \A n \in 1..Len(Tail(w)) : Tail(w)[n].is # "giveUp"
    BY <1>1, <1>2, <1>6 DEF Orderly
  <2>3. w[1].is # "giveUp"
    BY <1>1, <1>6 DEF Orderly
  <2> QED  BY <2>1, <2>2, <2>3, <1>1 DEF Orderly
<1>7. ASSUME Orderly(w), Head(w).is = "ask", NEW n \in Asks(Tail(w)) PROVE FALSE
  <2>1. n + 1 = 1
    BY <1>3, <1>4, <1>7 DEF Orderly
  <2> QED  BY <2>1, <1>5
<1> QED  BY <1>3, <1>4, <1>6, <1>7

(* Writing rows asks for nothing.                                          *)
LEMMA RowsAskNothing ==
  ASSUME NEW w \in Seq(Mail), NEW s \in Seq(Mail), \A n \in 1..Len(s) : s[n].is = "rows"
  PROVE  Asks(w \o s) = Asks(w) /\ (Orderly(w) => Orderly(w \o s))
<1>1. /\ w \o s \in Seq(Mail) /\ Len(w \o s) = Len(w) + Len(s)
      /\ Len(w) \in Nat /\ Len(s) \in Nat
      /\ \A n \in 1..Len(w) : (w \o s)[n] = w[n]
      /\ \A n \in 1..Len(s) : (w \o s)[Len(w) + n] = s[n]
  BY Joined
<1>2. ASSUME NEW n \in 1..Len(w \o s), n \notin 1..Len(w) PROVE (w \o s)[n].is = "rows"
  <2>1. n - Len(w) \in 1..Len(s) /\ Len(w) + (n - Len(w)) = n
    BY <1>1, <1>2
  <2> QED  BY <2>1, <1>1
<1>3. \A n \in 1..Len(w) : n \in 1..Len(w \o s)
  BY <1>1
<1>4. Asks(w \o s) = Asks(w)
  <2>1. \A n \in Asks(w \o s) : n \in Asks(w)
    BY <1>1, <1>2 DEF Asks
  <2>2. \A n \in Asks(w) : n \in Asks(w \o s)
    BY <1>1, <1>3 DEF Asks
  <2> QED  BY <2>1, <2>2
<1>5. ASSUME Orderly(w), NEW n \in 1..Len(w \o s) PROVE (w \o s)[n].is # "giveUp"
  <2>1. CASE n \in 1..Len(w)
    BY <2>1, <1>1, <1>5 DEF Orderly
  <2>2. CASE n \notin 1..Len(w)
    BY <2>2, <1>2
  <2> QED  BY <2>1, <2>2
<1> QED  BY <1>4, <1>5 DEF Orderly

LEMMA AskedOnce ==
  ASSUME NEW w \in Seq(Mail), Asks(w) = {}, Orderly(w)
  PROVE  Orderly(Append(w, R!Ask))
<1>1. /\ Append(w, R!Ask) \in Seq(Mail) /\ Len(Append(w, R!Ask)) = Len(w) + 1
      /\ Len(w) \in Nat /\ Append(w, R!Ask)[Len(w) + 1] = R!Ask
      /\ \A n \in 1..Len(w) : Append(w, R!Ask)[n] = w[n]
  BY AppendIs DEF Mail
<1>2. \A n \in 1..Len(w) + 1 : n # Len(w) + 1 => n \in 1..Len(w)
  BY <1>1
<1>3. \A n \in Asks(Append(w, R!Ask)) : n = Len(w) + 1
  BY <1>1, <1>2 DEF Asks
<1>4. R!Ask.is = "ask"
  BY DEF R!Ask
<1>5. \A n \in 1..Len(Append(w, R!Ask)) : Append(w, R!Ask)[n].is # "giveUp"
  BY <1>1, <1>2, <1>4 DEF Orderly
<1> QED  BY <1>3, <1>5 DEF Orderly

-----------------------------------------------------------------------------
(* What keeps one who follows another's rows following them: reading of    *)
(* what it asked, other frames put among those it is sent or taken from    *)
(* them, rows sent the other way, its first frame taken, a change queued,  *)
(* its asking and the taking of what it asked.                             *)
LEMMA FollowsRead ==
  ASSUME NEW i, NEW j, NEW x \in Seq(Mail), NEW q, NEW h, NEW r, NEW S,
         NEW v, Following(i, j, x, q, h, r, S, v), x # <<>>
  PROVE  Head(x).is # "giveUp" /\ (Head(x).is # "ask" => Following(i, j, Tail(x), q, h, r, S, v))
<1>1. /\ Orderly(Tail(x)) /\ Head(x).is # "giveUp"
      /\ Asks(x) = {} => Asks(Tail(x)) = {}
      /\ Asks(Tail(x)) # {} => Asks(x) # {}
  BY FirstAsked DEF Following
<1> QED  BY <1>1 DEF Following

LEMMA FollowsPut ==
  ASSUME NEW i, NEW j, NEW x, NEW q \in Seq(Mail), NEW p \in Seq(Mail), NEW h, NEW r,
         NEW S, NEW v, NEW c, NEW f,
         Put(q, c, f, p), ~(f.is = "rows" /\ f.of = j)
  PROVE  Following(i, j, x, q, h, r, S, v) <=> Following(i, j, x, p, h, r, S, v)
<1>1. Mute(q, j) <=> Mute(p, j)
  BY PutIsMute
<1>2. R!ComesTo(q, h, j, r) <=> R!ComesTo(p, h, j, r)
  BY PutIsMute
<1> QED  BY <1>1, <1>2 DEF Following

LEMMA FollowsWritten ==
  ASSUME NEW i, NEW j, NEW x \in Seq(Mail), NEW s \in Seq(Mail), NEW q, NEW h, NEW r,
         NEW S, NEW v,
         Following(i, j, x, q, h, r, S, v), \A n \in 1..Len(s) : s[n].is = "rows"
  PROVE  Following(i, j, x \o s, q, h, r, S, v)
BY RowsAskNothing DEF Following

LEMMA FollowsTaken ==
  ASSUME NEW i, NEW j \in Two, NEW x, NEW q \in Seq(Mail), NEW h \in R!Rows, NEW r \in R!Rows,
         NEW S, NEW v, q # <<>>,
         Following(i, j, x, q, h, r, S, v), Head(q) \in RowFrame, Head(q).of = j
  PROVE  Following(i, j, x, Tail(q), R!Onto(h, Head(q)), r, S, v)
<1>1. i \in S
  <2>1. 1 \in 1..Len(q) /\ Head(q) = q[1]
    BY HeadTailProperties, LenProperties, EmptySeq
  <2>2. ~Mute(q, j)
    BY <2>1, FrameSays DEF Mute
  <2> QED  BY <2>2 DEF Following
<1>2. R!ComesTo(Tail(q), R!Onto(h, Head(q)), j, r)
  BY <1>1, TakesFirst DEF Following
<1> QED  BY <1>1, <1>2 DEF Following

LEMMA FollowsChange ==
  ASSUME NEW i, NEW j \in Two, NEW x, NEW q \in Seq(Mail), NEW p \in Seq(Mail), NEW h,
         NEW r \in R!Rows, NEW S, NEW v,
         NEW k \in Key, NEW z \in Said,
         Following(i, j, x, q, h, r, S, v),
         IF i \in S THEN Put(q, Len(q), R!Frame(j, FALSE, [y \in {k} |-> z]), p) ELSE p = q
  PROVE  Following(i, j, x, p, h, [r EXCEPT ![k] = z], S, v)
<1> DEFINE f == R!Frame(j, FALSE, [y \in {k} |-> z])
<1>0. Following(i, j, x, q, h, r, S, v) /\ (IF i \in S THEN Put(q, Len(q), f, p) ELSE p = q)
  OBVIOUS
<1> HIDE DEF f
<1>1. CASE i \notin S
  BY <1>0, <1>1 DEF Following
<1>2. CASE i \in S
  <2>1. f \in RowFrame /\ f.is = "rows" /\ f.of = j /\ f.whole = FALSE
        /\ f.said = [y \in {k} |-> z]
    <3> DEFINE s == [y \in {k} |-> z]
    <3>1. DOMAIN s \subseteq Key /\ s \in [DOMAIN s -> Said]
      OBVIOUS
    <3> HIDE DEF s
    <3>2. f = R!Frame(j, FALSE, s)
      BY DEF s, f
    <3>3. f \in RowFrame
      BY <3>1, <3>2, FrameIs
    <3>4. f.is = "rows" /\ f.of = j /\ f.whole = FALSE /\ f.said = s
      BY <3>2 DEF R!Frame
    <3> QED  BY <3>3, <3>4 DEF s
  <2>2. DOMAIN f.said = {k} /\ f.said[k] = z
    BY <2>1
  <2>3. \A y : R!Speaks(f, j, y) <=> y = k
    BY <2>1, <2>2 DEF R!Speaks
  <2>4. R!Says(f, k) = z
    BY <2>2 DEF R!Says
  <2>5. f \in Mail
    BY <2>1, RowFrameIsMail
  <2>6. Put(q, Len(q), f, p) /\ R!ComesTo(q, h, j, r)
    BY <1>0, <1>2 DEF Following
  <2>7. R!ComesTo(p, h, j, [r EXCEPT ![k] = z])
    BY <2>3, <2>4, <2>5, <2>6, LastSays
  <2> QED  BY <1>0, <1>2, <2>7 DEF Following
<1> QED  BY <1>1, <1>2

LEMMA FollowsAsking ==
  ASSUME NEW i, NEW j, NEW x \in Seq(Mail), NEW q, NEW h, NEW r, NEW S,
         NEW v, v # Unheld, Following(i, j, x, q, h, r, S, Unheld)
  PROVE  /\ Following(i, j, Append(x, R!Ask), q, h, r, S, v)
         /\ \A y : Following(i, j, Append(x, R!Ask), q, y, r, S, v)
<1>1. i \notin S /\ Asks(x) = {} /\ Orderly(x)
  BY DEF Following
<1>2. Orderly(Append(x, R!Ask))
  BY <1>1, AskedOnce
<1> QED  BY <1>1, <1>2 DEF Following

LEMMA FollowsOpened ==
  ASSUME NEW i, NEW j, NEW x \in Seq(Mail), NEW w \in Seq(Mail), NEW s \in Seq(Mail),
         NEW o \in Seq(Mail), NEW h, NEW r, NEW S, NEW v, NEW T,
         i \in T, x # <<>>, Head(x).is = "ask", Following(i, j, x, w \o o, h, r, S, v),
         Len(s) >= 1, \A y \in Key : R!Speaks(s[1], j, y) /\ R!Says(s[1], y) = r[y],
         \A n \in 2..Len(s) : ~(s[n].is = "rows" /\ s[n].of = j)
  PROVE  Following(i, j, Tail(x), (w \o s) \o o, h, r, T, v)
<1>1. 1 \in Asks(x)
  <2>1. 1 \in 1..Len(x) /\ Head(x) = x[1]
    BY HeadTailProperties, LenProperties, EmptySeq
  <2> QED  BY <2>1 DEF Asks
<1>2. i \notin S /\ Mute(w \o o, j) /\ Orderly(x) /\ v # Unheld
  BY <1>1 DEF Following
<1>3. Orderly(Tail(x)) /\ Asks(Tail(x)) = {}
  BY <1>2, FirstAsked
<1>4. Mute(w, j) /\ Mute(o, j)
  <2>1. /\ Len(w \o o) = Len(w) + Len(o) /\ Len(w) \in Nat /\ Len(o) \in Nat
        /\ \A n \in 1..Len(w) : (w \o o)[n] = w[n]
        /\ \A n \in 1..Len(o) : (w \o o)[Len(w) + n] = o[n]
    BY Joined
  <2>2. \A n \in 1..Len(w) : n \in 1..Len(w \o o)
    BY <2>1
  <2>3. \A n \in 1..Len(o) : Len(w) + n \in 1..Len(w \o o)
    BY <2>1
  <2> QED  BY <1>2, <2>1, <2>2, <2>3 DEF Mute
<1>5. R!ComesTo((w \o s) \o o, h, j, r)
  BY <1>4, OpeningSays
<1> QED  BY <1>2, <1>3, <1>5 DEF Following

(* With no subscription and nothing of the rows on its way, only asking is *)
(* left to be so.                                                          *)
LEMMA FollowsAfresh ==
  ASSUME NEW i, NEW j, NEW x, NEW q, NEW h, NEW r, NEW S, NEW v,
         i \notin S, Mute(q, j), x = <<>> \/ (x = <<R!Ask>> /\ v # Unheld)
  PROVE  Following(i, j, x, q, h, r, S, v)
<1>1. CASE x = <<>>
  <2>1. Asks(x) = {} /\ Orderly(x)
    BY <1>1 DEF Asks, Orderly
  <2> QED  BY <2>1 DEF Following
<1>2. CASE x = <<R!Ask>> /\ v # Unheld
  <2>1. Len(x) = 1 /\ x[1] = R!Ask
    BY <1>2
  <2>2. \A n \in Asks(x) : n = 1
    BY <2>1 DEF Asks
  <2>3. \A n \in 1..Len(x) : x[n].is # "giveUp"
    BY <2>1 DEF R!Ask
  <2>4. Orderly(x)
    BY <2>2, <2>3 DEF Orderly
  <2> QED  BY <2>4, <1>2 DEF Following
<1> QED  BY <1>1, <1>2

LEMMA NothingIsSaid ==
  ASSUME NEW j
  PROVE  Mute(<<>> \o <<>>, j) /\ Mute(<<R!Ask>> \o <<>>, j)
<1>1. <<>> \o <<>> = <<>> /\ <<R!Ask>> \o <<>> = <<R!Ask>>
  OBVIOUS
<1>2. Len(<<R!Ask>>) = 1 /\ <<R!Ask>>[1] = R!Ask
  OBVIOUS
<1> QED  BY <1>1, <1>2 DEF Mute, R!Ask

-----------------------------------------------------------------------------
(* What has been out of reach too long is dropped; over a link nothing is. *)
LEMMA SweptIs ==
  ASSUME TwoApart, RelayTypes, NEW i \in Two
  PROVE  /\ R!Swept(i) \in [Two -> HeldRows]
         /\ \A j \in Two : R!Swept(i)[j] \in {held[i][j], Unheld}
         /\ R!SweptMarks(i) \in [Two -> Int]
         /\ \A j \in Two : R!SweptMarks(i)[j] \in {lostAt[i][j], -1}
         /\ R!SweptView(i) \in Views \cup {Unheld}
         /\ R!SweptView(i) = Unheld <=> view[i] = Unheld
         /\ view[i] # Unheld =>
              \A j \in Two : IF j \in R!Past(i) THEN R!SweptView(i)[j] = Unheld
                             ELSE /\ R!SweptView(i)[j] = view[i][j]
                                  /\ R!Swept(i)[j] = held[i][j]
<1>1. /\ held[i] \in [Two -> HeldRows] /\ lostAt[i] \in [Two -> Int]
      /\ view[i] \in Views \cup {Unheld}
  BY DEF RelayTypes
<1>2. Unheld \in HeldRows /\ Unheld \notin Views
  BY DEF HeldRows, TwoApart
<1>3. /\ R!Swept(i) = [j \in Two |-> IF j \in R!Past(i) THEN Unheld ELSE held[i][j]]
      /\ R!SweptMarks(i) = [j \in Two |-> IF j \in R!Past(i) THEN -1 ELSE lostAt[i][j]]
  BY DEF R!Swept, R!SweptMarks, Two
<1>4. view[i] # Unheld =>
        /\ R!SweptView(i) = [j \in Two |-> IF j \in R!Past(i) THEN Unheld ELSE view[i][j]]
        /\ view[i] \in Views
  BY <1>1 DEF R!SweptView, Two
<1>5. view[i] # Unheld => R!SweptView(i) \in Views
  BY <1>2, <1>4 DEF Views
<1>6. view[i] = Unheld => R!SweptView(i) = Unheld
  BY DEF R!SweptView
<1> QED  BY <1>1, <1>2, <1>3, <1>4, <1>5, <1>6

LEMMA LinkedIsKept ==
  ASSUME TwoApart, RelayTypes, NEW i \in Two, NEW j \in Two, i # j,
         {i, j} \in upInRelay, UpIsUnmarked(i, j), NothingOfItself(i)
  PROVE  /\ R!Swept(i) = held[i] /\ R!SweptMarks(i) = lostAt[i]
         /\ R!SweptView(i) = view[i]
<1>1. \A x \in Two : x = i \/ x = j
  BY DEF Two
<1>2. R!Past(i) = {}
  BY <1>1 DEF R!Past, UpIsUnmarked, NothingOfItself, Two
<1>3. held[i] \in [Two -> HeldRows] /\ lostAt[i] \in [Two -> Int]
      /\ view[i] \in Views \cup {Unheld}
  BY DEF RelayTypes
<1>4. view[i] # Unheld => view[i] \in [Two -> HeldRows]
  BY <1>3 DEF Views
<1> QED  BY <1>2, <1>3, <1>4 DEF R!Swept, R!SweptMarks, R!SweptView, Two

LEMMA StatedIsRows ==
  ASSUME TwoApart, NEW h \in HeldRows
  PROVE  R!Stated(h) \in R!Rows
BY DEF R!Stated, HeldRows, R!NoRows, R!Rows

(* The rows there are say of every name what is held of it.                *)
LEMMA StandingSays ==
  ASSUME NEW r \in R!Rows, NEW i \in Two
  PROVE  /\ R!Frame(i, TRUE, R!Standing(r)) \in RowFrame
         /\ R!Frame(i, TRUE, R!Standing(r)).is = "rows"
         /\ R!Frame(i, TRUE, R!Standing(r)).of = i
         /\ \A k \in Key : /\ R!Speaks(R!Frame(i, TRUE, R!Standing(r)), i, k)
                           /\ R!Says(R!Frame(i, TRUE, R!Standing(r)), k) = r[k]
<1> DEFINE K == {x \in Key : r[x] # Gone}
           f == R!Frame(i, TRUE, R!Standing(r))
<1>1. DOMAIN R!Standing(r) \subseteq Key /\ R!Standing(r) \in [DOMAIN R!Standing(r) -> Said]
  BY DEF R!Standing, R!Rows, Said
<1>2. f \in RowFrame /\ f.is = "rows" /\ f.of = i /\ f.whole = TRUE
      /\ f.said = R!Standing(r)
  BY <1>1, FrameIs DEF R!Frame
<1>3. DOMAIN f.said = K /\ \A k \in K : f.said[k] = r[k]
  BY <1>2 DEF R!Standing
<1>4. \A k \in Key : R!Speaks(f, i, k)
  BY <1>2 DEF R!Speaks
<1>5. \A k \in Key : R!Says(f, k) = r[k]
  BY <1>3 DEF R!Says
<1> QED  BY <1>2, <1>4, <1>5

LEMMA OrderOfMany ==
  ASSUME NEW M, IsFiniteSet(M)
  PROVE  R!SetToSeq(M) \in Seq(M)
<1> DEFINE n == Cardinality(M)
<1>0. R!Cardinality(M) = Cardinality(M)
  BY DEF R!Cardinality, Cardinality
<1>1. n \in Nat /\ ExistsBijection(1..n, M)
  BY FS_CardinalityType
<1>2. PICK f \in Bijection(1..n, M) : TRUE
  BY <1>1 DEF ExistsBijection
<1>3. f \in [1..n -> M] /\ R!IsInjective(f)
  BY <1>2 DEF Bijection, Injection, IsInjective, R!IsInjective
<1>4. R!SetToSeq(M) \in [1..n -> M]
  BY <1>3, <1>0 DEF R!SetToSeq
<1> QED  BY <1>1, <1>4, SeqDef

LEMMA OpeningsAre ==
  ASSUME TwoApart, RelayTypes, NEW i \in Two, NothingOfItself(i)
  PROVE  /\ R!Openings(i) \in Seq(Mail) /\ Len(R!Openings(i)) >= 1
         /\ \A n \in 1..Len(R!Openings(i)) : R!Openings(i)[n].is = "rows"
         /\ \A k \in Key : /\ R!Speaks(R!Openings(i)[1], i, k)
                           /\ R!Says(R!Openings(i)[1], k) = rows[i][k]
         /\ \A n \in 2..Len(R!Openings(i)) : R!Openings(i)[n].of # i
<1> DEFINE g(x) == R!Frame(x, TRUE, R!Standing(R!Swept(i)[x]))
           M == {g(x) : x \in {y \in Two : R!Swept(i)[y] # Unheld}}
           mine == R!Frame(i, TRUE, R!Standing(rows[i]))
           s == R!SetToSeq(M)
<1>1. R!Swept(i) \in [Two -> HeldRows] /\ R!Swept(i)[i] = Unheld /\ rows[i] \in R!Rows
  BY SweptIs DEF NothingOfItself, RelayTypes
<1>2. \A y \in Two : R!Swept(i)[y] # Unheld => R!Swept(i)[y] \in R!Rows /\ y # i
  BY <1>1 DEF HeldRows
<1>3. \A f \in M : f \in Mail /\ f.is = "rows" /\ f.of # i
  <2> SUFFICES ASSUME NEW y \in Two, R!Swept(i)[y] # Unheld
               PROVE  g(y) \in Mail /\ g(y).is = "rows" /\ g(y).of # i
    OBVIOUS
  <2>1. R!Swept(i)[y] \in R!Rows /\ y # i
    BY <1>2
  <2>2. g(y) \in RowFrame /\ g(y).is = "rows" /\ g(y).of = y
    BY <2>1, StandingSays
  <2> HIDE DEF g
  <2> QED  BY <2>1, <2>2, RowFrameIsMail
<1>4. IsFiniteSet(M)
  <2>1. M \subseteq {g(a), g(b)}
    BY DEF Two
  <2>2. IsFiniteSet({g(a)}) /\ IsFiniteSet({g(b)})
    BY FS_Singleton
  <2>3. IsFiniteSet({g(a)} \cup {g(b)})
    BY <2>2, FS_Union
  <2>4. M \subseteq {g(a)} \cup {g(b)}
    BY <2>1
  <2> QED  BY <2>3, <2>4, FS_Subset
<1>5. s \in Seq(M)
  BY <1>4, OrderOfMany
<1>6. s \in Seq(Mail) /\ \A n \in 1..Len(s) : s[n].is = "rows" /\ s[n].of # i
  BY <1>3, <1>5, SeqMonotonic, ElementOfSeq
<1>7. /\ mine \in Mail /\ mine.is = "rows"
      /\ \A k \in Key : R!Speaks(mine, i, k) /\ R!Says(mine, k) = rows[i][k]
  BY <1>1, StandingSays, RowFrameIsMail
<1>8. R!Openings(i) = <<mine>> \o s
  BY DEF R!Openings, Two
<1> HIDE DEF s, mine, M
<1>9. <<mine>> \in Seq(Mail) /\ Len(<<mine>>) = 1 /\ <<mine>>[1] = mine
  BY <1>7
<1>10. /\ <<mine>> \o s \in Seq(Mail) /\ Len(<<mine>> \o s) = 1 + Len(s)
       /\ Len(s) \in Nat
       /\ (<<mine>> \o s)[1] = mine
       /\ \A n \in 1..Len(s) : (<<mine>> \o s)[1 + n] = s[n]
  BY <1>6, <1>9, Joined
<1>11. ASSUME NEW n \in 2..Len(<<mine>> \o s)
       PROVE  (<<mine>> \o s)[n].is = "rows" /\ (<<mine>> \o s)[n].of # i
  <2>1. n - 1 \in 1..Len(s) /\ 1 + (n - 1) = n
    BY <1>10
  <2> QED  BY <2>1, <1>6, <1>10
<1>12. \A n \in 1..Len(<<mine>> \o s) : (<<mine>> \o s)[n].is = "rows"
  <2> SUFFICES ASSUME NEW n \in 1..Len(<<mine>> \o s) PROVE (<<mine>> \o s)[n].is = "rows"
    OBVIOUS
  <2>1. CASE n = 1
    BY <2>1, <1>7, <1>10
  <2>2. CASE n # 1
    <3>1. n \in 2..Len(<<mine>> \o s)
      BY <2>2, <1>10
    <3> QED  BY <3>1, <1>11
  <2> QED  BY <2>1, <2>2
<1> QED  BY <1>7, <1>8, <1>10, <1>11, <1>12

-----------------------------------------------------------------------------
(* The steps: what each leaves of the invariant, pair by pair.             *)
LEMMA BothWays ==
  ASSUME NEW i \in Two, NEW j \in Two, i # j, RelayTypes', Pair(i, j)', Pair(j, i)',
         NothingOfItself(i)', NothingOfItself(j)'
  PROVE  RelayIInv'
<1>1. \A x \in Two : x = i \/ x = j
  BY DEF Two
<1>2. \A x, y \in Two : x # y => (x = i /\ y = j) \/ (x = j /\ y = i)
  BY <1>1
<1>3. \A x, y \in Two : x # y => Pair(x, y)'
  BY <1>2
<1>4. \A x \in Two : NothingOfItself(x)'
  BY <1>1
<1> QED  BY <1>3, <1>4 DEF RelayIInv

LEMMA OverALink ==
  ASSUME TwoApart, RelayIInv, NEW i \in Two, NEW j \in Two, {i, j} \in upInRelay
  PROVE  /\ i # j /\ {j, i} = {i, j} /\ RelayTypes /\ Pair(i, j) /\ Pair(j, i)
         /\ NothingOfItself(i) /\ NothingOfItself(j)
         /\ R!Swept(i) = held[i] /\ R!SweptMarks(i) = lostAt[i] /\ R!SweptView(i) = view[i]
         /\ R!Peers(i) = {j}
<1>1. {i, j} = {a, b} /\ RelayTypes
  BY DEF RelayIInv, RelayTypes, Two
<1>2. i # j
  BY <1>1 DEF TwoApart
<1>3. Pair(i, j) /\ Pair(j, i) /\ NothingOfItself(i) /\ NothingOfItself(j)
  BY <1>2 DEF RelayIInv
<1>4. R!Peers(i) = {j}
  BY <1>1, <1>2 DEF R!Peers
<1> QED  BY <1>1, <1>2, <1>3, <1>4, LinkedIsKept DEF Pair

(* The parts of the state that a pair speaks of.                           *)
LEMMA PartsTyped ==
  ASSUME RelayTypes, NEW i \in Two, NEW j \in Two
  PROVE  /\ wire[i][j] \in Seq(Mail) /\ out[i][j] \in Seq(RowFrame) /\ out[i][j] \in Seq(Mail)
         /\ held[i][j] \in HeldRows /\ rows[i] \in R!Rows /\ subs[i] \in SUBSET Two
         /\ view[i] \in Views \cup {Unheld}
<1>1. out[i][j] \in Seq(RowFrame)
  BY DEF RelayTypes
<1>2. out[i][j] \in Seq(Mail)
  BY <1>1, RowFrameIsMail, SeqMonotonic
<1> QED  BY <1>1, <1>2 DEF RelayTypes

LEMMA AskIsTaken ==
  ASSUME TwoApart, RelayIInv, NEW i \in Two, NEW j \in Two, {i, j} \in upInRelay,
         wire[j][i] # <<>>, Head(wire[j][i]).is = "ask",
         R!TakeAsk(i, j, Tail(wire[j][i])), UNCHANGED <<rows, upInRelay, givenUp, clock>>
  PROVE  RelayIInv'
<1> DEFINE x == wire[j][i]
           w == wire[i][j]
           s == R!Openings(i)
<1>1. /\ i # j /\ {j, i} = {i, j} /\ RelayTypes /\ Pair(i, j) /\ Pair(j, i)
      /\ NothingOfItself(i) /\ NothingOfItself(j)
      /\ R!Swept(i) = held[i] /\ R!SweptMarks(i) = lostAt[i] /\ R!SweptView(i) = view[i]
  BY OverALink
<1>2. /\ held' = held /\ lostAt' = lostAt /\ view' = view
      /\ out' = out /\ rows' = rows /\ upInRelay' = upInRelay /\ givenUp' = givenUp
  BY <1>1 DEF R!TakeAsk, RelayTypes
<1>3. /\ s \in Seq(Mail) /\ Len(s) >= 1
      /\ \A n \in 1..Len(s) : s[n].is = "rows"
      /\ \A k \in Key : R!Speaks(s[1], i, k) /\ R!Says(s[1], k) = rows[i][k]
      /\ \A n \in 2..Len(s) : s[n].of # i
  BY <1>1, OpeningsAre
<1>4. /\ x \in Seq(Mail) /\ w \in Seq(Mail) /\ out[j][i] \in Seq(Mail)
      /\ out[i][j] \in Seq(Mail)
      /\ held[i][j] \in HeldRows /\ held[j][i] \in HeldRows
      /\ rows[i] \in R!Rows /\ rows[j] \in R!Rows
  BY <1>1, PartsTyped
<1>5. /\ Tail(x) \in Seq(Mail) /\ Put(Tail(x) \o out[j][i], 0, Head(x), x \o out[j][i])
      /\ x \o out[j][i] \in Seq(Mail) /\ Tail(x) \o out[j][i] \in Seq(Mail)
      /\ w \o s \in Seq(Mail)
  BY <1>3, <1>4, FirstOfJoined, Joined
<1>6. wire' = [wire EXCEPT ![j][i] = Tail(x), ![i][j] = w \o s]
  BY <1>1 DEF R!TakeAsk, RelayTypes
<1>7. /\ wire' \in [Two -> [Two -> Seq(Mail)]]
      /\ wire'[j][i] = Tail(x) /\ wire'[i][j] = w \o s
  BY <1>1, <1>5, <1>6 DEF RelayTypes
<1>8. subs' = [subs EXCEPT ![i] = subs[i] \cup {j}]
  BY DEF R!TakeAsk
<1>9. /\ subs' \in [Two -> SUBSET Two] /\ subs'[j] = subs[j] /\ j \in subs'[i]
      /\ i \notin subs'[i]
  BY <1>1, <1>8 DEF RelayTypes, NothingOfItself
<1>10. RelayTypes'
  BY <1>1, <1>2, <1>7, <1>9 DEF RelayTypes
<1> HIDE DEF s, x, w
<1>11. Follows(i, j)'
  <2> SUFFICES ASSUME <<i, j>> \notin givenUp
               PROVE  Following(i, j, w \o s, Tail(x) \o out[j][i], R!Stated(held[i][j]), rows[j],
                                subs[j], view[i])
    BY <1>2, <1>7, <1>9 DEF Follows
  <2>1. Following(i, j, w, x \o out[j][i], R!Stated(held[i][j]), rows[j],
                  subs[j], view[i])
    BY <1>1 DEF Pair, Follows, x, w
  <2>2. Following(i, j, w, Tail(x) \o out[j][i], R!Stated(held[i][j]), rows[j],
                  subs[j], view[i])
    <3>1. ~(Head(x).is = "rows" /\ Head(x).of = j)
      BY DEF x
    <3> QED  BY <2>1, <3>1, <1>5, FollowsPut
  <2> QED  BY <2>2, <1>3, <1>4, FollowsWritten
<1>12. Follows(j, i)'
  <2> SUFFICES ASSUME <<j, i>> \notin givenUp
               PROVE  Following(j, i, Tail(x), (w \o s) \o out[i][j], R!Stated(held[j][i]), rows[i],
                                subs'[i], view[j])
    BY <1>2, <1>7, <1>9 DEF Follows
  <2>1. Following(j, i, x, w \o out[i][j], R!Stated(held[j][i]), rows[i],
                  subs[i], view[j])
    BY <1>1 DEF Pair, Follows, x, w
  <2>2. x # <<>> /\ Head(x).is = "ask"
    BY DEF x
  <2>3. \A n \in 2..Len(s) : ~(s[n].is = "rows" /\ s[n].of = i)
    BY <1>3
  <2>4. j \in subs'[i]
    BY <1>9
  <2> QED  BY <2>1, <2>2, <2>3, <2>4, <1>3, <1>4, FollowsOpened
<1>13. Pair(i, j)' /\ Pair(j, i)'
  BY <1>1, <1>2, <1>11, <1>12 DEF Pair, DownIsEmpty, UpIsUnmarked, SeesHeld
<1>14. NothingOfItself(i)' /\ NothingOfItself(j)'
  BY <1>1, <1>2, <1>9 DEF NothingOfItself
<1> QED  BY <1>1, <1>10, <1>13, <1>14, BothWays

LEMMA GiveUpIsTaken ==
  ASSUME TwoApart, RelayIInv, NEW i \in Two, NEW j \in Two, {i, j} \in upInRelay,
         wire[j][i] # <<>>, Head(wire[j][i]).is = "giveUp",
         subs' = [subs EXCEPT ![i] = subs[i] \ {j}],
         wire' = [wire EXCEPT ![j][i] = Tail(wire[j][i])],
         UNCHANGED <<held, lostAt, out, view, rows, upInRelay, givenUp, clock>>
  PROVE  RelayIInv'
<1> DEFINE x == wire[j][i]
           w == wire[i][j]
<1>1. /\ i # j /\ {j, i} = {i, j} /\ RelayTypes /\ Pair(i, j) /\ Pair(j, i)
      /\ NothingOfItself(i) /\ NothingOfItself(j)
  BY OverALink
<1>2. x \in Seq(Mail) /\ w \in Seq(Mail) /\ out[j][i] \in Seq(Mail)
  BY <1>1, PartsTyped
<1>3. /\ Tail(x) \in Seq(Mail) /\ Put(Tail(x) \o out[j][i], 0, Head(x), x \o out[j][i])
      /\ x \o out[j][i] \in Seq(Mail) /\ Tail(x) \o out[j][i] \in Seq(Mail)
  BY <1>2, FirstOfJoined, Joined
<1>4. /\ wire' \in [Two -> [Two -> Seq(Mail)]] /\ wire'[j][i] = Tail(x) /\ wire'[i][j] = w
  BY <1>1, <1>3 DEF RelayTypes
<1>5. subs' \in [Two -> SUBSET Two] /\ subs'[j] = subs[j] /\ i \notin subs'[i]
  BY <1>1 DEF RelayTypes, NothingOfItself
<1>6. RelayTypes'
  BY <1>1, <1>4, <1>5 DEF RelayTypes
<1>7. Follows(i, j)'
  <2> SUFFICES ASSUME <<i, j>> \notin givenUp
               PROVE  Following(i, j, w, Tail(x) \o out[j][i], R!Stated(held[i][j]), rows[j],
                                subs[j], view[i])
    BY <1>4, <1>5 DEF Follows
  <2>1. Following(i, j, w, x \o out[j][i], R!Stated(held[i][j]), rows[j],
                  subs[j], view[i])
    BY <1>1 DEF Pair, Follows
  <2>2. ~(Head(x).is = "rows" /\ Head(x).of = j)
    OBVIOUS
  <2> QED  BY <2>1, <2>2, <1>3, FollowsPut
<1>8. <<j, i>> \in givenUp
  <2> SUFFICES ASSUME <<j, i>> \notin givenUp PROVE FALSE
    OBVIOUS
  <2>1. Following(j, i, x, w \o out[i][j], R!Stated(held[j][i]), rows[i],
                  subs[i], view[j])
    BY <1>1 DEF Pair, Follows
  <2> HIDE DEF x, w
  <2>2. Head(x).is # "giveUp"
    BY <2>1, <1>2, FollowsRead DEF x
  <2> QED  BY <2>2 DEF x
<1>9. Follows(j, i)'
  BY <1>8 DEF Follows
<1>10. Pair(i, j)' /\ Pair(j, i)'
  BY <1>1, <1>7, <1>9 DEF Pair, DownIsEmpty, UpIsUnmarked, SeesHeld
<1>11. NothingOfItself(i)' /\ NothingOfItself(j)'
  BY <1>1, <1>5 DEF NothingOfItself
<1> QED  BY <1>1, <1>6, <1>10, <1>11, BothWays

LEMMA NewsIs ==
  ASSUME NEW old \in R!Rows, NEW new \in R!Rows, NEW j \in Two
  PROVE  /\ R!Frame(j, FALSE, R!News(old, new)) \in RowFrame
         /\ R!Frame(j, FALSE, R!News(old, new)).is = "rows"
         /\ R!Frame(j, FALSE, R!News(old, new)).of = j
         /\ R!Onto(old, R!Frame(j, FALSE, R!News(old, new))) = new
         /\ DOMAIN R!News(old, new) = {} => old = new
<1> DEFINE K == {x \in Key : old[x] # new[x]}
           s == R!News(old, new)
           f == R!Frame(j, FALSE, s)
<1>1. /\ DOMAIN s = K /\ K \subseteq Key /\ s \in [DOMAIN s -> Said]
      /\ \A k \in K : s[k] = new[k]
  BY DEF R!News, R!Rows, Said
<1>2. f \in RowFrame
  BY <1>1, FrameIs
<1>3. f.is = "rows" /\ f.of = j /\ f.whole = FALSE /\ f.said = s
  BY DEF R!Frame
<1>4. \A k \in Key : R!Onto(old, f)[k] = new[k]
  BY <1>1, <1>3 DEF R!Onto
<1>5. R!Onto(old, f) = new
  <2>1. R!Onto(old, f) \in R!Rows
    BY <1>2, OntoIs
  <2> DEFINE m == R!Onto(old, f)
  <2>2. m \in [Key -> Said] /\ new \in [Key -> Said] /\ \A k \in Key : m[k] = new[k]
    BY <2>1, <1>4 DEF R!Rows, Said
  <2> HIDE DEF m
  <2>3. m = new
    BY <2>2
  <2> QED  BY <2>3 DEF m
<1>6. K = {} => old = new
  BY DEF R!Rows
<1> QED  BY <1>1, <1>2, <1>3, <1>5, <1>6

(* News queued for those who are subscribed.                               *)
LEMMA QueuedIs ==
  ASSUME TwoApart, RelayTypes, NEW i \in Two, NEW f \in RowFrame
  PROVE  /\ R!Queued(i, f) \in [Two -> Seq(RowFrame)]
         /\ \A j \in Two : R!Queued(i, f)[j] =
              IF j \in subs[i] THEN Append(out[i][j], f) ELSE out[i][j]
<1>1. \A j \in Two : out[i][j] \in Seq(RowFrame)
  BY DEF RelayTypes
<1>2. \A j \in Two : Append(out[i][j], f) \in Seq(RowFrame)
  BY <1>1, AppendProperties
<1>3. R!Queued(i, f) = [j \in Two |-> IF j \in subs[i] THEN Append(out[i][j], f)
                                        ELSE out[i][j]]
  BY DEF R!Queued, Two
<1> QED  BY <1>1, <1>2, <1>3

LEMMA ShownIs ==
  ASSUME TwoApart, NEW v \in Views \cup {Unheld}, NEW f \in RowFrame
  PROVE  /\ R!Shown(v, f) \in Views \cup {Unheld}
         /\ R!Shown(v, f) = Unheld <=> v = Unheld
         /\ \A j \in Two : v # Unheld /\ j # f.of => R!Shown(v, f)[j] = v[j]
         /\ v # Unheld => R!Shown(v, f)[f.of] =
              IF v[f.of] = Unheld THEN Unheld ELSE R!Onto(v[f.of], f)
<1>1. f.of \in Two
  BY FrameSays
<1>2. CASE v = Unheld
  BY <1>2 DEF R!Shown
<1>3. CASE v # Unheld
  <2>1. v \in [Two -> HeldRows] /\ Unheld \notin Views
    BY <1>3 DEF Views, TwoApart
  <2>2. CASE v[f.of] = Unheld
    BY <1>3, <2>1, <2>2 DEF R!Shown, Views
  <2>3. CASE v[f.of] # Unheld
    <3>1. v[f.of] \in R!Rows
      BY <1>1, <2>1, <2>3 DEF HeldRows
    <3>2. R!Onto(v[f.of], f) \in HeldRows
      BY <3>1, OntoIs DEF HeldRows
    <3>3. R!Shown(v, f) = [v EXCEPT ![f.of] = R!Onto(v[f.of], f)]
      BY <1>3, <2>3 DEF R!Shown
    <3>4. R!Shown(v, f) \in Views
      BY <1>1, <2>1, <3>2, <3>3 DEF Views
    <3> QED  BY <1>1, <1>3, <2>1, <2>3, <3>3, <3>4
  <2> QED  BY <2>2, <2>3
<1> QED  BY <1>2, <1>3

(* What was accepted of j by i, over the link they have.                   *)
LEMMA AcceptedIs ==
  ASSUME TwoApart, RelayIInv, NEW i \in Two, NEW j \in Two, {i, j} \in upInRelay,
         NEW f \in RowFrame, f.of = j, R!Accept(i, f)
  PROVE  /\ held' \in [Two -> [Two -> HeldRows]] /\ view' \in [Two -> Views \cup {Unheld}]
         /\ out' \in [Two -> [Two -> Seq(RowFrame)]] /\ lostAt' = lostAt
         /\ held'[i][j] = R!Onto(R!Stated(held[i][j]), f) /\ held'[j] = held[j]
         /\ held'[i][j] \in R!Rows /\ held'[i][i] = Unheld
         /\ view'[j] = view[j] /\ (view'[i] = Unheld <=> view[i] = Unheld)
         /\ view[i] # Unheld => view'[i][j] \in {held'[i][j], Unheld}
         /\ out'[j] = out[j]
         /\ \/ out'[i][j] = out[i][j]
            \/ \E g \in RowFrame : g.of = j /\ out'[i][j] = Append(out[i][j], g)
<1>1. /\ i # j /\ {j, i} = {i, j} /\ RelayTypes /\ Pair(i, j) /\ Pair(j, i)
      /\ NothingOfItself(i) /\ NothingOfItself(j)
      /\ R!Swept(i) = held[i] /\ R!SweptMarks(i) = lostAt[i] /\ R!SweptView(i) = view[i]
  BY OverALink
<1> DEFINE old == R!Stated(held[i][j])
           new == R!Onto(old, f)
           g == R!Frame(j, FALSE, R!News(old, new))
<1>2. /\ held[i] \in [Two -> HeldRows] /\ held[i][j] \in HeldRows
      /\ view[i] \in Views \cup {Unheld} /\ held[i][i] = Unheld
  BY <1>1 DEF RelayTypes, NothingOfItself
<1>3. old \in R!Rows
  BY <1>2, StatedIsRows
<1>4. new \in R!Rows
  BY <1>3, OntoIs
<1>5. /\ g \in RowFrame /\ g.of = j /\ R!Onto(old, g) = new
      /\ DOMAIN R!News(old, new) = {} => old = new
  BY <1>3, <1>4, NewsIs
<1>6. view[i] # Unheld => view[i][j] \in {old, Unheld}
  BY <1>1 DEF Pair, SeesHeld
<1>7. /\ held' = [held EXCEPT ![i] = [held[i] EXCEPT ![j] = new]]
      /\ lostAt' = lostAt
      /\ IF DOMAIN R!News(old, new) = {}
         THEN view' = view /\ out' = out
         ELSE /\ view' = [view EXCEPT ![i] = IF view[i] = Unheld THEN Unheld
                                             ELSE R!Shown(view[i], g)]
              /\ out' = [out EXCEPT ![i] = R!Queued(i, g)]
  <2>1. g.said = R!News(old, new)
    BY DEF R!Frame
  <2>2. f.of # i
    BY <1>1
  <2>3. lostAt = [lostAt EXCEPT ![i] = lostAt[i]] /\ view = [view EXCEPT ![i] = view[i]]
    BY <1>1 DEF RelayTypes
  <2> QED  BY <1>1, <2>1, <2>2, <2>3 DEF R!Accept
<1> HIDE DEF old, new, g
<1>8. /\ held' \in [Two -> [Two -> HeldRows]] /\ held'[i][j] = new /\ held'[j] = held[j]
      /\ held'[i][i] = Unheld
  <2>1. new \in HeldRows
    BY <1>4 DEF HeldRows
  <2> QED  BY <2>1, <1>1, <1>2, <1>7 DEF RelayTypes
<1>9. CASE DOMAIN R!News(old, new) = {}
  <2>1. view' = view /\ out' = out /\ old = new
    BY <1>5, <1>7, <1>9
  <2> QED  BY <2>1, <1>1, <1>4, <1>6, <1>7, <1>8 DEF RelayTypes, old, new
<1>10. CASE DOMAIN R!News(old, new) # {}
  <2>1. R!Queued(i, g) \in [Two -> Seq(RowFrame)]
        /\ R!Queued(i, g)[j] = IF j \in subs[i] THEN Append(out[i][j], g) ELSE out[i][j]
    BY <1>1, <1>5, QueuedIs
  <2>2. out' = [out EXCEPT ![i] = R!Queued(i, g)]
    BY <1>7, <1>10
  <2>3. /\ out' \in [Two -> [Two -> Seq(RowFrame)]] /\ out'[j] = out[j]
        /\ out'[i][j] = IF j \in subs[i] THEN Append(out[i][j], g) ELSE out[i][j]
    BY <2>1, <2>2, <1>1 DEF RelayTypes
  <2> DEFINE shown == IF view[i] = Unheld THEN Unheld ELSE R!Shown(view[i], g)
  <2>4. /\ shown \in Views \cup {Unheld} /\ (shown = Unheld <=> view[i] = Unheld)
        /\ view[i] # Unheld => shown[j] \in {new, Unheld}
    BY <1>2, <1>5, <1>6, ShownIs
  <2>5. view' = [view EXCEPT ![i] = shown]
    BY <1>7, <1>10
  <2> HIDE DEF shown
  <2>6. /\ view' \in [Two -> Views \cup {Unheld}] /\ view'[j] = view[j] /\ view'[i] = shown
    BY <2>4, <2>5, <1>1 DEF RelayTypes
  <2> QED  BY <2>3, <2>4, <2>6, <1>4, <1>5, <1>7, <1>8 DEF old, new
<1> QED  BY <1>9, <1>10

LEMMA RowsAreTaken ==
  ASSUME TwoApart, RelayIInv, NEW i \in Two, NEW j \in Two, {i, j} \in upInRelay,
         wire[j][i] # <<>>, Head(wire[j][i]).is = "rows", R!Accept(i, Head(wire[j][i])),
         wire' = [wire EXCEPT ![j][i] = Tail(wire[j][i])],
         UNCHANGED <<subs, rows, upInRelay, givenUp, clock>>
  PROVE  RelayIInv'
<1> DEFINE x == wire[j][i]
           w == wire[i][j]
           f == Head(x)
<1>1. /\ i # j /\ {j, i} = {i, j} /\ RelayTypes /\ Pair(i, j) /\ Pair(j, i)
      /\ NothingOfItself(i) /\ NothingOfItself(j)
  BY OverALink
<1>2. /\ x \in Seq(Mail) /\ w \in Seq(Mail) /\ out[j][i] \in Seq(Mail)
      /\ out[i][j] \in Seq(Mail) /\ out[i][j] \in Seq(RowFrame)
      /\ held[i][j] \in HeldRows /\ rows[j] \in R!Rows
  BY <1>1, PartsTyped
<1>3. /\ Tail(x) \in Seq(Mail) /\ Put(Tail(x) \o out[j][i], 0, f, x \o out[j][i])
      /\ x \o out[j][i] \in Seq(Mail) /\ Tail(x) \o out[j][i] \in Seq(Mail)
      /\ f \in Mail /\ Head(x \o out[j][i]) = f /\ x \o out[j][i] # <<>>
      /\ Tail(x \o out[j][i]) = Tail(x) \o out[j][i]
  BY <1>2, FirstOfJoined, Joined
<1>4. f \in RowFrame
  BY <1>3, MailIs
<1>5. /\ wire' \in [Two -> [Two -> Seq(Mail)]] /\ wire'[j][i] = Tail(x) /\ wire'[i][j] = w
  BY <1>1, <1>3 DEF RelayTypes
<1>6. x # <<>> /\ f.is = "rows" /\ R!Accept(i, f)
  OBVIOUS
<1>7. /\ <<i, j>> \notin givenUp =>
           Following(i, j, w, x \o out[j][i], R!Stated(held[i][j]), rows[j], subs[j], view[i])
      /\ <<j, i>> \notin givenUp =>
           Following(j, i, x, w \o out[i][j], R!Stated(held[j][i]), rows[i], subs[i], view[j])
  BY <1>1 DEF Pair, Follows
<1> HIDE DEF x, w, f
<1>8. <<j, i>> \notin givenUp =>
        Following(j, i, Tail(x), w \o out[i][j], R!Stated(held[j][i]), rows[i], subs[i], view[j])
  <2>1. Head(x).is # "ask"
    BY <1>6 DEF f
  <2> QED  BY <2>1, <1>2, <1>6, <1>7, FollowsRead
<1>9. CASE f.of = i
  <2>1. UNCHANGED <<held, lostAt, out, view>>
    BY <1>6, <1>9 DEF R!Accept
  <2>2. <<i, j>> \notin givenUp =>
          Following(i, j, w, Tail(x) \o out[j][i], R!Stated(held[i][j]), rows[j], subs[j], view[i])
    <3>1. ~(f.is = "rows" /\ f.of = j)
      BY <1>1, <1>9
    <3> QED  BY <3>1, <1>3, <1>7, FollowsPut
  <2>3. Follows(i, j)' /\ Follows(j, i)'
    BY <2>1, <2>2, <1>5, <1>8 DEF Follows
  <2>4. RelayTypes'
    BY <1>1, <2>1, <1>5 DEF RelayTypes
  <2>5. Pair(i, j)' /\ Pair(j, i)'
    BY <2>1, <2>3, <1>1 DEF Pair, DownIsEmpty, UpIsUnmarked, SeesHeld
  <2>6. NothingOfItself(i)' /\ NothingOfItself(j)'
    BY <2>1, <1>1 DEF NothingOfItself
  <2> QED  BY <2>4, <2>5, <2>6, <1>1, BothWays
<1>10. CASE f.of # i
  <2>1. f.of = j
    BY <1>4, <1>10, <1>1, FrameSays DEF Two
  <2>2. /\ held' \in [Two -> [Two -> HeldRows]] /\ view' \in [Two -> Views \cup {Unheld}]
        /\ out' \in [Two -> [Two -> Seq(RowFrame)]] /\ lostAt' = lostAt
        /\ held'[i][j] = R!Onto(R!Stated(held[i][j]), f) /\ held'[j] = held[j]
        /\ held'[i][j] \in R!Rows /\ held'[i][i] = Unheld
        /\ view'[j] = view[j] /\ (view'[i] = Unheld <=> view[i] = Unheld)
        /\ view[i] # Unheld => view'[i][j] \in {held'[i][j], Unheld}
        /\ out'[j] = out[j]
        /\ \/ out'[i][j] = out[i][j]
           \/ \E g \in RowFrame : g.of = j /\ out'[i][j] = Append(out[i][j], g)
    BY <2>1, <1>4, <1>6, AcceptedIs
  <2>3. R!Stated(held'[i][j]) = held'[i][j]
    BY <2>2 DEF R!Stated, TwoApart
  <2>4. <<i, j>> \notin givenUp =>
          Following(i, j, w, Tail(x) \o out[j][i], held'[i][j], rows[j], subs[j], view[i])
    <3>1. R!Stated(held[i][j]) \in R!Rows
      BY <1>2, StatedIsRows
    <3> DEFINE q == x \o out[j][i]
               h == R!Stated(held[i][j])
    <3>2. q \in Seq(Mail) /\ q # <<>> /\ Head(q) = f /\ Tail(q) = Tail(x) \o out[j][i]
      BY <1>3
    <3>3. <<i, j>> \notin givenUp => Following(i, j, w, q, h, rows[j], subs[j], view[i])
      BY <1>7
    <3>4. h \in R!Rows /\ rows[j] \in R!Rows
      BY <3>1, <1>2
    <3> HIDE DEF q, h
    <3>5. <<i, j>> \notin givenUp =>
            Following(i, j, w, Tail(q), R!Onto(h, Head(q)), rows[j], subs[j], view[i])
      BY <2>1, <3>2, <3>3, <3>4, <1>4, FollowsTaken
    <3> QED  BY <3>2, <3>5, <2>2 DEF h
  <2>5. <<i, j>> \notin givenUp =>
          Following(i, j, w, Tail(x) \o out[j][i], held'[i][j], rows[j], subs[j], view'[i])
    BY <2>2, <2>4 DEF Following
  <2>6. <<j, i>> \notin givenUp =>
          Following(j, i, Tail(x), w \o out'[i][j], R!Stated(held[j][i]), rows[i], subs[i], view[j])
    <3>1. CASE out'[i][j] = out[i][j]
      BY <3>1, <1>8
    <3>2. ASSUME NEW g \in RowFrame, g.of = j, out'[i][j] = Append(out[i][j], g)
          PROVE  <<j, i>> \notin givenUp =>
                   Following(j, i, Tail(x), w \o out'[i][j], R!Stated(held[j][i]), rows[i],
                             subs[i], view[j])
      <4>1. /\ Put(w \o out[i][j], Len(w \o out[i][j]), g, w \o Append(out[i][j], g))
            /\ w \o Append(out[i][j], g) \in Seq(Mail) /\ w \o out[i][j] \in Seq(Mail)
        BY <1>2, RowFrameIsMail, QueuedIsPut, Joined
      <4>2. ~(g.is = "rows" /\ g.of = i)
        BY <3>2, <1>1
      <4>3. <<j, i>> \notin givenUp =>
              Following(j, i, Tail(x), w \o Append(out[i][j], g), R!Stated(held[j][i]),
                        rows[i], subs[i], view[j])
        BY <4>1, <4>2, <1>8, FollowsPut
      <4> QED  BY <4>3, <3>2
    <3> QED  BY <3>1, <3>2, <2>2
  <2>7. Follows(i, j)'
    BY <2>2, <2>3, <2>5, <1>5 DEF Follows
  <2>8. Follows(j, i)'
    BY <2>2, <2>6, <1>5 DEF Follows
  <2>9. RelayTypes'
    BY <1>1, <2>2, <1>5 DEF RelayTypes
  <2>10. SeesHeld(i, j)' /\ SeesHeld(j, i)'
    BY <2>2, <2>3, <1>1 DEF Pair, SeesHeld
  <2>11. Pair(i, j)' /\ Pair(j, i)'
    BY <2>2, <2>7, <2>8, <2>10, <1>1 DEF Pair, DownIsEmpty, UpIsUnmarked
  <2>12. NothingOfItself(i)' /\ NothingOfItself(j)'
    BY <2>2, <1>1 DEF NothingOfItself
  <2> QED  BY <2>9, <2>11, <2>12, <1>1, BothWays
<1> QED  BY <1>9, <1>10

LEMMA ReceiveStays ==
  ASSUME TwoApart, RelayIInv, NEW i \in Two, NEW j \in Two, R!Receive(i, j)
  PROVE  RelayIInv'
<1>1. /\ {i, j} \in upInRelay /\ wire[j][i] # <<>>
      /\ UNCHANGED <<rows, upInRelay, givenUp, clock>>
  BY DEF R!Receive
<1>2. RelayTypes
  BY DEF RelayIInv
<1>3. Head(wire[j][i]) \in Mail
  BY <1>1, <1>2, PartsTyped, HeadTailProperties
<1>4. CASE Head(wire[j][i]).is = "ask"
  <2>1. R!TakeAsk(i, j, Tail(wire[j][i]))
    BY <1>4 DEF R!Receive
  <2> QED  BY <2>1, <1>1, <1>4, AskIsTaken
<1>5. CASE Head(wire[j][i]).is = "giveUp"
  <2>1. /\ subs' = [subs EXCEPT ![i] = subs[i] \ {j}]
        /\ wire' = [wire EXCEPT ![j][i] = Tail(wire[j][i])]
        /\ UNCHANGED <<held, lostAt, out, view>>
    BY <1>5 DEF R!Receive
  <2> QED  BY <2>1, <1>1, <1>5, GiveUpIsTaken
<1>6. CASE Head(wire[j][i]).is = "rows"
  <2>1. /\ R!Accept(i, Head(wire[j][i])) /\ UNCHANGED subs
        /\ wire' = [wire EXCEPT ![j][i] = Tail(wire[j][i])]
    BY <1>6 DEF R!Receive
  <2> QED  BY <2>1, <1>1, <1>6, RowsAreTaken
<1> QED  BY <1>3, <1>4, <1>5, <1>6, MailIs

LEMMA FlushStays ==
  ASSUME TwoApart, RelayIInv, NEW i \in Two, NEW j \in Two, R!Flush(i, j)
  PROVE  RelayIInv'
<1> DEFINE w == wire[i][j]
           o == out[i][j]
<1>1. /\ o # <<>>
      /\ wire' = [wire EXCEPT ![i][j] = w \o o]
      /\ out' = [out EXCEPT ![i][j] = <<>>]
      /\ UNCHANGED <<rows, held, lostAt, upInRelay, subs, view, givenUp, clock>>
  BY DEF R!Flush, RelayIInv, RelayTypes
<1>2. RelayTypes /\ (\A x, y \in Two : x # y => Pair(x, y)) /\ \A x \in Two : NothingOfItself(x)
  BY DEF RelayIInv
<1>3. w \in Seq(Mail) /\ o \in Seq(Mail) /\ o \in Seq(RowFrame)
  BY <1>2, PartsTyped
<1>4. w \o o \in Seq(Mail) /\ (w \o o) \o <<>> = w \o o
  BY <1>3, ConcatProperties, ConcatEmptySeq
<1>5. \A n \in 1..Len(o) : o[n].is = "rows"
  BY <1>3, ElementOfSeq, FrameSays
<1>6. <<>> \in Seq(RowFrame)
  OBVIOUS
<1> HIDE DEF w, o
<1>7. /\ wire' \in [Two -> [Two -> Seq(Mail)]] /\ wire'[i][j] = w \o o
      /\ \A x, y \in Two : ~(x = i /\ y = j) => wire'[x][y] = wire[x][y]
  BY <1>1, <1>2, <1>4 DEF RelayTypes
<1>8. /\ out' \in [Two -> [Two -> Seq(RowFrame)]] /\ out'[i][j] = <<>>
      /\ \A x, y \in Two : ~(x = i /\ y = j) => out'[x][y] = out[x][y]
  BY <1>1, <1>2, <1>6 DEF RelayTypes
<1>9. RelayTypes'
  BY <1>1, <1>2, <1>7, <1>8 DEF RelayTypes
<1>10. \A x \in Two : NothingOfItself(x)'
  BY <1>1, <1>2 DEF NothingOfItself
<1>11. CASE i = j
  <2>1. \A x, y \in Two : x # y => /\ wire'[x][y] = wire[x][y] /\ out'[x][y] = out[x][y]
                                   /\ wire'[y][x] = wire[y][x] /\ out'[y][x] = out[y][x]
    BY <1>7, <1>8, <1>11
  <2>2. ASSUME NEW x \in Two, NEW y \in Two, x # y PROVE Pair(x, y)'
    <3>1. Pair(x, y) /\ wire'[x][y] = wire[x][y] /\ out'[x][y] = out[x][y]
          /\ wire'[y][x] = wire[y][x] /\ out'[y][x] = out[y][x]
      BY <2>1, <2>2, <1>2
    <3>2. Follows(x, y)'
      BY <3>1, <1>1 DEF Pair, Follows
    <3> QED  BY <3>1, <3>2, <1>1 DEF Pair, DownIsEmpty, UpIsUnmarked, SeesHeld
  <2> QED  BY <2>2, <1>9, <1>10 DEF RelayIInv
<1>12. CASE i # j
  <2>1. Pair(i, j) /\ Pair(j, i)
    BY <1>2, <1>12
  <2>2. wire'[j][i] = wire[j][i] /\ out'[j][i] = out[j][i]
    BY <1>7, <1>8, <1>12
  <2>3. {j, i} \in upInRelay /\ {i, j} = {j, i}
    BY <2>1, <1>1 DEF Pair, DownIsEmpty, o
  <2>4. Follows(i, j)'
    <3> SUFFICES ASSUME <<i, j>> \notin givenUp
                 PROVE  Following(i, j, w \o o, wire[j][i] \o out[j][i], R!Stated(held[i][j]),
                                  rows[j], subs[j], view[i])
      BY <2>2, <1>1, <1>7 DEF Follows
    <3>1. Following(i, j, w, wire[j][i] \o out[j][i], R!Stated(held[i][j]),
                    rows[j], subs[j], view[i])
      BY <2>1 DEF Pair, Follows, w
    <3> QED  BY <3>1, <1>3, <1>5, FollowsWritten
  <2>5. Follows(j, i)'
    <3> SUFFICES ASSUME <<j, i>> \notin givenUp
                 PROVE  Following(j, i, wire[j][i], (w \o o) \o <<>>, R!Stated(held[j][i]),
                                  rows[i], subs[i], view[j])
      BY <2>2, <1>1, <1>7, <1>8 DEF Follows
    <3>1. Following(j, i, wire[j][i], w \o o, R!Stated(held[j][i]),
                    rows[i], subs[i], view[j])
      BY <2>1 DEF Pair, Follows, w, o
    <3> QED  BY <3>1, <1>4
  <2>6. Pair(i, j)' /\ Pair(j, i)'
    BY <2>1, <2>3, <2>4, <2>5, <1>1 DEF Pair, DownIsEmpty, UpIsUnmarked, SeesHeld
  <2> QED  BY <2>6, <1>9, <1>10, <1>12, BothWays
<1> QED  BY <1>11, <1>12

LEMMA ChangeStays ==
  ASSUME TwoApart, RelayIInv, NEW i \in Two, NEW k \in Key, NEW v \in Said,
         R!Change(i, k, v)
  PROVE  RelayIInv'
<1> DEFINE f == R!Frame(i, FALSE, [x \in {k} |-> v])
           r == [rows[i] EXCEPT ![k] = v]
<1>1. PICK j \in Two : i # j
  BY DEF Two, TwoApart
<1>2. /\ RelayTypes /\ Pair(i, j) /\ Pair(j, i) /\ NothingOfItself(i) /\ NothingOfItself(j)
      /\ {j, i} = {i, j}
  BY <1>1 DEF RelayIInv
<1>3. /\ rows' = [rows EXCEPT ![i] = r]
      /\ out' = [out EXCEPT ![i] = R!Queued(i, f)]
      /\ view' = [view EXCEPT ![i] = R!Shown(view[i], f)]
      /\ UNCHANGED <<held, lostAt, upInRelay, subs, wire, givenUp, clock>>
  BY <1>2 DEF R!Change, RelayTypes
<1>4. f \in RowFrame /\ f.of = i
  <2> DEFINE s == [x \in {k} |-> v]
  <2>1. DOMAIN s \subseteq Key /\ s \in [DOMAIN s -> Said]
    OBVIOUS
  <2> HIDE DEF s
  <2>2. R!Frame(i, FALSE, s) \in RowFrame
    BY <2>1, FrameIs
  <2>3. R!Frame(i, FALSE, s).of = i
    BY DEF R!Frame
  <2> QED  BY <2>2, <2>3 DEF s
<1>5. /\ wire[i][j] \in Seq(Mail) /\ out[i][j] \in Seq(Mail) /\ out[i][j] \in Seq(RowFrame)
      /\ rows[i] \in R!Rows /\ view[i] \in Views \cup {Unheld}
  BY <1>2, PartsTyped
<1>6. r \in R!Rows
  BY <1>5 DEF R!Rows, Said
<1>7. /\ R!Queued(i, f) \in [Two -> Seq(RowFrame)]
      /\ R!Queued(i, f)[j] = IF j \in subs[i] THEN Append(out[i][j], f) ELSE out[i][j]
  <2> HIDE DEF f
  <2> QED  BY <1>2, <1>4, QueuedIs
<1>8. /\ R!Shown(view[i], f) \in Views \cup {Unheld}
      /\ R!Shown(view[i], f) = Unheld <=> view[i] = Unheld
      /\ view[i] # Unheld => R!Shown(view[i], f)[j] = view[i][j]
  BY <1>1, <1>4, <1>5, ShownIs
<1> HIDE DEF f, r
<1>9. /\ rows' \in [Two -> R!Rows] /\ rows'[i] = r /\ rows'[j] = rows[j]
      /\ out' \in [Two -> [Two -> Seq(RowFrame)]] /\ out'[j] = out[j]
      /\ out'[i][j] = IF j \in subs[i] THEN Append(out[i][j], f) ELSE out[i][j]
      /\ view' \in [Two -> Views \cup {Unheld}] /\ view'[j] = view[j]
      /\ view'[i] = Unheld <=> view[i] = Unheld
      /\ view[i] # Unheld => view'[i][j] = view[i][j]
  BY <1>1, <1>2, <1>3, <1>6, <1>7, <1>8 DEF RelayTypes
<1>10. RelayTypes'
  BY <1>2, <1>3, <1>9 DEF RelayTypes
<1>11. Follows(i, j)'
  <2> SUFFICES ASSUME <<i, j>> \notin givenUp
               PROVE  Following(i, j, wire[i][j], wire[j][i] \o out[j][i], R!Stated(held[i][j]),
                                rows[j], subs[j], view'[i])
    BY <1>3, <1>9 DEF Follows
  <2>1. Following(i, j, wire[i][j], wire[j][i] \o out[j][i], R!Stated(held[i][j]),
                  rows[j], subs[j], view[i])
    BY <1>2 DEF Pair, Follows
  <2> QED  BY <2>1, <1>9 DEF Following
<1>12. Follows(j, i)'
  <2> DEFINE q == wire[i][j] \o out[i][j]
             p == wire[i][j] \o out'[i][j]
             h == R!Stated(held[j][i])
  <2> SUFFICES ASSUME <<j, i>> \notin givenUp
               PROVE  Following(j, i, wire[j][i], p, h, r, subs[i], view[j])
    BY <1>3, <1>9 DEF Follows
  <2>1. Following(j, i, wire[j][i], q, h, rows[i], subs[i], view[j])
    BY <1>2 DEF Pair, Follows
  <2>2. q \in Seq(Mail)
    BY <1>5, Joined
  <2>3. f \in Mail
    BY <1>4, RowFrameIsMail
  <2>4. /\ Put(q, Len(q), f, wire[i][j] \o Append(out[i][j], f))
        /\ wire[i][j] \o Append(out[i][j], f) \in Seq(Mail)
    BY <2>3, <1>5, QueuedIsPut
  <2>5. p \in Seq(Mail) /\ (IF j \in subs[i] THEN Put(q, Len(q), f, p) ELSE p = q)
    BY <2>2, <2>4, <1>9
  <2> HIDE DEF q, p, h
  <2>6. IF j \in subs[i] THEN Put(q, Len(q), R!Frame(i, FALSE, [x \in {k} |-> v]), p) ELSE p = q
    BY <2>5 DEF f
  <2> QED  BY <2>1, <2>2, <2>5, <2>6, <1>5, FollowsChange DEF r
<1>13. Pair(i, j)' /\ Pair(j, i)'
  BY <1>2, <1>3, <1>9, <1>11, <1>12 DEF Pair, DownIsEmpty, UpIsUnmarked, SeesHeld
<1>14. NothingOfItself(i)' /\ NothingOfItself(j)'
  BY <1>2, <1>3 DEF NothingOfItself
<1> QED  BY <1>1, <1>10, <1>13, <1>14, BothWays

(* A subscriber comes where nobody watched.                                *)
LEMMA OpensStays ==
  ASSUME TwoApart, RelayIInv, NEW i \in Two, R!Opens(i)
  PROVE  RelayIInv'
<1> DEFINE seen == [y \in Two |-> IF y = i THEN rows[i] ELSE R!Stated(R!Swept(i)[y])]
           w(y) == IF y \in R!Peers(i) THEN Append(wire[i][y], R!Ask) ELSE wire[i][y]
           W == [y \in Two |-> w(y)]
<1>1. PICK j \in Two : i # j
  BY DEF Two, TwoApart
<1>2. /\ RelayTypes /\ Pair(i, j) /\ Pair(j, i) /\ NothingOfItself(i) /\ NothingOfItself(j)
      /\ {j, i} = {i, j}
  BY <1>1 DEF RelayIInv
<1>3. /\ view[i] = Unheld
      /\ held' = [held EXCEPT ![i] = R!Swept(i)]
      /\ lostAt' = [lostAt EXCEPT ![i] = R!SweptMarks(i)]
      /\ view' = [view EXCEPT ![i] = seen]
      /\ wire' = [wire EXCEPT ![i] = W]
      /\ UNCHANGED <<rows, upInRelay, subs, out, givenUp, clock>>
  <2>1. R!Ask # R!GiveUp
    BY DEF R!Ask, R!GiveUp
  <2>2. /\ view[i] = Unheld
        /\ held' = [held EXCEPT ![i] = R!Swept(i)]
        /\ lostAt' = [lostAt EXCEPT ![i] = R!SweptMarks(i)]
        /\ view' = [view EXCEPT ![i] = seen]
        /\ UNCHANGED <<rows, upInRelay, subs, out, clock>>
        /\ R!Demand(i, R!Ask)
    BY DEF R!Opens, Two
  <2>3. wire' = [wire EXCEPT ![i] = W] /\ givenUp' = givenUp
    BY <2>1, <2>2 DEF R!Demand, Two
  <2> QED  BY <2>2, <2>3
<1>4. /\ \A y \in Two : wire[i][y] \in Seq(Mail)
      /\ wire[j][i] \in Seq(Mail)
      /\ out[i][j] \in Seq(Mail) /\ out[j][i] \in Seq(Mail)
      /\ rows[i] \in R!Rows
  BY <1>2, PartsTyped
<1>5. /\ R!Swept(i) \in [Two -> HeldRows]
      /\ \A y \in Two : R!Swept(i)[y] \in {held[i][y], Unheld}
      /\ R!SweptMarks(i) \in [Two -> Int]
      /\ \A y \in Two : R!SweptMarks(i)[y] \in {lostAt[i][y], -1}
  BY <1>2, SweptIs
<1>6. /\ seen \in Views /\ seen[j] = R!Stated(R!Swept(i)[j]) /\ seen # Unheld
  <2>1. \A y \in Two : R!Stated(R!Swept(i)[y]) \in R!Rows
    BY <1>5, StatedIsRows
  <2>2. seen \in Views
    BY <2>1, <1>4 DEF Views, HeldRows
  <2> QED  BY <2>2, <1>1 DEF TwoApart
<1>7. W \in [Two -> Seq(Mail)] /\ W[j] = w(j)
  <2>1. \A y \in Two : w(y) \in Seq(Mail)
    BY <1>4, AppendIs DEF Mail
  <2> QED  BY <2>1
<1> HIDE DEF seen, W
<1>8. /\ held' \in [Two -> [Two -> HeldRows]] /\ held'[i] = R!Swept(i) /\ held'[j] = held[j]
      /\ lostAt' \in [Two -> [Two -> Int]] /\ lostAt'[i] = R!SweptMarks(i)
      /\ lostAt'[j] = lostAt[j]
      /\ view' \in [Two -> Views \cup {Unheld}] /\ view'[i] = seen /\ view'[j] = view[j]
      /\ wire' \in [Two -> [Two -> Seq(Mail)]] /\ wire'[i][j] = w(j) /\ wire'[j] = wire[j]
  BY <1>1, <1>2, <1>3, <1>5, <1>6, <1>7 DEF RelayTypes
<1>9. RelayTypes'
  BY <1>2, <1>3, <1>8 DEF RelayTypes
<1>10. NothingOfItself(i)' /\ NothingOfItself(j)'
  BY <1>2, <1>3, <1>5, <1>8 DEF NothingOfItself
<1>11. SeesHeld(i, j)' /\ SeesHeld(j, i)'
  BY <1>2, <1>6, <1>8 DEF Pair, SeesHeld
<1>12. UpIsUnmarked(i, j)' /\ UpIsUnmarked(j, i)'
  BY <1>2, <1>3, <1>5, <1>8 DEF Pair, UpIsUnmarked
<1>13. CASE {i, j} \in upInRelay
  <2>1. R!Peers(i) = {j}
    BY <1>13, OverALink
  <2>2. wire'[i][j] = Append(wire[i][j], R!Ask)
    BY <2>1, <1>8
  <2>3. Follows(i, j)'
    <3> SUFFICES ASSUME <<i, j>> \notin givenUp
                 PROVE  Following(i, j, Append(wire[i][j], R!Ask), wire[j][i] \o out[j][i],
                                  R!Stated(held'[i][j]), rows[j], subs[j], seen)
      BY <2>2, <1>3, <1>8 DEF Follows
    <3>1. Following(i, j, wire[i][j], wire[j][i] \o out[j][i], R!Stated(held[i][j]),
                    rows[j], subs[j], Unheld)
      BY <1>2, <1>3 DEF Pair, Follows
    <3> QED  BY <3>1, <1>4, <1>6, FollowsAsking
  <2>4. Follows(j, i)'
    <3> SUFFICES ASSUME <<j, i>> \notin givenUp
                 PROVE  Following(j, i, wire[j][i], Append(wire[i][j], R!Ask) \o out[i][j],
                                  R!Stated(held[j][i]), rows[i], subs[i], view[j])
      BY <2>2, <1>3, <1>8 DEF Follows
    <3>1. Following(j, i, wire[j][i], wire[i][j] \o out[i][j], R!Stated(held[j][i]),
                    rows[i], subs[i], view[j])
      BY <1>2 DEF Pair, Follows
    <3>2. R!Ask \in Mail /\ ~(R!Ask.is = "rows" /\ R!Ask.of = i)
      BY DEF R!Ask, Mail
    <3>3. /\ Put(wire[i][j] \o out[i][j], Len(wire[i][j]), R!Ask,
                 Append(wire[i][j], R!Ask) \o out[i][j])
          /\ Append(wire[i][j], R!Ask) \o out[i][j] \in Seq(Mail)
          /\ wire[i][j] \o out[i][j] \in Seq(Mail)
      BY <3>2, <1>4, WrittenIsPut, Joined
    <3> DEFINE q == wire[i][j] \o out[i][j]
               p == Append(wire[i][j], R!Ask) \o out[i][j]
    <3> HIDE DEF q, p
    <3>4. Put(q, Len(wire[i][j]), R!Ask, p) /\ q \in Seq(Mail) /\ p \in Seq(Mail)
      BY <3>3 DEF q, p
    <3>5. Following(j, i, wire[j][i], q, R!Stated(held[j][i]), rows[i], subs[i], view[j])
      BY <3>1 DEF q
    <3>6. Following(j, i, wire[j][i], p, R!Stated(held[j][i]), rows[i], subs[i], view[j])
      BY <3>2, <3>4, <3>5, FollowsPut
    <3> QED  BY <3>6 DEF p
  <2>5. DownIsEmpty(i, j)' /\ DownIsEmpty(j, i)'
    BY <1>2, <1>3, <1>13 DEF DownIsEmpty
  <2> QED  BY <2>3, <2>4, <2>5, <1>1, <1>9, <1>10, <1>11, <1>12, BothWays DEF Pair
<1>14. CASE {i, j} \notin upInRelay
  <2>1. /\ wire[i][j] = <<>> /\ wire[j][i] = <<>> /\ out[i][j] = <<>> /\ out[j][i] = <<>>
        /\ i \notin subs[j] /\ j \notin subs[i]
    BY <1>2, <1>14 DEF Pair, DownIsEmpty
  <2>2. wire'[i][j] = <<>>
    <3>1. j \notin R!Peers(i)
      BY <1>14 DEF R!Peers
    <3> QED  BY <3>1, <2>1, <1>8
  <2>3. Follows(i, j)' /\ Follows(j, i)'
    <3>1. Mute(<<>> \o <<>>, i) /\ Mute(<<>> \o <<>>, j)
      BY NothingIsSaid
    <3>2. Following(i, j, <<>>, <<>> \o <<>>, R!Stated(held'[i][j]), rows[j], subs[j], seen)
      BY <3>1, <2>1, FollowsAfresh
    <3>3. Following(j, i, <<>>, <<>> \o <<>>, R!Stated(held[j][i]), rows[i], subs[i], view[j])
      BY <3>1, <2>1, FollowsAfresh
    <3>4. /\ wire'[i][j] = <<>> /\ wire'[j][i] = <<>> /\ out'[i][j] = <<>> /\ out'[j][i] = <<>>
          /\ rows' = rows /\ subs' = subs /\ view'[i] = seen /\ view'[j] = view[j]
          /\ held'[j] = held[j]
      BY <2>1, <2>2, <1>3, <1>8
    <3>5. Follows(i, j)'
      BY <3>2, <3>4 DEF Follows
    <3>6. Follows(j, i)'
      BY <3>3, <3>4 DEF Follows
    <3> QED  BY <3>5, <3>6
  <2>4. DownIsEmpty(i, j)' /\ DownIsEmpty(j, i)'
    BY <2>1, <2>2, <1>3, <1>8 DEF DownIsEmpty
  <2> QED  BY <2>3, <2>4, <1>1, <1>9, <1>10, <1>11, <1>12, BothWays DEF Pair
<1> QED  BY <1>13, <1>14

(* The last subscriber goes.                                               *)
LEMMA LeavesStays ==
  ASSUME TwoApart, RelayIInv, NEW i \in Two, R!Leaves(i)
  PROVE  RelayIInv'
<1> DEFINE w(y) == IF y \in R!Peers(i) THEN Append(wire[i][y], R!GiveUp) ELSE wire[i][y]
           W == [y \in Two |-> w(y)]
<1>1. PICK j \in Two : i # j
  BY DEF Two, TwoApart
<1>2. /\ RelayTypes /\ Pair(i, j) /\ Pair(j, i) /\ NothingOfItself(i) /\ NothingOfItself(j)
      /\ {j, i} = {i, j}
  BY <1>1 DEF RelayIInv
<1>3. /\ view' = [view EXCEPT ![i] = Unheld]
      /\ wire' = [wire EXCEPT ![i] = W]
      /\ givenUp' = givenUp \cup {<<i, y>> : y \in R!Peers(i)}
      /\ UNCHANGED <<rows, held, lostAt, upInRelay, subs, out, clock>>
  BY DEF R!Leaves, R!Demand, Two
<1>4. /\ \A y \in Two : wire[i][y] \in Seq(Mail)
      /\ wire[j][i] \in Seq(Mail) /\ out[i][j] \in Seq(Mail)
  BY <1>2, PartsTyped
<1>5. W \in [Two -> Seq(Mail)] /\ W[j] = w(j)
  <2>1. \A y \in Two : w(y) \in Seq(Mail)
    BY <1>4, AppendIs DEF Mail
  <2> QED  BY <2>1
<1> HIDE DEF W
<1>6. /\ view' \in [Two -> Views \cup {Unheld}] /\ view'[i] = Unheld /\ view'[j] = view[j]
      /\ wire' \in [Two -> [Two -> Seq(Mail)]] /\ wire'[i][j] = w(j) /\ wire'[j] = wire[j]
  BY <1>1, <1>2, <1>3, <1>5 DEF RelayTypes
<1>7. RelayTypes'
  BY <1>2, <1>3, <1>6 DEF RelayTypes
<1>8. NothingOfItself(i)' /\ NothingOfItself(j)'
  BY <1>2, <1>3 DEF NothingOfItself
<1>9. SeesHeld(i, j)' /\ SeesHeld(j, i)' /\ UpIsUnmarked(i, j)' /\ UpIsUnmarked(j, i)'
  BY <1>2, <1>3, <1>6 DEF Pair, SeesHeld, UpIsUnmarked
<1>10. <<j, i>> \notin givenUp' => <<j, i>> \notin givenUp
  BY <1>3
<1>11. CASE {i, j} \in upInRelay
  <2>1. R!Peers(i) = {j}
    BY <1>11, OverALink
  <2>2. wire'[i][j] = Append(wire[i][j], R!GiveUp) /\ <<i, j>> \in givenUp'
    BY <2>1, <1>3, <1>6
  <2>3. Follows(i, j)'
    BY <2>2 DEF Follows
  <2>4. Follows(j, i)'
    <3> SUFFICES ASSUME <<j, i>> \notin givenUp
                 PROVE  Following(j, i, wire[j][i], Append(wire[i][j], R!GiveUp) \o out[i][j],
                                  R!Stated(held[j][i]), rows[i], subs[i], view[j])
      BY <2>2, <1>3, <1>6, <1>10 DEF Follows
    <3>1. Following(j, i, wire[j][i], wire[i][j] \o out[i][j], R!Stated(held[j][i]),
                    rows[i], subs[i], view[j])
      BY <1>2 DEF Pair, Follows
    <3>2. R!GiveUp \in Mail /\ ~(R!GiveUp.is = "rows" /\ R!GiveUp.of = i)
      BY DEF R!GiveUp, Mail
    <3>3. /\ Put(wire[i][j] \o out[i][j], Len(wire[i][j]), R!GiveUp,
                 Append(wire[i][j], R!GiveUp) \o out[i][j])
          /\ Append(wire[i][j], R!GiveUp) \o out[i][j] \in Seq(Mail)
          /\ wire[i][j] \o out[i][j] \in Seq(Mail)
      BY <3>2, <1>4, WrittenIsPut, Joined
    <3> DEFINE q == wire[i][j] \o out[i][j]
               p == Append(wire[i][j], R!GiveUp) \o out[i][j]
    <3> HIDE DEF q, p
    <3>4. Put(q, Len(wire[i][j]), R!GiveUp, p) /\ q \in Seq(Mail) /\ p \in Seq(Mail)
      BY <3>3 DEF q, p
    <3>5. Following(j, i, wire[j][i], q, R!Stated(held[j][i]), rows[i], subs[i], view[j])
      BY <3>1 DEF q
    <3>6. Following(j, i, wire[j][i], p, R!Stated(held[j][i]), rows[i], subs[i], view[j])
      BY <3>2, <3>4, <3>5, FollowsPut
    <3> QED  BY <3>6 DEF p
  <2>5. DownIsEmpty(i, j)' /\ DownIsEmpty(j, i)'
    BY <1>2, <1>3, <1>11 DEF DownIsEmpty
  <2> QED  BY <2>3, <2>4, <2>5, <1>1, <1>7, <1>8, <1>9, BothWays DEF Pair
<1>12. CASE {i, j} \notin upInRelay
  <2>1. /\ wire[i][j] = <<>> /\ wire[j][i] = <<>> /\ out[i][j] = <<>> /\ out[j][i] = <<>>
        /\ i \notin subs[j] /\ j \notin subs[i]
    BY <1>2, <1>12 DEF Pair, DownIsEmpty
  <2>2. wire'[i][j] = <<>>
    <3>1. j \notin R!Peers(i)
      BY <1>12 DEF R!Peers
    <3> QED  BY <3>1, <2>1, <1>6
  <2>3. Follows(i, j)' /\ Follows(j, i)'
    BY <2>1, <2>2, <1>3, <1>6, FollowsAfresh, NothingIsSaid DEF Follows
  <2>4. DownIsEmpty(i, j)' /\ DownIsEmpty(j, i)'
    BY <2>1, <2>2, <1>3, <1>6 DEF DownIsEmpty
  <2> QED  BY <2>3, <2>4, <1>1, <1>7, <1>8, <1>9, BothWays DEF Pair
<1> QED  BY <1>11, <1>12

LEMMA LinkStays ==
  ASSUME TwoApart, RelayIInv, NEW i \in Two, NEW j \in Two, R!Link(i, j)
  PROVE  RelayIInv'
<1> DEFINE asks == [y \in Two |-> IF R!Demanded(y) THEN <<R!Ask>> ELSE <<>>]
<1>1. /\ {i, j} = {a, b} /\ {i, j} \notin upInRelay
      /\ upInRelay' = upInRelay \cup {{i, j}}
      /\ lostAt' = [lostAt EXCEPT ![i][j] = -1, ![j][i] = -1]
      /\ wire' = [wire EXCEPT ![i][j] = asks[i], ![j][i] = asks[j]]
      /\ UNCHANGED <<rows, held, subs, out, view, givenUp, clock>>
  <2>1. {i, j} \in {{a, b}} \ upInRelay
    BY DEF R!Link
  <2>2. lostAt' = [lostAt EXCEPT ![i][j] = -1, ![j][i] = -1]
    BY DEF R!Link
  <2>3. wire' = [wire EXCEPT ![i][j] = asks[i], ![j][i] = asks[j]]
    BY DEF R!Link
  <2>4. UNCHANGED <<rows, held, subs, out, view, givenUp, clock>>
        /\ upInRelay' = upInRelay \cup {{i, j}}
    BY DEF R!Link
  <2>5. {i, j} = {a, b} /\ {i, j} \notin upInRelay
    <3>1. \A l : l \in {{a, b}} \ upInRelay => l = {a, b} /\ l \notin upInRelay
      OBVIOUS
    <3> QED  BY <2>1, <3>1
  <2> HIDE DEF asks
  <2> QED  BY <2>2, <2>3, <2>4, <2>5
<1>2. i # j
  <2>1. {i, j} = {a, b} /\ a # b
    BY <1>1 DEF TwoApart
  <2> QED  BY <2>1
<1>3. /\ RelayTypes /\ Pair(i, j) /\ Pair(j, i) /\ NothingOfItself(i) /\ NothingOfItself(j)
      /\ {j, i} = {i, j}
  BY <1>2 DEF RelayIInv
<1>4. /\ out[i][j] = <<>> /\ out[j][i] = <<>> /\ i \notin subs[j] /\ j \notin subs[i]
  BY <1>1, <1>3 DEF Pair, DownIsEmpty
<1>5. ASSUME NEW y \in Two
      PROVE  /\ asks[y] \in Seq(Mail)
             /\ asks[y] = <<>> \/ (asks[y] = <<R!Ask>> /\ view[y] # Unheld)
             /\ asks[y] = <<>> \/ asks[y] = <<R!Ask>>
  <2>1. R!Demanded(y) <=> view[y] # Unheld
    BY DEF R!Demanded
  <2>2. asks[y] = IF view[y] # Unheld THEN <<R!Ask>> ELSE <<>>
    BY <2>1
  <2>3. <<R!Ask>> \in Seq(Mail) /\ <<>> \in Seq(Mail)
    BY DEF Mail
  <2> HIDE DEF asks
  <2> QED  BY <2>2, <2>3
<1> HIDE DEF asks
<1>6. /\ wire' \in [Two -> [Two -> Seq(Mail)]] /\ wire'[i][j] = asks[i] /\ wire'[j][i] = asks[j]
  BY <1>1, <1>2, <1>3, <1>5 DEF RelayTypes
<1>7. /\ lostAt' \in [Two -> [Two -> Int]] /\ lostAt'[i][j] = -1 /\ lostAt'[j][i] = -1
      /\ lostAt'[i][i] = lostAt[i][i] /\ lostAt'[j][j] = lostAt[j][j]
  <2> DEFINE none == -1
  <2>1. none \in Int
    OBVIOUS
  <2>2. lostAt' = [lostAt EXCEPT ![i][j] = none, ![j][i] = none]
    BY <1>1
  <2> HIDE DEF none
  <2>3. /\ lostAt' \in [Two -> [Two -> Int]] /\ lostAt'[i][j] = none /\ lostAt'[j][i] = none
        /\ lostAt'[i][i] = lostAt[i][i] /\ lostAt'[j][j] = lostAt[j][j]
    BY <2>1, <2>2, <1>2, <1>3 DEF RelayTypes
  <2> QED  BY <2>3 DEF none
<1>8. RelayTypes'
  BY <1>1, <1>3, <1>6, <1>7 DEF RelayTypes, Two
<1>9. NothingOfItself(i)' /\ NothingOfItself(j)'
  BY <1>1, <1>3, <1>7 DEF NothingOfItself
<1>10. \A y \in Two : Mute(asks[y] \o <<>>, i) /\ Mute(asks[y] \o <<>>, j)
  BY <1>5, NothingIsSaid
<1>11. Follows(i, j)' /\ Follows(j, i)'
  <2>1. Following(i, j, asks[i], asks[j] \o <<>>, R!Stated(held[i][j]), rows[j], subs[j], view[i])
    BY <1>4, <1>5, <1>10, FollowsAfresh
  <2>2. Following(j, i, asks[j], asks[i] \o <<>>, R!Stated(held[j][i]), rows[i], subs[i], view[j])
    BY <1>4, <1>5, <1>10, FollowsAfresh
  <2>3. Follows(i, j)'
    BY <2>1, <1>1, <1>4, <1>6 DEF Follows
  <2>4. Follows(j, i)'
    BY <2>2, <1>1, <1>4, <1>6 DEF Follows
  <2> QED  BY <2>3, <2>4
<1>12. Pair(i, j)' /\ Pair(j, i)'
  BY <1>1, <1>3, <1>7, <1>11 DEF Pair, DownIsEmpty, UpIsUnmarked, SeesHeld
<1> QED  BY <1>2, <1>8, <1>9, <1>12, BothWays

(* Where every link goes, nothing is left of it.                           *)
LEMMA SeveredIs ==
  ASSUME TwoApart, RelayIInv, R!Severed(upInRelay)
  PROVE  /\ upInRelay' = {}
         /\ subs' \in [Two -> SUBSET Two]
         /\ out' \in [Two -> [Two -> Seq(RowFrame)]]
         /\ wire' \in [Two -> [Two -> Seq(Mail)]]
         /\ \A x \in Two : subs'[x] \subseteq subs[x]
         /\ \A x \in Two : subs'[x] \subseteq subs[x]
      /\ \A x, y \in Two : x # y => DownIsEmpty(x, y)' /\ UpIsUnmarked(x, y)' /\ Follows(x, y)'
<1>1. /\ RelayTypes /\ upInRelay' = {}
      /\ subs' = [x \in Two |-> {y \in subs[x] : {x, y} \notin upInRelay}]
      /\ wire' = [x \in Two |-> [y \in Two |-> IF {x, y} \in upInRelay THEN <<>> ELSE wire[x][y]]]
      /\ out' = [x \in Two |-> [y \in Two |-> IF {x, y} \in upInRelay THEN <<>> ELSE out[x][y]]]
  BY DEF R!Severed, R!Emptied, RelayIInv, Two
<1>2. subs' \in [Two -> SUBSET Two] /\ \A x \in Two : subs'[x] \subseteq subs[x]
  BY <1>1 DEF RelayTypes
<1>3. wire' \in [Two -> [Two -> Seq(Mail)]]
  <2>1. \A x, y \in Two : (IF {x, y} \in upInRelay THEN <<>> ELSE wire[x][y]) \in Seq(Mail)
    BY <1>1 DEF RelayTypes
  <2> QED  BY <2>1, <1>1
<1>4. out' \in [Two -> [Two -> Seq(RowFrame)]]
  <2>1. \A x, y \in Two : (IF {x, y} \in upInRelay THEN <<>> ELSE out[x][y]) \in Seq(RowFrame)
    BY <1>1 DEF RelayTypes
  <2> QED  BY <2>1, <1>1
<1>5. \A x, y \in Two : x # y => wire'[y][x] = <<>> /\ out'[y][x] = <<>> /\ x \notin subs'[y]
  <2> SUFFICES ASSUME NEW x \in Two, NEW y \in Two, x # y
               PROVE  wire'[y][x] = <<>> /\ out'[y][x] = <<>> /\ x \notin subs'[y]
    OBVIOUS
  <2>1. Pair(x, y) /\ {x, y} = {y, x}
    BY DEF RelayIInv
  <2> QED  BY <2>1, <1>1 DEF Pair, DownIsEmpty
<1>6. ASSUME NEW x \in Two, NEW y \in Two, x # y
      PROVE  DownIsEmpty(x, y)' /\ UpIsUnmarked(x, y)' /\ Follows(x, y)'
  <2>1. /\ wire'[y][x] = <<>> /\ out'[y][x] = <<>> /\ x \notin subs'[y] /\ wire'[x][y] = <<>>
    BY <1>5, <1>6
  <2>2. Following(x, y, <<>>, <<>> \o <<>>, R!Stated(held'[x][y]), rows'[y], subs'[y], view'[x])
    BY <2>1, FollowsAfresh, NothingIsSaid
  <2>3. Follows(x, y)'
    BY <2>1, <2>2 DEF Follows
  <2> QED  BY <2>1, <2>3, <1>1 DEF DownIsEmpty, UpIsUnmarked
<1> QED  BY <1>1, <1>2, <1>3, <1>4, <1>6

LEMMA MarkedIs ==
  ASSUME RelayTypes, NEW x \in Two, NEW C
  PROVE  R!Marked(x, C) \in [Two -> Int] /\ \A y \in Two : y \notin C => R!Marked(x, C)[y] = lostAt[x][y]
BY DEF RelayTypes, R!Marked, Two

LEMMA BreaksStays ==
  ASSUME TwoApart, RelayIInv, NEW i \in Two, NEW j \in Two, R!Breaks(i, j)
  PROVE  RelayIInv'
<1>1. /\ {i, j} \in upInRelay /\ R!Severed({{i, j}})
      /\ lostAt' = [lostAt EXCEPT ![i] = R!Marked(i, {j}), ![j] = R!Marked(j, {i})]
      /\ UNCHANGED <<rows, held, view, clock>>
  BY DEF R!Breaks
<1>2. /\ i # j /\ RelayTypes /\ Pair(i, j) /\ Pair(j, i)
      /\ NothingOfItself(i) /\ NothingOfItself(j)
  BY <1>1, OverALink
<1>3. upInRelay = {{i, j}}
  BY <1>1, <1>2 DEF RelayTypes
<1>4. /\ upInRelay' = {}
      /\ subs' \in [Two -> SUBSET Two]
      /\ out' \in [Two -> [Two -> Seq(RowFrame)]]
      /\ wire' \in [Two -> [Two -> Seq(Mail)]]
      /\ \A x \in Two : subs'[x] \subseteq subs[x]
      /\ \A x, y \in Two : x # y => DownIsEmpty(x, y)' /\ UpIsUnmarked(x, y)' /\ Follows(x, y)'
  BY <1>1, <1>3, SeveredIs
<1>5. /\ lostAt' \in [Two -> [Two -> Int]]
      /\ lostAt'[i][i] = lostAt[i][i] /\ lostAt'[j][j] = lostAt[j][j]
  <2>1. /\ R!Marked(i, {j}) \in [Two -> Int] /\ R!Marked(i, {j})[i] = lostAt[i][i]
        /\ R!Marked(j, {i}) \in [Two -> Int] /\ R!Marked(j, {i})[j] = lostAt[j][j]
    BY <1>2, MarkedIs
  <2> QED  BY <2>1, <1>1, <1>2 DEF RelayTypes
<1>6. RelayTypes'
  BY <1>1, <1>2, <1>4, <1>5 DEF RelayTypes
<1>7. SeesHeld(i, j)' /\ SeesHeld(j, i)'
  BY <1>1, <1>2 DEF Pair, SeesHeld
<1>8. NothingOfItself(i)' /\ NothingOfItself(j)'
  BY <1>1, <1>2, <1>4, <1>5 DEF NothingOfItself
<1>9. Pair(i, j)' /\ Pair(j, i)'
  BY <1>2, <1>4, <1>7 DEF Pair
<1> QED  BY <1>2, <1>6, <1>8, <1>9, BothWays

LEMMA RestartStays ==
  ASSUME TwoApart, RelayIInv, NEW i \in Two, R!Restart(i)
  PROVE  RelayIInv'
<1>1. /\ R!Severed({l \in upInRelay : i \in l})
      /\ rows' = [rows EXCEPT ![i] = R!NoRows]
      /\ held' = [held EXCEPT ![i] = [y \in Two |-> Unheld]]
      /\ view' = [view EXCEPT ![i] = Unheld]
      /\ lostAt' = [x \in Two |-> IF x = i THEN [y \in Two |-> -1]
                                  ELSE IF x \in R!Peers(i) THEN R!Marked(x, {i})
                                  ELSE lostAt[x]]
      /\ UNCHANGED clock
  BY DEF R!Restart, Two
<1>2. PICK j \in Two : i # j
  BY DEF Two, TwoApart
<1>3. /\ RelayTypes /\ Pair(i, j) /\ Pair(j, i) /\ NothingOfItself(i) /\ NothingOfItself(j)
  BY <1>2 DEF RelayIInv
<1>4. {l \in upInRelay : i \in l} = upInRelay
  BY <1>3 DEF RelayTypes
<1>5. /\ upInRelay' = {}
      /\ subs' \in [Two -> SUBSET Two]
      /\ out' \in [Two -> [Two -> Seq(RowFrame)]]
      /\ wire' \in [Two -> [Two -> Seq(Mail)]]
      /\ \A x \in Two : subs'[x] \subseteq subs[x]
      /\ \A x, y \in Two : x # y => DownIsEmpty(x, y)' /\ UpIsUnmarked(x, y)' /\ Follows(x, y)'
  BY <1>1, <1>4, SeveredIs
<1>6. /\ rows' \in [Two -> R!Rows]
      /\ held' \in [Two -> [Two -> HeldRows]] /\ held'[i][i] = Unheld /\ held'[j] = held[j]
      /\ view' \in [Two -> Views \cup {Unheld}] /\ view'[i] = Unheld /\ view'[j] = view[j]
  <2>1. R!NoRows \in R!Rows /\ Unheld \in HeldRows
    BY DEF R!NoRows, R!Rows, HeldRows
  <2>2. [y \in Two |-> Unheld] \in [Two -> HeldRows]
    BY <2>1
  <2> QED  BY <2>1, <2>2, <1>1, <1>2, <1>3 DEF RelayTypes
<1>7. /\ lostAt' \in [Two -> [Two -> Int]] /\ lostAt'[i][i] = -1 /\ lostAt'[j][j] = lostAt[j][j]
  <2>1. /\ \A x \in Two : R!Marked(x, {i}) \in [Two -> Int]
        /\ R!Marked(j, {i})[j] = lostAt[j][j]
    BY <1>2, <1>3, MarkedIs
  <2>2. \A x \in Two : lostAt[x] \in [Two -> Int]
    BY <1>3 DEF RelayTypes
  <2>3. [y \in Two |-> -1] \in [Two -> Int]
    OBVIOUS
  <2> QED  BY <2>1, <2>2, <2>3, <1>1, <1>2
<1>8. RelayTypes'
  BY <1>1, <1>3, <1>5, <1>6, <1>7 DEF RelayTypes
<1>9. SeesHeld(i, j)'
  BY <1>6 DEF SeesHeld
<1>10. SeesHeld(j, i)'
  BY <1>3, <1>6 DEF Pair, SeesHeld
<1>11. NothingOfItself(i)' /\ NothingOfItself(j)'
  BY <1>3, <1>5, <1>6, <1>7 DEF NothingOfItself
<1>12. Pair(i, j)' /\ Pair(j, i)'
  BY <1>2, <1>5, <1>9, <1>10 DEF Pair
<1> QED  BY <1>2, <1>8, <1>11, <1>12, BothWays

LEMMA RelayBegins == ASSUME TwoApart, R!Init PROVE RelayIInv
<1>1. /\ rows = [x \in Two |-> R!NoRows]
      /\ held = [x \in Two |-> [y \in Two |-> Unheld]]
      /\ lostAt = [x \in Two |-> [y \in Two |-> -1]]
      /\ upInRelay = {} /\ subs = [x \in Two |-> {}]
      /\ out = [x \in Two |-> [y \in Two |-> <<>>]]
      /\ wire = [x \in Two |-> [y \in Two |-> <<>>]]
      /\ view = [x \in Two |-> Unheld] /\ givenUp = {} /\ clock = 0
  BY DEF R!Init, R!NoWires, Two
<1>2. RelayTypes
  <2>1. R!NoRows \in R!Rows /\ Unheld \in HeldRows
    BY DEF R!NoRows, R!Rows, HeldRows
  <2>2. /\ [y \in Two |-> Unheld] \in [Two -> HeldRows] /\ [y \in Two |-> -1] \in [Two -> Int]
        /\ [y \in Two |-> <<>>] \in [Two -> Seq(RowFrame)]
        /\ [y \in Two |-> <<>>] \in [Two -> Seq(Mail)]
    BY <2>1
  <2> QED  BY <2>1, <2>2, <1>1 DEF RelayTypes
<1>3. ASSUME NEW x \in Two, NEW y \in Two, x # y PROVE Pair(x, y)
  <2>1. /\ wire[x][y] = <<>> /\ wire[y][x] = <<>> /\ out[y][x] = <<>> /\ x \notin subs[y]
        /\ view[x] = Unheld
    BY <1>1
  <2>2. Following(x, y, <<>>, <<>> \o <<>>, R!Stated(held[x][y]), rows[y], subs[y], view[x])
    BY <2>1, FollowsAfresh, NothingIsSaid
  <2>3. Follows(x, y)
    BY <2>1, <2>2 DEF Follows
  <2> QED  BY <2>1, <2>3, <1>1 DEF Pair, DownIsEmpty, UpIsUnmarked, SeesHeld
<1>4. \A x \in Two : NothingOfItself(x)
  BY <1>1 DEF NothingOfItself
<1> QED  BY <1>2, <1>3, <1>4 DEF RelayIInv

LEMMA RelayRests ==
  ASSUME RelayIInv, UNCHANGED <<rows, held, lostAt, upInRelay, subs, out, wire, view, givenUp>>,
         clock' \in Int
  PROVE  RelayIInv'
<1>1. RelayTypes'
  BY DEF RelayIInv, RelayTypes
<1>2. ASSUME NEW x \in Two, NEW y \in Two, x # y PROVE Pair(x, y)'
  <2>1. Pair(x, y)
    BY <1>2 DEF RelayIInv
  <2>2. Follows(x, y)'
    BY <2>1 DEF Pair, Follows
  <2> QED  BY <2>1, <2>2 DEF Pair, DownIsEmpty, UpIsUnmarked, SeesHeld
<1>3. \A x \in Two : NothingOfItself(x)'
  BY DEF RelayIInv, NothingOfItself
<1> QED  BY <1>1, <1>2, <1>3 DEF RelayIInv

LEMMA RelayStep == ASSUME TwoApart, RelayIInv, R!Next PROVE RelayIInv'
<1>1. CASE \E i, j \in Two : R!Receive(i, j)
  BY <1>1, ReceiveStays
<1>2. CASE \E i, j \in Two : R!Flush(i, j)
  BY <1>2, FlushStays
<1>3. CASE \E i \in Two, k \in Key, v \in Said : R!Change(i, k, v)
  BY <1>3, ChangeStays
<1>4. CASE \E i \in Two : R!Opens(i)
  BY <1>4, OpensStays
<1>5. CASE \E i \in Two : R!Leaves(i)
  BY <1>5, LeavesStays
<1>6. CASE \E i, j \in Two : R!Link(i, j)
  BY <1>6, LinkStays
<1>7. CASE \E i, j \in Two : R!Breaks(i, j)
  BY <1>7, BreaksStays
<1>8. CASE \E i \in Two : R!Restart(i)
  BY <1>8, RestartStays
<1>9. CASE R!Tick
  BY <1>9, RelayRests DEF R!Tick, RelayIInv, RelayTypes
<1> QED  BY <1>1, <1>2, <1>3, <1>4, <1>5, <1>6, <1>7, <1>8, <1>9 DEF R!Next, Two, Said

RelayInductive == machine = "relay" => RelayIInv

LEMMA RelayAlways ==
  ASSUME TwoApart
  PROVE  MCSpec => []RelayInductive
<1>1. MCInit => RelayInductive
  BY RelayBegins DEF MCInit, InitLinks, InitRelay, InitConfig, RelayInductive
<1>2. RelayInductive /\ [MCNext]_MCvars => RelayInductive'
  <2> SUFFICES ASSUME RelayInductive, [MCNext]_MCvars PROVE RelayInductive'
    OBVIOUS
  <2>1. CASE OnlyRelay /\ R!Next
    BY <2>1, RelayStep DEF RelayInductive, OnlyRelay
  <2>2. CASE (OnlyLinks /\ Next) \/ (OnlyConfig /\ F!Next)
    BY <2>2 DEF RelayInductive, OnlyLinks, OnlyConfig
  <2>3. CASE UNCHANGED MCvars
    <3>1. machine = "relay" => clock' \in Int
      BY <2>3 DEF RelayInductive, MCvars, RelayIInv, RelayTypes
    <3> QED  BY <2>3, <3>1, RelayRests DEF RelayInductive, MCvars
  <2> QED  BY <2>1, <2>2, <2>3 DEF MCNext
<1> QED  BY <1>1, <1>2, PTL DEF MCSpec, RelayInductive

(* What an instance holds of the peer it is subscribed to is what the      *)
(* peer's rows are once the frames on their way are taken, and what its    *)
(* subscriber was handed is what is held (accept and snapshot of relay.ts),*)
(* for any rows, values and number of changes, losses, restarts and        *)
(* visits, between two instances.                                          *)
THEOREM RowsAreNotMissed ==
  ASSUME TwoApart
  PROVE  MCSpec => []HeldCatchesUp
<1>1. RelayInductive => HeldCatchesUp
  <2> SUFFICES ASSUME RelayIInv PROVE R!HeldCatchesUp /\ R!ViewIsHeld
    BY DEF RelayInductive, HeldCatchesUp
  <2>1. R!ViewIsHeld
    <3> SUFFICES ASSUME NEW i \in Two, NEW j \in Two, i # j, view[i] # Unheld,
                        held[i][j] # Unheld
                 PROVE  view[i][j] \in {held[i][j], Unheld}
      BY DEF R!ViewIsHeld, Two
    <3>1. SeesHeld(i, j)
      BY DEF RelayIInv, Pair
    <3> QED  BY <3>1 DEF SeesHeld, R!Stated
  <2>2. R!HeldCatchesUp
    <3> SUFFICES ASSUME NEW j \in Two, NEW i \in subs[j], <<i, j>> \notin givenUp
                 PROVE  R!ComesTo(wire[j][i] \o out[j][i], R!Stated(held[i][j]), j, rows[j])
      BY DEF R!HeldCatchesUp, Two
    <3>1. i \in Two
      BY DEF RelayIInv, RelayTypes
    <3>2. CASE i # j
      <4>1. Follows(i, j)
        BY <3>1, <3>2 DEF RelayIInv, Pair
      <4>2. Following(i, j, wire[i][j], wire[j][i] \o out[j][i], R!Stated(held[i][j]), rows[j],
                      subs[j], view[i])
        BY <4>1 DEF Follows
      <4> QED  BY <4>2 DEF Following
    <3>3. i # j
      BY DEF RelayIInv, NothingOfItself
    <3> QED  BY <3>2, <3>3
  <2> QED  BY <2>1, <2>2
<1> QED  BY <1>1, RelayAlways, PTL
=============================================================================
