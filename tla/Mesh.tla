-------------------------------- MODULE Mesh --------------------------------
(***************************************************************************)
(* The link between two instances of a mesh (src/src/mesh/mesh.ts).  Both  *)
(* dial, each connection is proven to the end that accepted it before it   *)
(* is held, two that were opened at once are folded into one by the glare  *)
(* rule, and a heartbeat notices a connection that was lost in silence.    *)
(* Instances stop, are killed and come back; connections are cut with and  *)
(* without a notice; one end may be told to forget the other.              *)
(*                                                                         *)
(* An action is one event of one instance.  What the proof is made of is   *)
(* left out, when it is asked for, delivered and judged is not.            *)
(*                                                                         *)
(* Variants of a definition that carry a plausible fault stand just before *)
(* it; no specification uses them.                                         *)
(***************************************************************************)
EXTENDS Integers

CONSTANTS
  Small, Large, \* the two endpoints, in the order of their strings
  Conn,         \* connections; one is used again once both ends are done with it
  Call,         \* requests of an instance being carried to the other
  MaxCuts,      \* bound: connections lost in silence, keys not fetched
  MaxExits,     \* bound: stops and kills
  Forgetting,   \* whether an end may be told to forget the other
  Prompt,       \* whether what is on its way arrives before a retry is due
  NoConn, NoEnd

End == {Small, Large}

ASSUME MeshAssumption ==
  /\ Small # Large /\ NoEnd \notin End /\ NoConn \notin Conn
  /\ MaxCuts \in Nat /\ MaxExits \in Nat /\ Forgetting \in BOOLEAN /\ Prompt \in BOOLEAN

VARIABLES
  up,       \* the instances that run
  link,     \* Mesh.#links of each end, for the other
  retry,    \* the ends with a timer in Mesh.#retries
  forgot,   \* the ends that have the other in Mesh.#forgotten
  conn,     \* the connections: see Connection
  waiting,  \* Mesh.#forwarded of each end
  cuts, exits,
  misjudged \* a dial was refused for a link its dialler had already let go

vars == <<up, link, retry, forgot, conn, waiting, cuts, exits, misjudged>>

Other(e) == IF e = Small THEN Large ELSE Small

(* by dialled.  hs is how far the greeting is: sent, being checked, with   *)
(* the proof in and the key still awaited, acknowledged or refused with    *)
(* the reply on its way, proven, or over.  An end is open, about to be     *)
(* told that the connection closed and with which code, or gone.           *)
Connection ==
  [by : End \cup {NoEnd}, wire : {"alive", "silent"},
   hs : {"none", "dialling", "greeting", "checking", "proofIn", "acked", "refused",
         "proven", "over"},
   end : [End -> {"open", "plain", "glare", "gone"}]]

Unused == [by |-> NoEnd, wire |-> "alive", hs |-> "none", end |-> [e \in End |-> "gone"]]

TypeOK ==
  /\ up \subseteq End /\ retry \subseteq End /\ forgot \subseteq End
  /\ link \in [End -> Conn \cup {NoConn}]
  /\ conn \in [Conn -> Connection]
  /\ waiting \in [End -> SUBSET Call]
  /\ cuts \in 0..MaxCuts /\ exits \in 0..MaxExits
  /\ misjudged \in BOOLEAN

Init ==
  /\ up = {} /\ retry = {} /\ forgot = {}
  /\ link = [e \in End |-> NoConn]
  /\ conn = [c \in Conn |-> Unused]
  /\ waiting = [e \in End |-> {}]
  /\ cuts = 0 /\ exits = 0 /\ misjudged = FALSE

-----------------------------------------------------------------------------
Dialler(c) == conn[c].by
Acceptor(c) == Other(conn[c].by)

(* A connection nobody has anything to do with any more can be another.    *)
Tidy(C) ==
  [c \in Conn |->
     IF /\ \A e \in End : C[c].end[e] = "gone"
        /\ C[c].hs \in {"acked", "refused", "proven", "over"}
     THEN Unused ELSE C[c]]

(* End e closes connection c with a code.  Both ends are told of it, the   *)
(* other one only over a wire that carries anything.                       *)
Closing(C, c, e, code) ==
  [C EXCEPT ![c].end =
     [x \in End |->
        IF C[c].end[x] # "open" THEN C[c].end[x]
        ELSE IF C[c].wire = "alive" THEN code
        ELSE IF x = e THEN "plain" ELSE "open"]]

KeepsNewMine(self, byUs) == byUs

(* The glare rule: the connection the smaller endpoint dialled stays.      *)
KeepsNew(self, byUs) == IF byUs THEN self = Small ELSE Other(self) = Small

(* Whether e takes a connection that was proven as its link.               *)
Taken(e, c) == link[e] = NoConn \/ KeepsNew(e, Dialler(c) = e)

HoldLoserOpen(e, c, C) ==
  LET taken == Taken(e, c)
      closed == C[c].end[e] = "gone"
  IN  /\ conn' = Tidy(IF ~taken THEN Closing(C, c, e, "glare") ELSE C)
      /\ link' = [link EXCEPT ![e] = IF ~taken THEN @ ELSE IF closed THEN NoConn ELSE c]
      /\ waiting' = IF taken /\ closed THEN [waiting EXCEPT ![e] = {}] ELSE waiting
      /\ UNCHANGED misjudged

(* #hold at e of a connection that was proven, in a state whose            *)
(* connections are C.  One whose closing was noticed before is dropped     *)
(* again at once.                                                          *)
Hold(e, c, C) ==
  LET held == link[e]
      taken == Taken(e, c)
      closed == C[c].end[e] = "gone"
  IN  /\ conn' = Tidy(IF ~taken THEN Closing(C, c, e, "glare")
                      ELSE IF held = NoConn THEN C
                      ELSE Closing(C, held, e, "glare"))
      /\ link' = [link EXCEPT ![e] = IF ~taken THEN held
                                     ELSE IF closed THEN NoConn ELSE c]
      /\ waiting' = IF taken /\ closed THEN [waiting EXCEPT ![e] = {}] ELSE waiting
      /\ misjudged' = (misjudged \/ (~taken /\ link[Other(e)] # held
                                     /\ C[held].end[Other(e)] # "open"))

Retries(e) == IF e \in forgot THEN retry ELSE retry \cup {e}

DropKeepsWaiting(e, c) ==
  IF link[e] = c
  THEN /\ link' = [link EXCEPT ![e] = NoConn]
       /\ retry' = IF Dialler(c) = e THEN Retries(e) ELSE retry
       /\ UNCHANGED waiting
  ELSE UNCHANGED <<link, waiting, retry>>

(* #drop at e of connection c: what waited for the other end is answered,  *)
(* and a link that e dialled is dialled again later.                       *)
Drop(e, c) ==
  IF link[e] = c
  THEN /\ link' = [link EXCEPT ![e] = NoConn]
       /\ waiting' = [waiting EXCEPT ![e] = {}]
       /\ retry' = IF Dialler(c) = e THEN Retries(e) ELSE retry
  ELSE UNCHANGED <<link, waiting, retry>>

-----------------------------------------------------------------------------
(* #dial: nothing is dialled where a link stands.                          *)
Dial(e) ==
  IF e \in forgot \/ link[e] # NoConn THEN UNCHANGED conn
  ELSE \E c \in Conn :
         /\ conn[c] = Unused
         /\ conn' = [conn EXCEPT ![c].by = e, ![c].hs = "dialling"]

(* An instance starts, and connect dials.                                  *)
Start(e) ==
  /\ e \notin up
  /\ up' = up \cup {e}
  /\ Dial(e)
  /\ UNCHANGED <<link, retry, forgot, waiting, cuts, exits, misjudged>>

(* A key, a reply or the notice of a closing is about to arrive.           *)
OnItsWay(c) ==
  \/ conn[c].hs = "proofIn"
  \/ conn[c].wire = "alive" /\ conn[c].hs \in {"acked", "refused"}
  \/ \E e \in End : conn[c].end[e] \in {"plain", "glare"}

(* The timer of #retry, which waits a second or more.                      *)
RetryFires(e) ==
  /\ e \in retry
  /\ Prompt => \A c \in Conn : ~OnItsWay(c)
  /\ retry' = retry \ {e}
  /\ Dial(e)
  /\ UNCHANGED <<up, link, forgot, waiting, cuts, exits, misjudged>>

(* The socket opens and the greeting goes out, ...                         *)
Opens(c) ==
  /\ conn[c].hs = "dialling"
  /\ Acceptor(c) \in up
  /\ conn' = [conn EXCEPT ![c] = [@ EXCEPT !.hs = "greeting", !.end = [e \in End |-> "open"]]]
  /\ UNCHANGED <<up, link, retry, forgot, waiting, cuts, exits, misjudged>>

(* ... or nobody is there.                                                 *)
OpenFails(c) ==
  /\ conn[c].hs = "dialling"
  /\ Acceptor(c) \notin up
  /\ conn' = [conn EXCEPT ![c] = Unused]
  /\ retry' = Retries(Dialler(c))
  /\ UNCHANGED <<up, link, forgot, waiting, cuts, exits, misjudged>>

(* greet up to its first await.                                            *)
Greets(c) ==
  /\ conn[c].hs = "greeting"
  /\ conn[c].wire = "alive"
  /\ conn[c].end[Acceptor(c)] = "open"
  /\ conn' = [conn EXCEPT ![c].hs = IF Acceptor(c) \in forgot THEN "refused" ELSE "checking"]
  /\ UNCHANGED <<up, link, retry, forgot, waiting, cuts, exits, misjudged>>

(* The dialler is asked for its key: the proof goes back on the connection *)
(* and arrives, the key is on its way over a connection of its own.        *)
ServesKey(c) ==
  /\ conn[c].hs = "checking"
  /\ conn[c].wire = "alive"
  /\ conn[c].end = [e \in End |-> "open"]
  /\ conn' = [conn EXCEPT ![c].hs = "proofIn"]
  /\ UNCHANGED <<up, link, retry, forgot, waiting, cuts, exits, misjudged>>

(* No proof can come, or the key is not handed out: greet refuses.         *)
ProofFails(c) ==
  /\ \/ /\ conn[c].hs = "checking"
        /\ conn[c].end[Acceptor(c)] = "open"
        /\ conn[c].wire = "silent" \/ conn[c].end[Dialler(c)] # "open"
        /\ UNCHANGED cuts
     \/ /\ conn[c].hs \in {"checking", "proofIn"}
        /\ cuts < MaxCuts
        /\ cuts' = cuts + 1
  /\ conn' = Tidy([conn EXCEPT ![c].hs = "refused"])
  /\ UNCHANGED <<up, link, retry, forgot, waiting, exits, misjudged>>

(* greet is acknowledged after it held the connection: not where it closed *)
(* it instead, and not where there is nobody to write to any more.         *)
Proven(c) ==
  [conn EXCEPT ![c].hs = IF conn[c].end[Acceptor(c)] # "open" THEN "proven"
                         ELSE IF Taken(Acceptor(c), c) THEN "acked" ELSE "over"]

KeyInUnasked(c) ==
  /\ conn[c].hs = "proofIn"
  /\ Hold(Acceptor(c), c, Proven(c))
  /\ UNCHANGED <<up, retry, forgot, cuts, exits>>

(* The key is there and the proof holds: greet goes on, and asks again     *)
(* whether the peer was forgotten meanwhile.                               *)
KeyIn(c) ==
  /\ conn[c].hs = "proofIn"
  /\ IF Acceptor(c) \in forgot
     THEN /\ conn' = Tidy([conn EXCEPT ![c].hs = "refused"])
          /\ UNCHANGED <<link, waiting, misjudged>>
     ELSE Hold(Acceptor(c), c, Proven(c))
  /\ UNCHANGED <<up, retry, forgot, cuts, exits>>

(* The reply reaches the dialler, whose key has served.                    *)
Acknowledged(c) ==
  /\ conn[c].hs = "acked"
  /\ conn[c].wire = "alive"
  /\ conn[c].end[Dialler(c)] # "gone"
  /\ IF Dialler(c) \in forgot
     THEN /\ conn' = Tidy(Closing([conn EXCEPT ![c].hs = "proven"], c, Dialler(c), "plain"))
          /\ UNCHANGED <<link, waiting, misjudged>>
     ELSE Hold(Dialler(c), c, [conn EXCEPT ![c].hs = "proven"])
  /\ UNCHANGED <<up, retry, forgot, cuts, exits>>

Refused(c) ==
  /\ conn[c].hs = "refused"
  /\ conn[c].wire = "alive"
  /\ conn[c].end[Dialler(c)] = "open"
  /\ conn' = Closing([conn EXCEPT ![c].hs = "over"], c, Dialler(c), "plain")
  /\ UNCHANGED <<up, link, retry, forgot, waiting, cuts, exits, misjudged>>

(* End e is told that c closed.  A reply that was sent before arrives      *)
(* first; a greeting still without its proof fails.  The dialler tries     *)
(* again, except for the loser of a glare.                                 *)
Closed(c, e) ==
  /\ conn[c].end[e] \in {"plain", "glare"}
  /\ ~(e = Dialler(c) /\ conn[c].hs = "acked" /\ conn[c].wire = "alive")
  /\ conn' = Tidy([conn EXCEPT ![c] = [@ EXCEPT
       !.end[e] = "gone",
       !.hs = IF e = Acceptor(c) /\ conn[c].hs \in {"greeting", "checking"}
              THEN "over" ELSE conn[c].hs]])
  /\ IF e = Dialler(c) /\ conn[c].end[e] = "plain"
     THEN /\ retry' = Retries(e)
          /\ link' = [link EXCEPT ![e] = IF @ = c THEN NoConn ELSE @]
          /\ waiting' = IF link[e] = c THEN [waiting EXCEPT ![e] = {}] ELSE waiting
     ELSE Drop(e, c)
  /\ UNCHANGED <<up, forgot, cuts, exits, misjudged>>

(* #beat: nothing was heard over the link for too long.                    *)
Beat(e) ==
  LET c == link[e]
  IN  /\ c # NoConn
      /\ conn[c].wire = "silent"
      /\ conn' = Closing(conn, c, e, "plain")
      /\ Drop(e, c)
      /\ UNCHANGED <<up, forgot, cuts, exits, misjudged>>

-----------------------------------------------------------------------------
(* forward, which answers at once where there is no link.                  *)
Forward(e, k) ==
  /\ e \in up
  /\ link[e] # NoConn
  /\ k \notin waiting[e]
  /\ waiting' = [waiting EXCEPT ![e] = @ \cup {k}]
  /\ UNCHANGED <<up, link, retry, forgot, conn, cuts, exits, misjudged>>

(* The reply comes, over a connection that still is the link, or the       *)
(* deadline passes.                                                        *)
Answered(e, k) ==
  /\ k \in waiting[e]
  /\ waiting' = [waiting EXCEPT ![e] = @ \ {k}]
  /\ UNCHANGED <<up, link, retry, forgot, conn, cuts, exits, misjudged>>

(* forget: the link is cut and the peer not dialled or let in again.       *)
Forget(e) ==
  LET c == link[e]
  IN  /\ Forgetting
      /\ e \in up \ forgot
      /\ forgot' = forgot \cup {e}
      /\ retry' = retry \ {e}
      /\ link' = [link EXCEPT ![e] = NoConn]
      /\ waiting' = [waiting EXCEPT ![e] = {}]
      /\ conn' = IF c = NoConn THEN conn ELSE Closing(conn, c, e, "plain")
      /\ UNCHANGED <<up, cuts, exits, misjudged>>

(* The instance stops (Mesh.stop, and its connections with it) or is       *)
(* killed: the other end is told wherever the wire carries it.             *)
Exit(e) ==
  /\ e \in up
  /\ exits < MaxExits
  /\ exits' = exits + 1
  /\ up' = up \ {e}
  /\ retry' = retry \ {e}
  /\ forgot' = forgot \ {e}
  /\ link' = [link EXCEPT ![e] = NoConn]
  /\ waiting' = [waiting EXCEPT ![e] = {}]
  /\ conn' = Tidy([c \in Conn |->
       IF conn[c].hs = "dialling" /\ Dialler(c) = e THEN Unused
       ELSE [conn[c] EXCEPT
         !.end = [x \in End |-> IF x = e THEN "gone"
                                ELSE IF conn[c].end[x] = "open" /\ conn[c].wire = "alive"
                                THEN "plain" ELSE conn[c].end[x]],
         !.hs = IF Dialler(c) = Other(e) /\ @ \in {"greeting", "checking", "proofIn"}
                THEN "over" ELSE @]])
  /\ UNCHANGED <<cuts, misjudged>>

(* A connection is lost, with a notice to both ends or without.            *)
Breaks(c) ==
  /\ cuts < MaxCuts
  /\ cuts' = cuts + 1
  /\ conn[c].wire = "alive"
  /\ "open" \in {conn[c].end[e] : e \in End}
  /\ \/ conn' = [conn EXCEPT ![c].wire = "silent"]
     \/ conn' = [Closing(conn, c, Small, "plain") EXCEPT ![c].wire = "silent"]
  /\ UNCHANGED <<up, link, retry, forgot, waiting, exits, misjudged>>

Handshake(c) ==
  \/ Opens(c) \/ OpenFails(c) \/ Greets(c) \/ ServesKey(c)
  \/ ProofFails(c) \/ KeyIn(c) \/ Acknowledged(c) \/ Refused(c)

Next ==
  \/ \E c \in Conn : Handshake(c) \/ Breaks(c)
  \/ \E c \in Conn, e \in End : Closed(c, e)
  \/ \E e \in End : Start(e) \/ RetryFires(e) \/ Beat(e) \/ Forget(e) \/ Exit(e)
  \/ \E e \in End, k \in Call : Forward(e, k) \/ Answered(e, k)

Spec == Init /\ [][Next]_vars

(* What was sent over a wire that carries arrives, timers fire, deadlines  *)
(* pass.  Nothing says that an instance is started.                        *)
Fairness ==
  /\ \A c \in Conn : WF_vars(Handshake(c))
  /\ \A c \in Conn, e \in End : WF_vars(Closed(c, e))
  /\ \A e \in End : WF_vars(RetryFires(e)) /\ WF_vars(Beat(e))
  /\ \A e \in End, k \in Call : WF_vars(Answered(e, k))

FairSpec == Spec /\ Fairness

-----------------------------------------------------------------------------
(* "Both connections are verified before either is dropped, so whichever   *)
(* survives is one that was proven" (#hold): no end ever holds a           *)
(* connection whose proof the end that accepted it has not checked, and    *)
(* none holds one to a peer it has forgotten, whatever was being dialled   *)
(* or proven at that moment (forget, greet, #dialledFrame).                *)
HeldIsProven ==
  \A e \in End : link[e] # NoConn =>
    conn[link[e]].hs \in {"acked", "proven"} /\ e \notin forgot

(* Nothing of a handshake or of a closing is on its way.                   *)
Still ==
  \A c \in Conn :
    /\ conn[c].hs \in {"none", "proven", "over"}
    /\ \A e \in End : conn[c].end[e] \in {"open", "gone"}

(* Once nothing is on its way, two instances agree: what one holds over a  *)
(* wire that carries, the other holds too, and they hold one connection,   *)
(* whichever of them dialled and in whatever order the greetings and the   *)
(* replies crossed (glareKeepsNew: "the two ends reach the same            *)
(* conclusion").                                                           *)
EndsAgree ==
  Still => \A e \in End :
             link[e] # NoConn /\ conn[link[e]].wire = "alive" => link[Other(e)] = link[e]

(* What waits for an answer of the other end waits while there is a link,  *)
(* through glare, loss and forgetting: nothing else would abandon it, and  *)
(* the stop order waits for it (#drop, #abandon, stop).                    *)
WaitingHasLink == \A e \in End : waiting[e] # {} => link[e] # NoConn

Linked == link[Small] # NoConn /\ link[Small] = link[Large]

(* The dialler of a connection that went silent waits for the reply to its *)
(* greeting without a deadline.                                            *)
WaitsInVain ==
  \E c \in Conn :
    /\ conn[c].wire = "silent"
    /\ conn[c].hs # "none"
    /\ conn[c].end[Dialler(c)] = "open"

(* Instances that both stay up, and are not told to forget each other, are *)
(* linked for good once connections no longer break: "there is no side     *)
(* that owns a link and no peer that cannot be recovered from the other    *)
(* end" (Mesh).                                                            *)
LinkComesBack == <>[](up = End /\ forgot = {} => Linked \/ WaitsInVain)

(* The same, but for a dial that was refused for a link its dialler had    *)
(* let go: neither end tries again (#hold, #dial, #drop).                  *)
LinkRecovers == <>[](up = End /\ forgot = {} => Linked \/ WaitsInVain \/ misjudged)
=============================================================================
