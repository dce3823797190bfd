------------------------------- MODULE MCLive -------------------------------
(* Small instances of what must happen in the end: the sends of two        *)
(* connections are answered though appends fail, and a link comes back.    *)
EXTENDS Delivery

CONSTANTS
  Small, Large, Wire, MaxCuts, MaxExits, Forgetting, Prompt, NoConn, NoEnd,
  Off

VARIABLES
  machine,  \* the component this behaviour is one of
  upInLinks, link, retry, forgot, conn, waiting, cuts, exits, misjudged

M == INSTANCE Mesh WITH
  Conn <- Wire, Call <- {}, up <- upInLinks

(* One component runs in a behaviour; the variables of Delivery rest as    *)
(* they began and those of the others hold nothing.                        *)
InitDelivery ==
  /\ machine = "delivery" /\ Init
  /\ upInLinks = Off /\ link = Off /\ retry = Off /\ forgot = Off
  /\ conn = Off /\ waiting = Off /\ cuts = Off /\ exits = Off
  /\ misjudged = Off

OnlyDelivery ==
  /\ machine = "delivery"
  /\ UNCHANGED <<machine, upInLinks, link, retry, forgot, conn, waiting,
                 cuts, exits, misjudged>>

InitLinks ==
  /\ machine = "links" /\ M!Init /\ Init
  /\ standing = [t \in Sid |-> CHOOSE x \in Standing : TRUE]

OnlyLinks ==
  /\ machine = "links"
  /\ UNCHANGED <<machine, up, crashes, standing, issued, counter, inbox,
                 file, torn, aged, offer, op, sub, got, ever, strayed, said>>

MCInit == InitDelivery \/ InitLinks

MCNext ==
  \/ OnlyDelivery /\ Next
  \/ OnlyLinks /\ M!Next

MCvars == <<machine, up, crashes, standing, issued, counter, inbox, file,
            torn, aged, offer, op, sub, got, ever, strayed, said, upInLinks,
            link, retry, forgot, conn, waiting, cuts, exits, misjudged>>

OneSession == [c \in Conn |-> CHOOSE s \in Sid : TRUE]

(* The predicate, or the step, is one of the links.                        *)
On(P) == machine = "links" /\ P

linkVars == M!vars

(* What Mesh assumes of wires, timers and deadlines.                       *)
LinkFairness ==
  /\ \A w \in Wire : WF_linkVars(On(M!Handshake(w)))
  /\ \A w \in Wire, e \in {Small, Large} : WF_linkVars(On(M!Closed(w, e)))
  /\ \A e \in {Small, Large} :
       WF_linkVars(On(M!RetryFires(e))) /\ WF_linkVars(On(M!Beat(e)))

MCSpec == MCInit /\ [][MCNext]_MCvars /\ Fairness /\ LinkFairness

-----------------------------------------------------------------------------
(* Two instances that both stay up are linked again for good once          *)
(* connections no longer break, but where a dial was refused for a link    *)
(* its dialler had let go (Mesh.#hold, #dial, #drop).                      *)
LinkRecovers ==
  <>[](On(upInLinks = M!End /\ forgot = {}) =>
         On(M!Linked \/ M!WaitsInVain \/ misjudged))
=============================================================================
