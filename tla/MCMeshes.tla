------------------------------ MODULE MCMeshes ------------------------------
(* Small instances of what makes up a mesh: the link two instances keep    *)
(* between them, the rows each relays of the other, and the files of a     *)
(* host that say which instances there are and where.                      *)
EXTENDS Mesh, TLC

CONSTANTS
  a, b, Key, Value, Gone, Unheld, RETENTION, MaxChanges, MaxBreaks,
  MaxVisits, Home, None, Proc, Doing, Mistyped, Broken, MaxRuns, MaxKills,
  MaxEdits, Off

VARIABLES
  machine,  \* the component this behaviour is one of
  rows, held, lostAt, upInRelay, subs, out, wire, view, givenUp, clock,
  changes, breaks, visits, endpoints, supervised, own, copies, applied, proc,
  reused, reverted, asked, runs, kills, edits

R == INSTANCE Relay WITH
  Inst <- {a, b}, Linked <- {{a, b}}, Always <- FALSE, MaxTime <- 1,
  up <- upInRelay

F == INSTANCE Config

(* One component runs in a behaviour; the variables of Mesh rest as they   *)
(* began and those of the others hold nothing.                             *)
InitLinks ==
  /\ machine = "links" /\ Init
  /\ rows = Off /\ held = Off /\ lostAt = Off /\ upInRelay = Off
  /\ subs = Off /\ out = Off /\ wire = Off /\ view = Off /\ givenUp = Off
  /\ clock = Off /\ changes = Off /\ breaks = Off /\ visits = Off
  /\ endpoints = Off /\ supervised = Off /\ own = Off /\ copies = Off
  /\ applied = Off /\ proc = Off /\ reused = Off /\ reverted = Off
  /\ asked = Off /\ runs = Off /\ kills = Off /\ edits = Off

OnlyLinks ==
  /\ machine = "links"
  /\ UNCHANGED <<machine, rows, held, lostAt, upInRelay, subs, out, wire,
                 view, givenUp, clock, changes, breaks, visits, endpoints,
                 supervised, own, copies, applied, proc, reused, reverted,
                 asked, runs, kills, edits>>

InitRelay ==
  /\ machine = "relay" /\ R!Init /\ Init
  /\ endpoints = Off /\ supervised = Off /\ own = Off /\ copies = Off
  /\ applied = Off /\ proc = Off /\ reused = Off /\ reverted = Off
  /\ asked = Off /\ runs = Off /\ kills = Off /\ edits = Off

OnlyRelay ==
  /\ machine = "relay"
  /\ UNCHANGED <<machine, up, link, retry, forgot, conn, waiting, cuts,
                 exits, misjudged, endpoints, supervised, own, copies,
                 applied, proc, reused, reverted, asked, runs, kills, edits>>

InitConfig ==
  /\ machine = "config" /\ F!Init /\ Init
  /\ rows = Off /\ held = Off /\ lostAt = Off /\ upInRelay = Off
  /\ subs = Off /\ out = Off /\ wire = Off /\ view = Off /\ givenUp = Off
  /\ clock = Off /\ changes = Off /\ breaks = Off /\ visits = Off

OnlyConfig ==
  /\ machine = "config"
  /\ UNCHANGED <<machine, up, link, retry, forgot, conn, waiting, cuts,
                 exits, misjudged, rows, held, lostAt, upInRelay, subs, out,
                 wire, view, givenUp, clock, changes, breaks, visits>>

MCInit == InitLinks \/ InitRelay \/ InitConfig

MCNext ==
  \/ OnlyLinks /\ Next
  \/ OnlyRelay /\ R!Next
  \/ OnlyConfig /\ F!Next

MCvars == <<machine, up, link, retry, forgot, conn, waiting, cuts, exits,
            misjudged, rows, held, lostAt, upInRelay, subs, out, wire, view,
            givenUp, clock, changes, breaks, visits, endpoints, supervised,
            own, copies, applied, proc, reused, reverted, asked, runs, kills,
            edits>>

Interchangeable == Permutations(Conn) \cup Permutations(Home)

MCSpec == MCInit /\ [][MCNext]_MCvars

-----------------------------------------------------------------------------
(* Rows relayed from a peer are the peer's own once nothing is on its way, *)
(* through broken links and restarts, and a subscriber has been told as    *)
(* much (Relay.accept, #onto, flush).                                      *)
HeldCatchesUp == machine = "relay" => R!HeldCatchesUp /\ R!ViewIsHeld

(* The files of a host hold after every step of every command and wherever *)
(* one is killed (addInstance, removeInstance, settle).                    *)
FilesHold == machine = "config" => F!FilesHold

(* What is applied loses an instance only to a command that removes it     *)
(* (settle, applyAll).                                                     *)
AppliedStays == [][machine = "config" => F!KeepsApplied]_MCvars
=============================================================================
