------------------------------ MODULE MCKeeping -----------------------------
(* Small instances of what an instance and its host keep for others: the   *)
(* outgoing frames of a terminal, a namespace of the store, what the       *)
(* gateway has said of requests and of itself, and the processes of the    *)
(* supervisor.                                                             *)
EXTENDS Egress, TLC

CONSTANTS
  Dir, Unit, Pid, Call, MaxLoops, NoDir, NoUnit, NoPid, Value, MaxCrashes,
  MaxChain, KvTime, Retention, Gone, None, s0, p0, Prefix, TTL, LIVE_WINDOW,
  MAX_SERIES, MAX_PREFIXES, RequestsTime, RequestsSaid, RequestsTaken,
  StatusTime, StatusSaid, StatusTaken, StatusTruth, StatusReads, Off

VARIABLES
  machine,  \* the component this behaviour is one of
  up, crashes, now, mem, chain, disk, subInKv, view, said, lost,
  takenInRequests, newest, series, order, prefixes, active, frame, shown,
  listening, settling, report, reads, begun, truth, takenInStatus, units,
  unit, proc, lock, call, leaving, gone, stopped

K == INSTANCE KvStore WITH
  MaxTime <- KvTime, sub <- subInKv

R == INSTANCE Gateway WITH
  Sid <- Key, Origin <- {""}, Refused <- {FALSE}, MaxTime <- RequestsTime,
  MaxSaid <- RequestsSaid, MaxTaken <- RequestsTaken, MaxTruth <- 0,
  MaxReads <- 0, taken <- takenInRequests

S == INSTANCE Gateway WITH
  Sid <- {s0}, Prefix <- {p0}, Origin <- {""}, Refused <- {TRUE},
  MaxTime <- StatusTime, MaxSaid <- StatusSaid, MaxTaken <- StatusTaken,
  MaxTruth <- StatusTruth, MaxReads <- StatusReads, taken <- takenInStatus

U == INSTANCE Supervisor

(* One component runs in a behaviour; the variables of Egress rest as they *)
(* began and those of the others hold nothing.                             *)
InitEgress ==
  /\ machine = "egress" /\ Init
  /\ up = Off /\ crashes = Off /\ now = Off /\ mem = Off /\ chain = Off
  /\ disk = Off /\ subInKv = Off /\ view = Off /\ said = Off /\ lost = Off
  /\ takenInRequests = Off /\ newest = Off /\ series = Off /\ order = Off
  /\ prefixes = Off /\ active = Off /\ frame = Off /\ shown = Off
  /\ listening = Off /\ settling = Off /\ report = Off /\ reads = Off
  /\ begun = Off /\ truth = Off /\ takenInStatus = Off /\ units = Off
  /\ unit = Off /\ proc = Off /\ lock = Off /\ call = Off /\ leaving = Off
  /\ gone = Off /\ stopped = Off

OnlyEgress ==
  /\ machine = "egress"
  /\ UNCHANGED <<machine, up, crashes, now, mem, chain, disk, subInKv, view,
                 said, lost, takenInRequests, newest, series, order,
                 prefixes, active, frame, shown, listening, settling, report,
                 reads, begun, truth, takenInStatus, units, unit, proc, lock,
                 call, leaving, gone, stopped>>

InitKv ==
  /\ machine = "kv" /\ K!Init /\ Init
  /\ takenInRequests = Off /\ newest = Off /\ series = Off /\ order = Off
  /\ prefixes = Off /\ active = Off /\ frame = Off /\ shown = Off
  /\ listening = Off /\ settling = Off /\ report = Off /\ reads = Off
  /\ begun = Off /\ truth = Off /\ takenInStatus = Off /\ units = Off
  /\ unit = Off /\ proc = Off /\ lock = Off /\ call = Off /\ leaving = Off
  /\ gone = Off /\ stopped = Off

OnlyKv ==
  /\ machine = "kv"
  /\ UNCHANGED <<machine, queue, folded, kept, armed, quiet, sub, left,
                 version, taken, raised, opened, wire, takenInRequests,
                 newest, series, order, prefixes, active, frame, shown,
                 listening, settling, report, reads, begun, truth,
                 takenInStatus, units, unit, proc, lock, call, leaving, gone,
                 stopped>>

InitRequests ==
  /\ machine = "requests" /\ R!Init /\ Init
  /\ up = Off /\ crashes = Off /\ mem = Off /\ chain = Off /\ disk = Off
  /\ subInKv = Off /\ view = Off /\ lost = Off /\ takenInStatus = Off
  /\ units = Off /\ unit = Off /\ proc = Off /\ lock = Off /\ call = Off
  /\ leaving = Off /\ gone = Off /\ stopped = Off

OnlyRequests ==
  /\ machine = "requests"
  /\ UNCHANGED <<machine, queue, folded, kept, armed, quiet, sub, left,
                 version, taken, raised, opened, wire, up, crashes, mem,
                 chain, disk, subInKv, view, lost, takenInStatus, units,
                 unit, proc, lock, call, leaving, gone, stopped>>

InitStatus ==
  /\ machine = "status" /\ S!Init /\ Init
  /\ up = Off /\ crashes = Off /\ mem = Off /\ chain = Off /\ disk = Off
  /\ subInKv = Off /\ view = Off /\ lost = Off /\ takenInRequests = Off
  /\ units = Off /\ unit = Off /\ proc = Off /\ lock = Off /\ call = Off
  /\ leaving = Off /\ gone = Off /\ stopped = Off

OnlyStatus ==
  /\ machine = "status"
  /\ UNCHANGED <<machine, queue, folded, kept, armed, quiet, sub, left,
                 version, taken, raised, opened, wire, up, crashes, mem,
                 chain, disk, subInKv, view, lost, takenInRequests, units,
                 unit, proc, lock, call, leaving, gone, stopped>>

InitSupervise ==
  /\ machine = "supervise" /\ U!Init /\ Init
  /\ up = Off /\ crashes = Off /\ now = Off /\ mem = Off /\ chain = Off
  /\ disk = Off /\ subInKv = Off /\ view = Off /\ said = Off /\ lost = Off
  /\ takenInRequests = Off /\ newest = Off /\ series = Off /\ order = Off
  /\ prefixes = Off /\ active = Off /\ frame = Off /\ shown = Off
  /\ listening = Off /\ settling = Off /\ report = Off /\ reads = Off
  /\ begun = Off /\ truth = Off /\ takenInStatus = Off

OnlySupervise ==
  /\ machine = "supervise"
  /\ UNCHANGED <<machine, queue, folded, kept, armed, quiet, sub, left,
                 version, taken, raised, opened, wire, up, crashes, now, mem,
                 chain, disk, subInKv, view, said, lost, takenInRequests,
                 newest, series, order, prefixes, active, frame, shown,
                 listening, settling, report, reads, begun, truth,
                 takenInStatus>>

MCInit == InitEgress \/ InitKv \/ InitRequests \/ InitStatus \/ InitSupervise

MCNext ==
  \/ OnlyEgress /\ Next
  \/ OnlyKv /\ K!Next
  \/ OnlyRequests /\ R!Next
  \/ OnlyStatus /\ S!Next
  \/ OnlySupervise /\ U!Next

MCvars == <<machine, queue, folded, kept, armed, quiet, sub, left, version,
            taken, raised, opened, wire, up, crashes, now, mem, chain, disk,
            subInKv, view, said, lost, takenInRequests, newest, series,
            order, prefixes, active, frame, shown, listening, settling,
            report, reads, begun, truth, takenInStatus, units, unit, proc,
            lock, call, leaving, gone, stopped>>

Interchangeable ==
  Permutations(Key) \cup Permutations(Prefix) \cup
  Permutations(Call) \cup Permutations(Unit)

MCSpec == MCInit /\ [][MCNext]_MCvars

-----------------------------------------------------------------------------
(* The frames a terminal is handed leave nothing out and hand nothing over *)
(* twice: the books match the queue, occurrences go out in order, and a    *)
(* first subscription holds the latest value (Egress.push, flush,          *)
(* dropAll).                                                               *)
FramesReach == BooksMatch /\ OccurrencesInOrder /\ FirstVisitHoldsLatest

(* A write of the store that was answered survives any kill, a restart     *)
(* changes no answer, and a subscriber catches up with it                  *)
(* (KvStore.#persist, #load, snapshot).                                    *)
StoreIsKept ==
  machine = "kv" =>
    K!AnsweredIsDurable /\ K!RestartChangesNothing /\ K!ViewCatchesUp

(* What the rows and the countdowns show of the gateway is the newest it   *)
(* has said, in whatever order it was heard (RequestWindows.record,        *)
(* active).                                                                *)
RowShowsNewest ==
  /\ machine = "requests" => R!RowShowsNewest /\ R!CountdownsAgree
  /\ machine = "status" => S!RowShowsNewest /\ S!CountdownsAgree

(* Nothing that is kept goes back to something older: a file of the store, *)
(* the held request of a series, the report of the gateway (#persist,      *)
(* record, StatusReader).                                                  *)
NothingGoesBack ==
  [][/\ machine = "kv" => K!KeepsFile
     /\ machine = "requests" => R!KeepsHeld
     /\ machine = "status" => S!KeepsHeld /\ S!KeepsReport]_MCvars

(* Every process the supervisor started is the child of one unit whose     *)
(* loop waits for it, and a start that waits is served (Supervisor.#keep,  *)
(* Supervised.abandoned).                                                  *)
ChildIsWatched == machine = "supervise" => U!ChildIsWatched /\ U!WaitIsServed

(* A stop that was answered leaves its unit without a child until it is    *)
(* started again, whatever else was in flight (Supervisor.stopOne).        *)
StopStays == machine = "supervise" => U!StopStays
=============================================================================
