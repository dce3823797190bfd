------------------------------ MODULE MCDaemon ------------------------------
(* Small instances of how an instance comes and goes: starters racing for  *)
(* the lock of a config home, the supervisor that keeps its process up,    *)
(* and the start and the stop order of the process itself.                 *)
EXTENDS InstanceLock, TLC

CONSTANTS
  Dir, Unit, Call, MaxLoops, NoDir, NoUnit, Req, Departs, Closing, MaxRuns,
  Proc,   \* the processes of Supervisor and of Lifecycle
  Off

VARIABLES
  machine,  \* the component this behaviour is one of
  units, unit, proc, lock, call, leaving, gone, stopped, stage, failed,
  flight, named, req, holds, mem, chain, owed, fileInStop, late, twice, runs

S == INSTANCE Supervisor WITH
  Pid <- Proc

L == INSTANCE Lifecycle WITH
  Pid <- Proc, file <- fileInStop

(* One component runs in a behaviour; the variables of InstanceLock rest   *)
(* as they began and those of the others hold nothing.                     *)
InitLock ==
  /\ machine = "lock" /\ Init
  /\ units = Off /\ unit = Off /\ proc = Off /\ lock = Off /\ call = Off
  /\ leaving = Off /\ gone = Off /\ stopped = Off /\ stage = Off
  /\ failed = Off /\ flight = Off /\ named = Off /\ req = Off /\ holds = Off
  /\ mem = Off /\ chain = Off /\ owed = Off /\ fileInStop = Off /\ late = Off
  /\ twice = Off /\ runs = Off

OnlyLock ==
  /\ machine = "lock"
  /\ UNCHANGED <<machine, units, unit, proc, lock, call, leaving, gone,
                 stopped, stage, failed, flight, named, req, holds, mem,
                 chain, owed, fileInStop, late, twice, runs>>

InitSupervise ==
  /\ machine = "supervise" /\ S!Init /\ Init
  /\ pc = [i \in Pid |-> "off"]
  /\ stage = Off /\ failed = Off /\ flight = Off /\ named = Off /\ req = Off
  /\ holds = Off /\ mem = Off /\ chain = Off /\ owed = Off
  /\ fileInStop = Off /\ late = Off /\ twice = Off /\ runs = Off

OnlySupervise ==
  /\ machine = "supervise"
  /\ UNCHANGED <<machine, file, pc, saw, round, met, left, stage, failed,
                 flight, named, req, holds, mem, chain, owed, fileInStop,
                 late, twice, runs>>

InitStop ==
  /\ machine = "stop" /\ L!Init /\ Init
  /\ pc = [i \in Pid |-> "off"]
  /\ units = Off /\ unit = Off /\ proc = Off /\ call = Off /\ leaving = Off
  /\ gone = Off /\ stopped = Off

OnlyStop ==
  /\ machine = "stop"
  /\ UNCHANGED <<machine, file, pc, saw, round, met, left, units, unit, proc,
                 call, leaving, gone, stopped>>

MCInit == InitLock \/ InitSupervise \/ InitStop

MCNext ==
  \/ OnlyLock /\ Next
  \/ OnlySupervise /\ S!Next
  \/ OnlyStop /\ L!Next

MCvars == <<machine, file, pc, saw, round, met, left, units, unit, proc,
            lock, call, leaving, gone, stopped, stage, failed, flight, named,
            req, holds, mem, chain, owed, fileInStop, late, twice, runs>>

(* The predicate is one of this component's.                               *)
On(m, P) == machine = m /\ P

Supervising == machine = "supervise"
superviseVars == S!vars

Stopping == machine = "stop"
stopVars == L!vars

(* What Supervisor and Lifecycle assume of timers, deadlines, writes and   *)
(* killed processes.                                                       *)
SupervisorFairness ==
  /\ WF_superviseVars(Supervising /\ S!Microtask)
  /\ \A u \in Unit :
       SF_superviseVars(Supervising /\ (S!PauseEnds(u) \/ S!Noticed(u)))
  /\ \A j \in Call \cup Unit : SF_superviseVars(Supervising /\ S!Advances(j))
  /\ WF_superviseVars(Supervising /\ \E i \in Proc :
                                    proc[i].st = "killed" /\ S!Dies(i))
  /\ WF_superviseVars(Supervising /\ S!Left)

StopFairness ==
  \A i \in Proc :
    /\ WF_stopVars(Stopping /\ L!Lands(i))
    /\ WF_stopVars(Stopping /\ (L!Settled(i) \/ L!Flushed(i) \/ L!Closes(i)))
    /\ WF_stopVars(Stopping /\ (L!Release(i) \/ L!GivesUp(i)))

MCSpec ==
  /\ MCInit /\ [][MCNext]_MCvars
  /\ Fairness /\ SupervisorFairness /\ StopFairness

-----------------------------------------------------------------------------
(* A config home is not wedged: every starter settles, and one that finds  *)
(* the lock of a dead process takes it over (acquireLock).                 *)
HomeIsTaken == StarterSettles /\ TakesOver

(* Every request is answered, a unit that is wanted comes back, and a      *)
(* supervisor asked to leave does (Supervisor.#serving, #keep, stop).      *)
SupervisorServes ==
  /\ \A c \in Call :
       On("supervise", call[c].pc # "free") ~> On("supervise", S!Answered(c))
  /\ \A u \in Unit : On("supervise", S!Missing(u)) ~> On("supervise", S!Back(u))
  /\ On("supervise", leaving) ~> On("supervise", S!LeftAlone)

(* What lands after the lock was given up was asked for by what the log    *)
(* names; nothing else of a departing instance runs on, and whoever serves *)
(* has the lock (Instance.#stop, #settleInFlight).                         *)
LateIsNamed ==
  machine = "stop" => L!LateIsNamed /\ L!NothingRuns /\ L!ServesWithLock

(* A stop lets the config home go, however long the requests it let in go  *)
(* on (IN_FLIGHT_STOP_MS).                                                 *)
StopReleases ==
  \A i \in Proc :
    On("stop", stage[i] = "settling") ~> On("stop", stage[i] \in {"over", "off"})
=============================================================================
