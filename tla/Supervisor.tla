----------------------------- MODULE Supervisor -----------------------------
(***************************************************************************)
(* The foreground supervisor (src/src/daemon/supervise.ts): one restart    *)
(* loop per config home, and requests to start, stop, restart, add and     *)
(* remove one that arrive while loops and other requests wait.  The        *)
(* instances are processes that take the lock of their config home (see    *)
(* InstanceLock), may die at any moment, and answer a shutdown.            *)
(*                                                                         *)
(* An action is one event of the supervisor's event loop or one microtask  *)
(* behind it; no event is taken while a microtask is due (Quiet).  What a  *)
(* request is answered is left out, that it is answered is not.            *)
(*                                                                         *)
(* Variants of a definition that carry a plausible fault stand just before *)
(* it; no specification uses them.                                         *)
(***************************************************************************)
EXTENDS Integers, FiniteSets

CONSTANTS
  Dir,      \* config homes
  Unit,     \* the Supervised objects there may be, one after another per home
  Pid,      \* process identifiers; one is used again once it was reaped
  Call,     \* the requests that may be in flight at once
  MaxLoops, \* bound: restart loops chained on one unit
  NoDir, NoUnit, NoPid

(* NoDir, NoUnit and NoPid are none of their sets, Call and Unit have      *)
(* nothing in common, and MaxLoops is a natural number.                    *)

VARIABLES
  units,   \* Supervisor.#units: the object looked after for each config home
  unit,    \* the Supervised objects: see Supervised
  proc,    \* the processes started and not yet reaped
  lock,    \* the process that holds each config home
  call,    \* the requests in flight, and for each unit its share of stop()
  leaving, \* Supervisor.#leaving
  gone,    \* whether run() has ended
  stopped  \* the units a stop was answered for, and no start since

vars == <<units, unit, proc, lock, call, leaving, gone, stopped>>

(* loops counts the restart loops chained on Supervised.loop that have not *)
(* ended; the first of them is at its next turn ("due"), waiting for its   *)
(* child to exit ("child") or waiting out its backoff ("pause").           *)
Supervised == [dir : Dir \cup {NoDir}, child : Pid \cup {NoPid}, wanted : BOOLEAN,
               loops : Nat, at : {"idle", "due", "child", "pause"}]

Unused == [dir |-> NoDir, child |-> NoPid, wanted |-> TRUE, loops |-> 0, at |-> "idle"]

(* A process asked or signalled to stop need not; one killed dies.  Dead   *)
(* is gone but not yet reported to the supervisor.                         *)
Process == [st : {"none", "starting", "serving", "stopping", "killed", "dead"},
            dir : Dir \cup {NoDir}]

NoProcess == [st |-> "none", dir |-> NoDir]

(* Where a request stands: a start waits for its child ("next") and then   *)
(* for the socket; a stop is in one of its three stages, is down once      *)
(* #stopChild returned, and waits for `left` loops to end; a restart goes  *)
(* on to wait for the lock and begins its start.  pid is the child it      *)
(* looks at, NoPid once that was reaped.                                   *)
Job == [op : {"none", "start", "stop", "restart", "leave"},
        pc : {"free", "next", "socket", "asking", "accepted", "sigterm", "sigkill",
              "down", "loop", "lock", "begin"},
        unit : Unit \cup {NoUnit}, pid : Pid \cup {NoPid}, left : Nat]

Free == [op |-> "none", pc |-> "free", unit |-> NoUnit, pid |-> NoPid, left |-> 0]

TypeOK ==
  /\ units \in [Dir -> Unit \cup {NoUnit}]
  /\ unit \in [Unit -> Supervised]
  /\ proc \in [Pid -> Process]
  /\ lock \in [Dir -> Pid \cup {NoPid}]
  /\ call \in [Call \cup Unit -> Job]
  /\ leaving \in BOOLEAN /\ gone \in BOOLEAN
  /\ stopped \subseteq Unit

(* #adopt and #serve: a unit for each config home the settings name, its   *)
(* loop about to take its first turn.                                      *)
Init ==
  /\ units \in [Dir -> Unit]
  /\ \A d, e \in Dir : units[d] = units[e] => d = e
  /\ unit = [u \in Unit |->
               IF \E d \in Dir : units[d] = u
               THEN [Unused EXCEPT !.dir = CHOOSE d \in Dir : units[d] = u,
                                   !.loops = 1, !.at = "due"]
               ELSE Unused]
  /\ proc = [p \in Pid |-> NoProcess]
  /\ lock = [d \in Dir |-> NoPid]
  /\ call = [j \in Call \cup Unit |-> Free]
  /\ leaving = FALSE /\ gone = FALSE
  /\ stopped = {}

-----------------------------------------------------------------------------
Waits(j) == call[j].pc \in {"down", "begin"} \/ (call[j].pc = "loop" /\ call[j].left = 0)

(* No microtask is due, so the event loop takes an event.                  *)
Quiet == /\ ~gone
         /\ \A u \in Unit : unit[u].at # "due"
         /\ \A j \in Call \cup Unit : ~Waits(j)

Wants(u) == unit[u].wanted /\ ~leaving

(* Every wait for a backoff ends, whichever unit it is of.                 *)
Cancel(U) == [u \in Unit |-> IF U[u].at = "pause" THEN [U[u] EXCEPT !.at = "due"] ELSE U[u]]

(* wanted = true and #keep: another loop behind the ones of the unit.      *)
Keep(U, u) ==
  [U EXCEPT ![u].wanted = TRUE, ![u].loops = @ + 1,
            ![u].at = IF @ = "idle" THEN "due" ELSE @]

(* One turn of a unit's loop that spawns; whoever waits for the child that *)
(* is coming is told (Supervised.took).                                    *)
Spawn(u) ==
  /\ unit[u].at = "due"
  /\ Wants(u)
  /\ \E p \in Pid : proc[p].st = "none"
  /\ LET p == CHOOSE q \in Pid : proc[q].st = "none"
     IN  /\ proc' = [proc EXCEPT ![p] = [st |-> "starting", dir |-> unit[u].dir]]
         /\ unit' = [unit EXCEPT ![u].child = p, ![u].at = "child"]
         /\ call' = [j \in Call \cup Unit |->
                       IF call[j].pc = "next" /\ call[j].unit = u
                       THEN [call[j] EXCEPT !.pc = "socket", !.pid = p]
                       ELSE call[j]]
  /\ UNCHANGED <<units, lock, leaving, gone, stopped>>

(* The loop of unit u has ended: what that is to request j.                *)
AbandonedNone(j, u) ==
  IF call[j].pc = "loop" /\ call[j].unit = u
  THEN [call[j] EXCEPT !.left = IF @ > 0 THEN @ - 1 ELSE 0]
  ELSE call[j]

Abandoned(j, u) ==
  IF call[j].unit # u THEN call[j]
  ELSE IF call[j].pc = "next" THEN Free
  ELSE IF call[j].pc = "loop" THEN [call[j] EXCEPT !.left = IF @ > 0 THEN @ - 1 ELSE 0]
  ELSE call[j]

EndLoopTwice(u) ==
  /\ unit[u].at = "due"
  /\ ~Wants(u)
  /\ unit' = [unit EXCEPT ![u].loops = @ - 2, ![u].at = "idle"]
  /\ call' = [j \in Call \cup Unit |-> Abandoned(j, u)]
  /\ UNCHANGED <<units, proc, lock, leaving, gone, stopped>>

(* One that ends instead; the next loop of the chain, if any, follows.     *)
EndLoop(u) ==
  /\ unit[u].at = "due"
  /\ ~Wants(u)
  /\ unit' = [unit EXCEPT ![u].loops = @ - 1,
                          ![u].at = IF unit[u].loops = 1 THEN "idle" ELSE "due"]
  /\ call' = [j \in Call \cup Unit |-> Abandoned(j, u)]
  /\ UNCHANGED <<units, proc, lock, leaving, gone, stopped>>

(* The backoff is over.                                                    *)
PauseEnds(u) ==
  /\ Quiet
  /\ unit[u].at = "pause"
  /\ unit' = [unit EXCEPT ![u].at = "due"]
  /\ UNCHANGED <<units, proc, lock, call, leaving, gone, stopped>>

-----------------------------------------------------------------------------
(* The instances.  One takes the lock of its config home and serves.       *)
Serve(p) ==
  /\ proc[p].st = "starting"
  /\ lock[proc[p].dir] = NoPid
  /\ proc' = [proc EXCEPT ![p].st = "serving"]
  /\ lock' = [lock EXCEPT ![proc[p].dir] = p]
  /\ UNCHANGED <<units, unit, call, leaving, gone, stopped>>

(* One ends: the lock is held, it failed, it was stopped or killed.        *)
Dies(p) ==
  /\ proc[p].st \in {"starting", "serving", "stopping", "killed"}
  /\ proc' = [proc EXCEPT ![p].st = "dead"]
  /\ lock' = [d \in Dir |-> IF lock[d] = p THEN NoPid ELSE lock[d]]
  /\ UNCHANGED <<units, unit, call, leaving, gone, stopped>>

(* The supervisor hears of the exit of p: what that is to request j.       *)
Exited(j, p) ==
  IF call[j].pid # p THEN call[j]
  ELSE IF call[j].pc = "socket" THEN Free
  ELSE IF call[j].pc = "asking" THEN [call[j] EXCEPT !.pid = NoPid]
  ELSE [call[j] EXCEPT !.pid = NoPid, !.pc = "down"]

NoticedReturns(u) ==
  LET p == unit[u].child
  IN  /\ Quiet
      /\ p # NoPid
      /\ proc[p].st = "dead"
      /\ proc' = [proc EXCEPT ![p] = NoProcess]
      /\ unit' = [unit EXCEPT ![u].child = NoPid, ![u].at = "idle"]
      /\ call' = [j \in Call \cup Unit |-> Exited(j, p)]
      /\ UNCHANGED <<units, lock, leaving, gone, stopped>>

(* The loop of the unit goes on to its backoff, or to its end.             *)
Noticed(u) ==
  LET p == unit[u].child
  IN  /\ Quiet
      /\ p # NoPid
      /\ proc[p].st = "dead"
      /\ proc' = [proc EXCEPT ![p] = NoProcess]
      /\ unit' = [unit EXCEPT ![u].child = NoPid,
                              ![u].at = IF Wants(u) THEN "pause" ELSE "due"]
      /\ call' = [j \in Call \cup Unit |-> Exited(j, p)]
      /\ UNCHANGED <<units, lock, leaving, gone, stopped>>

-----------------------------------------------------------------------------
(* startOne for config home d, on behalf of request c, in a state whose    *)
(* units are U under map us.  Refused when a child is there or the         *)
(* supervisor is leaving.                                                  *)
StartOne(c, op, us, U, d) ==
  LET u == us[d]
  IN  IF u # NoUnit /\ U[u].child = NoPid /\ ~leaving
      THEN /\ unit' = Keep(U, u)
           /\ call' = [call EXCEPT ![c] = [Free EXCEPT !.op = op, !.pc = "next", !.unit = u]]
           /\ stopped' = stopped \ {u}
      ELSE /\ unit' = U
           /\ call' = [call EXCEPT ![c] = Free]
           /\ UNCHANGED stopped

StopOneForgets(c, op, u) ==
  /\ unit' = Cancel([unit EXCEPT ![u].wanted = FALSE, ![u].child = NoPid])
  /\ call' = [call EXCEPT ![c] = [Free EXCEPT !.op = op, !.pc = "asking", !.unit = u,
                                              !.pid = unit[u].child]]
  /\ UNCHANGED stopped

(* stopOne up to its first await, for a unit with a child.                 *)
StopOne(c, op, u) ==
  /\ unit' = Cancel([unit EXCEPT ![u].wanted = FALSE])
  /\ call' = [call EXCEPT ![c] = [Free EXCEPT !.op = op, !.pc = "asking", !.unit = u,
                                              !.pid = unit[u].child]]
  /\ UNCHANGED stopped

Arrives(c, d) == Quiet /\ call[c] = Free /\ units[d] # NoUnit

Start(c, d) ==
  /\ Arrives(c, d)
  /\ unit[units[d]].loops < MaxLoops
  /\ StartOne(c, "start", units, unit, d)
  /\ UNCHANGED <<units, proc, lock, leaving, gone>>

(* One without a child is refused, a unit in its backoff with it.          *)
Stop(c, d) ==
  /\ Arrives(c, d)
  /\ unit[units[d]].child # NoPid
  /\ StopOne(c, "stop", units[d])
  /\ UNCHANGED <<units, proc, lock, leaving, gone>>

Restart(c, d) ==
  /\ Arrives(c, d)
  /\ unit[units[d]].loops < MaxLoops
  /\ IF unit[units[d]].child # NoPid
     THEN StopOne(c, "restart", units[d])
     ELSE StartOne(c, "restart", units, unit, d)
  /\ UNCHANGED <<units, proc, lock, leaving, gone>>

(* addOne, behind its reading of the harness.                              *)
Add(c, d, u) ==
  /\ Quiet
  /\ call[c] = Free
  /\ units[d] = NoUnit
  /\ unit[u] = Unused
  /\ units' = [units EXCEPT ![d] = u]
  /\ StartOne(c, "start", units', [unit EXCEPT ![u].dir = d], d)
  /\ UNCHANGED <<proc, lock, leaving, gone>>

(* removeOne leaves the child running.                                     *)
Remove(d) ==
  /\ Quiet
  /\ units[d] # NoUnit
  /\ unit' = Cancel([unit EXCEPT ![units[d]].wanted = FALSE])
  /\ units' = [units EXCEPT ![d] = NoUnit]
  /\ UNCHANGED <<proc, lock, call, leaving, gone, stopped>>

(* The child of a start serves or its deadline passes, and it is answered. *)
SocketSettles(c) ==
  /\ Quiet
  /\ call[c].pc = "socket"
  /\ call' = [call EXCEPT ![c] = Free]
  /\ UNCHANGED <<units, unit, proc, lock, leaving, gone, stopped>>

-----------------------------------------------------------------------------
(* #stopChild.  The shutdown goes to whoever serves the config home.       *)
AskAnswered(j) ==
  LET p == lock[unit[call[j].unit].dir]
  IN  /\ Quiet
      /\ call[j].pc = "asking"
      /\ p # NoPid
      /\ proc[p].st = "serving"
      /\ proc' = [proc EXCEPT ![p].st = "stopping"]
      /\ call' = [call EXCEPT ![j].pc = IF call[j].pid = NoPid THEN "down" ELSE "accepted"]
      /\ UNCHANGED <<units, unit, lock, leaving, gone, stopped>>

(* It failed or its deadline passed: SIGTERM to the child, if there is one *)
(* yet.                                                                    *)
Terminate(j) ==
  LET p == call[j].pid
  IN  /\ Quiet
      /\ call[j].pc \in {"asking", "accepted"}
      /\ call' = [call EXCEPT ![j].pc = IF p = NoPid THEN "down" ELSE "sigterm"]
      /\ IF p # NoPid /\ proc[p].st \in {"starting", "serving"}
         THEN proc' = [proc EXCEPT ![p].st = "stopping"]
         ELSE UNCHANGED proc
      /\ UNCHANGED <<units, unit, lock, leaving, gone, stopped>>

KillTermAgain(j) ==
  LET p == call[j].pid
  IN  /\ Quiet
      /\ call[j].pc = "sigterm"
      /\ call' = [call EXCEPT ![j].pc = "sigkill"]
      /\ proc' = [proc EXCEPT ![p].st = IF @ = "dead" THEN @ ELSE "stopping"]
      /\ UNCHANGED <<units, unit, lock, leaving, gone, stopped>>

(* Then SIGKILL.                                                           *)
Kill(j) ==
  LET p == call[j].pid
  IN  /\ Quiet
      /\ call[j].pc = "sigterm"
      /\ call' = [call EXCEPT ![j].pc = "sigkill"]
      /\ proc' = [proc EXCEPT ![p].st = IF @ = "dead" THEN @ ELSE "killed"]
      /\ UNCHANGED <<units, unit, lock, leaving, gone, stopped>>

DownUnawaited(j) ==
  /\ call[j].pc = "down"
  /\ call' = [call EXCEPT ![j] = IF @.op = "leave" THEN Free
                                 ELSE [@ EXCEPT !.pc = "loop", !.left = 0]]
  /\ UNCHANGED <<units, unit, proc, lock, leaving, gone, stopped>>

(* #stopChild returned: stopOne awaits the loops chained by now.           *)
Down(j) ==
  /\ call[j].pc = "down"
  /\ call' = [call EXCEPT ![j] = IF @.op = "leave" THEN Free
                                 ELSE [@ EXCEPT !.pc = "loop",
                                                !.left = unit[call[j].unit].loops]]
  /\ UNCHANGED <<units, unit, proc, lock, leaving, gone, stopped>>

(* They ended: a stop is answered, a restart goes on once the lock is free.*)
LoopEnded(c) ==
  LET u == call[c].unit
  IN  /\ call[c].pc = "loop" /\ call[c].left = 0
      /\ IF call[c].op = "stop"
         THEN /\ call' = [call EXCEPT ![c] = Free]
              /\ stopped' = stopped \cup {u}
         ELSE /\ call' = [call EXCEPT ![c].pc =
                            IF lock[unit[u].dir] = NoPid THEN "begin" ELSE "lock"]
              /\ UNCHANGED stopped
      /\ UNCHANGED <<units, unit, proc, lock, leaving, gone>>

(* awaitGone ends, by the lock or by its deadline.                         *)
LockFree(c) ==
  /\ Quiet
  /\ call[c].pc = "lock"
  /\ \/ /\ lock[unit[call[c].unit].dir] = NoPid
        /\ call' = [call EXCEPT ![c].pc = "begin"]
     \/ call' = [call EXCEPT ![c] = Free]
  /\ UNCHANGED <<units, unit, proc, lock, leaving, gone, stopped>>

(* The start of a restart, of whatever unit the config home has by now.  A *)
(* stop that waited for the same loops is answered first, by fewer         *)
(* microtasks.                                                             *)
Begin(c) ==
  /\ call[c].pc = "begin"
  /\ \A k \in Call : ~(call[k].pc = "loop" /\ call[k].left = 0)
  /\ StartOne(c, "restart", units, unit, unit[call[c].unit].dir)
  /\ UNCHANGED <<units, proc, lock, leaving, gone>>

-----------------------------------------------------------------------------
Looked(u) == \E d \in Dir : units[d] = u

(* stop() up to its first await: every child is stopped, as by a request.  *)
Leave ==
  /\ Quiet
  /\ ~leaving
  /\ leaving' = TRUE
  /\ unit' = Cancel(unit)
  /\ call' = [j \in Call \cup Unit |->
                IF j \in Unit /\ Looked(j) /\ unit[j].child # NoPid
                THEN [Free EXCEPT !.op = "leave", !.pc = "asking", !.unit = j,
                                  !.pid = unit[j].child]
                ELSE call[j]]
  /\ UNCHANGED <<units, proc, lock, gone, stopped>>

LeftEarly ==
  /\ Quiet
  /\ leaving
  /\ gone' = TRUE
  /\ UNCHANGED <<units, unit, proc, lock, call, leaving, stopped>>

(* The children are down and the loops have ended: run() ends.             *)
Left ==
  /\ Quiet
  /\ leaving
  /\ \A u \in Unit : call[u] = Free
  /\ \A u \in Unit : Looked(u) => unit[u].loops = 0
  /\ gone' = TRUE
  /\ UNCHANGED <<units, unit, proc, lock, call, leaving, stopped>>

Next ==
  \/ \E u \in Unit : Spawn(u) \/ EndLoop(u) \/ PauseEnds(u) \/ Noticed(u)
  \/ \E p \in Pid : Serve(p) \/ Dies(p)
  \/ \E c \in Call, d \in Dir : Start(c, d) \/ Stop(c, d) \/ Restart(c, d)
  \/ \E c \in Call, d \in Dir, u \in Unit : Add(c, d, u)
  \/ \E d \in Dir : Remove(d)
  \/ \E c \in Call : SocketSettles(c) \/ LoopEnded(c) \/ LockFree(c) \/ Begin(c)
  \/ \E j \in Call \cup Unit : AskAnswered(j) \/ Terminate(j) \/ Kill(j) \/ Down(j)
  \/ Leave
  \/ Left

Spec == Init /\ [][Next]_vars

Microtask ==
  \/ \E u \in Unit : Spawn(u) \/ EndLoop(u)
  \/ \E j \in Call \cup Unit : Down(j)
  \/ \E c \in Call : LoopEnded(c) \/ Begin(c)

(* What a request waits for: an answer, or the deadline every wait has.    *)
Advances(j) ==
  \/ AskAnswered(j) \/ Terminate(j) \/ Kill(j)
  \/ j \in Call /\ (SocketSettles(j) \/ LockFree(j))

(* Microtasks run.  Events are served in order, so one that is there again *)
(* and again between the microtasks is taken (strong fairness): a timer, a *)
(* deadline, the exit of a child.  A killed process dies; nothing else is  *)
(* assumed of the processes.                                               *)
Fairness ==
  /\ WF_vars(Microtask)
  /\ \A u \in Unit : SF_vars(PauseEnds(u) \/ Noticed(u))
  /\ \A j \in Call \cup Unit : SF_vars(Advances(j))
  /\ WF_vars(\E p \in Pid : proc[p].st = "killed" /\ Dies(p))
  /\ WF_vars(Left)

FairSpec == Spec /\ Fairness

-----------------------------------------------------------------------------
(* Every process the supervisor started and has not seen exit is the child *)
(* of one unit, whose first loop waits for it: none is started beside      *)
(* another of the same unit, and none is left that nothing would restart   *)
(* or stop (the chain of Supervisor.#keep).                                *)
ChildIsWatched ==
  /\ \A p \in Pid : proc[p].st # "none" => \E u \in Unit : unit[u].child = p
  /\ \A u, v \in Unit : unit[u].child = unit[v].child /\ unit[u].child # NoPid => u = v
  /\ \A u \in Unit : unit[u].child # NoPid <=> unit[u].at = "child"

(* A start waiting for its child waits on a unit that has a loop to spawn  *)
(* it, or to say that none is coming (Supervised.abandoned).               *)
WaitIsServed ==
  \A c \in Call : call[c].pc = "next" => unit[call[c].unit].at \in {"due", "pause"}

(* "Stop one child, and leave it stopped": once a stop was answered the    *)
(* unit has no child until it is started again, whatever other requests    *)
(* were in flight with it (Supervisor.stopOne).                            *)
StopStays == \A u \in stopped : unit[u].child = NoPid

(* What a request ends in.                                                 *)
Answered(c) ==
  \/ call[c].pc = "free"
  \/ call[c].pc = "loop" /\ unit[call[c].unit].child # NoPid
  \/ gone

(* Every request is answered while the supervisor runs, whatever its child *)
(* does: a start sees its child serve or is told that none is coming, a    *)
(* stop ends with SIGKILL at the latest, a restart does both.  The one     *)
(* exception is a stop that a start overtook: it then waits for the loop   *)
(* of that start, as long as the child of that start lives                 *)
(* (Supervisor.#serving, stopOne, restartOne).                             *)
RequestIsAnswered == \A c \in Call : call[c].pc # "free" ~> Answered(c)

Missing(u) == Wants(u) /\ unit[u].loops > 0 /\ unit[u].child = NoPid
Back(u) == unit[u].child # NoPid \/ ~Wants(u)

(* A unit that is wanted has a child again, until it is stopped, removed   *)
(* or the supervisor leaves ("kept up", Supervisor).                       *)
ComesBack == \A u \in Unit : Missing(u) ~> Back(u)

(* A supervisor asked to leave does, whatever its children do and whatever *)
(* is asked meanwhile, and leaves no child of a unit it looks after        *)
(* (Supervisor.stop).                                                      *)
LeftAlone == gone /\ \A u \in Unit : Looked(u) => unit[u].child = NoPid

LeavingEnds == leaving ~> LeftAlone
=============================================================================
