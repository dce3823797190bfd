---------------------------- MODULE InstanceLock ----------------------------
(***************************************************************************)
(* The lock that makes one process the instance of a config home           *)
(* (src/src/instance/lock.ts), taken in Instance.start and released at the *)
(* end of the stop order.  Processes that share nothing but one file       *)
(* contend for it; a holder may leave or be killed at any moment.          *)
(*                                                                         *)
(* An action is one system call of acquireLock.  The file comes to be by   *)
(* linking one that already names its pid, so its content is the pid of    *)
(* whoever linked it, never a part of it.  A pid names one process for the *)
(* whole behaviour.                                                        *)
(*                                                                         *)
(* Variants of a definition that carry a plausible fault stand just before *)
(* it; no specification uses them.                                         *)
(***************************************************************************)
EXTENDS Naturals

CONSTANTS
  Pid,       \* the processes that may start
  NoPid,     \* no lock file, or one that names nobody
  Rounds,    \* ROUNDS: how often one acquisition contends
  Leaving,   \* whether a holder may release the lock, and a process be killed
  Stale      \* whether the file may be there before anybody starts

ASSUME LockAssumption ==
  /\ NoPid \notin Pid
  /\ Rounds \in Nat \ {0}
  /\ {Leaving, Stale} \subseteq BOOLEAN

VARIABLES
  file,   \* the pid the lock file names, NoPid when it is not there
  pc,     \* where each process is
  saw,    \* the pid each one read out of the file
  round,  \* the rounds each one has run
  met,    \* whether two starters have ever contended at once
  left    \* whether a holder has ever left, the ones before the start included

vars == <<file, pc, saw, round, met, left>>

(* Contending: about to link, to read who holds it, to ask whether that    *)
(* process is there, or to drop the file.  Then running as the instance,   *)
(* refused by a live holder, or out of rounds; and gone, by whatever way.  *)
Contending == {"link", "read", "ask", "drop"}

Places == Contending \cup {"off", "running", "refused", "failed", "gone"}

TypeOK ==
  /\ file \in Pid \cup {NoPid}
  /\ pc \in [Pid -> Places]
  /\ saw \in [Pid -> Pid \cup {NoPid}]
  /\ round \in [Pid -> 0..Rounds]
  /\ met \in BOOLEAN /\ left \in BOOLEAN

(* A file left by an earlier run names a process that is gone.             *)
Init ==
  /\ pc \in [Pid -> {"off", "gone"}]
  /\ file \in {p \in Pid : Stale /\ pc[p] = "gone"} \cup {NoPid}
  /\ saw = [p \in Pid |-> NoPid]
  /\ round = [p \in Pid |-> 0]
  /\ met = FALSE
  /\ left = (file # NoPid)

Move(p, to) == pc' = [pc EXCEPT ![p] = to]

(* alive: signal 0 finds the process, whatever it is doing.                *)
Alive(q) == q # NoPid /\ pc[q] \notin {"off", "gone"}

Start(p) ==
  /\ pc[p] = "off"
  /\ Move(p, "link")
  /\ met' = (met \/ \E q \in Pid : pc[q] \in Contending)
  /\ UNCHANGED <<file, saw, round, left>>

LinkOver(p) ==
  /\ pc[p] = "link"
  /\ round' = [round EXCEPT ![p] = @ + 1]
  /\ file' = p /\ Move(p, "running")
  /\ UNCHANGED <<saw, met, left>>

LinkSpins(p) ==
  /\ pc[p] = "link"
  /\ file = NoPid /\ file' = p /\ Move(p, "running")
  /\ round' = [round EXCEPT ![p] = @ + 1]
  /\ UNCHANGED <<saw, met, left>>

(* linkSync fails when the name is there, and is the lock when it is not.  *)
Link(p) ==
  /\ pc[p] = "link"
  /\ round' = [round EXCEPT ![p] = @ + 1]
  /\ \/ file = NoPid /\ file' = p /\ Move(p, "running")
     \/ file # NoPid /\ Move(p, "read") /\ UNCHANGED file
  /\ UNCHANGED <<saw, met, left>>

(* readHolder: nobody when the file has gone in the meantime.              *)
Read(p) ==
  /\ pc[p] = "read"
  /\ saw' = [saw EXCEPT ![p] = file]
  /\ Move(p, "ask")
  /\ UNCHANGED <<file, round, met, left>>

AskNever(p) ==
  /\ pc[p] = "ask"
  /\ Move(p, "drop")
  /\ UNCHANGED <<file, saw, round, met, left>>

(* A process that is there refuses the starter.                            *)
Ask(p) ==
  /\ pc[p] = "ask"
  /\ Move(p, IF Alive(saw[p]) THEN "refused" ELSE "drop")
  /\ UNCHANGED <<file, saw, round, met, left>>

DropKeeps(p) ==
  /\ pc[p] = "drop"
  /\ Move(p, IF round[p] = Rounds THEN "failed" ELSE "link")
  /\ UNCHANGED <<file, saw, round, met, left>>

(* Nobody is behind the file that was read: whatever the file is by now,   *)
(* it is unlinked, and the next round contends again.                      *)
Drop(p) ==
  /\ pc[p] = "drop"
  /\ file' = NoPid
  /\ Move(p, IF round[p] = Rounds THEN "failed" ELSE "link")
  /\ UNCHANGED <<saw, round, met, left>>

(* The stop order's last step, or a start that failed behind the lock: the *)
(* file is unlinked by name and the process ends.                          *)
Release(p) ==
  /\ Leaving
  /\ pc[p] = "running"
  /\ file' = NoPid
  /\ left' = TRUE
  /\ Move(p, "gone")
  /\ UNCHANGED <<saw, round, met>>

(* A process that did not get the lock exits.                              *)
Exit(p) ==
  /\ pc[p] \in {"refused", "failed"}
  /\ Move(p, "gone")
  /\ UNCHANGED <<file, saw, round, met, left>>

(* A process is killed; its file stays.                                    *)
Kill(p) ==
  /\ Leaving
  /\ pc[p] \in Contending \cup {"running"}
  /\ left' = (left \/ pc[p] = "running")
  /\ Move(p, "gone")
  /\ UNCHANGED <<file, saw, round, met>>

Next == \E p \in Pid : \/ Start(p) \/ Link(p) \/ Read(p) \/ Ask(p) \/ Drop(p)
                       \/ Release(p) \/ Exit(p) \/ Kill(p)

Spec == Init /\ [][Next]_vars

(* acquireLock is one synchronous loop: a process inside it goes on.       *)
Fairness == \A p \in Pid : WF_vars(Link(p) \/ Read(p) \/ Ask(p) \/ Drop(p))

FairSpec == Spec /\ Fairness

-----------------------------------------------------------------------------
(* At most one process is the instance of a config home at any moment      *)
(* (acquireLock: "two processes racing for the same config home cannot     *)
(* both win", "two starters finding the same stale lock still produce one  *)
(* winner").                                                               *)
OneInstance ==
  \A p, q \in Pid : pc[p] = "running" /\ pc[q] = "running" => p = q

(* The file names the process that runs: another starter is refused by it  *)
(* and `daemon status` (lockHolder) finds it, until it leaves.             *)
RunningIsNamed == \A p \in Pid : pc[p] = "running" => file = p

(* While no holder has left, one process runs, however many race, and the  *)
(* file names it: linkSync alone decides (acquireLock).                    *)
RaceExcludes == ~left => OneInstance /\ RunningIsNamed

(* While starters have come one at a time, one process runs and the file   *)
(* names it, whenever the holders before it released the lock or were      *)
(* killed, and whatever file was there: what a lone starter read stays     *)
(* true until it unlinks (acquireLock, releaseLock).                       *)
RestartExcludes == ~met => OneInstance /\ RunningIsNamed

(* A config home is not wedged: a starter ends as the instance, refused by *)
(* a live holder or told that the file cannot be taken, unless it is       *)
(* killed, however many files of dead processes it meets.                  *)
StarterSettles == \A p \in Pid : pc[p] \in Contending ~> pc[p] \notin Contending

(* With a lock left by a dead process and one starter, that starter takes  *)
(* it over: it is refused only by a process that was there (acquireLock).  *)
TakesOver ==
  \A p \in Pid :
    pc[p] = "link" /\ ~met /\ (\A q \in Pid : q # p => pc[q] = "gone")
      ~> pc[p] \in {"running", "gone"}
=============================================================================
