----------------------------- MODULE Lifecycle -----------------------------
(***************************************************************************)
(* The two orders of an instance, its start and its stop                   *)
(* (src/src/instance/instance.ts), over the one state directory that the   *)
(* processes serving a config home hand to each other.                     *)
(*                                                                         *)
(* A process takes the lock (InstanceLock has the calls that make it up),  *)
(* reads its config, builds the instance from the files, listens, serves   *)
(* requests, and leaves: it refuses new requests, waits a bounded time for *)
(* those it let in, flushes what it was asked to write, closes, releases   *)
(* the lock.  What it was still doing goes on until the process ends.      *)
(*                                                                         *)
(* file stands for the files written whole from memory through a chain     *)
(* (last_live, the store); a fact is what one request or departure adds.   *)
(***************************************************************************)
EXTENDS Naturals, Sequences, FiniteSets, SequencesExt

CONSTANTS
  Pid,      \* processes
  Req,      \* requests
  Departs,  \* the departure of a session, as a fact of the file
  Closing,  \* the same, from the flush of a stop on
  NoPid,
  MaxRuns   \* bound on starts

VARIABLES
  lock,     \* whom the lock file names
  stage,    \* how far each process is
  failed,   \* the processes whose start failed with an instance built
  flight,   \* #inFlight: per process, the requests let in and unanswered
  named,    \* per process, the requests stop_left_behind names
  req,      \* where each request is: "new", "runs", "writes", "over"
  holds,    \* per process, the holds requests took on a resource
  mem,      \* per process, the facts it has in memory
  chain,    \* per process, the bodies to be written and who asked for each
  owed,     \* per process, how many of them the flush still waits for
  file,     \* the facts in the file
  late,     \* history: who had written what landed without the lock
  twice,    \* history: a second release took away another's lock
  runs

vars == <<lock, stage, failed, flight, named, req, holds, mem, chain, owed,
          file, late, twice, runs>>

(* off: no process.  locked, built: starting.  up: serving.  settling,     *)
(* flushing, closing, leaving: the stop order.  failing: a start that      *)
(* failed, cleaned up and about to release.  over: released, the process   *)
(* not ended.                                                              *)
Stages == {"off", "locked", "built", "up", "settling", "flushing", "closing",
           "leaving", "failing", "over"}

Facts == Req \cup {Departs, Closing}

TypeOK ==
  /\ lock \in Pid \cup {NoPid}
  /\ stage \in [Pid -> Stages]
  /\ failed \subseteq Pid
  /\ flight \in [Pid -> SUBSET Req] /\ named \in [Pid -> SUBSET Req]
  /\ req \in [Req -> {"new", "runs", "writes", "over"}]
  /\ holds \in [Pid -> SUBSET Req]
  /\ mem \in [Pid -> SUBSET Facts]
  /\ \A p \in Pid : \A e \in ToSet(chain[p]) : e.by \in Facts /\ e.body \subseteq Facts
  /\ owed \in [Pid -> Nat]
  /\ file \subseteq Facts /\ late \subseteq Facts
  /\ twice \in BOOLEAN /\ runs \in Nat

Init ==
  /\ lock = NoPid
  /\ stage = [p \in Pid |-> "off"]
  /\ failed = {} /\ late = {} /\ file = {} /\ twice = FALSE /\ runs = 0
  /\ flight = [p \in Pid |-> {}] /\ named = [p \in Pid |-> {}]
  /\ req = [r \in Req |-> "new"]
  /\ holds = [p \in Pid |-> {}]
  /\ mem = [p \in Pid |-> {}]
  /\ chain = [p \in Pid |-> <<>>]
  /\ owed = [p \in Pid |-> 0]

-----------------------------------------------------------------------------
(* Steps 1 and 2: the lock, free or left by a process that is gone.        *)
Start(p) ==
  /\ stage[p] = "off" /\ runs < MaxRuns
  /\ lock \in {NoPid} \cup {x \in Pid : stage[x] = "off"}
  /\ lock' = p
  /\ stage' = [stage EXCEPT ![p] = "locked"]
  /\ runs' = runs + 1
  /\ UNCHANGED <<failed, flight, named, req, holds, mem, chain, owed, file, late, twice>>

(* Steps 3 to 6: config, identity, the listener of the mesh, and the       *)
(* instance, whose domains read their files as they are built.             *)
Build(p) ==
  /\ stage[p] = "locked"
  /\ stage' = [stage EXCEPT ![p] = "built"]
  /\ mem' = [mem EXCEPT ![p] = file]
  /\ UNCHANGED <<lock, failed, flight, named, req, holds, chain, owed, file, late, twice, runs>>

(* A config that cannot be honoured, or an address taken: the mesh and its *)
(* listener are put down, there being no instance yet.                     *)
BuildFails(p) ==
  /\ stage[p] = "locked"
  /\ stage' = [stage EXCEPT ![p] = "failing"]
  /\ UNCHANGED <<lock, failed, flight, named, req, holds, mem, chain, owed, file, late, twice, runs>>

(* listen: the pid file, the unix socket and its address, the WebSocket,   *)
(* the peers.                                                              *)
Listen(p) ==
  /\ stage[p] = "built"
  /\ stage' = [stage EXCEPT ![p] = "up"]
  /\ UNCHANGED <<lock, failed, flight, named, req, holds, mem, chain, owed, file, late, twice, runs>>

-----------------------------------------------------------------------------
Enqueue(p, who) ==
  /\ mem' = [mem EXCEPT ![p] = @ \cup {who}]
  /\ chain' = [chain EXCEPT ![p] = Append(@, [by |-> who, body |-> mem[p] \cup {who}])]

(* handle and #admit: one door for frames, routes and administrative       *)
(* frames, shut from the first step of the stop on.                        *)
Admit(p, r) ==
  /\ stage[p] = "up" /\ req[r] = "new"
  /\ req' = [req EXCEPT ![r] = "runs"]
  /\ flight' = [flight EXCEPT ![p] = @ \cup {r}]
  /\ UNCHANGED <<lock, stage, failed, named, holds, mem, chain, owed, file, late, twice, runs>>

(* A request comes back from its wait and ends with a write, which it      *)
(* awaits ...                                                              *)
Writes(p, r) ==
  /\ r \in flight[p] /\ req[r] = "runs"
  /\ req' = [req EXCEPT ![r] = "writes"]
  /\ Enqueue(p, r)
  /\ UNCHANGED <<lock, stage, failed, flight, named, holds, owed, file, late, twice, runs>>

(* ... or with a subscription or a hold, and is answered.                  *)
TakesHold(p, r) ==
  /\ r \in flight[p] /\ req[r] = "runs"
  /\ req' = [req EXCEPT ![r] = "over"]
  /\ flight' = [flight EXCEPT ![p] = @ \ {r}]
  /\ holds' = [holds EXCEPT ![p] = @ \cup {r}]
  /\ UNCHANGED <<lock, stage, failed, named, mem, chain, owed, file, late, twice, runs>>

(* A session leaves, and the list of those that were live is saved.        *)
SessionLeaves(p) ==
  /\ LET who == IF stage[p] = "flushing" THEN Closing ELSE Departs
     IN  /\ stage[p] \in {"up", "settling", "flushing"} /\ p \notin failed
         /\ who \notin mem[p]
         /\ Enqueue(p, who)
  /\ UNCHANGED <<lock, stage, failed, flight, named, req, holds, owed, file, late, twice, runs>>

(* The body at the head of the chain lands, and the request that awaited   *)
(* it is answered.                                                         *)
Lands(p) ==
  /\ chain[p] # <<>>
  /\ LET e == Head(chain[p])
     IN  /\ file' = e.body
         /\ late' = IF lock = p THEN late ELSE late \cup {e.by}
         /\ flight' = [flight EXCEPT ![p] = @ \ {e.by}]
         /\ req' = [r \in Req |-> IF r = e.by THEN "over" ELSE req[r]]
  /\ chain' = [chain EXCEPT ![p] = Tail(@)]
  /\ owed' = [owed EXCEPT ![p] = IF @ = 0 THEN 0 ELSE @ - 1]
  /\ UNCHANGED <<lock, stage, failed, named, holds, mem, twice, runs>>

-----------------------------------------------------------------------------
(* stop, asked for by the op, by a signal, or by a start whose listen      *)
(* failed.  Steps 1 and 2: nothing new is let in, and the subscriptions    *)
(* and holds there are go.                                                 *)
Stopping(p) ==
  /\ stage' = [stage EXCEPT ![p] = "settling"]
  /\ holds' = [holds EXCEPT ![p] = {}]
  /\ UNCHANGED <<lock, flight, named, req, mem, chain, owed, file, late, twice, runs>>

Stop(p) ==
  /\ stage[p] = "up"
  /\ Stopping(p)
  /\ UNCHANGED failed

ListenFails(p) ==
  /\ stage[p] = "built"
  /\ Stopping(p)
  /\ failed' = failed \cup {p}

(* #settleInFlight: all have been answered, or the time for it is up and   *)
(* the log names what is left.  Holds taken during the wait go, the        *)
(* connections are told, and the flush is asked for.                       *)
SettledKeepsHolds(p) ==
  /\ stage[p] = "settling"
  /\ named' = [named EXCEPT ![p] = flight[p]]
  /\ owed' = [owed EXCEPT ![p] = Len(chain[p])]
  /\ stage' = [stage EXCEPT ![p] = "flushing"]
  /\ UNCHANGED <<lock, failed, flight, req, holds, mem, chain, file, late, twice, runs>>

SettledUntimed(p) ==
  /\ stage[p] = "settling"
  /\ flight[p] = {}
  /\ named' = [named EXCEPT ![p] = flight[p]]
  /\ holds' = [holds EXCEPT ![p] = {}]
  /\ owed' = [owed EXCEPT ![p] = Len(chain[p])]
  /\ stage' = [stage EXCEPT ![p] = "flushing"]
  /\ UNCHANGED <<lock, failed, flight, req, mem, chain, file, late, twice, runs>>

Settled(p) ==
  /\ stage[p] = "settling"
  /\ named' = [named EXCEPT ![p] = flight[p]]
  /\ holds' = [holds EXCEPT ![p] = {}]
  /\ owed' = [owed EXCEPT ![p] = Len(chain[p])]
  /\ stage' = [stage EXCEPT ![p] = "flushing"]
  /\ UNCHANGED <<lock, failed, flight, req, mem, chain, file, late, twice, runs>>

(* Step 4: everything asked for before it has landed.                      *)
FlushedUnwaited(p) ==
  /\ stage[p] = "flushing"
  /\ stage' = [stage EXCEPT ![p] = "closing"]
  /\ UNCHANGED <<lock, failed, flight, named, req, holds, mem, chain, owed, file, late, twice, runs>>

FlushedReleases(p) ==
  /\ stage[p] = "flushing" /\ owed[p] = 0
  /\ stage' = [stage EXCEPT ![p] = "closing"]
  /\ lock' = NoPid
  /\ UNCHANGED <<failed, flight, named, req, holds, mem, chain, owed, file, late, twice, runs>>

Flushed(p) ==
  /\ stage[p] = "flushing" /\ owed[p] = 0
  /\ stage' = [stage EXCEPT ![p] = "closing"]
  /\ UNCHANGED <<lock, failed, flight, named, req, holds, mem, chain, owed, file, late, twice, runs>>

(* Step 5: the listeners are closed, the unix socket last, and with them   *)
(* the connections: a session that was there by its connection alone       *)
(* leaves now (Sessions.#release), and its departure is saved.  A close    *)
(* that fails or does not settle within its deadline is passed over.       *)
Closes(p) ==
  /\ stage[p] = "closing"
  /\ stage' = [stage EXCEPT ![p] = "leaving"]
  /\ (p \notin failed /\ Enqueue(p, Closing)) \/ UNCHANGED <<mem, chain>>
  /\ UNCHANGED <<lock, failed, flight, named, req, holds, owed, file, late, twice, runs>>

(* The pid file and the lock go, in that order: the lock file is unlinked  *)
(* whoever it names.  A start that failed after its instance was built     *)
(* comes back from stop and releases once more.                            *)
Released(p) ==
  /\ lock' = NoPid
  /\ twice' = (twice \/ lock \in Pid \ {p})

Release(p) ==
  /\ stage[p] = "leaving"
  /\ Released(p)
  /\ stage' = [stage EXCEPT ![p] = IF p \in failed THEN "failing" ELSE "over"]
  /\ UNCHANGED <<failed, flight, named, req, holds, mem, chain, owed, file, late, runs>>

GivesUp(p) ==
  /\ stage[p] = "failing"
  /\ Released(p)
  /\ stage' = [stage EXCEPT ![p] = "over"]
  /\ UNCHANGED <<failed, flight, named, req, holds, mem, chain, owed, file, late, runs>>

(* The process ends by itself once nothing keeps its loop, or is killed    *)
(* wherever it is.                                                         *)
Gone(p) ==
  /\ stage' = [stage EXCEPT ![p] = "off"]
  /\ failed' = failed \ {p}
  /\ req' = [r \in Req |-> IF r \in flight[p] THEN "over" ELSE req[r]]
  /\ flight' = [flight EXCEPT ![p] = {}] /\ named' = [named EXCEPT ![p] = {}]
  /\ holds' = [holds EXCEPT ![p] = {}]
  /\ mem' = [mem EXCEPT ![p] = {}]
  /\ chain' = [chain EXCEPT ![p] = <<>>] /\ owed' = [owed EXCEPT ![p] = 0]
  /\ UNCHANGED <<lock, file, late, twice, runs>>

Ends(p) ==
  /\ stage[p] = "over" /\ chain[p] = <<>> /\ flight[p] = {}
  /\ Gone(p)

Killed(p) == stage[p] # "off" /\ Gone(p)

-----------------------------------------------------------------------------
Step(p) ==
  \/ Start(p) \/ Build(p) \/ BuildFails(p) \/ Listen(p) \/ ListenFails(p)
  \/ \E r \in Req : Admit(p, r)
  \/ \E r \in Req : Writes(p, r)
  \/ \E r \in Req : TakesHold(p, r)
  \/ SessionLeaves(p) \/ Lands(p)
  \/ Stop(p) \/ Settled(p) \/ Flushed(p) \/ Closes(p) \/ Release(p) \/ GivesUp(p)
  \/ Ends(p) \/ Killed(p)

Next == \E p \in Pid : Step(p)

Spec == Init /\ [][Next]_vars

(* Timers fire, a write is done or fails, the steps of the stop order      *)
(* follow each other.  Nothing is assumed of requests.                     *)
FairSpec ==
  /\ Spec
  /\ \A p \in Pid : /\ WF_vars(Lands(p))
                    /\ WF_vars(Settled(p) \/ Flushed(p) \/ Closes(p))
                    /\ WF_vars(Release(p) \/ GivesUp(p))

-----------------------------------------------------------------------------
(* What a process writes after its lock is gone was asked for by a request *)
(* the log names as left behind, or by connections that closed once the    *)
(* flush had begun: nothing else of a departing instance lands on files    *)
(* its successor has read                                                  *)
(* (#settleInFlight: "what could not be waited for is named in the log     *)
(* rather than passed over in silence").                                   *)
LateIsNamed ==
  \A p \in Pid :
    (lock # p /\ ~twice /\ stage[p] # "off") =>
      \A e \in ToSet(chain[p]) : e.by \in named[p] \cup {Closing}

(* Everything asked for has landed by the time the lock goes               *)
(* (Instance.#stop, step 4: "it has to land before the lock goes, since a  *)
(* successor reads these files as it starts").  With every request         *)
(* answered in time, nothing of the file is written without the lock.      *)
LandsBeforeRelease == (\A p \in Pid : named[p] = {}) => late = {}

(* Once the watches were stopped the second time, a departing instance     *)
(* holds nothing but what a request it left behind takes (#stop: "Nothing  *)
(* has been admitted since, so stopping them again leaves nothing          *)
(* running").                                                              *)
NothingRuns ==
  \A p \in Pid :
    stage[p] \in {"flushing", "closing", "leaving", "over"} => holds[p] \subseteq named[p]

(* Whoever serves a config home has its lock, through starts that fail and *)
(* processes killed at any step, unless a failed start released twice.     *)
ServesWithLock ==
  \A p \in Pid : (stage[p] \in {"built", "up", "settling", "flushing", "closing"}
                  /\ ~twice) => lock = p

(* A stop that was begun lets the config home go, however long the         *)
(* requests it let in go on (IN_FLIGHT_STOP_MS).                           *)
StopReleases ==
  \A p \in Pid : stage[p] = "settling" ~> stage[p] \in {"over", "off"}
=============================================================================
