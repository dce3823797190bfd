---------------------------- MODULE DaemonProofs ----------------------------
(***************************************************************************)
(* When the lock of a config home excludes, for any number of processes:   *)
(* while no holder leaves (no file goes stale), and, with holders that     *)
(* leave and are killed, while starters come one at a time.  And what a    *)
(* departing instance may still write, for any requests.                   *)
(***************************************************************************)
EXTENDS MCDaemon, SequenceTheorems, TLAPS

LEMMA InitTypes == Init => TypeOK
<1> SUFFICES ASSUME Init PROVE TypeOK
  OBVIOUS
<1>1. met \in BOOLEAN /\ left \in BOOLEAN
  BY Zenon DEF Init
<1>2. /\ file \in Pid \cup {NoPid}
      /\ pc \in [Pid -> Places]
      /\ saw \in [Pid -> Pid \cup {NoPid}]
      /\ round \in [Pid -> 0..Rounds]
  BY LockAssumption DEF Init, Places
<1> QED  BY <1>1, <1>2 DEF TypeOK

(* Every system call keeps the types; a process contends again only while  *)
(* it has rounds left.                                                     *)
RoundsLeft ==
  \A p \in Pid : pc[p] \in {"off", "link"} => round[p] < Rounds

LEMMA TypesStep == TypeOK /\ RoundsLeft /\ [Next]_vars => (TypeOK /\ RoundsLeft)'
<1> SUFFICES ASSUME TypeOK, RoundsLeft, [Next]_vars PROVE TypeOK' /\ RoundsLeft'
  OBVIOUS
<1> USE LockAssumption
<1>1. ASSUME NEW p \in Pid, Start(p) PROVE TypeOK' /\ RoundsLeft'
  BY <1>1 DEF Start, Move, TypeOK, RoundsLeft, Places, Contending
<1>2. ASSUME NEW p \in Pid, Link(p) PROVE TypeOK' /\ RoundsLeft'
  BY <1>2 DEF Link, Move, TypeOK, RoundsLeft, Places, Contending
<1>3. ASSUME NEW p \in Pid, Read(p) PROVE TypeOK' /\ RoundsLeft'
  BY <1>3 DEF Read, Move, TypeOK, RoundsLeft, Places, Contending
<1>4. ASSUME NEW p \in Pid, Ask(p) PROVE TypeOK' /\ RoundsLeft'
  BY <1>4 DEF Ask, Move, TypeOK, RoundsLeft, Places, Contending
<1>5. ASSUME NEW p \in Pid, Drop(p) PROVE TypeOK' /\ RoundsLeft'
  BY <1>5 DEF Drop, Move, TypeOK, RoundsLeft, Places, Contending
<1>6. ASSUME NEW p \in Pid, Release(p) \/ Exit(p) \/ Kill(p) PROVE TypeOK' /\ RoundsLeft'
  BY <1>6 DEF Release, Exit, Kill, Move, TypeOK, RoundsLeft, Places, Contending
<1>7. CASE UNCHANGED vars
  BY <1>7 DEF vars, TypeOK, RoundsLeft
<1> QED  BY <1>1, <1>2, <1>3, <1>4, <1>5, <1>6, <1>7 DEF Next

(* The states of acquireLock are the ones it is meant to have, and no      *)
(* starter runs more than ROUNDS rounds, whatever the others do.           *)
THEOREM LockTypes == Spec => []TypeOK
<1>1. Init => RoundsLeft
  BY LockAssumption DEF Init, RoundsLeft
<1> QED  BY <1>1, InitTypes, TypesStep, PTL DEF Spec

-----------------------------------------------------------------------------
(* While no holder leaves: whoever finds the file finds a process that     *)
(* runs, so nobody ever comes to drop it.                                  *)
HolderRuns ==
  /\ RunningIsNamed
  /\ file # NoPid => pc[file] = "running"
  /\ \A p \in Pid : pc[p] = "read" => file # NoPid
  /\ \A p \in Pid : pc[p] = "ask" => saw[p] = file /\ file # NoPid
  /\ \A p \in Pid : pc[p] # "drop"

HolderRunsUntilLeft == ~left => HolderRuns

LEMMA HolderRunsStep ==
  ASSUME TypeOK, HolderRunsUntilLeft, [Next]_vars
  PROVE  HolderRunsUntilLeft'
<1> USE LockAssumption DEF HolderRunsUntilLeft, HolderRuns, RunningIsNamed
<1>1. ASSUME NEW p \in Pid, Start(p) PROVE HolderRunsUntilLeft'
  BY <1>1 DEF Start, Move, TypeOK
<1>2. ASSUME NEW p \in Pid, Link(p) PROVE HolderRunsUntilLeft'
  BY <1>2 DEF Link, Move, TypeOK
<1>3. ASSUME NEW p \in Pid, Read(p) PROVE HolderRunsUntilLeft'
  BY <1>3 DEF Read, Move, TypeOK
<1>4. ASSUME NEW p \in Pid, Ask(p) PROVE HolderRunsUntilLeft'
  BY <1>4 DEF Ask, Alive, Move, TypeOK
<1>5. ASSUME NEW p \in Pid, Drop(p) PROVE HolderRunsUntilLeft'
  BY <1>5 DEF Drop
<1>6. ASSUME NEW p \in Pid, Exit(p) PROVE HolderRunsUntilLeft'
  BY <1>6 DEF Exit, Move, TypeOK
<1>7. ASSUME NEW p \in Pid, Release(p) \/ Kill(p) PROVE HolderRunsUntilLeft'
  BY <1>7 DEF Release, Kill, Move, Contending, TypeOK
<1>8. CASE UNCHANGED vars
  BY <1>8 DEF vars
<1> QED  BY <1>1, <1>2, <1>3, <1>4, <1>5, <1>6, <1>7, <1>8 DEF Next

(* The link alone excludes: however many processes race for a config home  *)
(* no holder has left, one of them wins and is named by the file ("two     *)
(* processes racing for the same config home cannot both win").            *)
THEOREM RaceHasOneWinner == Spec => []RaceExcludes
<1>1. Init => HolderRunsUntilLeft
  BY DEF Init, HolderRunsUntilLeft, HolderRuns, RunningIsNamed
<1>2. HolderRunsUntilLeft => RaceExcludes
  BY DEF HolderRunsUntilLeft, HolderRuns, RunningIsNamed, OneInstance, RaceExcludes
<1>3. TypeOK /\ HolderRunsUntilLeft /\ [Next]_vars => HolderRunsUntilLeft'
  BY HolderRunsStep
<1> QED  BY <1>1, <1>2, <1>3, LockTypes, PTL DEF Spec

-----------------------------------------------------------------------------
(* Starters that come one at a time: what the one contender has read is    *)
(* still true of whoever runs, since nobody else can come to run.          *)
ReadStillTrue ==
  /\ RunningIsNamed
  /\ \A p, q \in Pid : pc[p] \in Contending /\ pc[q] \in Contending => p = q
  /\ \A p, q \in Pid : pc[p] = "ask" /\ pc[q] = "running" => saw[p] = q
  /\ \A p, q \in Pid : pc[p] = "drop" => pc[q] # "running"

ReadStillTrueUntilMet == ~met => ReadStillTrue

LEMMA ReadStillTrueStep ==
  ASSUME TypeOK, ReadStillTrueUntilMet, [Next]_vars
  PROVE  ReadStillTrueUntilMet'
<1> USE LockAssumption DEF ReadStillTrueUntilMet, ReadStillTrue, RunningIsNamed, Contending
<1>1. ASSUME NEW p \in Pid, Start(p) PROVE ReadStillTrueUntilMet'
  BY <1>1 DEF Start, Move, TypeOK
<1>2. ASSUME NEW p \in Pid, Link(p) PROVE ReadStillTrueUntilMet'
  BY <1>2 DEF Link, Move, TypeOK
<1>3. ASSUME NEW p \in Pid, Read(p) PROVE ReadStillTrueUntilMet'
  BY <1>3 DEF Read, Move, TypeOK
<1>4. ASSUME NEW p \in Pid, Ask(p) PROVE ReadStillTrueUntilMet'
  BY <1>4 DEF Ask, Alive, Move, TypeOK
<1>5. ASSUME NEW p \in Pid, Drop(p) PROVE ReadStillTrueUntilMet'
  BY <1>5 DEF Drop, Move, TypeOK
<1>6. ASSUME NEW p \in Pid, Release(p) PROVE ReadStillTrueUntilMet'
  BY <1>6 DEF Release, Move, TypeOK
<1>7. ASSUME NEW p \in Pid, Exit(p) \/ Kill(p) PROVE ReadStillTrueUntilMet'
  BY <1>7 DEF Exit, Kill, Move, TypeOK
<1>8. CASE UNCHANGED vars
  BY <1>8 DEF vars
<1> QED  BY <1>1, <1>2, <1>3, <1>4, <1>5, <1>6, <1>7, <1>8 DEF Next

(* A restart is safe: with holders that leave and are killed at any moment *)
(* and files left behind, starters that do not contend with one another    *)
(* never run beside a holder, and the file names whoever runs.             *)
THEOREM LoneStarterExcludes == Spec => []RestartExcludes
<1>1. Init => ReadStillTrueUntilMet
  BY DEF Init, ReadStillTrueUntilMet, ReadStillTrue, RunningIsNamed, Contending
<1>2. ReadStillTrueUntilMet => RestartExcludes
  BY DEF ReadStillTrueUntilMet, ReadStillTrue, RunningIsNamed, OneInstance, RestartExcludes
<1>3. TypeOK /\ ReadStillTrueUntilMet /\ [Next]_vars => ReadStillTrueUntilMet'
  BY ReadStillTrueStep
<1> QED  BY <1>1, <1>2, <1>3, LockTypes, PTL DEF Spec

-----------------------------------------------------------------------------
(* The start and the stop order of an instance.                            *)

(* The processes are processes.                                            *)
StopApart == NoPid \notin Proc

Early == {"off", "locked", "built"}
Holding == {"locked", "built", "up", "settling", "flushing", "closing", "leaving"}
Flushing == {"flushing", "closing", "leaving", "failing", "over"}
Ending == {"closing", "leaving", "failing", "over"}

Body == [by : L!Facts, body : SUBSET L!Facts]

StopTypes ==
  /\ lock \in Proc \cup {NoPid}
  /\ stage \in [Proc -> L!Stages]
  /\ flight \in [Proc -> SUBSET Req] /\ named \in [Proc -> SUBSET Req]
  /\ holds \in [Proc -> SUBSET Req]
  /\ mem \in [Proc -> SUBSET L!Facts]
  /\ chain \in [Proc -> Seq(Body)] /\ owed \in [Proc -> Nat]
  /\ fileInStop \subseteq L!Facts

(* Whoever has taken the lock has it until it lets it go: the file is only *)
(* taken over from a process that is gone.                                 *)
TakenIsHeld == ~twice => \A p \in Proc : stage[p] \in Holding => lock = p

(* A process that has not listened yet has let nothing in, and one that    *)
(* leaves lets in nothing more.                                            *)
DoorIsShut ==
  \A p \in Proc :
    /\ stage[p] \in Early => flight[p] = {} /\ chain[p] = <<>> /\ holds[p] = {}
    /\ stage[p] \in Flushing => flight[p] \subseteq named[p] /\ holds[p] \subseteq named[p]

(* What a flush waits for is the front of the chain; what stands behind it *)
(* was asked for since, by what the log names or by what closed.           *)
RestIsNamed ==
  \A p \in Proc :
    /\ stage[p] = "flushing" =>
         \A i \in 1..Len(chain[p]) : i > owed[p] => chain[p][i].by \in named[p] \cup {Closing}
    /\ stage[p] \in Ending =>
         \A i \in 1..Len(chain[p]) : chain[p][i].by \in named[p] \cup {Closing}

StopIsOrdered == StopTypes /\ TakenIsHeld /\ DoorIsShut /\ RestIsNamed

(* A body appended to a process's chain stands behind the others.          *)
LEMMA EnqueueKeeps ==
  ASSUME StopApart, StopTypes, NEW p \in Proc, NEW who \in L!Facts, L!Enqueue(p, who)
  PROVE  /\ mem' \in [Proc -> SUBSET L!Facts]
         /\ chain' \in [Proc -> Seq(Body)]
         /\ \A q \in Proc : q # p => chain'[q] = chain[q]
         /\ Len(chain'[p]) = Len(chain[p]) + 1
         /\ \A i \in 1..Len(chain[p]) : chain'[p][i] = chain[p][i]
         /\ chain'[p][Len(chain[p]) + 1].by = who
<1> DEFINE b == [by |-> who, body |-> mem[p] \cup {who}]
<1>1. b \in Body /\ b.by = who
  BY DEF Body, StopTypes
<1>2. chain' = [chain EXCEPT ![p] = Append(@, b)]
  BY DEF L!Enqueue
<1>3. mem' = [mem EXCEPT ![p] = @ \cup {who}]
  BY DEF L!Enqueue
<1> HIDE DEF b
<1>4. chain[p] \in Seq(Body) /\ Append(chain[p], b) \in Seq(Body)
  BY <1>1 DEF StopTypes
<1> QED  BY <1>1, <1>2, <1>3, <1>4 DEF StopTypes

(* An action that leaves the books of its process and the order alone, or  *)
(* moves its process on, keeps what is known of the others.                *)
LEMMA StartKeeps ==
  ASSUME StopApart, StopIsOrdered, NEW p \in Proc,
         L!Start(p) \/ L!Build(p) \/ L!BuildFails(p) \/ L!Listen(p)
  PROVE  StopIsOrdered'
<1>1. StopTypes'
  BY DEF StopIsOrdered, StopTypes, L!Start, L!Build, L!BuildFails, L!Listen, L!Stages
<1>2. TakenIsHeld'
  BY DEF StopIsOrdered, StopTypes, TakenIsHeld, L!Start, L!Build, L!BuildFails, L!Listen,
         Holding, StopApart
<1>3. DoorIsShut'
  BY DEF StopIsOrdered, StopTypes, DoorIsShut, L!Start, L!Build, L!BuildFails, L!Listen,
         Early, Flushing
<1>4. RestIsNamed'
  <2>1. CASE L!BuildFails(p)
    <3>1. chain[p] = <<>> /\ UNCHANGED <<chain, owed, named>>
          /\ stage' = [stage EXCEPT ![p] = "failing"]
      BY <2>1 DEF L!BuildFails, StopIsOrdered, DoorIsShut, Early
    <3> QED  BY <3>1 DEF StopIsOrdered, StopTypes, RestIsNamed, Ending
  <2>2. CASE ~L!BuildFails(p)
    <3>1. /\ UNCHANGED <<chain, owed, named>>
          /\ stage' = [stage EXCEPT ![p] = stage'[p]]
          /\ stage'[p] \in {"locked", "built", "up"}
      BY <2>2 DEF L!Start, L!Build, L!Listen, StopIsOrdered, StopTypes
    <3> QED  BY <3>1 DEF StopIsOrdered, StopTypes, RestIsNamed, Ending
  <2> QED  BY <2>1, <2>2
<1> QED  BY <1>1, <1>2, <1>3, <1>4 DEF StopIsOrdered

LEMMA RequestKeeps ==
  ASSUME StopApart, StopIsOrdered, NEW p \in Proc, NEW r \in Req,
         L!Admit(p, r) \/ L!TakesHold(p, r)
  PROVE  StopIsOrdered'
<1>0. \/ /\ stage[p] = "up"
         /\ flight' = [flight EXCEPT ![p] = @ \cup {r}] /\ UNCHANGED holds
      \/ /\ r \in flight[p]
         /\ flight' = [flight EXCEPT ![p] = @ \ {r}]
         /\ holds' = [holds EXCEPT ![p] = @ \cup {r}]
  BY DEF L!Admit, L!TakesHold
<1>a. UNCHANGED <<lock, stage, named, mem, chain, owed, fileInStop, twice>>
  BY DEF L!Admit, L!TakesHold
<1>1. StopTypes'
  <2>1. flight \in [Proc -> SUBSET Req] /\ holds \in [Proc -> SUBSET Req]
    BY DEF StopIsOrdered, StopTypes
  <2>2. flight' \in [Proc -> SUBSET Req] /\ holds' \in [Proc -> SUBSET Req]
    <3>1. CASE /\ flight' = [flight EXCEPT ![p] = @ \cup {r}] /\ UNCHANGED holds
      BY <2>1, <3>1
    <3>2. CASE /\ flight' = [flight EXCEPT ![p] = @ \ {r}]
               /\ holds' = [holds EXCEPT ![p] = @ \cup {r}]
      BY <2>1, <3>2
    <3> QED  BY <1>0, <3>1, <3>2
  <2> QED  BY <1>a, <2>2 DEF StopIsOrdered, StopTypes
<1>2. TakenIsHeld'
  BY DEF StopIsOrdered, TakenIsHeld, L!Admit, L!TakesHold
<1>3. DoorIsShut'
  <2> SUFFICES ASSUME NEW q \in Proc
               PROVE /\ stage[q] \in Early => flight'[q] = {} /\ chain[q] = <<>> /\ holds'[q] = {}
                     /\ stage[q] \in Flushing =>
                          flight'[q] \subseteq named[q] /\ holds'[q] \subseteq named[q]
    BY <1>a DEF DoorIsShut
  <2>1. /\ stage[q] \in Early => flight[q] = {} /\ chain[q] = <<>> /\ holds[q] = {}
        /\ stage[q] \in Flushing => flight[q] \subseteq named[q] /\ holds[q] \subseteq named[q]
    BY DEF StopIsOrdered, DoorIsShut
  <2>2. CASE q # p
    BY <1>0, <2>1, <2>2 DEF StopIsOrdered, StopTypes
  <2>3. CASE q = p
    BY <1>0, <2>1, <2>3 DEF StopIsOrdered, StopTypes, Early, Flushing
  <2> QED  BY <2>2, <2>3
<1>4. RestIsNamed'
  BY DEF StopIsOrdered, RestIsNamed, L!Admit, L!TakesHold
<1> QED  BY <1>1, <1>2, <1>3, <1>4 DEF StopIsOrdered

LEMMA WriteIsNamed ==
  ASSUME StopApart, StopIsOrdered, NEW p \in Proc, NEW who \in L!Facts, L!Enqueue(p, who),
         UNCHANGED <<lock, flight, named, holds, owed, fileInStop, twice>>,
         stage' \in [Proc -> L!Stages],
         \A q \in Proc : q # p => stage'[q] = stage[q],
         \/ stage'[p] = stage[p]
         \/ stage[p] = "closing" /\ stage'[p] = "leaving",
         stage[p] \notin Early,
         stage[p] \in Flushing => who \in named[p] \cup {Closing}
  PROVE  StopIsOrdered'
<1>1. StopTypes'
  BY EnqueueKeeps DEF StopIsOrdered, StopTypes
<1>2. TakenIsHeld'
  BY DEF StopIsOrdered, TakenIsHeld, Holding
<1>3. DoorIsShut'
  <2> SUFFICES ASSUME NEW q \in Proc
               PROVE /\ stage'[q] \in Early => flight[q] = {} /\ chain'[q] = <<>> /\ holds[q] = {}
                     /\ stage'[q] \in Flushing => flight[q] \subseteq named[q] /\ holds[q] \subseteq named[q]
    BY DEF DoorIsShut
  <2>1. /\ stage[q] \in Early => flight[q] = {} /\ chain[q] = <<>> /\ holds[q] = {}
        /\ stage[q] \in Flushing => flight[q] \subseteq named[q] /\ holds[q] \subseteq named[q]
    BY DEF StopIsOrdered, DoorIsShut
  <2>2. CASE q # p
    <3>1. chain'[q] = chain[q]
      BY <2>2, EnqueueKeeps DEF StopIsOrdered
    <3> QED  BY <2>1, <2>2, <3>1
  <2>3. CASE q = p
    BY <2>1, <2>3 DEF Early, Flushing
  <2> QED  BY <2>2, <2>3
<1>4. RestIsNamed'
  <2> SUFFICES ASSUME NEW q \in Proc
      PROVE  /\ stage'[q] = "flushing" =>
                  \A i \in 1..Len(chain'[q]) :
                    i > owed[q] => chain'[q][i].by \in named[q] \cup {Closing}
             /\ stage'[q] \in Ending =>
                  \A i \in 1..Len(chain'[q]) : chain'[q][i].by \in named[q] \cup {Closing}
    BY DEF RestIsNamed
  <2>1. CASE q # p
    <3>1. chain'[q] = chain[q] /\ stage'[q] = stage[q]
      BY <2>1, EnqueueKeeps DEF StopIsOrdered
    <3> QED  BY <3>1 DEF StopIsOrdered, RestIsNamed
  <2>2. CASE q = p
    <3>1. /\ Len(chain'[p]) = Len(chain[p]) + 1 /\ Len(chain[p]) \in Nat
          /\ \A i \in 1..Len(chain[p]) : chain'[p][i] = chain[p][i]
          /\ chain'[p][Len(chain[p]) + 1].by = who
      BY EnqueueKeeps DEF StopIsOrdered, StopTypes
    <3>2. stage'[p] \in Flushing => who \in named[p] \cup {Closing}
      BY DEF Flushing
    <3>3. /\ stage[p] = "flushing" =>
               \A i \in 1..Len(chain[p]) : i > owed[p] => chain[p][i].by \in named[p] \cup {Closing}
          /\ stage[p] \in Ending =>
               \A i \in 1..Len(chain[p]) : chain[p][i].by \in named[p] \cup {Closing}
      BY DEF StopIsOrdered, RestIsNamed
    <3>4. \A i \in 1..Len(chain'[p]) : i \in 1..Len(chain[p]) \/ i = Len(chain[p]) + 1
      BY <3>1
    <3> QED  BY <2>2, <3>1, <3>2, <3>3, <3>4 DEF Flushing, Ending
  <2> QED  BY <2>1, <2>2
<1> QED  BY <1>1, <1>2, <1>3, <1>4 DEF StopIsOrdered

LEMMA LandsKeeps ==
  ASSUME StopApart, StopIsOrdered, NEW p \in Proc, L!Lands(p) PROVE StopIsOrdered'
<1>0. chain[p] \in Seq(Body) /\ chain[p] # <<>>
  BY DEF L!Lands, StopIsOrdered, StopTypes
<1> DEFINE e == Head(chain[p])
<1>1. /\ e \in Body /\ Tail(chain[p]) \in Seq(Body)
      /\ Len(Tail(chain[p])) = Len(chain[p]) - 1
      /\ \A i \in 1..Len(Tail(chain[p])) :
            i + 1 \in 1..Len(chain[p]) /\ Tail(chain[p])[i] = chain[p][i + 1]
  BY <1>0
<1>2. /\ fileInStop' = e.body
      /\ flight' = [flight EXCEPT ![p] = @ \ {e.by}]
      /\ chain' = [chain EXCEPT ![p] = Tail(@)]
      /\ owed' = [owed EXCEPT ![p] = IF @ = 0 THEN 0 ELSE @ - 1]
      /\ UNCHANGED <<lock, stage, named, holds, mem, twice>>
  BY DEF L!Lands
<1> HIDE DEF e
<1>3. StopTypes'
  <2>1. fileInStop' \subseteq L!Facts
    BY <1>1, <1>2 DEF Body
  <2>2. chain' \in [Proc -> Seq(Body)] /\ flight' \in [Proc -> SUBSET Req]
    BY <1>1, <1>2 DEF StopIsOrdered, StopTypes
  <2>3. owed' \in [Proc -> Nat]
    BY <1>2 DEF StopIsOrdered, StopTypes
  <2> QED  BY <1>2, <2>1, <2>2, <2>3 DEF StopIsOrdered, StopTypes
<1>4. TakenIsHeld'
  BY <1>2 DEF StopIsOrdered, TakenIsHeld
<1>5. DoorIsShut'
  BY <1>0, <1>2 DEF StopIsOrdered, StopTypes, DoorIsShut
<1>6. RestIsNamed'
  <2> SUFFICES ASSUME NEW q \in Proc
      PROVE  /\ stage[q] = "flushing" =>
                  \A i \in 1..Len(chain'[q]) :
                    i > owed'[q] => chain'[q][i].by \in named[q] \cup {Closing}
             /\ stage[q] \in Ending =>
                  \A i \in 1..Len(chain'[q]) : chain'[q][i].by \in named[q] \cup {Closing}
    BY <1>2 DEF RestIsNamed
  <2>0. /\ stage[q] = "flushing" =>
             \A i \in 1..Len(chain[q]) : i > owed[q] => chain[q][i].by \in named[q] \cup {Closing}
        /\ stage[q] \in Ending =>
             \A i \in 1..Len(chain[q]) : chain[q][i].by \in named[q] \cup {Closing}
    BY DEF StopIsOrdered, RestIsNamed
  <2>1. CASE q # p
    BY <1>2, <2>0, <2>1 DEF StopIsOrdered, StopTypes
  <2>2. CASE q = p
    <3>1. chain'[p] = Tail(chain[p]) /\ owed[p] \in Nat
          /\ owed'[p] = IF owed[p] = 0 THEN 0 ELSE owed[p] - 1
      BY <1>2 DEF StopIsOrdered, StopTypes
    <3> QED  BY <1>1, <2>0, <2>2, <3>1
  <2> QED  BY <2>1, <2>2
<1> QED  BY <1>3, <1>4, <1>5, <1>6 DEF StopIsOrdered

(* The steps of the stop order.                                            *)
LEMMA SettleKeeps ==
  ASSUME StopApart, StopIsOrdered, NEW p \in Proc,
         L!Stop(p) \/ L!ListenFails(p) \/ L!Settled(p)
  PROVE  StopIsOrdered'
<1>1. StopTypes'
  <2>1. CASE L!Settled(p)
    <3>1. Len(chain[p]) \in Nat
      BY DEF StopIsOrdered, StopTypes
    <3>2. owed' \in [Proc -> Nat]
      BY <2>1, <3>1 DEF L!Settled, StopIsOrdered, StopTypes
    <3> QED  BY <2>1, <3>2 DEF L!Settled, StopIsOrdered, StopTypes, L!Stages
  <2>2. CASE L!Stop(p) \/ L!ListenFails(p)
    BY <2>2 DEF StopIsOrdered, StopTypes, L!Stop, L!ListenFails, L!Stopping, L!Stages
  <2> QED  BY <2>1, <2>2
<1>2. TakenIsHeld'
  BY DEF StopIsOrdered, StopTypes, TakenIsHeld, L!Stop, L!ListenFails, L!Stopping, L!Settled,
         Holding
<1>3. DoorIsShut'
  BY DEF StopIsOrdered, StopTypes, DoorIsShut, L!Stop, L!ListenFails, L!Stopping, L!Settled,
         Early, Flushing
<1>4. RestIsNamed'
  <2>1. CASE L!Settled(p)
    <3>1. /\ named' = [named EXCEPT ![p] = flight[p]]
          /\ owed' = [owed EXCEPT ![p] = Len(chain[p])]
          /\ stage' = [stage EXCEPT ![p] = "flushing"]
          /\ chain' = chain
      BY <2>1 DEF L!Settled
    <3>2. Len(chain[p]) \in Nat
      BY DEF StopIsOrdered, StopTypes
    <3> QED  BY <3>1, <3>2 DEF StopIsOrdered, StopTypes, RestIsNamed, Ending
  <2>2. CASE L!Stop(p) \/ L!ListenFails(p)
    BY <2>2 DEF StopIsOrdered, StopTypes, RestIsNamed, L!Stop, L!ListenFails, L!Stopping, Ending
  <2> QED  BY <2>1, <2>2
<1> QED  BY <1>1, <1>2, <1>3, <1>4 DEF StopIsOrdered

LEMMA FlushedKeeps ==
  ASSUME StopApart, StopIsOrdered, NEW p \in Proc, L!Flushed(p) PROVE StopIsOrdered'
<1>1. StopTypes'
  BY DEF StopIsOrdered, StopTypes, L!Flushed, L!Stages
<1>2. TakenIsHeld'
  BY DEF StopIsOrdered, StopTypes, TakenIsHeld, L!Flushed, Holding
<1>3. DoorIsShut'
  BY DEF StopIsOrdered, StopTypes, DoorIsShut, L!Flushed, Early, Flushing
<1>4. RestIsNamed'
  <2>1. \A i \in 1..Len(chain[p]) : chain[p][i].by \in named[p] \cup {Closing}
    BY DEF L!Flushed, StopIsOrdered, RestIsNamed
  <2> QED  BY <2>1 DEF L!Flushed, StopIsOrdered, StopTypes, RestIsNamed, Ending
<1> QED  BY <1>1, <1>2, <1>3, <1>4 DEF StopIsOrdered

LEMMA LetGoKeeps ==
  ASSUME StopApart, StopIsOrdered, NEW p \in Proc, L!Release(p) \/ L!GivesUp(p)
  PROVE  StopIsOrdered'
<1>1. StopTypes'
  BY DEF StopIsOrdered, StopTypes, L!Release, L!GivesUp, L!Released, L!Stages
<1>2. TakenIsHeld'
  BY DEF StopIsOrdered, StopTypes, TakenIsHeld, L!Release, L!GivesUp, L!Released, Holding
<1>3. DoorIsShut'
  BY DEF StopIsOrdered, StopTypes, DoorIsShut, L!Release, L!GivesUp, L!Released, Early, Flushing
<1>4. RestIsNamed'
  BY DEF StopIsOrdered, StopTypes, RestIsNamed, L!Release, L!GivesUp, L!Released, Ending
<1> QED  BY <1>1, <1>2, <1>3, <1>4 DEF StopIsOrdered

LEMMA GoneKeeps ==
  ASSUME StopApart, StopIsOrdered, NEW p \in Proc, L!Gone(p) PROVE StopIsOrdered'
<1>1. StopTypes'
  BY DEF StopIsOrdered, StopTypes, L!Gone, L!Stages
<1>2. TakenIsHeld'
  BY DEF StopIsOrdered, StopTypes, TakenIsHeld, L!Gone, Holding
<1>3. DoorIsShut'
  BY DEF StopIsOrdered, StopTypes, DoorIsShut, L!Gone, Early, Flushing
<1>4. RestIsNamed'
  BY DEF StopIsOrdered, StopTypes, RestIsNamed, L!Gone, Ending
<1> QED  BY <1>1, <1>2, <1>3, <1>4 DEF StopIsOrdered

LEMMA StopStep ==
  ASSUME StopApart, StopIsOrdered, L!Next PROVE StopIsOrdered'
<1>0. PICK p \in Proc : L!Step(p)
  BY DEF L!Next
<1>1. CASE L!Start(p) \/ L!Build(p) \/ L!BuildFails(p) \/ L!Listen(p)
  BY <1>1, StartKeeps
<1>2. ASSUME NEW r \in Req, L!Admit(p, r) \/ L!TakesHold(p, r) PROVE StopIsOrdered'
  BY <1>2, RequestKeeps
<1>3. ASSUME NEW r \in Req, L!Writes(p, r) PROVE StopIsOrdered'
  <2>1. /\ L!Enqueue(p, r) /\ r \in flight[p] /\ r \in L!Facts
        /\ UNCHANGED <<lock, stage, flight, named, holds, owed, fileInStop, twice>>
    BY <1>3 DEF L!Writes, L!Facts
  <2>2. stage[p] \notin Early /\ (stage[p] \in Flushing => r \in named[p])
    BY <2>1 DEF StopIsOrdered, DoorIsShut
  <2> QED  BY <2>1, <2>2, WriteIsNamed DEF StopIsOrdered, StopTypes
<1>4. CASE L!SessionLeaves(p)
  <2>1. PICK who \in {Departs, Closing} :
          /\ L!Enqueue(p, who)
          /\ stage[p] \in {"up", "settling", "flushing"}
          /\ stage[p] = "flushing" => who = Closing
    BY <1>4 DEF L!SessionLeaves
  <2>2. /\ who \in L!Facts
        /\ UNCHANGED <<lock, stage, flight, named, holds, owed, fileInStop, twice>>
    BY <1>4 DEF L!SessionLeaves, L!Facts
  <2> QED  BY <2>1, <2>2, WriteIsNamed DEF StopIsOrdered, StopTypes, Early, Flushing
<1>5. CASE L!Lands(p)
  BY <1>5, LandsKeeps
<1>6. CASE L!Stop(p) \/ L!ListenFails(p) \/ L!Settled(p)
  BY <1>6, SettleKeeps
<1>7. CASE L!Flushed(p)
  BY <1>7, FlushedKeeps
<1>8. CASE L!Closes(p)
  <2>0. /\ stage[p] = "closing" /\ stage' = [stage EXCEPT ![p] = "leaving"]
        /\ UNCHANGED <<lock, flight, named, holds, owed, fileInStop, twice>>
        /\ Closing \in L!Facts
    BY <1>8 DEF L!Closes, L!Facts
  <2>1. /\ stage' \in [Proc -> L!Stages] /\ stage'[p] = "leaving"
        /\ \A q \in Proc : q # p => stage'[q] = stage[q]
    BY <2>0 DEF StopIsOrdered, StopTypes, L!Stages
  <2>2. CASE L!Enqueue(p, Closing)
    BY <2>0, <2>1, <2>2, WriteIsNamed DEF Early, Flushing
  <2>3. CASE UNCHANGED <<mem, chain>>
    <3>1. StopTypes'
      BY <2>0, <2>1, <2>3 DEF StopIsOrdered, StopTypes
    <3>2. TakenIsHeld'
      BY <2>0, <2>1 DEF StopIsOrdered, TakenIsHeld, Holding
    <3>3. DoorIsShut'
      BY <2>0, <2>1, <2>3 DEF StopIsOrdered, DoorIsShut, Early, Flushing
    <3>4. RestIsNamed'
      BY <2>0, <2>1, <2>3 DEF StopIsOrdered, RestIsNamed, Ending
    <3> QED  BY <3>1, <3>2, <3>3, <3>4 DEF StopIsOrdered
  <2> QED  BY <1>8, <2>2, <2>3 DEF L!Closes
<1>9. CASE L!Release(p) \/ L!GivesUp(p)
  BY <1>9, LetGoKeeps
<1>10. CASE L!Ends(p) \/ L!Killed(p)
  BY <1>10, GoneKeeps DEF L!Ends, L!Killed
<1> QED
  BY <1>0, <1>1, <1>2, <1>3, <1>4, <1>5, <1>6, <1>7, <1>8, <1>9, <1>10 DEF L!Step

LEMMA StopBegins == ASSUME StopApart, L!Init PROVE StopIsOrdered
<1>1. StopTypes
  BY DEF L!Init, StopTypes, L!Stages
<1>2. TakenIsHeld /\ DoorIsShut /\ RestIsNamed
  BY DEF L!Init, TakenIsHeld, DoorIsShut, RestIsNamed, Holding, Early, Flushing, Ending
<1> QED  BY <1>1, <1>2 DEF StopIsOrdered

LEMMA OrderStays == ASSUME StopIsOrdered, UNCHANGED MCvars PROVE StopIsOrdered'
BY DEF MCvars, StopIsOrdered, StopTypes, TakenIsHeld, DoorIsShut, RestIsNamed

LEMMA OrderedIsNamed ==
  ASSUME StopIsOrdered PROVE L!LateIsNamed /\ L!NothingRuns /\ L!ServesWithLock
<1>1. L!ServesWithLock
  BY DEF StopIsOrdered, TakenIsHeld, L!ServesWithLock, Holding
<1>2. L!NothingRuns
  BY DEF StopIsOrdered, DoorIsShut, L!NothingRuns, Flushing
<1>3. L!LateIsNamed
  <2> SUFFICES ASSUME NEW p \in Proc, lock # p, ~twice, stage[p] # "off",
                      NEW e \in L!ToSet(chain[p])
               PROVE  e.by \in named[p] \cup {Closing}
    BY DEF L!LateIsNamed
  <2>1. stage[p] \in {"failing", "over"}
    BY DEF StopIsOrdered, StopTypes, TakenIsHeld, Holding, L!Stages
  <2>2. PICK i \in 1..Len(chain[p]) : e = chain[p][i]
    BY DEF L!ToSet, StopIsOrdered, StopTypes
  <2> QED  BY <2>1, <2>2 DEF StopIsOrdered, RestIsNamed, Ending
<1> QED  BY <1>1, <1>2, <1>3

StoppingIsOrdered == Stopping => StopIsOrdered

(* What lands after the lock was given up was asked for by what the log    *)
(* names or by what closed, a departing instance runs nothing else, and    *)
(* whoever serves has the lock, for any requests, starts that fail and     *)
(* processes killed at any step (Instance.#stop, #settleInFlight, start).  *)
THEOREM StopLeavesNothingUnnamed == StopApart => (MCSpec => []LateIsNamed)
<1> SUFFICES ASSUME StopApart PROVE MCSpec => []LateIsNamed
  OBVIOUS
<1>1. MCInit => StoppingIsOrdered
  BY StopBegins
     DEF MCInit, InitLock, InitSupervise, InitStop, StoppingIsOrdered, Stopping
<1>2. StoppingIsOrdered /\ [MCNext]_MCvars => StoppingIsOrdered'
  BY StopStep, OrderStays
     DEF MCNext, OnlyLock, OnlySupervise, OnlyStop, MCvars, StoppingIsOrdered, Stopping
<1>3. StoppingIsOrdered => LateIsNamed
  BY OrderedIsNamed DEF StoppingIsOrdered, Stopping, LateIsNamed
<1> QED  BY <1>1, <1>2, <1>3, PTL DEF MCSpec
=============================================================================
