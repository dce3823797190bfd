------------------------------ MODULE KvStore ------------------------------
(***************************************************************************)
(* The values clients keep in one namespace of an instance                 *)
(* (src/src/kv/store.ts): kv.write, kv.delete and kv.read on what memory   *)
(* holds, the chain of whole-file writes behind them, the kv:<ns> topic,   *)
(* and a process that may be killed and started again.  Namespaces share   *)
(* nothing but a directory, so one stands for all.                         *)
(*                                                                         *)
(* An action is one uninterrupted run of the event loop: an operation up   *)
(* to its await on the file, or what follows once its body has landed or   *)
(* failed.  Time is the clock of the instance; a write may carry any       *)
(* instant its caller states.                                              *)
(*                                                                         *)
(* Variants of a definition that carry a plausible fault stand just before *)
(* it; no specification uses them.                                         *)
(***************************************************************************)
EXTENDS Integers, Sequences

CONSTANTS
  Key,        \* the keys of the namespace
  Value,      \* what a write may carry
  MaxTime,    \* bound: how far the clock goes
  Retention,  \* TOMBSTONE_RETENTION_MS
  MaxCrashes, \* bound: times the process is killed
  MaxChain,   \* bound: operations in flight, each with a body to be written
  Gone,       \* in place of a value: the record that the key was removed
  None        \* a key nothing is held for

Time == 0..MaxTime

Held == [at : Time, v : Value \cup {Gone}]

(* MaxTime, Retention, MaxCrashes and MaxChain are natural numbers, Gone   *)
(* is no value and None is nothing that is held.                           *)

Namespace == [Key -> Held \cup {None}]

VARIABLES
  up,       \* whether the process is there
  crashes,  \* how often it was killed
  now,      \* the clock
  mem,      \* #namespaces: what memory holds
  chain,    \* #writing: the bodies still to be written, and for whom
  disk,     \* the namespace's file
  sub,      \* whether the subscriber is there
  view,     \* what it holds, put together from the frames
  said,     \* the last write of each key answered as written, until forgotten
  lost      \* whether a body failed to be written since the last start

vars == <<up, crashes, now, mem, chain, disk, sub, view, said, lost>>

(* A body of #persist: the whole namespace, and what its operation goes on *)
(* with: the key, what it was set to, whether that is announced.           *)
Body == [all : Namespace, key : Key, held : Held, tell : BOOLEAN]

Nothing == [k \in Key |-> None]

TypeOK ==
  /\ up \in BOOLEAN
  /\ crashes \in 0..MaxCrashes
  /\ now \in Time
  /\ mem \in Namespace
  /\ chain \in Seq(Body) /\ Len(chain) <= MaxChain
  /\ disk \in Namespace
  /\ sub \in BOOLEAN
  /\ view \in [Key -> [at : Time, v : Value] \cup {None}]
  /\ said \in Namespace
  /\ lost \in BOOLEAN

Init ==
  /\ up = TRUE
  /\ crashes = 0
  /\ now = 0
  /\ mem = Nothing
  /\ chain = <<>>
  /\ disk = Nothing
  /\ sub \in BOOLEAN
  /\ view = Nothing
  /\ said = Nothing
  /\ lost = FALSE

-----------------------------------------------------------------------------
Removed(h) == h # None /\ h.v = Gone

Expired(h) == Removed(h) /\ now - h.at > Retention

(* forget: the removals nothing can still be carrying an older write for.  *)
Forget(ns) == [k \in Key |-> IF Expired(ns[k]) THEN None ELSE ns[k]]

(* #load: every operation and every snapshot drops them first.             *)
Load == Forget(mem)

LiveRemovals(ns) == ns

(* What a snapshot states: a removal is simply absent.                     *)
Live(ns) == [k \in Key |-> IF Removed(ns[k]) THEN None ELSE ns[k]]

(* What was answered as written no longer counts once it is forgotten.     *)
Recall == [k \in Key |-> IF Expired(mem[k]) THEN None ELSE said[k]]

SetFirst(k, h, tell) ==
  /\ mem' = [Load EXCEPT ![k] = h]
  /\ chain' = <<[all |-> mem', key |-> k, held |-> h, tell |-> tell]>> \o chain

(* The key is set in memory and the namespace as it now stands is put at   *)
(* the end of the chain (#persist).                                        *)
Set(k, h, tell) ==
  /\ mem' = [Load EXCEPT ![k] = h]
  /\ chain' = Append(chain, [all |-> mem', key |-> k, held |-> h, tell |-> tell])

(* What the key holds is newer than `at`, and stands.                      *)
Stands(k, at) == Load[k] # None /\ Load[k].at > at

Ready == up /\ Len(chain) < MaxChain

(* kv.write, with the instant its caller states.                           *)
Write(k, v, at) ==
  /\ Ready
  /\ IF Stands(k, at) THEN mem' = Load /\ UNCHANGED chain
     ELSE Set(k, [at |-> at, v |-> v], TRUE)
  /\ said' = Recall
  /\ UNCHANGED <<up, crashes, now, disk, sub, view, lost>>

DeleteSilent(k) ==
  /\ Ready
  /\ IF Stands(k, now) THEN mem' = Load /\ UNCHANGED chain
     ELSE Set(k, [at |-> now, v |-> Gone], FALSE)
  /\ said' = Recall
  /\ UNCHANGED <<up, crashes, now, disk, sub, view, lost>>

(* kv.delete: announced only when there is something to remove.            *)
Delete(k) ==
  /\ Ready
  /\ IF Stands(k, now) THEN mem' = Load /\ UNCHANGED chain
     ELSE Set(k, [at |-> now, v |-> Gone], Load[k] # None /\ ~Removed(Load[k]))
  /\ said' = Recall
  /\ UNCHANGED <<up, crashes, now, disk, sub, view, lost>>

(* kv.read: what is old goes, nothing else does.                           *)
Read ==
  /\ up
  /\ mem' = Load
  /\ said' = Recall
  /\ UNCHANGED <<up, crashes, now, chain, disk, sub, view, lost>>

(* A subscription to kv:<ns>; its opening frame states what memory holds.  *)
Subscribe ==
  /\ up
  /\ mem' = Load
  /\ sub' = TRUE
  /\ view' = Live(mem')
  /\ said' = Recall
  /\ UNCHANGED <<up, crashes, now, chain, disk, lost>>

LandedUnsaved ==
  LET b == Head(chain)
  IN  /\ up
      /\ chain # <<>>
      /\ chain' = Tail(chain)
      /\ view' = IF sub /\ b.tell THEN Live([view EXCEPT ![b.key] = b.held]) ELSE view
      /\ said' = [said EXCEPT ![b.key] = b.held]
      /\ UNCHANGED <<up, crashes, now, mem, disk, sub, lost>>

(* The body at the head of the chain is renamed over the file, and its     *)
(* operation goes on: the subscribers are told, the caller is answered.    *)
Landed ==
  LET b == Head(chain)
  IN  /\ up
      /\ chain # <<>>
      /\ chain' = Tail(chain)
      /\ disk' = b.all
      /\ view' = IF sub /\ b.tell THEN Live([view EXCEPT ![b.key] = b.held]) ELSE view
      /\ said' = [said EXCEPT ![b.key] = b.held]
      /\ UNCHANGED <<up, crashes, now, mem, sub, lost>>

(* It could not be written: its caller is told, and the ones behind go on. *)
(* Memory keeps what was set.                                              *)
PersistFails ==
  /\ up
  /\ chain # <<>>
  /\ chain' = Tail(chain)
  /\ lost' = TRUE
  /\ UNCHANGED <<up, crashes, now, mem, disk, sub, view, said>>

(* Time passes.  The window a removal is remembered for is days, so no     *)
(* body waits to be written for as long.                                   *)
Tick ==
  /\ now < MaxTime
  /\ \A i \in DOMAIN chain : Removed(chain[i].held) => now - chain[i].held.at < Retention
  /\ now' = now + 1
  /\ UNCHANGED <<up, crashes, mem, chain, disk, sub, view, said, lost>>

(* The process is killed.  The rename of the body being written has        *)
(* happened or has not; the rest of the chain is gone.                     *)
Crash ==
  /\ up
  /\ crashes < MaxCrashes
  /\ crashes' = crashes + 1
  /\ up' = FALSE
  /\ \/ UNCHANGED disk
     \/ chain # <<>> /\ disk' = Head(chain).all
  /\ mem' = Nothing
  /\ chain' = <<>>
  /\ sub' = FALSE
  /\ view' = Nothing
  /\ lost' = FALSE
  /\ UNCHANGED <<now, said>>

RestartEmpty ==
  /\ ~up
  /\ up' = TRUE
  /\ mem' = Nothing
  /\ UNCHANGED <<crashes, now, chain, disk, sub, view, said, lost>>

(* The store is built again, from the file.                                *)
Restart ==
  /\ ~up
  /\ up' = TRUE
  /\ mem' = disk
  /\ UNCHANGED <<crashes, now, chain, disk, sub, view, said, lost>>

Next ==
  \/ \E k \in Key, v \in Value, at \in Time : Write(k, v, at)
  \/ \E k \in Key : Delete(k)
  \/ Read
  \/ Subscribe
  \/ Landed
  \/ PersistFails
  \/ Tick
  \/ Crash
  \/ Restart

Spec == Init /\ [][Next]_vars

-----------------------------------------------------------------------------
(* A write answered as written survives any kill: the file holds it or     *)
(* something newer, until it was removed and the removal forgotten.        *)
AnsweredIsDurable ==
  \A k \in Key : said[k] # None =>
    \/ disk[k] # None /\ disk[k].at >= said[k].at
    \/ Expired(said[k])

(* While no body was lost the file never goes back: none replaces a newer  *)
(* state of a key, its own or another's, save a removal old enough to      *)
(* forget ("the older could land last", #persist).                         *)
KeepsFile ==
  ~lost => \A k \in Key :
    \/ disk[k] = None
    \/ Expired(disk[k])
    \/ disk'[k] # None /\ disk'[k].at >= disk[k].at

FileNeverGoesBack == [][KeepsFile]_vars

(* Once nothing is owed, a subscriber that put its view together from the  *)
(* opening frame and the changes holds what the store holds, whenever it   *)
(* came and whatever was in the chain then, as long as no body was lost    *)
(* (KvStore.snapshot, write and delete).                                   *)
ViewCatchesUp == up /\ sub /\ chain = <<>> /\ ~lost => view = Live(mem)

(* Once nothing is owed and no body was lost, memory and the file differ   *)
(* by removals that were forgotten and by nothing else: a restart changes  *)
(* no answer (KvStore.#persist, #load).                                    *)
RestartChangesNothing ==
  up /\ chain = <<>> /\ ~lost => Forget(mem) = Forget(disk)
=============================================================================
