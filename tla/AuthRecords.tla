---------------------------- MODULE AuthRecords ----------------------------
(***************************************************************************)
(* The records two instances of a mesh share (src/src/auth/records.ts,     *)
(* store.ts, topic.ts): users, credentials, grantings and token families,  *)
(* the last write of a key winning, and a removal being a mark that        *)
(* refuses every later write.  Memory moves at once, the file follows      *)
(* through a chain of whole documents, and the peer is told once a         *)
(* document has landed, or with the snapshot of a subscription.            *)
(*                                                                         *)
(* What a record says is left out: which instance wrote it, when, whether  *)
(* it is a mark and until when it counts is not.                           *)
(***************************************************************************)
EXTENDS Integers, Sequences

CONSTANTS
  Inst,        \* the two instances
  Lasting,     \* keys of users, credentials and grantings
  Family,      \* keys of token families, which run out
  Life,        \* how long a family lasts from its latest rotation
  Retention,   \* how long the mark over a family is kept
  MaxTime, MaxWrites,
  MaxTroubles, \* bound: kills, cuts and documents that cannot be written
  NoRecord

Key == Lasting \cup Family
Never == MaxTime + Life + Retention + 1

VARIABLES
  now,
  up,       \* the instances that run
  mem,      \* AuthRecords.#records of each
  chain,    \* documents still to be written, each with what is told once it landed
  disk,     \* records.json of each
  linked,   \* the subscriptions to each other stand
  wire,     \* frames of auth.records on their way from each instance
  writes, troubles,
  taken,    \* keys that were ever written: each is made from a random id
  marked,   \* removals that were answered, or taken from the peer and written
  apart,    \* keys the instances may disagree about: see Converges
  early     \* history: of what met of a key, the later stamp ran out earlier

vars ==
  <<now, up, mem, chain, disk, linked, wire, writes, troubles, taken, marked, apart, early>>

Record == [at : Nat, by : Inst, mark : BOOLEAN, till : Nat]
Set == [Key -> Record \cup {NoRecord}]
Empty == [k \in Key |-> NoRecord]

TypeOK ==
  /\ now \in 0..MaxTime
  /\ up \subseteq Inst
  /\ mem \in [Inst -> Set] /\ disk \in [Inst -> Set]
  /\ linked \in BOOLEAN
  /\ marked \in [Inst -> SUBSET Key] /\ apart \subseteq Key /\ early \subseteq Key

Init ==
  /\ now = 0 /\ up = Inst /\ linked = TRUE
  /\ mem = [i \in Inst |-> Empty] /\ disk = mem
  /\ chain = [i \in Inst |-> <<>>] /\ wire = [i \in Inst |-> <<>>]
  /\ writes = 0 /\ troubles = 0 /\ taken = {}
  /\ marked = [i \in Inst |-> {}] /\ apart = {} /\ early = {}

Other(i) == CHOOSE j \in Inst : j # i

Over(r) == r # NoRecord /\ r.till <= now

IsMark(r) == IF r = NoRecord THEN FALSE ELSE r.mark

(* #expire, which every commit and every snapshot begins with.             *)
Expire(S) == [k \in Key |-> IF Over(S[k]) THEN NoRecord ELSE S[k]]

AcceptsOverMark(held, r) == IF held = NoRecord THEN TRUE ELSE held.at < r.at

(* accept: what is newer is taken, except over a mark.                     *)
Accepts(held, r) == IF held = NoRecord THEN TRUE ELSE held.at < r.at /\ ~held.mark

(* The instant of a write, moved past what the key holds.                  *)
Stamp(held) == IF held = NoRecord \/ held.at < now THEN now ELSE held.at + 1

(* #keep: the document is taken now and written later.                     *)
Keep(i, S, tells) ==
  /\ mem' = [mem EXCEPT ![i] = Expire(S)]
  /\ chain' = [chain EXCEPT ![i] = Append(@, [doc |-> Expire(S), tells |-> tells])]

(* write: a registration, a granting, a mint, or what uses, renames or     *)
(* rotates a record that stands.                                           *)
Write(i, k) ==
  LET r == [at |-> Stamp(mem[i][k]), by |-> i, mark |-> FALSE,
            till |-> IF k \in Family THEN now + Life ELSE Never]
  IN  /\ i \in up
      /\ IF k \in taken THEN mem[i][k] # NoRecord /\ ~Over(mem[i][k]) ELSE TRUE
      /\ Accepts(mem[i][k], r)
      /\ writes < MaxWrites /\ writes' = writes + 1
      /\ taken' = taken \cup {k}
      /\ apart' = IF \E j \in Inst : k \in marked[j] \/ IsMark(mem[j][k])
                  THEN apart \cup {k} ELSE apart
      /\ Keep(i, [mem[i] EXCEPT ![k] = r], {k})
      /\ UNCHANGED <<now, up, disk, linked, wire, troubles, marked, early>>

(* erase, and fail for a family: a mark over what the key holds.  A mark   *)
(* may stand there already, of a peer whose frame came while the grantings *)
(* of a person were erased one after another (revoke); fail refuses a      *)
(* family that is marked.                                                  *)
Erase(i, k) ==
  LET held == mem[i][k]
      r == [at |-> Stamp(held), by |-> i, mark |-> TRUE,
            till |-> IF k \in Family THEN now + Retention ELSE Never]
  IN  /\ i \in up
      /\ held # NoRecord /\ (held.mark => k \in Lasting)
      /\ writes < MaxWrites /\ writes' = writes + 1
      /\ Keep(i, [mem[i] EXCEPT ![k] = r], {k})
      /\ UNCHANGED <<now, up, disk, linked, wire, troubles, taken, marked, apart, early>>

(* The first document of the chain lands: the caller is answered and what  *)
(* it wrote is published.                                                  *)
Lands(i) ==
  LET first == Head(chain[i])
  IN  /\ chain[i] # <<>>
      /\ disk' = [disk EXCEPT ![i] = first.doc]
      /\ chain' = [chain EXCEPT ![i] = Tail(@)]
      /\ wire' = IF linked /\ first.tells # {}
                 THEN [wire EXCEPT ![i] = Append(@, [k \in first.tells |-> first.doc[k]])]
                 ELSE wire
      /\ marked' = [marked EXCEPT ![i] = @ \cup
                      {k \in Key : IsMark(first.doc[k])}]
      /\ UNCHANGED <<now, up, mem, linked, writes, troubles, taken, apart, early>>

(* It cannot be written: its caller is told, the chain goes on, the peer   *)
(* hears of it only with a later snapshot.                                 *)
LandFails(i) ==
  /\ chain[i] # <<>>
  /\ troubles < MaxTroubles /\ troubles' = troubles + 1
  /\ chain' = [chain EXCEPT ![i] = Tail(@)]
  /\ apart' = apart \cup Head(chain[i]).tells
  /\ UNCHANGED <<now, up, mem, disk, linked, wire, writes, taken, marked, early>>

MergeForgets(i, news) ==
  LET takes == {k \in DOMAIN news : Accepts(mem[i][k], news[k])}
  IN  /\ mem' = [mem EXCEPT ![i] =
           Expire([k \in Key |-> IF k \in takes THEN news[k] ELSE mem[i][k]])]
      /\ UNCHANGED chain

(* merge: each record of a frame through accept, then one document.        *)
Merge(i, news) ==
  LET takes == {k \in DOMAIN news : Accepts(mem[i][k], news[k])}
      S == [k \in Key |-> IF k \in takes THEN news[k] ELSE mem[i][k]]
  IN  IF takes = {} THEN UNCHANGED <<mem, chain>> ELSE Keep(i, S, {})

(* Records neither of which is accepted over the other.                    *)
Cross(r, s) == r # s /\ ~Accepts(r, s) /\ ~Accepts(s, r)

(* A record and one stamped later that runs out before it, as where a      *)
(* stamp was moved ahead of the clock.                                     *)
Inverted(r, s) == r.at < s.at /\ r.till > s.till

(* A frame arrives.  Two writes of the same instant, and a mark older than *)
(* what it should remove, are refused at both ends.                        *)
Takes(i) ==
  LET news == Head(wire[Other(i)])
      held(k) == mem[i][k]
  IN  /\ i \in up
      /\ wire[Other(i)] # <<>>
      /\ wire' = [wire EXCEPT ![Other(i)] = Tail(@)]
      /\ Merge(i, news)
      /\ apart' = apart \cup
           {k \in DOMAIN news : held(k) # NoRecord /\ Cross(held(k), news[k])}
      /\ early' = early \cup
           {k \in DOMAIN news : held(k) # NoRecord /\ (\/ Inverted(held(k), news[k])
                                                      \/ Inverted(news[k], held(k)))}
      /\ UNCHANGED <<now, up, disk, linked, writes, troubles, taken, marked>>

(* The snapshot of a subscription: all of the set.                         *)
Snapshot(S) ==
  LET standing == {k \in Key : Expire(S)[k] # NoRecord} IN [k \in standing |-> S[k]]

RelinkWithoutSnapshot ==
  /\ ~linked /\ up = Inst
  /\ linked' = TRUE
  /\ wire' = [i \in Inst |-> <<>>]
  /\ mem' = [i \in Inst |-> Expire(mem[i])]
  /\ UNCHANGED <<now, up, chain, disk, writes, troubles, taken, marked, apart, early>>

(* The link is back and each subscribes to the other.                      *)
Relink ==
  /\ ~linked /\ up = Inst
  /\ linked' = TRUE
  /\ wire' = [i \in Inst |-> <<Snapshot(mem[i])>>]
  /\ mem' = [i \in Inst |-> Expire(mem[i])]
  /\ UNCHANGED <<now, up, chain, disk, writes, troubles, taken, marked, apart, early>>

Unlinked == linked' = FALSE /\ wire' = [i \in Inst |-> <<>>]

Cut ==
  /\ linked
  /\ troubles < MaxTroubles /\ troubles' = troubles + 1
  /\ Unlinked
  /\ UNCHANGED <<now, up, mem, chain, disk, writes, taken, marked, apart, early>>

(* A kill: memory and the chain are gone, the file is what was renamed.    *)
Kill(i) ==
  /\ i \in up
  /\ troubles < MaxTroubles /\ troubles' = troubles + 1
  /\ up' = up \ {i}
  /\ Unlinked
  /\ mem' = [mem EXCEPT ![i] = Empty]
  /\ chain' = [chain EXCEPT ![i] = <<>>]
  /\ UNCHANGED <<now, disk, writes, taken, marked, apart, early>>

(* load, and the constructor: every record through accept, then #expire.   *)
Load(i) ==
  /\ i \notin up
  /\ up' = up \cup {i}
  /\ mem' = [mem EXCEPT ![i] = Expire(disk[i])]
  /\ UNCHANGED <<now, chain, disk, linked, wire, writes, troubles, taken, marked, apart, early>>

Tick ==
  /\ now < MaxTime
  /\ now' = now + 1
  /\ UNCHANGED <<up, mem, chain, disk, linked, wire, writes, troubles, taken, marked, apart, early>>

Next ==
  \/ \E i \in Inst, k \in Key : Write(i, k) \/ Erase(i, k)
  \/ \E i \in Inst : Lands(i) \/ LandFails(i) \/ Takes(i) \/ Kill(i) \/ Load(i)
  \/ Relink \/ Cut \/ Tick

Spec == Init /\ [][Next]_vars

-----------------------------------------------------------------------------
(* Once nothing is being written or carried and the link stands, the two   *)
(* instances hold the same records, whatever was cut, killed, or written   *)
(* on both sides meanwhile ("a peer joining folds the lot, which is how a  *)
(* returning instance catches up", AuthTopic).  Excepted are the keys of   *)
(* apart: written at both ends in the same instant, removed at one end     *)
(* behind a write of the other, or not written down; and those of early,   *)
(* where what replaces the other's record runs out before it: arriving     *)
(* after that, it leaves one end with nothing and the other with what it   *)
(* replaced.                                                               *)
Converges ==
  up = Inst /\ linked /\ (\A i \in Inst : chain[i] = <<>> /\ wire[i] = <<>>)
    => \A k \in Key \ (apart \cup early), i, j \in Inst : Expire(mem[i])[k] = Expire(mem[j])[k]

(* A removal that was written down stands at that instance: "a tombstone   *)
(* refuses every later write to its key, so a peer coming back from a      *)
(* partition cannot carry a revoked credential or granting in as news",    *)
(* and of a family, whose mark runs out, "past the longest refresh token,  *)
(* there is nothing left for a returning peer to revive" (fail).  Through  *)
(* kills, cuts and documents that fail.  Excepted is a family that the     *)
(* other end rotated after it was failed here.                             *)
MarkStands ==
  \A i \in up, k \in Key :
    k \in marked[i] => \/ Expire(mem[i])[k] = NoRecord
                       \/ IsMark(mem[i][k])
                       \/ k \in Family \cap apart
=============================================================================
