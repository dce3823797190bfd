--------------------------- MODULE SessionsProofs ---------------------------
(***************************************************************************)
(* What is known of a session, for any number of sessions, processes,      *)
(* connections and subscribers: the list of sessions, what a departure     *)
(* leaves, what subscribers were sent and what the file comes to; what a   *)
(* reading of the runs answers, and which of them a kill may hit; and what *)
(* is folded of a transcript, for any openings, records and files.         *)
(***************************************************************************)
EXTENDS MCSessions, FiniteSetTheorems, SequenceTheorems, TLAPS

Run == [pid : Pid \cup {Nothing}, connected : BOOLEAN]

Row ==
  [at : {"connected", "running", "lost"}, words : BOOLEAN, stopped : BOOLEAN,
   activity : {0, 1}, runs : SUBSET Run, gateway : BOOLEAN, frozen : BOOLEAN]

(* What stands for an absent session, entry, row or reading is none of     *)
(* them (undefined, in the code), and a host has so many of each.          *)
Apart ==
  /\ IsFiniteSet(Sid) /\ IsFiniteSet(Conn)
  /\ MaxTime \in Nat /\ Retention \in Nat
  /\ Nothing \notin Sid /\ Nothing \notin Pid /\ Nothing \notin S!Entry
  /\ Nothing \notin Row /\ Nothing # "told" /\ Nothing # "untold"

Reading == [rows : [Pid -> Sid \cup {Nothing}], present : SUBSET Sid]

Rows == [Sid -> Row \cup {Nothing}]

Memory ==
  [own : Reading, conns : [Sid -> Nat], pids : [Sid -> [Pid -> Nat]],
   stated : [Sid -> BOOLEAN], stopping : [Sid -> BOOLEAN],
   activity : [Sid -> {0, 1}], gateway : [Sid -> BOOLEAN],
   live : [Sid -> {Nothing, "told", "untold"}], last : S!Entries,
   docs : Seq(S!Entries), sent : Rows, frozen : [Sid -> BOOLEAN]]

-----------------------------------------------------------------------------
(* The documents a change of the list asks for end in the list.            *)
LEMMA SameCount == \A M : S!Cardinality(M) = Cardinality(M)
BY DEF S!Cardinality, Cardinality

LEMMA SetToSeqIs ==
  ASSUME NEW M, IsFiniteSet(M)
  PROVE  /\ Cardinality(M) \in Nat
         /\ S!SetToSeq(M) \in [1..Cardinality(M) -> M]
         /\ \A m \in M : \E i \in 1..Cardinality(M) : S!SetToSeq(M)[i] = m
<1> DEFINE n == Cardinality(M)
<1>1. n \in Nat /\ ExistsBijection(1..n, M)
  BY FS_CardinalityType
<1>2. PICK f \in Bijection(1..n, M) : TRUE
  BY <1>1 DEF ExistsBijection
<1>3. f \in [1..n -> M] /\ S!IsInjective(f)
  BY <1>2 DEF Bijection, Injection, IsInjective, S!IsInjective
<1>4. S!SetToSeq(M) \in [1..n -> M] /\ S!IsInjective(S!SetToSeq(M))
  BY <1>3, SameCount DEF S!SetToSeq
<1>5. S!SetToSeq(M) \in Injection(1..n, M)
  BY <1>4 DEF Injection, IsInjective, S!IsInjective
<1>6. IsFiniteSet(1..n) /\ Cardinality(1..n) = n
  BY <1>1, FS_Interval
<1>7. S!SetToSeq(M) \in Surjection(1..n, M)
  BY <1>5, <1>6, FS_Injection
<1> QED  BY <1>1, <1>4, <1>7 DEF Surjection

LEMMA SavesIs ==
  ASSUME Apart, NEW old \in S!Entries, NEW new \in S!Entries
  PROVE  /\ S!Saves(old, new) \in Seq(S!Entries)
         /\ old = new => S!Saves(old, new) = <<>>
         /\ old # new => /\ S!Saves(old, new) # <<>>
                         /\ S!Saves(old, new)[Len(S!Saves(old, new))] = new
<1> DEFINE M == {s \in Sid : old[s] # new[s]}
           n == Cardinality(M)
           q == S!SetToSeq(M)
           doc(k) == [s \in Sid |-> IF \E j \in 1..k : q[j] = s THEN new[s] ELSE old[s]]
<1>1. IsFiniteSet(M)
  BY FS_Subset DEF Apart
<1>2. n \in Nat /\ q \in [1..n -> M] /\ \A m \in M : \E i \in 1..n : q[i] = m
  BY <1>1, SetToSeqIs
<1>3. S!Saves(old, new) = [k \in 1..n |-> doc(k)]
  BY <1>2 DEF S!Saves
<1>4. \A k \in 1..n : doc(k) \in S!Entries
  BY DEF S!Entries
<1>5. doc(n) = new
  <2>1. \A s \in Sid : doc(n)[s] = new[s]
    BY <1>2
  <2> QED  BY <2>1 DEF S!Entries
<1>6. old = new => n = 0
  <2>1. old = new => M = {}
    OBVIOUS
  <2> QED  BY <2>1, FS_EmptySet
<1>7. old # new => n > 0
  <2>1. old # new => M # {}
    BY DEF S!Entries
  <2>2. n = 0 <=> M = {}
    BY <1>1, FS_EmptySet
  <2> HIDE DEF n, M
  <2> QED  BY <1>2, <2>1, <2>2
<1> HIDE DEF n, q, doc, M
<1>8. [k \in 1..n |-> doc(k)] \in Seq(S!Entries) /\ Len([k \in 1..n |-> doc(k)]) = n
  BY <1>2, <1>4
<1> QED  BY <1>2, <1>3, <1>5, <1>6, <1>7, <1>8

(* What waits to be written ends in the list as it is.                     *)
Chained(r) == r.docs # <<>> => r.docs[Len(r.docs)] = r.last

LEMMA WithEntriesIs ==
  ASSUME Apart, NEW r \in Memory, NEW e \in S!Entries
  PROVE  LET w == S!WithEntries(r, e)
         IN  /\ w \in Memory /\ w.last = e
             /\ w.own = r.own /\ w.conns = r.conns /\ w.pids = r.pids
             /\ w.stated = r.stated /\ w.stopping = r.stopping
             /\ w.activity = r.activity /\ w.gateway = r.gateway
             /\ w.live = r.live /\ w.sent = r.sent /\ w.frozen = r.frozen
             /\ Chained(r) => Chained(w)
             /\ w.docs = <<>> => r.docs = <<>> /\ r.last = e
<1> DEFINE w == S!WithEntries(r, e)
           more == S!Saves(r.last, e)
<1>1. r.last \in S!Entries /\ r.docs \in Seq(S!Entries)
  BY DEF Memory
<1>2. /\ more \in Seq(S!Entries)
      /\ r.last = e => more = <<>>
      /\ r.last # e => more # <<>> /\ more[Len(more)] = e
  BY <1>1, SavesIs
<1> HIDE DEF more
<1>3. w = [r EXCEPT !.last = e, !.docs = r.docs \o more]
  BY DEF S!WithEntries, more
<1>4. r.docs \o more \in Seq(S!Entries)
  BY <1>1, <1>2
<1>5. /\ w \in Memory /\ w.last = e /\ w.docs = r.docs \o more
      /\ w.own = r.own /\ w.conns = r.conns /\ w.pids = r.pids
      /\ w.stated = r.stated /\ w.stopping = r.stopping
      /\ w.activity = r.activity /\ w.gateway = r.gateway
      /\ w.live = r.live /\ w.sent = r.sent /\ w.frozen = r.frozen
  BY <1>3, <1>4 DEF Memory
<1> HIDE DEF w
<1>6. Chained(r) => Chained(w)
  <2>1. CASE r.last = e
    BY <1>1, <1>2, <1>5, <2>1 DEF Chained
  <2>2. CASE r.last # e
    <3>1. w.docs[Len(w.docs)] = more[Len(more)]
      BY <1>1, <1>2, <1>5, <2>2
    <3> QED  BY <1>2, <1>5, <2>2, <3>1 DEF Chained
  <2> QED  BY <2>1, <2>2
<1>7. w.docs = <<>> => r.docs = <<>> /\ r.last = e
  <2>1. Len(w.docs) = Len(r.docs) + Len(more)
    BY <1>1, <1>2, <1>5
  <2>2. w.docs = <<>> => Len(r.docs) = 0 /\ Len(more) = 0
    BY <1>1, <1>2, <2>1
  <2> QED  BY <1>1, <1>2, <2>2, EmptySeq
<1> QED  BY <1>5, <1>6, <1>7 DEF w

-----------------------------------------------------------------------------
(* The row of a session follows from five of the fields and its stamps.    *)
Alike(r, w) ==
  /\ w.own = r.own /\ w.conns = r.conns /\ w.pids = r.pids /\ w.stated = r.stated
  /\ w.last = r.last

LEMMA AlikeRows ==
  ASSUME NEW r, NEW w, Alike(r, w), NEW s
  PROVE  /\ S!Live(w, s) = S!Live(r, s)
         /\ S!Duplicated(w, s) = S!Duplicated(r, s)
         /\ S!RunsOf(w, s) = S!RunsOf(r, s)
         /\ w.gateway[s] = r.gateway[s] /\ w.activity[s] = r.activity[s] =>
              S!PeerRow(w, s) = S!PeerRow(r, s)
<1>1. S!Live(w, s) = S!Live(r, s)
  BY DEF Alike, S!Live, S!Present
<1>2. S!RunsOf(w, s) = S!RunsOf(r, s)
  BY <1>1 DEF Alike, S!RunsOf, S!Ours
<1>3. S!Duplicated(w, s) = S!Duplicated(r, s)
  BY <1>2 DEF S!Duplicated
<1> QED  BY <1>1, <1>2, <1>3 DEF Alike, S!PeerRow, S!Present

LEMMA RowIs ==
  ASSUME Apart, NEW r \in Memory, NEW s \in Sid
  PROVE  /\ S!PeerRow(r, s) \in Row \cup {Nothing}
         /\ S!PeerRow(r, s) # Nothing => S!PeerRow(r, s).frozen = S!Duplicated(r, s)
         /\ S!PeerRow(r, s) = Nothing <=> ~S!Live(r, s) /\ r.last[s] = Nothing
<1> DEFINE row(at, words, stopped, active) ==
      [at |-> at, words |-> words, stopped |-> stopped, activity |-> active,
       runs |-> S!RunsOf(r, s), gateway |-> r.gateway[s], frozen |-> S!Duplicated(r, s)]
<1>1. S!RunsOf(r, s) \in SUBSET Run
  <2> DEFINE observed == S!Ours(r.own, s)
             connected == r.conns[s] > 0
             spoken(p) == p \in {q \in Pid : r.pids[s][q] > 0}
                            \/ (connected /\ S!Cardinality(observed) = 1)
  <2>1. connected \in BOOLEAN /\ \A p \in Pid : spoken(p) \in BOOLEAN
    OBVIOUS
  <2>2. observed \subseteq Pid
    BY DEF S!Ours
  <2>3. S!RunsOf(r, s) \subseteq {[pid |-> Nothing, connected |-> connected]}
          \cup {[pid |-> p, connected |-> spoken(p)] : p \in observed}
    BY DEF S!RunsOf
  <2> HIDE DEF observed, connected, spoken
  <2> QED  BY <2>1, <2>2, <2>3 DEF Run
<1>2. S!Duplicated(r, s) \in BOOLEAN
  BY DEF S!Duplicated
<1>3. /\ r.gateway[s] \in BOOLEAN /\ r.stated[s] \in BOOLEAN /\ r.activity[s] \in {0, 1}
      /\ r.last[s] # Nothing => r.last[s].words \in BOOLEAN /\ r.last[s].stopped \in BOOLEAN
  BY DEF Memory, S!Entries, S!Entry
<1>4. ASSUME NEW at \in {"connected", "running", "lost"}, NEW words \in BOOLEAN,
             NEW stopped \in BOOLEAN, NEW active \in {0, 1}
      PROVE  row(at, words, stopped, active) \in Row
  BY <1>1, <1>2, <1>3 DEF Row
<1>5. S!PeerRow(r, s) \in {row("connected", r.stated[s], FALSE, r.activity[s]),
                           row("running", r.stated[s], FALSE, 0), Nothing}
      \/ (r.last[s] # Nothing
            /\ S!PeerRow(r, s) = row("lost", r.last[s].words, r.last[s].stopped, 0))
  BY DEF S!PeerRow
<1>6. S!PeerRow(r, s) \in Row \cup {Nothing}
  BY <1>3, <1>4, <1>5
<1>7. S!PeerRow(r, s) # Nothing => S!PeerRow(r, s).frozen = S!Duplicated(r, s)
  BY <1>5
<1>8. ~S!Live(r, s) /\ r.last[s] = Nothing => S!PeerRow(r, s) = Nothing
  BY DEF S!PeerRow, S!Live
<1>9. S!Live(r, s) \/ r.last[s] # Nothing => S!PeerRow(r, s) \in Row
  <2>1. CASE r.conns[s] > 0
    <3>1. S!PeerRow(r, s) = row("connected", r.stated[s], FALSE, r.activity[s])
      BY <2>1 DEF S!PeerRow
    <3> QED  BY <1>3, <1>4, <3>1
  <2>2. CASE ~(r.conns[s] > 0) /\ S!Present(r, s)
    <3>1. S!PeerRow(r, s) = row("running", r.stated[s], FALSE, 0)
      BY <2>2 DEF S!PeerRow
    <3> QED  BY <1>3, <1>4, <3>1
  <2>3. CASE ~(r.conns[s] > 0) /\ ~S!Present(r, s) /\ r.last[s] # Nothing
    <3>1. S!PeerRow(r, s) = row("lost", r.last[s].words, r.last[s].stopped, 0)
      BY <2>3 DEF S!PeerRow
    <3> QED  BY <1>3, <1>4, <2>3, <3>1
  <2> QED  BY <2>1, <2>2, <2>3 DEF S!Live
<1> QED  BY <1>6, <1>7, <1>8, <1>9 DEF Apart

LEMMA RowsAre ==
  ASSUME Apart, NEW r \in Memory
  PROVE  S!PeerRows(r) \in Rows /\ \A s \in Sid : S!PeerRows(r)[s] = S!PeerRow(r, s)
BY RowIs DEF S!PeerRows, Rows

LEMMA ToldIsRows ==
  ASSUME NEW old \in Rows, NEW new \in Rows
  PROVE  S!Told(old, new, S!Diff(old, new)) = new
BY DEF S!Told, S!Diff, Rows

(* An entry is of the instant its session was last seen.                   *)
LEMMA RecordedIs ==
  ASSUME Apart, NEW r \in Memory, NEW s \in Sid, NEW t \in 0..MaxTime
  PROVE  /\ S!Recorded(r, s, t) \in S!Entry
         /\ S!Recorded(r, s, t).seen = t
         /\ S!Recorded(r, s, t).words = (r.live[s] = "told")
         /\ r.last[s] = Nothing => S!Recorded(r, s, t).stopped = r.stopping[s]
<1>1. r.stopping[s] \in BOOLEAN
  BY DEF Memory
<1>2. (r.stopping[s] \/ (r.last[s] # Nothing /\ r.last[s].stopped)) \in BOOLEAN
  OBVIOUS
<1>3. (r.live[s] = "told") \in BOOLEAN
  OBVIOUS
<1>4. r.last[s] = Nothing =>
        (r.stopping[s] \/ (r.last[s] # Nothing /\ r.last[s].stopped)) = r.stopping[s]
  BY <1>1
<1> QED  BY <1>2, <1>3, <1>4 DEF S!Recorded, S!Entry

LEMMA UnexpiredIs ==
  ASSUME Apart, NEW e \in S!Entries, NEW t \in 0..MaxTime
  PROVE  /\ S!Unexpired(e, t) \in S!Entries
         /\ \A s \in Sid : S!Unexpired(e, t)[s] \in {e[s], Nothing}
         /\ \A s \in Sid : e[s] # Nothing /\ e[s].seen = t => S!Unexpired(e, t)[s] = e[s]
         /\ S!Unexpired(S!Unexpired(e, t), t) = S!Unexpired(e, t)
         /\ t + 1 \in 0..MaxTime =>
              S!Unexpired(e, t + 1) = S!Unexpired(S!Unexpired(e, t), t + 1)
<1>1. \A s \in Sid : S!Unexpired(e, t)[s] =
        IF e[s] # Nothing /\ S!Expired(e[s], t) THEN Nothing ELSE e[s]
  BY DEF S!Unexpired
<1>2. S!Unexpired(e, t) \in S!Entries
  BY DEF S!Unexpired, S!Entries
<1>3. \A s \in Sid : e[s] # Nothing /\ e[s].seen = t => S!Unexpired(e, t)[s] = e[s]
  BY <1>1 DEF S!Expired, Apart
<1>4. S!Unexpired(S!Unexpired(e, t), t) = S!Unexpired(e, t)
  BY <1>1 DEF S!Unexpired
<1>5. ASSUME t + 1 \in 0..MaxTime
      PROVE  S!Unexpired(e, t + 1) = S!Unexpired(S!Unexpired(e, t), t + 1)
  <2>1. \A s \in Sid : e[s] # Nothing => e[s].seen \in Int
    BY DEF S!Entries, S!Entry
  <2>2. \A s \in Sid : e[s] # Nothing /\ S!Expired(e[s], t) => S!Expired(e[s], t + 1)
    BY <2>1, <1>5 DEF S!Expired, Apart
  <2> QED  BY <1>1, <2>2 DEF S!Unexpired
<1> QED  BY <1>1, <1>2, <1>3, <1>4, <1>5

-----------------------------------------------------------------------------
(* What every step ends in: the list is the one that follows, said whole   *)
(* and asked to be written, and who has just gone is on it.                *)
LEMMA ReclaimIs ==
  ASSUME Apart, NEW r \in Memory
  PROVE  LET w == S!Reclaim(r)
         IN  /\ w \in Memory
             /\ w.own = r.own /\ w.conns = r.conns /\ w.pids = r.pids
             /\ w.stated = r.stated /\ w.stopping = r.stopping
             /\ w.activity = r.activity /\ w.gateway = r.gateway
             /\ w.live = r.live /\ w.sent = r.sent /\ w.frozen = r.frozen
             /\ Chained(r) => Chained(w)
             /\ w.docs = <<>> => r.docs = <<>> /\ r.last = w.last
             /\ \A s \in Sid : w.last[s] = IF S!Live(r, s) THEN Nothing ELSE r.last[s]
             /\ \A s \in Sid : S!Live(w, s) = S!Live(r, s)
<1> DEFINE e == [s \in Sid |-> IF S!Live(r, s) THEN Nothing ELSE r.last[s]]
           w == S!Reclaim(r)
<1>1. e \in S!Entries
  BY DEF Memory, S!Entries
<1>2. w = S!WithEntries(r, e)
  BY DEF S!Reclaim
<1> HIDE DEF e, w
<1>3. /\ w \in Memory /\ w.last = e
      /\ w.own = r.own /\ w.conns = r.conns /\ w.pids = r.pids
      /\ w.stated = r.stated /\ w.stopping = r.stopping
      /\ w.activity = r.activity /\ w.gateway = r.gateway
      /\ w.live = r.live /\ w.sent = r.sent /\ w.frozen = r.frozen
      /\ Chained(r) => Chained(w)
      /\ w.docs = <<>> => r.docs = <<>> /\ r.last = e
  BY <1>1, <1>2, WithEntriesIs
<1>4. \A s \in Sid : S!Live(w, s) = S!Live(r, s)
  BY <1>3 DEF S!Live, S!Present
<1>5. \A s \in Sid : w.last[s] = IF S!Live(r, s) THEN Nothing ELSE r.last[s]
  BY <1>3 DEF e
<1> QED  BY <1>3, <1>4, <1>5 DEF w

LEMMA DepartedIs ==
  ASSUME Apart, NEW r \in Memory, NEW t \in 0..MaxTime, NEW gone \in SUBSET Sid
  PROVE  LET w == S!Departed(r, gone, t)
         IN  /\ w \in Memory
             /\ w.own = r.own /\ w.conns = r.conns /\ w.pids = r.pids
             /\ w.activity = r.activity /\ w.gateway = r.gateway
             /\ w.live = r.live /\ w.sent = r.sent /\ w.frozen = r.frozen
             /\ Chained(r) => Chained(w)
             /\ w.docs = <<>> => r.docs = <<>> /\ r.last = w.last
             /\ \A s \in gone : w.last[s] = S!Recorded(r, s, t)
             /\ \A s \in Sid \ gone : w.last[s] = r.last[s]
<1> DEFINE e == [s \in Sid |-> IF s \in gone THEN S!Recorded(r, s, t) ELSE r.last[s]]
           d == S!WithEntries(r, e)
           stopping == [s \in Sid |-> d.stopping[s] /\ s \notin gone]
           said == [s \in Sid |-> d.stated[s] /\ s \notin gone]
           w == S!Departed(r, gone, t)
<1>1. e \in S!Entries
  BY RecordedIs DEF Memory, S!Entries
<1>2. /\ d \in Memory /\ d.last = e
      /\ d.own = r.own /\ d.conns = r.conns /\ d.pids = r.pids
      /\ d.activity = r.activity /\ d.gateway = r.gateway
      /\ d.live = r.live /\ d.sent = r.sent /\ d.frozen = r.frozen
      /\ Chained(r) => Chained(d)
      /\ d.docs = <<>> => r.docs = <<>> /\ r.last = e
  BY <1>1, WithEntriesIs
<1>3. w = [d EXCEPT !.stopping = stopping, !.stated = said]
  BY DEF S!Departed
<1>4. stopping \in [Sid -> BOOLEAN] /\ said \in [Sid -> BOOLEAN]
  OBVIOUS
<1>5. /\ \A s \in gone : e[s] = S!Recorded(r, s, t)
      /\ \A s \in Sid \ gone : e[s] = r.last[s]
  OBVIOUS
<1> HIDE DEF e, d, stopping, said, w
<1>6. /\ w \in Memory /\ w.last = d.last /\ w.docs = d.docs
      /\ w.own = d.own /\ w.conns = d.conns /\ w.pids = d.pids
      /\ w.activity = d.activity /\ w.gateway = d.gateway
      /\ w.live = d.live /\ w.sent = d.sent /\ w.frozen = d.frozen
  BY <1>2, <1>3, <1>4 DEF Memory
<1>7. Chained(d) => Chained(w)
  BY <1>6 DEF Chained
<1> QED  BY <1>2, <1>5, <1>6, <1>7 DEF w

(* The row and the news of every session are as they should be.            *)
SaysAll(r) ==
  /\ \A s \in Sid : r.last[s] # Nothing => ~S!Live(r, s)
  /\ r.live = S!LiveNow(r)

ShowsAll(r) ==
  \A s \in Sid :
    /\ r.sent[s] = S!PeerRow(r, s)
    /\ r.sent[s] # Nothing => r.frozen[s] = S!Duplicated(r, s)

LEMMA ChangedIs ==
  ASSUME Apart, NEW r \in Memory, NEW t \in 0..MaxTime
  PROVE  LET c == S!Changed(r, t)
         IN  /\ c \in Memory
             /\ c.own = r.own /\ c.conns = r.conns /\ c.pids = r.pids
             /\ c.activity = r.activity /\ c.gateway = r.gateway
             /\ Chained(r) => Chained(c)
             /\ c.docs = <<>> => r.docs = <<>> /\ S!Unexpired(c.last, t) = S!Unexpired(r.last, t)
             /\ SaysAll(c) /\ ShowsAll(c)
             /\ \A s \in Sid : r.live[s] # Nothing /\ ~S!Live(r, s) =>
                                 c.last[s] = S!Recorded(r, s, t)
<1> DEFINE gone == {s \in Sid : r.live[s] # Nothing /\ ~S!Live(r, s)}
           d == S!Departed(r, gone, t)
           kept == S!Reclaim(d)
           young == S!Unexpired(kept.last, t)
           pruned == S!WithEntries(kept, young)
           all == S!PeerRows(pruned)
           live == S!LiveNow(pruned)
           frozen == [s \in Sid |-> IF all[s] # Nothing THEN all[s].frozen ELSE pruned.frozen[s]]
           c == S!Changed(r, t)
<1>1. c = [pruned EXCEPT !.live = live, !.frozen = frozen,
                         !.sent = S!Told(pruned.sent, all, S!Diff(pruned.sent, all))]
  BY DEF S!Changed
<1>2. \A s \in gone : s \in Sid /\ ~S!Live(r, s)
  OBVIOUS
<1>3. \A s \in Sid : r.live[s] # Nothing /\ ~S!Live(r, s) => s \in gone
  OBVIOUS
<1>4. gone \in SUBSET Sid
  OBVIOUS
<1> HIDE DEF gone
<1>5. /\ d \in Memory
      /\ d.own = r.own /\ d.conns = r.conns /\ d.pids = r.pids
      /\ d.activity = r.activity /\ d.gateway = r.gateway
      /\ Chained(r) => Chained(d)
      /\ d.docs = <<>> => r.docs = <<>> /\ r.last = d.last
      /\ \A s \in gone : d.last[s] = S!Recorded(r, s, t)
  BY <1>4, DepartedIs
<1> HIDE DEF d
<1>6. /\ kept \in Memory
      /\ kept.own = r.own /\ kept.conns = r.conns /\ kept.pids = r.pids
      /\ kept.activity = r.activity /\ kept.gateway = r.gateway
      /\ Chained(d) => Chained(kept)
      /\ kept.docs = <<>> => d.docs = <<>> /\ d.last = kept.last
      /\ \A s \in Sid : kept.last[s] = IF S!Live(d, s) THEN Nothing ELSE d.last[s]
  BY <1>5, ReclaimIs
<1>7. \A s \in Sid : /\ S!Live(d, s) = S!Live(r, s)
                     /\ S!Live(kept, s) = S!Live(r, s)
  BY <1>5, <1>6 DEF S!Live, S!Present
<1> HIDE DEF kept
<1>8. kept.last \in S!Entries
  BY <1>6 DEF Memory
<1>9. /\ young \in S!Entries
      /\ \A s \in Sid : young[s] \in {kept.last[s], Nothing}
      /\ \A s \in Sid : kept.last[s] # Nothing /\ kept.last[s].seen = t => young[s] = kept.last[s]
      /\ S!Unexpired(young, t) = young
  BY <1>8, UnexpiredIs
<1>10. young = S!Unexpired(kept.last, t)
  OBVIOUS
<1> HIDE DEF young
<1>11. /\ pruned \in Memory /\ pruned.last = young
       /\ pruned.own = r.own /\ pruned.conns = r.conns /\ pruned.pids = r.pids
       /\ pruned.activity = r.activity /\ pruned.gateway = r.gateway
       /\ Chained(kept) => Chained(pruned)
       /\ pruned.docs = <<>> => kept.docs = <<>> /\ kept.last = young
  BY <1>6, <1>9, WithEntriesIs
<1> HIDE DEF pruned
<1>12. all \in Rows /\ \A s \in Sid : all[s] = S!PeerRow(pruned, s)
  BY <1>11, RowsAre
<1>13. \A s \in Sid : all[s] # Nothing => all[s].frozen = S!Duplicated(pruned, s)
  BY <1>11, <1>12, RowIs
<1> HIDE DEF all
<1>14. live \in [Sid -> {Nothing, "told", "untold"}]
  BY DEF S!LiveNow
<1>15. frozen \in [Sid -> BOOLEAN]
  BY <1>11, <1>12 DEF Memory, Rows, Row
<1>16. \A s \in Sid : all[s] # Nothing => frozen[s] = all[s].frozen
  OBVIOUS
<1>17. pruned.sent \in Rows
  BY <1>11 DEF Memory
<1>18. S!Told(pruned.sent, all, S!Diff(pruned.sent, all)) = all
  BY <1>12, <1>17, ToldIsRows
<1>19. live = S!LiveNow(pruned)
  OBVIOUS
<1> HIDE DEF live, frozen, c
<1>20. c = [pruned EXCEPT !.live = live, !.frozen = frozen, !.sent = all]
  BY <1>1, <1>18
<1>21. /\ c \in Memory /\ c.live = live /\ c.frozen = frozen /\ c.sent = all
       /\ c.own = pruned.own /\ c.conns = pruned.conns /\ c.pids = pruned.pids
       /\ c.activity = pruned.activity /\ c.gateway = pruned.gateway
       /\ c.last = pruned.last /\ c.docs = pruned.docs /\ c.stated = pruned.stated
  BY <1>11, <1>12, <1>14, <1>15, <1>20 DEF Memory
<1>22. Alike(pruned, c) /\ c.activity = pruned.activity /\ c.gateway = pruned.gateway
  BY <1>21 DEF Alike
<1>23. \A s \in Sid : /\ S!Live(c, s) = S!Live(pruned, s)
                      /\ S!Duplicated(c, s) = S!Duplicated(pruned, s)
                      /\ S!PeerRow(c, s) = S!PeerRow(pruned, s)
  BY <1>22, AlikeRows
<1>24. \A s \in Sid : S!Live(c, s) = S!Live(r, s)
  BY <1>11, <1>23 DEF S!Live, S!Present
<1>25. SaysAll(c)
  <2>1. \A s \in Sid : c.last[s] # Nothing => ~S!Live(c, s)
    BY <1>6, <1>7, <1>9, <1>11, <1>21, <1>24
  <2>2. S!LiveNow(c) = S!LiveNow(pruned)
    BY <1>21, <1>23 DEF S!LiveNow
  <2> QED  BY <1>19, <1>21, <2>1, <2>2 DEF SaysAll
<1>26. ShowsAll(c)
  BY <1>12, <1>13, <1>16, <1>21, <1>23 DEF ShowsAll
<1>27. Chained(r) => Chained(c)
  BY <1>5, <1>6, <1>11, <1>21 DEF Chained
<1>28. c.docs = <<>> => r.docs = <<>> /\ S!Unexpired(c.last, t) = S!Unexpired(r.last, t)
  BY <1>5, <1>6, <1>9, <1>10, <1>11, <1>21
<1>29. ASSUME NEW s \in Sid, r.live[s] # Nothing, ~S!Live(r, s)
       PROVE  c.last[s] = S!Recorded(r, s, t)
  <2>1. kept.last[s] = S!Recorded(r, s, t)
    BY <1>5, <1>3, <1>6, <1>7, <1>29
  <2>2. kept.last[s] # Nothing /\ kept.last[s].seen = t
    BY <2>1, RecordedIs DEF Apart
  <2> QED  BY <1>9, <1>11, <1>21, <2>1, <2>2
<1> QED  BY <1>11, <1>21, <1>25, <1>26, <1>27, <1>28, <1>29 DEF c

-----------------------------------------------------------------------------
(* The parts of the inductive invariant.                                   *)

Greeter ==
  [at : {"anonymous", "reading", "greeted"}, sid : Sid \cup {Nothing},
   pid : Pid \cup {Nothing}, open : BOOLEAN]

(* Who is named by a greeting is known, and who has greeted is there.      *)
ConnsAgree ==
  /\ conn \in [Conn -> Greeter]
  /\ \A c \in Conn : conn[c].at # "anonymous" => conn[c].sid \in Sid
  /\ \A c \in Conn : conn[c].at = "greeted" => conn[c].open

Held(s) == {c \in Conn : conn[c].at = "greeted" /\ conn[c].sid = s}

HeldBy(s, p) == {c \in Held(s) : conn[c].pid = p}

Counted ==
  \A s \in Sid :
    /\ mem.conns[s] = Cardinality(Held(s))
    /\ \A p \in Pid : mem.pids[s][p] = Cardinality(HeldBy(s, p))

(* What was sent last is the list as it is, but for the stamps.            *)
Shown(r) ==
  \A s \in Sid :
    LET row == S!PeerRow(r, s)
        held == r.sent[s]
    IN  IF row = Nothing \/ held = Nothing THEN row = held
        ELSE /\ [row EXCEPT !.activity = 0] = [held EXCEPT !.activity = 0]
             /\ r.frozen[s] = held.frozen

(* Whoever is subscribed holds what was sent last.                         *)
SubsAgree ==
  /\ sub \in [Sub -> [in : {"out", "opening", "in"}, rows : Rows]]
  /\ \A u \in Sub : sub[u].in = "in" => sub[u].rows = mem.sent /\ Shown(mem)

ListTypes ==
  /\ mem \in Memory /\ file \in S!Entries
  /\ now \in 0..MaxTime /\ crashes \in Nat /\ failed \in BOOLEAN

ListHolds ==
  /\ ListTypes
  /\ Chained(mem)
  /\ SaysAll(mem)
  /\ ConnsAgree
  /\ Counted
  /\ SubsAgree
  /\ S!FileFollows

-----------------------------------------------------------------------------
LEMMA ShowsAllIsShown == ASSUME Apart, NEW r \in Memory, ShowsAll(r) PROVE Shown(r)
<1>1. \A s \in Sid : /\ r.sent[s] = S!PeerRow(r, s)
                     /\ r.sent[s] # Nothing => r.frozen[s] = r.sent[s].frozen
  BY RowIs DEF ShowsAll
<1> QED  BY <1>1 DEF Shown

LEMMA StatedIs ==
  ASSUME SubsAgree, NEW new \in Rows, mem.sent \in Rows,
         sub' = S!Stated(sub, mem.sent, new)
  PROVE  /\ sub' \in [Sub -> [in : {"out", "opening", "in"}, rows : Rows]]
         /\ \A u \in Sub : sub'[u].in = sub[u].in
         /\ \A u \in Sub : sub'[u].in = "in" => sub'[u].rows = new
<1>1. ASSUME NEW u \in Sub, sub[u].in = "in"
      PROVE  sub'[u] = [sub[u] EXCEPT !.rows = new]
  BY <1>1, ToldIsRows DEF S!Stated, SubsAgree
<1>2. ASSUME NEW u \in Sub, sub[u].in # "in"
      PROVE  sub'[u] = sub[u]
  BY <1>2 DEF S!Stated
<1>3. ASSUME NEW u \in Sub
      PROVE  /\ sub'[u] \in [in : {"out", "opening", "in"}, rows : Rows]
             /\ sub'[u].in = sub[u].in
             /\ sub'[u].in = "in" => sub'[u].rows = new
  <2>1. sub[u] \in [in : {"out", "opening", "in"}, rows : Rows]
    BY DEF SubsAgree
  <2>2. CASE sub[u].in = "in"
    BY <1>1, <2>1, <2>2
  <2>3. CASE sub[u].in # "in"
    BY <1>2, <2>1, <2>3
  <2> QED  BY <2>2, <2>3
<1>4. sub' = [u \in Sub |-> sub'[u]]
  BY DEF S!Stated
<1> QED  BY <1>3, <1>4

(* A step that ends in a list said whole, to whoever is subscribed.        *)
LEMMA SaidHolds ==
  ASSUME Apart, ListHolds, NEW r \in Memory, Chained(r), SaysAll(r), ShowsAll(r),
         r.docs = <<>> => mem.docs = <<>> /\ S!Unexpired(r.last, now) = S!Unexpired(mem.last, now),
         mem' = r, sub' \in [Sub -> [in : {"out", "opening", "in"}, rows : Rows]],
         \A u \in Sub : sub'[u].in = "in" => sub'[u].rows = r.sent,
         UNCHANGED <<file, now, crashes, failed>>, ConnsAgree', Counted'
  PROVE  ListHolds'
<1>1. Shown(r)
  BY ShowsAllIsShown
<1>2. SubsAgree'
  BY <1>1 DEF SubsAgree
<1>3. S!FileFollows'
  BY DEF S!FileFollows, ListHolds
<1>4. ListTypes' /\ Chained(mem)' /\ SaysAll(mem)'
  BY DEF ListHolds, ListTypes, Chained, SaysAll
<1> QED  BY <1>2, <1>3, <1>4 DEF ListHolds

LEMMA StepHolds ==
  ASSUME Apart, ListHolds, NEW r \in Memory, Chained(r), SaysAll(r), ShowsAll(r),
         r.docs = <<>> => mem.docs = <<>> /\ S!Unexpired(r.last, now) = S!Unexpired(mem.last, now),
         S!Step(r), UNCHANGED <<file, now, crashes, failed>>, ConnsAgree', Counted'
  PROVE  ListHolds'
<1>1. mem' = r /\ sub' = S!Stated(sub, mem.sent, r.sent)
  BY DEF S!Step
<1>2. r.sent \in Rows /\ mem.sent \in Rows
  BY DEF ListHolds, ListTypes, Memory
<1>3. /\ sub' \in [Sub -> [in : {"out", "opening", "in"}, rows : Rows]]
      /\ \A u \in Sub : sub'[u].in = "in" => sub'[u].rows = r.sent
  BY <1>1, <1>2, StatedIs DEF ListHolds
<1> QED  BY <1>1, <1>3, SaidHolds

(* A greeting counts one connection more, and nobody goes for it.          *)
OneMore(r, w, s, p) ==
  /\ w \in Memory /\ w.own = r.own
  /\ w.conns = [r.conns EXCEPT ![s] = @ + 1]
  /\ \A x \in Sid, q \in Pid :
       w.pids[x][q] = IF x = s /\ q = p THEN r.pids[x][q] + 1 ELSE r.pids[x][q]
  /\ Chained(r) => Chained(w)
  /\ w.docs = <<>> => r.docs = <<>> /\ S!Unexpired(w.last, now) = S!Unexpired(r.last, now)
  /\ SaysAll(w) /\ ShowsAll(w)

LEMMA RegisterIs ==
  ASSUME Apart, now \in 0..MaxTime, NEW r \in Memory, NEW s \in Sid,
         NEW p \in Pid \cup {Nothing}, NEW words \in BOOLEAN
  PROVE  OneMore(r, S!Register(r, s, p, words), s, p)
<1> DEFINE more == [q \in Pid |-> IF q = p THEN r.pids[s][q] + 1 ELSE r.pids[s][q]]
           d == [r EXCEPT !.conns[s] = @ + 1, !.pids[s] = more,
                          !.stated[s] = @ \/ words, !.activity[s] = 0]
           e == [r.last EXCEPT ![s] = Nothing]
           said == r.stated[s] \/ words
           in == S!WithEntries(d, e)
           w == S!Register(r, s, p, words)
<1>1. w = S!Changed(in, now)
  BY DEF S!Register
<1>2. /\ r.conns \in [Sid -> Nat] /\ r.pids \in [Sid -> [Pid -> Nat]]
      /\ r.stated \in [Sid -> BOOLEAN] /\ r.activity \in [Sid -> {0, 1}] /\ r.last \in S!Entries
  BY DEF Memory
<1>3. more \in [Pid -> Nat] /\ said \in BOOLEAN
  BY <1>2
<1>4. \A q \in Pid : more[q] = IF q = p THEN r.pids[s][q] + 1 ELSE r.pids[s][q]
  OBVIOUS
<1>5. d = [r EXCEPT !.conns = [r.conns EXCEPT ![s] = @ + 1], !.pids = [r.pids EXCEPT ![s] = more],
                    !.stated = [r.stated EXCEPT ![s] = said],
                    !.activity = [r.activity EXCEPT ![s] = 0]]
  OBVIOUS
<1> HIDE DEF more, d, said
<1>6. /\ [r.conns EXCEPT ![s] = @ + 1] \in [Sid -> Nat]
      /\ [r.pids EXCEPT ![s] = more] \in [Sid -> [Pid -> Nat]]
      /\ [r.stated EXCEPT ![s] = said] \in [Sid -> BOOLEAN]
      /\ [r.activity EXCEPT ![s] = 0] \in [Sid -> {0, 1}]
  BY <1>2, <1>3
<1>7. /\ d \in Memory /\ d.own = r.own /\ d.last = r.last /\ d.docs = r.docs
      /\ d.conns = [r.conns EXCEPT ![s] = @ + 1] /\ d.pids = [r.pids EXCEPT ![s] = more]
  BY <1>5, <1>6 DEF Memory
<1>8. e \in S!Entries
  BY <1>2 DEF S!Entries
<1> HIDE DEF e, in, w
<1>9. /\ in \in Memory /\ in.own = d.own /\ in.conns = d.conns /\ in.pids = d.pids
      /\ Chained(d) => Chained(in)
      /\ in.docs = <<>> => d.docs = <<>> /\ d.last = in.last
  BY <1>7, <1>8, WithEntriesIs DEF in
<1>10. /\ w \in Memory /\ w.own = in.own /\ w.conns = in.conns /\ w.pids = in.pids
       /\ Chained(in) => Chained(w)
       /\ w.docs = <<>> => in.docs = <<>> /\ S!Unexpired(w.last, now) = S!Unexpired(in.last, now)
       /\ SaysAll(w) /\ ShowsAll(w)
  BY <1>1, <1>9, ChangedIs
<1>11. Chained(r) => Chained(d)
  BY <1>7 DEF Chained
<1>12. \A x \in Sid, q \in Pid :
         w.pids[x][q] = IF x = s /\ q = p THEN r.pids[x][q] + 1 ELSE r.pids[x][q]
  BY <1>2, <1>4, <1>7, <1>9, <1>10
<1> QED  BY <1>7, <1>9, <1>10, <1>11, <1>12 DEF w, OneMore

(* Who goes is on the list with what it had said.                          *)
LEMMA DepartureIs ==
  ASSUME Apart, now \in 0..MaxTime, NEW old \in Memory, SaysAll(old), NEW r \in Memory,
         r.live = old.live, r.stated = old.stated, r.stopping = old.stopping, r.last = old.last,
         NEW x \in Sid, S!Live(old, x), ~S!Live(r, x)
  PROVE  S!Changed(r, now).last[x] =
           [words |-> old.stated[x], stopped |-> old.stopping[x], seen |-> now]
<1>1. old.stated[x] \in BOOLEAN /\ old.stopping[x] \in BOOLEAN
  BY DEF Memory
<1>2. r.live[x] = IF old.stated[x] THEN "told" ELSE "untold"
  BY DEF SaysAll, S!LiveNow
<1>3. r.live[x] # Nothing /\ (r.live[x] = "told") = old.stated[x]
  BY <1>1, <1>2 DEF Apart
<1>4. r.last[x] = Nothing
  BY DEF SaysAll
<1>5. (r.stopping[x] \/ (r.last[x] # Nothing /\ r.last[x].stopped)) = old.stopping[x]
  BY <1>1, <1>4
<1>6. S!Recorded(r, x, now) = [words |-> old.stated[x], stopped |-> old.stopping[x], seen |-> now]
  BY <1>3, <1>5 DEF S!Recorded
<1> QED  BY <1>3, <1>6, ChangedIs

(* A connection that goes is counted no more, and the last one takes with  *)
(* it whatever runs its session was said to have.                          *)
OneLess(r, w, s, p) ==
  /\ w \in Memory /\ w.own = r.own
  /\ w.conns = [r.conns EXCEPT ![s] = @ - 1]
  /\ \A x \in Sid, q \in Pid :
       w.pids[x][q] = IF x # s THEN r.pids[x][q]
                      ELSE IF r.conns[s] = 1 THEN 0
                      ELSE IF q = p /\ r.pids[s][q] > 0 THEN r.pids[s][q] - 1
                      ELSE r.pids[s][q]
  /\ Chained(r) => Chained(w)
  /\ w.docs = <<>> => r.docs = <<>> /\ S!Unexpired(w.last, now) = S!Unexpired(r.last, now)
  /\ SaysAll(w) /\ ShowsAll(w)
  /\ SaysAll(r) => \A x \in Sid : S!Live(r, x) /\ ~S!Live(w, x) =>
       w.last[x] = [words |-> r.stated[x], stopped |-> r.stopping[x], seen |-> now]

LEMMA ReleaseIs ==
  ASSUME Apart, now \in 0..MaxTime, NEW r \in Memory, NEW s \in Sid,
         NEW p \in Pid \cup {Nothing}, r.conns[s] # 0
  PROVE  OneLess(r, S!Release(r, s, p), s, p)
<1> DEFINE less == [q \in Pid |-> IF r.conns[s] = 1 THEN 0
                                  ELSE IF q = p /\ r.pids[s][q] > 0 THEN r.pids[s][q] - 1
                                  ELSE r.pids[s][q]]
           stamp == IF r.conns[s] = 1 THEN 0 ELSE r.activity[s]
           d == [r EXCEPT !.conns[s] = @ - 1,
                          !.pids[s] = [q \in Pid |->
                             IF r.conns[s] = 1 THEN 0
                             ELSE IF q = p /\ @[q] > 0 THEN @[q] - 1 ELSE @[q]],
                          !.activity[s] = IF r.conns[s] = 1 THEN 0 ELSE @]
           w == S!Release(r, s, p)
<1>1. w = S!Changed(d, now)
  BY DEF S!Release
<1>2. /\ r.conns \in [Sid -> Nat] /\ r.pids \in [Sid -> [Pid -> Nat]]
      /\ r.activity \in [Sid -> {0, 1}]
  BY DEF Memory
<1>3. less \in [Pid -> Nat] /\ stamp \in {0, 1}
  BY <1>2
<1>4. \A q \in Pid : less[q] = IF r.conns[s] = 1 THEN 0
                               ELSE IF q = p /\ r.pids[s][q] > 0 THEN r.pids[s][q] - 1
                               ELSE r.pids[s][q]
  OBVIOUS
<1>5. d = [r EXCEPT !.conns = [r.conns EXCEPT ![s] = @ - 1], !.pids = [r.pids EXCEPT ![s] = less],
                    !.activity = [r.activity EXCEPT ![s] = stamp]]
  OBVIOUS
<1> HIDE DEF less, d, stamp, w
<1>6. /\ [r.conns EXCEPT ![s] = @ - 1] \in [Sid -> Nat]
      /\ [r.pids EXCEPT ![s] = less] \in [Sid -> [Pid -> Nat]]
      /\ [r.activity EXCEPT ![s] = stamp] \in [Sid -> {0, 1}]
  BY <1>2, <1>3
<1>7. /\ d \in Memory /\ d.own = r.own /\ d.last = r.last /\ d.docs = r.docs
      /\ d.conns = [r.conns EXCEPT ![s] = @ - 1] /\ d.pids = [r.pids EXCEPT ![s] = less]
      /\ d.live = r.live /\ d.stated = r.stated /\ d.stopping = r.stopping
  BY <1>5, <1>6 DEF Memory
<1>8. /\ w \in Memory /\ w.own = d.own /\ w.conns = d.conns /\ w.pids = d.pids
      /\ Chained(d) => Chained(w)
      /\ w.docs = <<>> => d.docs = <<>> /\ S!Unexpired(w.last, now) = S!Unexpired(d.last, now)
      /\ SaysAll(w) /\ ShowsAll(w)
  BY <1>1, <1>7, ChangedIs
<1>9. Chained(r) => Chained(d)
  BY <1>7 DEF Chained
<1>10. \A x \in Sid, q \in Pid :
         w.pids[x][q] = IF x # s THEN r.pids[x][q]
                        ELSE IF r.conns[s] = 1 THEN 0
                        ELSE IF q = p /\ r.pids[s][q] > 0 THEN r.pids[s][q] - 1
                        ELSE r.pids[s][q]
  BY <1>2, <1>4, <1>7, <1>8
<1>11. \A x \in Sid : S!Live(w, x) = S!Live(d, x)
  BY <1>8 DEF S!Live, S!Present
<1>12. ASSUME SaysAll(r), NEW x \in Sid, S!Live(r, x), ~S!Live(w, x)
       PROVE  w.last[x] = [words |-> r.stated[x], stopped |-> r.stopping[x], seen |-> now]
  BY <1>1, <1>7, <1>11, <1>12, DepartureIs
<1> QED  BY <1>7, <1>8, <1>9, <1>10, <1>12 DEF w, OneLess

-----------------------------------------------------------------------------
(* Counting the connections.                                               *)
LEMMA CountedIs == Counted => S!ConnectionsCounted
BY SameCount DEF S!ConnectionsCounted, Counted, Held, HeldBy

LEMMA HeldIsFinite ==
  ASSUME Apart
  PROVE  \A s, p : IsFiniteSet(Held(s)) /\ IsFiniteSet(HeldBy(s, p))
<1> SUFFICES ASSUME NEW s, NEW p PROVE IsFiniteSet(Held(s)) /\ IsFiniteSet(HeldBy(s, p))
  OBVIOUS
<1>1. Held(s) \in SUBSET Conn /\ HeldBy(s, p) \in SUBSET Conn
  BY DEF Held, HeldBy
<1> QED  BY <1>1, FS_Subset DEF Apart

LEMMA NobodyCounted ==
  ASSUME Counted, \A x \in Sid : mem'.conns[x] = mem.conns[x],
         \A x \in Sid, q \in Pid : mem'.pids[x][q] = mem.pids[x][q],
         \A c \in Conn : (conn[c].at = "greeted" \/ conn'[c].at = "greeted") => conn'[c] = conn[c]
  PROVE  Counted'
<1>1. \A x \in Sid : Held(x)' = Held(x)
  BY DEF Held
<1>2. \A x \in Sid, q \in Pid : HeldBy(x, q)' = HeldBy(x, q)
  BY DEF Held, HeldBy
<1> QED  BY <1>1, <1>2 DEF Counted

LEMMA NobodyHeld ==
  ASSUME Apart, Counted, NEW s \in Sid, mem.conns[s] = 0
  PROVE  \A q \in Pid : mem.pids[s][q] = 0
<1>1. IsFiniteSet(Held(s)) /\ Cardinality(Held(s)) = 0
  BY HeldIsFinite DEF Counted
<1>2. Held(s) = {}
  BY <1>1, FS_EmptySet
<1>3. \A q \in Pid : HeldBy(s, q) = {}
  BY <1>2 DEF HeldBy
<1> QED  BY <1>3, FS_EmptySet DEF Counted

LEMMA OneMoreCounted ==
  ASSUME Apart, Counted, NEW c \in Conn, NEW s \in Sid, NEW p \in Pid \cup {Nothing},
         mem \in Memory, conn[c].at # "greeted",
         conn'[c].at = "greeted" /\ conn'[c].sid = s /\ conn'[c].pid = p,
         \A d \in Conn : d # c => conn'[d] = conn[d],
         mem'.conns = [mem.conns EXCEPT ![s] = @ + 1],
         \A x \in Sid, q \in Pid :
           mem'.pids[x][q] = IF x = s /\ q = p THEN mem.pids[x][q] + 1 ELSE mem.pids[x][q]
  PROVE  Counted'
<1>1. Held(s)' = Held(s) \cup {c} /\ c \notin Held(s)
  BY DEF Held
<1>2. \A x \in Sid : x # s => Held(x)' = Held(x) /\ \A q \in Pid : HeldBy(x, q)' = HeldBy(x, q)
  BY DEF Held, HeldBy
<1>3. \A q \in Pid : q # p => HeldBy(s, q)' = HeldBy(s, q)
  BY <1>1 DEF HeldBy, Held
<1>4. p \in Pid => HeldBy(s, p)' = HeldBy(s, p) \cup {c} /\ c \notin HeldBy(s, p)
  BY <1>1 DEF HeldBy, Held
<1>5. /\ Cardinality(Held(s)') = Cardinality(Held(s)) + 1
      /\ p \in Pid => Cardinality(HeldBy(s, p)') = Cardinality(HeldBy(s, p)) + 1
  <2>1. IsFiniteSet(Held(s)) /\ IsFiniteSet(HeldBy(s, p))
    BY HeldIsFinite
  <2>2. Cardinality(Held(s) \cup {c}) = Cardinality(Held(s)) + 1
    BY <1>1, <2>1, FS_AddElement
  <2>3. p \in Pid => Cardinality(HeldBy(s, p) \cup {c}) = Cardinality(HeldBy(s, p)) + 1
    BY <1>4, <2>1, FS_AddElement
  <2> QED  BY <1>1, <1>4, <2>2, <2>3
<1>6. mem.conns \in [Sid -> Nat]
  BY DEF Memory
<1> QED  BY <1>2, <1>3, <1>5, <1>6 DEF Counted

LEMMA OneLessCounted ==
  ASSUME Apart, Counted, NEW c \in Conn, NEW s \in Sid, NEW p \in Pid \cup {Nothing},
         mem \in Memory,
         conn[c].at = "greeted" /\ conn[c].sid = s /\ conn[c].pid = p, conn'[c].at # "greeted",
         \A d \in Conn : d # c => conn'[d] = conn[d],
         mem'.conns = [mem.conns EXCEPT ![s] = @ - 1],
         \A x \in Sid, q \in Pid :
           mem'.pids[x][q] = IF x # s THEN mem.pids[x][q]
                             ELSE IF mem.conns[s] = 1 THEN 0
                             ELSE IF q = p /\ mem.pids[s][q] > 0 THEN mem.pids[s][q] - 1
                             ELSE mem.pids[s][q]
  PROVE  Counted'
<1>1. Held(s)' = Held(s) \ {c} /\ c \in Held(s)
  BY DEF Held
<1>2. \A x \in Sid : x # s => Held(x)' = Held(x) /\ \A q \in Pid : HeldBy(x, q)' = HeldBy(x, q)
  BY DEF Held, HeldBy
<1>3. \A q \in Pid : q # p => HeldBy(s, q)' = HeldBy(s, q)
  BY <1>1 DEF HeldBy, Held
<1>4. p \in Pid => HeldBy(s, p)' = HeldBy(s, p) \ {c} /\ c \in HeldBy(s, p)
  BY <1>1 DEF HeldBy, Held
<1>5. /\ Cardinality(Held(s)') = Cardinality(Held(s)) - 1
      /\ p \in Pid => Cardinality(HeldBy(s, p)') = Cardinality(HeldBy(s, p)) - 1
  BY <1>1, <1>4, HeldIsFinite, FS_RemoveElement
<1>6. mem.conns \in [Sid -> Nat] /\ mem.pids \in [Sid -> [Pid -> Nat]]
  BY DEF Memory
<1>7. ASSUME mem.conns[s] = 1
      PROVE  \A q \in Pid : Cardinality(HeldBy(s, q)') = 0
  <2>1. Held(s) = {c}
    BY <1>1, <1>7, HeldIsFinite, FS_Singleton DEF Counted
  <2>2. Held(s)' = {}
    BY <1>1, <2>1
  <2>3. \A q \in Pid : HeldBy(s, q)' = {}
    BY <2>2 DEF HeldBy
  <2> QED  BY <2>3, FS_EmptySet
<1>8. p \in Pid => mem.pids[s][p] > 0
  <2>1. p \in Pid => Cardinality(HeldBy(s, p)) \in Nat /\ Cardinality(HeldBy(s, p)) # 0
    BY <1>4, HeldIsFinite, FS_CardinalityType, FS_EmptySet
  <2> QED  BY <2>1 DEF Counted
<1>9. \A q \in Pid : mem'.pids[s][q] = Cardinality(HeldBy(s, q)')
  <2> SUFFICES ASSUME NEW q \in Pid PROVE mem'.pids[s][q] = Cardinality(HeldBy(s, q)')
    OBVIOUS
  <2>1. CASE mem.conns[s] = 1
    BY <1>7, <2>1
  <2>2. CASE mem.conns[s] # 1 /\ q = p
    BY <1>5, <1>8, <2>2 DEF Counted
  <2>3. CASE mem.conns[s] # 1 /\ q # p
    BY <1>3, <2>3 DEF Counted
  <2> QED  BY <2>1, <2>2, <2>3
<1> QED  BY <1>2, <1>5, <1>6, <1>9 DEF Counted

-----------------------------------------------------------------------------
(* The stamp of the connections is no part of what rows are compared by.   *)
LEMMA Restamped ==
  ASSUME NEW a \in Row, NEW b \in Row, a.at = b.at, a.words = b.words, a.stopped = b.stopped,
         a.runs = b.runs, a.gateway = b.gateway, a.frozen = b.frozen
  PROVE  [a EXCEPT !.activity = 0] = [b EXCEPT !.activity = 0]
BY DEF Row

LEMMA StampIsUnsaid ==
  ASSUME Apart, NEW r \in Memory, NEW w \in Memory, Alike(r, w), NEW s \in Sid,
         w.gateway[s] = r.gateway[s]
  PROVE  /\ S!PeerRow(w, s) = Nothing <=> S!PeerRow(r, s) = Nothing
         /\ [S!PeerRow(w, s) EXCEPT !.activity = 0] = [S!PeerRow(r, s) EXCEPT !.activity = 0]
<1> DEFINE row(x, at, words, stopped, active) ==
      [at |-> at, words |-> words, stopped |-> stopped, activity |-> active,
       runs |-> S!RunsOf(x, s), gateway |-> x.gateway[s], frozen |-> S!Duplicated(x, s)]
<1>1. /\ w.conns = r.conns /\ w.stated = r.stated /\ w.last = r.last
      /\ S!Present(w, s) = S!Present(r, s) /\ S!Live(w, s) = S!Live(r, s)
      /\ S!RunsOf(w, s) = S!RunsOf(r, s) /\ S!Duplicated(w, s) = S!Duplicated(r, s)
  BY AlikeRows DEF Alike, S!Present
<1>2. S!PeerRow(w, s) = Nothing <=> S!PeerRow(r, s) = Nothing
  BY <1>1, RowIs
<1>3. CASE r.conns[s] > 0
  <2>1. /\ S!PeerRow(r, s) = row(r, "connected", r.stated[s], FALSE, r.activity[s])
        /\ S!PeerRow(w, s) = row(w, "connected", w.stated[s], FALSE, w.activity[s])
    BY <1>1, <1>3 DEF S!PeerRow
  <2>2. S!PeerRow(r, s) \in Row /\ S!PeerRow(w, s) \in Row
    BY <1>1, <1>3, RowIs DEF S!Live
  <2>3. /\ S!PeerRow(r, s).at = S!PeerRow(w, s).at
        /\ S!PeerRow(r, s).words = S!PeerRow(w, s).words
        /\ S!PeerRow(r, s).stopped = S!PeerRow(w, s).stopped
        /\ S!PeerRow(r, s).runs = S!PeerRow(w, s).runs
        /\ S!PeerRow(r, s).gateway = S!PeerRow(w, s).gateway
        /\ S!PeerRow(r, s).frozen = S!PeerRow(w, s).frozen
    BY <1>1, <2>1
  <2>4. [S!PeerRow(r, s) EXCEPT !.activity = 0] = [S!PeerRow(w, s) EXCEPT !.activity = 0]
    BY <2>2, <2>3, Restamped
  <2> QED  BY <1>2, <2>4
<1>4. CASE ~(r.conns[s] > 0)
  <2>1. S!PeerRow(w, s) = S!PeerRow(r, s)
    BY <1>1, <1>4 DEF S!PeerRow
  <2> QED  BY <2>1
<1> QED  BY <1>2, <1>3, <1>4

-----------------------------------------------------------------------------
(* The steps that no list comes of.                                        *)
LEMMA ConnectHolds ==
  ASSUME Apart, ListHolds, NEW c \in Conn, S!Connect(c)
  PROVE  ListHolds' /\ S!Records
<1> DEFINE g == [S!NoOne EXCEPT !.open = TRUE]
<1>1. conn' = [conn EXCEPT ![c] = g] /\ UNCHANGED <<mem, sub, file, now, crashes, failed>>
  BY DEF S!Connect
<1>2. conn \in [Conn -> Greeter] /\ conn[c].at # "greeted"
  BY DEF S!Connect, ListHolds, ConnsAgree
<1>3. /\ g \in Greeter /\ g.at = "anonymous" /\ g.open
  BY DEF Greeter, S!NoOne
<1> HIDE DEF g
<1>4. conn' \in [Conn -> Greeter] /\ conn'[c] = g /\ \A d \in Conn : d # c => conn'[d] = conn[d]
  BY <1>1, <1>2, <1>3
<1>5. ConnsAgree'
  BY <1>3, <1>4 DEF ConnsAgree, ListHolds
<1>6. Counted'
  BY <1>1, <1>2, <1>3, <1>4, NobodyCounted DEF ListHolds
<1>7. S!Records
  BY <1>1 DEF S!Records
<1> QED  BY <1>1, <1>5, <1>6, <1>7 DEF ListHolds, ListTypes, SubsAgree, S!FileFollows

LEMMA HelloHolds ==
  ASSUME Apart, ListHolds, NEW c \in Conn, NEW s \in Sid, NEW p \in Pid \cup {Nothing},
         S!HelloSession(c, s, p)
  PROVE  ListHolds' /\ S!Records
<1> DEFINE g == [at |-> "reading", sid |-> s, pid |-> p, open |-> TRUE]
<1>1. conn' = [conn EXCEPT ![c] = g] /\ UNCHANGED <<mem, sub, file, now, crashes, failed>>
  BY DEF S!HelloSession
<1>2. conn \in [Conn -> Greeter] /\ conn[c].at # "greeted"
  BY DEF S!HelloSession, ListHolds, ConnsAgree
<1>3. g \in Greeter /\ g.at = "reading" /\ g.sid \in Sid
  BY DEF Greeter
<1> HIDE DEF g
<1>4. conn' \in [Conn -> Greeter] /\ conn'[c] = g /\ \A d \in Conn : d # c => conn'[d] = conn[d]
  BY <1>1, <1>2, <1>3
<1>5. ConnsAgree'
  BY <1>3, <1>4 DEF ConnsAgree, ListHolds
<1>6. Counted'
  BY <1>1, <1>2, <1>3, <1>4, NobodyCounted DEF ListHolds
<1>7. S!Records
  BY <1>1 DEF S!Records
<1> QED  BY <1>1, <1>5, <1>6, <1>7 DEF ListHolds, ListTypes, SubsAgree, S!FileFollows

LEMMA TouchHolds ==
  ASSUME Apart, ListHolds, NEW c \in Conn, S!Touch(c)
  PROVE  ListHolds' /\ S!Records
<1> DEFINE s == conn[c].sid
           stamps == [mem.activity EXCEPT ![s] = 1]
<1>1. mem' = [mem EXCEPT !.activity = stamps]
      /\ UNCHANGED <<conn, sub, file, now, crashes, failed>>
  BY DEF S!Touch
<1>2. mem \in Memory
  BY DEF ListHolds, ListTypes
<1>3. stamps \in [Sid -> {0, 1}]
  BY <1>2 DEF Memory
<1> HIDE DEF s, stamps
<1>4. /\ mem' \in Memory /\ Alike(mem, mem')
      /\ mem'.gateway = mem.gateway /\ mem'.sent = mem.sent /\ mem'.frozen = mem.frozen
      /\ mem'.docs = mem.docs /\ mem'.live = mem.live
  BY <1>1, <1>2, <1>3 DEF Memory, Alike
<1>5. \A x \in Sid : S!Live(mem', x) = S!Live(mem, x)
  BY <1>4, AlikeRows
<1>6. SaysAll(mem)'
  BY <1>4, <1>5 DEF SaysAll, S!LiveNow, Alike, ListHolds
<1>7. Shown(mem) => Shown(mem')
  <2>1. \A x \in Sid :
          /\ S!PeerRow(mem', x) = Nothing <=> S!PeerRow(mem, x) = Nothing
          /\ [S!PeerRow(mem', x) EXCEPT !.activity = 0] = [S!PeerRow(mem, x) EXCEPT !.activity = 0]
    BY <1>2, <1>4, StampIsUnsaid
  <2>2. mem'.sent = mem.sent /\ mem'.frozen = mem.frozen
    BY <1>4
  <2> QED  BY <2>1, <2>2 DEF Shown
<1>8. SubsAgree'
  BY <1>1, <1>4, <1>7 DEF SubsAgree, ListHolds
<1>9. Counted'
  BY <1>1, <1>4, NobodyCounted DEF ListHolds, Alike
<1>10. S!Records
  BY <1>5 DEF S!Records
<1> QED  BY <1>1, <1>4, <1>6, <1>8, <1>9, <1>10
          DEF ListHolds, ListTypes, S!FileFollows, Chained, ConnsAgree, Alike

LEMMA StoppingHolds ==
  ASSUME Apart, ListHolds, NEW c \in Conn, S!Stopping(c)
  PROVE  ListHolds' /\ S!Records
<1> DEFINE s == conn[c].sid
           noted == [mem.stopping EXCEPT ![s] = TRUE]
<1>1. mem' = [mem EXCEPT !.stopping = noted]
      /\ UNCHANGED <<conn, sub, file, now, crashes, failed>>
  BY DEF S!Stopping
<1>2. mem \in Memory
  BY DEF ListHolds, ListTypes
<1>3. noted \in [Sid -> BOOLEAN]
  BY <1>2 DEF Memory
<1> HIDE DEF s, noted
<1>4. /\ mem' \in Memory /\ Alike(mem, mem')
      /\ mem'.gateway = mem.gateway /\ mem'.activity = mem.activity
      /\ mem'.sent = mem.sent /\ mem'.frozen = mem.frozen
      /\ mem'.docs = mem.docs /\ mem'.live = mem.live
  BY <1>1, <1>2, <1>3 DEF Memory, Alike
<1>5. \A x \in Sid : S!Live(mem', x) = S!Live(mem, x) /\ S!PeerRow(mem', x) = S!PeerRow(mem, x)
  BY <1>4, AlikeRows
<1>6. SaysAll(mem)'
  BY <1>4, <1>5 DEF SaysAll, S!LiveNow, Alike, ListHolds
<1>7. Shown(mem) => Shown(mem')
  BY <1>4, <1>5 DEF Shown
<1>8. SubsAgree'
  BY <1>1, <1>4, <1>7 DEF SubsAgree, ListHolds
<1>9. Counted'
  BY <1>1, <1>4, NobodyCounted DEF ListHolds, Alike
<1>10. S!Records
  BY <1>5 DEF S!Records
<1> QED  BY <1>1, <1>4, <1>6, <1>8, <1>9, <1>10
          DEF ListHolds, ListTypes, S!FileFollows, Chained, ConnsAgree, Alike

LEMMA WrittenHolds ==
  ASSUME Apart, ListHolds, NEW ok \in BOOLEAN, S!Written(ok)
  PROVE  ListHolds' /\ S!Records
<1> DEFINE left == Tail(mem.docs)
<1>1. /\ mem.docs # <<>> /\ mem' = [mem EXCEPT !.docs = left]
      /\ file' = (IF ok THEN Head(mem.docs) ELSE file) /\ failed' = ~ok
      /\ UNCHANGED <<conn, sub, now, crashes>>
  BY DEF S!Written
<1>2. mem \in Memory /\ mem.docs \in Seq(S!Entries) /\ file \in S!Entries
  BY DEF ListHolds, ListTypes, Memory
<1>3. /\ left \in Seq(S!Entries) /\ Len(left) = Len(mem.docs) - 1
      /\ \A i \in 1..Len(left) : left[i] = mem.docs[i + 1]
      /\ Head(mem.docs) \in S!Entries /\ Head(mem.docs) = mem.docs[1]
  BY <1>1, <1>2
<1>4. left # <<>> => left[Len(left)] = mem.docs[Len(mem.docs)]
  <2>1. left # <<>> => Len(left) # 0
    BY <1>3, EmptySeq
  <2>2. Len(left) \in Nat /\ Len(mem.docs) \in Nat
    BY <1>2, <1>3, LenProperties
  <2> QED  BY <1>3, <2>1, <2>2
<1>5. left = <<>> => Len(mem.docs) = 1
  <2>1. left = <<>> => Len(left) = 0
    BY EmptySeq
  <2>2. Len(mem.docs) \in Nat
    BY <1>2, LenProperties
  <2> HIDE DEF left
  <2> QED  BY <1>3, <2>1, <2>2
<1> HIDE DEF left
<1>6. /\ mem' \in Memory /\ Alike(mem, mem') /\ mem'.docs = left
      /\ mem'.gateway = mem.gateway /\ mem'.activity = mem.activity
      /\ mem'.sent = mem.sent /\ mem'.frozen = mem.frozen /\ mem'.live = mem.live
  BY <1>1, <1>2, <1>3 DEF Memory, Alike
<1>7. \A x \in Sid : S!Live(mem', x) = S!Live(mem, x) /\ S!PeerRow(mem', x) = S!PeerRow(mem, x)
  BY <1>6, AlikeRows
<1>8. SaysAll(mem)'
  BY <1>6, <1>7 DEF SaysAll, S!LiveNow, Alike, ListHolds
<1>9. Shown(mem) => Shown(mem')
  BY <1>6, <1>7 DEF Shown
<1>10. SubsAgree'
  BY <1>1, <1>6, <1>9 DEF SubsAgree, ListHolds
<1>11. Counted'
  BY <1>1, <1>6, NobodyCounted DEF ListHolds, Alike
<1>12. mem.docs[Len(mem.docs)] = mem.last
  BY <1>1 DEF ListHolds, Chained
<1>13. Chained(mem)'
  BY <1>4, <1>6, <1>12 DEF Chained, Alike
<1>14. S!FileFollows'
  <2> SUFFICES ASSUME left = <<>>, ok PROVE file' = mem'.last
    BY <1>1, <1>6 DEF S!FileFollows
  <2> QED  BY <1>1, <1>3, <1>5, <1>6, <1>12 DEF Alike
<1>15. S!Records
  BY <1>7 DEF S!Records
<1>16. ListTypes'
  BY <1>1, <1>2, <1>3, <1>6 DEF ListHolds, ListTypes
<1> QED  BY <1>1, <1>8, <1>10, <1>11, <1>13, <1>14, <1>15, <1>16 DEF ListHolds, ConnsAgree

LEMMA TickHolds ==
  ASSUME Apart, ListHolds, S!Tick
  PROVE  ListHolds' /\ S!Records
<1>1. now' = now + 1 /\ now < MaxTime /\ UNCHANGED <<mem, conn, sub, file, crashes, failed>>
  BY DEF S!Tick
<1>2. now' \in 0..MaxTime /\ now \in 0..MaxTime
  BY <1>1 DEF ListHolds, ListTypes, Apart
<1>3. file \in S!Entries /\ mem.last \in S!Entries
  BY DEF ListHolds, ListTypes, Memory
<1>4. /\ S!Unexpired(file, now + 1) = S!Unexpired(S!Unexpired(file, now), now + 1)
      /\ S!Unexpired(mem.last, now + 1) = S!Unexpired(S!Unexpired(mem.last, now), now + 1)
  BY <1>1, <1>2, <1>3, UnexpiredIs
<1>5. S!FileFollows'
  BY <1>1, <1>4 DEF S!FileFollows, ListHolds
<1>6. S!Records
  BY <1>1 DEF S!Records
<1> QED  BY <1>1, <1>2, <1>5, <1>6
          DEF ListHolds, ListTypes, SubsAgree, ConnsAgree, Counted, Held, HeldBy

LEMMA SubscribersHold ==
  ASSUME Apart, ListHolds, NEW u \in Sub, S!Subscribe(u) \/ S!Unsubscribe(u)
  PROVE  ListHolds' /\ S!Records
<1>1. UNCHANGED <<mem, conn, file, now, crashes, failed>>
  BY DEF S!Subscribe, S!Unsubscribe
<1>2. S!NoEntries \in Rows
  BY DEF S!NoEntries, Rows
<1>3. \/ sub' = [sub EXCEPT ![u].in = "opening"]
      \/ sub' = [sub EXCEPT ![u] = [in |-> "out", rows |-> S!NoEntries]]
  BY DEF S!Subscribe, S!Unsubscribe
<1>4. /\ sub' \in [Sub -> [in : {"out", "opening", "in"}, rows : Rows]]
      /\ sub'[u].in # "in" /\ \A v \in Sub : v # u => sub'[v] = sub[v]
  <2>1. sub \in [Sub -> [in : {"out", "opening", "in"}, rows : Rows]]
    BY DEF ListHolds, SubsAgree
  <2>2. CASE sub' = [sub EXCEPT ![u].in = "opening"]
    BY <2>1, <2>2
  <2>3. CASE sub' = [sub EXCEPT ![u] = [in |-> "out", rows |-> S!NoEntries]]
    BY <1>2, <2>1, <2>3
  <2> QED  BY <1>3, <2>2, <2>3
<1>5. SubsAgree'
  BY <1>1, <1>4 DEF SubsAgree, ListHolds
<1>6. S!Records
  BY <1>1 DEF S!Records
<1> QED  BY <1>1, <1>5, <1>6
          DEF ListHolds, ListTypes, ConnsAgree, Counted, Held, HeldBy, S!FileFollows

LEMMA GatewayHolds ==
  ASSUME Apart, ListHolds, NEW s \in Sid, S!GatewayMoved(s)
  PROVE  ListHolds' /\ S!Records
<1> DEFINE stamps == [mem.gateway EXCEPT ![s] = TRUE]
           r == [mem EXCEPT !.gateway[s] = TRUE]
           row == S!PeerRow(r, s)
           told == [mem.sent EXCEPT ![s] = IF row = Nothing THEN @ ELSE row]
           w == [r EXCEPT !.sent[s] = IF row = Nothing THEN @ ELSE row]
<1>1. S!Step(w) /\ UNCHANGED <<conn, file, now, crashes, failed>>
  BY DEF S!GatewayMoved
<1>2. mem \in Memory
  BY DEF ListHolds, ListTypes
<1>3. r = [mem EXCEPT !.gateway = stamps] /\ stamps \in [Sid -> BOOLEAN]
      /\ \A x \in Sid : x # s => stamps[x] = mem.gateway[x]
  BY <1>2 DEF Memory
<1>4. w = [r EXCEPT !.sent = [r.sent EXCEPT ![s] = IF row = Nothing THEN @ ELSE row]]
  OBVIOUS
<1> HIDE DEF stamps, r
<1>5. /\ r \in Memory /\ Alike(mem, r) /\ r.gateway = stamps
      /\ r.activity = mem.activity /\ r.sent = mem.sent /\ r.frozen = mem.frozen
      /\ r.docs = mem.docs /\ r.live = mem.live
  BY <1>2, <1>3 DEF Memory, Alike
<1>6. w = [r EXCEPT !.sent = told]
  BY <1>4, <1>5
<1>7. row \in Row \cup {Nothing}
  BY <1>5, RowIs
<1>8. row # Nothing => row.frozen = S!Duplicated(r, s)
  BY <1>5, RowIs
<1>9. row = S!PeerRow(r, s)
  OBVIOUS
<1> HIDE DEF row
<1>10. /\ told \in Rows
       /\ \A x \in Sid : told[x] = IF x = s /\ row # Nothing THEN row ELSE mem.sent[x]
  BY <1>2, <1>7 DEF Memory, Rows
<1> HIDE DEF w, told
<1>11. /\ w \in Memory /\ Alike(mem, w) /\ Alike(r, w) /\ w.gateway = r.gateway
       /\ w.activity = r.activity /\ w.sent = told /\ w.frozen = mem.frozen
       /\ w.docs = mem.docs /\ w.live = mem.live
  BY <1>5, <1>6, <1>10 DEF Memory, Alike
<1>12. /\ \A x \in Sid : S!Live(w, x) = S!Live(mem, x)
       /\ \A x \in Sid : S!PeerRow(w, x) = S!PeerRow(r, x)
       /\ \A x \in Sid : x # s => S!PeerRow(r, x) = S!PeerRow(mem, x)
       /\ S!Duplicated(r, s) = S!Duplicated(mem, s)
  <2>1. \A x \in Sid : S!Live(w, x) = S!Live(mem, x)
    BY <1>11, AlikeRows
  <2>2. \A x \in Sid : S!PeerRow(w, x) = S!PeerRow(r, x)
    BY <1>11, AlikeRows
  <2>3. ASSUME NEW x \in Sid, x # s PROVE S!PeerRow(r, x) = S!PeerRow(mem, x)
    <3>1. r.gateway[x] = mem.gateway[x] /\ r.activity[x] = mem.activity[x]
      BY <1>3, <1>5, <2>3
    <3> QED  BY <1>5, <3>1, AlikeRows
  <2>4. S!Duplicated(r, s) = S!Duplicated(mem, s)
    BY <1>5, AlikeRows
  <2> QED  BY <2>1, <2>2, <2>3, <2>4
<1>13. S!PeerRow(mem, s) = Nothing <=> row = Nothing
  <2>1. S!Live(r, s) = S!Live(mem, s) /\ r.last = mem.last
    BY <1>5, AlikeRows DEF Alike
  <2>2. S!PeerRow(mem, s) = Nothing <=> ~S!Live(mem, s) /\ mem.last[s] = Nothing
    BY <1>2, RowIs
  <2>3. S!PeerRow(r, s) = Nothing <=> ~S!Live(r, s) /\ r.last[s] = Nothing
    BY <1>5, RowIs
  <2> QED  BY <1>9, <2>1, <2>2, <2>3
<1>14. S!PeerRow(mem, s) # Nothing => S!PeerRow(mem, s).frozen = S!Duplicated(mem, s)
  BY <1>2, RowIs
<1>15. mem' = w /\ sub' = S!Stated(sub, mem.sent, told)
  BY <1>1, <1>11 DEF S!Step
<1>16. SaysAll(mem)'
  BY <1>11, <1>12, <1>15 DEF SaysAll, S!LiveNow, Alike, ListHolds
<1>17. Shown(mem) => Shown(w)
  <2> SUFFICES ASSUME Shown(mem), NEW x \in Sid
               PROVE  LET line == S!PeerRow(w, x)
                          held == w.sent[x]
                      IN  IF line = Nothing \/ held = Nothing THEN line = held
                          ELSE /\ [line EXCEPT !.activity = 0] = [held EXCEPT !.activity = 0]
                               /\ w.frozen[x] = held.frozen
    BY DEF Shown
  <2>1. CASE x = s /\ row # Nothing
    <3>1. S!PeerRow(w, s) = row /\ w.sent[s] = row
      BY <1>9, <1>10, <1>11, <1>12, <2>1
    <3>2. S!PeerRow(mem, s) # Nothing /\ mem.sent[s] # Nothing
      BY <1>13, <2>1 DEF Shown
    <3>3. /\ [S!PeerRow(mem, s) EXCEPT !.activity = 0] = [mem.sent[s] EXCEPT !.activity = 0]
          /\ mem.frozen[s] = mem.sent[s].frozen
      BY <3>2 DEF Shown
    <3>4. S!PeerRow(mem, s) \in Row /\ mem.sent[s] \in Row
      BY <1>2, <3>2, RowIs DEF Memory, Rows
    <3>5. S!PeerRow(mem, s).frozen = mem.sent[s].frozen
      <4>1. \A l \in Row : [l EXCEPT !.activity = 0].frozen = l.frozen
        BY DEF Row
      <4> QED  BY <3>3, <3>4, <4>1
    <3>6. w.frozen[s] = row.frozen
      BY <1>8, <1>11, <1>12, <1>14, <2>1, <3>2, <3>3, <3>5
    <3> QED  BY <2>1, <3>1, <3>6
  <2>2. CASE x = s /\ row = Nothing
    <3>1. S!PeerRow(w, s) = Nothing /\ S!PeerRow(mem, s) = Nothing /\ w.sent[s] = mem.sent[s]
      BY <1>9, <1>10, <1>11, <1>12, <1>13, <2>2
    <3> QED  BY <2>2, <3>1 DEF Shown
  <2>3. CASE x # s
    <3>1. /\ S!PeerRow(w, x) = S!PeerRow(mem, x) /\ w.sent[x] = mem.sent[x]
          /\ w.frozen[x] = mem.frozen[x]
      BY <1>10, <1>11, <1>12, <2>3
    <3> QED  BY <3>1 DEF Shown
  <2> QED  BY <2>1, <2>2, <2>3
<1>18. mem.sent \in Rows
  BY <1>2 DEF Memory
<1>19. /\ sub' \in [Sub -> [in : {"out", "opening", "in"}, rows : Rows]]
       /\ \A u \in Sub : sub'[u].in = sub[u].in
       /\ \A u \in Sub : sub'[u].in = "in" => sub'[u].rows = told
  BY <1>10, <1>15, <1>18, StatedIs DEF ListHolds
<1>20. SubsAgree'
  BY <1>11, <1>15, <1>17, <1>19 DEF SubsAgree, ListHolds
<1>21. Counted'
  BY <1>1, <1>11, <1>15, NobodyCounted DEF ListHolds, Alike
<1>22. S!Records
  BY <1>12, <1>15 DEF S!Records
<1> QED  BY <1>1, <1>11, <1>15, <1>16, <1>20, <1>21, <1>22
          DEF ListHolds, ListTypes, S!FileFollows, Chained, ConnsAgree, Alike

-----------------------------------------------------------------------------
(* The steps that the whole list follows from.                             *)
LEMMA ForgetHolds ==
  ASSUME Apart, ListHolds, NEW s \in Sid, S!Forget(s)
  PROVE  ListHolds' /\ S!Records
<1> DEFINE e == [mem.last EXCEPT ![s] = Nothing]
           in == S!WithEntries(mem, e)
           r == S!Changed(in, now)
<1>1. S!Step(r) /\ UNCHANGED <<conn, file, now, crashes, failed>>
      /\ mem.last[s] # Nothing
  BY DEF S!Forget
<1>2. mem \in Memory /\ now \in 0..MaxTime /\ Chained(mem)
  BY DEF ListHolds, ListTypes
<1>3. e \in S!Entries
  BY <1>2 DEF Memory, S!Entries
<1>4. e # mem.last
  BY <1>1, <1>2, <1>3 DEF Memory, S!Entries
<1> HIDE DEF e, r
<1>5. /\ in \in Memory /\ in.own = mem.own /\ in.conns = mem.conns /\ in.pids = mem.pids
      /\ Chained(mem) => Chained(in)
      /\ in.docs = <<>> => mem.last = e
  BY <1>2, <1>3, WithEntriesIs
<1> HIDE DEF in
<1>6. /\ r \in Memory /\ r.own = in.own /\ r.conns = in.conns /\ r.pids = in.pids
      /\ Chained(in) => Chained(r)
      /\ r.docs = <<>> => in.docs = <<>>
      /\ SaysAll(r) /\ ShowsAll(r)
  BY <1>2, <1>5, ChangedIs DEF r
<1>7. mem' = r
  BY <1>1 DEF S!Step
<1>8. ConnsAgree'
  BY <1>1 DEF ListHolds, ConnsAgree
<1>9. Counted'
  BY <1>1, <1>5, <1>6, <1>7, NobodyCounted DEF ListHolds
<1>10. r.docs # <<>> /\ Chained(r)
  BY <1>2, <1>4, <1>5, <1>6
<1>11. ListHolds'
  BY <1>1, <1>6, <1>8, <1>9, <1>10, StepHolds
<1>12. \A x \in Sid : S!Live(r, x) = S!Live(mem, x)
  BY <1>5, <1>6 DEF S!Live, S!Present
<1> QED  BY <1>7, <1>11, <1>12 DEF S!Records

LEMMA FindingsAre == ASSUME Apart PROVE S!Findings \subseteq Reading
<1>1. CASE codex
  <2>1. [p \in Pid |-> Nothing] \in [Pid -> Sid \cup {Nothing}]
    OBVIOUS
  <2> QED  BY <1>1, <2>1 DEF S!Findings, Reading
<1>2. CASE ~codex
  <2>1. \A f \in [Pid -> Sid \cup {Nothing}] : {f[p] : p \in Pid} \ {Nothing} \in SUBSET Sid
    OBVIOUS
  <2> QED  BY <1>2, <2>1 DEF S!Findings, Reading
<1> QED  BY <1>1, <1>2

LEMMA ReadingHolds ==
  ASSUME Apart, ListHolds, NEW found \in S!Findings, S!ReadingLands(found)
  PROVE  ListHolds' /\ S!Records
<1> DEFINE d == [mem EXCEPT !.own = found]
           r == S!Changed(d, now)
           opened == [r EXCEPT !.sent = S!PeerRows(r)]
           views == S!Stated(sub, mem.sent, r.sent)
<1>1. /\ mem' = (IF \E u \in Sub : sub[u].in = "opening" THEN opened ELSE r)
      /\ sub' = [u \in Sub |-> IF sub[u].in = "opening"
                                THEN [in |-> "in", rows |-> opened.sent] ELSE views[u]]
      /\ UNCHANGED <<conn, file, now, crashes, failed>>
  BY DEF S!ReadingLands
<1>2. mem \in Memory /\ now \in 0..MaxTime /\ Chained(mem) /\ SaysAll(mem)
  BY DEF ListHolds, ListTypes
<1>3. found \in Reading
  BY FindingsAre
<1>4. /\ d \in Memory /\ d.own = found /\ d.conns = mem.conns /\ d.pids = mem.pids
      /\ d.last = mem.last /\ d.docs = mem.docs /\ d.live = mem.live
      /\ d.stated = mem.stated /\ d.stopping = mem.stopping
  BY <1>2, <1>3 DEF Memory
<1> HIDE DEF d
<1>5. /\ r \in Memory /\ r.own = d.own /\ r.conns = d.conns /\ r.pids = d.pids
      /\ Chained(d) => Chained(r)
      /\ r.docs = <<>> => d.docs = <<>> /\ S!Unexpired(r.last, now) = S!Unexpired(d.last, now)
      /\ SaysAll(r) /\ ShowsAll(r)
  BY <1>2, <1>4, ChangedIs
<1>6. \A x \in Sid : S!Live(r, x) = S!Live(d, x)
  BY <1>5 DEF S!Live, S!Present
<1>7. \A x \in Sid : S!Live(mem, x) /\ ~S!Live(r, x) =>
        r.last[x] = [words |-> mem.stated[x], stopped |-> mem.stopping[x], seen |-> now]
  BY <1>2, <1>4, <1>6, DepartureIs
<1> HIDE DEF r
<1>8. r.sent \in Rows /\ mem.sent \in Rows
  BY <1>2, <1>5 DEF Memory
<1>9. S!PeerRows(r) = r.sent
  BY <1>5, <1>8, RowsAre DEF ShowsAll, Rows
<1>10. opened = r
  BY <1>5, <1>9 DEF Memory
<1> HIDE DEF opened
<1>11. mem' = r
  BY <1>1, <1>10
<1>12. ASSUME NEW u \in Sub
       PROVE  /\ sub'[u] \in [in : {"out", "opening", "in"}, rows : Rows]
              /\ sub'[u].in = "in" => sub'[u].rows = r.sent
  <2>1. sub[u] \in [in : {"out", "opening", "in"}, rows : Rows]
    BY DEF ListHolds, SubsAgree
  <2>2. CASE sub[u].in = "opening"
    BY <1>1, <1>8, <1>10, <2>2
  <2>3. CASE sub[u].in = "in"
    <3>1. sub'[u] = [sub[u] EXCEPT !.rows = S!Told(@, r.sent, S!Diff(mem.sent, r.sent))]
      BY <1>1, <2>3 DEF S!Stated
    <3>2. sub[u].rows = mem.sent
      BY <2>3 DEF ListHolds, SubsAgree
    <3>3. sub'[u] = [sub[u] EXCEPT !.rows = r.sent]
      BY <1>8, <3>1, <3>2, ToldIsRows
    <3> QED  BY <1>8, <2>1, <3>3
  <2>4. CASE sub[u].in = "out"
    <3>1. sub'[u] = sub[u]
      BY <1>1, <2>4 DEF S!Stated
    <3> QED  BY <2>1, <2>4, <3>1
  <2> QED  BY <2>1, <2>2, <2>3, <2>4
<1>13. sub' = [u \in Sub |-> sub'[u]]
  BY <1>1
<1>14. sub' \in [Sub -> [in : {"out", "opening", "in"}, rows : Rows]]
  BY <1>12, <1>13
<1>15. Chained(d)
  BY <1>2, <1>4 DEF Chained
<1>16. ConnsAgree'
  BY <1>1 DEF ListHolds, ConnsAgree
<1>17. Counted'
  BY <1>1, <1>4, <1>5, <1>11, NobodyCounted DEF ListHolds
<1>18. ListHolds'
  BY <1>1, <1>4, <1>5, <1>11, <1>12, <1>14, <1>15, <1>16, <1>17, SaidHolds
<1> QED  BY <1>7, <1>11, <1>18 DEF S!Records

LEMMA GreetedHolds ==
  ASSUME Apart, ListHolds, NEW c \in Conn, NEW words \in BOOLEAN, S!Greeted(c, words)
  PROVE  ListHolds' /\ S!Records
<1> DEFINE s == conn[c].sid
           p == conn[c].pid
           in == S!Register(mem, s, p, words)
           out == S!Release(in, s, p)
<1>1. /\ conn[c].at = "reading" /\ UNCHANGED <<file, now, crashes, failed>>
      /\ IF conn[c].open
         THEN S!Step(in) /\ conn' = [conn EXCEPT ![c].at = "greeted"]
         ELSE S!Step(out) /\ conn' = [conn EXCEPT ![c] = S!NoOne]
  BY DEF S!Greeted
<1>2. /\ mem \in Memory /\ now \in 0..MaxTime /\ Chained(mem) /\ Counted
      /\ conn \in [Conn -> Greeter]
  BY DEF ListHolds, ListTypes, ConnsAgree
<1>3. s \in Sid /\ p \in Pid \cup {Nothing} /\ conn[c].open \in BOOLEAN
  BY <1>1, <1>2 DEF Greeter, ListHolds, ConnsAgree
<1>4. s = conn[c].sid /\ p = conn[c].pid
  OBVIOUS
<1>5. /\ mem.conns \in [Sid -> Nat] /\ mem.pids \in [Sid -> [Pid -> Nat]]
  BY <1>2 DEF Memory
<1> HIDE DEF s, p
<1>6. /\ in \in Memory /\ in.own = mem.own
      /\ in.conns = [mem.conns EXCEPT ![s] = @ + 1]
      /\ \A x \in Sid, q \in Pid :
           in.pids[x][q] = IF x = s /\ q = p THEN mem.pids[x][q] + 1 ELSE mem.pids[x][q]
      /\ Chained(mem) => Chained(in)
      /\ in.docs = <<>> => mem.docs = <<>> /\ S!Unexpired(in.last, now) = S!Unexpired(mem.last, now)
      /\ SaysAll(in) /\ ShowsAll(in)
  <2>1. mem \in Memory /\ now \in 0..MaxTime /\ s \in Sid /\ p \in Pid \cup {Nothing}
    BY <1>2, <1>3
  <2>2. OneMore(mem, in, s, p)
    BY <2>1, RegisterIs
  <2> HIDE DEF in
  <2> QED  BY <2>2 DEF OneMore
<1> HIDE DEF in
<1>7. CASE conn[c].open
  <2>1. S!Step(in) /\ conn' = [conn EXCEPT ![c].at = "greeted"] /\ mem' = in
    BY <1>1, <1>7 DEF S!Step
  <2>2. /\ conn' \in [Conn -> Greeter] /\ conn'[c].at = "greeted" /\ conn'[c].open
        /\ conn'[c].sid = s /\ conn'[c].pid = p
        /\ \A d \in Conn : d # c => conn'[d] = conn[d]
    BY <1>2, <1>4, <1>7, <2>1 DEF Greeter
  <2>3. ConnsAgree'
    BY <1>3, <2>2 DEF ConnsAgree, ListHolds
  <2>4. Counted'
    BY <1>1, <1>2, <1>3, <1>6, <2>1, <2>2, OneMoreCounted
  <2>5. ListHolds'
    BY <1>1, <1>2, <1>6, <2>1, <2>3, <2>4, StepHolds
  <2>6. \A x \in Sid : S!Live(mem, x) => S!Live(in, x)
    BY <1>3, <1>5, <1>6 DEF S!Live, S!Present
  <2> QED  BY <2>1, <2>5, <2>6 DEF S!Records
<1>8. CASE ~conn[c].open
  <2>1. S!Step(out) /\ conn' = [conn EXCEPT ![c] = S!NoOne] /\ mem' = out
    BY <1>1, <1>8 DEF S!Step
  <2>2. in.conns[s] # 0 /\ in.conns[s] = mem.conns[s] + 1
    BY <1>3, <1>5, <1>6
  <2>3. /\ out \in Memory /\ out.own = in.own
        /\ out.conns = [in.conns EXCEPT ![s] = @ - 1]
        /\ \A x \in Sid, q \in Pid :
             out.pids[x][q] = IF x # s THEN in.pids[x][q]
                              ELSE IF in.conns[s] = 1 THEN 0
                              ELSE IF q = p /\ in.pids[s][q] > 0 THEN in.pids[s][q] - 1
                              ELSE in.pids[s][q]
        /\ Chained(in) => Chained(out)
        /\ out.docs = <<>> => in.docs = <<>> /\ S!Unexpired(out.last, now) = S!Unexpired(in.last, now)
        /\ SaysAll(out) /\ ShowsAll(out)
    <3>1. in \in Memory /\ now \in 0..MaxTime /\ s \in Sid /\ p \in Pid \cup {Nothing}
      BY <1>2, <1>3, <1>6
    <3>2. OneLess(in, out, s, p)
      BY <2>2, <3>1, ReleaseIs
    <3> HIDE DEF out
    <3> QED  BY <3>2 DEF OneLess
  <2> HIDE DEF out
  <2>4. out.conns = mem.conns
    BY <1>3, <1>5, <1>6, <2>3
  <2>5. \A x \in Sid, q \in Pid : out.pids[x][q] = mem.pids[x][q]
    <3> SUFFICES ASSUME NEW x \in Sid, NEW q \in Pid PROVE out.pids[x][q] = mem.pids[x][q]
      OBVIOUS
    <3>1. mem.pids[x][q] \in Nat /\ mem.conns[s] \in Nat
      BY <1>3, <1>5
    <3>2. CASE x # s
      BY <1>6, <2>3, <3>2
    <3>3. CASE x = s /\ mem.conns[s] = 0
      <4>1. mem.pids[s][q] = 0
        BY <1>2, <1>3, <3>3, NobodyHeld
      <4> QED  BY <2>2, <2>3, <3>3, <4>1
    <3>4. CASE x = s /\ mem.conns[s] # 0
      <4>1. in.conns[s] # 1
        BY <2>2, <3>1, <3>4
      <4>2. in.pids[s][q] = IF q = p THEN mem.pids[s][q] + 1 ELSE mem.pids[s][q]
        BY <1>3, <1>6
      <4>3. out.pids[s][q] = IF q = p /\ in.pids[s][q] > 0 THEN in.pids[s][q] - 1
                             ELSE in.pids[s][q]
        BY <1>3, <2>3, <4>1
      <4> QED  BY <3>1, <3>4, <4>2, <4>3
    <3> QED  BY <3>2, <3>3, <3>4
  <2>6. /\ conn' \in [Conn -> Greeter] /\ conn'[c] = S!NoOne /\ S!NoOne.at = "anonymous"
        /\ \A d \in Conn : d # c => conn'[d] = conn[d]
    BY <1>2, <2>1 DEF Greeter, S!NoOne
  <2>7. ConnsAgree'
    BY <2>6 DEF ConnsAgree, ListHolds
  <2>8. Counted'
    BY <1>1, <1>2, <2>1, <2>4, <2>5, <2>6, NobodyCounted
  <2>9. ListHolds'
    BY <1>1, <1>2, <1>6, <2>1, <2>3, <2>7, <2>8, StepHolds
  <2>10. \A x \in Sid : S!Live(mem, x) => S!Live(out, x)
    BY <1>6, <2>3, <2>4 DEF S!Live, S!Present
  <2> QED  BY <2>1, <2>9, <2>10 DEF S!Records
<1> QED  BY <1>3, <1>7, <1>8

LEMMA CloseHolds ==
  ASSUME Apart, ListHolds, NEW c \in Conn, S!Close(c)
  PROVE  ListHolds' /\ S!Records
<1> DEFINE s == conn[c].sid
           p == conn[c].pid
           out == S!Release(mem, s, p)
<1>1. /\ conn[c].open /\ UNCHANGED <<file, now, crashes, failed>>
      /\ IF conn[c].at = "greeted"
         THEN S!Step(out) /\ conn' = [conn EXCEPT ![c] = S!NoOne]
         ELSE conn' = [conn EXCEPT ![c].open = FALSE] /\ UNCHANGED <<mem, sub>>
  BY DEF S!Close
<1>2. /\ mem \in Memory /\ now \in 0..MaxTime /\ Chained(mem) /\ Counted /\ SaysAll(mem)
      /\ conn \in [Conn -> Greeter]
  BY DEF ListHolds, ListTypes, ConnsAgree
<1>3. /\ mem.conns \in [Sid -> Nat] /\ mem.pids \in [Sid -> [Pid -> Nat]]
  BY <1>2 DEF Memory
<1>4. CASE conn[c].at = "greeted"
  <2>1. S!Step(out) /\ conn' = [conn EXCEPT ![c] = S!NoOne] /\ mem' = out
    BY <1>1, <1>4 DEF S!Step
  <2>2. s \in Sid /\ p \in Pid \cup {Nothing}
    BY <1>2, <1>4 DEF Greeter, ListHolds, ConnsAgree
  <2>3. s = conn[c].sid /\ p = conn[c].pid
    OBVIOUS
  <2> HIDE DEF s, p
  <2>4. mem.conns[s] # 0
    <3>1. IsFiniteSet(Held(s)) /\ c \in Held(s)
      BY <1>4, <2>3, HeldIsFinite DEF Held
    <3>2. Cardinality(Held(s)) # 0
      BY <3>1, FS_EmptySet
    <3> QED  BY <1>2, <2>2, <3>2 DEF Counted
  <2>5. /\ out \in Memory /\ out.conns = [mem.conns EXCEPT ![s] = @ - 1]
        /\ \A x \in Sid, q \in Pid :
             out.pids[x][q] = IF x # s THEN mem.pids[x][q]
                              ELSE IF mem.conns[s] = 1 THEN 0
                              ELSE IF q = p /\ mem.pids[s][q] > 0 THEN mem.pids[s][q] - 1
                              ELSE mem.pids[s][q]
        /\ Chained(mem) => Chained(out)
        /\ out.docs = <<>> => mem.docs = <<>> /\ S!Unexpired(out.last, now) = S!Unexpired(mem.last, now)
        /\ SaysAll(out) /\ ShowsAll(out)
        /\ SaysAll(mem) => \A x \in Sid : S!Live(mem, x) /\ ~S!Live(out, x) =>
             out.last[x] = [words |-> mem.stated[x], stopped |-> mem.stopping[x], seen |-> now]
    <3>1. OneLess(mem, out, s, p)
      BY <1>2, <2>2, <2>4, ReleaseIs
    <3> HIDE DEF out
    <3> QED  BY <3>1 DEF OneLess
  <2> HIDE DEF out
  <2>6. /\ conn' \in [Conn -> Greeter] /\ conn'[c] = S!NoOne /\ S!NoOne.at = "anonymous"
        /\ \A d \in Conn : d # c => conn'[d] = conn[d]
    BY <1>2, <2>1 DEF Greeter, S!NoOne
  <2>7. ConnsAgree'
    BY <2>6 DEF ConnsAgree, ListHolds
  <2>8. Counted'
    BY <1>2, <1>4, <2>1, <2>2, <2>3, <2>5, <2>6, OneLessCounted
  <2>9. ListHolds'
    BY <1>1, <1>2, <2>1, <2>5, <2>7, <2>8, StepHolds
  <2> QED  BY <1>2, <2>1, <2>5, <2>9 DEF S!Records
<1>5. CASE conn[c].at # "greeted"
  <2>1. conn' = [conn EXCEPT ![c].open = FALSE] /\ UNCHANGED <<mem, sub>>
    BY <1>1, <1>5
  <2>2. /\ conn' \in [Conn -> Greeter]
        /\ conn'[c].at = conn[c].at /\ conn'[c].sid = conn[c].sid /\ ~conn'[c].open
        /\ \A d \in Conn : d # c => conn'[d] = conn[d]
    BY <1>2, <2>1 DEF Greeter
  <2>3. ConnsAgree'
    BY <1>5, <2>2 DEF ConnsAgree, ListHolds
  <2>4. Counted'
    BY <1>2, <1>5, <2>1, <2>2, NobodyCounted
  <2>5. S!Records
    BY <2>1 DEF S!Records
  <2> QED  BY <1>1, <2>1, <2>3, <2>4, <2>5
            DEF ListHolds, ListTypes, SubsAgree, S!FileFollows
<1> QED  BY <1>4, <1>5

(* A process that starts has nobody connected, and has lost what its file  *)
(* names but its directory does not.                                       *)
LEMMA StartedIs ==
  ASSUME Apart, NEW found \in Reading, NEW entries \in S!Entries
  PROVE  LET w == S!Started(found, entries)
         IN  /\ w \in Memory /\ Chained(w) /\ SaysAll(w)
             /\ \A x \in Sid : w.conns[x] = 0 /\ \A q \in Pid : w.pids[x][q] = 0
             /\ w.docs = <<>> => w.last = entries
<1> DEFINE none == [s \in Sid |-> FALSE]
           r == [own |-> found, conns |-> [s \in Sid |-> 0],
                 pids |-> [s \in Sid |-> [p \in Pid |-> 0]], stated |-> none,
                 stopping |-> none, activity |-> [s \in Sid |-> 0], gateway |-> none,
                 live |-> S!NoEntries, last |-> entries, docs |-> <<>>,
                 sent |-> S!NoEntries, frozen |-> none]
           k == S!Reclaim(r)
           live == S!LiveNow(r)
           w == S!Started(found, entries)
<1>1. w = [k EXCEPT !.live = live]
  BY DEF S!Started
<1>2. /\ S!NoEntries \in Rows /\ S!NoEntries \in [Sid -> {Nothing, "told", "untold"}]
      /\ none \in [Sid -> BOOLEAN] /\ <<>> \in Seq(S!Entries)
      /\ [s \in Sid |-> 0] \in [Sid -> Nat] /\ [s \in Sid |-> 0] \in [Sid -> {0, 1}]
      /\ [s \in Sid |-> [p \in Pid |-> 0]] \in [Sid -> [Pid -> Nat]]
  BY DEF S!NoEntries, Rows
<1>3. r \in Memory
  BY <1>2 DEF Memory
<1>4. /\ r.docs = <<>> /\ r.last = entries
      /\ \A x \in Sid : r.conns[x] = 0 /\ \A q \in Pid : r.pids[x][q] = 0
  OBVIOUS
<1>5. live \in [Sid -> {Nothing, "told", "untold"}] /\ live = S!LiveNow(r)
  BY DEF S!LiveNow
<1> HIDE DEF r, live
<1>6. /\ k \in Memory
      /\ k.own = r.own /\ k.conns = r.conns /\ k.pids = r.pids /\ k.stated = r.stated
      /\ Chained(r) => Chained(k)
      /\ k.docs = <<>> => r.last = k.last
      /\ \A s \in Sid : k.last[s] = IF S!Live(r, s) THEN Nothing ELSE r.last[s]
  BY <1>3, ReclaimIs
<1> HIDE DEF k, w
<1>7. /\ w \in Memory /\ w.live = live /\ w.last = k.last /\ w.docs = k.docs
      /\ w.own = r.own /\ w.conns = r.conns /\ w.pids = r.pids /\ w.stated = r.stated
  BY <1>1, <1>5, <1>6 DEF Memory
<1>8. \A x \in Sid : S!Live(w, x) = S!Live(r, x)
  BY <1>7 DEF S!Live, S!Present
<1>9. S!LiveNow(w) = S!LiveNow(r)
  BY <1>7, <1>8 DEF S!LiveNow
<1>10. SaysAll(w)
  BY <1>5, <1>6, <1>7, <1>8, <1>9 DEF SaysAll
<1>11. Chained(w)
  BY <1>4, <1>6, <1>7 DEF Chained
<1> QED  BY <1>4, <1>6, <1>7, <1>10, <1>11 DEF w

Deserted ==
  /\ conn = [c \in Conn |-> S!NoOne]
  /\ sub = [u \in Sub |-> [in |-> "out", rows |-> S!NoEntries]]
  /\ \A x \in Sid : mem.conns[x] = 0 /\ \A q \in Pid : mem.pids[x][q] = 0

LEMMA NobodyThere ==
  ASSUME Apart
  PROVE  /\ Deserted => ConnsAgree /\ Counted /\ SubsAgree
         /\ Deserted' => ConnsAgree' /\ Counted' /\ SubsAgree'
<1>1. S!NoOne \in Greeter /\ S!NoOne.at = "anonymous" /\ S!NoEntries \in Rows
  BY DEF S!NoOne, Greeter, S!NoEntries, Rows
<1>2. Cardinality({}) = 0
  BY FS_EmptySet
<1>3. ASSUME Deserted PROVE ConnsAgree /\ Counted /\ SubsAgree
  <2>1. \A x, q : Held(x) = {} /\ HeldBy(x, q) = {}
    BY <1>1, <1>3 DEF Deserted, Held, HeldBy
  <2> QED  BY <1>1, <1>2, <1>3, <2>1 DEF Deserted, ConnsAgree, Counted, SubsAgree
<1>4. ASSUME Deserted' PROVE ConnsAgree' /\ Counted' /\ SubsAgree'
  <2>1. \A x, q : Held(x)' = {} /\ HeldBy(x, q)' = {}
    BY <1>1, <1>4 DEF Deserted, Held, HeldBy
  <2> QED  BY <1>1, <1>2, <1>4, <2>1 DEF Deserted, ConnsAgree, Counted, SubsAgree
<1> QED  BY <1>3, <1>4

LEMMA RestartHolds ==
  ASSUME Apart, ListHolds, NEW found \in S!Findings, S!Restart(found)
  PROVE  ListHolds' /\ S!Records
<1> DEFINE young == S!Unexpired(file, now)
           w == S!Started(found, young)
<1>1. /\ mem' = w /\ crashes' = crashes + 1 /\ UNCHANGED <<file, now, failed>>
      /\ conn' = [c \in Conn |-> S!NoOne]
      /\ sub' = [u \in Sub |-> [in |-> "out", rows |-> S!NoEntries]]
  BY DEF S!Restart, S!Load
<1>2. file \in S!Entries /\ now \in 0..MaxTime /\ crashes \in Nat
  BY DEF ListHolds, ListTypes
<1>3. young \in S!Entries /\ S!Unexpired(young, now) = young
  BY <1>2, UnexpiredIs
<1>4. young = S!Unexpired(file, now)
  OBVIOUS
<1>5. found \in Reading
  BY FindingsAre
<1> HIDE DEF young
<1>6. /\ w \in Memory /\ Chained(w) /\ SaysAll(w)
      /\ \A x \in Sid : w.conns[x] = 0 /\ \A q \in Pid : w.pids[x][q] = 0
      /\ w.docs = <<>> => w.last = young
  BY <1>3, <1>5, StartedIs
<1> HIDE DEF w
<1>7. ConnsAgree' /\ Counted' /\ SubsAgree'
  <2>1. Deserted'
    BY <1>1, <1>6 DEF Deserted
  <2> QED  BY <2>1, NobodyThere
<1>8. S!FileFollows'
  BY <1>1, <1>3, <1>4, <1>6 DEF S!FileFollows
<1>9. ListTypes' /\ Chained(mem)' /\ SaysAll(mem)'
  BY <1>1, <1>2, <1>6 DEF ListTypes, Chained, SaysAll, ListHolds
<1>10. S!Records
  BY <1>1, <1>2 DEF S!Records
<1> QED  BY <1>7, <1>8, <1>9, <1>10 DEF ListHolds

LEMMA ListStarts == ASSUME Apart, S!Init PROVE ListHolds
<1> DEFINE found == [rows |-> [p \in Pid |-> Nothing], present |-> {}]
<1>1. /\ mem = S!Started(found, S!NoEntries) /\ file = S!NoEntries
      /\ now = 0 /\ crashes = 0 /\ failed = FALSE
      /\ conn = [c \in Conn |-> S!NoOne]
      /\ sub = [u \in Sub |-> [in |-> "out", rows |-> S!NoEntries]]
  BY DEF S!Init
<1>2. S!NoEntries \in S!Entries /\ now \in 0..MaxTime
  BY <1>1 DEF S!NoEntries, S!Entries, Apart
<1>3. found \in Reading
  BY DEF Reading
<1>4. /\ mem \in Memory /\ Chained(mem) /\ SaysAll(mem)
      /\ \A x \in Sid : mem.conns[x] = 0 /\ \A q \in Pid : mem.pids[x][q] = 0
      /\ mem.docs = <<>> => mem.last = S!NoEntries
  BY <1>1, <1>2, <1>3, StartedIs
<1>5. ConnsAgree /\ Counted /\ SubsAgree
  BY <1>1, <1>4, NobodyThere DEF Deserted
<1>6. S!FileFollows
  BY <1>1, <1>4 DEF S!FileFollows
<1> QED  BY <1>1, <1>2, <1>4, <1>5, <1>6 DEF ListHolds, ListTypes

LEMMA NextHolds == ASSUME Apart, ListHolds, S!Next PROVE ListHolds' /\ S!Records
<1>1. ASSUME NEW c \in Conn, S!Connect(c) PROVE ListHolds' /\ S!Records
  BY <1>1, ConnectHolds
<1>2. ASSUME NEW c \in Conn, S!Close(c) PROVE ListHolds' /\ S!Records
  BY <1>2, CloseHolds
<1>3. ASSUME NEW c \in Conn, S!Touch(c) PROVE ListHolds' /\ S!Records
  BY <1>3, TouchHolds
<1>4. ASSUME NEW c \in Conn, S!Stopping(c) PROVE ListHolds' /\ S!Records
  BY <1>4, StoppingHolds
<1>5. ASSUME NEW c \in Conn, NEW s \in Sid, NEW p \in Pid \cup {Nothing},
             S!HelloSession(c, s, p)
      PROVE  ListHolds' /\ S!Records
  BY <1>5, HelloHolds
<1>6. ASSUME NEW c \in Conn, NEW words \in BOOLEAN, S!Greeted(c, words)
      PROVE  ListHolds' /\ S!Records
  BY <1>6, GreetedHolds
<1>7. ASSUME NEW u \in Sub, S!Subscribe(u) \/ S!Unsubscribe(u)
      PROVE  ListHolds' /\ S!Records
  BY <1>7, SubscribersHold
<1>8. ASSUME NEW found \in S!Findings, S!ReadingLands(found) PROVE ListHolds' /\ S!Records
  BY <1>8, ReadingHolds
<1>9. ASSUME NEW found \in S!Findings, S!Restart(found) PROVE ListHolds' /\ S!Records
  BY <1>9, RestartHolds
<1>10. ASSUME NEW s \in Sid, S!GatewayMoved(s) PROVE ListHolds' /\ S!Records
  BY <1>10, GatewayHolds
<1>11. ASSUME NEW s \in Sid, S!Forget(s) PROVE ListHolds' /\ S!Records
  BY <1>11, ForgetHolds
<1>12. ASSUME NEW ok \in BOOLEAN, S!Written(ok) PROVE ListHolds' /\ S!Records
  BY <1>12, WrittenHolds
<1>13. CASE S!Tick
  BY <1>13, TickHolds
<1> QED  BY <1>1, <1>2, <1>3, <1>4, <1>5, <1>6, <1>7, <1>8, <1>9, <1>10, <1>11, <1>12, <1>13
         DEF S!Next

-----------------------------------------------------------------------------
(* What the parts of the invariant come to.                                *)
LEMMA ListIsSaid == ASSUME Apart, ListHolds
  PROVE  S!OneList /\ S!ConnectionsCounted /\ S!ViewIsList /\ S!FileFollows
<1>1. S!OneList
  BY DEF S!OneList, SaysAll, ListHolds
<1>2. S!ConnectionsCounted
  BY CountedIs DEF ListHolds
<1>3. S!ViewIsList
  BY DEF S!ViewIsList, SubsAgree, Shown, ListHolds
<1> QED  BY <1>1, <1>2, <1>3 DEF ListHolds

ListOfOne == machine \in {"registry", "restarted"} => ListHolds

LEMMA ListGoesOn ==
  ASSUME Apart, ListOfOne, [MCNext]_MCvars
  PROVE  ListOfOne' /\ (machine \in {"registry", "restarted"} => S!Records)
<1>1. CASE machine \in {"registry", "restarted"} /\ S!Next
  <2>1. ListHolds' /\ S!Records
    BY <1>1, NextHolds DEF ListOfOne
  <2> QED  BY <2>1 DEF ListOfOne
<1>2. CASE machine \notin {"registry", "restarted"} /\ UNCHANGED machine
  BY <1>2 DEF ListOfOne
<1>3. CASE UNCHANGED MCvars
  <2>1. UNCHANGED <<machine, mem, conn, sub, file, now, codex, crashes, failed>>
    BY <1>3 DEF MCvars
  <2>2. ListHolds => ListHolds'
    BY <2>1 DEF ListHolds, ListTypes, ConnsAgree, Counted, Held, HeldBy, SubsAgree, S!FileFollows
  <2>3. S!Records
    BY <2>1 DEF S!Records
  <2> QED  BY <2>1, <2>2, <2>3 DEF ListOfOne
<1> QED  BY <1>1, <1>2, <1>3
         DEF MCNext, OnlyRegistry, OnlyRestarted, OnlyRuns, OnlyTranscript, OnlyReplaced

LEMMA ListIsInvariant == Apart => (MCSpec => []ListOfOne)
<1> SUFFICES ASSUME Apart PROVE MCSpec => []ListOfOne
  OBVIOUS
<1>1. MCInit => ListOfOne
  BY ListStarts DEF MCInit, InitRegistry, InitRestarted, InitRuns, InitTranscript,
                    InitReplaced, ListOfOne
<1>2. ListOfOne /\ [MCNext]_MCvars => ListOfOne'
  BY ListGoesOn
<1> QED  BY <1>1, <1>2, PTL DEF MCSpec

(* No session is live and among the past at once; every connection that    *)
(* has greeted is counted for its session and its run, and no other; what  *)
(* a subscriber was sent comes to the list; and once every write has       *)
(* landed, so does the file (SessionRegistry.register, release, changed,   *)
(* snapshot; LastLiveStore).                                               *)
THEOREM SessionsStayListed == Apart => (MCSpec => []SessionsAreListed)
<1> SUFFICES ASSUME Apart PROVE MCSpec => []SessionsAreListed
  OBVIOUS
<1>1. ListOfOne => SessionsAreListed
  BY ListIsSaid DEF ListOfOne, SessionsAreListed
<1> QED  BY <1>1, ListIsInvariant, PTL

(* A session that stops being live, for the last of its connections that   *)
(* closed or a reading that no longer names it, is recorded in that step   *)
(* with what it had said of itself and the stop it had declared (changed,  *)
(* LastLiveStore.record).                                                  *)
THEOREM DeparturesAreRecorded == Apart => (MCSpec => DepartureIsRecorded)
<1> SUFFICES ASSUME Apart PROVE MCSpec => DepartureIsRecorded
  OBVIOUS
<1>1. ListOfOne /\ [MCNext]_MCvars =>
        [(machine \in {"registry", "restarted"}) => S!Records]_MCvars
  BY ListGoesOn
<1> QED  BY <1>1, ListIsInvariant, PTL DEF MCSpec, DepartureIsRecorded

-----------------------------------------------------------------------------
(* The runs of the harness.  No file, a torn one and one that has only     *)
(* been listed are told apart (undefined and two private symbols).         *)
RunsApart == MaxReads \in Nat /\ Torn # Nothing /\ Listed # Nothing

RunRow == [sid : Sid, born : Nat]

RunTypes ==
  /\ proc \in [RunPid -> {Nothing} \cup [born : Nat, harness : BOOLEAN]]
  /\ births \in Nat /\ begun \in 0..MaxReads
  /\ file \in [RunPid -> {Nothing, Torn} \cup RunRow]
  /\ reading \in [1..MaxReads ->
       [at : {"idle", "listing", "reading", "waiting", "done"},
        texts : [RunPid -> {Nothing, Torn, Listed} \cup RunRow]]]
  /\ rows \in [RunPid -> {Nothing} \cup RunRow]
  /\ kill \in [at : {"idle", "runs", "command", "start", "signal", "polling"},
               sid : Sid \cup {Nothing}, pid : RunPid \cup {Nothing},
               born : Nat \cup {Nothing}, read : Nat, polls : Nat, force : BOOLEAN,
               looked : Nat, said : BOOLEAN]
  /\ moved \in [1..MaxReads -> SUBSET RunPid]

(* A reading that began earlier has seen whatever a later one has seen     *)
(* move, and what has not moved since a reading began it has read as it is.*)
Directory ==
  /\ \A g \in 1..MaxReads : g > begun => reading[g].at = "idle"
  /\ \A g, h \in 1..MaxReads : g <= h /\ h <= begun => moved[h] \subseteq moved[g]
  /\ \A g \in 1..MaxReads : reading[g].at = "reading" =>
       \A p \in RunPid \ moved[g] :
         IF file[p] = Nothing THEN reading[g].texts[p] = Nothing
         ELSE reading[g].texts[p] \in {Listed, file[p]}
  /\ H!ReadIsNow

(* A process a kill may signal: one that began after the last look at its  *)
(* pid, or what that look found.                                           *)
Meant(q, k) == q.born > k.looked \/ IF k.said THEN q.born = k.born ELSE q.harness

Aimed ==
  /\ \A p \in RunPid : proc[p] # Nothing => proc[p].born <= births
  /\ kill.looked <= births
  /\ kill.at \in {"command", "start", "signal", "polling"} => kill.pid \in RunPid
  /\ kill.at \in {"runs", "command", "start"} => ~kill.said
  /\ kill.at \in {"start", "signal", "polling"} /\ proc[kill.pid] # Nothing =>
       Meant(proc[kill.pid], kill)
  /\ H!SignalsItsRun

RunsHold == RunTypes /\ Directory /\ Aimed

LEMMA RunsStart == ASSUME RunsApart, H!Init PROVE RunsHold
<1> DEFINE none == [p \in RunPid |-> Nothing]
<1>1. /\ proc = none /\ births = 0 /\ file = none /\ begun = 0 /\ rows = none
      /\ reading = [g \in 1..MaxReads |-> [at |-> "idle", texts |-> none]]
      /\ kill = H!NoKill /\ hits = {} /\ moved = [g \in 1..MaxReads |-> {}]
  BY DEF H!Init, H!Read
<1>2. RunTypes
  BY <1>1 DEF RunTypes, RunsApart, H!NoKill
<1>3. Directory
  BY <1>1 DEF Directory, H!ReadIsNow, H!Read
<1>4. Aimed
  BY <1>1 DEF Aimed, H!SignalsItsRun, H!NoKill
<1> QED  BY <1>2, <1>3, <1>4 DEF RunsHold

(* What the host does to one process is news to every reading under way.   *)
LEMMA HostMoves ==
  ASSUME RunsHold, NEW p \in RunPid, H!Moves(p), UNCHANGED <<reading, begun, rows>>,
         \A q \in RunPid : q # p => file'[q] = file[q] /\ proc'[q] = proc[q]
  PROVE  moved' \in [1..MaxReads -> SUBSET RunPid] /\ Directory'
<1>1. moved' = [g \in 1..MaxReads |-> IF g <= begun THEN moved[g] \cup {p} ELSE {}]
  BY DEF H!Moves, H!Read
<1>2. moved \in [1..MaxReads -> SUBSET RunPid] /\ begun \in 0..MaxReads
  BY DEF RunsHold, RunTypes
<1>3. \A g \in 1..MaxReads : g <= begun => moved'[g] = moved[g] \cup {p}
  BY <1>1
<1>4. \A g \in 1..MaxReads : reading[g].at # "idle" => g <= begun
  BY <1>2 DEF RunsHold, Directory
<1>5. moved' \in [1..MaxReads -> SUBSET RunPid]
  BY <1>1, <1>2
<1>6. \A g, h \in 1..MaxReads : g <= h /\ h <= begun => moved'[h] \subseteq moved'[g]
  <2> SUFFICES ASSUME NEW g \in 1..MaxReads, NEW h \in 1..MaxReads, g <= h, h <= begun
               PROVE  moved'[h] \subseteq moved'[g]
    OBVIOUS
  <2>1. g <= begun
    BY <1>2
  <2>2. moved[h] \subseteq moved[g]
    BY DEF RunsHold, Directory
  <2> QED  BY <1>3, <2>1, <2>2
<1>7. ASSUME NEW g \in 1..MaxReads, reading[g].at # "idle", NEW q \in RunPid \ moved'[g]
      PROVE  q \in RunPid \ moved[g] /\ file'[q] = file[q] /\ proc'[q] = proc[q]
  BY <1>3, <1>4, <1>7
<1>8. \A g \in 1..MaxReads : reading[g].at = "reading" =>
        \A q \in RunPid \ moved'[g] :
          IF file'[q] = Nothing THEN reading[g].texts[q] = Nothing
          ELSE reading[g].texts[q] \in {Listed, file'[q]}
  BY <1>7 DEF RunsHold, Directory
<1>9. H!ReadIsNow'
  BY <1>7 DEF RunsHold, Directory, H!ReadIsNow, H!Read
<1> QED  BY <1>5, <1>6, <1>8, <1>9 DEF RunsHold, Directory

LEMMA SpawnHolds ==
  ASSUME RunsHold, NEW p \in RunPid, NEW harness \in BOOLEAN, H!Spawn(p, harness)
  PROVE  RunsHold'
<1> DEFINE new == [born |-> births + 1, harness |-> harness]
<1>1. /\ births' = births + 1 /\ proc' = [proc EXCEPT ![p] = new] /\ H!Moves(p)
      /\ proc[p] = Nothing /\ UNCHANGED <<file, reading, begun, rows, kill, hits>>
  BY DEF H!Spawn
<1>2. /\ births \in Nat /\ proc \in [RunPid -> {Nothing} \cup [born : Nat, harness : BOOLEAN]]
      /\ kill.looked \in Nat /\ kill.looked <= births
  BY DEF RunsHold, RunTypes, Aimed
<1>3. new \in [born : Nat, harness : BOOLEAN] /\ new.born = births + 1
  BY <1>2
<1> HIDE DEF new
<1>4. /\ proc' \in [RunPid -> {Nothing} \cup [born : Nat, harness : BOOLEAN]]
      /\ proc'[p] = new /\ \A q \in RunPid : q # p => proc'[q] = proc[q]
  BY <1>1, <1>2, <1>3
<1>5. moved' \in [1..MaxReads -> SUBSET RunPid] /\ Directory'
  BY <1>1, <1>4, HostMoves
<1>6. RunTypes'
  BY <1>1, <1>2, <1>4, <1>5 DEF RunsHold, RunTypes
<1>7. \A q \in RunPid : proc'[q] # Nothing => proc'[q].born <= births'
  <2> SUFFICES ASSUME NEW q \in RunPid, proc'[q] # Nothing PROVE proc'[q].born <= births'
    OBVIOUS
  <2>1. CASE q = p
    BY <1>1, <1>2, <1>3, <1>4, <2>1
  <2>2. CASE q # p
    <3>1. proc[q].born \in Nat /\ proc[q].born <= births
      BY <1>2, <1>4, <2>2 DEF RunsHold, Aimed
    <3> QED  BY <1>1, <1>2, <1>4, <2>2, <3>1
  <2> QED  BY <2>1, <2>2
<1>8. kill.at \in {"start", "signal", "polling"} /\ proc'[kill.pid] # Nothing =>
        Meant(proc'[kill.pid], kill)
  <2>1. CASE kill.pid = p
    BY <1>2, <1>3, <1>4, <2>1 DEF Meant
  <2>2. CASE kill.pid # p
    BY <1>4, <2>2 DEF RunsHold, Aimed
  <2> QED  BY <2>1, <2>2
<1>9. Aimed'
  BY <1>1, <1>2, <1>7, <1>8 DEF RunsHold, Aimed, Meant, H!SignalsItsRun
<1> QED  BY <1>5, <1>6, <1>9 DEF RunsHold

LEMMA HarnessWrites ==
  ASSUME RunsHold, NEW p \in RunPid, H!Truncate(p) \/ \E s \in Sid : H!WriteState(p, s)
  PROVE  RunsHold'
<1>1. /\ proc[p] # Nothing /\ H!Moves(p)
      /\ UNCHANGED <<proc, births, reading, begun, rows, kill, hits>>
  BY DEF H!Truncate, H!WriteState
<1>2. PICK text : file' = [file EXCEPT ![p] = text]
                  /\ (text = Torn \/ \E s \in Sid : text = [sid |-> s, born |-> proc[p].born])
  <2>1. CASE H!Truncate(p)
    BY <2>1 DEF H!Truncate
  <2>2. CASE \E s \in Sid : H!WriteState(p, s)
    BY <2>2 DEF H!WriteState
  <2> QED  BY <2>1, <2>2
<1>3. /\ proc \in [RunPid -> {Nothing} \cup [born : Nat, harness : BOOLEAN]]
      /\ file \in [RunPid -> {Nothing, Torn} \cup RunRow]
  BY DEF RunsHold, RunTypes
<1>4. text \in {Nothing, Torn} \cup RunRow
  BY <1>1, <1>2, <1>3 DEF RunRow
<1>5. /\ file' \in [RunPid -> {Nothing, Torn} \cup RunRow]
      /\ \A q \in RunPid : q # p => file'[q] = file[q] /\ proc'[q] = proc[q]
  BY <1>1, <1>2, <1>3, <1>4
<1>6. moved' \in [1..MaxReads -> SUBSET RunPid] /\ Directory'
  BY <1>1, <1>5, HostMoves
<1>7. RunTypes'
  BY <1>1, <1>5, <1>6 DEF RunsHold, RunTypes
<1>8. Aimed'
  BY <1>1 DEF RunsHold, Aimed, Meant, H!SignalsItsRun
<1> QED  BY <1>6, <1>7, <1>8 DEF RunsHold

LEMMA ExitHolds ==
  ASSUME RunsHold, NEW p \in RunPid, NEW clean \in BOOLEAN, H!Exit(p, clean)
  PROVE  RunsHold'
<1>1. /\ proc' = [proc EXCEPT ![p] = Nothing] /\ H!Moves(p)
      /\ UNCHANGED <<births, reading, begun, rows, kill, hits>>
      /\ file' = [file EXCEPT ![p] = Nothing] \/ file' = file
  BY DEF H!Exit
<1>2. /\ proc \in [RunPid -> {Nothing} \cup [born : Nat, harness : BOOLEAN]]
      /\ file \in [RunPid -> {Nothing, Torn} \cup RunRow]
  BY DEF RunsHold, RunTypes
<1>3. /\ proc' \in [RunPid -> {Nothing} \cup [born : Nat, harness : BOOLEAN]]
      /\ proc'[p] = Nothing /\ \A q \in RunPid : q # p => proc'[q] = proc[q]
  BY <1>1, <1>2
<1>4. /\ file' \in [RunPid -> {Nothing, Torn} \cup RunRow]
      /\ \A q \in RunPid : q # p => file'[q] = file[q]
  BY <1>1, <1>2
<1>5. moved' \in [1..MaxReads -> SUBSET RunPid] /\ Directory'
  BY <1>1, <1>3, <1>4, HostMoves
<1>6. RunTypes'
  BY <1>1, <1>3, <1>4, <1>5 DEF RunsHold, RunTypes
<1>7. \A q \in RunPid : proc'[q] = proc[q] \/ proc'[q] = Nothing
  BY <1>3
<1>8. Aimed'
  BY <1>1, <1>7 DEF RunsHold, Aimed, Meant, H!SignalsItsRun
<1> QED  BY <1>5, <1>6, <1>8 DEF RunsHold

-----------------------------------------------------------------------------
(* Readings, begun and landing in whatever order.                          *)
LEMMA BeginsHolds ==
  ASSUME RunsApart, RunsHold, H!Begins(begun + 1), UNCHANGED <<proc, births, file, rows>>
  PROVE  /\ begun' \in 0..MaxReads /\ moved' \in [1..MaxReads -> SUBSET RunPid]
         /\ reading' \in [1..MaxReads ->
              [at : {"idle", "listing", "reading", "waiting", "done"},
               texts : [RunPid -> {Nothing, Torn, Listed} \cup RunRow]]]
         /\ Directory'
<1> DEFINE g == begun + 1
           asked == [reading[g] EXCEPT !.at = "listing"]
<1>1. /\ begun < MaxReads /\ begun' = g /\ moved' = [moved EXCEPT ![g] = {}]
      /\ reading' = [reading EXCEPT ![g] = asked]
  BY DEF H!Begins
<1>2. /\ begun \in 0..MaxReads /\ moved \in [1..MaxReads -> SUBSET RunPid]
      /\ reading \in [1..MaxReads ->
           [at : {"idle", "listing", "reading", "waiting", "done"},
            texts : [RunPid -> {Nothing, Torn, Listed} \cup RunRow]]]
  BY DEF RunsHold, RunTypes
<1>3. g \in 1..MaxReads /\ g = begun + 1
  BY <1>1, <1>2 DEF RunsApart
<1>4. /\ asked \in [at : {"idle", "listing", "reading", "waiting", "done"},
                    texts : [RunPid -> {Nothing, Torn, Listed} \cup RunRow]]
      /\ asked.at = "listing"
  BY <1>2, <1>3
<1> HIDE DEF g, asked
<1>5. /\ reading' \in [1..MaxReads ->
           [at : {"idle", "listing", "reading", "waiting", "done"},
            texts : [RunPid -> {Nothing, Torn, Listed} \cup RunRow]]]
      /\ reading'[g].at = "listing" /\ \A h \in 1..MaxReads : h # g => reading'[h] = reading[h]
      /\ moved' \in [1..MaxReads -> SUBSET RunPid]
      /\ moved'[g] = {} /\ \A h \in 1..MaxReads : h # g => moved'[h] = moved[h]
  BY <1>1, <1>2, <1>3, <1>4
<1>6. \A h \in 1..MaxReads : h > begun' => reading'[h].at = "idle"
  BY <1>1, <1>2, <1>3, <1>5 DEF RunsHold, Directory
<1>7. \A h, k \in 1..MaxReads : h <= k /\ k <= begun' => moved'[k] \subseteq moved'[h]
  <2> SUFFICES ASSUME NEW h \in 1..MaxReads, NEW k \in 1..MaxReads, h <= k, k <= begun'
               PROVE  moved'[k] \subseteq moved'[h]
    OBVIOUS
  <2>1. CASE k = g
    BY <1>5, <2>1
  <2>2. CASE k # g
    <3>1. k <= begun /\ h # g
      BY <1>1, <1>2, <1>3, <2>2
    <3> QED  BY <1>5, <2>2, <3>1 DEF RunsHold, Directory
  <2> QED  BY <2>1, <2>2
<1>8. \A h \in 1..MaxReads : reading'[h].at \in {"reading", "done"} =>
        reading'[h] = reading[h] /\ moved'[h] = moved[h]
  BY <1>5
<1>9. H!ReadIsNow'
  BY <1>8 DEF RunsHold, Directory, H!ReadIsNow, H!Read
<1>10. Directory'
  BY <1>6, <1>7, <1>8, <1>9 DEF RunsHold, Directory
<1> QED  BY <1>1, <1>3, <1>5, <1>10

LEMMA ReadsOn ==
  ASSUME RunsApart, RunsHold, NEW g \in 1..MaxReads,
         H!List(g) \/ \E p \in RunPid : H!ReadFile(g, p)
  PROVE  RunsHold'
<1> DEFINE all == [q \in RunPid |-> IF file[q] = Nothing THEN Nothing ELSE Listed]
           one(p) == [reading[g].texts EXCEPT ![p] = IF file[p] = Nothing THEN Torn ELSE file[p]]
           old == reading[g].texts
<1>1. /\ UNCHANGED <<proc, births, file, begun, rows, kill, hits, moved>>
      /\ reading[g].at \in {"listing", "reading"}
  BY DEF H!List, H!ReadFile
<1>2. /\ file \in [RunPid -> {Nothing, Torn} \cup RunRow]
      /\ old \in [RunPid -> {Nothing, Torn, Listed} \cup RunRow]
      /\ reading \in [1..MaxReads ->
           [at : {"idle", "listing", "reading", "waiting", "done"},
            texts : [RunPid -> {Nothing, Torn, Listed} \cup RunRow]]]
  BY DEF RunsHold, RunTypes
<1>3. PICK texts : /\ reading' = [reading EXCEPT ![g] = [at |-> "reading", texts |-> texts]]
                   /\ \/ texts = all
                      \/ /\ reading[g].at = "reading"
                         /\ \E p \in RunPid : old[p] = Listed /\ texts = one(p)
  <2>1. CASE H!List(g)
    BY <2>1 DEF H!List
  <2>2. CASE \E p \in RunPid : H!ReadFile(g, p)
    <3>1. PICK p \in RunPid : H!ReadFile(g, p)
      BY <2>2
    <3>2. /\ reading[g].at = "reading" /\ old[p] = Listed
          /\ reading' = [reading EXCEPT ![g] = [reading[g] EXCEPT !.texts = one(p)]]
      BY <3>1 DEF H!ReadFile
    <3>3. [reading[g] EXCEPT !.texts = one(p)] = [at |-> "reading", texts |-> one(p)]
      BY <1>2, <3>2
    <3> QED  BY <3>2, <3>3
  <2> QED  BY <2>1, <2>2
<1>4. texts \in [RunPid -> {Nothing, Torn, Listed} \cup RunRow]
  <2>1. all \in [RunPid -> {Nothing, Torn, Listed} \cup RunRow]
    OBVIOUS
  <2>2. \A p \in RunPid : one(p) \in [RunPid -> {Nothing, Torn, Listed} \cup RunRow]
    BY <1>2
  <2> HIDE DEF all, one
  <2> QED  BY <1>3, <2>1, <2>2
<1>5. \A q \in RunPid \ moved[g] : IF file[q] = Nothing THEN texts[q] = Nothing
                                   ELSE texts[q] \in {Listed, file[q]}
  <2> SUFFICES ASSUME NEW q \in RunPid \ moved[g]
               PROVE  IF file[q] = Nothing THEN texts[q] = Nothing
                      ELSE texts[q] \in {Listed, file[q]}
    OBVIOUS
  <2>1. CASE texts = all
    BY <2>1
  <2>2. CASE texts # all
    <3>1. PICK p \in RunPid : reading[g].at = "reading" /\ old[p] = Listed /\ texts = one(p)
      BY <1>3, <2>2
    <3>2. IF file[q] = Nothing THEN old[q] = Nothing ELSE old[q] \in {Listed, file[q]}
      BY <3>1 DEF RunsHold, Directory
    <3>3. q = p => file[q] # Nothing
      BY <3>1, <3>2 DEF RunsApart
    <3>4. texts[q] = IF q = p THEN file[p] ELSE old[q]
      BY <1>2, <3>1, <3>3
    <3> QED  BY <3>2, <3>3, <3>4
  <2> QED  BY <2>1, <2>2
<1>6. /\ reading' \in [1..MaxReads ->
           [at : {"idle", "listing", "reading", "waiting", "done"},
            texts : [RunPid -> {Nothing, Torn, Listed} \cup RunRow]]]
      /\ reading'[g].at = "reading" /\ reading'[g].texts = texts
      /\ \A h \in 1..MaxReads : h # g => reading'[h] = reading[h]
  BY <1>2, <1>3, <1>4
<1>7. RunTypes'
  BY <1>1, <1>6 DEF RunsHold, RunTypes
<1>8. H!ReadIsNow'
  BY <1>1, <1>6 DEF RunsHold, Directory, H!ReadIsNow, H!Read
<1>9. \A h \in 1..MaxReads : h > begun => reading'[h].at = "idle"
  BY <1>1, <1>6 DEF RunsHold, Directory
<1>10. Directory'
  BY <1>1, <1>5, <1>6, <1>8, <1>9 DEF RunsHold, Directory
<1>11. Aimed'
  BY <1>1 DEF RunsHold, Aimed, Meant, H!SignalsItsRun
<1> QED  BY <1>7, <1>10, <1>11 DEF RunsHold

(* The reading that is the latest when it lands answers itself and whoever *)
(* waits; an earlier one has the answer of the latest, or waits for it.    *)
LEMMA LandHolds == ASSUME RunsApart, RunsHold, NEW g \in 1..MaxReads, H!Land(g) PROVE RunsHold'
<1> DEFINE found == H!Settled(g)
           texts == reading[g].texts
<1>1. /\ reading[g].at = "reading" /\ UNCHANGED <<proc, births, file, begun, kill, hits, moved>>
      /\ \A p \in RunPid : texts[p] # Listed
  BY DEF H!Land
<1>2. /\ file \in [RunPid -> {Nothing, Torn} \cup RunRow]
      /\ rows \in [RunPid -> {Nothing} \cup RunRow] /\ begun \in 0..MaxReads
      /\ texts \in [RunPid -> {Nothing, Torn, Listed} \cup RunRow]
      /\ reading \in [1..MaxReads ->
           [at : {"idle", "listing", "reading", "waiting", "done"},
            texts : [RunPid -> {Nothing, Torn, Listed} \cup RunRow]]]
  BY DEF RunsHold, RunTypes
<1>3. g <= begun
  BY <1>1, <1>2 DEF RunsHold, Directory
<1>4. Aimed'
  BY <1>1 DEF RunsHold, Aimed, Meant, H!SignalsItsRun
<1>5. CASE g = begun
  <2> DEFINE ends(h) == h = g \/ reading[h].at = "waiting"
             ended(h) == [reading[h] EXCEPT !.at = "done"]
  <2>1. /\ rows' = found
        /\ reading' = [h \in 1..MaxReads |-> IF ends(h) THEN ended(h) ELSE reading[h]]
    BY <1>5 DEF H!Land, H!Read
  <2>2. ASSUME NEW p \in RunPid
        PROVE  /\ found[p] \in {Nothing} \cup RunRow
               /\ p \notin moved[g] =>
                    /\ file[p] = Nothing => found[p] = Nothing
                    /\ proc[p] = Nothing /\ file[p] # Torn => found[p] = Nothing
                    /\ file[p] \notin {Nothing, Torn} /\ proc[p] # Nothing => found[p] = file[p]
    <3>1. found[p] = IF texts[p] = Nothing THEN Nothing
                     ELSE IF texts[p] = Torn THEN rows[p]
                     ELSE IF proc[p] = Nothing THEN Nothing ELSE texts[p]
      <4>1. CASE texts[p] = Nothing
        BY <4>1 DEF H!Settled, RunsApart
      <4>2. CASE texts[p] # Nothing /\ texts[p] = Torn
        BY <4>2 DEF H!Settled
      <4>3. CASE texts[p] # Nothing /\ texts[p] # Torn
        BY <4>3 DEF H!Settled, H!RowOf
      <4> QED  BY <4>1, <4>2, <4>3
    <3>2. found[p] \in {Nothing} \cup RunRow
      <4>1. texts[p] \in {Nothing, Torn} \cup RunRow /\ rows[p] \in {Nothing} \cup RunRow
        BY <1>1, <1>2
      <4> HIDE DEF found, texts
      <4> QED  BY <3>1, <4>1
    <3>3. p \notin moved[g] => texts[p] = file[p]
      BY <1>1 DEF RunsHold, Directory
    <3> HIDE DEF found, texts
    <3> QED  BY <3>1, <3>2, <3>3 DEF RunsApart
  <2>3. found = [p \in RunPid |-> found[p]]
    BY DEF H!Settled
  <2> HIDE DEF found
  <2>4. rows' \in [RunPid -> {Nothing} \cup RunRow]
    BY <2>1, <2>2, <2>3
  <2>5. \A h \in 1..MaxReads :
          /\ reading'[h] \in [at : {"idle", "listing", "reading", "waiting", "done"},
                              texts : [RunPid -> {Nothing, Torn, Listed} \cup RunRow]]
          /\ reading'[h].at = "reading" => reading'[h] = reading[h]
          /\ reading'[h].at = "done" => reading[h].at # "idle"
          /\ reading[h].at = "idle" => reading'[h].at = "idle"
    BY <1>1, <1>2, <2>1
  <2>6. reading' \in [1..MaxReads ->
          [at : {"idle", "listing", "reading", "waiting", "done"},
           texts : [RunPid -> {Nothing, Torn, Listed} \cup RunRow]]]
    BY <2>1, <2>5
  <2>7. RunTypes'
    BY <1>1, <2>4, <2>6 DEF RunsHold, RunTypes
  <2>8. ASSUME NEW h \in 1..MaxReads, reading'[h].at = "done" PROVE moved[g] \subseteq moved[h]
    <3>1. h <= begun
      BY <1>2, <2>5, <2>8 DEF RunsHold, Directory
    <3> QED  BY <1>5, <3>1 DEF RunsHold, Directory
  <2>9. H!ReadIsNow'
    <3> SUFFICES ASSUME NEW h \in 1..MaxReads, reading'[h].at = "done", NEW p \in RunPid \ moved[h]
                 PROVE  /\ file[p] = Nothing => found[p] = Nothing
                        /\ proc[p] = Nothing /\ file[p] # Torn => found[p] = Nothing
                        /\ file[p] \notin {Nothing, Torn} /\ proc[p] # Nothing => found[p] = file[p]
      BY <1>1, <2>1 DEF H!ReadIsNow, H!Read
    <3>1. p \notin moved[g]
      BY <2>8
    <3> QED  BY <2>2, <3>1
  <2>10. Directory'
    BY <1>1, <2>5, <2>9 DEF RunsHold, Directory
  <2> QED  BY <1>4, <2>7, <2>10 DEF RunsHold
<1>6. CASE g # begun
  <2> DEFINE at == H!Overtaken(g)
             ended == [reading[g] EXCEPT !.at = at]
  <2>1. rows' = rows /\ reading' = [reading EXCEPT ![g] = ended]
    BY <1>6 DEF H!Land
  <2>2. at \in {"done", "waiting"} /\ (at = "done" => reading[begun].at = "done")
    BY DEF H!Overtaken
  <2> HIDE DEF at
  <2>3. /\ ended \in [at : {"idle", "listing", "reading", "waiting", "done"},
                      texts : [RunPid -> {Nothing, Torn, Listed} \cup RunRow]]
        /\ ended.at = at
    BY <1>2, <2>2
  <2> HIDE DEF ended
  <2>4. /\ reading' \in [1..MaxReads ->
             [at : {"idle", "listing", "reading", "waiting", "done"},
              texts : [RunPid -> {Nothing, Torn, Listed} \cup RunRow]]]
        /\ reading'[g].at = at /\ \A h \in 1..MaxReads : h # g => reading'[h] = reading[h]
    BY <1>2, <2>1, <2>3
  <2>5. RunTypes'
    BY <1>1, <2>1, <2>4 DEF RunsHold, RunTypes
  <2>6. begun \in 1..MaxReads /\ moved[begun] \subseteq moved[g]
    BY <1>2, <1>3 DEF RunsHold, Directory
  <2>7. H!ReadIsNow'
    <3> SUFFICES ASSUME NEW h \in 1..MaxReads, reading'[h].at = "done", NEW p \in RunPid \ moved[h]
                 PROVE  /\ file[p] = Nothing => rows[p] = Nothing
                        /\ proc[p] = Nothing /\ file[p] # Torn => rows[p] = Nothing
                        /\ file[p] \notin {Nothing, Torn} /\ proc[p] # Nothing => rows[p] = file[p]
      BY <1>1, <2>1 DEF H!ReadIsNow, H!Read
    <3>1. CASE h = g
      <4>1. reading[begun].at = "done" /\ p \in RunPid \ moved[begun]
        BY <2>2, <2>4, <2>6, <3>1
      <4> QED  BY <2>6, <4>1 DEF RunsHold, Directory, H!ReadIsNow, H!Read
    <3>2. CASE h # g
      BY <2>4, <3>2 DEF RunsHold, Directory, H!ReadIsNow, H!Read
    <3> QED  BY <3>1, <3>2
  <2>8. \A h \in 1..MaxReads : reading'[h].at = "reading" => reading'[h] = reading[h]
    BY <2>2, <2>4
  <2>9. \A h \in 1..MaxReads : h > begun => reading'[h].at = "idle"
    BY <1>2, <1>3, <2>4 DEF RunsHold, Directory
  <2>10. Directory'
    BY <1>1, <2>7, <2>8, <2>9 DEF RunsHold, Directory
  <2> QED  BY <1>4, <2>5, <2>10 DEF RunsHold
<1> QED  BY <1>5, <1>6

LEMMA BeginHolds == ASSUME RunsApart, RunsHold, H!Begin PROVE RunsHold'
<1>1. H!Begins(begun + 1) /\ UNCHANGED <<proc, births, file, rows, kill, hits>>
  BY DEF H!Begin
<1>2. /\ begun' \in 0..MaxReads /\ moved' \in [1..MaxReads -> SUBSET RunPid]
      /\ reading' \in [1..MaxReads ->
           [at : {"idle", "listing", "reading", "waiting", "done"},
            texts : [RunPid -> {Nothing, Torn, Listed} \cup RunRow]]]
      /\ Directory'
  BY <1>1, BeginsHolds
<1>3. RunTypes'
  BY <1>1, <1>2 DEF RunsHold, RunTypes
<1>4. Aimed'
  BY <1>1 DEF RunsHold, Aimed, Meant, H!SignalsItsRun
<1> QED  BY <1>2, <1>3, <1>4 DEF RunsHold

LEMMA FillHolds == ASSUME RunsHold, NEW p \in RunPid, H!Fill(p) PROVE RunsHold'
<1>1. UNCHANGED <<proc, births, file, reading, begun, rows, kill, hits, moved>>
  BY DEF H!Fill
<1> QED  BY <1>1 DEF RunsHold, RunTypes, Directory, Aimed, Meant, H!ReadIsNow, H!SignalsItsRun

-----------------------------------------------------------------------------
(* session.kill, which looks at the process twice before it signals it.    *)
KillTypes ==
  [at : {"idle", "runs", "command", "start", "signal", "polling"},
   sid : Sid \cup {Nothing}, pid : RunPid \cup {Nothing}, born : Nat \cup {Nothing},
   read : Nat, polls : Nat, force : BOOLEAN, looked : Nat, said : BOOLEAN]

LEMMA KillHolds ==
  ASSUME RunsApart, RunsHold, NEW s \in Sid, NEW p \in RunPid \cup {Nothing},
         NEW force \in BOOLEAN, H!Kill(s, p, force)
  PROVE  RunsHold'
<1>1. H!Begins(begun + 1) /\ UNCHANGED <<proc, births, file, rows, hits>>
      /\ kill' = [H!NoKill EXCEPT !.at = "runs", !.sid = s, !.pid = p, !.force = force,
                                  !.read = begun + 1]
  BY DEF H!Kill
<1>2. begun \in Nat /\ births \in Nat
  BY DEF RunsHold, RunTypes
<1>3. kill' \in KillTypes /\ kill'.at = "runs" /\ kill'.looked = 0 /\ ~kill'.said
  <2>1. kill' = [at |-> "runs", sid |-> s, pid |-> p, born |-> Nothing, read |-> begun + 1,
                 polls |-> 0, force |-> force, looked |-> 0, said |-> FALSE]
    BY <1>1 DEF H!NoKill
  <2>2. force \in BOOLEAN /\ begun + 1 \in Nat
    BY <1>2
  <2> QED  BY <2>1, <2>2 DEF KillTypes
<1>4. /\ begun' \in 0..MaxReads /\ moved' \in [1..MaxReads -> SUBSET RunPid]
      /\ reading' \in [1..MaxReads ->
           [at : {"idle", "listing", "reading", "waiting", "done"},
            texts : [RunPid -> {Nothing, Torn, Listed} \cup RunRow]]]
      /\ Directory'
  BY <1>1, BeginsHolds
<1>5. RunTypes'
  BY <1>1, <1>3, <1>4 DEF RunsHold, RunTypes, KillTypes
<1>6. Aimed'
  BY <1>1, <1>2, <1>3 DEF RunsHold, Aimed, Meant, H!SignalsItsRun
<1> QED  BY <1>4, <1>5, <1>6 DEF RunsHold

(* What the kill in hand comes to when a step of its own leaves all else.  *)
LEMMA KillGoesOn ==
  ASSUME RunsHold, UNCHANGED <<proc, births, file, reading, begun, rows, moved>>,
         kill' \in KillTypes, kill'.looked <= births,
         kill'.at \in {"command", "start", "signal", "polling"} => kill'.pid \in RunPid,
         kill'.at \in {"runs", "command", "start"} => ~kill'.said,
         kill'.at \in {"start", "signal", "polling"} /\ proc[kill'.pid] # Nothing =>
           Meant(proc[kill'.pid], kill'),
         \A h \in hits' : h \in hits \/ Meant(h.proc, h.kill)
  PROVE  RunsHold'
<1>1. RunTypes'
  BY DEF RunsHold, RunTypes, KillTypes
<1>2. Directory'
  BY DEF RunsHold, Directory, H!ReadIsNow
<1>3. Aimed'
  BY DEF RunsHold, Aimed, Meant, H!SignalsItsRun
<1> QED  BY <1>1, <1>2, <1>3 DEF RunsHold

LEMMA KillEnding ==
  ASSUME RunsHold
  PROVE  /\ H!NoKill \in KillTypes /\ H!NoKill.looked <= births /\ H!NoKill.at = "idle"
         /\ kill \in KillTypes
BY DEF H!NoKill, KillTypes, RunsHold, RunTypes

LEMMA KillResolved == ASSUME RunsHold, H!KillResolves PROVE RunsHold'
<1>1. UNCHANGED <<proc, births, file, reading, begun, rows, hits, moved>>
  BY DEF H!KillResolves
<1>2. CASE kill' = H!NoKill
  BY <1>1, <1>2, KillEnding, KillGoesOn
<1>3. CASE kill' # H!NoKill
  <2>1. PICK p \in H!Resolvable(H!OwnRuns(kill.sid)) :
          kill' = [kill EXCEPT !.at = "command", !.pid = p, !.born = rows[p].born]
    BY <1>3 DEF H!KillResolves, H!KillEnds
  <2>2. p \in H!OwnRuns(kill.sid)
    BY DEF H!Resolvable
  <2>3. p \in RunPid /\ rows[p] # Nothing
    BY <2>2 DEF H!OwnRuns
  <2>4. rows[p].born \in Nat
    BY <2>3 DEF RunsHold, RunTypes, RunRow
  <2>5. /\ kill' \in KillTypes /\ kill'.at = "command" /\ kill'.pid = p
        /\ kill'.looked = kill.looked /\ kill'.said = kill.said
    BY <2>1, <2>3, <2>4, KillEnding DEF KillTypes
  <2>6. kill'.looked <= births /\ ~kill'.said
    BY <1>3, <2>5 DEF RunsHold, Aimed, H!KillResolves
  <2> QED  BY <1>1, <2>3, <2>5, <2>6, KillGoesOn
<1> QED  BY <1>2, <1>3

LEMMA KillLooks ==
  ASSUME RunsHold, H!KillLooksAtCommand \/ H!KillLooksAtStart PROVE RunsHold'
<1>1. UNCHANGED <<proc, births, file, reading, begun, rows, hits, moved>>
  BY DEF H!KillLooksAtCommand, H!KillLooksAtStart
<1>2. kill \in KillTypes /\ kill.looked <= births /\ births \in Nat
  BY KillEnding DEF RunsHold, RunTypes, Aimed
<1>3. kill.at \in {"command", "start"} /\ kill.pid \in RunPid
  BY DEF H!KillLooksAtCommand, H!KillLooksAtStart, RunsHold, Aimed
<1>4. CASE kill' = H!NoKill
  BY <1>1, <1>4, KillEnding, KillGoesOn
<1>5. CASE kill' # H!NoKill /\ H!KillLooksAtCommand
  <2>1. /\ kill' = [kill EXCEPT !.at = "start", !.looked = births]
        /\ kill.at = "command" /\ proc[kill.pid].harness
    BY <1>5 DEF H!KillLooksAtCommand, H!KillEnds
  <2>2. /\ kill' \in KillTypes /\ kill'.at = "start" /\ kill'.pid = kill.pid
        /\ kill'.looked = births /\ kill'.said = kill.said
    BY <1>2, <2>1 DEF KillTypes
  <2>3. ~kill'.said
    BY <2>1, <2>2 DEF RunsHold, Aimed
  <2>4. Meant(proc[kill.pid], kill')
    BY <2>1, <2>3 DEF Meant
  <2> QED  BY <1>1, <1>2, <1>3, <2>2, <2>3, <2>4, KillGoesOn
<1>6. CASE kill' # H!NoKill /\ H!KillLooksAtStart
  <2>1. PICK start \in H!Starts(kill.pid) :
          /\ H!SameProcess(start)
          /\ kill' = IF start = Unsaid THEN [kill EXCEPT !.at = "signal"]
                     ELSE [kill EXCEPT !.at = "signal", !.looked = births, !.said = TRUE]
    BY <1>6 DEF H!KillLooksAtStart, H!KillEnds
  <2>2. kill.at = "start"
    BY <1>6 DEF H!KillLooksAtStart
  <2>3. CASE start = Unsaid
    <3>1. /\ kill' \in KillTypes /\ kill'.at = "signal" /\ kill'.pid = kill.pid
          /\ kill'.looked = kill.looked /\ kill'.born = kill.born /\ kill'.said = kill.said
      BY <1>2, <2>1, <2>3 DEF KillTypes
    <3>2. proc[kill.pid] # Nothing => Meant(proc[kill.pid], kill')
      BY <2>2, <3>1 DEF RunsHold, Aimed, Meant
    <3> QED  BY <1>1, <1>2, <1>3, <3>1, <3>2, KillGoesOn
  <2>4. CASE start # Unsaid
    <3>1. /\ kill' \in KillTypes /\ kill'.at = "signal" /\ kill'.pid = kill.pid
          /\ kill'.looked = births /\ kill'.born = kill.born /\ kill'.said
      BY <1>2, <2>1, <2>4 DEF KillTypes
    <3>2. /\ proc[kill.pid] # Nothing /\ start = proc[kill.pid].born
          /\ start = kill.born
      BY <2>1, <2>4 DEF H!Starts, H!SameProcess
    <3>3. Meant(proc[kill.pid], kill')
      BY <3>1, <3>2 DEF Meant
    <3> QED  BY <1>1, <1>2, <1>3, <3>1, <3>3, KillGoesOn
  <2> QED  BY <2>3, <2>4
<1> QED  BY <1>4, <1>5, <1>6

LEMMA KillStrikes == ASSUME RunsHold, H!KillSignals \/ H!KillPolls PROVE RunsHold'
<1>1. UNCHANGED <<proc, births, file, reading, begun, rows, moved>>
  BY DEF H!KillSignals, H!KillPolls
<1>2. kill \in KillTypes /\ kill.looked <= births
  BY KillEnding DEF RunsHold, Aimed
<1>3. /\ kill.at \in {"signal", "polling"} /\ kill.pid \in RunPid
      /\ proc[kill.pid] # Nothing => Meant(proc[kill.pid], kill)
  BY DEF H!KillSignals, H!KillPolls, RunsHold, Aimed
<1>4. \/ hits' = hits
      \/ /\ proc[kill.pid] # Nothing
         /\ hits' = hits \cup {[proc |-> proc[kill.pid], kill |-> kill]}
  BY DEF H!KillSignals, H!KillPolls, H!Signal
<1>5. \A h \in hits' : h \in hits \/ Meant(h.proc, h.kill)
  BY <1>3, <1>4
<1>6. CASE kill' = H!NoKill
  BY <1>1, <1>5, <1>6, KillEnding, KillGoesOn
<1>7. CASE kill' # H!NoKill
  <2>1. kill' = [kill EXCEPT !.at = "polling"] \/ kill' = [kill EXCEPT !.polls = @ + 1]
    BY <1>7 DEF H!KillSignals, H!KillPolls, H!Signal, H!KillEnds
  <2>2. /\ kill' \in KillTypes /\ kill'.at \in {kill.at, "polling"} /\ kill'.pid = kill.pid
        /\ kill'.looked = kill.looked /\ kill'.born = kill.born /\ kill'.said = kill.said
    BY <1>2, <2>1 DEF KillTypes
  <2>3. proc[kill.pid] # Nothing => Meant(proc[kill.pid], kill')
    BY <1>3, <2>2 DEF Meant
  <2> QED  BY <1>1, <1>2, <1>3, <1>5, <2>2, <2>3, KillGoesOn
<1> QED  BY <1>6, <1>7

LEMMA RunsGoOn == ASSUME RunsApart, RunsHold, H!Next PROVE RunsHold'
<1>1. ASSUME NEW p \in RunPid, NEW harness \in BOOLEAN, H!Spawn(p, harness) PROVE RunsHold'
  BY <1>1, SpawnHolds
<1>2. ASSUME NEW p \in RunPid, H!Truncate(p) PROVE RunsHold'
  BY <1>2, HarnessWrites
<1>3. ASSUME NEW p \in RunPid, NEW s \in Sid, H!WriteState(p, s) PROVE RunsHold'
  BY <1>3, HarnessWrites
<1>4. ASSUME NEW p \in RunPid, NEW clean \in BOOLEAN, H!Exit(p, clean) PROVE RunsHold'
  BY <1>4, ExitHolds
<1>5. ASSUME NEW p \in RunPid, H!Fill(p) PROVE RunsHold'
  BY <1>5, FillHolds
<1>6. CASE H!Begin
  BY <1>6, BeginHolds
<1>7. ASSUME NEW g \in 1..MaxReads, H!List(g) PROVE RunsHold'
  BY <1>7, ReadsOn
<1>8. ASSUME NEW g \in 1..MaxReads, H!Land(g) PROVE RunsHold'
  BY <1>8, LandHolds
<1>9. ASSUME NEW g \in 1..MaxReads, NEW p \in RunPid, H!ReadFile(g, p) PROVE RunsHold'
  BY <1>9, ReadsOn
<1>10. ASSUME NEW s \in Sid, NEW p \in RunPid \cup {Nothing}, NEW force \in BOOLEAN,
              H!Kill(s, p, force)
       PROVE  RunsHold'
  BY <1>10, KillHolds
<1>11. CASE H!KillResolves
  BY <1>11, KillResolved
<1>12. CASE H!KillLooksAtCommand \/ H!KillLooksAtStart
  BY <1>12, KillLooks
<1>13. CASE H!KillSignals \/ H!KillPolls
  BY <1>13, KillStrikes
<1> QED  BY <1>1, <1>2, <1>3, <1>4, <1>5, <1>6, <1>7, <1>8, <1>9, <1>10, <1>11, <1>12, <1>13
         DEF H!Next, H!Read

(* Whoever asked what runs is answered with the directory as it was when   *)
(* the question was put or later, in whatever order overlapping readings   *)
(* land.  A kill signals the process its row was written for where the     *)
(* host said when that process began, and a harness where the host could   *)
(* not say; else one that took the pid after the host last spoke of it     *)
(* (Readings.again, HarnessSessions.#settle, SessionProcesses.pid).        *)
THEOREM ReadingIsNow == RunsApart => (MCSpec => []ReadIsNow)
<1> SUFFICES ASSUME RunsApart PROVE MCSpec => []ReadIsNow
  OBVIOUS
<1> DEFINE RunsOfOne == machine = "runs" => RunsHold
<1>1. MCInit => RunsOfOne
  BY RunsStart DEF MCInit, InitRegistry, InitRestarted, InitRuns, InitTranscript, InitReplaced
<1>2. RunsOfOne /\ [MCNext]_MCvars => RunsOfOne'
  <2> SUFFICES ASSUME RunsOfOne, [MCNext]_MCvars PROVE RunsOfOne'
    OBVIOUS
  <2>1. CASE machine = "runs" /\ H!Next
    BY <2>1, RunsGoOn
  <2>2. CASE machine # "runs" /\ UNCHANGED machine
    BY <2>2
  <2>3. CASE UNCHANGED MCvars
    <3>1. UNCHANGED <<machine, proc, births, file, reading, begun, rows, kill, hits, moved>>
      BY <2>3 DEF MCvars
    <3>2. RunsHold => RunsHold'
      BY <3>1 DEF RunsHold, RunTypes, Directory, Aimed, Meant, H!ReadIsNow, H!SignalsItsRun
    <3> QED  BY <3>1, <3>2
  <2> QED  BY <2>1, <2>2, <2>3
           DEF MCNext, OnlyRegistry, OnlyRestarted, OnlyRuns, OnlyTranscript, OnlyReplaced
<1>3. RunsOfOne => ReadIsNow
  BY DEF ReadIsNow, RunsHold, Directory, Aimed
<1> QED  BY <1>1, <1>2, <1>3, PTL DEF MCSpec

-----------------------------------------------------------------------------
(* The transcript that is followed.                                        *)
Folds == Seq(Nat \X Nat)

Cached == [op : {"save", "drop"}, ino : Nat, offset : Nat, fold : Folds, frozen : BOOLEAN]

Followed ==
  [made : BOOLEAN, holds : Int, fold : Folds,
   standing : {"absent", "folding", "ready", "frozen"}, frozen : BOOLEAN, path : BOOLEAN,
   tail : 0..MaxOpens, timer : {"none", "appeared", "again"}, resumed : BOOLEAN]

Opening ==
  [at : {"none", "find", "cache", "reading", "keeping", "done"}, entry : 0..MaxEntries,
   appeared : BOOLEAN, behind : Nat]

Following ==
  [run : {"idle", "stat", "restat", "slice", "end", "stopped"}, offset : Nat, size : Nat,
   watched : BOOLEAN]

(* No entry and no cached fold are none of them (undefined, in the code).  *)
FollowApart ==
  /\ MaxEntries \in Nat /\ MaxOpens \in Nat /\ MaxFiles \in Nat \ {0}
  /\ None \notin 0..MaxEntries /\ None \notin Cached

FollowTypes ==
  /\ file \in [gen : 1..MaxFiles, ino : Nat \ {0}, records : Nat, half : BOOLEAN,
               there : BOOLEAN]
  /\ file.records > 0 \/ file.half => file.there
  /\ dup \in BOOLEAN /\ current \in {None} \cup 1..MaxEntries
  /\ entry \in [1..MaxEntries -> Followed]
  /\ opening \in [1..MaxOpens -> Opening]
  /\ tail \in [1..MaxOpens -> Following]
  /\ cache \in {None} \cup Cached /\ writing \in Seq(Cached)

(* The records of a fold are those of one file up to an offset; of the     *)
(* file as it is, unless that has shrunk and nobody has looked.            *)
Bytes(f) == IF f.there THEN 2 * f.records + (IF f.half THEN 1 ELSE 0) ELSE 0

OfOneFile(f, fold, offset) == \E gen \in 1..f.gen : fold = T!Prefix(gen, offset \div 2)

OfThisFile(f, fold, offset) == fold = T!Prefix(f.gen, offset \div 2) \/ Bytes(f) < offset

Describes(f, k) ==
  /\ k.ino <= f.ino /\ OfOneFile(f, k.fold, k.offset)
  /\ k.ino = f.ino => OfThisFile(f, k.fold, k.offset)

Busy(o) == opening[o].at \notin {"none", "done"}

Active(o) == tail[o].run \notin {"idle", "stopped"} \/ tail[o].watched

(* An entry is opened once at a time, and looked for again only when it is *)
(* not being opened.                                                       *)
Unmade == \A e \in 1..MaxEntries : ~entry[e].made => entry[e] = T!NoEntry

FrozenIsDup == current # None => entry[current].made /\ entry[current].frozen = dup

Awaited ==
  \A e \in 1..MaxEntries : entry[e].timer # "none" =>
    /\ entry[e].tail = 0 /\ ~entry[e].frozen
    /\ \A o \in 1..MaxOpens : Busy(o) => opening[o].entry # e

BusyIsMade ==
  \A o \in 1..MaxOpens : Busy(o) =>
    opening[o].entry \in 1..MaxEntries /\ entry[opening[o].entry].made

BusyIsAlone ==
  \A o, q \in 1..MaxOpens : Busy(o) /\ Busy(q) /\ opening[o].entry = opening[q].entry => o = q

NotTakenUp ==
  \A o \in 1..MaxOpens : opening[o].at \in {"find", "cache"} => entry[opening[o].entry].tail = 0

OneOpening ==
  Unmade /\ FrozenIsDup /\ Awaited /\ BusyIsMade /\ BusyIsAlone /\ NotTakenUp

(* Only the tail of the entry that is followed reads on, and what it has   *)
(* handed over is the file up to where it stands.                          *)
OneTail ==
  /\ \A e \in 1..MaxEntries : entry[e].tail = 0 => entry[e].fold = <<>>
  /\ \A o \in 1..MaxOpens : Active(o) =>
       /\ current \in 1..MaxEntries /\ current = opening[o].entry
       /\ entry[current].tail = o /\ ~entry[current].frozen
  /\ current # None /\ entry[current].tail # 0 =>
       /\ OfOneFile(file, entry[current].fold, tail[entry[current].tail].offset)
       /\ OfThisFile(file, entry[current].fold, tail[entry[current].tail].offset)

KeptIsTrue ==
  /\ \A i \in 1..Len(writing) : Describes(file, writing[i])
  /\ cache # None => Describes(file, cache)

FollowHolds == FollowTypes /\ OneOpening /\ OneTail /\ KeptIsTrue

-----------------------------------------------------------------------------
LEMMA PrefixIs ==
  ASSUME NEW g \in Nat, NEW n \in Nat
  PROVE  /\ T!Prefix(g, n) \in Folds /\ T!Prefix(g, 0) = <<>>
         /\ Append(T!Prefix(g, n), <<g, n + 1>>) = T!Prefix(g, n + 1)
<1>1. T!Prefix(g, n) \in Folds
  BY DEF T!Prefix, Folds
<1>2. T!Prefix(g, 0) = <<>>
  BY DEF T!Prefix
<1>3. Append(T!Prefix(g, n), <<g, n + 1>>) = T!Prefix(g, n + 1)
  BY DEF T!Prefix
<1> QED  BY <1>1, <1>2, <1>3

LEMMA FollowStarts == ASSUME FollowApart, T!Init PROVE FollowHolds
<1>1. /\ file = [gen |-> 1, ino |-> 1, records |-> 0, half |-> FALSE, there |-> FALSE]
      /\ dup = FALSE /\ current = None /\ cache = None /\ writing = <<>>
      /\ entry = [e \in 1..MaxEntries |-> T!NoEntry]
      /\ opening = [o \in 1..MaxOpens |-> T!NoOpening]
      /\ tail = [o \in 1..MaxOpens |-> T!NoTail]
  BY DEF T!Init, T!Entry, T!Open
<1>2. <<>> \in Folds /\ <<>> \in Seq(Cached)
  BY DEF Folds
<1>3. T!NoEntry \in Followed /\ T!NoOpening \in Opening /\ T!NoTail \in Following
  BY <1>2 DEF T!NoEntry, T!NoOpening, T!NoTail, Followed, Opening, Following, FollowApart
<1>4. FollowTypes
  <2>1. /\ file \in [gen : 1..MaxFiles, ino : Nat \ {0}, records : Nat, half : BOOLEAN,
                     there : BOOLEAN]
        /\ file.records > 0 \/ file.half => file.there
    BY <1>1 DEF FollowApart
  <2> QED  BY <1>1, <1>2, <1>3, <2>1 DEF FollowTypes
<1>5. OneOpening
  BY <1>1 DEF OneOpening, Unmade, FrozenIsDup, Awaited, BusyIsMade, BusyIsAlone,
     NotTakenUp, Busy, T!NoEntry, T!NoOpening
<1>6. OneTail
  BY <1>1 DEF OneTail, Active, T!NoEntry, T!NoTail
<1>7. KeptIsTrue
  BY <1>1 DEF KeptIsTrue
<1> QED  BY <1>4, <1>5, <1>6, <1>7 DEF FollowHolds

-----------------------------------------------------------------------------
(* The harness writes on, or another file takes the name.                  *)
Files == [gen : 1..MaxFiles, ino : Nat \ {0}, records : Nat, half : BOOLEAN, there : BOOLEAN]

WrittenOn(f, g) == g \in Files /\ g.gen = f.gen /\ g.ino = f.ino

LEMMA FoldOutlivesWriting ==
  ASSUME NEW f \in Files, NEW g, WrittenOn(f, g), NEW fold, NEW offset \in Nat,
         OfOneFile(f, fold, offset), OfThisFile(f, fold, offset),
         f.gen > 1 => offset <= Bytes(f)
  PROVE  OfOneFile(g, fold, offset) /\ OfThisFile(g, fold, offset)
<1>1. f.gen \in Nat \ {0} /\ g.gen = f.gen /\ Bytes(f) \in Nat
  BY DEF Files, WrittenOn, Bytes
<1>2. fold = T!Prefix(f.gen, offset \div 2)
  <2>1. CASE f.gen > 1
    BY <1>1, <2>1 DEF OfThisFile
  <2>2. CASE f.gen = 1
    BY <1>1, <2>2 DEF OfOneFile
  <2> QED  BY <1>1, <2>1, <2>2
<1>3. g.gen \in 1..g.gen
  BY <1>1
<1> QED  BY <1>1, <1>2, <1>3 DEF OfOneFile, OfThisFile

Replaced(f, g) ==
  /\ g \in Files /\ g.gen = f.gen + 1 /\ g.ino >= f.ino
  /\ g.records = 0 /\ ~g.half

LEMMA FoldOutlivesReplacing ==
  ASSUME NEW f \in Files, NEW g, Replaced(f, g), NEW fold, NEW offset \in Nat,
         OfOneFile(f, fold, offset)
  PROVE  OfOneFile(g, fold, offset) /\ OfThisFile(g, fold, offset)
<1>1. /\ f.gen \in Nat \ {0} /\ g.gen \in Nat /\ g.gen = f.gen + 1 /\ Bytes(g) = 0
  BY DEF Files, Replaced, Bytes
<1>2. PICK n \in 1..f.gen : fold = T!Prefix(n, offset \div 2)
  BY DEF OfOneFile
<1>3. OfOneFile(g, fold, offset)
  BY <1>1, <1>2 DEF OfOneFile
<1>4. OfThisFile(g, fold, offset)
  <2>1. CASE offset = 0
    <3>1. offset \div 2 = 0
      <4>1. 0 \div 2 = 0
        OBVIOUS
      <4> QED  BY <2>1, <4>1, Zenon
    <3>2. n \in Nat /\ g.gen \in Nat
      BY <1>1
    <3>3. T!Prefix(n, 0) = <<>> /\ T!Prefix(g.gen, 0) = <<>>
      BY <3>2, PrefixIs
    <3> QED  BY <1>2, <3>1, <3>3 DEF OfThisFile
  <2>2. CASE offset > 0
    BY <1>1, <2>2 DEF OfThisFile
  <2> QED  BY <2>1, <2>2
<1> QED  BY <1>3, <1>4

(* What is typed of the entry that is followed, and of its tail.           *)
LEMMA TailIsThere ==
  ASSUME FollowApart, FollowHolds, current # None, entry[current].tail # 0
  PROVE  /\ current \in 1..MaxEntries /\ entry[current] \in Followed
         /\ entry[current].tail \in 1..MaxOpens
         /\ tail[entry[current].tail] \in Following
         /\ tail[entry[current].tail].offset \in Nat
<1>1. current \in 1..MaxEntries /\ entry[current] \in Followed
  BY DEF FollowHolds, FollowTypes
<1>2. entry[current].tail \in 1..MaxOpens
  BY <1>1 DEF Followed, FollowApart
<1>3. tail[entry[current].tail] \in Following
  BY <1>2 DEF FollowHolds, FollowTypes
<1>4. tail[entry[current].tail].offset \in Nat
  BY <1>3 DEF Following
<1> QED  BY <1>1, <1>2, <1>3, <1>4

LEMMA WriteHolds == ASSUME FollowApart, FollowHolds, T!Write PROVE FollowHolds'
<1>1. /\ UNCHANGED <<dup, current, entry, opening, tail, cache, writing>>
      /\ file.gen > 1 => T!Accounted
  BY DEF T!Write
<1>2. file \in Files /\ (file.records > 0 \/ file.half => file.there)
  BY DEF FollowHolds, FollowTypes, Files
<1>3. WrittenOn(file, file') /\ (file'.records > 0 \/ file'.half => file'.there)
  <2>1. CASE ~file.there /\ file' = [file EXCEPT !.there = TRUE]
    BY <1>2, <2>1 DEF WrittenOn, Files
  <2>2. CASE file.there /\ file' = [file EXCEPT !.half = TRUE]
    BY <1>2, <2>2 DEF WrittenOn, Files
  <2>3. CASE file.half /\ file' = [file EXCEPT !.half = FALSE, !.records = @ + 1]
    <3>1. /\ file.gen \in 1..MaxFiles /\ file.ino \in Nat \ {0} /\ file.records \in Nat
          /\ file.there
      BY <1>2, <2>3 DEF Files
    <3>2. file' = [gen |-> file.gen, ino |-> file.ino, records |-> file.records + 1,
                   half |-> FALSE, there |-> TRUE]
      BY <1>2, <2>3, <3>1 DEF Files
    <3> QED  BY <3>1, <3>2 DEF WrittenOn, Files
  <2> QED  BY <2>1, <2>2, <2>3 DEF T!Write
<1>4. FollowTypes'
  <2>1. FollowTypes
    BY DEF FollowHolds
  <2>2. file' \in Files
    BY <1>3 DEF WrittenOn
  <2> QED  BY <1>1, <1>3, <2>1, <2>2 DEF FollowTypes, Files
<1>5. OneOpening'
  BY <1>1 DEF FollowHolds, OneOpening, Unmade, FrozenIsDup, Awaited,
       BusyIsMade, BusyIsAlone, NotTakenUp, Busy
<1>6. OneTail'
  <2>1. ASSUME current # None, entry[current].tail # 0
        PROVE  /\ OfOneFile(file', entry[current].fold, tail[entry[current].tail].offset)
               /\ OfThisFile(file', entry[current].fold, tail[entry[current].tail].offset)
    <3> DEFINE o == entry[current].tail
    <3>1. current \in 1..MaxEntries /\ o \in 1..MaxOpens /\ tail[o].offset \in Nat
      BY <2>1, TailIsThere
    <3>2. file.gen > 1 => tail[o].offset <= Bytes(file)
      <4> SUFFICES ASSUME file.gen > 1 PROVE tail[o].offset <= Bytes(file)
        OBVIOUS
      <4>1. T!Accounted
        BY <1>1
      <4> QED  BY <3>1, <4>1 DEF T!Accounted, T!Open, T!Entry, T!Size, Bytes
    <3>3. /\ OfOneFile(file, entry[current].fold, tail[o].offset)
          /\ OfThisFile(file, entry[current].fold, tail[o].offset)
      BY <2>1 DEF FollowHolds, OneTail
    <3> QED  BY <1>2, <1>3, <3>1, <3>2, <3>3, FoldOutlivesWriting
  <2> QED  BY <1>1, <2>1 DEF FollowHolds, OneTail, Active
<1>7. ASSUME NEW k \in Cached, Describes(file, k),
             file.gen > 1 /\ k.ino = file.ino => k.offset <= Bytes(file)
      PROVE  Describes(file', k)
  <2>1. k.offset \in Nat
    BY DEF Cached
  <2>2. k.ino = file.ino =>
          OfOneFile(file', k.fold, k.offset) /\ OfThisFile(file', k.fold, k.offset)
    BY <1>2, <1>3, <1>7, <2>1, FoldOutlivesWriting DEF Describes
  <2>3. OfOneFile(file', k.fold, k.offset)
    BY <1>3, <1>7 DEF Describes, OfOneFile, WrittenOn
  <2> QED  BY <1>3, <1>7, <2>2, <2>3 DEF Describes, WrittenOn
<1>8. KeptIsTrue'
  <2>1. \A i \in 1..Len(writing) : Describes(file', writing[i])
    <3> SUFFICES ASSUME NEW i \in 1..Len(writing) PROVE Describes(file', writing[i])
      OBVIOUS
    <3>1. writing[i] \in Cached /\ Describes(file, writing[i]) /\ i \in DOMAIN writing
      BY DEF FollowHolds, FollowTypes, KeptIsTrue
    <3>2. file.gen > 1 /\ writing[i].ino = file.ino => writing[i].offset <= Bytes(file)
      <4> SUFFICES ASSUME file.gen > 1, writing[i].ino = file.ino
                   PROVE  writing[i].offset <= Bytes(file)
        OBVIOUS
      <4>1. T!Accounted
        BY <1>1
      <4> QED  BY <3>1, <4>1 DEF T!Accounted, T!Size, Bytes
    <3> QED  BY <1>7, <3>1, <3>2
  <2>2. cache # None => Describes(file', cache)
    <3> SUFFICES ASSUME cache # None PROVE Describes(file', cache)
      OBVIOUS
    <3>1. cache \in Cached /\ Describes(file, cache)
      BY DEF FollowHolds, FollowTypes, KeptIsTrue
    <3>2. file.gen > 1 /\ cache.ino = file.ino => cache.offset <= Bytes(file)
      <4> SUFFICES ASSUME file.gen > 1, cache.ino = file.ino
                   PROVE  cache.offset <= Bytes(file)
        OBVIOUS
      <4>1. T!Accounted
        BY <1>1
      <4> QED  BY <4>1 DEF T!Accounted, T!Size, Bytes
    <3> QED  BY <1>7, <3>1, <3>2
  <2> QED  BY <1>1, <2>1, <2>2 DEF KeptIsTrue
<1> QED  BY <1>4, <1>5, <1>6, <1>8 DEF FollowHolds

LEMMA ReplaceHolds ==
  ASSUME FollowApart, FollowHolds, NEW another \in BOOLEAN, T!Replace(another)
  PROVE  FollowHolds'
<1>1. UNCHANGED <<dup, current, entry, opening, tail, cache, writing>>
  BY DEF T!Replace
<1>2. file \in Files
  BY DEF FollowHolds, FollowTypes, Files
<1>3. Replaced(file, file') /\ file'.there
  BY <1>2 DEF T!Replace, Replaced, Files, FollowApart
<1>4. FollowTypes'
  <2>1. FollowTypes
    BY DEF FollowHolds
  <2>2. file' \in Files /\ file'.there
    BY <1>3 DEF Replaced
  <2> QED  BY <1>1, <2>1, <2>2 DEF FollowTypes, Files
<1>5. OneOpening'
  BY <1>1 DEF FollowHolds, OneOpening, Unmade, FrozenIsDup, Awaited,
       BusyIsMade, BusyIsAlone, NotTakenUp, Busy
<1>6. OneTail'
  <2>1. ASSUME current # None, entry[current].tail # 0
        PROVE  /\ OfOneFile(file', entry[current].fold, tail[entry[current].tail].offset)
               /\ OfThisFile(file', entry[current].fold, tail[entry[current].tail].offset)
    <3> DEFINE o == entry[current].tail
    <3>1. current \in 1..MaxEntries /\ o \in 1..MaxOpens /\ tail[o].offset \in Nat
      BY <2>1, TailIsThere
    <3>2. OfOneFile(file, entry[current].fold, tail[o].offset)
      BY <2>1 DEF FollowHolds, OneTail
    <3> QED  BY <1>2, <1>3, <3>1, <3>2, FoldOutlivesReplacing
  <2> QED  BY <1>1, <2>1 DEF FollowHolds, OneTail, Active
<1>7. ASSUME NEW k \in Cached, Describes(file, k) PROVE Describes(file', k)
  <2>1. k.offset \in Nat /\ k.ino \in Nat
    BY DEF Cached
  <2>2. OfOneFile(file', k.fold, k.offset) /\ OfThisFile(file', k.fold, k.offset)
    BY <1>2, <1>3, <1>7, <2>1, FoldOutlivesReplacing DEF Describes
  <2>3. k.ino <= file'.ino
    BY <1>2, <1>3, <1>7, <2>1 DEF Describes, Replaced, Files
  <2> QED  BY <2>2, <2>3 DEF Describes
<1>8. KeptIsTrue'
  <2>1. \A i \in 1..Len(writing) : writing[i] \in Cached /\ Describes(file, writing[i])
    BY DEF FollowHolds, FollowTypes, KeptIsTrue
  <2>2. cache # None => cache \in Cached /\ Describes(file, cache)
    BY DEF FollowHolds, FollowTypes, KeptIsTrue
  <2> QED  BY <1>1, <1>7, <2>1, <2>2 DEF KeptIsTrue
<1> QED  BY <1>4, <1>5, <1>6, <1>8 DEF FollowHolds

LEMMA StateHolds == ASSUME FollowApart, FollowHolds, T!State PROVE FollowHolds'
<1>1. UNCHANGED <<file, dup, current, entry, opening, tail, cache, writing>>
  BY DEF T!State
<1> QED  BY <1>1 DEF FollowHolds, FollowTypes, OneOpening, Unmade, FrozenIsDup, Awaited,
     BusyIsMade, BusyIsAlone, NotTakenUp, Busy, OneTail, Active, KeptIsTrue

-----------------------------------------------------------------------------
(* What the cache was told lands, and a tail looks again.                  *)
LEMMA KeptStands ==
  ASSUME KeptIsTrue, UNCHANGED <<file, cache, writing>>
  PROVE  KeptIsTrue'
BY DEF KeptIsTrue

LEMMA LandsHolds == ASSUME FollowApart, FollowHolds, T!Lands PROVE FollowHolds'
<1>1. /\ UNCHANGED <<file, dup, current, entry, tail>>
      /\ writing # <<>> /\ writing' = Tail(writing)
      /\ cache' \in {Head(writing), cache, None}
      /\ opening' = [o \in 1..MaxOpens |->
                       IF opening[o].behind > 0
                       THEN [opening[o] EXCEPT !.behind = @ - 1] ELSE opening[o]]
  BY DEF T!Lands, T!Open
<1>2. writing \in Seq(Cached) /\ opening \in [1..MaxOpens -> Opening]
  BY DEF FollowHolds, FollowTypes
<1>3. /\ Tail(writing) \in Seq(Cached) /\ Head(writing) \in Cached
      /\ Len(writing) \in Nat \ {0} /\ Len(Tail(writing)) = Len(writing) - 1
      /\ Head(writing) = writing[1]
      /\ \A i \in 1..Len(Tail(writing)) : Tail(writing)[i] = writing[i + 1]
  BY <1>1, <1>2
<1>4. \A o \in 1..MaxOpens : /\ opening'[o] \in Opening
                             /\ opening'[o].at = opening[o].at
                             /\ opening'[o].entry = opening[o].entry
  <2> SUFFICES ASSUME NEW o \in 1..MaxOpens
               PROVE  /\ opening'[o] \in Opening
                      /\ opening'[o].at = opening[o].at
                      /\ opening'[o].entry = opening[o].entry
    OBVIOUS
  <2>1. opening[o] \in Opening
    BY <1>2
  <2>2. opening'[o] = IF opening[o].behind > 0
                      THEN [opening[o] EXCEPT !.behind = opening[o].behind - 1] ELSE opening[o]
    BY <1>1
  <2> QED  BY <2>1, <2>2 DEF Opening
<1>5. FollowTypes'
  <2>1. opening' \in [1..MaxOpens -> Opening]
    BY <1>1, <1>4
  <2>2. cache' \in {None} \cup Cached
    BY <1>1, <1>3 DEF FollowHolds, FollowTypes
  <2> QED  BY <1>1, <1>3, <2>1, <2>2 DEF FollowHolds, FollowTypes
<1>6. OneOpening'
  BY <1>1, <1>4 DEF FollowHolds, OneOpening, Unmade, FrozenIsDup, Awaited,
       BusyIsMade, BusyIsAlone, NotTakenUp, Busy
<1>7. OneTail'
  BY <1>1, <1>4 DEF FollowHolds, OneTail, Active
<1>8. KeptIsTrue'
  <2>1. \A i \in 1..Len(writing) : Describes(file, writing[i])
    BY DEF FollowHolds, KeptIsTrue
  <2>2. \A i \in 1..Len(writing') : Describes(file', writing'[i])
    <3> SUFFICES ASSUME NEW i \in 1..Len(Tail(writing)) PROVE Describes(file, Tail(writing)[i])
      BY <1>1
    <3>1. i + 1 \in 1..Len(writing)
      BY <1>3
    <3> QED  BY <1>3, <2>1, <3>1
  <2>3. Describes(file, Head(writing))
    BY <1>3, <2>1
  <2>4. cache' # None => Describes(file', cache')
    BY <1>1, <2>3 DEF FollowHolds, KeptIsTrue
  <2> QED  BY <2>2, <2>4 DEF KeptIsTrue
<1> QED  BY <1>5, <1>6, <1>7, <1>8 DEF FollowHolds

LEMMA RefreshHolds ==
  ASSUME FollowApart, FollowHolds, NEW o \in 1..MaxOpens, T!Refresh(o)
  PROVE  FollowHolds'
<1>1. /\ UNCHANGED <<file, dup, current, entry, opening, cache, writing>>
      /\ tail[o].watched /\ tail' = [tail EXCEPT ![o].run = "restat"]
  BY DEF T!Refresh
<1>2. tail \in [1..MaxOpens -> Following] /\ tail[o] \in Following
  BY DEF FollowHolds, FollowTypes
<1>3. /\ tail' \in [1..MaxOpens -> Following]
      /\ \A p \in 1..MaxOpens : tail'[p].offset = tail[p].offset
      /\ \A p \in 1..MaxOpens : p # o => tail'[p] = tail[p]
  BY <1>1, <1>2 DEF Following
<1>4. FollowTypes'
  BY <1>1, <1>3 DEF FollowHolds, FollowTypes
<1>5. OneOpening'
  BY <1>1 DEF FollowHolds, OneOpening, Unmade, FrozenIsDup, Awaited,
       BusyIsMade, BusyIsAlone, NotTakenUp, Busy
<1>6. OneTail'
  <2>1. \A p \in 1..MaxOpens : Active(p)' => Active(p)
    BY <1>1, <1>3 DEF Active
  <2>2. current # None /\ entry[current].tail # 0 => entry[current].tail \in 1..MaxOpens
    BY TailIsThere
  <2> QED  BY <1>1, <1>3, <2>1, <2>2 DEF FollowHolds, OneTail
<1>7. KeptIsTrue'
  BY <1>1, KeptStands DEF FollowHolds
<1> QED  BY <1>4, <1>5, <1>6, <1>7 DEF FollowHolds

(* A tail that is let go of stops where it stands (#let).                  *)
LetGo(c) ==
  /\ tail' \in [1..MaxOpens -> Following]
  /\ \A o \in 1..MaxOpens : tail'[o].offset = tail[o].offset
  /\ \A o \in 1..MaxOpens : o # entry[c].tail => tail'[o] = tail[o]
  /\ entry[c].tail # 0 => tail'[entry[c].tail].run = "stopped" /\ ~tail'[entry[c].tail].watched

LEMMA LetStops ==
  ASSUME FollowApart, FollowHolds, NEW c \in 1..MaxEntries, tail' = T!Let(c)
  PROVE  LetGo(c)
<1>1. tail \in [1..MaxOpens -> Following] /\ entry[c].tail \in 0..MaxOpens
  BY DEF FollowHolds, FollowTypes, Followed
<1>2. CASE entry[c].tail = 0
  BY <1>1, <1>2 DEF T!Let, LetGo
<1>3. CASE entry[c].tail # 0
  <2> DEFINE o == entry[c].tail
             t == [tail[o] EXCEPT !.run = "stopped", !.watched = FALSE]
  <2>1. o \in 1..MaxOpens
    BY <1>1, <1>3 DEF FollowApart
  <2>2. t \in Following /\ t.run = "stopped" /\ ~t.watched /\ t.offset = tail[o].offset
    BY <1>1, <2>1 DEF Following
  <2>3. tail' = [tail EXCEPT ![o] = t]
    BY <1>3 DEF T!Let
  <2> HIDE DEF t
  <2> QED  BY <1>1, <1>3, <2>1, <2>2, <2>3 DEF LetGo
<1> QED  BY <1>2, <1>3

(* Once the tail of the entry that is followed was let go of, none reads.  *)
LEMMA NoneReads ==
  ASSUME FollowHolds, current # None, LetGo(current), NEW o \in 1..MaxOpens
  PROVE  ~Active(o)'
<1>1. CASE o = entry[current].tail
  BY <1>1 DEF LetGo, Active
<1>2. CASE o # entry[current].tail
  BY <1>2 DEF LetGo, Active, FollowHolds, OneTail
<1> QED  BY <1>1, <1>2

(* Where no opening is begun, one entry may change with its openings.      *)
LEMMA OpeningGoesOn ==
  ASSUME FollowHolds, NEW c \in 1..MaxEntries, entry'[c].made,
         \A x \in 1..MaxEntries : x # c => entry'[x] = entry[x],
         \A o \in 1..MaxOpens : Busy(o)' => Busy(o) /\ opening'[o].entry = opening[o].entry,
         \A o \in 1..MaxOpens : opening'[o].at \in {"find", "cache"} =>
           entry'[opening'[o].entry].tail = 0,
         current' # None => entry'[current'].made /\ entry'[current'].frozen = dup',
         entry'[c].timer # "none" =>
           /\ entry'[c].tail = 0 /\ ~entry'[c].frozen
           /\ \A o \in 1..MaxOpens : Busy(o)' => opening'[o].entry # c
  PROVE  OneOpening'
<1> USE DEF FollowHolds, OneOpening
<1>1. Unmade'
  BY DEF Unmade
<1>2. FrozenIsDup'
  BY DEF FrozenIsDup
<1>3. Awaited'
  <2> SUFFICES ASSUME NEW e \in 1..MaxEntries, entry'[e].timer # "none"
               PROVE  /\ entry'[e].tail = 0 /\ ~entry'[e].frozen
                      /\ \A o \in 1..MaxOpens : Busy(o)' => opening'[o].entry # e
    BY DEF Awaited
  <2>1. CASE e = c
    BY <2>1
  <2>2. CASE e # c
    BY <2>2 DEF Awaited
  <2> QED  BY <2>1, <2>2
<1>4. BusyIsMade'
  BY DEF BusyIsMade
<1>5. BusyIsAlone'
  BY DEF BusyIsAlone
<1>6. NotTakenUp'
  BY DEF NotTakenUp
<1> QED  BY <1>1, <1>2, <1>3, <1>4, <1>5, <1>6

LEMMA FreezeHolds == ASSUME FollowApart, FollowHolds, T!Freeze PROVE FollowHolds'
<1>1. UNCHANGED <<file, current, opening, cache, writing>> /\ dup' = TRUE
  BY DEF T!Freeze
<1>2. KeptIsTrue'
  BY <1>1, KeptStands DEF FollowHolds
<1>3. CASE current = None
  <2>1. UNCHANGED <<entry, tail>>
    BY <1>3 DEF T!Freeze
  <2>2. FollowTypes'
    BY <1>1, <2>1 DEF FollowHolds, FollowTypes
  <2>3. OneOpening'
    BY <1>1, <1>3, <2>1 DEF FollowHolds, OneOpening, Unmade, FrozenIsDup, Awaited,
       BusyIsMade, BusyIsAlone, NotTakenUp, Busy
  <2>4. OneTail'
    BY <1>1, <1>3, <2>1 DEF FollowHolds, OneTail, Active
  <2> QED  BY <1>2, <2>2, <2>3, <2>4 DEF FollowHolds
<1>4. CASE current # None
  <2> DEFINE c == current
             e == [entry[c] EXCEPT !.frozen = TRUE, !.standing = "frozen", !.timer = "none"]
  <2>1. c \in 1..MaxEntries /\ entry \in [1..MaxEntries -> Followed] /\ entry[c] \in Followed
    BY <1>4 DEF FollowHolds, FollowTypes
  <2>2. /\ e \in Followed /\ e.frozen = TRUE /\ e.timer = "none" /\ e.made = entry[c].made
        /\ e.tail = entry[c].tail /\ e.fold = entry[c].fold
    BY <2>1 DEF Followed
  <2>3. entry' = [entry EXCEPT ![c] = e] /\ tail' = T!Let(c)
    BY <1>4 DEF T!Freeze
  <2> HIDE DEF e
  <2>4. /\ entry' \in [1..MaxEntries -> Followed] /\ entry'[c] = e
        /\ \A x \in 1..MaxEntries : x # c => entry'[x] = entry[x]
    BY <2>1, <2>2, <2>3
  <2>5. LetGo(c)
    BY <2>1, <2>3, LetStops
  <2>6. FollowTypes'
    BY <1>1, <2>4, <2>5 DEF FollowHolds, FollowTypes, LetGo
  <2>7. OneOpening'
    <3>1. entry[c].made
      BY <1>4 DEF FollowHolds, OneOpening, FrozenIsDup
    <3>2. \A o \in 1..MaxOpens : opening[o].at \in {"find", "cache"} =>
            entry'[opening[o].entry].tail = 0
      <4> SUFFICES ASSUME NEW o \in 1..MaxOpens, opening[o].at \in {"find", "cache"}
                   PROVE  entry'[opening[o].entry].tail = 0
        OBVIOUS
      <4>1. opening[o].entry \in 1..MaxEntries /\ entry[opening[o].entry].tail = 0
        BY DEF FollowHolds, OneOpening, BusyIsMade, NotTakenUp, Busy
      <4> QED  BY <2>2, <2>4, <4>1
    <3>3. \A o \in 1..MaxOpens : Busy(o)' => Busy(o)
      BY <1>1 DEF Busy
    <3>4. current' # None => entry'[current'].made /\ entry'[current'].frozen = dup'
      BY <1>1, <2>2, <2>4, <3>1
    <3>5. entry'[c].made /\ entry'[c].timer = "none"
      BY <2>2, <2>4, <3>1
    <3> QED  BY <1>1, <2>1, <2>4, <3>2, <3>3, <3>4, <3>5, OpeningGoesOn
  <2>8. OneTail'
    <3>1. \A o \in 1..MaxOpens : ~Active(o)'
      BY <1>4, <2>5, NoneReads
    <3>2. entry[c].tail # 0 => tail'[entry[c].tail].offset = tail[entry[c].tail].offset
      BY <1>4, <2>5, TailIsThere DEF LetGo
    <3> QED  BY <1>1, <1>4, <2>1, <2>2, <2>4, <3>1, <3>2 DEF FollowHolds, OneTail
  <2> QED  BY <1>2, <2>6, <2>7, <2>8 DEF FollowHolds
<1> QED  BY <1>3, <1>4

-----------------------------------------------------------------------------
(* What is written down of the entry that is followed, and what is dropped *)
(* (Transcripts.#remember, FoldCache.drop).                                *)
LEMMA KeptGrows ==
  ASSUME FollowHolds, NEW k \in Cached, Describes(file, k), writing' = Append(writing, k),
         UNCHANGED <<file, cache>>
  PROVE  KeptIsTrue' /\ writing' \in Seq(Cached)
<1>1. writing \in Seq(Cached)
  BY DEF FollowHolds, FollowTypes
<1>2. /\ writing' \in Seq(Cached) /\ Len(writing') = Len(writing) + 1 /\ Len(writing) \in Nat
      /\ writing'[Len(writing) + 1] = k
      /\ \A i \in 1..Len(writing) : writing'[i] = writing[i]
  BY <1>1, AppendProperties
<1>3. \A i \in 1..Len(writing') : Describes(file', writing'[i])
  <2> SUFFICES ASSUME NEW i \in 1..Len(writing') PROVE Describes(file, writing'[i])
    OBVIOUS
  <2>1. CASE i \in 1..Len(writing)
    BY <1>2, <2>1 DEF FollowHolds, KeptIsTrue
  <2>2. CASE i = Len(writing) + 1
    BY <1>2, <2>2
  <2> QED  BY <1>2, <2>1, <2>2
<1> QED  BY <1>2, <1>3 DEF FollowHolds, KeptIsTrue

LEMMA DroppedIsTrue ==
  ASSUME FollowApart, FollowHolds
  PROVE  T!Dropped \in Cached /\ Describes(file, T!Dropped)
<1>1. file \in Files
  BY DEF FollowHolds, FollowTypes, Files
<1>2. file.ino \in Nat \ {0} /\ file.gen \in Nat \ {0}
  BY <1>1 DEF Files
<1>3. T!Dropped \in Cached
  <2>1. <<>> \in Folds
    BY DEF Folds
  <2> QED  BY <2>1 DEF T!Dropped, Cached
<1>4. /\ T!Dropped.ino = 0 /\ T!Dropped.offset = 0 /\ T!Dropped.fold = <<>>
  BY DEF T!Dropped
<1>5. OfOneFile(file, <<>>, 0)
  <2>1. 0 \div 2 = 0 /\ file.gen \in 1..file.gen
    BY <1>2
  <2>2. T!Prefix(file.gen, 0) = <<>>
    BY <1>2, PrefixIs
  <2> QED  BY <2>1, <2>2 DEF OfOneFile
<1> QED  BY <1>2, <1>3, <1>4, <1>5 DEF Describes

LEMMA KeptRemembers ==
  ASSUME FollowApart, FollowHolds, NEW c, c = current, current # None,
         writing' = writing \o T!Remember(c), UNCHANGED <<file, cache>>
  PROVE  KeptIsTrue' /\ writing' \in Seq(Cached)
<1>1. writing \in Seq(Cached)
  BY DEF FollowHolds, FollowTypes
<1>2. CASE T!Remember(c) = <<>>
  <2>1. writing' = writing
    BY <1>1, <1>2, ConcatEmptySeq
  <2> QED  BY <1>1, <2>1 DEF FollowHolds, KeptIsTrue
<1>3. CASE entry[c].tail # 0 /\ T!Remember(c) = <<T!Saved(c)>>
  <2>1. /\ entry[c] \in Followed /\ tail[entry[c].tail].offset \in Nat
    BY <1>3, TailIsThere
  <2>2. file.ino \in Nat
    BY DEF FollowHolds, FollowTypes
  <2>3. T!Saved(c) \in Cached
    BY <2>1, <2>2 DEF T!Saved, Cached, Followed
  <2>4. Describes(file, T!Saved(c))
    BY <1>3, <2>2 DEF Describes, T!Saved, FollowHolds, OneTail
  <2>5. writing' = Append(writing, T!Saved(c))
    BY <1>1, <1>3, <2>3
  <2> QED  BY <2>3, <2>4, <2>5, KeptGrows
<1> QED  BY <1>2, <1>3 DEF T!Remember

(* No tail goes on or is changed.                                          *)
LEMMA TailStays ==
  ASSUME FollowHolds, UNCHANGED <<file, tail, current>>,
         \A x \in 1..MaxEntries : /\ entry'[x].tail = entry[x].tail
                                  /\ entry'[x].fold = entry[x].fold
                                  /\ entry'[x].frozen = entry[x].frozen,
         \A o \in 1..MaxOpens : Active(o) => opening'[o].entry = opening[o].entry
  PROVE  OneTail'
<1>1. current # None => current \in 1..MaxEntries
  BY DEF FollowHolds, FollowTypes
<1> QED  BY <1>1 DEF FollowHolds, OneTail, Active

(* An opening that goes on or ends, of one entry.                          *)
LEMMA BusyEntry ==
  ASSUME FollowHolds, NEW o \in 1..MaxOpens, Busy(o)
  PROVE  /\ opening[o] \in Opening /\ opening[o].entry \in 1..MaxEntries
         /\ entry[opening[o].entry] \in Followed /\ entry[opening[o].entry].made
         /\ entry \in [1..MaxEntries -> Followed] /\ opening \in [1..MaxOpens -> Opening]
BY DEF FollowHolds, FollowTypes, OneOpening, BusyIsMade

GoesTo(o, at) ==
  /\ opening' \in [1..MaxOpens -> Opening]
  /\ opening'[o].at = at /\ opening'[o].entry = opening[o].entry
  /\ \A p \in 1..MaxOpens : p # o => opening'[p] = opening[p]

LEMMA EndsThere ==
  ASSUME FollowHolds, NEW o \in 1..MaxOpens, opening' = T!Ended(o)
  PROVE  GoesTo(o, "done")
<1>1. opening \in [1..MaxOpens -> Opening] /\ opening[o] \in Opening
  BY DEF FollowHolds, FollowTypes
<1> QED  BY <1>1 DEF T!Ended, GoesTo, Opening

(* A step of an opening that leaves what the others hold of its entry.     *)
LEMMA OpeningKeepsOn ==
  ASSUME FollowHolds, NEW o \in 1..MaxOpens, Busy(o), UNCHANGED <<dup, current>>,
         NEW at, GoesTo(o, at),
         at \in {"find", "cache"} => entry'[opening[o].entry].tail = 0,
         \A x \in 1..MaxEntries : x # opening[o].entry => entry'[x] = entry[x],
         entry'[opening[o].entry].made,
         entry'[opening[o].entry].frozen = entry[opening[o].entry].frozen,
         entry'[opening[o].entry].timer # "none" =>
           /\ at = "done"
           /\ entry'[opening[o].entry].tail = 0 /\ ~entry'[opening[o].entry].frozen
  PROVE  OneOpening'
<1> DEFINE c == opening[o].entry
<1>1. c \in 1..MaxEntries
  BY BusyEntry
<1>2. \A p \in 1..MaxOpens : Busy(p)' => Busy(p) /\ opening'[p].entry = opening[p].entry
  BY DEF GoesTo, Busy
<1>3. \A p \in 1..MaxOpens : Busy(p) /\ p # o => opening[p].entry # c
  BY DEF FollowHolds, OneOpening, BusyIsAlone
<1>4. ASSUME NEW p \in 1..MaxOpens, opening'[p].at \in {"find", "cache"}
      PROVE  entry'[opening'[p].entry].tail = 0
  <2>1. CASE p = o
    BY <1>4, <2>1 DEF GoesTo
  <2>2. CASE p # o
    <3>1. opening'[p] = opening[p] /\ Busy(p)
      BY <1>4, <2>2 DEF GoesTo, Busy
    <3>2. opening[p].entry \in 1..MaxEntries /\ opening[p].entry # c
      BY <1>3, <2>2, <3>1, BusyEntry
    <3>3. entry[opening[p].entry].tail = 0
      BY <1>4, <3>1 DEF FollowHolds, OneOpening, NotTakenUp
    <3> QED  BY <3>1, <3>2, <3>3
  <2> QED  BY <2>1, <2>2
<1>5. current' # None => entry'[current'].made /\ entry'[current'].frozen = dup'
  <2> SUFFICES ASSUME current # None PROVE entry'[current].made /\ entry'[current].frozen = dup
    OBVIOUS
  <2>1. current \in 1..MaxEntries /\ entry[current].made /\ entry[current].frozen = dup
    BY DEF FollowHolds, FollowTypes, OneOpening, FrozenIsDup
  <2>2. CASE current = c
    BY <2>1, <2>2
  <2>3. CASE current # c
    BY <2>1, <2>3
  <2> QED  BY <2>2, <2>3
<1>6. ASSUME entry'[c].timer # "none", NEW p \in 1..MaxOpens, Busy(p)'
      PROVE  opening'[p].entry # c
  <2>1. opening'[o].at = "done"
    BY <1>6 DEF GoesTo
  <2>2. p # o
    BY <1>6, <2>1 DEF Busy
  <2> QED  BY <1>2, <1>3, <1>6, <2>2
<1> QED  BY <1>1, <1>2, <1>4, <1>5, <1>6, OpeningGoesOn

LEMMA FinishedHolds ==
  ASSUME FollowApart, FollowHolds, NEW o \in 1..MaxOpens, T!Finished(o)
  PROVE  FollowHolds'
<1> DEFINE c == opening[o].entry
           s == IF tail[o].size > 0 THEN "ready" ELSE "absent"
           e == [entry[c] EXCEPT !.standing = s]
<1>1. /\ UNCHANGED <<file, dup, current, tail, cache, writing>>
      /\ opening[o].at = "keeping" /\ opening' = T!Ended(o)
      /\ entry' = [entry EXCEPT ![c] = e]
  BY DEF T!Finished
<1>2. c \in 1..MaxEntries /\ entry \in [1..MaxEntries -> Followed] /\ entry[c] \in Followed
      /\ entry[c].made
  BY <1>1, BusyEntry DEF Busy
<1>3. /\ e \in Followed /\ e.made = entry[c].made /\ e.tail = entry[c].tail
      /\ e.fold = entry[c].fold /\ e.frozen = entry[c].frozen /\ e.timer = entry[c].timer
  BY <1>2 DEF Followed
<1> HIDE DEF e
<1>4. /\ entry' \in [1..MaxEntries -> Followed] /\ entry'[c] = e
      /\ \A x \in 1..MaxEntries : x # c => entry'[x] = entry[x]
  BY <1>1, <1>2, <1>3
<1>5. GoesTo(o, "done")
  BY <1>1, EndsThere
<1>6. FollowTypes'
  BY <1>1, <1>4, <1>5 DEF FollowHolds, FollowTypes, GoesTo
<1>7. OneOpening'
  <2>1. e.timer = "none"
    BY <1>1, <1>2, <1>3 DEF FollowHolds, OneOpening, Awaited, Busy
  <2> QED  BY <1>1, <1>2, <1>3, <1>4, <1>5, <2>1, OpeningKeepsOn DEF Busy
<1>8. OneTail'
  BY <1>1, <1>3, <1>4, <1>5, TailStays DEF GoesTo
<1>9. KeptIsTrue'
  BY <1>1, KeptStands DEF FollowHolds
<1> QED  BY <1>6, <1>7, <1>8, <1>9 DEF FollowHolds

LEMMA WantedIsCurrent ==
  ASSUME FollowHolds, NEW c \in 1..MaxEntries
  PROVE  T!Wanted(c) <=> current = c /\ ~entry[c].frozen
BY DEF T!Wanted, T!Holds

LEMMA FindHolds ==
  ASSUME FollowApart, FollowHolds, NEW o \in 1..MaxOpens, T!Find(o)
  PROVE  FollowHolds'
<1> DEFINE c == opening[o].entry
<1>1. /\ UNCHANGED <<file, dup, current, tail, cache, writing>> /\ opening[o].at = "find"
  BY DEF T!Find
<1>2. /\ c \in 1..MaxEntries /\ entry \in [1..MaxEntries -> Followed] /\ entry[c] \in Followed
      /\ entry[c].made /\ opening \in [1..MaxOpens -> Opening] /\ Busy(o)
  BY <1>1, BusyEntry DEF Busy
<1>3. entry[c].tail = 0 /\ entry[c].timer = "none"
  BY <1>1, <1>2 DEF FollowHolds, OneOpening, NotTakenUp, Awaited
<1>4. ASSUME NEW at \in {"done", "cache"}, GoesTo(o, at),
             NEW e \in Followed, entry' = [entry EXCEPT ![c] = e],
             e.made, e.tail = 0, e.fold = entry[c].fold, e.frozen = entry[c].frozen,
             e.timer # "none" => at = "done" /\ ~e.frozen
      PROVE  FollowHolds'
  <2>1. /\ entry' \in [1..MaxEntries -> Followed] /\ entry'[c] = e
        /\ \A x \in 1..MaxEntries : x # c => entry'[x] = entry[x]
    BY <1>2, <1>4
  <2>2. FollowTypes'
    BY <1>1, <1>4, <2>1 DEF FollowHolds, FollowTypes, GoesTo
  <2>3. OneOpening'
    BY <1>1, <1>2, <1>4, <2>1, OpeningKeepsOn
  <2>4. OneTail'
    <3>1. \A x \in 1..MaxEntries : /\ entry'[x].tail = entry[x].tail
                                   /\ entry'[x].fold = entry[x].fold
                                   /\ entry'[x].frozen = entry[x].frozen
      BY <1>3, <1>4, <2>1
    <3>2. \A p \in 1..MaxOpens : opening'[p].entry = opening[p].entry
      BY <1>4 DEF GoesTo
    <3> QED  BY <1>1, <3>1, <3>2, TailStays
  <2>5. KeptIsTrue'
    BY <1>1, KeptStands DEF FollowHolds
  <2> QED  BY <2>2, <2>3, <2>4, <2>5 DEF FollowHolds
<1>5. CASE opening' = T!Ended(o) /\ UNCHANGED entry
  <2>1. GoesTo(o, "done")
    BY <1>5, EndsThere
  <2>2. entry' = [entry EXCEPT ![c] = entry[c]]
    BY <1>2, <1>5
  <2> QED  BY <1>2, <1>3, <1>4, <2>1, <2>2
<1>6. CASE /\ T!Wanted(c) /\ opening' = T!Ended(o)
           /\ entry' = [entry EXCEPT ![c].standing = "absent", ![c].timer = "appeared"]
  <2> DEFINE e == [entry[c] EXCEPT !.standing = "absent", !.timer = "appeared"]
  <2>1. GoesTo(o, "done")
    BY <1>6, EndsThere
  <2>2. /\ e \in Followed /\ e.made = entry[c].made /\ e.tail = entry[c].tail
        /\ e.fold = entry[c].fold /\ e.frozen = entry[c].frozen
    BY <1>2 DEF Followed
  <2>3. ~entry[c].frozen
    BY <1>2, <1>6, WantedIsCurrent
  <2>4. entry' = [entry EXCEPT ![c] = e]
    BY <1>2, <1>6
  <2> HIDE DEF e
  <2> QED  BY <1>2, <1>3, <1>4, <2>1, <2>2, <2>3, <2>4
<1>7. CASE /\ opening' = [opening EXCEPT ![o].at = "cache", ![o].behind = Len(writing)]
           /\ entry' = [entry EXCEPT ![c].standing = "folding", ![c].path = TRUE]
  <2> DEFINE e == [entry[c] EXCEPT !.standing = "folding", !.path = TRUE]
             p == [opening[o] EXCEPT !.at = "cache", !.behind = Len(writing)]
  <2>1. Len(writing) \in Nat
    BY DEF FollowHolds, FollowTypes
  <2>2. p \in Opening /\ p.at = "cache" /\ p.entry = opening[o].entry
    BY <1>2, <2>1 DEF Opening
  <2>3. opening' = [opening EXCEPT ![o] = p]
    BY <1>2, <1>7
  <2> HIDE DEF p
  <2>4. GoesTo(o, "cache")
    BY <1>2, <2>2, <2>3 DEF GoesTo
  <2>5. /\ e \in Followed /\ e.made = entry[c].made /\ e.tail = entry[c].tail
        /\ e.fold = entry[c].fold /\ e.frozen = entry[c].frozen /\ e.timer = entry[c].timer
    BY <1>2 DEF Followed
  <2>6. entry' = [entry EXCEPT ![c] = e]
    BY <1>2, <1>7
  <2> HIDE DEF e
  <2> QED  BY <1>2, <1>3, <1>4, <2>4, <2>5, <2>6
<1>8. \/ opening' = T!Ended(o) /\ UNCHANGED entry
      \/ /\ T!Wanted(c) /\ opening' = T!Ended(o)
         /\ entry' = [entry EXCEPT ![c].standing = "absent", ![c].timer = "appeared"]
      \/ /\ opening' = [opening EXCEPT ![o].at = "cache", ![o].behind = Len(writing)]
         /\ entry' = [entry EXCEPT ![c].standing = "folding", ![c].path = TRUE]
  BY Zenon DEF T!Find
<1> QED  BY <1>5, <1>6, <1>7, <1>8

-----------------------------------------------------------------------------
(* What was kept is of the file that has the name, and is taken up whole   *)
(* (FoldCache.read).                                                       *)
LEMMA KeptIsOfThisFile ==
  ASSUME FollowApart, FollowHolds, T!Kept # None
  PROVE  /\ T!Kept \in Cached
         /\ OfOneFile(file, T!Kept.fold, T!Kept.offset)
         /\ OfThisFile(file, T!Kept.fold, T!Kept.offset)
<1>1. T!Kept = cache /\ cache # None /\ cache.ino = file.ino
  BY DEF T!Kept
<1>2. cache \in Cached /\ Describes(file, cache)
  BY <1>1 DEF FollowHolds, FollowTypes, KeptIsTrue
<1> QED  BY <1>1, <1>2 DEF Describes

LEMMA NothingIsOfThisFile ==
  ASSUME FollowHolds
  PROVE  OfOneFile(file, <<>>, 0) /\ OfThisFile(file, <<>>, 0)
<1>1. file.gen \in Nat \ {0}
  BY DEF FollowHolds, FollowTypes
<1>2. 0 \div 2 = 0 /\ file.gen \in 1..file.gen
  BY <1>1
<1>3. T!Prefix(file.gen, 0) = <<>>
  BY <1>1, PrefixIs
<1> QED  BY <1>2, <1>3 DEF OfOneFile, OfThisFile

LEMMA TakeUpHolds ==
  ASSUME FollowApart, FollowHolds, NEW o \in 1..MaxOpens, T!TakeUp(o)
  PROVE  FollowHolds'
<1> DEFINE c == opening[o].entry
<1>1. /\ UNCHANGED <<file, dup, current, cache, writing>> /\ opening[o].at = "cache"
  BY DEF T!TakeUp
<1>2. /\ c \in 1..MaxEntries /\ entry \in [1..MaxEntries -> Followed] /\ entry[c] \in Followed
      /\ entry[c].made /\ opening \in [1..MaxOpens -> Opening] /\ Busy(o)
      /\ opening[o] \in Opening
  BY <1>1, BusyEntry DEF Busy
<1>3. entry[c].tail = 0 /\ entry[c].timer = "none" /\ entry[c].fold = <<>>
  BY <1>1, <1>2 DEF FollowHolds, OneOpening, NotTakenUp, Awaited, OneTail
<1>4. KeptIsTrue'
  BY <1>1, KeptStands DEF FollowHolds
<1>5. CASE ~T!Wanted(c)
  <2>1. opening' = T!Ended(o) /\ UNCHANGED <<entry, tail>>
    BY <1>5 DEF T!TakeUp
  <2>2. GoesTo(o, "done")
    BY <2>1, EndsThere
  <2>3. FollowTypes'
    BY <1>1, <2>1, <2>2 DEF FollowHolds, FollowTypes, GoesTo
  <2>4. OneOpening'
    BY <1>1, <1>2, <1>3, <2>1, <2>2, OpeningKeepsOn
  <2>5. OneTail'
    BY <1>1, <2>1, <2>2, TailStays DEF GoesTo
  <2> QED  BY <1>4, <2>3, <2>4, <2>5 DEF FollowHolds
<1>6. CASE T!Wanted(c)
  <2> DEFINE fold == IF T!Kept = None THEN entry[c].fold ELSE T!Kept.fold
             offset == IF T!Kept = None THEN 0 ELSE T!Kept.offset
             resumed == T!Kept # None /\ T!Kept.frozen
             e == [entry[c] EXCEPT !.tail = o, !.resumed = resumed, !.fold = fold]
             t == [run |-> "stat", size |-> 0, watched |-> FALSE, offset |-> offset]
             p == [opening[o] EXCEPT !.at = "reading"]
  <2>1. /\ opening' = [opening EXCEPT ![o].at = "reading"]
        /\ entry' = [entry EXCEPT ![c].tail = o, ![c].resumed = resumed, ![c].fold = fold]
        /\ tail' = [tail EXCEPT ![o] = t]
    BY <1>6 DEF T!TakeUp
  <2>2. /\ fold \in Folds /\ offset \in Nat
        /\ OfOneFile(file, fold, offset) /\ OfThisFile(file, fold, offset)
    <3>1. CASE T!Kept = None
      <4>1. fold = <<>> /\ offset = 0 /\ <<>> \in Folds
        BY <1>3, <3>1 DEF Folds
      <4> QED  BY <4>1, NothingIsOfThisFile
    <3>2. CASE T!Kept # None
      <4>1. fold = T!Kept.fold /\ offset = T!Kept.offset
        BY <3>2
      <4>2. T!Kept.fold \in Folds /\ T!Kept.offset \in Nat
        BY <3>2, KeptIsOfThisFile DEF Cached
      <4> QED  BY <3>2, <4>1, <4>2, KeptIsOfThisFile
    <3> QED  BY <3>1, <3>2
  <2>3. resumed \in BOOLEAN
    BY Zenon
  <2> HIDE DEF fold, offset, resumed
  <2>4. /\ e \in Followed /\ e.tail = o /\ e.fold = fold /\ e.made = entry[c].made
        /\ e.frozen = entry[c].frozen /\ e.timer = entry[c].timer
    <3>1. o \in 0..MaxOpens
      BY DEF FollowApart
    <3> QED  BY <1>2, <2>2, <2>3, <3>1 DEF Followed
  <2>5. entry' = [entry EXCEPT ![c] = e]
    BY <1>2, <2>1
  <2> HIDE DEF e
  <2>6. /\ entry' \in [1..MaxEntries -> Followed] /\ entry'[c] = e
        /\ \A x \in 1..MaxEntries : x # c => entry'[x] = entry[x]
    BY <1>2, <2>4, <2>5
  <2>7. t \in Following /\ t.offset = offset
    BY <2>2 DEF Following
  <2> HIDE DEF t
  <2>8. /\ tail' \in [1..MaxOpens -> Following] /\ tail'[o] = t
        /\ \A q \in 1..MaxOpens : q # o => tail'[q] = tail[q]
    BY <2>1, <2>7 DEF FollowHolds, FollowTypes
  <2>9. p \in Opening /\ p.at = "reading" /\ p.entry = opening[o].entry
    BY <1>2 DEF Opening
  <2>10. opening' = [opening EXCEPT ![o] = p]
    BY <1>2, <2>1
  <2> HIDE DEF p
  <2>11. GoesTo(o, "reading")
    BY <1>2, <2>9, <2>10 DEF GoesTo
  <2>12. current = c /\ ~entry[c].frozen
    BY <1>2, <1>6, WantedIsCurrent
  <2>13. FollowTypes'
    BY <1>1, <2>6, <2>8, <2>11 DEF FollowHolds, FollowTypes, GoesTo
  <2>14. OneOpening'
    BY <1>1, <1>2, <1>3, <2>4, <2>6, <2>11, OpeningKeepsOn
  <2>15. OneTail'
    <3>1. \A x \in 1..MaxEntries : entry'[x].tail = 0 => entry'[x].fold = <<>>
      BY <2>4, <2>6 DEF FollowHolds, OneTail
    <3>2. ASSUME NEW q \in 1..MaxOpens, Active(q)'
          PROVE  /\ current = opening'[q].entry /\ entry'[c].tail = q /\ ~entry'[c].frozen
      <4>1. CASE q = o
        BY <2>4, <2>6, <2>11, <2>12, <4>1 DEF GoesTo
      <4>2. CASE q # o
        <5>1. Active(q)
          BY <2>8, <3>2, <4>2 DEF Active
        <5>2. entry[current].tail = q
          BY <5>1 DEF FollowHolds, OneTail
        <5> QED  BY <1>3, <2>12, <5>2
      <4> QED  BY <4>1, <4>2
    <3>3. /\ OfOneFile(file', entry'[c].fold, tail'[o].offset)
          /\ OfThisFile(file', entry'[c].fold, tail'[o].offset)
      BY <1>1, <2>2, <2>4, <2>6, <2>7, <2>8
    <3>4. entry'[c].tail = o
      BY <2>4, <2>6
    <3> QED  BY <1>1, <1>2, <2>12, <3>1, <3>2, <3>3, <3>4 DEF OneTail
  <2> QED  BY <1>4, <2>13, <2>14, <2>15 DEF FollowHolds
<1> QED  BY <1>5, <1>6

-----------------------------------------------------------------------------
(* The end of an opening, and one that could not be made.                  *)
LEMMA OpenedHolds ==
  ASSUME FollowApart, FollowHolds, NEW o \in 1..MaxOpens, T!Opened(o)
  PROVE  FollowHolds'
<1> DEFINE c == opening[o].entry
<1>1. /\ UNCHANGED <<file, dup, current, entry, cache>> /\ opening[o].at = "reading"
      /\ tail[o].run \in {"end", "stopped"}
  BY DEF T!Opened
<1>2. /\ c \in 1..MaxEntries /\ entry \in [1..MaxEntries -> Followed] /\ entry[c] \in Followed
      /\ entry[c].made /\ opening \in [1..MaxOpens -> Opening] /\ Busy(o)
      /\ opening[o] \in Opening
  BY <1>1, BusyEntry DEF Busy
<1>3. entry[c].timer = "none"
  BY <1>2 DEF FollowHolds, OneOpening, Awaited
<1>4. tail \in [1..MaxOpens -> Following] /\ tail[o] \in Following
  BY DEF FollowHolds, FollowTypes
<1>5. ASSUME NEW at \in {"done", "keeping"}, GoesTo(o, at),
             tail' \in [1..MaxOpens -> Following], tail'[o].offset = tail[o].offset,
             \A q \in 1..MaxOpens : q # o => tail'[q] = tail[q], Active(o)' => Active(o),
             KeptIsTrue', writing' \in Seq(Cached)
      PROVE  FollowHolds'
  <2>1. FollowTypes'
    BY <1>1, <1>5 DEF FollowHolds, FollowTypes, GoesTo
  <2>2. OneOpening'
    BY <1>1, <1>2, <1>3, <1>5, OpeningKeepsOn
  <2>3. OneTail'
    <3>1. \A q \in 1..MaxOpens : Active(q)' => Active(q) /\ opening'[q].entry = opening[q].entry
      BY <1>5 DEF GoesTo, Active
    <3>2. \A q \in 1..MaxOpens : tail'[q].offset = tail[q].offset
      BY <1>5
    <3>3. current # None /\ entry[current].tail # 0 => entry[current].tail \in 1..MaxOpens
      BY TailIsThere
    <3> QED  BY <1>1, <3>1, <3>2, <3>3 DEF FollowHolds, OneTail
  <2> QED  BY <1>5, <2>1, <2>2, <2>3 DEF FollowHolds
<1>6. CASE ~T!Wanted(c)
  <2> DEFINE t == [tail[o] EXCEPT !.run = "stopped", !.watched = FALSE]
  <2>1. /\ opening' = T!Ended(o) /\ UNCHANGED writing
        /\ tail' = [tail EXCEPT ![o].run = "stopped", ![o].watched = FALSE]
    BY <1>6 DEF T!Opened
  <2>2. t \in Following /\ t.run = "stopped" /\ ~t.watched /\ t.offset = tail[o].offset
    BY <1>4 DEF Following
  <2>3. tail' = [tail EXCEPT ![o] = t]
    BY <1>4, <2>1
  <2> HIDE DEF t
  <2>4. /\ tail' \in [1..MaxOpens -> Following] /\ tail'[o].offset = tail[o].offset
        /\ \A q \in 1..MaxOpens : q # o => tail'[q] = tail[q]
    BY <1>4, <2>2, <2>3
  <2>5. ~Active(o)'
    BY <1>4, <2>2, <2>3 DEF Active
  <2>6. GoesTo(o, "done")
    BY <2>1, EndsThere
  <2>7. KeptIsTrue' /\ writing' \in Seq(Cached)
    BY <1>1, <2>1, KeptStands DEF FollowHolds, FollowTypes
  <2> QED  BY <1>5, <2>4, <2>5, <2>6, <2>7
<1>7. CASE T!Wanted(c)
  <2> DEFINE t == IF tail[o].run = "stopped" THEN tail[o]
                  ELSE [tail[o] EXCEPT !.run = "idle", !.watched = TRUE]
             n == Len(writing')
             p == [opening[o] EXCEPT !.at = "keeping", !.behind = n]
  <2>1. /\ tail' = IF tail[o].run = "stopped" THEN tail
                   ELSE [tail EXCEPT ![o].run = "idle", ![o].watched = TRUE]
        /\ writing' = writing \o T!Remember(c)
        /\ opening' = [opening EXCEPT ![o].at = "keeping", ![o].behind = n]
    BY <1>7 DEF T!Opened
  <2>2. current = c /\ current # None
    BY <1>2, <1>7, WantedIsCurrent DEF FollowApart
  <2>3. KeptIsTrue' /\ writing' \in Seq(Cached)
    BY <1>1, <2>1, <2>2, KeptRemembers
  <2>4. n \in Nat
    BY <2>3
  <2> HIDE DEF n
  <2>5. p \in Opening /\ p.at = "keeping" /\ p.entry = opening[o].entry
    BY <1>2, <2>4 DEF Opening
  <2>6. opening' = [opening EXCEPT ![o] = p]
    BY <1>2, <2>1
  <2> HIDE DEF p
  <2>7. GoesTo(o, "keeping")
    BY <1>2, <2>5, <2>6 DEF GoesTo
  <2>8. t \in Following /\ t.offset = tail[o].offset
    BY <1>4 DEF Following
  <2>9. tail' = [tail EXCEPT ![o] = t]
    BY <1>4, <2>1
  <2>10. Active(o)' => Active(o)
    BY <1>1, <1>4, <2>1 DEF Active
  <2> HIDE DEF t
  <2>11. /\ tail' \in [1..MaxOpens -> Following] /\ tail'[o].offset = tail[o].offset
         /\ \A q \in 1..MaxOpens : q # o => tail'[q] = tail[q]
    BY <1>4, <2>8, <2>9
  <2> QED  BY <1>5, <2>3, <2>7, <2>10, <2>11
<1> QED  BY <1>6, <1>7

LEMMA FailsHolds ==
  ASSUME FollowApart, FollowHolds, NEW o \in 1..MaxOpens, T!Fails(o)
  PROVE  FollowHolds'
<1> DEFINE c == opening[o].entry
           e == [entry[c] EXCEPT !.tail = 0, !.path = FALSE, !.fold = <<>>,
                                 !.standing = "absent", !.timer = "again"]
           t == [tail[o] EXCEPT !.run = "stopped", !.watched = FALSE]
<1>1. /\ UNCHANGED <<file, dup, current, cache>> /\ opening[o].at = "reading"
      /\ tail[o].run = "slice" /\ opening' = T!Ended(o)
      /\ writing' = Append(writing, T!Dropped)
  BY DEF T!Fails
<1>2. /\ c \in 1..MaxEntries /\ entry \in [1..MaxEntries -> Followed] /\ entry[c] \in Followed
      /\ entry[c].made /\ opening \in [1..MaxOpens -> Opening] /\ Busy(o)
      /\ opening[o] \in Opening
  BY <1>1, BusyEntry DEF Busy
<1>3. tail \in [1..MaxOpens -> Following] /\ tail[o] \in Following
  BY DEF FollowHolds, FollowTypes
<1>4. Active(o) /\ current = c /\ entry[c].tail = o /\ ~entry[c].frozen
  <2>1. Active(o)
    BY <1>1 DEF Active
  <2> QED  BY <2>1 DEF FollowHolds, OneTail
<1>5. T!Wanted(c)
  BY <1>2, <1>4, WantedIsCurrent
<1>6. tail' = [tail EXCEPT ![o] = t]
  <2>1. tail' = [q \in 1..MaxOpens |->
                   IF q \in {o, entry[c].tail}
                   THEN [tail[q] EXCEPT !.run = "stopped", !.watched = FALSE] ELSE tail[q]]
    BY DEF T!Fails, T!Open
  <2> QED  BY <1>3, <1>4, <2>1
<1>7. entry' = [entry EXCEPT ![c] = e]
  BY <1>2, <1>5 DEF T!Fails
<1>8. /\ e \in Followed /\ e.tail = 0 /\ e.fold = <<>> /\ e.made = entry[c].made
      /\ e.frozen = entry[c].frozen
  <2>1. <<>> \in Folds
    BY DEF Folds
  <2>2. 0 \in 0..MaxOpens
    BY DEF FollowApart
  <2> QED  BY <1>2, <2>1, <2>2 DEF Followed
<1> HIDE DEF e
<1>9. /\ entry' \in [1..MaxEntries -> Followed] /\ entry'[c] = e
       /\ \A x \in 1..MaxEntries : x # c => entry'[x] = entry[x]
  BY <1>2, <1>7, <1>8
<1>10. t \in Following /\ t.run = "stopped" /\ ~t.watched
  BY <1>3 DEF Following
<1> HIDE DEF t
<1>11. /\ tail' \in [1..MaxOpens -> Following] /\ tail'[o] = t
       /\ \A q \in 1..MaxOpens : q # o => tail'[q] = tail[q]
  BY <1>3, <1>6, <1>10
<1>12. GoesTo(o, "done")
  BY <1>1, EndsThere
<1>13. KeptIsTrue' /\ writing' \in Seq(Cached)
  BY <1>1, DroppedIsTrue, KeptGrows
<1>14. FollowTypes'
  BY <1>1, <1>9, <1>11, <1>12, <1>13 DEF FollowHolds, FollowTypes, GoesTo
<1>15. OneOpening'
  BY <1>1, <1>2, <1>4, <1>8, <1>9, <1>12, OpeningKeepsOn
<1>16. OneTail'
  <2>1. \A q \in 1..MaxOpens : ~Active(q)'
    <3> SUFFICES ASSUME NEW q \in 1..MaxOpens PROVE ~Active(q)'
      OBVIOUS
    <3>1. CASE q = o
      BY <1>10, <1>11, <3>1 DEF Active
    <3>2. CASE q # o
      BY <1>4, <1>11, <3>2 DEF FollowHolds, OneTail, Active
    <3> QED  BY <3>1, <3>2
  <2>2. \A x \in 1..MaxEntries : entry'[x].tail = 0 => entry'[x].fold = <<>>
    BY <1>8, <1>9 DEF FollowHolds, OneTail
  <2>3. entry'[current].tail = 0
    BY <1>4, <1>8, <1>9
  <2> QED  BY <1>1, <2>1, <2>2, <2>3 DEF OneTail
<1> QED  BY <1>13, <1>14, <1>15, <1>16 DEF FollowHolds

-----------------------------------------------------------------------------
(* What the tail reads (TranscriptTail.#stat, #consume).                   *)
LEMMA ActiveOwner ==
  ASSUME FollowApart, FollowHolds, NEW o \in 1..MaxOpens, Active(o)
  PROVE  /\ current # None /\ current \in 1..MaxEntries /\ T!Owner(o) = current
         /\ entry[current].tail = o /\ ~entry[current].frozen /\ entry[current].made
         /\ entry \in [1..MaxEntries -> Followed] /\ entry[current] \in Followed
         /\ tail \in [1..MaxOpens -> Following] /\ tail[o] \in Following
         /\ OfOneFile(file, entry[current].fold, tail[o].offset)
         /\ OfThisFile(file, entry[current].fold, tail[o].offset)
<1>1. /\ current \in 1..MaxEntries /\ T!Owner(o) = current
      /\ entry[current].tail = o /\ ~entry[current].frozen
  BY DEF FollowHolds, OneTail, T!Owner
<1>2. current # None /\ o # 0
  BY <1>1 DEF FollowApart
<1> QED  BY <1>1, <1>2 DEF FollowHolds, FollowTypes, OneOpening, FrozenIsDup, OneTail

(* One read: the tail of the entry that is followed goes on, and its fold  *)
(* is still the file up to where the tail stands.                          *)
LEMMA ReadHolds ==
  ASSUME FollowApart, FollowHolds, NEW o \in 1..MaxOpens, Active(o),
         UNCHANGED <<file, dup, current, opening>>,
         NEW e \in Followed, entry' = [entry EXCEPT ![current] = e],
         e.made, e.tail = o, e.frozen = entry[current].frozen, e.timer = entry[current].timer,
         NEW t \in Following, tail' = [tail EXCEPT ![o] = t],
         OfOneFile(file, e.fold, t.offset), OfThisFile(file, e.fold, t.offset),
         KeptIsTrue', writing' \in Seq(Cached), cache' = cache
  PROVE  FollowHolds'
<1> DEFINE c == current
<1>1. /\ c # None /\ c \in 1..MaxEntries /\ T!Owner(o) = c /\ entry[c].tail = o
      /\ ~entry[c].frozen /\ entry[c].made /\ entry \in [1..MaxEntries -> Followed]
      /\ entry[c] \in Followed /\ tail \in [1..MaxOpens -> Following] /\ tail[o] \in Following
  BY ActiveOwner
<1>2. /\ entry' \in [1..MaxEntries -> Followed] /\ entry'[c] = e
      /\ \A x \in 1..MaxEntries : x # c => entry'[x] = entry[x]
  BY <1>1
<1>3. /\ tail' \in [1..MaxOpens -> Following] /\ tail'[o] = t
      /\ \A q \in 1..MaxOpens : q # o => tail'[q] = tail[q]
  BY <1>1
<1>4. FollowTypes'
  BY <1>2, <1>3 DEF FollowHolds, FollowTypes
<1>5. OneOpening'
  <2>1. \A x \in 1..MaxEntries : /\ entry'[x].tail = entry[x].tail
                                 /\ entry'[x].timer = entry[x].timer
                                 /\ entry'[x].made = entry[x].made
                                 /\ entry'[x].frozen = entry[x].frozen
    BY <1>1, <1>2
  <2>2. \A p \in 1..MaxOpens : Busy(p)' => Busy(p) /\ opening'[p].entry = opening[p].entry
    BY DEF Busy
  <2>3. \A p \in 1..MaxOpens : opening'[p].at \in {"find", "cache"} =>
          entry'[opening'[p].entry].tail = 0
    <3> SUFFICES ASSUME NEW p \in 1..MaxOpens, opening[p].at \in {"find", "cache"}
                 PROVE  entry'[opening[p].entry].tail = 0
      OBVIOUS
    <3>1. Busy(p)
      BY DEF Busy
    <3>2. opening[p].entry \in 1..MaxEntries /\ entry[opening[p].entry].tail = 0
      BY <3>1, BusyEntry DEF FollowHolds, OneOpening, NotTakenUp
    <3> QED  BY <2>1, <3>2
  <2>4. entry'[c].timer = "none"
    <3>1. entry[c].timer = "none"
      BY <1>1 DEF FollowHolds, OneOpening, Awaited
    <3> QED  BY <1>1, <2>1, <3>1
  <2>5. current' # None => entry'[current'].made /\ entry'[current'].frozen = dup'
    <3>1. entry[c].frozen = dup
      BY <1>1 DEF FollowHolds, OneOpening, FrozenIsDup
    <3> QED  BY <1>1, <1>2, <3>1
  <2> QED  BY <1>1, <1>2, <2>2, <2>3, <2>4, <2>5, OpeningGoesOn
<1>6. OneTail'
  <2>1. \A x \in 1..MaxEntries : entry'[x].tail = 0 => entry'[x].fold = <<>>
    BY <1>1, <1>2 DEF FollowHolds, OneTail
  <2>2. ASSUME NEW q \in 1..MaxOpens, Active(q)'
        PROVE  q = o
    <3>1. CASE q # o
      BY <1>1, <1>3, <2>2, <3>1 DEF FollowHolds, OneTail, Active
    <3> QED  BY <3>1
  <2>3. current' = opening'[o].entry /\ entry'[c].tail = o /\ ~entry'[c].frozen
    BY <1>1, <1>2 DEF T!Owner
  <2>4. /\ OfOneFile(file', entry'[c].fold, tail'[o].offset)
        /\ OfThisFile(file', entry'[c].fold, tail'[o].offset)
    BY <1>2, <1>3
  <2> QED  BY <1>1, <2>1, <2>2, <2>3, <2>4 DEF OneTail
<1> QED  BY <1>4, <1>5, <1>6 DEF FollowHolds

LEMMA StatHolds ==
  ASSUME FollowApart, FollowHolds, NEW o \in 1..MaxOpens, T!Stat(o)
  PROVE  FollowHolds'
<1> DEFINE c == current
           size == IF file.there THEN T!Size ELSE tail[o].offset
           shrank == tail[o].run = "restat" /\ size < tail[o].offset
           offset == IF shrank THEN 0 ELSE tail[o].offset
           fold == IF shrank THEN <<>> ELSE entry[c].fold
           e == [entry[c] EXCEPT !.fold = fold]
           t == [tail[o] EXCEPT !.size = size, !.run = "slice", !.offset = offset]
<1>1. /\ UNCHANGED <<file, dup, current, opening, cache>>
      /\ tail[o].run \in {"stat", "restat"}
      /\ tail' = [tail EXCEPT ![o].size = size, ![o].run = "slice", ![o].offset = offset]
      /\ entry' = IF shrank THEN [entry EXCEPT ![T!Owner(o)].fold = <<>>] ELSE entry
      /\ writing' = IF shrank THEN Append(writing, T!Dropped) ELSE writing
  BY DEF T!Stat, T!Reset
<1>2. Active(o)
  BY <1>1 DEF Active
<1>3. /\ c # None /\ c \in 1..MaxEntries /\ T!Owner(o) = c /\ entry[c].tail = o
      /\ ~entry[c].frozen /\ entry[c].made /\ entry \in [1..MaxEntries -> Followed]
      /\ entry[c] \in Followed /\ tail \in [1..MaxOpens -> Following] /\ tail[o] \in Following
      /\ OfOneFile(file, entry[c].fold, tail[o].offset)
      /\ OfThisFile(file, entry[c].fold, tail[o].offset)
  BY <1>2, ActiveOwner
<1>4. entry[c].fold \in Folds /\ tail[o].offset \in Nat /\ size \in Nat
  <2>1. entry[c].fold \in Folds /\ tail[o].offset \in Nat
    BY <1>3 DEF Followed, Following
  <2>2. T!Size \in Nat
    <3>1. file.records \in Nat
      BY DEF FollowHolds, FollowTypes
    <3> QED  BY <3>1 DEF T!Size
  <2> QED  BY <2>1, <2>2
<1>5. shrank \in BOOLEAN
  OBVIOUS
<1> HIDE DEF size, shrank
<1>6. /\ fold \in Folds /\ offset \in Nat
      /\ OfOneFile(file, fold, offset) /\ OfThisFile(file, fold, offset)
  <2>1. CASE shrank
    <3>1. fold = <<>> /\ offset = 0 /\ <<>> \in Folds
      BY <2>1 DEF Folds
    <3> QED  BY <3>1, NothingIsOfThisFile
  <2>2. CASE ~shrank
    <3>1. fold = entry[c].fold /\ offset = tail[o].offset
      BY <2>2
    <3> QED  BY <1>3, <1>4, <3>1
  <2> QED  BY <2>1, <2>2
<1>7. entry' = [entry EXCEPT ![c] = e]
  <2>1. CASE shrank
    BY <1>1, <1>3, <2>1
  <2>2. CASE ~shrank
    <3>1. e = entry[c]
      BY <1>3, <2>2 DEF Followed
    <3> HIDE DEF e
    <3> QED  BY <1>1, <1>3, <2>2, <3>1
  <2> QED  BY <2>1, <2>2
<1> HIDE DEF fold, offset
<1>8. tail' = [tail EXCEPT ![o] = t]
  BY <1>1, <1>3
<1>9. /\ e \in Followed /\ e.fold = fold /\ e.made = entry[c].made /\ e.tail = entry[c].tail
      /\ e.frozen = entry[c].frozen /\ e.timer = entry[c].timer
  BY <1>3, <1>6 DEF Followed
<1>10. t \in Following /\ t.offset = offset
  BY <1>3, <1>4, <1>6 DEF Following
<1>11. KeptIsTrue' /\ writing' \in Seq(Cached)
  <2>1. CASE shrank
    BY <1>1, <2>1, DroppedIsTrue, KeptGrows
  <2>2. CASE ~shrank
    BY <1>1, <2>2, KeptStands DEF FollowHolds, FollowTypes
  <2> QED  BY <2>1, <2>2
<1> HIDE DEF e, t
<1>12. OfOneFile(file, e.fold, t.offset) /\ OfThisFile(file, e.fold, t.offset)
  BY <1>6, <1>9, <1>10
<1>13. e \in Followed /\ e.made /\ e.tail = o /\ e.frozen = entry[c].frozen
       /\ e.timer = entry[c].timer
  BY <1>3, <1>9
<1>14. t \in Following /\ UNCHANGED <<file, dup, current, opening>> /\ cache' = cache
  BY <1>1, <1>10
<1> QED  BY <1>2, <1>7, <1>8, <1>11, <1>12, <1>13, <1>14, ReadHolds

LEMMA SliceHolds ==
  ASSUME FollowApart, FollowHolds, NEW o \in 1..MaxOpens, T!Slice(o)
  PROVE  FollowHolds'
<1> DEFINE c == current
           at == tail[o].offset
           whole == at < tail[o].size /\ at \div 2 < file.records /\ at + 2 <= tail[o].size
           end == IF opening[o].at = "reading" THEN "end" ELSE "idle"
           record == <<file.gen, at \div 2 + 1>>
           appears == end = "idle" \/ opening[o].appeared
<1>1. /\ UNCHANGED <<file, dup, current, opening, cache, writing>> /\ tail[o].run = "slice"
      /\ whole => /\ tail' = [tail EXCEPT ![o].offset = at + 2]
                  /\ entry' = T!Appended(T!Owner(o), record, appears)
      /\ ~whole => tail' = [tail EXCEPT ![o].run = end] /\ UNCHANGED entry
  BY DEF T!Slice
<1>2. Active(o)
  BY <1>1 DEF Active
<1>3. /\ c # None /\ c \in 1..MaxEntries /\ T!Owner(o) = c /\ entry[c].tail = o
      /\ ~entry[c].frozen /\ entry[c].made /\ entry \in [1..MaxEntries -> Followed]
      /\ entry[c] \in Followed /\ tail \in [1..MaxOpens -> Following] /\ tail[o] \in Following
      /\ OfOneFile(file, entry[c].fold, at) /\ OfThisFile(file, entry[c].fold, at)
  BY <1>2, ActiveOwner
<1>4. KeptIsTrue' /\ writing' \in Seq(Cached)
  BY <1>1, KeptStands DEF FollowHolds, FollowTypes
<1>5. file.gen \in Nat \ {0} /\ file.records \in Nat /\ (file.records > 0 => file.there)
  BY DEF FollowHolds, FollowTypes
<1>6. at \in Nat
  BY <1>3 DEF Following
<1>7. CASE ~whole
  <2> DEFINE t == [tail[o] EXCEPT !.run = end]
  <2>1. end \in {"idle", "end"}
    OBVIOUS
  <2> HIDE DEF end
  <2>2. t \in Following /\ t.offset = at
    BY <1>3, <2>1 DEF Following
  <2>3. tail' = [tail EXCEPT ![o] = t]
    BY <1>1, <1>3, <1>7
  <2>4. entry' = [entry EXCEPT ![c] = entry[c]]
    BY <1>1, <1>3, <1>7
  <2> HIDE DEF t
  <2> QED  BY <1>1, <1>2, <1>3, <1>4, <2>2, <2>3, <2>4, ReadHolds
<1>8. CASE whole
  <2> DEFINE n == at \div 2
             fold == Append(entry[c].fold, record)
             standing == IF entry[c].standing = "absent" /\ appears
                         THEN "ready" ELSE entry[c].standing
             e == [entry[c] EXCEPT !.fold = fold, !.standing = standing]
             t == [tail[o] EXCEPT !.offset = at + 2]
  <2>1. n \in Nat /\ (at + 2) \div 2 = n + 1 /\ at < 2 * file.records /\ file.there
    BY <1>5, <1>6, <1>8
  <2>2. entry[c].fold = T!Prefix(file.gen, n)
    <3>1. ~(Bytes(file) < at)
      BY <1>5, <1>6, <2>1 DEF Bytes
    <3> QED  BY <1>3, <3>1 DEF OfThisFile
  <2>3. fold = T!Prefix(file.gen, (at + 2) \div 2)
    <3>1. Append(T!Prefix(file.gen, n), <<file.gen, n + 1>>) = T!Prefix(file.gen, n + 1)
      BY <1>5, <2>1, PrefixIs
    <3> QED  BY <2>1, <2>2, <3>1
  <2>4. fold \in Folds
    <3>1. T!Prefix(file.gen, n + 1) \in Folds
      <4> DEFINE m == n + 1
      <4>1. m \in Nat /\ file.gen \in Nat
        BY <1>5, <2>1
      <4> HIDE DEF m
      <4>2. T!Prefix(file.gen, m) \in Folds
        BY <4>1, PrefixIs
      <4> QED  BY <4>2 DEF m
    <3> HIDE DEF fold
    <3> QED  BY <2>1, <2>3, <3>1
  <2>5. OfOneFile(file, fold, at + 2) /\ OfThisFile(file, fold, at + 2)
    <3>1. file.gen \in 1..file.gen
      BY <1>5
    <3> QED  BY <2>3, <3>1 DEF OfOneFile, OfThisFile
  <2>6. standing \in {"absent", "folding", "ready", "frozen"}
    BY <1>3 DEF Followed
  <2>7. entry' = [entry EXCEPT ![c].fold = fold, ![c].standing = standing]
    BY <1>1, <1>3, <1>8 DEF T!Appended, T!Folded
  <2> HIDE DEF fold, standing
  <2>8. entry' = [entry EXCEPT ![c] = e]
    BY <1>3, <2>7
  <2>9. tail' = [tail EXCEPT ![o] = t]
    BY <1>1, <1>3, <1>8
  <2>10. /\ e \in Followed /\ e.fold = fold /\ e.made = entry[c].made
         /\ e.tail = entry[c].tail /\ e.frozen = entry[c].frozen /\ e.timer = entry[c].timer
    BY <1>3, <2>4, <2>6 DEF Followed
  <2>11. t \in Following /\ t.offset = at + 2
    BY <1>3, <1>6 DEF Following
  <2> HIDE DEF e, t
  <2>12. OfOneFile(file, e.fold, t.offset) /\ OfThisFile(file, e.fold, t.offset)
    BY <2>5, <2>10, <2>11
  <2>13. e \in Followed /\ e.made /\ e.tail = o /\ e.frozen = entry[c].frozen
         /\ e.timer = entry[c].timer
    BY <1>3, <2>10
  <2>14. t \in Following /\ UNCHANGED <<file, dup, current, opening>> /\ cache' = cache
    BY <1>1, <2>11
  <2> QED  BY <1>2, <1>4, <2>8, <2>9, <2>12, <2>13, <2>14, ReadHolds
<1> QED  BY <1>7, <1>8

-----------------------------------------------------------------------------
(* An opening is begun for an entry that has none.                         *)
Begun(o, c) ==
  /\ opening' \in [1..MaxOpens -> Opening]
  /\ opening'[o].at = "find" /\ opening'[o].entry = c
  /\ \A p \in 1..MaxOpens : p # o => opening'[p] = opening[p]

LEMMA BeginsThere ==
  ASSUME FollowHolds, NEW o \in 1..MaxOpens, NEW c \in 1..MaxEntries, NEW appeared \in BOOLEAN,
         opening' = T!Begin(o, c, appeared)
  PROVE  Begun(o, c)
<1> DEFINE p == [at |-> "find", entry |-> c, appeared |-> appeared, behind |-> 0]
<1>1. p \in Opening /\ p.at = "find" /\ p.entry = c
  BY DEF Opening
<1>2. opening' = [opening EXCEPT ![o] = p]
  BY DEF T!Begin
<1> HIDE DEF p
<1>3. opening \in [1..MaxOpens -> Opening]
  BY DEF FollowHolds, FollowTypes
<1> QED  BY <1>1, <1>2, <1>3 DEF Begun

LEMMA OpeningBegins ==
  ASSUME FollowHolds, NEW o \in 1..MaxOpens, NEW c \in 1..MaxEntries, Begun(o, c),
         \A p \in 1..MaxOpens : Busy(p) => opening[p].entry # c,
         \A x \in 1..MaxEntries : x # c => entry'[x] = entry[x],
         entry'[c].made, entry'[c].tail = 0, entry'[c].timer = "none",
         current' # None => entry'[current'].made /\ entry'[current'].frozen = dup'
  PROVE  OneOpening'
<1> USE DEF FollowHolds, OneOpening
<1>1. Unmade'
  BY DEF Unmade
<1>2. FrozenIsDup'
  BY DEF FrozenIsDup
<1>3. \A p \in 1..MaxOpens : p # o /\ Busy(p)' =>
        /\ Busy(p) /\ opening'[p] = opening[p] /\ opening[p].entry # c
        /\ opening[p].entry \in 1..MaxEntries /\ entry[opening[p].entry].made
        /\ entry'[opening[p].entry] = entry[opening[p].entry]
  BY DEF Begun, Busy, BusyIsMade
<1>4. Awaited'
  <2> SUFFICES ASSUME NEW e \in 1..MaxEntries, entry'[e].timer # "none"
               PROVE  /\ entry'[e].tail = 0 /\ ~entry'[e].frozen
                      /\ \A p \in 1..MaxOpens : Busy(p)' => opening'[p].entry # e
    BY DEF Awaited
  <2>1. e # c /\ entry'[e] = entry[e]
    OBVIOUS
  <2>2. /\ entry[e].tail = 0 /\ ~entry[e].frozen
        /\ \A p \in 1..MaxOpens : Busy(p) => opening[p].entry # e
    BY <2>1 DEF Awaited
  <2>3. opening'[o].entry # e
    BY <2>1 DEF Begun
  <2> QED  BY <1>3, <2>1, <2>2, <2>3
<1>5. BusyIsMade'
  BY <1>3 DEF BusyIsMade, Begun
<1>6. BusyIsAlone'
  <2> SUFFICES ASSUME NEW p \in 1..MaxOpens, NEW q \in 1..MaxOpens, Busy(p)', Busy(q)',
                      opening'[p].entry = opening'[q].entry
               PROVE  p = q
    BY DEF BusyIsAlone
  <2>1. CASE p # o /\ q # o
    BY <1>3, <2>1 DEF BusyIsAlone
  <2>2. CASE p = o /\ q # o
    BY <1>3, <2>2 DEF Begun
  <2>3. CASE p # o /\ q = o
    BY <1>3, <2>3 DEF Begun
  <2> QED  BY <2>1, <2>2, <2>3
<1>7. NotTakenUp'
  <2> SUFFICES ASSUME NEW p \in 1..MaxOpens, opening'[p].at \in {"find", "cache"}
               PROVE  entry'[opening'[p].entry].tail = 0
    BY DEF NotTakenUp
  <2>1. Busy(p)'
    BY DEF Busy
  <2>2. CASE p = o
    BY <2>2 DEF Begun
  <2>3. CASE p # o
    BY <1>3, <2>1, <2>3 DEF NotTakenUp
  <2> QED  BY <2>2, <2>3
<1> QED  BY <1>1, <1>2, <1>4, <1>5, <1>6, <1>7

(* One entry changes, and not in what its openings depend on.              *)
LEMMA OneEntryKeeps ==
  ASSUME FollowHolds, NEW c \in 1..MaxEntries, UNCHANGED <<dup, current, opening>>,
         entry[c].made, entry'[c].made, entry'[c].tail = entry[c].tail,
         entry'[c].frozen = entry[c].frozen, entry'[c].timer = entry[c].timer,
         \A x \in 1..MaxEntries : x # c => entry'[x] = entry[x]
  PROVE  OneOpening'
<1>1. \A o \in 1..MaxOpens : Busy(o)' => Busy(o) /\ opening'[o].entry = opening[o].entry
  BY DEF Busy
<1>2. \A o \in 1..MaxOpens : opening'[o].at \in {"find", "cache"} =>
        entry'[opening'[o].entry].tail = 0
  <2> SUFFICES ASSUME NEW o \in 1..MaxOpens, opening[o].at \in {"find", "cache"}
               PROVE  entry'[opening[o].entry].tail = 0
    OBVIOUS
  <2>1. Busy(o)
    BY DEF Busy
  <2>2. opening[o].entry \in 1..MaxEntries /\ entry[opening[o].entry].tail = 0
    BY <2>1, BusyEntry DEF FollowHolds, OneOpening, NotTakenUp
  <2> QED  BY <2>2
<1>3. current' # None => entry'[current'].made /\ entry'[current'].frozen = dup'
  <2> SUFFICES ASSUME current # None PROVE entry'[current].made /\ entry'[current].frozen = dup
    OBVIOUS
  <2>1. current \in 1..MaxEntries /\ entry[current].made /\ entry[current].frozen = dup
    BY DEF FollowHolds, FollowTypes, OneOpening, FrozenIsDup
  <2> QED  BY <2>1
<1>4. entry'[c].timer # "none" =>
        /\ entry'[c].tail = 0 /\ ~entry'[c].frozen
        /\ \A o \in 1..MaxOpens : Busy(o)' => opening'[o].entry # c
  BY <1>1 DEF FollowHolds, OneOpening, Awaited
<1> QED  BY <1>1, <1>2, <1>3, <1>4, OpeningGoesOn

LEMMA FreeIsNotBusy ==
  ASSUME NEW o \in T!Free PROVE o \in 1..MaxOpens /\ opening[o].at = "none"
BY DEF T!Free, T!Open

LEMMA TimerFiresHolds ==
  ASSUME FollowApart, FollowHolds, NEW o \in 1..MaxOpens, T!TimerFires(o)
  PROVE  FollowHolds'
<1> DEFINE c == current
           e == [entry[c] EXCEPT !.timer = "none"]
           appeared == entry[c].timer = "appeared"
<1>1. /\ UNCHANGED <<file, dup, current, tail, cache, writing>>
      /\ c # None /\ entry[c].timer # "none" /\ o \in T!Free
      /\ opening' = T!Begin(o, c, appeared)
      /\ entry' = [entry EXCEPT ![c].timer = "none"]
  BY DEF T!TimerFires
<1>2. /\ c \in 1..MaxEntries /\ entry \in [1..MaxEntries -> Followed] /\ entry[c] \in Followed
      /\ entry[c].made /\ entry[c].frozen = dup
  BY <1>1 DEF FollowHolds, FollowTypes, OneOpening, FrozenIsDup
<1>3. /\ entry[c].tail = 0 /\ ~entry[c].frozen
      /\ \A p \in 1..MaxOpens : Busy(p) => opening[p].entry # c
  BY <1>1, <1>2 DEF FollowHolds, OneOpening, Awaited
<1>4. /\ e \in Followed /\ e.made = entry[c].made /\ e.tail = entry[c].tail
      /\ e.fold = entry[c].fold /\ e.frozen = entry[c].frozen /\ e.timer = "none"
  BY <1>2 DEF Followed
<1>5. entry' = [entry EXCEPT ![c] = e]
  BY <1>1, <1>2
<1> HIDE DEF e
<1>6. /\ entry' \in [1..MaxEntries -> Followed] /\ entry'[c] = e
      /\ \A x \in 1..MaxEntries : x # c => entry'[x] = entry[x]
  BY <1>2, <1>4, <1>5
<1>7. appeared \in BOOLEAN
  OBVIOUS
<1> HIDE DEF appeared
<1>8. Begun(o, c)
  BY <1>1, <1>2, <1>7, BeginsThere
<1>9. FollowTypes'
  BY <1>1, <1>6, <1>8 DEF FollowHolds, FollowTypes, Begun
<1>10. OneOpening'
  BY <1>1, <1>2, <1>3, <1>4, <1>6, <1>8, OpeningBegins
<1>11. OneTail'
  <2>1. \A p \in 1..MaxOpens : ~Active(p)
    BY <1>3 DEF FollowHolds, OneTail
  <2> QED  BY <1>1, <1>4, <1>6, <2>1, TailStays
<1>12. KeptIsTrue'
  BY <1>1, KeptStands DEF FollowHolds
<1> QED  BY <1>9, <1>10, <1>11, <1>12 DEF FollowHolds

LEMMA HoldHolds ==
  ASSUME FollowApart, FollowHolds, NEW c \in 1..MaxEntries, NEW o \in 1..MaxOpens, T!Hold(c, o)
  PROVE  FollowHolds'
<1>1. /\ UNCHANGED <<file, dup, tail, cache, writing>>
      /\ entry \in [1..MaxEntries -> Followed] /\ entry[c] \in Followed
  BY DEF T!Hold, FollowHolds, FollowTypes
<1>2. KeptIsTrue'
  BY <1>1, KeptStands DEF FollowHolds
<1>3. CASE /\ current # None /\ c = current
           /\ entry' = [entry EXCEPT ![c].holds = @ + 1]
           /\ UNCHANGED <<current, opening>>
  <2> DEFINE e == [entry[c] EXCEPT !.holds = entry[c].holds + 1]
  <2>1. /\ e \in Followed /\ e.made = entry[c].made /\ e.tail = entry[c].tail
        /\ e.fold = entry[c].fold /\ e.frozen = entry[c].frozen /\ e.timer = entry[c].timer
    BY <1>1 DEF Followed
  <2>2. entry' = [entry EXCEPT ![c] = e]
    BY <1>1, <1>3
  <2> HIDE DEF e
  <2>3. /\ entry' \in [1..MaxEntries -> Followed] /\ entry'[c] = e
        /\ \A x \in 1..MaxEntries : x # c => entry'[x] = entry[x]
    BY <1>1, <2>1, <2>2
  <2>4. FollowTypes'
    BY <1>1, <1>3, <2>3 DEF FollowHolds, FollowTypes
  <2>5. OneOpening'
    <3>1. entry[c].made
      BY <1>3 DEF FollowHolds, OneOpening, FrozenIsDup
    <3> QED  BY <1>1, <1>3, <2>1, <2>3, <3>1, OneEntryKeeps
  <2>6. OneTail'
    BY <1>1, <1>3, <2>1, <2>3, TailStays
  <2> QED  BY <1>2, <2>4, <2>5, <2>6 DEF FollowHolds
<1>4. CASE /\ current = None /\ ~entry[c].made /\ o \in T!Free /\ current' = c
           /\ entry' = [entry EXCEPT ![c].made = TRUE, ![c].holds = 1, ![c].frozen = dup,
                                     ![c].standing = IF dup THEN "frozen" ELSE "absent"]
           /\ opening' = IF dup THEN opening ELSE T!Begin(o, c, FALSE)
  <2> DEFINE s == IF dup THEN "frozen" ELSE "absent"
             e == [entry[c] EXCEPT !.made = TRUE, !.holds = 1, !.frozen = dup, !.standing = s]
  <2>1. entry[c] = T!NoEntry /\ dup \in BOOLEAN
    BY <1>4 DEF FollowHolds, FollowTypes, OneOpening, Unmade
  <2>2. entry[c].tail = 0 /\ entry[c].fold = <<>> /\ entry[c].timer = "none"
    BY <2>1 DEF T!NoEntry
  <2>3. s \in {"frozen", "absent"}
    OBVIOUS
  <2>4. entry' = [entry EXCEPT ![c] = e]
    BY <1>1, <1>4
  <2> HIDE DEF s
  <2>5. /\ e \in Followed /\ e.made /\ e.tail = 0 /\ e.fold = <<>> /\ e.frozen = dup
        /\ e.timer = "none"
    <3>1. dup \in BOOLEAN
      BY <2>1
    <3>2. /\ e \in Followed /\ e.made = TRUE /\ e.tail = entry[c].tail /\ e.fold = entry[c].fold
          /\ e.timer = entry[c].timer
      <4>1. 1 \in Int /\ TRUE \in BOOLEAN
        OBVIOUS
      <4>2. e \in Followed
        BY <1>1, <2>3, <3>1, <4>1 DEF Followed
      <4>3. /\ e.made = TRUE /\ e.tail = entry[c].tail /\ e.fold = entry[c].fold
            /\ e.timer = entry[c].timer
        BY <1>1 DEF Followed
      <4> QED  BY <4>2, <4>3
    <3>3. e.frozen = dup
      BY <1>1 DEF Followed
    <3> HIDE DEF e
    <3> QED  BY <2>2, <3>2, <3>3
  <2> HIDE DEF e
  <2>6. /\ entry' \in [1..MaxEntries -> Followed] /\ entry'[c] = e
        /\ \A x \in 1..MaxEntries : x # c => entry'[x] = entry[x]
    BY <1>1, <2>4, <2>5
  <2>7. \A p \in 1..MaxOpens : Busy(p) => opening[p].entry # c
    BY <1>4 DEF FollowHolds, OneOpening, BusyIsMade
  <2>8. \A p \in 1..MaxOpens : ~Active(p)
    BY <1>4 DEF FollowHolds, OneTail, FollowApart
  <2>9. current' # None => entry'[current'].made /\ entry'[current'].frozen = dup'
    BY <1>1, <1>4, <2>5, <2>6
  <2>10. opening' \in [1..MaxOpens -> Opening] /\ OneOpening'
    <3>1. CASE dup
      <4>1. opening' = opening
        BY <1>4, <3>1
      <4>2. \A p \in 1..MaxOpens : Busy(p)' => Busy(p) /\ opening'[p].entry = opening[p].entry
        BY <4>1 DEF Busy
      <4>3. \A p \in 1..MaxOpens : opening'[p].at \in {"find", "cache"} =>
              entry'[opening'[p].entry].tail = 0
        <5> SUFFICES ASSUME NEW p \in 1..MaxOpens, opening[p].at \in {"find", "cache"}
                     PROVE  entry'[opening[p].entry].tail = 0
          BY <4>1
        <5>1. Busy(p)
          BY DEF Busy
        <5>2. opening[p].entry \in 1..MaxEntries /\ entry[opening[p].entry].tail = 0
          BY <5>1, BusyEntry DEF FollowHolds, OneOpening, NotTakenUp
        <5> QED  BY <2>5, <2>6, <5>2
      <4>4. OneOpening'
        BY <2>5, <2>6, <2>9, <4>2, <4>3, OpeningGoesOn
      <4> QED  BY <4>1, <4>4 DEF FollowHolds, FollowTypes
    <3>2. CASE ~dup
      <4>1. Begun(o, c)
        BY <1>4, <3>2, BeginsThere
      <4> QED  BY <2>5, <2>6, <2>7, <2>9, <4>1, OpeningBegins DEF Begun
    <3> QED  BY <2>1, <3>1, <3>2
  <2>11. FollowTypes'
    BY <1>1, <1>4, <2>6, <2>10 DEF FollowHolds, FollowTypes
  <2>12. OneTail'
    <3>1. \A x \in 1..MaxEntries : entry'[x].tail = 0 => entry'[x].fold = <<>>
      BY <2>5, <2>6 DEF FollowHolds, OneTail
    <3>2. \A p \in 1..MaxOpens : ~Active(p)'
      BY <1>1, <2>8 DEF Active
    <3>3. entry'[current'].tail = 0
      BY <1>4, <2>5, <2>6
    <3> QED  BY <3>1, <3>2, <3>3 DEF OneTail
  <2> QED  BY <1>2, <2>10, <2>11, <2>12 DEF FollowHolds
<1> QED  BY <1>3, <1>4, Zenon DEF T!Hold

LEMMA ReleaseHolds ==
  ASSUME FollowApart, FollowHolds, NEW c \in 1..MaxEntries, T!Release(c)
  PROVE  FollowHolds'
<1>1. /\ UNCHANGED <<file, dup, opening, cache>> /\ current = c /\ current # None
      /\ entry \in [1..MaxEntries -> Followed] /\ entry[c] \in Followed
  BY DEF T!Release, FollowHolds, FollowTypes, FollowApart
<1>2. entry[c].made
  BY <1>1 DEF FollowHolds, OneOpening, FrozenIsDup
<1>3. CASE /\ entry' = [entry EXCEPT ![c].holds = @ - 1]
           /\ UNCHANGED <<current, tail, writing>>
  <2> DEFINE e == [entry[c] EXCEPT !.holds = entry[c].holds - 1]
  <2>1. /\ e \in Followed /\ e.made = entry[c].made /\ e.tail = entry[c].tail
        /\ e.fold = entry[c].fold /\ e.frozen = entry[c].frozen /\ e.timer = entry[c].timer
    BY <1>1 DEF Followed
  <2>2. entry' = [entry EXCEPT ![c] = e]
    BY <1>1, <1>3
  <2> HIDE DEF e
  <2>3. /\ entry' \in [1..MaxEntries -> Followed] /\ entry'[c] = e
        /\ \A x \in 1..MaxEntries : x # c => entry'[x] = entry[x]
    BY <1>1, <2>1, <2>2
  <2>4. FollowTypes'
    BY <1>1, <1>3, <2>3 DEF FollowHolds, FollowTypes
  <2>5. OneOpening'
    BY <1>1, <1>2, <1>3, <2>1, <2>3, OneEntryKeeps
  <2>6. OneTail'
    BY <1>1, <1>3, <2>1, <2>3, TailStays
  <2>7. KeptIsTrue'
    BY <1>1, <1>3, KeptStands DEF FollowHolds
  <2> QED  BY <2>4, <2>5, <2>6, <2>7 DEF FollowHolds
<1>4. CASE /\ current' = None /\ tail' = T!Let(c) /\ writing' = writing \o T!Remember(c)
           /\ entry' = [entry EXCEPT ![c].holds = 0, ![c].timer = "none"]
  <2> DEFINE e == [entry[c] EXCEPT !.holds = 0, !.timer = "none"]
  <2>1. /\ e \in Followed /\ e.made = entry[c].made /\ e.tail = entry[c].tail
        /\ e.fold = entry[c].fold /\ e.frozen = entry[c].frozen /\ e.timer = "none"
    <3>1. 0 \in Int /\ "none" \in {"none", "appeared", "again"}
      OBVIOUS
    <3>2. e \in Followed
      BY <1>1, <3>1 DEF Followed
    <3>3. /\ e.made = entry[c].made /\ e.tail = entry[c].tail
          /\ e.fold = entry[c].fold /\ e.frozen = entry[c].frozen /\ e.timer = "none"
      BY <1>1 DEF Followed
    <3> QED  BY <3>2, <3>3
  <2>2. entry' = [entry EXCEPT ![c] = e]
    BY <1>1, <1>4
  <2> HIDE DEF e
  <2>3. /\ entry' \in [1..MaxEntries -> Followed] /\ entry'[c] = e
        /\ \A x \in 1..MaxEntries : x # c => entry'[x] = entry[x]
    BY <1>1, <2>1, <2>2
  <2>4. LetGo(c)
    BY <1>4, LetStops
  <2>5. KeptIsTrue' /\ writing' \in Seq(Cached)
    BY <1>1, <1>4, KeptRemembers
  <2>6. FollowTypes'
    BY <1>1, <1>4, <2>3, <2>4, <2>5 DEF FollowHolds, FollowTypes, LetGo
  <2>7. OneOpening'
    <3>1. \A o \in 1..MaxOpens : Busy(o)' => Busy(o) /\ opening'[o].entry = opening[o].entry
      BY <1>1 DEF Busy
    <3>2. \A o \in 1..MaxOpens : opening'[o].at \in {"find", "cache"} =>
            entry'[opening'[o].entry].tail = 0
      <4> SUFFICES ASSUME NEW o \in 1..MaxOpens, opening[o].at \in {"find", "cache"}
                   PROVE  entry'[opening[o].entry].tail = 0
        BY <1>1
      <4>1. Busy(o)
        BY DEF Busy
      <4>2. opening[o].entry \in 1..MaxEntries /\ entry[opening[o].entry].tail = 0
        BY <4>1, BusyEntry DEF FollowHolds, OneOpening, NotTakenUp
      <4> QED  BY <2>1, <2>3, <4>2
    <3>3. entry'[c].made /\ entry'[c].timer = "none"
      BY <1>2, <2>1, <2>3
    <3> QED  BY <1>4, <2>3, <3>1, <3>2, <3>3, OpeningGoesOn
  <2>8. OneTail'
    <3>1. \A o \in 1..MaxOpens : ~Active(o)'
      BY <1>1, <2>4, NoneReads
    <3>2. \A x \in 1..MaxEntries : entry'[x].tail = 0 => entry'[x].fold = <<>>
      BY <2>1, <2>3 DEF FollowHolds, OneTail
    <3> QED  BY <1>4, <3>1, <3>2 DEF OneTail
  <2> QED  BY <2>5, <2>6, <2>7, <2>8 DEF FollowHolds
<1> QED  BY <1>3, <1>4, Zenon DEF T!Release

(* A thaw that finds no opening of its entry at an await.                  *)
LEMMA ThawHolds ==
  ASSUME FollowApart, FollowHolds, NEW o \in 1..MaxOpens, T!Thaw(o), ~overlapped'
  PROVE  FollowHolds'
<1>1. UNCHANGED <<file, current, tail, cache>> /\ dup /\ dup' = FALSE
  BY DEF T!Thaw
<1>2. CASE current = None
  <2>1. UNCHANGED <<entry, opening, writing>>
    BY <1>2 DEF T!Thaw
  <2>2. FollowTypes'
    BY <1>1, <2>1 DEF FollowHolds, FollowTypes
  <2>3. OneOpening'
    BY <1>1, <1>2, <2>1 DEF FollowHolds, OneOpening, Unmade, FrozenIsDup, Awaited,
       BusyIsMade, BusyIsAlone, NotTakenUp, Busy
  <2>4. OneTail'
    BY <1>1, <1>2, <2>1 DEF FollowHolds, OneTail, Active
  <2>5. KeptIsTrue'
    BY <1>1, <2>1, KeptStands DEF FollowHolds
  <2> QED  BY <2>2, <2>3, <2>4, <2>5 DEF FollowHolds
<1>3. CASE current # None
  <2> DEFINE c == current
             e == [entry[c] EXCEPT !.frozen = FALSE, !.fold = <<>>, !.tail = 0,
                                   !.path = FALSE, !.standing = "absent"]
  <2>1. /\ o \in T!Free /\ opening' = T!Begin(o, c, FALSE)
        /\ writing' = IF entry[c].path THEN Append(writing, T!Dropped) ELSE writing
        /\ entry' = [entry EXCEPT ![c] = e]
    BY <1>3 DEF T!Thaw
  <2>0. ~T!InFlight(c)
    BY <1>3, Zenon DEF T!Thaw
  <2>2. /\ c \in 1..MaxEntries /\ entry \in [1..MaxEntries -> Followed] /\ entry[c] \in Followed
        /\ entry[c].made /\ entry[c].frozen
    BY <1>1, <1>3 DEF FollowHolds, FollowTypes, OneOpening, FrozenIsDup
  <2>3. entry[c].timer = "none" /\ \A p \in 1..MaxOpens : ~Active(p)
    BY <2>2 DEF FollowHolds, OneOpening, Awaited, OneTail
  <2>4. \A p \in 1..MaxOpens : Busy(p) => opening[p].entry # c
    BY <2>0 DEF T!InFlight, T!Open, Busy
  <2>5. /\ e \in Followed /\ e.made = entry[c].made /\ e.tail = 0 /\ e.fold = <<>>
        /\ e.frozen = FALSE /\ e.timer = entry[c].timer
    <3>1. <<>> \in Folds /\ 0 \in 0..MaxOpens
      BY DEF Folds, FollowApart
    <3> QED  BY <2>2, <3>1 DEF Followed
  <2> HIDE DEF e
  <2>6. /\ entry' \in [1..MaxEntries -> Followed] /\ entry'[c] = e
        /\ \A x \in 1..MaxEntries : x # c => entry'[x] = entry[x]
    BY <2>1, <2>2, <2>5
  <2>7. Begun(o, c)
    BY <2>1, <2>2, BeginsThere
  <2>8. KeptIsTrue' /\ writing' \in Seq(Cached)
    <3>1. CASE entry[c].path
      BY <1>1, <2>1, <3>1, DroppedIsTrue, KeptGrows
    <3>2. CASE ~entry[c].path
      BY <1>1, <2>1, <3>2, KeptStands DEF FollowHolds, FollowTypes
    <3> QED  BY <3>1, <3>2
  <2>9. FollowTypes'
    BY <1>1, <2>6, <2>7, <2>8 DEF FollowHolds, FollowTypes, Begun
  <2>10. OneOpening'
    <3>1. current' # None => entry'[current'].made /\ entry'[current'].frozen = dup'
      BY <1>1, <2>2, <2>5, <2>6
    <3> QED  BY <2>2, <2>3, <2>4, <2>5, <2>6, <2>7, <3>1, OpeningBegins
  <2>11. OneTail'
    <3>1. \A p \in 1..MaxOpens : ~Active(p)'
      BY <1>1, <2>3 DEF Active
    <3>2. \A x \in 1..MaxEntries : entry'[x].tail = 0 => entry'[x].fold = <<>>
      BY <2>5, <2>6 DEF FollowHolds, OneTail
    <3>3. entry'[current'].tail = 0
      BY <1>1, <2>5, <2>6
    <3> QED  BY <3>1, <3>2, <3>3 DEF OneTail
  <2> QED  BY <2>8, <2>9, <2>10, <2>11 DEF FollowHolds
<1> QED  BY <1>2, <1>3

-----------------------------------------------------------------------------
(* Once a thaw has overlapped an opening, it has.                          *)
LEMMA OverlapStays == T!Next => overlapped' = overlapped \/ \E o \in 1..MaxOpens : T!Thaw(o)
<1> SUFFICES ASSUME T!Next, \A o \in 1..MaxOpens : ~T!Thaw(o) PROVE overlapped' = overlapped
  OBVIOUS
<1>1. CASE T!Write \/ T!State \/ T!Freeze \/ T!Lands
  BY <1>1 DEF T!Write, T!State, T!Freeze, T!Lands
<1>2. CASE \E another \in BOOLEAN : T!Replace(another)
  BY <1>2 DEF T!Replace
<1>3. ASSUME NEW o \in 1..MaxOpens,
             \/ T!Find(o) \/ T!TakeUp(o) \/ T!Opened(o) \/ T!Finished(o) \/ T!TimerFires(o)
             \/ T!Stat(o) \/ T!Slice(o) \/ T!Refresh(o) \/ T!Fails(o)
      PROVE  overlapped' = overlapped
  BY <1>3 DEF T!Find, T!TakeUp, T!Opened, T!Finished, T!TimerFires, T!Stat, T!Slice, T!Refresh,
     T!Fails
<1>4. ASSUME NEW e \in 1..MaxEntries, T!Release(e) \/ \E o \in 1..MaxOpens : T!Hold(e, o)
      PROVE  overlapped' = overlapped
  BY <1>4 DEF T!Release, T!Hold
<1> QED  BY <1>1, <1>2, <1>3, <1>4 DEF T!Next, T!Steps, T!Open, T!Entry

LEMMA OverlapLasts == ASSUME T!Next, ~overlapped' PROVE ~overlapped
<1>1. CASE \E o \in 1..MaxOpens : T!Thaw(o)
  BY <1>1, Zenon DEF T!Thaw
<1> QED  BY <1>1, OverlapStays

LEMMA FollowStep == FollowApart => (FollowHolds /\ T!Next /\ ~overlapped' => FollowHolds')
<1> SUFFICES ASSUME FollowApart, FollowHolds, T!Next, ~overlapped' PROVE FollowHolds'
  OBVIOUS
<1>1. CASE T!Write
  BY <1>1, WriteHolds
<1>2. CASE T!State
  BY <1>2, StateHolds
<1>3. CASE T!Freeze
  BY <1>3, FreezeHolds
<1>4. CASE T!Lands
  BY <1>4, LandsHolds
<1>5. CASE \E another \in BOOLEAN : T!Replace(another)
  BY <1>5, ReplaceHolds
<1>6. ASSUME NEW o \in 1..MaxOpens,
             \/ T!Find(o) \/ T!TakeUp(o) \/ T!Opened(o) \/ T!Finished(o) \/ T!TimerFires(o)
             \/ T!Stat(o) \/ T!Slice(o) \/ T!Refresh(o) \/ T!Thaw(o) \/ T!Fails(o)
      PROVE  FollowHolds'
  BY <1>6, FindHolds, TakeUpHolds, OpenedHolds, FinishedHolds, TimerFiresHolds, StatHolds,
     SliceHolds, RefreshHolds, ThawHolds, FailsHolds
<1>7. ASSUME NEW e \in 1..MaxEntries, T!Release(e) \/ \E o \in 1..MaxOpens : T!Hold(e, o)
      PROVE  FollowHolds'
  BY <1>7, ReleaseHolds, HoldHolds
<1> QED  BY <1>1, <1>2, <1>3, <1>4, <1>5, <1>6, <1>7 DEF T!Next, T!Steps, T!Open, T!Entry

LEMMA FollowStutters == FollowHolds /\ UNCHANGED T!vars => FollowHolds'
BY DEF T!vars, FollowHolds, FollowTypes, OneOpening, Unmade, FrozenIsDup, Awaited,
     BusyIsMade, BusyIsAlone, NotTakenUp, Busy, OneTail, Active, KeptIsTrue

LEMMA FollowedIsOfOneFile ==
  ASSUME FollowApart, ~overlapped => FollowHolds
  PROVE  T!FoldIsPrefix /\ T!TailIsWanted /\ T!CacheDescribes
<1>0. CASE overlapped
  BY <1>0 DEF T!FoldIsPrefix, T!TailIsWanted, T!CacheDescribes
<1> SUFFICES ASSUME FollowHolds
             PROVE  T!FoldIsPrefix /\ T!TailIsWanted /\ T!CacheDescribes
  BY <1>0
<1>1. file.gen \in 1..MaxFiles /\ \A gen \in 1..file.gen : gen \in 1..MaxFiles
  BY DEF FollowHolds, FollowTypes, FollowApart
<1>2. T!FoldIsPrefix
  BY <1>1 DEF FollowHolds, OneTail, OfOneFile, T!FoldIsPrefix
<1>3. T!TailIsWanted
  <2> SUFFICES ASSUME NEW o \in 1..MaxOpens, tail[o].watched
               PROVE  current = opening[o].entry /\ entry[current].tail = o /\ ~dup
    BY DEF T!TailIsWanted, T!WatchIsWanted, T!Open
  <2>1. Active(o)
    BY DEF Active
  <2> QED  BY <2>1, ActiveOwner DEF T!Owner, FollowHolds, OneOpening, FrozenIsDup
<1>4. T!CacheDescribes
  BY <1>1 DEF FollowHolds, KeptIsTrue, Describes, OfOneFile, T!CacheDescribes
<1> QED  BY <1>2, <1>3, <1>4

FollowOfOne == machine \in {"transcript", "replaced"} => (~overlapped => FollowHolds)

(* What is folded of a transcript is the records of one file from its      *)
(* first to the one its tail has reached, each once and in order, from a   *)
(* tail that is wanted, also when it was taken up from the cache, for any  *)
(* holds, openings, records, files and writes of the cache: releases,      *)
(* holds and freezes that fall between the awaits of an opening, a file    *)
(* emptied or replaced, and a reading that fails.  All of it as long as no *)
(* thaw has come while an opening of the entry was at one of its awaits;   *)
(* what is wrong after one, the run of WatchIsWanted shows                 *)
(* (Transcripts.#open, duplicated, TranscriptTail.#consume,                *)
(* FoldCache.save).                                                        *)
THEOREM TranscriptIsPrefix == FollowApart => (MCSpec => []FoldIsPrefix)
<1> SUFFICES ASSUME FollowApart PROVE MCSpec => []FoldIsPrefix
  OBVIOUS
<1>1. MCInit => FollowOfOne
  BY FollowStarts
     DEF MCInit, InitRegistry, InitRestarted, InitRuns, InitTranscript, InitReplaced,
         FollowOfOne
<1>2. FollowOfOne /\ [MCNext]_MCvars => FollowOfOne'
  <2> SUFFICES ASSUME FollowOfOne, [MCNext]_MCvars PROVE FollowOfOne'
    OBVIOUS
  <2>1. CASE OnlyRegistry \/ OnlyRestarted \/ OnlyRuns
    BY <2>1 DEF OnlyRegistry, OnlyRestarted, OnlyRuns, FollowOfOne
  <2>2. CASE (OnlyTranscript \/ OnlyReplaced) /\ T!Next
    <3>1. machine \in {"transcript", "replaced"} /\ machine' = machine
      BY <2>2 DEF OnlyTranscript, OnlyReplaced
    <3>2. ~overlapped' => FollowHolds'
      BY <2>2, <3>1, OverlapLasts, FollowStep DEF FollowOfOne
    <3> QED  BY <3>2 DEF FollowOfOne
  <2>3. CASE UNCHANGED MCvars
    <3>1. machine' = machine /\ UNCHANGED T!vars /\ overlapped' = overlapped
      BY <2>3 DEF MCvars, T!vars
    <3> QED  BY <3>1, FollowStutters DEF FollowOfOne
  <2> QED  BY <2>1, <2>2, <2>3 DEF MCNext
<1>3. FollowOfOne => FoldIsPrefix
  BY FollowedIsOfOneFile DEF FollowOfOne, FoldIsPrefix
<1> QED  BY <1>1, <1>2, <1>3, PTL DEF MCSpec
=============================================================================
