---------------------------- MODULE GatewayProofs ---------------------------
(***************************************************************************)
(* What an instance shows of the gateway, for any sessions, series and     *)
(* windows and however late, often or out of order the posts are read.     *)
(***************************************************************************)
EXTENDS Gateway, TLAPS

(* A window has a length, the clock starts at nought, and an instant that  *)
(* was never is before every one that was.                                 *)
Windows == TTL \in Nat /\ LIVE_WINDOW \in Nat

(* Every item was said at an instant that has been, and no clock is behind *)
(* what was read for it.                                                   *)
Typed ==
  /\ now \in Nat
  /\ \A r \in said : /\ r.kind \in {"request", "response", "cache_expired"}
                     /\ r.key \in SeriesKey
                     /\ r.kind # "cache_expired" => r.at \in 0..now
  /\ newest \in [Sid -> Int] /\ active \in [Sid -> Int] /\ shown \in [Sid -> Int]
  /\ \A s \in Sid : -1 <= active[s] /\ active[s] <= newest[s] /\ newest[s] <= now

(* A series has been opened at an instant and closes at another.           *)
SeriesTyped ==
  \A k \in DOMAIN series : series[k].at \in Int /\ series[k].expires \in Int

FrameTyped == \A e \in frame : e.expires \in Int

(* The clock of a session whose newest item is inside the window is that   *)
(* item, and its row says so.                                              *)
RowsCurrent ==
  \A s \in Sid :
    newest[s] # -1 /\ now - newest[s] <= LIVE_WINDOW =>
      active[s] = newest[s] /\ shown[s] = newest[s]

Shows == Typed /\ SeriesTyped /\ FrameTyped /\ RowsCurrent /\ CountdownsAgree

(* Reads in flight have seen no more of the services than there was, and   *)
(* what they will report is at least what is reported now.                 *)
Reports ==
  /\ report \in Nat /\ truth \in Nat /\ report <= truth
  /\ begun \in Nat
  /\ \A r \in reads : /\ r \in [n : Nat, saw : Int]
                      /\ r.saw = Unserved \/ (r.saw \in Nat /\ report <= r.saw /\ r.saw <= truth)
                      /\ \A q \in reads : q = r

-----------------------------------------------------------------------------
LEMMA NewerOfTwo ==
  ASSUME NEW a \in Int, NEW b \in Int
  PROVE  Max({a, b}) = IF a <= b THEN b ELSE a
BY DEF Max

(* The rows.  What an item does to the clocks and the rows.                *)
LEMMA ActiveKeeps ==
  ASSUME Windows, Typed, RowsCurrent, NEW s \in Sid, NEW at \in 0..now, Active(s, at),
         UNCHANGED now, newest' = [newest EXCEPT ![s] = Max({@, at})]
  PROVE  /\ RowsCurrent'
         /\ newest' \in [Sid -> Int] /\ active' \in [Sid -> Int] /\ shown' \in [Sid -> Int]
         /\ \A x \in Sid : -1 <= active'[x] /\ active'[x] <= newest'[x] /\ newest'[x] <= now
<1> DEFINE m == Max({newest[s], at})
<1>0. m \in Int /\ m = IF newest[s] <= at THEN at ELSE newest[s]
  BY NewerOfTwo DEF Typed
<1> HIDE DEF m
<1>1. /\ newest' \in [Sid -> Int] /\ at \in Nat /\ now \in Nat
      /\ \A x \in Sid : newest'[x] \in Int /\ newest[x] \in Int
                        /\ active[x] \in Int /\ shown[x] \in Int
                        /\ newest'[x] = (IF x = s /\ newest[x] <= at THEN at ELSE newest[x])
                        /\ newest'[x] <= now
  <2>1. newest' = [newest EXCEPT ![s] = m]
    BY DEF m
  <2> QED  BY <1>0, <2>1 DEF Typed
<1>2. CASE ~Moves(s, at)
  <2>1. UNCHANGED <<active, shown>> /\ at <= active[s]
    BY <1>1, <1>2 DEF Active, Moves
  <2>2. at <= newest[s] /\ newest' = newest
    BY <1>1, <2>1 DEF Typed
  <2> QED  BY <1>1, <2>1, <2>2 DEF Typed, RowsCurrent
<1>3. CASE Moves(s, at)
  <2> DEFINE a == Prune([active EXCEPT ![s] = at], at)
  <2>0. /\ active' = a
        /\ shown' = CASE Move(s, at) = "live" -> [x \in Sid |-> ActiveAt(a, x)]
                      [] Move(s, at) = "clock" -> [shown EXCEPT ![s] = ActiveAt(a, s)]
                      [] OTHER -> shown
    BY <1>3 DEF Active
  <2>1. \/ shown' = [x \in Sid |-> ActiveAt(a, x)]
        \/ shown' = [shown EXCEPT ![s] = ActiveAt(a, s)]
    <3> HIDE DEF a
    <3>1. Move(s, at) \in {"live", "clock"}
      BY DEF Move
    <3>2. CASE Move(s, at) = "live"
      BY <2>0, <3>2, Zenon
    <3>3. CASE Move(s, at) = "clock"
      BY <2>0, <3>3, Zenon
    <3> QED  BY <3>1, <3>2, <3>3
  <2>2. a \in [Sid -> Int] /\ \A x \in Sid :
          a[x] = IF x = s THEN at
                 ELSE IF active[x] < at - LIVE_WINDOW THEN -1 ELSE active[x]
    BY <1>1 DEF Prune, Typed, Windows
  <2>3. active[s] < at /\ at <= now
    BY <1>3 DEF Moves
  <2> HIDE DEF a
  <2>4. \A x \in Sid : -1 <= a[x] /\ a[x] <= newest'[x]
    <3> SUFFICES ASSUME NEW x \in Sid PROVE -1 <= a[x] /\ a[x] <= newest'[x]
      OBVIOUS
    <3>1. /\ newest'[x] = (IF x = s /\ newest[x] <= at THEN at ELSE newest[x])
          /\ a[x] = (IF x = s THEN at ELSE IF active[x] < at - LIVE_WINDOW THEN -1 ELSE active[x])
          /\ newest[x] \in Int /\ active[x] \in Int /\ -1 <= active[x] /\ active[x] <= newest[x]
      BY <1>1, <2>2 DEF Typed
    <3> QED  BY <1>1, <3>1
  <2>5. \A x \in Sid : ActiveAt(a, x) = IF a[x] # -1 /\ now - a[x] <= LIVE_WINDOW THEN a[x] ELSE -1
    BY DEF ActiveAt
  <2>6. shown' \in [Sid -> Int]
    BY <1>1, <2>1, <2>2, <2>5 DEF Typed
  <2>7. ASSUME NEW x \in Sid, newest'[x] # -1, now - newest'[x] <= LIVE_WINDOW
        PROVE  a[x] = newest'[x] /\ shown'[x] = newest'[x]
    <3>1. CASE x = s
      <4>1. newest'[x] = at
        <5>1. newest'[s] = (IF newest[s] <= at THEN at ELSE newest[s])
              /\ newest[s] \in Int /\ active[s] \in Int
          BY <1>1
        <5>2. newest[s] # -1 /\ now - newest[s] <= LIVE_WINDOW => active[s] = newest[s]
          BY DEF RowsCurrent
        <5> QED  BY <1>1, <2>3, <2>7, <3>1, <5>1, <5>2
      <4> QED  BY <2>1, <2>2, <2>5, <2>7, <3>1, <4>1 DEF Typed
    <3>2. CASE x # s
      <4>1. newest'[x] = newest[x] /\ active[x] = newest[x] /\ shown[x] = newest[x]
        BY <1>1, <2>7, <3>2 DEF RowsCurrent
      <4>2. a[x] = newest[x]
        BY <1>1, <2>2, <2>3, <2>7, <3>2, <4>1 DEF Windows
      <4> QED  BY <1>1, <2>1, <2>5, <2>7, <3>2, <4>1, <4>2 DEF Typed
    <3> QED  BY <3>1, <3>2
  <2> QED  BY <1>1, <2>0, <2>2, <2>4, <2>6, <2>7 DEF RowsCurrent
<1> QED  BY <1>2, <1>3

-----------------------------------------------------------------------------
(* The windows.  What a subscriber is handed names the open ones.          *)
LEMMA EntriesAre ==
  ASSUME NEW ss, NEW q, NEW p
  PROVE  /\ \A e \in Entries(ss, q, p) :
              \E k \in Open(ss) : e.key = k /\ e.expires = ss[k].expires
         /\ \A k \in Open(ss) :
              \E e \in Entries(ss, q, p) : e.key = k /\ e.expires = ss[k].expires
<1> DEFINE place(k) == SelectInSeq(q, LAMBDA x : x = k)
           main(k) == LET best == Elect(ss, p, k[1])
                      IN  k \in best /\ \A j \in best : place(k) <= place(j)
<1>1. Entries(ss, q, p) = {[key |-> k, expires |-> ss[k].expires, main |-> main(k)] : k \in Open(ss)}
  BY DEF Entries
<1> HIDE DEF main
<1>2. ASSUME NEW e \in Entries(ss, q, p)
      PROVE  \E k \in Open(ss) : e.key = k /\ e.expires = ss[k].expires
  <2>1. PICK k \in Open(ss) : e = [key |-> k, expires |-> ss[k].expires, main |-> main(k)]
    BY <1>1, Zenon
  <2> QED  BY <2>1
<1>3. ASSUME NEW k \in Open(ss)
      PROVE  \E e \in Entries(ss, q, p) : e.key = k /\ e.expires = ss[k].expires
  <2> DEFINE e == [key |-> k, expires |-> ss[k].expires, main |-> main(k)]
  <2>1. e \in Entries(ss, q, p)
    BY <1>1, Zenon
  <2>2. e.key = k /\ e.expires = ss[k].expires
    OBVIOUS
  <2> HIDE DEF e
  <2> QED  BY <2>1, <2>2
<1> QED  BY <1>2, <1>3

(* However the windows were changed, a frame that is published with them   *)
(* says the same as they do.                                               *)
LEMMA PublishedAgrees ==
  ASSUME now \in Nat, UNCHANGED now, NEW ss, NEW q, NEW p, Published(ss, q, p),
         \A k \in DOMAIN ss : ss[k].at \in Int /\ ss[k].expires \in Int
  PROVE  /\ SeriesTyped' /\ FrameTyped' /\ CountdownsAgree'
         /\ DOMAIN series' \subseteq DOMAIN ss
         /\ \A k \in DOMAIN series' : series'[k] = ss[k]
<1>1. /\ series' = [k \in Open(ss) |-> ss[k]]
      /\ frame' = Entries(ss, q, p)
      /\ \A k : k \in Open(ss) <=> k \in DOMAIN ss /\ ss[k].expires > now
  BY DEF Published, Drop, Open
<1>2. Open(series)' = Open(ss)
  BY <1>1 DEF Open
<1>3. \A e \in frame' : \E k \in Open(ss) : e.key = k /\ e.expires = ss[k].expires
  BY <1>1, EntriesAre
<1>4. \A k \in Open(ss) : \E e \in frame' : e.key = k /\ e.expires = ss[k].expires
  BY <1>1, EntriesAre
<1>5. CountdownsAgree'
  <2> DEFINE A == {<<e.key, e.expires>> : e \in {x \in frame' : x.expires > now}}
             B == {<<k, series'[k].expires>> : k \in Open(ss)}
  <2>1. ASSUME NEW z \in A PROVE z \in B
    <3>1. PICK e \in frame' : z = <<e.key, e.expires>>
      OBVIOUS
    <3>2. PICK k \in Open(ss) : e.key = k /\ e.expires = ss[k].expires
      BY <1>3
    <3> QED  BY <1>1, <3>1, <3>2
  <2>2. ASSUME NEW z \in B PROVE z \in A
    <3>1. PICK k \in Open(ss) : z = <<k, series'[k].expires>>
      OBVIOUS
    <3>2. PICK e \in frame' : e.key = k /\ e.expires = ss[k].expires
      BY <1>4
    <3> QED  BY <1>1, <3>1, <3>2
  <2>3. A = B
    BY <2>1, <2>2
  <2> QED  BY <1>2, <2>3 DEF CountdownsAgree
<1>6. SeriesTyped' /\ FrameTyped'
  BY <1>1, <1>3 DEF SeriesTyped, FrameTyped
<1> QED  BY <1>1, <1>5, <1>6

(* A window nobody touches closes on both sides at the same moment.        *)
LEMMA CountdownsStay ==
  ASSUME now \in Nat, now' \in Nat, now <= now', SeriesTyped, FrameTyped, CountdownsAgree,
         UNCHANGED <<series, frame>>
  PROVE  SeriesTyped' /\ FrameTyped' /\ CountdownsAgree'
<1>1. SeriesTyped' /\ FrameTyped'
  BY DEF SeriesTyped, FrameTyped
<1> DEFINE A == {<<e.key, e.expires>> : e \in {x \in frame : x.expires > now}}
           B == {<<k, series[k].expires>> : k \in Open(series)}
           F == {<<e.key, e.expires>> : e \in {x \in frame : x.expires > now'}}
           G == {<<k, series[k].expires>> : k \in Open(series)'}
<1>2. /\ \A k : k \in Open(series) <=> k \in DOMAIN series /\ series[k].expires > now
      /\ \A k : k \in Open(series)' <=> k \in DOMAIN series /\ series[k].expires > now'
      /\ \A k \in DOMAIN series : series[k].expires \in Int
      /\ \A e \in frame : e.expires \in Int
  BY DEF Open, SeriesTyped, FrameTyped
<1>3. A = B
  BY DEF CountdownsAgree
<1>4. ASSUME NEW z \in F PROVE z \in G
  <2>1. PICK e \in frame : z = <<e.key, e.expires>> /\ e.expires > now'
    OBVIOUS
  <2>2. z \in B
    BY <1>2, <1>3, <2>1
  <2>3. PICK k \in Open(series) : z = <<k, series[k].expires>>
    BY <2>2
  <2> QED  BY <1>2, <2>1, <2>3
<1>5. ASSUME NEW z \in G PROVE z \in F
  <2>1. PICK k \in Open(series)' : z = <<k, series[k].expires>>
    OBVIOUS
  <2>2. z \in A
    BY <1>2, <1>3, <2>1
  <2>3. PICK e \in frame : z = <<e.key, e.expires>>
    BY <2>2
  <2> QED  BY <1>2, <2>1, <2>3
<1>6. F = G
  BY <1>4, <1>5
<1> QED  BY <1>1, <1>6 DEF CountdownsAgree

-----------------------------------------------------------------------------
(* What one item does to the windows: they and the frame agree, and the    *)
(* request a series holds is never an older one (record, note, expire).    *)
LEMMA RecordOpens ==
  ASSUME Windows, Typed, SeriesTyped, FrameTyped, CountdownsAgree, UNCHANGED now,
         NEW r, r.at \in Int, r.key \in SeriesKey, Record(r)
  PROVE  SeriesTyped' /\ FrameTyped' /\ CountdownsAgree' /\ KeepsHeld
<1>1. now \in Nat /\ \A k \in DOMAIN series : series[k].at \in Int
  BY DEF Typed, SeriesTyped
<1>2. CASE ~Replaces(r)
  <2>1. UNCHANGED <<series, frame>>
    BY <1>2 DEF Record
  <2>2. KeepsHeld
    BY <1>1, <2>1 DEF KeepsHeld
  <2> QED  BY <1>1, <2>1, <2>2, CountdownsStay
<1>3. CASE Replaces(r)
  <2> DEFINE entry == [at |-> r.at, expires |-> r.at + TTL, promise |-> r.promise,
                       origin |-> r.origin,
                       first |-> IF r.key \in DOMAIN series THEN series[r.key].first ELSE taken]
             q == Append(Without(order, {r.key}), r.key)
             kept == IF Len(q) > MAX_SERIES THEN Tail(q) ELSE q
             ss == [k \in DOMAIN series \cup {r.key} |->
                      IF k = r.key THEN entry ELSE series[k]]
             gone == DOMAIN ss \ Range(kept)
             np == NotePrefix(prefixes, r.key)
  <2>1. Published(Drop(ss, gone), kept, np)
    BY <1>3 DEF Record
  <2>2. entry.at = r.at /\ entry.expires = r.at + TTL
    OBVIOUS
  <2> HIDE DEF kept, gone, np, entry
  <2>3. Drop(ss, gone) = [k \in DOMAIN ss \ gone |-> ss[k]]
    BY DEF Drop
  <2>4. /\ DOMAIN ss = DOMAIN series \cup {r.key}
        /\ ss[r.key] = entry
        /\ \A k \in DOMAIN series : k # r.key => ss[k] = series[k]
    OBVIOUS
  <2> HIDE DEF ss
  <2>5. \A k \in DOMAIN ss : ss[k].at \in Int /\ ss[k].expires \in Int
    BY <2>2, <2>4 DEF SeriesTyped, Windows
  <2>6. /\ DOMAIN Drop(ss, gone) \subseteq DOMAIN ss
        /\ \A k \in DOMAIN Drop(ss, gone) : Drop(ss, gone)[k] = ss[k]
    BY <2>3
  <2> DEFINE dd == Drop(ss, gone)
  <2>7. \A k \in DOMAIN dd : dd[k].at \in Int /\ dd[k].expires \in Int
    BY <2>5, <2>6
  <2> HIDE DEF dd
  <2>8. /\ SeriesTyped' /\ FrameTyped' /\ CountdownsAgree'
        /\ DOMAIN series' \subseteq DOMAIN dd
        /\ \A k \in DOMAIN series' : series'[k] = dd[k]
    <3>1. Published(dd, kept, np)
      BY <2>1 DEF dd
    <3> QED  BY <1>1, <2>7, <3>1, PublishedAgrees
  <2>9. \A k \in DOMAIN series' : series'[k] = ss[k]
    BY <2>6, <2>8 DEF dd
  <2>10. KeepsHeld
    <3> SUFFICES ASSUME NEW k \in DOMAIN series, k \in DOMAIN series'
                 PROVE  series[k].at <= series'[k].at
      BY DEF KeepsHeld
    <3>1. CASE k = r.key
      BY <1>1, <1>3, <2>2, <2>4, <2>9, <3>1 DEF Replaces
    <3>2. CASE k # r.key
      BY <1>1, <2>4, <2>9, <3>2
    <3> QED  BY <3>1, <3>2
  <2> QED  BY <2>8, <2>10
<1> QED  BY <1>2, <1>3

LEMMA NoteOpens ==
  ASSUME Windows, Typed, SeriesTyped, FrameTyped, CountdownsAgree, UNCHANGED now,
         NEW r, r.at \in Int, r.key \in SeriesKey, Note(r)
  PROVE  SeriesTyped' /\ FrameTyped' /\ CountdownsAgree' /\ KeepsHeld
<1>1. now \in Nat /\ \A k \in DOMAIN series : series[k].at \in Int
  BY DEF Typed, SeriesTyped
<1>2. CASE ~Rebuilds(r)
  <2>1. UNCHANGED <<series, frame>>
    BY <1>2 DEF Note
  <2>2. KeepsHeld
    BY <1>1, <2>1 DEF KeepsHeld
  <2> QED  BY <1>1, <2>1, <2>2, CountdownsStay
<1>3. CASE Rebuilds(r)
  <2> DEFINE ss == [series EXCEPT ![r.key].expires = r.at + TTL, ![r.key].promise = 0]
  <2>1. Published(ss, order, prefixes)
    BY <1>3 DEF Note
  <2>2. /\ DOMAIN ss = DOMAIN series
        /\ \A k \in DOMAIN series :
             /\ ss[k].at = series[k].at
             /\ ss[k].expires = IF k = r.key THEN r.at + TTL ELSE series[k].expires
    BY <1>3 DEF Rebuilds
  <2> HIDE DEF ss
  <2>3. \A k \in DOMAIN ss : ss[k].at \in Int /\ ss[k].expires \in Int
    BY <2>2 DEF SeriesTyped, Windows
  <2>4. /\ SeriesTyped' /\ FrameTyped' /\ CountdownsAgree'
        /\ DOMAIN series' \subseteq DOMAIN ss
        /\ \A k \in DOMAIN series' : series'[k] = ss[k]
    BY <1>1, <2>1, <2>3, PublishedAgrees
  <2>5. KeepsHeld
    BY <1>1, <2>2, <2>4 DEF KeepsHeld
  <2> QED  BY <2>4, <2>5
<1> QED  BY <1>2, <1>3

LEMMA ExpireOpens ==
  ASSUME Windows, Typed, SeriesTyped, FrameTyped, CountdownsAgree, UNCHANGED now,
         NEW r, Expire(r)
  PROVE  SeriesTyped' /\ FrameTyped' /\ CountdownsAgree' /\ KeepsHeld
<1>1. now \in Nat /\ \A k \in DOMAIN series : series[k].at \in Int
  BY DEF Typed, SeriesTyped
<1>2. CASE UNCHANGED <<series, frame>>
  <2>1. KeepsHeld
    BY <1>1, <1>2 DEF KeepsHeld
  <2> QED  BY <1>1, <1>2, <2>1, CountdownsStay
<1>3. CASE ~UNCHANGED <<series, frame>>
  <2> DEFINE ss == Drop(series, {r.key})
             q == Without(order, {r.key})
  <2>1. Published(ss, q, prefixes)
    BY <1>3 DEF Expire
  <2>2. /\ DOMAIN ss \subseteq DOMAIN series
        /\ \A k \in DOMAIN ss : ss[k] = series[k]
    BY DEF Drop
  <2> HIDE DEF ss, q
  <2>3. \A k \in DOMAIN ss : ss[k].at \in Int /\ ss[k].expires \in Int
    BY <2>2 DEF SeriesTyped
  <2>4. /\ SeriesTyped' /\ FrameTyped' /\ CountdownsAgree'
        /\ DOMAIN series' \subseteq DOMAIN ss
        /\ \A k \in DOMAIN series' : series'[k] = ss[k]
    BY <1>1, <2>1, <2>3, PublishedAgrees
  <2>5. KeepsHeld
    BY <1>1, <2>2, <2>4 DEF KeepsHeld
  <2> QED  BY <2>4, <2>5
<1> QED  BY <1>2, <1>3

LEMMA TakeShows ==
  ASSUME Windows, Shows, NEW r \in said, Take(r) PROVE Shows' /\ KeepsHeld
<1>1. Typed /\ SeriesTyped /\ FrameTyped /\ RowsCurrent /\ CountdownsAgree
  BY DEF Shows
<1>2. /\ UNCHANGED <<now, said>>
      /\ newest' = IF r.kind = "cache_expired" THEN newest
                   ELSE [newest EXCEPT ![r.key[1]] = Max({@, r.at})]
      /\ r.kind = "request" => Record(r)
      /\ r.kind = "response" => Note(r)
      /\ r.kind = "cache_expired" => Expire(r)
  BY DEF Take
<1>3. /\ r.kind \in {"request", "response", "cache_expired"}
      /\ r.key \in SeriesKey /\ r.key[1] \in Sid
      /\ r.kind # "cache_expired" => r.at \in 0..now
  BY <1>1 DEF Typed, SeriesKey
<1>4. CASE r.kind \in {"request", "response"}
  <2>1. Active(r.key[1], r.at) /\ newest' = [newest EXCEPT ![r.key[1]] = Max({@, r.at})]
    BY <1>2, <1>3, <1>4 DEF Record, Note
  <2>2. Typed' /\ RowsCurrent'
    BY <1>1, <1>2, <1>3, <1>4, <2>1, ActiveKeeps DEF Typed
  <2>3. r.at \in Int
    BY <1>3, <1>4
  <2> QED  BY <1>1, <1>2, <1>3, <1>4, <2>2, <2>3, RecordOpens, NoteOpens DEF Shows
<1>5. CASE r.kind = "cache_expired"
  <2>1. UNCHANGED <<newest, active, shown>> /\ Expire(r)
    BY <1>2, <1>5 DEF Expire
  <2>2. Typed' /\ RowsCurrent'
    BY <1>1, <1>2, <2>1 DEF Typed, RowsCurrent
  <2> QED  BY <1>1, <1>2, <2>1, <2>2, ExpireOpens DEF Shows
<1> QED  BY <1>3, <1>4, <1>5

-----------------------------------------------------------------------------
(* Everything a step does to the rows and the windows.                     *)
LEMMA Rest ==
  ASSUME Windows, Shows, UNCHANGED <<now, posts, requests>> PROVE Shows' /\ KeepsHeld
<1>1. Typed' /\ RowsCurrent'
  BY DEF Shows, Typed, RowsCurrent, posts, requests
<1>2. SeriesTyped' /\ FrameTyped' /\ CountdownsAgree'
  BY CountdownsStay DEF Shows, Typed, requests
<1>3. KeepsHeld
  BY DEF Shows, SeriesTyped, KeepsHeld, requests
<1> QED  BY <1>1, <1>2, <1>3 DEF Shows

LEMMA SayShows ==
  ASSUME Windows, Shows, NEW item, Says(item),
         item.kind \in {"request", "response", "cache_expired"},
         item.key \in SeriesKey, item.at = now
  PROVE  Shows' /\ KeepsHeld
<1>1. /\ said' = said \cup {item} /\ UNCHANGED <<now, newest, requests>>
      /\ now \in Nat
  BY DEF Says, Shows, Typed
<1>2. item.at \in 0..now
  BY <1>1
<1>3. Typed' /\ RowsCurrent'
  BY <1>1, <1>2 DEF Shows, Typed, RowsCurrent, requests
<1>4. SeriesTyped' /\ FrameTyped' /\ CountdownsAgree'
  BY <1>1, CountdownsStay DEF Shows, requests
<1>5. KeepsHeld
  BY <1>1 DEF Shows, SeriesTyped, KeepsHeld, requests
<1> QED  BY <1>3, <1>4, <1>5 DEF Shows

LEMMA TickShows ==
  ASSUME Windows, Shows, Tick PROVE Shows' /\ KeepsHeld
<1>1. /\ now' = now + 1 /\ now \in Nat /\ UNCHANGED <<posts, requests>>
  BY DEF Tick, Shows, Typed
<1>2. Typed'
  <2>1. \A r \in said : r.kind # "cache_expired" => r.at \in 0..now'
    BY <1>1 DEF Shows, Typed
  <2>2. \A s \in Sid : -1 <= active[s] /\ active[s] <= newest[s] /\ newest[s] <= now'
    <3> SUFFICES ASSUME NEW s \in Sid
                 PROVE -1 <= active[s] /\ active[s] <= newest[s] /\ newest[s] <= now'
      OBVIOUS
    <3> QED  BY <1>1 DEF Shows, Typed
  <2> QED  BY <1>1, <2>1, <2>2 DEF Shows, Typed, posts, requests
<1>3. RowsCurrent'
  <2> SUFFICES ASSUME NEW s \in Sid, newest[s] # -1, now' - newest[s] <= LIVE_WINDOW
               PROVE  active[s] = newest[s] /\ shown[s] = newest[s]
    BY <1>1 DEF RowsCurrent, posts, requests
  <2>1. newest[s] \in Int
    BY DEF Shows, Typed
  <2>2. now - newest[s] <= LIVE_WINDOW
    BY <1>1, <2>1 DEF Windows
  <2> QED  BY <2>2 DEF Shows, RowsCurrent
<1>4. SeriesTyped' /\ FrameTyped' /\ CountdownsAgree'
  BY <1>1, CountdownsStay DEF Shows, requests
<1>5. KeepsHeld
  BY <1>1 DEF Shows, SeriesTyped, KeepsHeld, requests
<1> QED  BY <1>2, <1>3, <1>4, <1>5 DEF Shows

LEMMA SnapshotShows ==
  ASSUME Windows, Shows, Snapshot PROVE Shows' /\ KeepsHeld
<1>1. Published(series, order, prefixes) /\ UNCHANGED <<now, posts, active, shown>>
  BY DEF Snapshot
<1>2. Typed' /\ RowsCurrent'
  BY <1>1 DEF Shows, Typed, RowsCurrent, posts
<1>3. /\ SeriesTyped' /\ FrameTyped' /\ CountdownsAgree'
      /\ \A k \in DOMAIN series' : series'[k] = series[k]
  BY <1>1, PublishedAgrees DEF Shows, Typed, SeriesTyped
<1>4. KeepsHeld
  BY <1>3 DEF Shows, SeriesTyped, KeepsHeld
<1> QED  BY <1>2, <1>3, <1>4 DEF Shows

(* The step, of the rows and the windows.                                  *)
LEMMA ShowsStep ==
  ASSUME Windows, Shows, Next PROVE Shows' /\ KeepsHeld
<1>1. CASE Tick
  BY <1>1, TickShows
<1>2. ASSUME NEW k \in SeriesKey, NEW promised \in BOOLEAN, NEW o \in Origin,
             NEW refused \in Refused, SayRequest(k, promised, o, refused)
      PROVE  Shows' /\ KeepsHeld
  BY <1>2, SayShows DEF SayRequest, Request
<1>3. ASSUME NEW r \in said, NEW c \in {"hit", "written"}, SayResponse(r, c)
      PROVE  Shows' /\ KeepsHeld
  BY <1>3, SayShows DEF SayResponse, Response, Shows, Typed
<1>4. ASSUME NEW r \in said, SayExpired(r) PROVE Shows' /\ KeepsHeld
  BY <1>4, SayShows DEF SayExpired, Expired, Shows, Typed
<1>5. ASSUME NEW r \in said, Take(r) PROVE Shows' /\ KeepsHeld
  BY <1>5, TakeShows
<1>6. CASE Snapshot
  BY <1>6, SnapshotShows
<1>7. CASE Start \/ Stop \/ Settled \/ TruthChanges
  BY <1>7, Rest DEF Start, Stop, Settled, TruthChanges
<1>8. ASSUME NEW r \in reads,
             Served(r) \/ ReadFails(r) \/ \E u \in BOOLEAN : ReadEnds(r, u)
      PROVE  Shows' /\ KeepsHeld
  BY <1>8, Rest DEF Served, ReadFails, ReadEnds
<1> QED  BY <1>1, <1>2, <1>3, <1>4, <1>5, <1>6, <1>7, <1>8 DEF Next

-----------------------------------------------------------------------------
(* The report.  One read is in flight, whoever asked for it.               *)
LEMMA ReadReports ==
  ASSUME Reports, Read, UNCHANGED <<report, truth>> PROVE Reports' /\ KeepsReport
<1>1. KeepsReport
  BY DEF Reports, KeepsReport
<1>2. CASE reads # {}
  BY <1>1, <1>2 DEF Reports, Read
<1>3. CASE reads = {}
  <2>1. reads' = {[n |-> begun, saw |-> Unserved]} /\ begun' = begun + 1
    BY <1>3 DEF Read
  <2> QED  BY <1>1, <2>1 DEF Reports, Unserved
<1> QED  BY <1>2, <1>3

LEMMA ReportsStep ==
  ASSUME Reports, Next PROVE Reports' /\ KeepsReport
<1>0. UNCHANGED <<report, reads, begun, truth>> => Reports' /\ KeepsReport
  BY DEF Reports, KeepsReport
<1>1. CASE Tick
  BY <1>0, <1>1 DEF Tick, status
<1>2. ASSUME NEW item, Says(item) PROVE Reports' /\ KeepsReport
  BY <1>0, <1>2 DEF Says, status
<1>3. ASSUME NEW r \in said, Take(r) PROVE Reports' /\ KeepsReport
  BY <1>0, <1>3 DEF Take
<1>4. CASE Snapshot
  BY <1>0, <1>4 DEF Snapshot, status
<1>5. CASE Start \/ Settled
  BY <1>5, ReadReports DEF Start, Settled
<1>6. CASE Stop
  BY <1>0, <1>6 DEF Stop
<1>7. CASE TruthChanges
  <2>1. truth' = truth + 1 /\ UNCHANGED <<report, reads, begun>>
    BY <1>7 DEF TruthChanges, status
  <2>2. \A r \in reads : r.saw = Unserved
                         \/ (r.saw \in Nat /\ report <= r.saw /\ r.saw <= truth')
    BY <2>1 DEF Reports
  <2> QED  BY <2>1, <2>2 DEF Reports, KeepsReport
<1>8. ASSUME NEW r \in reads,
             Served(r) \/ ReadFails(r) \/ \E u \in BOOLEAN : ReadEnds(r, u)
      PROVE  Reports' /\ KeepsReport
  <2>1. /\ reads = {r} /\ r \in [n : Nat, saw : Int]
        /\ r.saw = Unserved \/ (r.saw \in Nat /\ report <= r.saw /\ r.saw <= truth)
    BY DEF Reports
  <2>2. CASE Served(r)
    <3>1. /\ reads' = {[r EXCEPT !.saw = truth]}
          /\ UNCHANGED <<report, begun, truth>>
      BY <2>1, <2>2 DEF Served
    <3> QED  BY <2>1, <3>1 DEF Reports, KeepsReport, Unserved
  <2>3. CASE ReadFails(r)
    BY <2>1, <2>3 DEF ReadFails, Reports, KeepsReport
  <2>4. ASSUME NEW u \in BOOLEAN, ReadEnds(r, u) PROVE Reports' /\ KeepsReport
    <3>1. /\ r.saw \in Nat /\ report <= r.saw /\ r.saw <= truth
          /\ reads' = {} /\ UNCHANGED <<begun, truth>>
          /\ report' \in {report, r.saw}
      BY <2>1, <2>4 DEF ReadEnds, Unserved
    <3> QED  BY <3>1 DEF Reports, KeepsReport
  <2> QED  BY <1>8, <2>2, <2>3, <2>4
<1> QED
  BY <1>1, <1>2, <1>3, <1>4, <1>5, <1>6, <1>7, <1>8
  DEF Next, SayRequest, SayResponse, SayExpired

-----------------------------------------------------------------------------
LEMMA Begins ==
  ASSUME Windows, Init PROVE Shows /\ Reports
<1>1. Typed /\ SeriesTyped /\ FrameTyped /\ RowsCurrent
  BY DEF Init, Typed, SeriesTyped, FrameTyped, RowsCurrent
<1>2. CountdownsAgree
  BY DEF Init, CountdownsAgree, Open
<1>3. Reports
  BY DEF Init, Reports
<1> QED  BY <1>1, <1>2, <1>3 DEF Shows

LEMMA Stays ==
  ASSUME Windows, Shows, Reports, UNCHANGED vars
  PROVE  Shows' /\ Reports' /\ KeepsHeld /\ KeepsReport
<1>1. Shows' /\ KeepsHeld
  BY Rest DEF vars
<1>2. Reports' /\ KeepsReport
  BY DEF Reports, KeepsReport, vars, status
<1> QED  BY <1>1, <1>2

(* The rows and the countdowns say the newest that was heard, in whatever  *)
(* order it was heard and whatever was pruned, evicted or withdrawn in     *)
(* between (RequestWindows.record, note, expire, active, entries).         *)
THEOREM GatewayIsShown ==
  Windows => (Spec => [](RowShowsNewest /\ CountdownsAgree))
<1> SUFFICES ASSUME Windows PROVE Spec => [](RowShowsNewest /\ CountdownsAgree)
  OBVIOUS
<1>1. Init => Shows /\ Reports
  BY Begins
<1>2. Shows /\ Reports /\ [Next]_vars => (Shows /\ Reports)'
  BY ShowsStep, ReportsStep, Stays
<1>3. Shows => RowShowsNewest /\ CountdownsAgree
  BY DEF Shows, RowsCurrent, RowShowsNewest
<1> QED  BY <1>1, <1>2, <1>3, PTL DEF Spec

(* A request delivered late or twice does not replace a newer one of its   *)
(* series (RequestWindows.record).                                         *)
THEOREM RequestNeverOlder == Windows => (Spec => HeldNeverOlder)
<1> SUFFICES ASSUME Windows PROVE Spec => [][KeepsHeld]_vars
  BY DEF HeldNeverOlder
<1>1. Init => Shows /\ Reports
  BY Begins
<1>2. Shows /\ Reports /\ [Next]_vars => (Shows /\ Reports)' /\ KeepsHeld
  BY ShowsStep, ReportsStep, Stays
<1> QED  BY <1>1, <1>2, PTL DEF Spec

(* The report of the services is never replaced by one that saw less of    *)
(* them (StatusReader.read, which its callers share).                      *)
THEOREM ReportNeverOlder == Windows => (Spec => ReportNeverGoesBack)
<1> SUFFICES ASSUME Windows PROVE Spec => [][KeepsReport]_vars
  BY DEF ReportNeverGoesBack
<1>1. Init => Shows /\ Reports
  BY Begins
<1>2. Shows /\ Reports /\ [Next]_vars => (Shows /\ Reports)' /\ KeepsReport
  BY ShowsStep, ReportsStep, Stays
<1> QED  BY <1>1, <1>2, PTL DEF Spec
=============================================================================
