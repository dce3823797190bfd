----------------------------- MODULE AuthProofs -----------------------------
(***************************************************************************)
(* The deadline of a connection an access token opened, and the family of  *)
(* a browser that asks one page at a time, for any number of instances,    *)
(* pages and connections, any lifetimes and any order in which the records *)
(* of the other instances arrive; and what the ceremonies let through and  *)
(* answer, for any number of exchanges, URLs, challenges, passkeys,        *)
(* grantings and removals side by side; and the records of two instances,  *)
(* for any keys, writes, kills, cuts and documents that cannot be written. *)
(***************************************************************************)
EXTENDS MCAuth, SequenceTheorems, TLAPS

Value == [value : Int, till : Int]

Record ==
  [at : Int, failed : BOOLEAN, refresh : Value, access : Int,
   previous : [value : Int \cup {None}, till : Int],
   retired : SUBSET Value, issued : SUBSET Value]

Opened == [at : Inst, till : Int, due : Int, latest : Int]

Types ==
  /\ now \in Int /\ minted \in Int
  /\ family \in [Inst -> Record]
  /\ news \subseteq Record
  /\ conn \in [Conn -> Opened \cup {None}]

(* The timer never waits past the latest deadline told, and time never     *)
(* passes a timer: an earlier deadline may have been told since.           *)
TimerIsInTime ==
  \A n \in Conn : conn[n] # None =>
    /\ now <= conn[n].due
    /\ conn[n].due <= conn[n].latest
    /\ conn[n].till <= conn[n].latest

-----------------------------------------------------------------------------
(* A rotation or a mark makes a record of a record.                        *)
LEMMA RotatedIsRecord ==
  ASSUME now \in Int, NEW f \in Record, NEW v \in Int
  PROVE  Rotated(f, v) \in Record
<1>1. Stamp(f) \in Int /\ Access(f) \in Int
  BY LifetimeAssumption DEF Stamp, Access, Record
<1>2. [value |-> v, till |-> now + REFRESH_TTL] \in Value
  BY LifetimeAssumption DEF Value
<1>3. Retire(f) \subseteq Value
  BY DEF Retire, Record
<1>4. [value |-> f.refresh.value, till |-> now + PREVIOUS_GRACE]
        \in [value : Int \cup {None}, till : Int]
  BY LifetimeAssumption DEF Record, Value
<1>5. f.issued \cup {[value |-> v, till |-> now + REFRESH_TTL]} \subseteq Value
  BY <1>2 DEF Record
<1> QED  BY <1>1, <1>2, <1>3, <1>4, <1>5 DEF Rotated, Record

LEMMA FailIsRecord ==
  ASSUME now \in Int, NEW f \in Record
  PROVE  Fail(f) \in Record
<1>1. Stamp(f) \in Int
  BY DEF Stamp, Record
<1> QED  BY <1>1 DEF Fail, Record

(* What an instance writes is a record wherever it is held.                *)
LEMMA WritesTypes ==
  ASSUME Types, NEW i \in Inst, NEW f \in Record, Writes(i, f)
  PROVE  family' \in [Inst -> Record] /\ news' \subseteq Record
BY DEF Writes, Types

(* disconnect leaves fewer connections, and those as they were.            *)
LEMMA DisconnectedLeaves ==
  ASSUME Types, NEW i \in Inst, Disconnected(i)
  PROVE  /\ conn' \in [Conn -> Opened \cup {None}]
         /\ \A n \in Conn : conn'[n] \in {conn[n], None}
BY DEF Disconnected, Types

(* Where no connection is taken or moved, the timers stay in time.         *)
LEMMA FewerStayInTime ==
  ASSUME TimerIsInTime, now' = now, \A n \in Conn : conn'[n] \in {conn[n], None}
  PROVE  TimerIsInTime'
BY DEF TimerIsInTime

-----------------------------------------------------------------------------
LEMMA InitInTime == Init => Types /\ TimerIsInTime
<1> SUFFICES ASSUME Init PROVE Types /\ TimerIsInTime
  OBVIOUS
<1>1. Minted \in Record
  BY LifetimeAssumption DEF Minted, Record, Value
<1> QED  BY <1>1 DEF Init, Types, TimerIsInTime

LEMMA StepInTime ==
  Types /\ TimerIsInTime /\ [Next]_vars => (Types /\ TimerIsInTime)'
<1> SUFFICES ASSUME Types, TimerIsInTime, [Next]_vars
             PROVE  Types' /\ TimerIsInTime'
  OBVIOUS
<1>1. ASSUME NEW p \in Page, Sends(p) \/ Told(p) \/ ReplyLost(p)
      PROVE  Types' /\ TimerIsInTime'
  BY <1>1 DEF Sends, Told, ReplyLost, Types, TimerIsInTime
<1>2. ASSUME NEW i \in Inst, NEW p \in Page, Refresh(i, p)
      PROVE  Types' /\ TimerIsInTime'
  <2> DEFINE v == page[p].value
  <2>1. family[i] \in Record /\ now \in Int /\ minted \in Int /\ now' = now
    BY <1>2 DEF Refresh, Types
  <2>2. CASE /\ minted' = minted + 1 /\ Writes(i, Rotated(family[i], minted'))
             /\ UNCHANGED conn
    <3>1. minted' \in Int /\ Rotated(family[i], minted') \in Record
      BY <2>1, <2>2, RotatedIsRecord
    <3>2. family' \in [Inst -> Record] /\ news' \subseteq Record
      BY <2>2, <3>1, WritesTypes
    <3> QED  BY <2>1, <2>2, <3>1, <3>2 DEF Types, TimerIsInTime
  <2>3. CASE UNCHANGED <<family, news, minted, conn>>
    BY <2>1, <2>3 DEF Types, TimerIsInTime
  <2>4. CASE Writes(i, Fail(family[i])) /\ Disconnected(i) /\ UNCHANGED minted
    <3>1. family' \in [Inst -> Record] /\ news' \subseteq Record
      BY <2>1, <2>4, FailIsRecord, WritesTypes
    <3> QED  BY <2>1, <2>4, <3>1, DisconnectedLeaves, FewerStayInTime DEF Types
  <2> QED  BY <1>2, <2>2, <2>3, <2>4 DEF Refresh
<1>3. ASSUME NEW i \in Inst, Signout(i) PROVE Types' /\ TimerIsInTime'
  <2>1. family[i] \in Record /\ now \in Int /\ now' = now /\ minted' = minted
    BY <1>3 DEF Signout, Types
  <2>2. family' \in [Inst -> Record] /\ news' \subseteq Record
    BY <1>3, <2>1, FailIsRecord, WritesTypes DEF Signout
  <2> QED  BY <1>3, <2>1, <2>2, DisconnectedLeaves, FewerStayInTime DEF Signout, Types
<1>4. ASSUME NEW i \in Inst, NEW f \in news, Merge(i, f)
      PROVE  Types' /\ TimerIsInTime'
  <2>1. /\ family' \in [Inst -> Record] /\ news' = news
        /\ now' = now /\ minted' = minted
    BY <1>4 DEF Merge, Types
  <2>2. CASE f.failed
    BY <1>4, <2>1, <2>2, DisconnectedLeaves, FewerStayInTime DEF Merge, Types
  <2>3. CASE ~f.failed
    BY <1>4, <2>1, <2>3 DEF Merge, Types, TimerIsInTime
  <2> QED  BY <2>2, <2>3
<1>5. ASSUME NEW i \in Inst, NEW n \in Conn, Open(i, n)
      PROVE  Types' /\ TimerIsInTime'
  <2>1. family[i].access \in Int
    BY DEF Types, Record
  <2> QED  BY <1>5, <2>1 DEF Open, Types, TimerIsInTime, Opened
<1>6. ASSUME NEW i \in Inst, NEW n \in Conn, Extend(i, n)
      PROVE  Types' /\ TimerIsInTime'
  <2> DEFINE c == conn[n]
             f == family[i]
             told == IF c.latest < f.access THEN f.access ELSE c.latest
             d == [c EXCEPT !.till = f.access, !.latest = told]
  <2>1. f.access \in Int /\ c # None /\ c \in Opened
    BY <1>6 DEF Extend, Held, Types, Record
  <2>2. conn' = [conn EXCEPT ![n] = d]
    BY <1>6 DEF Extend, Types
  <2>3. d \in Opened /\ d.due = c.due /\ d.till = f.access /\ d.latest = told
    BY <2>1 DEF Opened
  <2>4. told \in Int /\ f.access <= told /\ c.latest <= told
    BY <2>1 DEF Opened
  <2>5. now <= d.due /\ d.due <= d.latest /\ d.till <= d.latest
    BY <2>1, <2>3, <2>4 DEF TimerIsInTime, Opened, Types
  <2>6. UNCHANGED <<now, minted, family, news>>
    BY <1>6 DEF Extend
  <2> HIDE DEF d, told
  <2>7. Types'
    BY <2>2, <2>3, <2>6 DEF Types
  <2>8. \A m \in Conn : conn'[m] = IF m = n THEN d ELSE conn[m]
    BY <2>2 DEF Types
  <2> QED  BY <2>5, <2>6, <2>7, <2>8 DEF TimerIsInTime
<1>7. ASSUME NEW n \in Conn, Fire(n) PROVE Types' /\ TimerIsInTime'
  BY <1>7 DEF Fire, Due, Types, TimerIsInTime, Opened
<1>8. CASE Tick
  BY <1>8 DEF Tick, Due, Types, TimerIsInTime, Opened
<1>9. CASE UNCHANGED vars
  BY <1>9 DEF vars, Types, TimerIsInTime
<1> QED  BY <1>1, <1>2, <1>3, <1>4, <1>5, <1>6, <1>7, <1>8, <1>9 DEF Next

(* No connection is held past the latest deadline it was told, however it  *)
(* was extended: the timer set for an earlier deadline comes back, looks   *)
(* again, and is never set past what was told (hold, #deadline, extend).   *)
THEOREM DeadlineCloses == Spec => []ClosedByDeadline
<1>1. Init => Types /\ TimerIsInTime
  BY InitInTime
<1>2. Types /\ TimerIsInTime /\ [Next]_vars => (Types /\ TimerIsInTime)'
  BY StepInTime
<1>3. Types /\ TimerIsInTime => ClosedByDeadline
  BY DEF Types, TimerIsInTime, ClosedByDeadline, Opened
<1> QED  BY <1>1, <1>2, <1>3, PTL DEF Spec

-----------------------------------------------------------------------------
(* What is kept of a family, wherever a record of it is held or on its way.*)
Records == {family[i] : i \in Inst} \cup news

(* What a record's line of rotations issued is standing, retired, or over. *)
LineIsRemembered ==
  \A f \in Records : ~f.failed =>
    \A r \in f.issued : r.till <= now \/ r = f.refresh \/ r \in f.retired

(* The times and counts a family is kept by, none of them an absence.      *)
Countable ==
  MaxTime \in Nat /\ MaxValues \in Nat /\ ACCESS_KEEP \in Int /\ None \notin Int

(* Every value a record has rotated away comes before the one it had last, *)
(* which is what the browser held by then or has left behind; and the      *)
(* grace of that one lasts at least as long after it was first rotated.    *)
LineIsBehind(f) ==
  /\ f.refresh.value \in 0..minted
  /\ \A r \in f.retired : f.previous.value # None /\ r.value <= f.previous.value
  /\ f.previous.value # None =>
       /\ f.previous.value \in 0..MaxValues
       /\ f.previous.value < f.refresh.value
       /\ f.previous.value <= jar
       /\ away[f.previous.value] + PREVIOUS_GRACE <= f.previous.till

Away ==
  /\ minted \in 0..MaxValues /\ jar \in Int /\ now \in 0..MaxTime
  /\ away \in [0..MaxValues -> Int] /\ alone \in BOOLEAN /\ left \in BOOLEAN

Asking ==
  [is : {"asks"}, value : Int, sent : Int] \cup [is : {"told"}, value : Int]
    \cup [is : {"idle"}]

(* A browser that asks one page at a time asks with what it holds, and is  *)
(* told nothing older.                                                     *)
PagesAgree ==
  /\ jar \in 0..minted
  /\ \A p, q \in Page : page[p].is # "idle" /\ page[q].is # "idle" => p = q
  /\ \A p \in Page : page[p].is = "asks" => page[p].value = jar
  /\ \A p \in Page : page[p].is = "told" => page[p].value \in jar..minted

Alone ==
  /\ page \in [Page -> Asking]
  /\ alone => PagesAgree /\ \A f \in Records : LineIsBehind(f) /\ (f.failed => left)

Kept == Types /\ TimerIsInTime /\ LineIsRemembered /\ Away /\ Alone

LEMMA WritesRecords ==
  ASSUME Types, NEW i \in Inst, NEW f, Writes(i, f)
  PROVE  \A g \in Records' : g \in Records \/ g = f
BY DEF Writes, Types, Records

LEMMA RotatedIsRemembered ==
  ASSUME Types, LineIsRemembered, NEW f \in Records, ~f.failed, NEW v \in Int
  PROVE  LET g == Rotated(f, v)
         IN  \A r \in g.issued : r.till <= now \/ r = g.refresh \/ r \in g.retired
<1> DEFINE g == Rotated(f, v)
<1>1. f \in Record
  BY DEF Records, Types
<1>2. /\ g.issued = f.issued \cup {[value |-> v, till |-> now + REFRESH_TTL]}
      /\ g.refresh = [value |-> v, till |-> now + REFRESH_TTL]
      /\ g.retired = {r \in f.retired : r.till > now} \cup {f.refresh}
  BY <1>1 DEF Rotated, Retire, Record
<1> HIDE DEF g
<1>3. ASSUME NEW r \in f.issued PROVE r.till <= now \/ r \in g.retired
  <2>1. r.till \in Int /\ now \in Int
    BY <1>1 DEF Record, Value, Types
  <2> QED  BY <1>2, <2>1 DEF LineIsRemembered
<1> QED  BY <1>2, <1>3 DEF g

LEMMA RotatedIsBehind ==
  ASSUME Types, Away, Countable, NEW f \in Records, LineIsBehind(f),
         f.refresh.value = jar, jar \in 0..minted, minted < MaxValues, minted' = minted + 1, jar' = jar,
         away' = [away EXCEPT ![jar] = IF @ < now THEN @ ELSE now],
         NEW g, g = Rotated(f, minted + 1)
  PROVE  LineIsBehind(g)'
<1>1. f \in Record
  BY DEF Records, Types
<1>2. /\ g.refresh.value = minted + 1
      /\ g.previous.value = jar /\ g.previous.till = now + PREVIOUS_GRACE
      /\ g.retired = {r \in f.retired : r.till > now} \cup {f.refresh}
  BY <1>1 DEF Rotated, Retire, Record
<1>3. /\ jar \in 0..minted /\ minted \in 0..MaxValues /\ jar \in 0..MaxValues /\ now \in Int
      /\ away[jar] \in Int
  BY DEF Away, Countable
<1>4. away'[jar] <= now
  BY <1>3 DEF Away
<1>5. \A r \in g.retired : r.value <= jar
  <2> SUFFICES ASSUME NEW r \in g.retired PROVE r.value <= jar
    OBVIOUS
  <2>1. CASE r = f.refresh
    BY <1>3, <2>1
  <2>2. CASE r \in f.retired
    <3>1. r.value \in Int /\ f.previous.value \in Int /\ r.value <= f.previous.value
          /\ f.previous.value <= jar
      BY <1>1, <2>2 DEF LineIsBehind, Record, Value
    <3> QED  BY <1>3, <3>1
  <2> QED  BY <1>2, <2>1, <2>2
<1>6. jar # None
  BY <1>3 DEF Countable
<1>7. away'[jar] \in Int /\ PREVIOUS_GRACE \in Int
  BY <1>3, LifetimeAssumption DEF Away
<1> QED  BY <1>2, <1>3, <1>4, <1>5, <1>6, <1>7 DEF LineIsBehind

LEMMA BehindStays ==
  ASSUME Types, Away, Away', Countable, NEW f \in Record, LineIsBehind(f), minted <= minted',
         jar <= jar', \A v \in 0..MaxValues : away'[v] <= away[v]
  PROVE  LineIsBehind(f)'
<1>1. /\ f.refresh.value \in Int /\ f.previous.till \in Int /\ minted \in Int /\ jar \in Int
      /\ minted' \in Int /\ jar' \in Int /\ PREVIOUS_GRACE \in Int
  <2>1. f.refresh.value \in Int /\ f.previous.till \in Int
    BY DEF Record, Value
  <2>2. /\ minted \in Int /\ jar \in Int /\ minted' \in Int /\ jar' \in Int
        /\ PREVIOUS_GRACE \in Int
    BY LifetimeAssumption DEF Away, Countable
  <2> QED  BY <2>1, <2>2
<1>2. f.refresh.value \in 0..minted'
  BY <1>1 DEF LineIsBehind
<1>3. ASSUME f.previous.value # None
      PROVE  f.previous.value <= jar' /\ away'[f.previous.value] + PREVIOUS_GRACE <= f.previous.till
  <2>1. /\ f.previous.value \in 0..MaxValues /\ f.previous.value <= jar
        /\ away[f.previous.value] + PREVIOUS_GRACE <= f.previous.till
    BY <1>3 DEF LineIsBehind
  <2>2. away[f.previous.value] \in Int /\ away'[f.previous.value] \in Int
    BY <2>1 DEF Away
  <2> QED  BY <1>1, <2>1, <2>2
<1> QED  BY <1>2, <1>3 DEF LineIsBehind

LEMMA FailIsBehind ==
  ASSUME NEW f \in Record, LineIsBehind(f)
  PROVE  LineIsBehind(Fail(f)) /\ Fail(f).failed
<1>1. /\ Fail(f).refresh = f.refresh /\ Fail(f).retired = f.retired
      /\ Fail(f).previous = f.previous /\ Fail(f).failed
  BY DEF Fail, Record
<1> QED  BY <1>1 DEF LineIsBehind

LEMMA KeptInit == Countable /\ Init => Kept
<1> SUFFICES ASSUME Countable, Init PROVE Kept
  OBVIOUS
<1>1. \A f \in Records : f = Minted
  BY DEF Init, Records
<1>2. LineIsRemembered
  BY <1>1 DEF LineIsRemembered, Minted
<1>3. Away
  <2>1. alone \in BOOLEAN /\ left \in BOOLEAN
    BY DEF Init
  <2>2. minted \in 0..MaxValues /\ jar \in 0..minted /\ now \in 0..MaxTime
    BY DEF Init, Countable
  <2>3. away \in [0..MaxValues -> Int]
    BY DEF Init, Countable
  <2> QED  BY <2>1, <2>2, <2>3 DEF Away
<1>4. \A f \in Records : LineIsBehind(f) /\ ~f.failed
  BY <1>1 DEF Minted, LineIsBehind, Init
<1>5. page \in [Page -> Asking] /\ \A p \in Page : page[p].is = "idle"
  BY DEF Init, Idle, Asking
<1>6. Alone
  BY <1>3, <1>4, <1>5 DEF Alone, PagesAgree, Init
<1> QED  BY <1>2, <1>3, <1>6, InitInTime DEF Kept

(* Where every record was there before, what was remembered still is.      *)
LEMMA RememberedStays ==
  ASSUME Types, Types', LineIsRemembered, now <= now', Records' \subseteq Records
  PROVE  LineIsRemembered'
<1> SUFFICES ASSUME NEW f \in Records', ~f.failed, NEW r \in f.issued
             PROVE  r.till <= now' \/ r = f.refresh \/ r \in f.retired
  BY DEF LineIsRemembered
<1>1. f \in Record
  BY DEF Records, Types
<1>2. r.till \in Int /\ now \in Int /\ now' \in Int
  BY <1>1 DEF Record, Value, Types
<1> QED  BY <1>2 DEF LineIsRemembered

LEMMA RefreshKept ==
  ASSUME Countable, Kept, NEW i \in Inst, NEW p \in Page, Refresh(i, p), Types'
  PROVE  LineIsRemembered' /\ Away' /\ Alone'
<1> DEFINE f == family[i]
           v == page[p].value
<1>1. /\ page[p].is = "asks" /\ now' = now /\ jar' = jar /\ left' = left
      /\ alone' = (alone /\ now < away[v] + PREVIOUS_GRACE)
  BY DEF Refresh
<1>2. f \in Record /\ f \in Records /\ v \in Int
  BY <1>1 DEF Kept, Types, Records, Alone, PagesAgree, Asking
<1>3. alone' => alone /\ v = jar /\ now < away[v] + PREVIOUS_GRACE
  <2>1. alone \in BOOLEAN
    BY DEF Kept, Away
  <2> QED  BY <1>1, <2>1 DEF Kept, Alone, PagesAgree
<1>4. ASSUME alone'
      PROVE  \A q \in Page : q # p => page[q].is = "idle"
  BY <1>1, <1>3, <1>4 DEF Kept, Alone, PagesAgree, Asking
<1>5. CASE /\ Standing(f, v)
           /\ minted < MaxValues /\ minted' = minted + 1
           /\ Writes(i, Rotated(f, minted'))
           /\ page' = [page EXCEPT ![p] = [is |-> "told", value |-> minted']]
           /\ away' = [away EXCEPT ![v] = IF @ < now THEN @ ELSE now]
  <2> DEFINE g == Rotated(f, minted + 1)
  <2>1. /\ ~f.failed /\ f.refresh.value = v /\ minted \in 0..MaxValues /\ MaxValues \in Nat
        /\ now \in Int
    BY <1>5 DEF Standing, Kept, Away, Countable, Types
  <2>2. minted' \in 0..MaxValues /\ minted + 1 \in Int
    BY <1>5, <2>1
  <2>3. \A h \in Records' : h \in Records \/ h = g
    BY <1>5, WritesRecords DEF Kept
  <2>4. LineIsRemembered'
    BY <1>1, <1>2, <2>1, <2>2, <2>3, RotatedIsRemembered DEF Kept, LineIsRemembered
  <2>5. Away'
    <3>1. alone' \in BOOLEAN /\ left' \in BOOLEAN
      BY <1>1 DEF Kept, Away
    <3>2. jar' \in Int /\ now' \in 0..MaxTime
      BY <1>1, <1>5, <2>1, <2>2 DEF Kept, Away
    <3>3. away' \in [0..MaxValues -> Int]
      BY <1>5, <2>1 DEF Kept, Away
    <3> QED  BY <2>2, <3>1, <3>2, <3>3 DEF Away
  <2>6. \A w \in 0..MaxValues : away'[w] <= away[w]
    BY <1>5, <2>1 DEF Kept, Away
  <2>7. ~g.failed
    BY <1>2, <2>1 DEF Rotated, Record
  <2>8. ASSUME alone', NEW h \in Records' PROVE LineIsBehind(h)' /\ (h.failed => left')
    <3>1. CASE h \in Records
      <4>1. h \in Record /\ LineIsBehind(h) /\ (h.failed => left)
        BY <1>3, <2>8, <3>1 DEF Kept, Alone, PagesAgree, Types, Records
      <4>2. minted <= minted' /\ jar <= jar'
        BY <1>1, <1>5, <2>1 DEF Kept, Away
      <4> QED  BY <1>1, <2>5, <2>6, <4>1, <4>2, BehindStays DEF Kept
    <3>2. CASE h = g
      <4>1. LineIsBehind(f)
        BY <1>2, <1>3, <2>8 DEF Kept, Alone, PagesAgree
      <4>2. f.refresh.value = jar /\ v = jar /\ jar \in 0..minted
        BY <1>3, <2>1, <2>8 DEF Kept, Alone, PagesAgree
      <4> QED
        BY <1>1, <1>2, <1>5, <2>7, <3>2, <4>1, <4>2, RotatedIsBehind DEF Kept
    <3> QED  BY <2>3, <2>8, <3>1, <3>2
  <2>9. Alone'
    <3>1. page' \in [Page -> Asking]
      BY <1>5, <2>2 DEF Kept, Alone, PagesAgree, Asking
    <3>2. \A q \in Page : page'[q] = IF q = p THEN [is |-> "told", value |-> minted']
                                     ELSE page[q]
      BY <1>5 DEF Kept, Alone, PagesAgree
    <3>3. alone' => jar' \in 0..minted' /\ minted' \in jar'..minted'
      BY <1>1, <1>3, <1>5, <2>1 DEF Kept, Alone, PagesAgree
    <3> QED  BY <1>1, <1>3, <1>4, <2>8, <3>1, <3>2, <3>3 DEF Alone, PagesAgree
  <2> QED  BY <2>4, <2>5, <2>9
<1>6. CASE /\ Previous(f, v)
           /\ page' = [page EXCEPT ![p] = [is |-> "told", value |-> f.refresh.value]]
           /\ UNCHANGED <<family, news, minted, away>>
  <2>1. Records' = Records
    BY <1>6 DEF Records
  <2>2. LineIsRemembered'
    BY <1>1, <1>6, <2>1 DEF Kept, LineIsRemembered
  <2>3. Away'
    BY <1>1, <1>6 DEF Kept, Away
  <2>4. f.refresh.value \in Int
    BY <1>2 DEF Record, Value
  <2>5. ASSUME alone' PROVE f.refresh.value \in jar..minted
    <3>1. LineIsBehind(f) /\ v = jar
      BY <1>2, <1>3, <2>5 DEF Kept, Alone, PagesAgree
    <3>2. f.previous.value = v /\ v # None
      BY <1>2, <1>6 DEF Previous, Countable
    <3> QED  BY <1>2, <2>4, <3>1, <3>2 DEF LineIsBehind
  <2>6. ASSUME alone', NEW h \in Records' PROVE LineIsBehind(h)' /\ (h.failed => left')
    <3>1. LineIsBehind(h) /\ (h.failed => left)
      BY <1>3, <2>1, <2>6 DEF Kept, Alone, PagesAgree
    <3> QED  BY <1>1, <1>6, <3>1 DEF LineIsBehind
  <2>7. Alone'
    <3>1. page' \in [Page -> Asking]
      BY <1>6, <2>4 DEF Kept, Alone, PagesAgree, Asking
    <3>2. \A q \in Page : page'[q] = IF q = p THEN [is |-> "told", value |-> f.refresh.value]
                                     ELSE page[q]
      BY <1>6 DEF Kept, Alone, PagesAgree
    <3> HIDE DEF f
    <3>3. alone' => jar' \in 0..minted'
      BY <1>1, <1>3, <1>6 DEF Kept, Alone, PagesAgree
    <3> QED  BY <1>1, <1>4, <1>6, <2>5, <2>6, <3>1, <3>2, <3>3 DEF Alone, PagesAgree
  <2> QED  BY <2>2, <2>3, <2>7
<1>7. CASE /\ ~Previous(f, v) /\ Retired(f, v)
           /\ Writes(i, Fail(f))
           /\ page' = [page EXCEPT ![p] = Idle]
           /\ UNCHANGED <<minted, away>>
  <2>1. \A h \in Records' : h \in Records \/ h = Fail(f)
    BY <1>7, WritesRecords DEF Kept
  <2>2. Fail(f).failed
    BY <1>2 DEF Fail, Record
  <2>3. LineIsRemembered'
    BY <1>1, <2>1, <2>2 DEF Kept, LineIsRemembered
  <2>4. Away'
    BY <1>1, <1>7 DEF Kept, Away
  <2>5. ~alone'
    <3> SUFFICES ASSUME alone' PROVE FALSE
      OBVIOUS
    <3>1. LineIsBehind(f) /\ v = jar /\ now < away[v] + PREVIOUS_GRACE
      BY <1>2, <1>3 DEF Kept, Alone, PagesAgree
    <3>2. PICK r \in f.retired : r.value = v
      BY <1>7 DEF Retired
    <3>3. /\ f.previous.value # None /\ f.previous.value \in Int
          /\ v <= f.previous.value /\ f.previous.value <= jar
      BY <1>2, <3>1, <3>2 DEF LineIsBehind, Record
    <3>4. f.previous.value = v
      BY <1>2, <3>1, <3>3
    <3>5. /\ away[v] + PREVIOUS_GRACE <= f.previous.till /\ v \in 0..MaxValues
      BY <3>1, <3>3, <3>4 DEF LineIsBehind
    <3>6. f.previous.till > now
      <4>1. away[v] \in Int /\ f.previous.till \in Int /\ now \in Int /\ PREVIOUS_GRACE \in Int
        BY <1>2, <3>5, LifetimeAssumption DEF Kept, Away, Types, Record
      <4> QED  BY <3>1, <3>5, <4>1
    <3>7. ~f.failed
      BY <1>7 DEF Retired
    <3> QED  BY <1>7, <3>4, <3>6, <3>7 DEF Previous
  <2>6. page' \in [Page -> Asking]
    BY <1>7 DEF Kept, Alone, PagesAgree, Asking, Idle
  <2> QED  BY <2>3, <2>4, <2>5, <2>6 DEF Alone, PagesAgree
<1>8. CASE page' = [page EXCEPT ![p] = Idle] /\ UNCHANGED <<family, news, minted, away>>
  <2>1. Records' = Records
    BY <1>8 DEF Records
  <2>2. LineIsRemembered'
    BY <1>1, <1>8, <2>1 DEF Kept, LineIsRemembered
  <2>3. Away'
    BY <1>1, <1>8 DEF Kept, Away
  <2>4. ASSUME alone', NEW h \in Records' PROVE LineIsBehind(h)' /\ (h.failed => left')
    <3>1. LineIsBehind(h) /\ (h.failed => left)
      BY <1>3, <2>1, <2>4 DEF Kept, Alone, PagesAgree
    <3> QED  BY <1>1, <1>8, <3>1 DEF LineIsBehind
  <2>5. page' \in [Page -> Asking] /\ page'[p].is = "idle"
    BY <1>8 DEF Kept, Alone, PagesAgree, Asking, Idle
  <2>6. \A q \in Page : q # p => page'[q] = page[q]
    BY <1>8 DEF Kept, Alone, PagesAgree
  <2>7. alone' => jar' \in 0..minted'
    BY <1>1, <1>3, <1>8 DEF Kept, Alone, PagesAgree
  <2> QED  BY <1>1, <1>4, <2>2, <2>3, <2>4, <2>5, <2>6, <2>7 DEF Alone, PagesAgree
<1> QED  BY <1>5, <1>6, <1>7, <1>8 DEF Refresh

(* Where no record is new, and a page at most begins to ask or is told.    *)
LEMMA NoNewRecordKept ==
  ASSUME Countable, Kept, Types', TimerIsInTime', Records' \subseteq Records,
         UNCHANGED <<minted, away, left>>, now <= now', now' \in 0..MaxTime,
         alone' \in BOOLEAN, alone' => alone, jar' \in Int, alone' => jar <= jar',
         page' \in [Page -> Asking], alone' => PagesAgree'
  PROVE  Kept'
<1>1. LineIsRemembered'
  BY RememberedStays DEF Kept
<1>2. Away'
  BY DEF Kept, Away
<1>3. ASSUME alone', NEW f \in Records' PROVE LineIsBehind(f)' /\ (f.failed => left')
  <2>1. f \in Record /\ LineIsBehind(f) /\ (f.failed => left)
    BY <1>3 DEF Kept, Alone, Types, Records
  <2>2. minted <= minted' /\ \A v \in 0..MaxValues : away'[v] <= away[v]
    BY DEF Kept, Away
  <2> QED  BY <1>2, <1>3, <2>1, <2>2, BehindStays DEF Kept
<1>4. Alone'
  BY <1>3 DEF Alone
<1> QED  BY <1>1, <1>2, <1>4 DEF Kept

LEMMA KeptStep == Countable /\ Kept /\ [Next]_vars => Kept'
<1> SUFFICES ASSUME Countable, Kept, [Next]_vars PROVE Kept'
  OBVIOUS
<1>1. Types' /\ TimerIsInTime'
  BY StepInTime DEF Kept
<1>2. /\ alone \in BOOLEAN /\ left \in BOOLEAN /\ minted \in 0..MaxValues
      /\ jar \in Int /\ now \in 0..MaxTime /\ page \in [Page -> Asking]
  BY DEF Kept, Away, Alone
<1>3. alone => PagesAgree
  BY DEF Kept, Alone
<1>4. ASSUME NEW p \in Page, Sends(p) PROVE Kept'
  <2>1. Records' = Records /\ UNCHANGED <<minted, away, left, now, jar>>
    BY <1>4 DEF Sends, Records
  <2>2. alone' = (alone /\ \A q \in Page : page[q] = Idle)
    BY <1>4 DEF Sends
  <2>3. alone' \in BOOLEAN /\ (alone' => alone /\ \A q \in Page : page[q] = Idle)
    BY <1>2, <2>2
  <2>4. /\ page' \in [Page -> Asking]
        /\ page'[p].is = "asks" /\ page'[p].value = jar
        /\ \A q \in Page : q # p => page'[q] = page[q]
    BY <1>2, <1>4 DEF Sends, Asking
  <2>5. alone' => PagesAgree'
    BY <1>2, <1>3, <2>1, <2>3, <2>4 DEF PagesAgree, Idle
  <2>6. now <= now' /\ jar <= jar' /\ now' \in 0..MaxTime /\ jar' \in Int
    BY <1>2, <2>1
  <2> QED  BY <1>1, <2>1, <2>3, <2>4, <2>5, <2>6, NoNewRecordKept
<1>5. ASSUME NEW p \in Page, Told(p) PROVE Kept'
  <2>1. Records' = Records /\ UNCHANGED <<minted, away, left, now, alone>>
    BY <1>5 DEF Told, Records
  <2>2. page[p].is = "told" /\ jar' = page[p].value /\ jar' \in Int
    BY <1>2, <1>5 DEF Told, Asking
  <2>3. /\ page' \in [Page -> Asking] /\ page'[p].is = "idle"
        /\ \A q \in Page : q # p => page'[q] = page[q]
    BY <1>2, <1>5 DEF Told, Asking, Idle
  <2>4. alone => PagesAgree' /\ jar <= jar'
    BY <1>2, <1>3, <2>1, <2>2, <2>3 DEF PagesAgree, Asking
  <2> QED  BY <1>1, <1>2, <2>1, <2>2, <2>3, <2>4, NoNewRecordKept
<1>6. ASSUME NEW p \in Page, ReplyLost(p) PROVE Kept'
  <2>1. Records' = Records /\ UNCHANGED <<minted, away, left, now, alone, jar>>
    BY <1>6 DEF ReplyLost, Records
  <2>2. /\ page' \in [Page -> Asking] /\ page'[p].is = "idle"
        /\ \A q \in Page : q # p => page'[q] = page[q]
    BY <1>2, <1>6 DEF ReplyLost, Asking, Idle
  <2>3. alone => PagesAgree'
    BY <1>3, <2>1, <2>2 DEF PagesAgree
  <2> QED  BY <1>1, <1>2, <2>1, <2>2, <2>3, NoNewRecordKept
<1>7. ASSUME NEW i \in Inst, NEW p \in Page, Refresh(i, p) PROVE Kept'
  BY <1>1, <1>7, RefreshKept DEF Kept
<1>8. ASSUME Records' \subseteq Records, UNCHANGED <<minted, away, left, jar, page, alone>>,
             now <= now', now' \in 0..MaxTime
      PROVE  Kept'
  <2>1. alone => PagesAgree'
    BY <1>3, <1>8 DEF PagesAgree
  <2> QED  BY <1>1, <1>2, <1>8, <2>1, NoNewRecordKept
<1>9. ASSUME NEW i \in Inst, NEW f \in news, Merge(i, f) PROVE Kept'
  <2>1. Records' \subseteq Records
    BY <1>1, <1>9 DEF Merge, Records, Kept, Types
  <2> QED  BY <1>2, <1>8, <1>9, <2>1 DEF Merge
<1>10. ASSUME UNCHANGED <<family, news, minted, away, left, jar, page, alone, now>>
       PROVE  Kept'
  <2>1. Records' = Records
    BY <1>10 DEF Records
  <2> QED  BY <1>2, <1>8, <1>10, <2>1
<1>11. ASSUME NEW i \in Inst, NEW n \in Conn, Open(i, n) \/ Extend(i, n) PROVE Kept'
  BY <1>10, <1>11 DEF Open, Extend
<1>12. ASSUME NEW n \in Conn, Fire(n) PROVE Kept'
  BY <1>10, <1>12 DEF Fire
<1>13. CASE Tick
  <2>1. Records' = Records
    BY <1>13 DEF Tick, Records
  <2>2. now <= now' /\ now' \in 0..MaxTime
    BY <1>2, <1>13 DEF Tick, Countable
  <2> QED  BY <1>8, <1>13, <2>1, <2>2 DEF Tick
<1>14. CASE UNCHANGED vars
  BY <1>10, <1>14 DEF vars
<1>15. ASSUME NEW i \in Inst, Signout(i) PROVE Kept'
  <2>1. /\ family[i] \in Record /\ family[i] \in Records
        /\ UNCHANGED <<now, minted, jar, page, away, alone>> /\ left' = TRUE
    BY <1>15 DEF Signout, Kept, Types, Records
  <2>2. \A h \in Records' : h \in Records \/ h = Fail(family[i])
    BY <1>15, WritesRecords DEF Signout, Kept
  <2>3. Fail(family[i]).failed
    BY <2>1 DEF Fail, Record
  <2>4. LineIsRemembered'
    BY <2>1, <2>2, <2>3 DEF Kept, LineIsRemembered
  <2>5. Away'
    <3>1. left' \in BOOLEAN
      BY <2>1
    <3> QED  BY <2>1, <3>1 DEF Kept, Away
  <2>6. ASSUME alone', NEW h \in Records' PROVE LineIsBehind(h)' /\ (h.failed => left')
    <3>1. LineIsBehind(h)
      BY <2>1, <2>2, <2>6, FailIsBehind DEF Kept, Alone
    <3> QED  BY <2>1, <3>1 DEF LineIsBehind
  <2>7. alone' => PagesAgree'
    BY <1>3, <2>1 DEF PagesAgree
  <2>8. Alone'
    BY <1>2, <2>1, <2>6, <2>7 DEF Alone
  <2> QED  BY <1>1, <2>4, <2>5, <2>8 DEF Kept
<1> QED  BY <1>4, <1>5, <1>6, <1>7, <1>9, <1>11, <1>12, <1>13, <1>14, <1>15 DEF Next

LEMMA KeptIsEnough == Kept => AloneIsNotFailed /\ RetiredIsRemembered
<1> SUFFICES ASSUME Kept PROVE AloneIsNotFailed /\ RetiredIsRemembered
  OBVIOUS
<1>1. AloneIsNotFailed
  BY DEF Kept, Alone, Records, AloneIsNotFailed
<1>2. ASSUME NEW i \in Inst, ~family[i].failed, NEW r \in family[i].issued, r.till > now
      PROVE  r.value = family[i].refresh.value \/ Retired(family[i], r.value)
  <2>1. r \in Value /\ now \in Int
    BY DEF Kept, Types, Record
  <2>2. r.till <= now \/ r = family[i].refresh \/ r \in family[i].retired
    BY <1>2 DEF Kept, LineIsRemembered, Records
  <2> QED  BY <1>2, <2>1, <2>2 DEF Retired, Value
<1> QED  BY <1>1, <1>2 DEF RetiredIsRemembered

(* A browser that asks one page at a time keeps its family, and no value   *)
(* the standing line of rotations issued is taken for a stranger's while   *)
(* it lasts, for any instances, pages and lifetimes (refreshToken, retire).*)
THEOREM FamilyStays ==
  Countable => (Spec => [](AloneIsNotFailed /\ RetiredIsRemembered))
<1> SUFFICES ASSUME Countable PROVE Spec => [](AloneIsNotFailed /\ RetiredIsRemembered)
  OBVIOUS
<1> QED  BY KeptInit, KeptStep, KeptIsEnough, PTL DEF Spec

(* The family of the behaviours that are the tokens'.                      *)
FamilyHolds == machine = "tokens" => Kept

(* As the runs check it: the browser that asks one page at a time keeps    *)
(* its family in every behaviour of the tokens (refreshToken, retire).     *)
THEOREM FamilyIsKeptAlways == Countable => (MCSpec => []FamilyIsKept)
<1> SUFFICES ASSUME Countable PROVE MCSpec => []FamilyIsKept
  OBVIOUS
<1>1. MCInit => FamilyHolds
  BY KeptInit DEF MCInit, InitRecords, InitTokens, InitCeremonies, InitAbroad, FamilyHolds
<1>2. FamilyHolds /\ [MCNext]_MCvars => FamilyHolds'
  <2> SUFFICES ASSUME FamilyHolds, [MCNext]_MCvars, machine' = "tokens" PROVE Kept'
    BY DEF FamilyHolds
  <2>1. CASE OnlyTokens /\ Next
    BY <2>1, KeptStep DEF OnlyTokens, FamilyHolds
  <2>2. CASE UNCHANGED MCvars
    <3>1. machine = "tokens"
      BY <2>2 DEF MCvars
    <3>2. UNCHANGED vars
      BY <2>2 DEF MCvars, vars
    <3> QED  BY <3>1, <3>2, KeptStep DEF FamilyHolds
  <2> QED  BY <2>1, <2>2 DEF MCNext, OnlyRecords, OnlyCeremonies, OnlyAbroad
<1>3. FamilyHolds => FamilyIsKept
  BY KeptIsEnough DEF FamilyHolds, FamilyIsKept
<1> QED  BY <1>1, <1>2, <1>3, PTL DEF MCSpec

-----------------------------------------------------------------------------
(* The ceremonies.  The URLs and the challenges are this instance's (A) or *)
(* another's (B); a step of either is one of the steps below, which leave  *)
(* open when a URL that has run out is dropped and whose answer is lost.   *)
Forgets ==
  /\ pending' = [u \in Url |-> pending'[u]]
  /\ \A u \in Url : pending'[u] \in {pending[u], None}

Issues(u, purpose, hands) ==
  /\ u \notin issued
  /\ issued' = issued \cup {u}
  /\ pending' = [pending EXCEPT ![u] =
       [purpose |-> purpose, hands |-> hands, till |-> now + REGISTER_TTL, attempts |-> 0]]
  /\ UNCHANGED <<now, challenges, handed, person, cred, grant, family, exchange, task,
                 session, wrong, passed, again, skipped>>

HandsOut(k) ==
  /\ k \notin handed
  /\ handed' = handed \cup {k}
  /\ challenges' = [A!Unexpired EXCEPT ![k] = now + CHALLENGE_TTL]
  /\ Forgets
  /\ UNCHANGED <<now, issued, person, cred, grant, family, exchange, task, session, wrong,
                 passed, again, skipped>>

Loses(x) ==
  /\ \/ /\ exchange[x].is = "claims"
        /\ pending' = [pending EXCEPT ![exchange[x].url] = None]
        /\ UNCHANGED challenges
     \/ /\ exchange[x].is = "spend"
        /\ challenges' = [challenges EXCEPT ![exchange[x].challenge] = None]
        /\ UNCHANGED pending
  /\ A!Refused(x)
  /\ UNCHANGED <<now, issued, handed, person, cred, grant, family, task, session, wrong,
                 passed, again, skipped>>

Spends(x) ==
  /\ exchange[x].is = "spend"
  /\ IF A!Live(exchange[x].challenge)
     THEN /\ exchange' = [exchange EXCEPT
               ![x].is = IF exchange[x].op = "register" THEN "user" ELSE "used",
               ![x].late = (cred[exchange[x].cred] = Removed)]
          /\ passed' = passed \cup {<<"challenge", exchange[x].challenge, x>>}
     ELSE A!Refused(x) /\ UNCHANGED passed
  /\ challenges' = [A!Unexpired EXCEPT ![exchange[x].challenge] = None]
  /\ Forgets
  /\ UNCHANGED <<now, issued, handed, person, cred, grant, family, task, session, wrong,
                 again, skipped>>

Stepping(x) ==
  \/ A!Claims(x) \/ Loses(x) \/ A!ChecksOwner(x) \/ Spends(x) \/ A!WritesUser(x)
  \/ A!WritesCred(x) \/ A!Used(x) \/ A!Grants(x) \/ A!Mints(x) \/ A!Commits(x)
  \/ A!CommitFails(x)

Removing(t) ==
  \/ A!Revoke(t) \/ A!Erase(t) \/ A!TaskEnds(t) \/ A!TaskGoesOn(t) \/ A!TaskFails(t)
  \/ \E c \in Cred : A!RemoveCredential(t, c)
  \/ \E x \in Exchange : A!FailFamily(t, x)
  \/ \E gs \in SUBSET Grant, cs \in SUBSET Cred, fs \in SUBSET Exchange :
       A!PeerMarks(t, gs, cs, fs)

Beginning(x) ==
  \E k \in Challenge, c \in Cred :
    \/ \E u \in Url, right \in BOOLEAN :
         \/ A!Registers(x, u, k, c, right)
         \/ \E reading \in 0..MaxCount : A!Asserts(x, "enroll", u, k, c, reading, right)
    \/ \E reading \in 0..MaxCount : A!Asserts(x, "assert", None, k, c, reading, TRUE)

Ceremony ==
  \/ \E u \in Url, p \in {"create_user", "add_owner"}, h \in BOOLEAN : Issues(u, p, h)
  \/ \E k \in Challenge : HandsOut(k)
  \/ \E x \in Exchange : Beginning(x) \/ Stepping(x)
  \/ \E t \in Task : Removing(t)
  \/ \E c \in Cred, reading \in 0..MaxCount : A!PeerUses(c, reading)
  \/ \E n \in Conn : A!Close(n) \/ \E x \in Exchange : A!Open(n, x)
  \/ A!Tick

(* Constants: no record is mistaken for the absence of one or for a mark.  *)
Apart ==
  /\ CODE_ATTEMPTS \in Nat \ {0} /\ REGISTER_TTL \in Int /\ CHALLENGE_TTL \in Int
  /\ None \notin Int /\ Removed \notin Int /\ None # Removed
  /\ "url" \notin Cred /\ "challenge" \notin Cred

Stages ==
  {"claims", "owns", "spend", "user", "user written", "cred", "cred written", "used",
   "used written", "grant", "grant written", "mint", "mint written", "answered"}

Running ==
  [is : Stages, op : {"register", "enroll", "assert"}, url : Url \cup {None},
   challenge : Challenge, cred : Cred, reading : Nat, right : BOOLEAN, late : BOOLEAN,
   hands : BOOLEAN]

Ended == [is : {"idle", "refused"}]

Link ==
  [purpose : {"create_user", "add_owner"}, hands : BOOLEAN, till : Int, attempts : Int]

Removal ==
  Ended \cup [is : {"keeping"}, closes : BOOLEAN]
        \cup [is : {"erase", "erasing"}, left : SUBSET Grant]

CeremonyTypes ==
  /\ now \in Int
  /\ pending \in [Url -> Link \cup {None}] /\ issued \subseteq Url
  /\ challenges \in [Challenge -> Int \cup {None}] /\ handed \subseteq Challenge
  /\ cred \in [Cred -> Int \cup {None, Removed}]
  /\ grant \in [Grant -> {None, "stands", Removed}]
  /\ family \in [Exchange -> {None, "stands", Removed}]
  /\ exchange \in [Exchange -> Running \cup Ended]
  /\ \A x \in Exchange : exchange[x].is = "claims" => exchange[x].url \in Url
  /\ task \in [Task -> Removal]
  /\ session \in [Conn -> Exchange \cup {None}]
  /\ wrong \in [Url -> Int]
  /\ passed \subseteq ({"url"} \X Url \X Exchange) \cup ({"challenge"} \X Challenge \X Exchange)
                      \cup (Cred \X Int \X Exchange)

-----------------------------------------------------------------------------
LEMMA StepIsCeremony ==
  (A!Next \/ B!Next) => Ceremony
<1> SUFFICES ASSUME A!Next \/ B!Next PROVE Ceremony
  OBVIOUS
<1>1. ASSUME NEW u \in Url, NEW p \in {"create_user", "add_owner"}, NEW h \in BOOLEAN,
             A!Issue(u, p, h) \/ B!Issue(u, p, h)
      PROVE  Issues(u, p, h)
  BY <1>1 DEF A!Issue, B!Issue, Issues, A!memory, B!memory
<1>2. ASSUME NEW k \in Challenge, NEW u \in Url \cup {None},
             A!HandOut(k, u) \/ B!HandOut(k, u)
      PROVE  HandsOut(k)
  BY <1>2 DEF A!HandOut, B!HandOut, HandsOut, A!memory, B!memory, A!Forget, B!Forget,
              Forgets, A!Unexpired, B!Unexpired, A!Live, B!Live
<1>3. ASSUME NEW x \in Exchange, A!AnswerLost(x) \/ B!AnswerLost(x)
      PROVE  Loses(x)
  BY <1>3 DEF A!AnswerLost, B!AnswerLost, Loses, A!memory, B!memory, A!Refused, B!Refused,
              A!Idle, B!Idle
<1>4. ASSUME NEW x \in Exchange, A!Spend(x) \/ B!Spend(x)
      PROVE  Spends(x)
  BY <1>4 DEF A!Spend, B!Spend, Spends, A!memory, B!memory, A!Refused, B!Refused, A!Idle,
              B!Idle, A!Register, B!Register, A!Forget, B!Forget, Forgets, A!Unexpired,
              B!Unexpired, A!Live, B!Live
<1>5. ASSUME NEW x \in Exchange, A!Claims(x) \/ B!Claims(x)
      PROVE  A!Claims(x)
  BY <1>5 DEF A!Claims, B!Claims, A!Resolve, B!Resolve, A!Alive, B!Alive, A!Refused,
              B!Refused, A!Idle, B!Idle, A!Register, B!Register, A!memory, B!memory
<1>6. ASSUME NEW x \in Exchange, A!ChecksOwner(x) \/ B!ChecksOwner(x)
      PROVE  A!ChecksOwner(x)
  BY <1>6 DEF A!ChecksOwner, B!ChecksOwner, A!Owns, B!Owns, A!Goes, B!Goes, A!Refused,
              B!Refused, A!Idle, B!Idle, A!memory, B!memory, A!carried, B!carried
<1>7. ASSUME NEW x \in Exchange, A!WritesUser(x) \/ B!WritesUser(x)
      PROVE  A!WritesUser(x)
  BY <1>7 DEF A!WritesUser, B!WritesUser, A!PutsCred, B!PutsCred, A!Stands, B!Stands, A!Goes,
              B!Goes, A!Refused, B!Refused, A!Idle, B!Idle, A!carried, B!carried
<1>8. ASSUME NEW x \in Exchange, A!WritesCred(x) \/ B!WritesCred(x)
      PROVE  A!WritesCred(x)
  BY <1>8 DEF A!WritesCred, B!WritesCred, A!PutsCred, B!PutsCred, A!Goes, B!Goes, A!Refused,
              B!Refused, A!Idle, B!Idle, A!carried, B!carried
<1>9. ASSUME NEW x \in Exchange, A!Used(x) \/ B!Used(x)
      PROVE  A!Used(x)
  BY <1>9 DEF A!Used, B!Used, A!Stands, B!Stands, A!Advances, B!Advances, A!Stale, B!Stale,
              A!Goes, B!Goes, A!Refused, B!Refused, A!Idle, B!Idle, A!carried, B!carried
<1>10. ASSUME NEW x \in Exchange,
              A!Grants(x) \/ A!Mints(x) \/ A!Commits(x) \/ A!CommitFails(x)
                \/ B!Grants(x) \/ B!Mints(x) \/ B!Commits(x) \/ B!CommitFails(x)
       PROVE  A!Grants(x) \/ A!Mints(x) \/ A!Commits(x) \/ A!CommitFails(x)
  <2>1. A!After(exchange[x].is, exchange[x].op) = B!After(exchange[x].is, exchange[x].op)
    BY Zenon DEF A!After, B!After, A!Enroll, B!Enroll
  <2>2. CASE A!Commits(x) \/ B!Commits(x)
    BY <2>1, <2>2 DEF A!Commits, B!Commits, A!Written, B!Written, A!Goes, B!Goes, A!carried,
                      B!carried, A!memory, B!memory
  <2>3. CASE \/ A!Grants(x) \/ A!Mints(x) \/ A!CommitFails(x)
             \/ B!Grants(x) \/ B!Mints(x) \/ B!CommitFails(x)
    BY <2>3 DEF A!Grants, B!Grants, A!Mints, B!Mints, A!CommitFails, B!CommitFails, A!Owns,
                B!Owns, A!Written, B!Written, A!Goes, B!Goes, A!Refused, B!Refused, A!Idle,
                B!Idle, A!carried, B!carried, A!memory, B!memory
  <2> QED  BY <1>10, <2>2, <2>3
<1>11. ASSUME NEW x \in Exchange, NEW k \in Challenge, NEW c \in Cred,
              NEW reading \in 0..MaxCount,
              \/ A!Asserts(x, A!Assert, None, k, c, reading, TRUE)
              \/ B!Asserts(x, B!Assert, None, k, c, reading, TRUE)
       PROVE  Beginning(x)
  <2>1. A!Asserts(x, "assert", None, k, c, reading, TRUE)
    BY <1>11 DEF A!Asserts, B!Asserts, A!Idle, B!Idle, A!Enroll, B!Enroll, A!Assert, B!Assert,
                 A!carried, B!carried, A!memory, B!memory, A!Stands, B!Stands, A!Advances,
                 B!Advances
  <2> QED  BY <2>1 DEF Beginning
<1>12. ASSUME NEW t \in Task,
              \/ A!Revoke(t) \/ A!Erase(t) \/ A!TaskEnds(t) \/ A!TaskGoesOn(t) \/ A!TaskFails(t)
              \/ B!Revoke(t) \/ B!Erase(t) \/ B!TaskEnds(t) \/ B!TaskGoesOn(t) \/ B!TaskFails(t)
       PROVE  Removing(t)
  BY <1>12 DEF A!Revoke, A!Erase, A!TaskEnds, A!TaskGoesOn, A!TaskFails, B!Revoke, B!Erase,
               B!TaskEnds, B!TaskGoesOn, B!TaskFails, A!Idle, B!Idle, A!Mark, B!Mark, A!Closed,
               B!Closed, A!carried, B!carried, A!memory, B!memory, Removing
<1>13. ASSUME NEW t \in Task, NEW c \in Cred,
              A!RemoveCredential(t, c) \/ B!RemoveCredential(t, c)
       PROVE  Removing(t)
  BY <1>13 DEF A!RemoveCredential, B!RemoveCredential, A!Stands, B!Stands, A!Mark, B!Mark,
               A!Idle, B!Idle, A!carried, B!carried, Removing
<1>14. ASSUME NEW t \in Task, NEW x \in Exchange, A!FailFamily(t, x) \/ B!FailFamily(t, x)
       PROVE  Removing(t)
  BY <1>14 DEF A!FailFamily, B!FailFamily, A!Mark, B!Mark, A!Idle, B!Idle, A!carried,
               B!carried, Removing
<1>15. ASSUME NEW t \in Task, NEW gs \in SUBSET Grant, NEW cs \in SUBSET Cred,
              NEW fs \in SUBSET Exchange, A!PeerMarks(t, gs, cs, fs) \/ B!PeerMarks(t, gs, cs, fs)
       PROVE  Removing(t)
  <2>1. A!PeerMarks(t, gs, cs, fs)
    BY <1>15 DEF A!PeerMarks, B!PeerMarks, A!Mark, B!Mark, A!Idle, B!Idle, A!carried, B!carried
  <2> QED  BY <2>1 DEF Removing
<1>16. ASSUME NEW c \in Cred, NEW reading \in 0..MaxCount,
              A!PeerUses(c, reading) \/ B!PeerUses(c, reading)
       PROVE  A!PeerUses(c, reading)
  BY <1>16 DEF A!PeerUses, B!PeerUses, A!Stands, B!Stands, A!carried, B!carried
<1>17. ASSUME NEW n \in Conn, A!Close(n) \/ B!Close(n) PROVE A!Close(n)
  BY <1>17 DEF A!Close, B!Close, A!carried, B!carried, A!memory, B!memory
<1>18. ASSUME NEW n \in Conn, NEW x \in Exchange, A!Open(n, x) \/ B!Open(n, x)
       PROVE  A!Open(n, x)
  BY <1>18 DEF A!Open, B!Open, A!Owns, B!Owns, A!carried, B!carried, A!memory, B!memory
<1>19. ASSUME A!Tick \/ B!Tick PROVE A!Tick
  BY <1>19 DEF A!Tick, B!Tick, A!carried, B!carried, A!memory, B!memory
<1>20. CASE \/ \E u \in Url, p \in {"create_user", "add_owner"}, h \in BOOLEAN :
                 A!Issue(u, p, h) \/ B!Issue(u, p, h)
            \/ \E k \in Challenge, u \in Url \cup {None} : A!HandOut(k, u) \/ B!HandOut(k, u)
  BY <1>1, <1>2, <1>20 DEF Ceremony
<1>21. CASE \E x \in Exchange, u \in Url, k \in Challenge, c \in Cred, right \in BOOLEAN :
              \/ A!Registers(x, u, k, c, right) \/ B!Registers(x, u, k, c, right)
              \/ \E reading \in 0..MaxCount :
                   \/ A!Asserts(x, A!Enroll, u, k, c, reading, right)
                   \/ B!Asserts(x, B!Enroll, u, k, c, reading, right)
  <2>1. PICK x \in Exchange, u \in Url, k \in Challenge, c \in Cred, right \in BOOLEAN :
          \/ A!Registers(x, u, k, c, right) \/ B!Registers(x, u, k, c, right)
          \/ \E reading \in 0..MaxCount :
               \/ A!Asserts(x, A!Enroll, u, k, c, reading, right)
               \/ B!Asserts(x, B!Enroll, u, k, c, reading, right)
    BY <1>21
  <2>2. CASE A!Registers(x, u, k, c, right)
    BY <2>2 DEF Beginning, Ceremony
  <2>3. CASE B!Registers(x, u, k, c, right)
    <3>1. A!Registers(x, u, k, c, right)
      BY <2>3 DEF A!Registers, B!Registers, A!Idle, B!Idle, A!Register, B!Register, A!carried,
                  B!carried, A!memory, B!memory
    <3> QED  BY <3>1 DEF Beginning, Ceremony
  <2>4. CASE \E reading \in 0..MaxCount :
               \/ A!Asserts(x, A!Enroll, u, k, c, reading, right)
               \/ B!Asserts(x, B!Enroll, u, k, c, reading, right)
    <3>1. PICK reading \in 0..MaxCount :
            \/ A!Asserts(x, A!Enroll, u, k, c, reading, right)
            \/ B!Asserts(x, B!Enroll, u, k, c, reading, right)
      BY <2>4
    <3>2. A!Asserts(x, "enroll", u, k, c, reading, right)
      BY <3>1 DEF A!Asserts, B!Asserts, A!Idle, B!Idle, A!Enroll, B!Enroll, A!carried,
                  B!carried, A!memory, B!memory, A!Stands, B!Stands, A!Advances, B!Advances
    <3> QED  BY <3>2 DEF Beginning, Ceremony
  <2> QED  BY <2>1, <2>2, <2>3, <2>4
<1>22. CASE \E x \in Exchange, k \in Challenge, c \in Cred, reading \in 0..MaxCount :
              \/ A!Asserts(x, A!Assert, None, k, c, reading, TRUE)
              \/ B!Asserts(x, B!Assert, None, k, c, reading, TRUE)
  <2>1. PICK x \in Exchange : Beginning(x)
    BY <1>11, <1>22
  <2> QED  BY <2>1 DEF Ceremony
<1>23. CASE \E x \in Exchange :
              \/ A!Claims(x) \/ A!AnswerLost(x) \/ A!ChecksOwner(x) \/ A!Spend(x)
              \/ A!WritesUser(x) \/ A!WritesCred(x) \/ A!Used(x) \/ A!Grants(x)
              \/ A!Mints(x) \/ A!Commits(x) \/ A!CommitFails(x)
              \/ B!Claims(x) \/ B!AnswerLost(x) \/ B!ChecksOwner(x) \/ B!Spend(x)
              \/ B!WritesUser(x) \/ B!WritesCred(x) \/ B!Used(x) \/ B!Grants(x)
              \/ B!Mints(x) \/ B!Commits(x) \/ B!CommitFails(x)
  <2>1. PICK x \in Exchange : Stepping(x)
    BY <1>3, <1>4, <1>5, <1>6, <1>7, <1>8, <1>9, <1>10, <1>23 DEF Stepping
  <2> QED  BY <2>1 DEF Ceremony
<1>24. CASE \E t \in Task : 
              \/ A!Revoke(t) \/ A!Erase(t) \/ A!TaskEnds(t) \/ A!TaskGoesOn(t) \/ A!TaskFails(t)
              \/ B!Revoke(t) \/ B!Erase(t) \/ B!TaskEnds(t) \/ B!TaskGoesOn(t) \/ B!TaskFails(t)
              \/ \E c \in Cred : A!RemoveCredential(t, c) \/ B!RemoveCredential(t, c)
              \/ \E x \in Exchange : A!FailFamily(t, x) \/ B!FailFamily(t, x)
              \/ \E gs \in SUBSET Grant, cs \in SUBSET Cred, fs \in SUBSET Exchange :
                   A!PeerMarks(t, gs, cs, fs) \/ B!PeerMarks(t, gs, cs, fs)
  <2>1. PICK t \in Task : Removing(t)
    BY <1>12, <1>13, <1>14, <1>15, <1>24
  <2> QED  BY <2>1 DEF Ceremony
<1>25. CASE \/ \E c \in Cred, reading \in 0..MaxCount :
                 A!PeerUses(c, reading) \/ B!PeerUses(c, reading)
            \/ \E n \in Conn :
                 \/ A!Close(n) \/ B!Close(n)
                 \/ \E x \in Exchange : A!Open(n, x) \/ B!Open(n, x)
            \/ A!Tick \/ B!Tick
  BY <1>16, <1>17, <1>18, <1>19, <1>25 DEF Ceremony
<1>26. CASE \E t \in Task,
               gs \in SUBSET {g \in Grant : grant[g] = "stands"},
               cs \in SUBSET {c \in Cred : A!Stands(c) \/ B!Stands(c)},
               fs \in SUBSET {x \in Exchange : family[x] = "stands"} :
              A!PeerMarks(t, gs, cs, fs) \/ B!PeerMarks(t, gs, cs, fs)
  BY <1>24, <1>26
<1>27. ASSUME NEW c \in Cred PROVE A!Stands(c) = B!Stands(c)
  BY DEF A!Stands, B!Stands
<1>28. CASE A!Next
  BY <1>20, <1>21, <1>22, <1>23, <1>24, <1>25, <1>26, <1>28 DEF A!Next
<1>29. CASE B!Next
  BY <1>20, <1>21, <1>22, <1>23, <1>24, <1>25, <1>26, <1>29 DEF B!Next
<1> QED  BY <1>28, <1>29

-----------------------------------------------------------------------------
(* Types.  Going on to a later stage, or ending, leaves a typed exchange.  *)
ExchangeTypes ==
  /\ exchange \in [Exchange -> Running \cup Ended]
  /\ \A x \in Exchange : exchange[x].is = "claims" => exchange[x].url \in Url

LEMMA GoingTypes ==
  ASSUME ExchangeTypes, NEW x \in Exchange, NEW stage \in Stages \ {"claims"},
         exchange[x] \in Running, A!Goes(x, stage)
  PROVE  ExchangeTypes'
<1> DEFINE e == [exchange[x] EXCEPT !.is = stage]
<1>1. e \in Running /\ e.is # "claims"
  BY DEF Running
<1>2. exchange' = [exchange EXCEPT ![x] = e]
  BY DEF A!Goes, ExchangeTypes
<1> HIDE DEF e
<1> QED  BY <1>1, <1>2 DEF ExchangeTypes

LEMMA RefusedTypes ==
  ASSUME ExchangeTypes, NEW x \in Exchange, A!Refused(x)
  PROVE  ExchangeTypes'
<1> DEFINE e == [[is |-> "idle"] EXCEPT !.is = "refused"]
<1>1. e \in Ended /\ e.is # "claims"
  BY DEF Ended
<1>2. exchange' = [exchange EXCEPT ![x] = e]
  BY DEF A!Refused, A!Idle
<1> HIDE DEF e
<1> QED  BY <1>1, <1>2 DEF ExchangeTypes

(* An exchange in a stage has all that a request carries.                  *)
LEMMA InAStage ==
  ASSUME ExchangeTypes, NEW x \in Exchange, exchange[x].is \in Stages
  PROVE  exchange[x] \in Running
BY DEF ExchangeTypes, Ended, Stages

LEMMA CeremonyInitTypes ==
  Apart /\ (A!Init \/ B!Init) => CeremonyTypes
BY DEF Apart, A!Init, B!Init, A!Idle, B!Idle, CeremonyTypes, Ended, Removal

(* What a request begins: an exchange that carries what it needs and is    *)
(* not late yet.                                                           *)
Begun ==
  {e \in Running : e.is \in {"claims", "owns"} /\ ~e.late /\ (e.is = "claims" => e.url \in Url)}

Starts(x, e) ==
  /\ exchange' = [exchange EXCEPT ![x] = e]
  /\ UNCHANGED <<now, pending, issued, challenges, handed, person, cred, grant, family, task,
                 session, wrong, passed, again, skipped>>

LEMMA BeginningStarts ==
  ASSUME NEW x \in Exchange, Beginning(x)
  PROVE  \E e \in Begun : Starts(x, e)
<1>1. ASSUME NEW k \in Challenge, NEW c \in Cred, NEW u \in Url, NEW right \in BOOLEAN,
             A!Registers(x, u, k, c, right)
      PROVE  \E e \in Begun : Starts(x, e)
  <2> DEFINE e == [is |-> "claims", op |-> "register", url |-> u, challenge |-> k, cred |-> c,
                   reading |-> 0, right |-> right, late |-> FALSE, hands |-> FALSE]
  <2>1. e \in Begun
    BY DEF Begun, Running, Stages
  <2>2. Starts(x, e)
    BY <1>1 DEF A!Registers, A!Register, A!carried, A!memory, Starts
  <2> QED  BY <2>1, <2>2
<1>2. ASSUME NEW op \in {"enroll", "assert"}, NEW k \in Challenge, NEW c \in Cred,
             NEW u \in Url \cup {None}, op = "enroll" => u \in Url, NEW right \in BOOLEAN,
             NEW reading \in 0..MaxCount, A!Asserts(x, op, u, k, c, reading, right)
      PROVE  \E e \in Begun : Starts(x, e)
  <2> DEFINE e == [is |-> IF op = "enroll" THEN "claims" ELSE "owns", op |-> op, url |-> u,
                   challenge |-> k, cred |-> c, reading |-> reading, right |-> right,
                   late |-> FALSE, hands |-> FALSE]
  <2>1. e \in Begun
    BY <1>2 DEF Begun, Running, Stages
  <2>2. Starts(x, e)
    BY <1>2 DEF A!Asserts, A!Enroll, A!carried, A!memory, Starts
  <2> QED  BY <2>1, <2>2
<1>3. PICK k \in Challenge, c \in Cred :
        \/ \E u \in Url, right \in BOOLEAN :
             \/ A!Registers(x, u, k, c, right)
             \/ \E reading \in 0..MaxCount : A!Asserts(x, "enroll", u, k, c, reading, right)
        \/ \E reading \in 0..MaxCount : A!Asserts(x, "assert", None, k, c, reading, TRUE)
  BY DEF Beginning
<1>4. CASE \E u \in Url, right \in BOOLEAN : A!Registers(x, u, k, c, right)
  BY <1>1, <1>4
<1>5. CASE \E u \in Url, right \in BOOLEAN, reading \in 0..MaxCount :
             A!Asserts(x, "enroll", u, k, c, reading, right)
  BY <1>2, <1>5
<1>6. CASE \E reading \in 0..MaxCount : A!Asserts(x, "assert", None, k, c, reading, TRUE)
  BY <1>2, <1>6
<1> QED  BY <1>3, <1>4, <1>5, <1>6

LEMMA StartsTypes ==
  ASSUME CeremonyTypes, NEW x \in Exchange, NEW e \in Begun, Starts(x, e)
  PROVE  CeremonyTypes'
BY DEF CeremonyTypes, Starts, Begun

(* #forget leaves fewer URLs and fewer challenges.                         *)
LEMMA ForgetsTypes ==
  ASSUME CeremonyTypes, Forgets
  PROVE  pending' \in [Url -> Link \cup {None}]
BY DEF Forgets, CeremonyTypes

LEMMA UnexpiredTypes ==
  ASSUME CeremonyTypes
  PROVE  /\ A!Unexpired \in [Challenge -> Int \cup {None}]
         /\ \A k \in Challenge : A!Unexpired[k] \in {challenges[k], None}
BY DEF CeremonyTypes, A!Unexpired

LEMMA ClaimsTypes ==
  ASSUME Apart, CeremonyTypes, NEW x \in Exchange, A!Claims(x)
  PROVE  CeremonyTypes'
<1> DEFINE u == exchange[x].url
<1>1. /\ exchange[x] \in Running /\ u \in Url /\ ExchangeTypes
      /\ UNCHANGED <<now, issued, challenges, handed, cred, grant, family, task, session>>
  <2>1. ExchangeTypes
    BY DEF CeremonyTypes, ExchangeTypes
  <2> QED  BY <2>1, InAStage DEF A!Claims, Stages, A!memory, ExchangeTypes
<1>2. CASE /\ pending' = [pending EXCEPT ![u] = None] /\ A!Refused(x)
           /\ UNCHANGED <<wrong, passed>>
  <2>1. ExchangeTypes'
    BY <1>1, <1>2, RefusedTypes
  <2> QED  BY <1>1, <1>2, <2>1 DEF CeremonyTypes, ExchangeTypes
<1>3. CASE /\ A!Alive(u)
           /\ wrong' = [wrong EXCEPT ![u] = @ + 1]
           /\ IF pending[u].attempts + 1 >= CODE_ATTEMPTS
              THEN pending' = [pending EXCEPT ![u] = None]
              ELSE pending' = [pending EXCEPT ![u].attempts = @ + 1]
           /\ A!Refused(x)
           /\ UNCHANGED passed
  <2> DEFINE p == [pending[u] EXCEPT !.attempts = @ + 1]
  <2>1. ExchangeTypes'
    BY <1>1, <1>3, RefusedTypes
  <2>2. pending[u] \in Link
    BY <1>1, <1>3 DEF A!Alive, CeremonyTypes
  <2>3. p \in Link
    BY <2>2 DEF Link
  <2>4. \/ pending' = [pending EXCEPT ![u] = None]
        \/ pending' = [pending EXCEPT ![u] = p]
    BY <1>3
  <2> HIDE DEF p
  <2> QED  BY <1>1, <1>3, <2>1, <2>3, <2>4 DEF CeremonyTypes, ExchangeTypes
<1>4. CASE /\ A!Alive(u)
           /\ pending' = [pending EXCEPT ![u] = None]
           /\ passed' = passed \cup {<<"url", u, x>>}
           /\ \/ exchange' = [exchange EXCEPT ![x].is = "spend", ![x].hands = pending[u].hands]
              \/ A!Refused(x)
           /\ UNCHANGED wrong
  <2>1. pending[u] \in Link
    BY <1>1, <1>4 DEF A!Alive, CeremonyTypes
  <2> DEFINE e == [exchange[x] EXCEPT !.is = "spend", !.hands = pending[u].hands]
  <2>2. e \in Running /\ e.is # "claims"
    BY <1>1, <2>1 DEF Running, Stages, Link
  <2>3. exchange' = [exchange EXCEPT ![x] = e] \/ A!Refused(x)
    BY <1>1, <1>4 DEF ExchangeTypes
  <2> HIDE DEF e
  <2>4. ExchangeTypes'
    <3>1. CASE exchange' = [exchange EXCEPT ![x] = e]
      BY <1>1, <2>2, <3>1 DEF ExchangeTypes
    <3> QED  BY <1>1, <2>3, <3>1, RefusedTypes
  <2> QED  BY <1>1, <1>4, <2>4 DEF CeremonyTypes, ExchangeTypes
<1> QED
  <2>1. A!Resolve(x)
    BY DEF A!Claims
  <2> QED  BY <1>2, <1>3, <1>4, <2>1 DEF A!Resolve

(* Putting a credential down, as register does in either of its steps.     *)
LEMMA PutsCredTypes ==
  ASSUME Apart, CeremonyTypes, NEW x \in Exchange, exchange[x] \in Running, A!PutsCred(x)
  PROVE  /\ ExchangeTypes'
         /\ cred' \in [Cred -> Int \cup {None, Removed}]
         /\ passed' \subseteq passed
<1>1. ExchangeTypes
  BY DEF CeremonyTypes, ExchangeTypes
<1>2. exchange[x].reading \in Int /\ exchange[x].cred \in Cred
  BY DEF Running
<1>3. ExchangeTypes'
  BY <1>1, RefusedTypes, GoingTypes DEF A!PutsCred, Stages
<1>4. cred' \in [Cred -> Int \cup {None, Removed}] /\ passed' \subseteq passed
  BY <1>2 DEF A!PutsCred, CeremonyTypes
<1> QED  BY <1>3, <1>4

LEMMA SpendsTypes ==
  ASSUME Apart, CeremonyTypes, NEW x \in Exchange, Spends(x)
  PROVE  CeremonyTypes'
<1> DEFINE k == exchange[x].challenge
           f == [exchange[x] EXCEPT
                   !.is = IF exchange[x].op = "register" THEN "user" ELSE "used",
                   !.late = (cred[exchange[x].cred] = Removed)]
<1>1. ExchangeTypes /\ exchange[x] \in Running /\ k \in Challenge
  <2>1. ExchangeTypes
    BY DEF CeremonyTypes, ExchangeTypes
  <2>2. exchange[x] \in Running
    BY <2>1, InAStage DEF Spends, Stages
  <2> QED  BY <2>1, <2>2 DEF Running
<1>2. f \in Running /\ f.is # "claims"
  BY <1>1 DEF Running, Stages
<1>3. \/ exchange' = [exchange EXCEPT ![x] = f] /\ passed' = passed \cup {<<"challenge", k, x>>}
      \/ A!Refused(x) /\ passed' = passed
  BY <1>1 DEF Spends, ExchangeTypes
<1> HIDE DEF f
<1>4. ExchangeTypes'
  <2>1. CASE exchange' = [exchange EXCEPT ![x] = f]
    BY <1>1, <1>2, <2>1 DEF ExchangeTypes
  <2> QED  BY <1>1, <1>3, <2>1, RefusedTypes
<1>5. pending' \in [Url -> Link \cup {None}]
  BY ForgetsTypes DEF Spends
<1>6. challenges' \in [Challenge -> Int \cup {None}]
  BY <1>1, UnexpiredTypes DEF Spends
<1> QED  BY <1>1, <1>3, <1>4, <1>5, <1>6 DEF CeremonyTypes, ExchangeTypes, Spends

LEMMA SteppingTypes ==
  ASSUME Apart, CeremonyTypes, NEW x \in Exchange, Stepping(x)
  PROVE  CeremonyTypes'
<1>1. ExchangeTypes
  BY DEF CeremonyTypes, ExchangeTypes
<1>2. exchange[x].is \in Stages => exchange[x] \in Running
  BY <1>1, InAStage
<1>3. CASE A!Claims(x)
  BY <1>3, ClaimsTypes
<1>4. CASE Spends(x)
  BY <1>4, SpendsTypes
<1>5. CASE Loses(x)
  <2>1. ExchangeTypes'
    BY <1>1, <1>5, RefusedTypes DEF Loses
  <2>2. exchange[x] \in Running
    BY <1>2, <1>5 DEF Loses, Stages
  <2>3. \/ /\ exchange[x].url \in Url /\ UNCHANGED challenges
           /\ pending' = [pending EXCEPT ![exchange[x].url] = None]
        \/ /\ exchange[x].challenge \in Challenge /\ UNCHANGED pending
           /\ challenges' = [challenges EXCEPT ![exchange[x].challenge] = None]
    BY <1>1, <1>5, <2>2 DEF Loses, Running, ExchangeTypes
  <2> QED  BY <1>5, <2>1, <2>3 DEF Loses, CeremonyTypes, ExchangeTypes
<1>6. CASE A!ChecksOwner(x) \/ A!CommitFails(x)
  <2>1. ExchangeTypes'
    BY <1>1, <1>2, <1>6, RefusedTypes, GoingTypes DEF A!ChecksOwner, A!CommitFails, Stages
  <2> QED
    BY <1>6, <2>1 DEF A!ChecksOwner, A!CommitFails, A!carried, A!memory, CeremonyTypes, ExchangeTypes
<1>7. CASE A!Commits(x)
  <2>1. exchange[x] \in Running
    BY <1>2, <1>7 DEF A!Commits, A!Written, Stages
  <2>2. A!After(exchange[x].is, exchange[x].op) \in Stages \ {"claims"}
    <3>1. exchange[x].is = "user written" => A!After(exchange[x].is, exchange[x].op) = "cred"
      BY DEF A!After
    <3>2. exchange[x].is = "cred written" => A!After(exchange[x].is, exchange[x].op) = "grant"
      BY DEF A!After
    <3>3. exchange[x].is = "used written"
            => A!After(exchange[x].is, exchange[x].op) \in {"grant", "mint"}
      BY DEF A!After
    <3>4. exchange[x].is = "grant written" => A!After(exchange[x].is, exchange[x].op) = "mint"
      BY DEF A!After
    <3>5. exchange[x].is = "mint written" => A!After(exchange[x].is, exchange[x].op) = "answered"
      BY DEF A!After
    <3> QED  BY <1>7, <3>1, <3>2, <3>3, <3>4, <3>5 DEF A!Commits, A!Written, Stages
  <2>3. ExchangeTypes'
    BY <1>1, <1>7, <2>1, <2>2, GoingTypes DEF A!Commits
  <2> QED  BY <1>7, <2>3 DEF A!Commits, A!carried, A!memory, CeremonyTypes, ExchangeTypes
<1>8. CASE A!WritesUser(x)
  <2>1. exchange[x] \in Running
    BY <1>2, <1>8 DEF A!WritesUser, Stages
  <2>2. CASE A!PutsCred(x)
    BY <1>8, <2>1, <2>2, PutsCredTypes DEF A!WritesUser, A!carried, CeremonyTypes, ExchangeTypes
  <2>3. CASE (A!Refused(x) \/ A!Goes(x, "user written")) /\ UNCHANGED <<cred, passed>>
    <3>1. ExchangeTypes'
      BY <1>1, <2>1, <2>3, RefusedTypes, GoingTypes DEF Stages
    <3> QED  BY <1>8, <2>3, <3>1 DEF A!WritesUser, A!carried, CeremonyTypes, ExchangeTypes
  <2> QED  BY <1>8, <2>2, <2>3 DEF A!WritesUser
<1>9. CASE A!WritesCred(x)
  <2>1. exchange[x] \in Running
    BY <1>2, <1>9 DEF A!WritesCred, Stages
  <2> QED
    BY <1>9, <2>1, PutsCredTypes DEF A!WritesCred, A!carried, CeremonyTypes, ExchangeTypes
<1>10. CASE A!Used(x)
  <2>1. exchange[x].cred \in Cred /\ exchange[x].reading \in Nat /\ exchange[x] \in Running
    BY <1>2, <1>10 DEF A!Used, Stages, Running
  <2>2. ExchangeTypes'
    BY <1>1, <1>10, <2>1, RefusedTypes, GoingTypes DEF A!Used, Stages
  <2>3. /\ cred' \in {cred, [cred EXCEPT ![exchange[x].cred] = exchange[x].reading]}
        /\ passed' \in {passed, passed \cup {<<exchange[x].cred, exchange[x].reading, x>>}}
        /\ UNCHANGED <<now, pending, issued, challenges, handed, wrong, grant, family, task,
                       session>>
    BY <1>10 DEF A!Used, A!carried
  <2> QED  BY <2>1, <2>2, <2>3 DEF CeremonyTypes, ExchangeTypes
<1>11. CASE A!Grants(x) \/ A!Mints(x)
  <2>1. ExchangeTypes'
    BY <1>1, <1>2, <1>11, GoingTypes DEF A!Grants, A!Mints, Stages
  <2> QED
    BY <1>11, <2>1 DEF A!Grants, A!Mints, A!carried, CeremonyTypes, ExchangeTypes
<1> QED  BY <1>3, <1>4, <1>5, <1>6, <1>7, <1>8, <1>9, <1>10, <1>11 DEF Stepping

LEMMA RemovingTypes ==
  ASSUME Apart, CeremonyTypes, NEW t \in Task, Removing(t)
  PROVE  CeremonyTypes'
<1>1. CASE A!Revoke(t)
  BY <1>1 DEF A!Revoke, A!carried, A!memory, CeremonyTypes, Removal
<1>2. CASE A!Erase(t)
  <2>1. task[t] \in [is : {"erase"}, left : SUBSET Grant]
    BY <1>2 DEF A!Erase, CeremonyTypes, Removal, Ended
  <2>2. PICK g \in task[t].left :
          /\ grant' = A!Mark(grant, {g})
          /\ task' = [task EXCEPT ![t] = [is |-> "erasing", left |-> task[t].left \ {g}]]
    BY <1>2 DEF A!Erase
  <2>3. [is |-> "erasing", left |-> task[t].left \ {g}] \in Removal
    BY <2>1 DEF Removal
  <2> QED  BY <1>2, <2>2, <2>3 DEF A!Erase, A!Mark, A!carried, CeremonyTypes
<1>3. CASE A!TaskEnds(t) \/ A!TaskFails(t)
  BY <1>3 DEF A!TaskEnds, A!TaskFails, A!Idle, A!Closed, A!carried, A!memory, CeremonyTypes,
              Removal, Ended
<1>4. CASE A!TaskGoesOn(t)
  <2>1. task[t] \in [is : {"erasing"}, left : SUBSET Grant]
    BY <1>4 DEF A!TaskGoesOn, CeremonyTypes, Removal, Ended
  <2> DEFINE e == [task[t] EXCEPT !.is = "erase"]
  <2>2. e \in Removal
    BY <2>1 DEF Removal
  <2>3. task' = [task EXCEPT ![t] = e]
    BY <1>4 DEF A!TaskGoesOn, CeremonyTypes
  <2> HIDE DEF e
  <2> QED  BY <1>4, <2>2, <2>3 DEF A!TaskGoesOn, A!carried, A!memory, CeremonyTypes
<1>5. ASSUME NEW c \in Cred, A!RemoveCredential(t, c) PROVE CeremonyTypes'
  BY <1>5 DEF A!RemoveCredential, A!Mark, A!carried, CeremonyTypes, Removal
<1>6. ASSUME NEW x \in Exchange, A!FailFamily(t, x) PROVE CeremonyTypes'
  BY <1>6 DEF A!FailFamily, A!Mark, A!carried, CeremonyTypes, Removal
<1>7. ASSUME NEW gs \in SUBSET Grant, NEW cs \in SUBSET Cred, NEW fs \in SUBSET Exchange,
             A!PeerMarks(t, gs, cs, fs)
      PROVE  CeremonyTypes'
  BY <1>7 DEF A!PeerMarks, A!Mark, A!carried, CeremonyTypes, Removal
<1> QED  BY <1>1, <1>2, <1>3, <1>4, <1>5, <1>6, <1>7 DEF Removing

LEMMA CeremonyStepTypes ==
  ASSUME Apart, CeremonyTypes, Ceremony
  PROVE  CeremonyTypes'
<1>1. ASSUME NEW u \in Url, NEW p \in {"create_user", "add_owner"}, NEW h \in BOOLEAN,
             Issues(u, p, h)
      PROVE  CeremonyTypes'
  BY <1>1 DEF Issues, CeremonyTypes, Apart, Link
<1>2. ASSUME NEW k \in Challenge, HandsOut(k) PROVE CeremonyTypes'
  <2>1. pending' \in [Url -> Link \cup {None}]
    BY <1>2, ForgetsTypes DEF HandsOut
  <2>2. challenges' \in [Challenge -> Int \cup {None}]
    BY <1>2, UnexpiredTypes DEF HandsOut, Apart, CeremonyTypes
  <2> QED  BY <1>2, <2>1, <2>2 DEF HandsOut, CeremonyTypes
<1>3. ASSUME NEW x \in Exchange, Beginning(x) \/ Stepping(x) PROVE CeremonyTypes'
  BY <1>3, BeginningStarts, StartsTypes, SteppingTypes
<1>4. ASSUME NEW t \in Task, Removing(t) PROVE CeremonyTypes'
  BY <1>4, RemovingTypes
<1>5. ASSUME NEW c \in Cred, NEW reading \in 0..MaxCount, A!PeerUses(c, reading)
      PROVE  CeremonyTypes'
  BY <1>5 DEF A!PeerUses, A!carried, CeremonyTypes
<1>6. ASSUME NEW n \in Conn, NEW x \in Exchange, A!Close(n) \/ A!Open(n, x)
      PROVE  CeremonyTypes'
  BY <1>6 DEF A!Close, A!Open, A!carried, A!memory, CeremonyTypes
<1>7. ASSUME NEW n \in Conn, A!Close(n) PROVE CeremonyTypes'
  BY <1>7 DEF A!Close, A!carried, A!memory, CeremonyTypes
<1>8. CASE A!Tick
  BY <1>8 DEF A!Tick, A!carried, A!memory, CeremonyTypes
<1> QED  BY <1>1, <1>2, <1>3, <1>4, <1>5, <1>6, <1>7, <1>8 DEF Ceremony

-----------------------------------------------------------------------------
(* A URL that is held was made, and has been tried less often than it may; *)
(* one an exchange got through is held no more, and was made: a jti is     *)
(* random, and is not made twice.  So with a challenge.                    *)
Spent ==
  /\ \A u \in Url : pending[u] # None =>
       u \in issued /\ wrong[u] = pending[u].attempts /\ wrong[u] < CODE_ATTEMPTS
  /\ \A u \in Url : wrong[u] <= CODE_ATTEMPTS /\ (u \notin issued => wrong[u] = 0)
  /\ \A k \in Challenge : challenges[k] # None => k \in handed
  /\ \A u \in Url, x, y \in Exchange : <<"url", u, x>> \in passed =>
       u \in issued /\ pending[u] = None /\ (<<"url", u, y>> \in passed => x = y)
  /\ \A k \in Challenge, x, y \in Exchange : <<"challenge", k, x>> \in passed =>
       k \in handed /\ challenges[k] = None /\ (<<"challenge", k, y>> \in passed => x = y)

LEMMA SpentInit == Apart /\ (A!Init \/ B!Init) => Spent
BY DEF Apart, A!Init, B!Init, Spent

(* What leaves fewer URLs and challenges held, and tries and passes none.  *)
LEMMA SpentWithFewer ==
  ASSUME Spent, CeremonyTypes, CeremonyTypes',
         UNCHANGED <<issued, handed, wrong>>,
         \A u \in Url : pending'[u] \in {pending[u], None},
         \A k \in Challenge : challenges'[k] \in {challenges[k], None},
         \A p \in passed' \ passed : p[1] \notin {"url", "challenge"}
  PROVE  Spent'
<1>1. \A u \in Url, x \in Exchange : <<"url", u, x>> \in passed' => <<"url", u, x>> \in passed
  OBVIOUS
<1>2. \A k \in Challenge, x \in Exchange :
        <<"challenge", k, x>> \in passed' => <<"challenge", k, x>> \in passed
  OBVIOUS
<1> QED  BY <1>1, <1>2 DEF Spent

LEMMA ClaimsSpent ==
  ASSUME Apart, Spent, CeremonyTypes, CeremonyTypes', NEW x \in Exchange, A!Claims(x)
  PROVE  Spent'
<1> DEFINE u == exchange[x].url
<1>1. u \in Url /\ UNCHANGED <<issued, challenges, handed>>
  BY DEF A!Claims, CeremonyTypes
<1>2. CASE pending' = [pending EXCEPT ![u] = None] /\ UNCHANGED <<wrong, passed>>
  BY <1>1, <1>2, SpentWithFewer DEF CeremonyTypes
<1>3. CASE /\ A!Alive(u)
           /\ wrong' = [wrong EXCEPT ![u] = @ + 1]
           /\ IF pending[u].attempts + 1 >= CODE_ATTEMPTS
              THEN pending' = [pending EXCEPT ![u] = None]
              ELSE pending' = [pending EXCEPT ![u].attempts = @ + 1]
           /\ UNCHANGED passed
  <2>1. pending[u] # None /\ pending[u] \in Link
    BY <1>1, <1>3 DEF A!Alive, CeremonyTypes
  <2>2. u \in issued /\ wrong[u] = pending[u].attempts /\ wrong[u] < CODE_ATTEMPTS
        /\ pending[u].attempts \in Int /\ CODE_ATTEMPTS \in Int
    BY <1>1, <2>1 DEF Spent, Link, Apart
  <2>3. /\ wrong'[u] = wrong[u] + 1
        /\ \A v \in Url : v # u => wrong'[v] = wrong[v] /\ pending'[v] = pending[v]
        /\ \/ pending'[u] = None
           \/ pending'[u].attempts = pending[u].attempts + 1 /\ wrong[u] + 1 < CODE_ATTEMPTS
    BY <1>1, <1>3, <2>1, <2>2 DEF CeremonyTypes, Link
  <2>4. \A y \in Exchange : <<"url", u, y>> \notin passed
    BY <1>1, <2>1 DEF Spent
  <2>5. UNCHANGED <<issued, challenges, handed, passed>>
    BY <1>1, <1>3
  <2> HIDE DEF u
  <2>6. \A v \in Url : pending'[v] # None =>
          v \in issued' /\ wrong'[v] = pending'[v].attempts /\ wrong'[v] < CODE_ATTEMPTS
    BY <2>2, <2>3, <2>5 DEF Spent
  <2>7. \A v \in Url : wrong'[v] <= CODE_ATTEMPTS /\ (v \notin issued' => wrong'[v] = 0)
    <3> SUFFICES ASSUME NEW v \in Url
                 PROVE  wrong'[v] <= CODE_ATTEMPTS /\ (v \notin issued' => wrong'[v] = 0)
      OBVIOUS
    <3>1. CASE v = u
      BY <2>2, <2>3, <2>5, <3>1
    <3>2. CASE v # u
      BY <2>3, <2>5, <3>2 DEF Spent
    <3> QED  BY <3>1, <3>2
  <2>8. \A v \in Url, y, z \in Exchange : <<"url", v, y>> \in passed' =>
          v \in issued' /\ pending'[v] = None /\ (<<"url", v, z>> \in passed' => y = z)
    BY <2>3, <2>4, <2>5 DEF Spent
  <2>9. \A k \in Challenge :
          /\ challenges'[k] # None => k \in handed'
          /\ \A y, z \in Exchange : <<"challenge", k, y>> \in passed' =>
               k \in handed' /\ challenges'[k] = None
                 /\ (<<"challenge", k, z>> \in passed' => y = z)
    BY <2>5 DEF Spent
  <2> QED  BY <2>6, <2>7, <2>8, <2>9 DEF Spent
<1>4. CASE /\ A!Alive(u)
           /\ pending' = [pending EXCEPT ![u] = None]
           /\ passed' = passed \cup {<<"url", u, x>>}
           /\ UNCHANGED wrong
  <2>1. pending[u] # None
    BY <1>4 DEF A!Alive
  <2>2. u \in issued /\ \A y \in Exchange : <<"url", u, y>> \notin passed
    BY <1>1, <2>1 DEF Spent
  <2>3. \A v \in Url : pending'[v] = IF v = u THEN None ELSE pending[v]
    BY <1>1, <1>4 DEF CeremonyTypes
  <2>4. \A v \in Url, y \in Exchange :
          <<"url", v, y>> \in passed' <=> <<"url", v, y>> \in passed \/ (v = u /\ y = x)
    BY <1>4
  <2>5. \A k \in Challenge, y \in Exchange :
          <<"challenge", k, y>> \in passed' <=> <<"challenge", k, y>> \in passed
    BY <1>4
  <2> QED  BY <1>1, <1>4, <2>2, <2>3, <2>4, <2>5 DEF Spent
<1> QED
  <2>1. A!Resolve(x)
    BY DEF A!Claims
  <2> QED  BY <1>2, <1>3, <1>4, <2>1 DEF A!Resolve

LEMMA SpendsSpent ==
  ASSUME Apart, Spent, CeremonyTypes, CeremonyTypes', NEW x \in Exchange, Spends(x)
  PROVE  Spent'
<1> DEFINE k == exchange[x].challenge
<1>1. k \in Challenge /\ UNCHANGED <<issued, handed, wrong>>
  <2>1. exchange[x] \in Running
    BY InAStage DEF Spends, Stages, ExchangeTypes, CeremonyTypes
  <2> QED  BY <2>1 DEF Running, Spends
<1>2. \A u \in Url : pending'[u] \in {pending[u], None}
  BY DEF Spends, Forgets
<1>3. /\ challenges'[k] = None
      /\ \A c \in Challenge : challenges'[c] \in {challenges[c], None}
  BY <1>1, UnexpiredTypes DEF Spends
<1>4. CASE UNCHANGED passed
  BY <1>1, <1>2, <1>3, <1>4, SpentWithFewer
<1>5. CASE A!Live(k) /\ passed' = passed \cup {<<"challenge", k, x>>}
  <2>1. challenges[k] # None
    BY <1>5 DEF A!Live
  <2>2. k \in handed /\ \A y \in Exchange : <<"challenge", k, y>> \notin passed
    BY <1>1, <2>1 DEF Spent
  <2>3. \A u \in Url, y \in Exchange :
          <<"url", u, y>> \in passed' <=> <<"url", u, y>> \in passed
    BY <1>5
  <2>4. \A c \in Challenge, y \in Exchange :
          <<"challenge", c, y>> \in passed'
            <=> <<"challenge", c, y>> \in passed \/ (c = k /\ y = x)
    BY <1>5
  <2> QED  BY <1>1, <1>2, <1>3, <2>2, <2>3, <2>4 DEF Spent
<1> QED  BY <1>4, <1>5 DEF Spends

LEMMA SpentStep ==
  ASSUME Apart, Spent, CeremonyTypes, CeremonyTypes', Ceremony
  PROVE  Spent'
<1>1. ASSUME NEW u \in Url, NEW p \in {"create_user", "add_owner"}, NEW h \in BOOLEAN,
             Issues(u, p, h)
      PROVE  Spent'
  <2> DEFINE q == [purpose |-> p, hands |-> h, till |-> now + REGISTER_TTL, attempts |-> 0]
  <2>1. /\ u \notin issued /\ issued' = issued \cup {u}
        /\ q.attempts = 0 /\ pending' = [pending EXCEPT ![u] = q]
        /\ UNCHANGED <<challenges, handed, wrong, passed>>
    BY <1>1 DEF Issues
  <2>2. wrong[u] = 0 /\ 0 < CODE_ATTEMPTS
    BY <2>1 DEF Spent, Apart
  <2> HIDE DEF q
  <2>3. \A v \in Url : pending'[v] = IF v = u THEN q ELSE pending[v]
    BY <2>1 DEF CeremonyTypes
  <2>4. \A y \in Exchange : <<"url", u, y>> \notin passed
    BY <2>1 DEF Spent
  <2> QED  BY <2>1, <2>2, <2>3, <2>4 DEF Spent
<1>2. ASSUME NEW k \in Challenge, HandsOut(k) PROVE Spent'
  <2>1. /\ \A u \in Url : pending'[u] \in {pending[u], None}
        /\ UNCHANGED <<issued, wrong, passed>>
        /\ k \notin handed /\ handed' = handed \cup {k}
    BY <1>2 DEF HandsOut, Forgets
  <2>2. \A c \in Challenge : c # k => challenges'[c] \in {challenges[c], None}
    BY <1>2, UnexpiredTypes DEF HandsOut
  <2>3. \A y \in Exchange : <<"challenge", k, y>> \notin passed
    BY <2>1 DEF Spent
  <2> QED  BY <2>1, <2>2, <2>3 DEF Spent
<1>3. ASSUME NEW x \in Exchange, A!Claims(x) PROVE Spent'
  BY <1>3, ClaimsSpent
<1>4. ASSUME NEW x \in Exchange, Spends(x) PROVE Spent'
  BY <1>4, SpendsSpent
<1>5. ASSUME UNCHANGED <<issued, handed, wrong, passed, pending, challenges>>
      PROVE  Spent'
  BY <1>5, SpentWithFewer
<1>6. ASSUME NEW x \in Exchange, Beginning(x) PROVE Spent'
  BY <1>5, <1>6, BeginningStarts DEF Starts
<1>7. ASSUME NEW x \in Exchange,
             \/ A!ChecksOwner(x) \/ A!Grants(x) \/ A!Mints(x) \/ A!Commits(x) \/ A!CommitFails(x)
      PROVE  Spent'
  BY <1>5, <1>7 DEF A!ChecksOwner, A!Grants, A!Mints, A!Commits, A!CommitFails, A!carried,
                    A!memory
<1>8. ASSUME NEW x \in Exchange, Loses(x) PROVE Spent'
  BY <1>8, SpentWithFewer DEF Loses, CeremonyTypes
<1>9. ASSUME NEW x \in Exchange, A!WritesUser(x) \/ A!WritesCred(x) PROVE Spent'
  <2>1. passed' \subseteq passed /\ UNCHANGED <<issued, handed, wrong, pending, challenges>>
    BY <1>9 DEF A!WritesUser, A!WritesCred, A!PutsCred, A!carried
  <2> QED  BY <2>1, SpentWithFewer
<1>10. ASSUME NEW x \in Exchange, A!Used(x) PROVE Spent'
  <2>1. exchange[x].cred \in Cred
    BY <1>10, InAStage DEF A!Used, Stages, ExchangeTypes, CeremonyTypes, Running
  <2>2. /\ passed' \in {passed, passed \cup {<<exchange[x].cred, exchange[x].reading, x>>}}
        /\ UNCHANGED <<issued, handed, wrong, pending, challenges>>
    BY <1>10 DEF A!Used, A!carried
  <2>3. \A p \in passed' \ passed : p[1] \notin {"url", "challenge"}
    BY <2>1, <2>2 DEF Apart
  <2> QED  BY <2>2, <2>3, SpentWithFewer
<1>11. ASSUME NEW t \in Task, Removing(t) PROVE Spent'
  BY <1>5, <1>11 DEF Removing, A!Revoke, A!Erase, A!TaskEnds, A!TaskGoesOn, A!TaskFails,
                     A!RemoveCredential, A!FailFamily, A!PeerMarks, A!carried
<1>12. ASSUME NEW c \in Cred, NEW reading \in 0..MaxCount, A!PeerUses(c, reading) PROVE Spent'
  <2>1. passed' \subseteq passed /\ UNCHANGED <<issued, handed, wrong, pending, challenges>>
    BY <1>12 DEF A!PeerUses, A!carried
  <2> QED  BY <2>1, SpentWithFewer
<1>13. ASSUME NEW n \in Conn, A!Close(n) PROVE Spent'
  BY <1>5, <1>13 DEF A!Close, A!carried
<1>14. ASSUME NEW n \in Conn, NEW x \in Exchange, A!Open(n, x) PROVE Spent'
  BY <1>5, <1>14 DEF A!Open, A!carried
<1>15. CASE A!Tick
  BY <1>5, <1>15 DEF A!Tick, A!carried
<1> QED  BY <1>1, <1>2, <1>3, <1>4, <1>6, <1>7, <1>8, <1>9, <1>10, <1>11, <1>12, <1>13,
            <1>14, <1>15 DEF Ceremony, Stepping

-----------------------------------------------------------------------------
(* While a passkey stands, its count is at least every reading that let an *)
(* exchange through since the count was last stated.                       *)
Counted ==
  /\ ~again
  /\ \A c \in Cred, r \in Int, x \in Exchange :
       <<c, r, x>> \in passed => cred[c] # None /\ (cred[c] # Removed => r <= cred[c])

(* A session under way, once its passkey was written or used, has one; one *)
(* that was late ends before it gets there.                                *)
Counting ==
  {"cred written", "used written", "grant", "grant written", "mint", "mint written", "answered"}

Backed ==
  \A x \in Exchange : exchange[x].is \in Stages =>
    /\ exchange[x].is \in Counting => cred[exchange[x].cred] # None
    /\ exchange[x].late => /\ exchange[x].is \in {"user", "user written", "cred", "used"}
                           /\ cred[exchange[x].cred] = Removed

LEMMA CountedInit == Apart /\ (A!Init \/ B!Init) => Counted /\ Backed
<1> SUFFICES ASSUME A!Init \/ B!Init PROVE Counted /\ Backed
  OBVIOUS
<1>1. ~again /\ passed = {} /\ \A x \in Exchange : exchange[x].is = "idle"
  BY DEF A!Init, B!Init, A!Idle, B!Idle
<1> QED  BY <1>1 DEF Counted, Backed, Stages

(* What lets nobody through on a reading, and leaves the counts but for    *)
(* marks.                                                                  *)
LEMMA CountedWithMarks ==
  ASSUME Apart, Counted, UNCHANGED again,
         \A c \in Cred : cred'[c] \in {cred[c], Removed},
         \A c \in Cred, r \in Int, x \in Exchange : <<c, r, x>> \in passed' => <<c, r, x>> \in passed
  PROVE  Counted'
BY DEF Counted, Apart

(* A count stated anew forgets the readings before it.                     *)
LEMMA CountedAnew ==
  ASSUME Apart, Counted, CeremonyTypes, UNCHANGED again, NEW c \in Cred, NEW r \in Int,
         cred' = [cred EXCEPT ![c] = r], passed' = {p \in passed : p[1] # c}
  PROVE  Counted'
<1>1. \A d \in Cred, n \in Int, x \in Exchange :
        <<d, n, x>> \in passed' => d # c /\ <<d, n, x>> \in passed
  OBVIOUS
<1>2. \A d \in Cred : d # c => cred'[d] = cred[d]
  BY DEF CeremonyTypes
<1> QED  BY <1>1, <1>2 DEF Counted

LEMMA UsedCounted ==
  ASSUME Apart, Counted, CeremonyTypes, NEW x \in Exchange, A!Used(x)
  PROVE  Counted'
<1> DEFINE c == exchange[x].cred
           n == exchange[x].reading
<1>1. c \in Cred /\ n \in Nat
  BY InAStage DEF A!Used, Stages, ExchangeTypes, CeremonyTypes, Running
<1>2. CASE UNCHANGED <<cred, passed, again>>
  BY <1>2 DEF Counted
<1>3. CASE /\ A!Stands(c) /\ A!Advances(cred[c], n)
           /\ cred' = [cred EXCEPT ![c] = n]
           /\ passed' = passed \cup {<<c, n, x>>}
           /\ again' = (again \/ A!Stale(c, n))
  <2>1. cred[c] \in Int /\ cred[c] # Removed
    BY <1>1, <1>3 DEF A!Stands, CeremonyTypes
  <2>2. cred[c] = 0 \/ n > cred[c]
    BY <1>3 DEF A!Advances
  <2>3. \A r \in Int, y \in Exchange : <<c, r, y>> \in passed => r <= cred[c]
    BY <1>1, <2>1 DEF Counted
  <2>4. ~A!Stale(c, n)
    <3> SUFFICES ASSUME NEW r \in 1..MaxCount, r >= n, NEW y \in Exchange, <<c, r, y>> \in passed
                 PROVE  FALSE
      BY DEF A!Stale
    <3>1. r \in Int /\ r >= 1
      OBVIOUS
    <3> QED  BY <1>1, <2>1, <2>2, <2>3, <3>1
  <2>5. n >= cred[c]
    BY <1>1, <2>1, <2>2
  <2>6. \A d \in Cred, r \in Int, y \in Exchange : <<d, r, y>> \in passed'
          => <<d, r, y>> \in passed \/ (d = c /\ r = n)
    BY <1>3
  <2>7. \A d \in Cred : cred'[d] = IF d = c THEN n ELSE cred[d]
    BY <1>1, <1>3 DEF CeremonyTypes
  <2>8. ASSUME NEW d \in Cred, NEW r \in Int, NEW y \in Exchange, <<d, r, y>> \in passed'
        PROVE  cred'[d] # None /\ (cred'[d] # Removed => r <= cred'[d])
    <3>1. CASE d = c
      <4>1. cred'[d] = n /\ n # None
        BY <1>1, <2>7, <3>1 DEF Apart
      <4>2. r <= n
        BY <1>1, <2>1, <2>3, <2>5, <2>6, <2>8, <3>1
      <4> QED  BY <4>1, <4>2
    <3>2. CASE d # c
      BY <2>6, <2>7, <2>8, <3>2 DEF Counted
    <3> QED  BY <3>1, <3>2
  <2> QED  BY <1>3, <2>4, <2>8 DEF Counted
<1> QED  BY <1>2, <1>3 DEF A!Used

LEMMA CountedStep ==
  ASSUME Apart, Counted, CeremonyTypes, CeremonyTypes', Ceremony
  PROVE  Counted'
<1>1. ASSUME UNCHANGED <<again, cred, passed>> PROVE Counted'
  BY <1>1 DEF Counted
<1>2. ASSUME NEW u \in Url, NEW p \in {"create_user", "add_owner"}, NEW h \in BOOLEAN,
             Issues(u, p, h)
      PROVE  Counted'
  BY <1>1, <1>2 DEF Issues
<1>3. ASSUME NEW k \in Challenge, HandsOut(k) PROVE Counted'
  BY <1>1, <1>3 DEF HandsOut
<1>4. ASSUME NEW x \in Exchange, Beginning(x) PROVE Counted'
  BY <1>1, <1>4, BeginningStarts DEF Starts
<1>5. ASSUME NEW x \in Exchange,
             \/ Loses(x) \/ A!ChecksOwner(x) \/ A!Grants(x) \/ A!Mints(x) \/ A!Commits(x)
             \/ A!CommitFails(x)
      PROVE  Counted'
  BY <1>1, <1>5 DEF Loses, A!ChecksOwner, A!Grants, A!Mints, A!Commits, A!CommitFails,
                    A!carried, A!memory
<1>6. ASSUME NEW x \in Exchange, A!Claims(x) \/ Spends(x) PROVE Counted'
  <2>1. /\ UNCHANGED <<again, cred>>
        /\ \/ passed' = passed
           \/ passed' = passed \cup {<<"url", exchange[x].url, x>>}
           \/ passed' = passed \cup {<<"challenge", exchange[x].challenge, x>>}
    BY <1>6 DEF A!Claims, A!Resolve, Spends, A!memory
  <2>2. \A c \in Cred, r \in Int, y \in Exchange :
          <<c, r, y>> \in passed' => <<c, r, y>> \in passed
    BY <2>1 DEF Apart
  <2>3. UNCHANGED again
    BY <2>1
  <2>4. \A c \in Cred : cred'[c] \in {cred[c], Removed}
    BY <2>1
  <2> QED  BY <2>2, <2>3, <2>4, CountedWithMarks
<1>7. ASSUME NEW x \in Exchange, A!WritesUser(x) \/ A!WritesCred(x) PROVE Counted'
  <2>0. exchange[x].is \in Stages
    BY <1>7 DEF A!WritesUser, A!WritesCred, Stages
  <2>1. exchange[x].cred \in Cred /\ exchange[x].reading \in Int
    BY <2>0, InAStage DEF ExchangeTypes, CeremonyTypes, Running
  <2>2. \/ UNCHANGED <<again, cred, passed>>
        \/ /\ UNCHANGED again
           /\ cred' = [cred EXCEPT ![exchange[x].cred] = exchange[x].reading]
           /\ passed' = {p \in passed : p[1] # exchange[x].cred}
    BY <1>7 DEF A!WritesUser, A!WritesCred, A!PutsCred
  <2> QED  BY <1>1, <2>1, <2>2, CountedAnew
<1>8. ASSUME NEW x \in Exchange, A!Used(x) PROVE Counted'
  BY <1>8, UsedCounted
<1>9. ASSUME NEW t \in Task, Removing(t) PROVE Counted'
  <2>1. UNCHANGED <<again, passed>>
    BY <1>9 DEF Removing, A!Revoke, A!Erase, A!TaskEnds, A!TaskGoesOn, A!TaskFails,
                 A!RemoveCredential, A!FailFamily, A!PeerMarks
  <2>2. \/ UNCHANGED cred
        \/ \E c \in Cred : A!Stands(c) /\ cred' = A!Mark(cred, {c})
        \/ \E gs \in SUBSET Grant, cs \in SUBSET Cred, fs \in SUBSET Exchange :
             A!PeerMarks(t, gs, cs, fs) /\ cred' = A!Mark(cred, cs)
    BY <1>9 DEF Removing, A!Revoke, A!Erase, A!TaskEnds, A!TaskGoesOn, A!TaskFails,
                 A!RemoveCredential, A!FailFamily, A!PeerMarks, A!memory
  <2>3. \A c \in Cred : cred'[c] \in {cred[c], Removed}
    BY <2>2 DEF A!Mark, CeremonyTypes
  <2> QED  BY <2>1, <2>3, CountedWithMarks
<1>10. ASSUME NEW c \in Cred, NEW reading \in 0..MaxCount, A!PeerUses(c, reading)
       PROVE  Counted'
  <2>1. /\ reading \in Int /\ again' = again
        /\ cred' = [cred EXCEPT ![c] = reading] /\ passed' = {p \in passed : p[1] # c}
    BY <1>10 DEF A!PeerUses
  <2> QED  BY <2>1, CountedAnew
<1>11. ASSUME NEW n \in Conn, A!Close(n) PROVE Counted'
  BY <1>1, <1>11 DEF A!Close, A!memory
<1>12. ASSUME NEW n \in Conn, NEW x \in Exchange, A!Open(n, x) PROVE Counted'
  BY <1>1, <1>12 DEF A!Open, A!memory
<1>13. CASE A!Tick
  BY <1>1, <1>13 DEF A!Tick, A!memory
<1> QED  BY <1>2, <1>3, <1>4, <1>5, <1>6, <1>7, <1>8, <1>9, <1>10, <1>11, <1>12, <1>13
         DEF Ceremony, Stepping

-----------------------------------------------------------------------------
(* What leaves the exchanges alone, and takes back no passkey but by a     *)
(* mark, leaves every session backed.                                      *)
LEMMA BackedAsItWas ==
  ASSUME Apart, Backed, CeremonyTypes, UNCHANGED exchange,
         \A c \in Cred : cred[c] # None => cred'[c] # None,
         \A c \in Cred : cred[c] = Removed => cred'[c] = Removed
  PROVE  Backed'
<1>1. \A x \in Exchange : exchange[x].is \in Stages => exchange[x].cred \in Cred
  BY InAStage DEF CeremonyTypes, ExchangeTypes, Running
<1> QED  BY <1>1 DEF Backed

(* One exchange goes on to a stage, or ends; the others stay backed.       *)
LEMMA BackedByOne ==
  ASSUME Apart, Backed, CeremonyTypes, NEW x \in Exchange, NEW e,
         exchange' = [exchange EXCEPT ![x] = e],
         \A c \in Cred : cred[c] # None => cred'[c] # None,
         \A c \in Cred : cred[c] = Removed => cred'[c] = Removed,
         e.is \in Stages =>
           /\ e.is \in Counting => cred'[e.cred] # None
           /\ e.late => /\ e.is \in {"user", "user written", "cred", "used"}
                        /\ cred'[e.cred] = Removed
  PROVE  Backed'
<1>1. \A y \in Exchange : exchange[y].is \in Stages => exchange[y].cred \in Cred
  BY InAStage DEF CeremonyTypes, ExchangeTypes, Running
<1>2. \A y \in Exchange : exchange'[y] = IF y = x THEN e ELSE exchange[y]
  BY DEF CeremonyTypes
<1>3. ASSUME NEW y \in Exchange, exchange'[y].is \in Stages
      PROVE  /\ exchange'[y].is \in Counting => cred'[exchange'[y].cred] # None
             /\ exchange'[y].late =>
                  /\ exchange'[y].is \in {"user", "user written", "cred", "used"}
                  /\ cred'[exchange'[y].cred] = Removed
  BY <1>1, <1>2, <1>3 DEF Backed
<1> QED  BY <1>3 DEF Backed

LEMMA RefusedBacked ==
  ASSUME Apart, Backed, CeremonyTypes, NEW x \in Exchange, A!Refused(x), UNCHANGED cred
  PROVE  Backed'
<1> DEFINE e == [[is |-> "idle"] EXCEPT !.is = "refused"]
<1>1. e.is \notin Stages
  BY DEF Stages
<1>2. exchange' = [exchange EXCEPT ![x] = e]
  BY DEF A!Refused, A!Idle
<1> HIDE DEF e
<1> QED  BY <1>1, <1>2, BackedByOne

LEMMA GoingBacked ==
  ASSUME Apart, Backed, CeremonyTypes, NEW x \in Exchange, NEW stage \in Stages,
         exchange[x] \in Running, A!Goes(x, stage),
         \A c \in Cred : cred[c] # None => cred'[c] # None,
         \A c \in Cred : cred[c] = Removed => cred'[c] = Removed,
         stage \in Counting => cred'[exchange[x].cred] # None,
         exchange[x].late => stage \in {"user", "user written", "cred", "used"}
  PROVE  Backed'
<1> DEFINE e == [exchange[x] EXCEPT !.is = stage]
<1>1. e.is = stage /\ e.cred = exchange[x].cred /\ e.late = exchange[x].late
  BY DEF Running
<1>2. exchange' = [exchange EXCEPT ![x] = e]
  BY DEF A!Goes, CeremonyTypes
<1>3. exchange[x].late => cred[exchange[x].cred] = Removed
  BY DEF Backed, Running
<1>4. exchange[x].cred \in Cred
  BY DEF Running
<1> HIDE DEF e
<1> QED  BY <1>1, <1>2, <1>3, <1>4, BackedByOne

LEMMA SteppingBacked ==
  ASSUME Apart, Backed, CeremonyTypes, CeremonyTypes', NEW x \in Exchange, Stepping(x)
  PROVE  Backed'
<1>1. exchange[x].is \in Stages => exchange[x] \in Running
  BY InAStage DEF ExchangeTypes, CeremonyTypes
<1>2. CASE A!Refused(x) /\ UNCHANGED cred
  BY <1>2, RefusedBacked
<1>3. CASE A!Claims(x)
  <2>1. exchange[x] \in Running /\ exchange[x].is = "claims" /\ UNCHANGED cred
    BY <1>1, <1>3 DEF A!Claims, Stages, A!memory
  <2> DEFINE e == [exchange[x] EXCEPT !.is = "spend",
                                      !.hands = pending[exchange[x].url].hands]
  <2>2. \/ A!Refused(x)
        \/ exchange' = [exchange EXCEPT ![x] = e]
    BY <1>3 DEF A!Claims, A!Resolve, CeremonyTypes
  <2>3. e.is = "spend" /\ e.cred = exchange[x].cred /\ e.late = exchange[x].late
    BY <2>1 DEF Running
  <2>4. ~exchange[x].late
    BY <2>1 DEF Backed, Stages
  <2> HIDE DEF e
  <2>5. CASE exchange' = [exchange EXCEPT ![x] = e]
    BY <2>1, <2>3, <2>4, <2>5, BackedByOne DEF Counting
  <2> QED  BY <1>2, <2>1, <2>2, <2>5
<1>4. CASE Spends(x)
  <2>1. exchange[x] \in Running /\ UNCHANGED cred
    BY <1>1, <1>4 DEF Spends, Stages
  <2> DEFINE e == [exchange[x] EXCEPT
                     !.is = IF exchange[x].op = "register" THEN "user" ELSE "used",
                     !.late = (cred[exchange[x].cred] = Removed)]
  <2>2. A!Refused(x) \/ exchange' = [exchange EXCEPT ![x] = e]
    BY <1>4 DEF Spends, CeremonyTypes
  <2>3. /\ e.is \in {"user", "used"} /\ e.cred = exchange[x].cred
        /\ e.late => cred[exchange[x].cred] = Removed
    BY <2>1 DEF Running
  <2> HIDE DEF e
  <2>4. CASE exchange' = [exchange EXCEPT ![x] = e]
    BY <2>1, <2>3, <2>4, BackedByOne DEF Counting
  <2> QED  BY <1>2, <2>1, <2>2, <2>4
<1>5. CASE A!ChecksOwner(x) /\ A!Goes(x, "spend")
  <2>1. exchange[x] \in Running /\ UNCHANGED cred /\ exchange[x].is = "owns"
    BY <1>1, <1>5 DEF A!ChecksOwner, Stages, A!memory
  <2>2. ~exchange[x].late
    BY <2>1 DEF Backed, Stages
  <2> QED  BY <1>5, <2>1, <2>2, GoingBacked DEF Stages, Counting
<1>6. CASE A!PutsCred(x) /\ exchange[x].is \in {"user", "cred"}
  <2> DEFINE c == exchange[x].cred
  <2>1. exchange[x] \in Running /\ c \in Cred /\ exchange[x].reading \in Nat
    BY <1>1, <1>6 DEF Stages, Running
  <2>2. CASE cred[c] = Removed
    BY <1>2, <1>6, <2>2 DEF A!PutsCred
  <2>3. CASE cred[c] # Removed
    <3>1. /\ cred' = [cred EXCEPT ![c] = exchange[x].reading]
          /\ A!Goes(x, "cred written")
      BY <1>6, <2>3 DEF A!PutsCred
    <3>2. \A d \in Cred : cred'[d] = IF d = c THEN exchange[x].reading ELSE cred[d]
      BY <2>1, <3>1 DEF CeremonyTypes
    <3>3. exchange[x].reading # None
      BY <2>1 DEF Apart
    <3>4. ~exchange[x].late
      BY <1>6, <2>1, <2>3 DEF Backed, Stages
    <3> QED  BY <2>1, <2>3, <3>1, <3>2, <3>3, <3>4, GoingBacked DEF Stages
  <2> QED  BY <2>2, <2>3
<1>7. CASE A!WritesUser(x) /\ A!Goes(x, "user written") /\ UNCHANGED cred
  BY <1>1, <1>7, GoingBacked DEF A!WritesUser, Stages, Counting
<1>8. CASE /\ exchange[x].is = "used" /\ cred[exchange[x].cred] # Removed
           /\ cred' = [cred EXCEPT ![exchange[x].cred] = exchange[x].reading]
           /\ A!Goes(x, "used written")
  <2> DEFINE c == exchange[x].cred
  <2>1. exchange[x] \in Running /\ c \in Cred /\ exchange[x].reading \in Nat
    BY <1>1, <1>8 DEF Stages, Running
  <2>2. /\ cred[c] # Removed /\ exchange[x].is = "used"
        /\ cred' = [cred EXCEPT ![c] = exchange[x].reading]
        /\ A!Goes(x, "used written")
    BY <1>8
  <2>3. \A d \in Cred : cred'[d] = IF d = c THEN exchange[x].reading ELSE cred[d]
    BY <2>1, <2>2 DEF CeremonyTypes
  <2>4. exchange[x].reading # None
    BY <2>1 DEF Apart
  <2>5. ~exchange[x].late
    BY <2>1, <2>2 DEF Backed, Stages
  <2> QED  BY <2>1, <2>2, <2>3, <2>4, <2>5, GoingBacked DEF Stages
<1>9. CASE \/ A!Grants(x)
           \/ A!Mints(x)
           \/ A!Commits(x) /\ exchange[x].is # "user written"
  <2>1. exchange[x] \in Running /\ UNCHANGED cred /\ exchange[x].is \in Counting
    BY <1>1, <1>9 DEF A!Grants, A!Mints, A!Commits, A!Written, A!memory, Stages, Counting
  <2>2. cred[exchange[x].cred] # None /\ ~exchange[x].late
    BY <2>1 DEF Backed, Stages, Counting
  <2>3. PICK stage \in Counting : A!Goes(x, stage)
    <3>1. CASE A!Grants(x) \/ A!Mints(x)
      BY <3>1 DEF A!Grants, A!Mints, Counting
    <3>2. CASE A!Commits(x) /\ exchange[x].is # "user written"
      <4>1. exchange[x].is = "cred written" => A!After(exchange[x].is, exchange[x].op) = "grant"
        BY DEF A!After
      <4>2. exchange[x].is = "used written"
              => A!After(exchange[x].is, exchange[x].op) \in {"grant", "mint"}
        BY DEF A!After
      <4>3. exchange[x].is = "grant written" => A!After(exchange[x].is, exchange[x].op) = "mint"
        BY DEF A!After
      <4>4. exchange[x].is = "mint written"
              => A!After(exchange[x].is, exchange[x].op) = "answered"
        BY DEF A!After
      <4>5. A!After(exchange[x].is, exchange[x].op) \in Counting
        BY <3>2, <4>1, <4>2, <4>3, <4>4 DEF A!Commits, A!Written, Counting
      <4> QED  BY <3>2, <4>5 DEF A!Commits
    <3> QED  BY <1>9, <3>1, <3>2
  <2>4. stage \in Stages
    BY DEF Stages, Counting
  <2> QED  BY <2>1, <2>2, <2>3, <2>4, GoingBacked
<1>10. CASE A!Commits(x) /\ exchange[x].is = "user written"
  <2>1. exchange[x] \in Running /\ UNCHANGED cred
    BY <1>1, <1>10 DEF A!Commits, A!memory, Stages
  <2>2. A!After(exchange[x].is, exchange[x].op) = "cred"
    BY <1>10 DEF A!After
  <2> QED  BY <1>10, <2>1, <2>2, GoingBacked DEF A!Commits, Stages, Counting
<1>11. \/ A!Refused(x) /\ UNCHANGED cred
       \/ A!Claims(x) \/ Spends(x)
       \/ A!ChecksOwner(x) /\ A!Goes(x, "spend")
       \/ A!PutsCred(x) /\ exchange[x].is \in {"user", "cred"}
       \/ A!WritesUser(x) /\ A!Goes(x, "user written") /\ UNCHANGED cred
       \/ /\ exchange[x].is = "used" /\ cred[exchange[x].cred] # Removed
          /\ cred' = [cred EXCEPT ![exchange[x].cred] = exchange[x].reading]
          /\ A!Goes(x, "used written")
       \/ A!Grants(x) \/ A!Mints(x) \/ A!Commits(x)
  <2>1. A!Used(x) =>
          \/ A!Refused(x) /\ UNCHANGED cred
          \/ /\ exchange[x].is = "used" /\ cred[exchange[x].cred] # Removed
             /\ cred' = [cred EXCEPT ![exchange[x].cred] = exchange[x].reading]
             /\ A!Goes(x, "used written")
    BY DEF A!Used, A!Stands
  <2>2. A!WritesUser(x) => \/ A!Refused(x) /\ UNCHANGED cred
                           \/ A!PutsCred(x) /\ exchange[x].is \in {"user", "cred"}
                           \/ A!WritesUser(x) /\ A!Goes(x, "user written") /\ UNCHANGED cred
    BY DEF A!WritesUser
  <2>3. A!WritesCred(x) => A!PutsCred(x) /\ exchange[x].is \in {"user", "cred"}
    BY DEF A!WritesCred
  <2>4. A!ChecksOwner(x) => \/ A!Refused(x) /\ UNCHANGED cred
                            \/ A!ChecksOwner(x) /\ A!Goes(x, "spend")
    BY DEF A!ChecksOwner, A!memory
  <2>5. Loses(x) \/ A!CommitFails(x) => A!Refused(x) /\ UNCHANGED cred
    BY DEF Loses, A!CommitFails, A!memory
  <2> QED  BY <2>1, <2>2, <2>3, <2>4, <2>5 DEF Stepping
<1> QED  BY <1>2, <1>3, <1>4, <1>5, <1>6, <1>7, <1>8, <1>9, <1>10, <1>11

LEMMA BackedStep ==
  ASSUME Apart, Backed, CeremonyTypes, CeremonyTypes', Ceremony
  PROVE  Backed'
<1>1. ASSUME UNCHANGED <<exchange, cred>> PROVE Backed'
  BY <1>1, BackedAsItWas
<1>2. ASSUME NEW u \in Url, NEW p \in {"create_user", "add_owner"}, NEW h \in BOOLEAN,
             Issues(u, p, h)
      PROVE  Backed'
  BY <1>1, <1>2 DEF Issues
<1>3. ASSUME NEW k \in Challenge, HandsOut(k) PROVE Backed'
  BY <1>1, <1>3 DEF HandsOut
<1>4. ASSUME NEW x \in Exchange, Beginning(x) PROVE Backed'
  <2>1. PICK e \in Begun : Starts(x, e)
    BY <1>4, BeginningStarts
  <2>2. e.is \notin Counting /\ ~e.late
    BY DEF Begun, Counting
  <2>3. exchange' = [exchange EXCEPT ![x] = e] /\ UNCHANGED cred
    BY <2>1 DEF Starts
  <2> QED  BY <2>2, <2>3, BackedByOne
<1>5. ASSUME NEW x \in Exchange, Stepping(x) PROVE Backed'
  BY <1>5, SteppingBacked
<1>6. ASSUME NEW t \in Task, Removing(t) PROVE Backed'
  <2>1. UNCHANGED exchange
    BY <1>6 DEF Removing, A!Revoke, A!Erase, A!TaskEnds, A!TaskGoesOn, A!TaskFails,
                A!RemoveCredential, A!FailFamily, A!PeerMarks
  <2>2. \/ UNCHANGED cred
        \/ \E c \in Cred : A!Stands(c) /\ cred' = A!Mark(cred, {c})
        \/ \E gs \in SUBSET Grant, cs \in SUBSET Cred, fs \in SUBSET Exchange :
             A!PeerMarks(t, gs, cs, fs) /\ cred' = A!Mark(cred, cs)
    BY <1>6 DEF Removing, A!Revoke, A!Erase, A!TaskEnds, A!TaskGoesOn, A!TaskFails,
                A!RemoveCredential, A!FailFamily, A!PeerMarks, A!memory
  <2>3. \A c \in Cred : cred'[c] \in {cred[c], Removed}
    BY <2>2 DEF A!Mark, CeremonyTypes
  <2> QED  BY <2>1, <2>3, BackedAsItWas DEF Apart
<1>7. ASSUME NEW c \in Cred, NEW reading \in 0..MaxCount, A!PeerUses(c, reading)
      PROVE  Backed'
  <2>1. /\ cred[c] # Removed /\ UNCHANGED exchange
        /\ \A d \in Cred : cred'[d] = IF d = c THEN reading ELSE cred[d]
    BY <1>7 DEF A!PeerUses, A!Stands, CeremonyTypes
  <2>2. reading # None
    BY DEF Apart
  <2> QED  BY <2>1, <2>2, BackedAsItWas
<1>8. ASSUME NEW n \in Conn, A!Close(n) PROVE Backed'
  BY <1>1, <1>8 DEF A!Close, A!memory
<1>9. ASSUME NEW n \in Conn, NEW x \in Exchange, A!Open(n, x) PROVE Backed'
  BY <1>1, <1>9 DEF A!Open, A!memory
<1>10. CASE A!Tick
  BY <1>1, <1>10 DEF A!Tick, A!memory
<1> QED  BY <1>2, <1>3, <1>4, <1>5, <1>6, <1>7, <1>8, <1>9, <1>10 DEF Ceremony

-----------------------------------------------------------------------------
(* While no removal that will close connections is on its way, and none    *)
(* was cut short, what is held open is admitted.  A removal is on its way  *)
(* from before its first mark until what it closes is closed.              *)
Closing(t) ==
  \/ task[t].is \in {"erase", "erasing"}
  \/ task[t].is = "keeping" /\ task[t].closes

Admitted ==
  ~skipped /\ (\A t \in Task : ~Closing(t))
    => \A n \in Conn : session[n] # None => family[session[n]] = "stands" /\ A!Owns

LEMMA AdmittedInit == A!Init \/ B!Init => Admitted
BY DEF A!Init, B!Init, Admitted

(* What leaves the removals alone, opens nothing and marks nothing.        *)
LEMMA AdmittedAsItWas ==
  ASSUME Admitted, CeremonyTypes, UNCHANGED <<task, skipped>>,
         \A n \in Conn : session'[n] \in {session[n], None},
         \A x \in Exchange : family[x] = "stands" => family'[x] = "stands",
         \A g \in Grant : grant[g] = "stands" => grant'[g] = "stands"
  PROVE  Admitted'
<1>1. \A t \in Task : Closing(t) <=> Closing(t)'
  BY DEF Closing
<1>2. A!Owns => A!Owns'
  BY DEF A!Owns
<1>3. skipped' = skipped
  OBVIOUS
<1> QED  BY <1>1, <1>2, <1>3 DEF Admitted, CeremonyTypes

LEMMA RemovingAdmitted ==
  ASSUME Admitted, CeremonyTypes, NEW t \in Task, Removing(t)
  PROVE  Admitted'
<1>1. ASSUME Closing(t)' PROVE Admitted'
  BY <1>1 DEF Admitted
<1>2. CASE A!Revoke(t) \/ A!Erase(t) \/ A!TaskGoesOn(t)
  <2>1. task'[t].is \in {"erase", "erasing"}
    <3>1. CASE A!Revoke(t)
      BY <3>1 DEF A!Revoke, CeremonyTypes
    <3>3. CASE A!Erase(t)
      <4>1. PICK e : e.is = "erasing" /\ task' = [task EXCEPT ![t] = e]
        BY <3>3 DEF A!Erase
      <4> QED  BY <4>1 DEF CeremonyTypes
    <3>2. CASE A!TaskGoesOn(t)
      <4>1. task[t] \in [is : {"erasing"}, left : SUBSET Grant]
        BY <3>2 DEF A!TaskGoesOn, CeremonyTypes, Removal, Ended
      <4> QED  BY <3>2, <4>1 DEF A!TaskGoesOn, CeremonyTypes
    <3> QED  BY <1>2, <3>1, <3>2, <3>3
  <2> QED  BY <1>1, <2>1 DEF Closing
<1>3. CASE A!TaskFails(t)
  BY <1>3 DEF A!TaskFails, Admitted
<1>4. ASSUME NEW gs \in SUBSET Grant, NEW cs \in SUBSET Cred, NEW fs \in SUBSET Exchange,
             A!PeerMarks(t, gs, cs, fs)
      PROVE  Admitted'
  <2>1. task'[t] = [is |-> "keeping", closes |-> TRUE]
    BY <1>4 DEF A!PeerMarks, CeremonyTypes
  <2> QED  BY <1>1, <2>1 DEF Closing
<1>5. ASSUME NEW x \in Exchange, A!FailFamily(t, x) PROVE Admitted'
  <2>1. task'[t] = [is |-> "keeping", closes |-> TRUE]
    BY <1>5 DEF A!FailFamily, CeremonyTypes
  <2> QED  BY <1>1, <2>1 DEF Closing
<1>6. ASSUME NEW c \in Cred, A!RemoveCredential(t, c) PROVE Admitted'
  <2>1. /\ task[t] = [is |-> "idle"] /\ UNCHANGED <<grant, family, session, skipped>>
        /\ task' = [task EXCEPT ![t] = [is |-> "keeping", closes |-> FALSE]]
    BY <1>6 DEF A!RemoveCredential, A!Idle
  <2>2. \A s \in Task : Closing(s)' <=> Closing(s)
    BY <2>1 DEF Closing, CeremonyTypes
  <2>3. A!Owns' <=> A!Owns
    BY <2>1 DEF A!Owns
  <2> QED  BY <2>1, <2>2, <2>3 DEF Admitted
<1>7. CASE A!TaskEnds(t)
  <2>1. CASE A!Closed
    BY <2>1 DEF A!Closed, Admitted
  <2>2. CASE /\ task[t].is = "keeping" /\ ~task[t].closes
             /\ UNCHANGED session
    <3>1. /\ task' = [task EXCEPT ![t] = [is |-> "idle"]]
          /\ UNCHANGED <<grant, family, session, skipped>>
      BY <1>7, <2>2 DEF A!TaskEnds, A!Idle, A!memory
    <3>2. \A s \in Task : Closing(s)' <=> Closing(s)
      BY <2>2, <3>1 DEF Closing, CeremonyTypes
    <3>3. A!Owns' <=> A!Owns
      BY <3>1 DEF A!Owns
    <3> QED  BY <3>1, <3>2, <3>3 DEF Admitted
  <2> QED  BY <1>7, <2>1, <2>2 DEF A!TaskEnds
<1> QED  BY <1>2, <1>3, <1>4, <1>5, <1>6, <1>7 DEF Removing

LEMMA AdmittedStep ==
  ASSUME Apart, Admitted, CeremonyTypes, CeremonyTypes', Ceremony
  PROVE  Admitted'
<1>1. ASSUME UNCHANGED <<task, skipped, session, family, grant>> PROVE Admitted'
  <2>1. \A n \in Conn : session'[n] \in {session[n], None}
    BY <1>1
  <2> QED  BY <1>1, <2>1, AdmittedAsItWas
<1>2. ASSUME NEW u \in Url, NEW p \in {"create_user", "add_owner"}, NEW h \in BOOLEAN,
             Issues(u, p, h)
      PROVE  Admitted'
  BY <1>1, <1>2 DEF Issues
<1>3. ASSUME NEW k \in Challenge, HandsOut(k) PROVE Admitted'
  BY <1>1, <1>3 DEF HandsOut
<1>4. ASSUME NEW x \in Exchange, Beginning(x) PROVE Admitted'
  BY <1>1, <1>4, BeginningStarts DEF Starts
<1>5. ASSUME NEW x \in Exchange, A!Grants(x) PROVE Admitted'
  <2>1. UNCHANGED <<task, skipped, session, family>>
    BY <1>5 DEF A!Grants
  <2>2. \A g \in Grant : grant[g] = "stands" => grant'[g] = "stands"
    BY <1>5 DEF A!Grants, CeremonyTypes
  <2> QED  BY <2>1, <2>2, AdmittedAsItWas
<1>6. ASSUME NEW x \in Exchange, A!Mints(x) PROVE Admitted'
  <2>1. UNCHANGED <<task, skipped, session, grant>>
    BY <1>6 DEF A!Mints
  <2>2. \A y \in Exchange : family[y] = "stands" => family'[y] = "stands"
    BY <1>6 DEF A!Mints, CeremonyTypes
  <2> QED  BY <2>1, <2>2, AdmittedAsItWas
<1>7. ASSUME NEW x \in Exchange,
             \/ A!Claims(x) \/ Loses(x) \/ A!ChecksOwner(x) \/ Spends(x) \/ A!WritesUser(x)
             \/ A!WritesCred(x) \/ A!Used(x) \/ A!Commits(x) \/ A!CommitFails(x)
      PROVE  Admitted'
  BY <1>1, <1>7 DEF A!Claims, Loses, A!ChecksOwner, Spends, A!WritesUser, A!WritesCred, A!Used,
                    A!Commits, A!CommitFails, A!memory
<1>8. ASSUME NEW t \in Task, Removing(t) PROVE Admitted'
  BY <1>8, RemovingAdmitted
<1>9. ASSUME NEW c \in Cred, NEW reading \in 0..MaxCount, A!PeerUses(c, reading)
      PROVE  Admitted'
  BY <1>1, <1>9 DEF A!PeerUses
<1>10. ASSUME NEW n \in Conn, A!Close(n) PROVE Admitted'
  <2>1. UNCHANGED <<task, skipped, family, grant>>
    BY <1>10 DEF A!Close, A!memory
  <2>2. \A m \in Conn : session'[m] \in {session[m], None}
    BY <1>10 DEF A!Close, CeremonyTypes
  <2> QED  BY <2>1, <2>2, AdmittedAsItWas
<1>11. ASSUME NEW n \in Conn, NEW x \in Exchange, A!Open(n, x) PROVE Admitted'
  <2>1. /\ family[x] = "stands" /\ A!Owns /\ UNCHANGED <<task, skipped, family, grant>>
        /\ \A m \in Conn : session'[m] = IF m = n THEN x ELSE session[m]
    BY <1>11 DEF A!Open, A!memory, CeremonyTypes
  <2>2. A!Owns' /\ \A t \in Task : Closing(t)' <=> Closing(t)
    BY <2>1 DEF A!Owns, Closing
  <2> QED  BY <2>1, <2>2 DEF Admitted
<1>12. CASE A!Tick
  BY <1>1, <1>12 DEF A!Tick, A!memory
<1> QED  BY <1>2, <1>3, <1>4, <1>5, <1>6, <1>7, <1>8, <1>9, <1>10, <1>11, <1>12
         DEF Ceremony, Stepping

-----------------------------------------------------------------------------
(* The ceremonies of MCAuth, with the URLs and challenges of either        *)
(* instance.                                                               *)
InCeremonies == machine \in {"ceremonies", "abroad"}

CeremoniesHold ==
  InCeremonies => CeremonyTypes /\ Spent /\ Counted /\ Backed /\ Admitted

LEMMA CeremoniesBegin == Apart /\ MCInit => CeremoniesHold
<1> SUFFICES ASSUME Apart, MCInit PROVE CeremoniesHold
  OBVIOUS
<1>1. InCeremonies => A!Init \/ B!Init
  BY DEF MCInit, InitRecords, InitTokens, InitCeremonies, InitAbroad, InCeremonies
<1> QED
  BY <1>1, CeremonyInitTypes, SpentInit, CountedInit, AdmittedInit DEF CeremoniesHold

LEMMA CeremoniesStay == Apart /\ CeremoniesHold /\ [MCNext]_MCvars => CeremoniesHold'
<1> SUFFICES ASSUME Apart, CeremoniesHold, [MCNext]_MCvars, InCeremonies'
             PROVE  CeremonyTypes' /\ Spent' /\ Counted' /\ Backed' /\ Admitted'
  BY DEF CeremoniesHold
<1>1. CASE A!Next \/ B!Next
  <2>1. InCeremonies
    BY DEF InCeremonies, MCNext, MCvars, OnlyRecords, OnlyTokens, OnlyCeremonies, OnlyAbroad
  <2>2. Ceremony
    BY <1>1, StepIsCeremony
  <2>3. CeremonyTypes'
    BY <2>1, <2>2, CeremonyStepTypes DEF CeremoniesHold
  <2> QED
    BY <2>1, <2>2, <2>3, SpentStep, CountedStep, BackedStep, AdmittedStep DEF CeremoniesHold
<1>2. CASE UNCHANGED MCvars
  <2>1. CeremonyTypes /\ Spent /\ Counted /\ Backed /\ Admitted
    BY <1>2 DEF MCvars, InCeremonies, CeremoniesHold
  <2>2. CeremonyTypes' /\ Spent' /\ Counted' /\ Backed'
    <3>1. CeremonyTypes'
      BY <1>2, <2>1 DEF MCvars, CeremonyTypes
    <3>2. Spent'
      BY <1>2, <2>1 DEF MCvars, Spent
    <3>3. Counted'
      BY <1>2, <2>1 DEF MCvars, Counted
    <3>4. Backed'
      BY <1>2, <2>1 DEF MCvars, Backed
    <3> QED  BY <3>1, <3>2, <3>3, <3>4
  <2>3. Admitted'
    <3>1. UNCHANGED <<task, skipped>>
      BY <1>2 DEF MCvars
    <3>2. UNCHANGED session /\ UNCHANGED family /\ UNCHANGED grant
      BY <1>2 DEF MCvars
    <3>3. \A n \in Conn : session'[n] \in {session[n], None}
      BY <3>2
    <3> QED  BY <2>1, <3>1, <3>2, <3>3, AdmittedAsItWas
  <2> QED  BY <2>2, <2>3
<1>3. \/ OnlyCeremonies /\ A!Next
      \/ OnlyAbroad /\ B!Next
      \/ UNCHANGED MCvars
  BY DEF MCNext, OnlyRecords, OnlyTokens, InCeremonies
<1> QED  BY <1>1, <1>2, <1>3

(* A URL lets one exchange through and a challenge one, wrong codes run    *)
(* out, and the readings that let exchanges through advance, for any       *)
(* exchanges side by side, at the issuer or away from it (resolveEnrolment,*)
(* spend, #used).                                                          *)
THEOREM CodesLetOneThrough == Apart => (MCSpec => []PassedOnce)
<1> SUFFICES ASSUME Apart PROVE MCSpec => []PassedOnce
  OBVIOUS
<1>1. ASSUME CeremonyTypes, Spent PROVE A!SpentOnce
  <2>1. ASSUME NEW p \in passed, NEW q \in passed, p[1] \in {"url", "challenge"},
               p[1] = q[1], p[2] = q[2]
        PROVE  p = q
    <3>1. CASE p[1] = "url"
      <4>1. /\ p \in {"url"} \X Url \X Exchange
            /\ q \in {"url"} \X Url \X Exchange
        BY <1>1, <2>1, <3>1 DEF CeremonyTypes, Apart
      <4> QED  BY <1>1, <2>1, <4>1 DEF Spent
    <3>2. CASE p[1] = "challenge"
      <4>1. /\ p \in {"challenge"} \X Challenge \X Exchange
            /\ q \in {"challenge"} \X Challenge \X Exchange
        BY <1>1, <2>1, <3>2 DEF CeremonyTypes, Apart
      <4> QED  BY <1>1, <2>1, <4>1 DEF Spent
    <3> QED  BY <2>1, <3>1, <3>2
  <2>2. \A u \in Url : wrong[u] <= CODE_ATTEMPTS
    BY <1>1 DEF Spent
  <2>3. \A u \in Url : wrong[u] = CODE_ATTEMPTS => pending[u] = None
    BY <1>1 DEF Spent, CeremonyTypes, Apart
  <2> QED  BY <2>1, <2>2, <2>3 DEF A!SpentOnce
<1>2. CeremoniesHold => PassedOnce
  BY <1>1 DEF CeremoniesHold, InCeremonies, PassedOnce, A!CountersAdvance, Counted
<1> QED  BY <1>2, CeremoniesBegin, CeremoniesStay, PTL DEF MCSpec

(* A session is answered over a passkey that was written down and was not  *)
(* removed before its challenge was spent, and what is held open is        *)
(* admitted once every removal is through, for any exchanges and removals  *)
(* side by side (register, #used, disconnect, merge).                      *)
THEOREM SessionsHaveTheirPasskey == Apart => (MCSpec => []SessionsAreBacked)
<1> SUFFICES ASSUME Apart PROVE MCSpec => []SessionsAreBacked
  OBVIOUS
<1>1. Backed => A!AnsweredIsBacked
  BY DEF Backed, A!AnsweredIsBacked, Stages, Counting
<1>2. Admitted => A!HeldIsAdmitted
  <2>1. (\A t \in Task : task[t] = A!Idle) => \A t \in Task : ~Closing(t)
    BY DEF Closing, A!Idle
  <2> QED  BY <2>1 DEF Admitted, A!HeldIsAdmitted
<1>3. CeremoniesHold => SessionsAreBacked
  BY <1>1, <1>2 DEF CeremoniesHold, InCeremonies, SessionsAreBacked
<1> QED  BY <1>3, CeremoniesBegin, CeremoniesStay, PTL DEF MCSpec

-----------------------------------------------------------------------------
(* The records two instances share, for any keys, any number of writes and *)
(* troubles, and any lifetimes.                                            *)

(* Two instances, what stands for no record is none, and what the lengths  *)
(* of time in the code are to each other: the mark over a family is kept   *)
(* for as long as a family lasts (FAMILY_TOMBSTONE_RETENTION_MS, "the same *)
(* seven days", and REFRESH_TTL_MS, seven days).                           *)
RecordsApart ==
  /\ \E a, b \in Inst : a # b /\ Inst = {a, b}
  /\ RecordsTime \in Nat /\ Life \in Nat \ {0} /\ Retention \in Nat /\ Life <= Retention
  /\ Lasting \cap Family = {} /\ NoRecord \notin R!Record

(* A document that waits, of which each record it will tell is there, and  *)
(* a frame.                                                                *)
Document ==
  {b \in [doc : R!Set, tells : SUBSET R!Key] : \A k \in b.tells : b.doc[k] # NoRecord}

Frame == UNION {[D -> R!Record] : D \in SUBSET R!Key}

RecordTypes ==
  /\ now \in 0..RecordsTime
  /\ up \subseteq Inst /\ linked \in BOOLEAN
  /\ mem \in [Inst -> R!Set] /\ disk \in [Inst -> R!Set]
  /\ chain \in [Inst -> Seq(Document)] /\ wire \in [Inst -> Seq(Frame)]
  /\ taken \subseteq R!Key /\ marked \in [Inst -> SUBSET R!Key]
  /\ apart \subseteq R!Key /\ early \subseteq R!Key

(* An instance that is gone has nothing to write, and where no link stands *)
(* nothing is on its way.                                                  *)
Quiet ==
  /\ \A i \in Inst : i \notin up => chain[i] = <<>>
  /\ ~linked => \A i \in Inst : wire[i] = <<>>
  /\ linked => up = Inst

(* A record in the documents of a chain, to be told by one of them, in the *)
(* frames of a wire.                                                       *)
Waits(c, r, k) == \E n \in 1..Len(c) : c[n].doc[k] = r
Tells(c, r, k) == \E n \in 1..Len(c) : k \in c[n].tells /\ c[n].doc[k] = r
Sent(w, r, k) == \E n \in 1..Len(w) : k \in DOMAIN w[n] /\ w[n][k] = r

(* A record that is anywhere, and one an instance will tell or has told.   *)
Anywhere(r, k) ==
  \E i \in Inst : \/ mem[i][k] = r \/ disk[i][k] = r
                  \/ Waits(chain[i], r, k) \/ Sent(wire[i], r, k)

OnWay(r, i, k) == Tells(chain[i], r, k) \/ Sent(wire[i], r, k)

(* What is anywhere was written; it lasts for ever, or as long as a family *)
(* may from now, and not past the mark over it.                            *)
WasWritten == \A k \in R!Key, r \in R!Record : Anywhere(r, k) => k \in taken

Lasts ==
  \A k \in R!Key, r \in R!Record : Anywhere(r, k) =>
    /\ k \in Lasting => r.till = R!Never
    /\ k \in Family /\ ~r.mark => r.till <= now + Life

MarkOutlasts ==
  \A k \in Family \ apart, r \in R!Record, m \in R!Record :
    Anywhere(r, k) /\ Anywhere(m, k) /\ ~r.mark /\ m.mark => r.till <= m.till

(* The mark over a family that an instance wrote down or told, it has or   *)
(* has outlived; what it has in its file it knows to be marked.            *)
MarkIsHeld ==
  \A i \in Inst, k \in R!Key, m \in R!Record : m.mark =>
    /\ k \in Family /\ (Waits(chain[i], m, k) \/ Sent(wire[i], m, k)) =>
         m.till <= now \/ mem[i][k] = m
    /\ disk[i][k] = m => k \in marked[i]

(* Behind a mark are marks, or of a family nothing that lasts.             *)
AllOver(k) ==
  k \in taken /\ \A r \in R!Record : Anywhere(r, k) => r.mark \/ r.till <= now

Holds(r, k) == R!IsMark(r) \/ (k \in Family /\ (k \in apart \/ AllOver(k)))

MarksStay ==
  \A i \in Inst, k \in R!Key :
    /\ k \in marked[i] =>
         /\ Holds(disk[i][k], k)
         /\ i \in up => Holds(mem[i][k], k)
         /\ \A n \in 1..Len(chain[i]) : Holds(chain[i][n].doc[k], k)
    /\ \A n \in 1..Len(chain[i]) : R!IsMark(chain[i][n].doc[k]) =>
         /\ Holds(mem[i][k], k)
         /\ \A m \in n..Len(chain[i]) : Holds(chain[i][m].doc[k], k)

(* A record is another, or came after it and lasts as long; and only a     *)
(* mark comes after a mark.                                                *)
After(h, r) ==
  h # NoRecord /\ (h = r \/ (r.at < h.at /\ (r.mark => h.mark) /\ r.till <= h.till))

(* What an instance tells it has, or has something later.                  *)
TellsWhatItHas ==
  \A i \in Inst, k \in R!Key \ (apart \cup early), r \in R!Record :
    OnWay(r, i, k) /\ r.till > now => After(mem[i][k], r)

(* While the link stands, what one instance has the other has, has         *)
(* something later, or will be told.                                       *)
WillBeTold ==
  linked => \A i, j \in Inst, k \in R!Key \ (apart \cup early) :
    mem[i][k] # NoRecord /\ mem[i][k].till > now =>
      After(mem[j][k], mem[i][k]) \/ OnWay(mem[i][k], i, k)

MarksHold ==
  RecordTypes /\ Quiet /\ WasWritten /\ Lasts /\ MarkOutlasts /\ MarkIsHeld /\ MarksStay

RecordsHold == MarksHold /\ TellsWhatItHas /\ WillBeTold

-----------------------------------------------------------------------------
(* The sequences of documents and frames.                                    *)
LEMMA AppendIs ==
  ASSUME NEW X, NEW s \in Seq(X), NEW e \in X
  PROVE  /\ Append(s, e) \in Seq(X)
         /\ Len(Append(s, e)) = Len(s) + 1 /\ Len(s) \in Nat
         /\ \A n \in 1..Len(s) : Append(s, e)[n] = s[n]
         /\ Append(s, e)[Len(s) + 1] = e
BY AppendProperties, LenProperties

LEMMA TailIs ==
  ASSUME NEW X, NEW s \in Seq(X), s # <<>>
  PROVE  /\ Tail(s) \in Seq(X) /\ Head(s) = s[1] /\ Head(s) \in X
         /\ Len(s) \in Nat /\ Len(s) > 0 /\ Len(Tail(s)) = Len(s) - 1
         /\ \A n \in 1..Len(Tail(s)) : n + 1 \in 1..Len(s) /\ Tail(s)[n] = s[n + 1]
         /\ \A n \in 2..Len(s) : n - 1 \in 1..Len(Tail(s)) /\ Tail(s)[n - 1] = s[n]
<1>1. /\ Tail(s) \in Seq(X) /\ Head(s) = s[1] /\ Len(Tail(s)) = Len(s) - 1
      /\ \A n \in 1..Len(Tail(s)) : Tail(s)[n] = s[n + 1]
  BY HeadTailProperties
<1>2. Len(s) \in Nat /\ Len(s) > 0
  BY EmptySeq, LenProperties
<1>3. s[1] \in X
  BY <1>2, ElementOfSeq
<1> QED  BY <1>1, <1>2, <1>3

(* What a document or a frame behind the others adds, and what the first   *)
(* takes away.                                                             *)
LEMMA BehindDocuments ==
  ASSUME NEW c \in Seq(Document), NEW b \in Document, NEW r, NEW k
  PROVE  /\ Append(c, b) \in Seq(Document)
         /\ Waits(Append(c, b), r, k) <=> Waits(c, r, k) \/ b.doc[k] = r
         /\ Tells(Append(c, b), r, k) <=> Tells(c, r, k) \/ (k \in b.tells /\ b.doc[k] = r)
<1> DEFINE d == Append(c, b)
<1>1. /\ d \in Seq(Document) /\ Len(d) = Len(c) + 1 /\ Len(c) \in Nat
      /\ \A n \in 1..Len(c) : d[n] = c[n]
      /\ d[Len(c) + 1] = b
  BY AppendIs
<1> HIDE DEF d
<1>2. \A n \in 1..Len(d) : n \in 1..Len(c) \/ n = Len(c) + 1
  BY <1>1
<1>3. 1..Len(c) \subseteq 1..Len(d) /\ Len(c) + 1 \in 1..Len(d)
  BY <1>1
<1>4. Waits(d, r, k) <=> Waits(c, r, k) \/ b.doc[k] = r
  BY <1>1, <1>2, <1>3, Zenon DEF Waits
<1>5. Tells(d, r, k) <=> Tells(c, r, k) \/ (k \in b.tells /\ b.doc[k] = r)
  BY <1>1, <1>2, <1>3, Zenon DEF Tells
<1> QED  BY <1>1, <1>4, <1>5 DEF d

LEMMA BehindFrames ==
  ASSUME NEW w \in Seq(Frame), NEW f \in Frame, NEW r, NEW k
  PROVE  /\ Append(w, f) \in Seq(Frame)
         /\ Sent(Append(w, f), r, k) <=> Sent(w, r, k) \/ (k \in DOMAIN f /\ f[k] = r)
<1> DEFINE d == Append(w, f)
<1>1. /\ d \in Seq(Frame) /\ Len(d) = Len(w) + 1 /\ Len(w) \in Nat
      /\ \A n \in 1..Len(w) : d[n] = w[n]
      /\ d[Len(w) + 1] = f
  BY AppendIs
<1> HIDE DEF d
<1>2. \A n \in 1..Len(d) : n \in 1..Len(w) \/ n = Len(w) + 1
  BY <1>1
<1>3. 1..Len(w) \subseteq 1..Len(d) /\ Len(w) + 1 \in 1..Len(d)
  BY <1>1
<1>4. Sent(d, r, k) <=> Sent(w, r, k) \/ (k \in DOMAIN f /\ f[k] = r)
  BY <1>1, <1>2, <1>3, Zenon DEF Sent
<1> QED  BY <1>1, <1>4 DEF d

LEMMA WithoutFirstDocument ==
  ASSUME NEW c \in Seq(Document), c # <<>>, NEW r, NEW k
  PROVE  /\ Head(c) \in Document /\ Tail(c) \in Seq(Document)
         /\ Waits(Tail(c), r, k) => Waits(c, r, k)
         /\ Head(c).doc[k] = r => Waits(c, r, k)
         /\ Tells(Tail(c), r, k) => Tells(c, r, k)
         /\ Tells(c, r, k) => Tells(Tail(c), r, k) \/ (k \in Head(c).tells /\ Head(c).doc[k] = r)
         /\ k \in Head(c).tells /\ Head(c).doc[k] = r => Tells(c, r, k)
<1> DEFINE d == Tail(c)
<1>1. /\ d \in Seq(Document) /\ Head(c) = c[1] /\ Head(c) \in Document
      /\ Len(c) \in Nat /\ Len(c) > 0
      /\ \A n \in 1..Len(d) : n + 1 \in 1..Len(c) /\ d[n] = c[n + 1]
      /\ \A n \in 2..Len(c) : n - 1 \in 1..Len(d) /\ d[n - 1] = c[n]
  BY TailIs
<1> HIDE DEF d
<1>2. 1 \in 1..Len(c) /\ \A n \in 1..Len(c) : n = 1 \/ n \in 2..Len(c)
  BY <1>1
<1>3. Waits(d, r, k) => Waits(c, r, k)
  BY <1>1, Zenon DEF Waits
<1>4. Head(c).doc[k] = r => Waits(c, r, k)
  BY <1>1, <1>2, Zenon DEF Waits
<1>5. Tells(d, r, k) => Tells(c, r, k)
  BY <1>1, Zenon DEF Tells
<1>6. Tells(c, r, k) => Tells(d, r, k) \/ (k \in Head(c).tells /\ Head(c).doc[k] = r)
  <2> SUFFICES ASSUME NEW n \in 1..Len(c), k \in c[n].tells, c[n].doc[k] = r
               PROVE  Tells(d, r, k) \/ (k \in Head(c).tells /\ Head(c).doc[k] = r)
    BY DEF Tells
  <2>1. CASE n = 1
    BY <1>1, <2>1
  <2>2. CASE n \in 2..Len(c)
    <3>1. n - 1 \in 1..Len(d) /\ d[n - 1] = c[n]
      BY <1>1, <2>2
    <3> QED  BY <3>1 DEF Tells
  <2> QED  BY <1>2, <2>1, <2>2
<1>7. k \in Head(c).tells /\ Head(c).doc[k] = r => Tells(c, r, k)
  BY <1>1, <1>2, Zenon DEF Tells
<1> QED  BY <1>1, <1>3, <1>4, <1>5, <1>6, <1>7 DEF d

LEMMA WithoutFirstFrame ==
  ASSUME NEW w \in Seq(Frame), w # <<>>, NEW r, NEW k
  PROVE  /\ Head(w) \in Frame /\ Tail(w) \in Seq(Frame)
         /\ Sent(Tail(w), r, k) => Sent(w, r, k)
         /\ k \in DOMAIN Head(w) /\ Head(w)[k] = r => Sent(w, r, k)
         /\ Sent(w, r, k) => Sent(Tail(w), r, k) \/ (k \in DOMAIN Head(w) /\ Head(w)[k] = r)
<1> DEFINE d == Tail(w)
<1>1. /\ d \in Seq(Frame) /\ Head(w) = w[1] /\ Head(w) \in Frame
      /\ Len(w) \in Nat /\ Len(w) > 0
      /\ \A n \in 1..Len(d) : n + 1 \in 1..Len(w) /\ d[n] = w[n + 1]
      /\ \A n \in 2..Len(w) : n - 1 \in 1..Len(d) /\ d[n - 1] = w[n]
  BY TailIs
<1> HIDE DEF d
<1>2. 1 \in 1..Len(w) /\ \A n \in 1..Len(w) : n = 1 \/ n \in 2..Len(w)
  BY <1>1
<1>3. Sent(d, r, k) => Sent(w, r, k)
  BY <1>1, Zenon DEF Sent
<1>4. k \in DOMAIN Head(w) /\ Head(w)[k] = r => Sent(w, r, k)
  BY <1>1, <1>2, Zenon DEF Sent
<1>5. Sent(w, r, k) => Sent(d, r, k) \/ (k \in DOMAIN Head(w) /\ Head(w)[k] = r)
  BY <1>1, <1>2, Zenon DEF Sent
<1> QED  BY <1>1, <1>3, <1>4, <1>5 DEF d

LEMMA NothingWaits ==
  ASSUME NEW r, NEW k
  PROVE  ~Waits(<<>>, r, k) /\ ~Tells(<<>>, r, k) /\ ~Sent(<<>>, r, k)
BY DEF Waits, Tells, Sent

LEMMA DocumentIs ==
  ASSUME NEW b \in Document
  PROVE  /\ b.doc \in R!Set /\ b.tells \subseteq R!Key
         /\ \A k \in R!Key : b.doc[k] \in R!Record \cup {NoRecord}
         /\ \A k \in b.tells : RecordsApart => b.doc[k] \in R!Record
BY DEF Document, R!Set, RecordsApart

LEMMA FrameIs ==
  ASSUME NEW f \in Frame
  PROVE  DOMAIN f \subseteq R!Key /\ \A k \in DOMAIN f : f[k] \in R!Record
BY DEF Frame

-----------------------------------------------------------------------------
(* A record that is there and has not run out.                             *)
Lives(r) == r # NoRecord /\ r.till > now

LEMMA ExpireIs ==
  ASSUME RecordsApart, now \in Nat, NEW S \in R!Set
  PROVE  /\ R!Expire(S) \in R!Set
         /\ \A k \in R!Key :
              /\ Lives(S[k]) => R!Expire(S)[k] = S[k]
              /\ ~Lives(S[k]) => R!Expire(S)[k] = NoRecord
<1>1. \A k \in R!Key : S[k] \in R!Record \cup {NoRecord}
  BY DEF R!Set
<1>2. \A k \in R!Key : S[k] # NoRecord => S[k].till \in Nat
  BY <1>1 DEF R!Record
<1>3. \A k \in R!Key : S[k] # NoRecord => (S[k].till > now <=> ~(S[k].till <= now))
  BY <1>2
<1> QED  BY <1>1, <1>3 DEF R!Expire, R!Set, R!Over, Lives

(* A document is kept: memory has it, and it waits behind the others.      *)
LEMMA KeepIs ==
  ASSUME RecordsApart, RecordTypes, NEW i \in Inst, NEW S \in R!Set, NEW T \in SUBSET R!Key,
         R!Keep(i, S, T), \A k \in T : Lives(S[k])
  PROVE  /\ mem' \in [Inst -> R!Set] /\ chain' \in [Inst -> Seq(Document)]
         /\ \A j \in Inst \ {i} : mem'[j] = mem[j] /\ chain'[j] = chain[j]
         /\ \A k \in R!Key : /\ Lives(S[k]) => mem'[i][k] = S[k]
                             /\ ~Lives(S[k]) => mem'[i][k] = NoRecord
         /\ \E b \in Document : b.doc = mem'[i] /\ b.tells = T /\ chain'[i] = Append(chain[i], b)
<1> DEFINE D == R!Expire(S)
           b == [doc |-> D, tells |-> T]
<1>0. now \in Nat
  BY DEF RecordTypes, RecordsApart
<1>1. /\ D \in R!Set
      /\ \A k \in R!Key : /\ Lives(S[k]) => D[k] = S[k]
                          /\ ~Lives(S[k]) => D[k] = NoRecord
  BY <1>0, ExpireIs
<1>2. mem' = [mem EXCEPT ![i] = D] /\ chain' = [chain EXCEPT ![i] = Append(chain[i], b)]
  BY DEF R!Keep
<1> HIDE DEF D
<1>3. b \in Document
  BY <1>1 DEF Document, Lives
<1>4. b.doc = D /\ b.tells = T
  OBVIOUS
<1> HIDE DEF b
<1>5. mem \in [Inst -> R!Set] /\ chain \in [Inst -> Seq(Document)]
  BY DEF RecordTypes
<1>6. chain[i] \in Seq(Document)
  BY <1>5
<1>7. Append(chain[i], b) \in Seq(Document)
  BY <1>3, <1>6, AppendIs
<1> QED  BY <1>1, <1>2, <1>3, <1>4, <1>5, <1>7

-----------------------------------------------------------------------------
(* What is written is never longer than it may be, and never longer than   *)
(* the mark over it: where nothing new is, and where one record is.        *)
LEMMA NothingNew ==
  ASSUME RecordsApart, RecordTypes, now' \in Nat, now <= now',
         WasWritten, Lasts, MarkOutlasts,
         taken' = taken, apart \subseteq apart',
         \A k \in R!Key, r \in R!Record : Anywhere(r, k)' => Anywhere(r, k)
  PROVE  /\ WasWritten' /\ Lasts' /\ MarkOutlasts'
         /\ \A k \in R!Key : \A r : Holds(r, k) => Holds(r, k)'
<1> USE DEF RecordTypes, RecordsApart
<1>1. WasWritten'
  BY DEF WasWritten
<1>2. Lasts'
  <2> SUFFICES ASSUME NEW k \in R!Key, NEW r \in R!Record, Anywhere(r, k)'
               PROVE  /\ k \in Lasting => r.till = R!Never
                      /\ k \in Family /\ ~r.mark => r.till <= now' + Life
    BY DEF Lasts, R!Never
  <2>1. /\ k \in Lasting => r.till = R!Never
        /\ k \in Family /\ ~r.mark => r.till <= now + Life
    BY DEF Lasts
  <2>2. r.till \in Nat /\ Life \in Nat
    BY DEF R!Record, RecordsApart
  <2> QED  BY <2>1, <2>2
<1>3. MarkOutlasts'
  BY DEF MarkOutlasts, R!Key
<1>4. ASSUME NEW k \in R!Key, AllOver(k) PROVE AllOver(k)'
  <2>1. \A r \in R!Record : Anywhere(r, k)' => r.mark \/ r.till <= now'
    <3> SUFFICES ASSUME NEW r \in R!Record, Anywhere(r, k)' PROVE r.mark \/ r.till <= now'
      OBVIOUS
    <3>1. r.mark \/ r.till <= now
      BY <1>4 DEF AllOver
    <3>2. r.till \in Nat
      BY DEF R!Record
    <3> QED  BY <3>1, <3>2
  <2> QED  BY <1>4, <2>1 DEF AllOver
<1>5. \A k \in R!Key : \A r : Holds(r, k) => Holds(r, k)'
  BY <1>4 DEF Holds
<1> QED  BY <1>1, <1>2, <1>3, <1>5

LEMMA OneNew ==
  ASSUME RecordsApart, RecordTypes, now' = now,
         WasWritten, Lasts, MarkOutlasts,
         NEW n \in R!Key, NEW w \in R!Record,
         taken' = taken \cup {n}, apart \subseteq apart',
         \A k \in R!Key, r \in R!Record : Anywhere(r, k)' => Anywhere(r, k) \/ (k = n /\ r = w),
         n \in Lasting => w.till = R!Never,
         n \in Family /\ ~w.mark => w.till <= now + Life,
         n \in Family \ apart' => \A r \in R!Record : Anywhere(r, n) =>
           /\ w.mark => r.mark \/ r.till <= w.till
           /\ ~w.mark => ~r.mark,
         AllOver(n) => w.mark
  PROVE  /\ WasWritten' /\ Lasts' /\ MarkOutlasts'
         /\ \A k \in R!Key : \A r : Holds(r, k) => Holds(r, k)'
<1>1. WasWritten'
  BY DEF WasWritten
<1>2. Lasts'
  BY DEF Lasts, R!Never
<1>3. MarkOutlasts'
  <2> SUFFICES ASSUME NEW k \in Family \ apart', NEW r \in R!Record, NEW m \in R!Record,
                      Anywhere(r, k)', Anywhere(m, k)', ~r.mark, m.mark
               PROVE  r.till <= m.till
    BY DEF MarkOutlasts
  <2>1. k \in R!Key /\ k \notin apart
    BY DEF R!Key
  <2>2. /\ Anywhere(r, k) \/ (k = n /\ r = w)
        /\ Anywhere(m, k) \/ (k = n /\ m = w)
    BY <2>1
  <2>3. CASE Anywhere(r, k) /\ Anywhere(m, k)
    BY <2>1, <2>3 DEF MarkOutlasts
  <2>4. CASE Anywhere(r, k) /\ k = n /\ m = w
    BY <2>4
  <2>5. CASE Anywhere(m, k) /\ k = n /\ r = w
    BY <2>5
  <2>6. CASE r = w /\ m = w
    BY <2>6
  <2> QED  BY <2>2, <2>3, <2>4, <2>5, <2>6
<1>4. ASSUME NEW k \in R!Key, AllOver(k) PROVE AllOver(k)'
  BY <1>4 DEF AllOver
<1>5. \A k \in R!Key : \A r : Holds(r, k) => Holds(r, k)'
  BY <1>4 DEF Holds
<1> QED  BY <1>1, <1>2, <1>3, <1>5

-----------------------------------------------------------------------------
(* A mark that has run out leaves nothing of its family that has not.      *)
LEMMA RanOutHolds ==
  ASSUME RecordsApart, RecordTypes, WasWritten, Lasts, MarkOutlasts,
         NEW k \in R!Key, NEW r \in R!Record \cup {NoRecord}, r = NoRecord \/ Anywhere(r, k),
         ~Lives(r), Holds(r, k)
  PROVE  \A s : Holds(s, k)
<1>1. CASE ~R!IsMark(r)
  BY <1>1 DEF Holds
<1>2. CASE R!IsMark(r)
  <2>1. r \in R!Record /\ r.mark /\ Anywhere(r, k)
    BY <1>2 DEF R!IsMark
  <2>2. r.till \in Nat /\ now \in Nat /\ now <= RecordsTime
    BY <2>1 DEF R!Record, RecordTypes, RecordsApart
  <2>3. r.till <= now
    BY <2>1, <2>2 DEF Lives, RecordsApart
  <2>4. k \in taken
    BY <2>1 DEF WasWritten
  <2>5. k \notin Lasting
    <3> SUFFICES ASSUME k \in Lasting PROVE FALSE
      OBVIOUS
    <3>1. r.till = RecordsTime + Life + Retention + 1
      BY <2>1 DEF Lasts, R!Never
    <3> QED  BY <2>2, <2>3, <3>1 DEF RecordsApart
  <2>6. k \in Family
    BY <2>5 DEF R!Key
  <2>7. k \notin apart => AllOver(k)
    <3> SUFFICES ASSUME k \notin apart, NEW s \in R!Record, Anywhere(s, k)
                 PROVE  s.mark \/ s.till <= now
      BY <2>4 DEF AllOver
    <3>1. ~s.mark => s.till <= r.till
      BY <2>1, <2>6 DEF MarkOutlasts
    <3>2. s.till \in Nat
      BY DEF R!Record
    <3> QED  BY <2>2, <2>3, <3>1, <3>2
  <2> QED  BY <2>6, <2>7 DEF Holds
<1> QED  BY <1>1, <1>2

(* So it is with what an instance holds, or has in its file.               *)
LEMMA ForgottenHolds ==
  ASSUME RecordsApart, RecordTypes, WasWritten, Lasts, MarkOutlasts, NEW i \in Inst,
         NEW k \in R!Key, NEW r, r = mem[i][k] \/ r = disk[i][k], Holds(r, k)
  PROVE  /\ ~Lives(r) => \A s : Holds(s, k)
         /\ Holds(IF Lives(r) THEN r ELSE NoRecord, k)
<1>1. mem[i] \in R!Set /\ disk[i] \in R!Set
  BY DEF RecordTypes
<1>2. r \in R!Record \cup {NoRecord}
  BY <1>1 DEF R!Set
<1>3. Anywhere(r, k)
  BY DEF Anywhere
<1> QED  BY <1>2, <1>3, RanOutHolds

(* A document kept behind the others holds where they hold.                *)
LEMMA KeepStays ==
  ASSUME RecordsApart, RecordTypes, MarksStay, NEW i \in Inst,
         NEW b \in Document, b.doc = mem'[i], chain'[i] = Append(chain[i], b),
         \A j \in Inst \ {i} : mem'[j] = mem[j] /\ chain'[j] = chain[j],
         UNCHANGED <<disk, marked, up>>, i \in up,
         \A k \in R!Key : \A r : Holds(r, k) => Holds(r, k)',
         \A k \in R!Key : Holds(mem[i][k], k) => Holds(mem[i][k], k)'
  PROVE  MarksStay'
<1> SUFFICES ASSUME NEW j \in Inst, NEW k \in R!Key
             PROVE
    /\ k \in marked[j] =>
         /\ Holds(disk[j][k], k)'
         /\ j \in up => Holds(mem[j][k], k)'
         /\ \A n \in 1..Len(chain'[j]) : Holds(chain[j][n].doc[k], k)'
    /\ \A n \in 1..Len(chain'[j]) : R!IsMark(chain'[j][n].doc[k]) =>
         /\ Holds(mem[j][k], k)'
         /\ \A m \in n..Len(chain'[j]) : Holds(chain[j][m].doc[k], k)'
  BY DEF MarksStay
<1>0. /\ k \in marked[j] =>
           /\ Holds(disk[j][k], k)
           /\ j \in up => Holds(mem[j][k], k)
           /\ \A n \in 1..Len(chain[j]) : Holds(chain[j][n].doc[k], k)
      /\ \A n \in 1..Len(chain[j]) : R!IsMark(chain[j][n].doc[k]) =>
           /\ Holds(mem[j][k], k)
           /\ \A m \in n..Len(chain[j]) : Holds(chain[j][m].doc[k], k)
  BY DEF MarksStay
<1>1. CASE j # i
  BY <1>0, <1>1
<1>2. CASE j = i
  <2>1. /\ Len(chain'[i]) = Len(chain[i]) + 1 /\ Len(chain[i]) \in Nat
        /\ \A n \in 1..Len(chain[i]) : chain'[i][n] = chain[i][n]
        /\ chain'[i][Len(chain[i]) + 1] = b
    <3>1. chain[i] \in Seq(Document)
      BY DEF RecordTypes
    <3> QED  BY <3>1, AppendIs
  <2>2. \A n \in 1..Len(chain'[i]) : n \in 1..Len(chain[i]) \/ n = Len(chain[i]) + 1
    BY <2>1
  <2>3. k \in marked[i] => \A n \in 1..Len(chain'[i]) : Holds(chain[i][n].doc[k], k)'
    BY <1>0, <1>2, <2>1, <2>2
  <2>4. ASSUME NEW n \in 1..Len(chain'[i]), R!IsMark(chain'[i][n].doc[k])
        PROVE  /\ Holds(mem[i][k], k)'
               /\ \A m \in n..Len(chain'[i]) : Holds(chain[i][m].doc[k], k)'
    <3>1. CASE n \in 1..Len(chain[i])
      <4>1. /\ Holds(mem[i][k], k)
            /\ \A m \in n..Len(chain[i]) : Holds(chain[i][m].doc[k], k)
        BY <1>0, <1>2, <2>1, <2>4, <3>1
      <4>2. \A m \in n..Len(chain'[i]) : m \in n..Len(chain[i]) \/ m = Len(chain[i]) + 1
        BY <2>1
      <4>3. \A m \in n..Len(chain[i]) : m \in 1..Len(chain[i])
        BY <3>1
      <4> QED  BY <2>1, <4>1, <4>2, <4>3
    <3>2. CASE n = Len(chain[i]) + 1
      <4>1. R!IsMark(mem'[i][k])
        BY <2>1, <2>4, <3>2
      <4>2. \A m \in n..Len(chain'[i]) : m = Len(chain[i]) + 1
        BY <2>1, <3>2
      <4> QED  BY <2>1, <4>1, <4>2 DEF Holds
    <3> QED  BY <2>2, <3>1, <3>2
  <2> QED  BY <1>0, <1>2, <2>3, <2>4
<1> QED  BY <1>1, <1>2

-----------------------------------------------------------------------------
(* What an instance holds, and the other of two.                             *)
LEMMA HeldTypes ==
  ASSUME RecordTypes, NEW i \in Inst, NEW k \in R!Key
  PROVE  /\ mem[i] \in R!Set /\ disk[i] \in R!Set
         /\ mem[i][k] \in R!Record \cup {NoRecord}
         /\ disk[i][k] \in R!Record \cup {NoRecord}
         /\ chain[i] \in Seq(Document) /\ wire[i] \in Seq(Frame)
<1>1. mem[i] \in R!Set /\ disk[i] \in R!Set
  BY DEF RecordTypes
<1>2. chain[i] \in Seq(Document) /\ wire[i] \in Seq(Frame)
  BY DEF RecordTypes
<1> QED  BY <1>1, <1>2 DEF R!Set

LEMMA OtherIs ==
  ASSUME RecordsApart, NEW i \in Inst
  PROVE  /\ R!Other(i) \in Inst /\ R!Other(i) # i
         /\ \A j \in Inst : j = i \/ j = R!Other(i)
<1>1. PICK a, b \in Inst : a # b /\ Inst = {a, b}
  BY DEF RecordsApart
<1>2. \E j \in Inst : j # i
  BY <1>1
<1>3. R!Other(i) \in Inst /\ R!Other(i) # i
  BY <1>2 DEF R!Other
<1> QED  BY <1>1, <1>3

(* What has something later than what stands, stands; and so on.           *)
LEMMA AfterIs ==
  ASSUME RecordTypes, RecordsApart
  PROVE  /\ \A r \in R!Record : After(r, r)
         /\ \A h \in R!Record \cup {NoRecord}, r \in R!Record :
              After(h, r) /\ r.till > now => h \in R!Record /\ Lives(h)
         /\ \A g, h, r \in R!Record : After(g, h) /\ After(h, r) => After(g, r)
<1>1. now \in Nat
  BY DEF RecordTypes, RecordsApart
<1>2. \A r \in R!Record : r # NoRecord /\ r.till \in Nat /\ r.at \in Nat
  BY DEF R!Record, RecordsApart
<1>3. \A r \in R!Record : After(r, r)
  BY <1>2 DEF After
<1>4. ASSUME NEW h \in R!Record \cup {NoRecord}, NEW r \in R!Record, After(h, r), r.till > now
      PROVE  h \in R!Record /\ Lives(h)
  <2>1. h \in R!Record
    BY <1>4 DEF After
  <2>2. h.till \in Nat /\ r.till \in Nat /\ h.till >= r.till
    BY <1>2, <1>4, <2>1 DEF After
  <2> QED  BY <1>1, <1>2, <1>4, <2>1, <2>2 DEF Lives
<1>5. ASSUME NEW g \in R!Record, NEW h \in R!Record, NEW r \in R!Record, After(g, h), After(h, r)
      PROVE  After(g, r)
  <2>1. /\ g.at \in Nat /\ h.at \in Nat /\ r.at \in Nat
        /\ g.till \in Nat /\ h.till \in Nat /\ r.till \in Nat
    BY <1>2
  <2>2. CASE g = h \/ h = r
    BY <1>5, <2>2
  <2>3. CASE g # h /\ h # r
    <3>1. /\ h.at < g.at /\ h.till <= g.till
          /\ r.at < h.at /\ r.till <= h.till
          /\ (r.mark => h.mark) /\ (h.mark => g.mark)
      BY <1>5, <2>3 DEF After
    <3> QED  BY <1>2, <2>1, <3>1 DEF After
  <2> QED  BY <2>2, <2>3
<1> QED  BY <1>3, <1>4, <1>5

-----------------------------------------------------------------------------
(* RecordsHold at the start, and through each step.                          *)
LEMMA NoneToStartWith ==
  ASSUME RecordsApart, R!Init
  PROVE  RecordsHold
<1>0. /\ now = 0 /\ up = Inst /\ linked = TRUE
      /\ mem = [i \in Inst |-> R!Empty] /\ disk = [i \in Inst |-> R!Empty]
      /\ chain = [i \in Inst |-> <<>>] /\ wire = [i \in Inst |-> <<>>]
      /\ taken = {} /\ marked = [i \in Inst |-> {}] /\ apart = {} /\ early = {}
  BY DEF R!Init
<1>1. RecordTypes
  <2>1. R!Empty \in R!Set
    BY DEF R!Empty, R!Set
  <2>2. \A X : <<>> \in Seq(X)
    BY EmptySeq
  <2>3. now \in 0..RecordsTime
    BY <1>0 DEF RecordsApart
  <2> QED  BY <1>0, <2>1, <2>2, <2>3 DEF RecordTypes
<1>2. \A i \in Inst : chain[i] = <<>> /\ wire[i] = <<>>
  BY <1>0
<1>3. \A i \in Inst, k \in R!Key : mem[i][k] = NoRecord /\ disk[i][k] = NoRecord
  BY <1>0 DEF R!Empty
<1>4. \A r, k : \A i \in Inst : ~Waits(chain[i], r, k) /\ ~Tells(chain[i], r, k) /\ ~Sent(wire[i], r, k)
  BY <1>2, NothingWaits
<1>5. \A r \in R!Record, k \in R!Key : ~Anywhere(r, k) /\ \A i \in Inst : ~OnWay(r, i, k)
  BY <1>3, <1>4 DEF Anywhere, OnWay, RecordsApart
<1>6. Quiet
  BY <1>0, <1>2 DEF Quiet
<1>7. WasWritten /\ Lasts
  BY <1>5 DEF WasWritten, Lasts
<1>8. MarkOutlasts
  BY <1>5 DEF MarkOutlasts, R!Key
<1>9. MarkIsHeld
  BY <1>3, <1>4 DEF MarkIsHeld, RecordsApart
<1>10. MarksStay
  <2>1. \A i \in Inst : marked[i] = {} /\ 1..Len(chain[i]) = {}
    BY <1>0, <1>2
  <2> QED  BY <2>1 DEF MarksStay
<1>11. TellsWhatItHas
  BY <1>5 DEF TellsWhatItHas
<1>12. WillBeTold
  BY <1>3 DEF WillBeTold
<1> QED  BY <1>1, <1>6, <1>7, <1>8, <1>9, <1>10, <1>11, <1>12 DEF RecordsHold, MarksHold

LEMMA TickHolds ==
  ASSUME RecordsApart, RecordsHold, R!Tick
  PROVE  RecordsHold'
<1>0. /\ RecordTypes /\ Quiet /\ WasWritten /\ Lasts /\ MarkOutlasts /\ MarkIsHeld /\ MarksStay
      /\ TellsWhatItHas /\ WillBeTold
  BY DEF RecordsHold, MarksHold
<1>1. /\ now' = now + 1 /\ now < RecordsTime /\ now \in 0..RecordsTime /\ RecordsTime \in Nat
      /\ UNCHANGED <<up, mem, chain, disk, linked, wire, taken, marked, apart, early>>
  BY <1>0 DEF R!Tick, RecordTypes, RecordsApart
<1>2. now' \in Nat /\ now <= now' /\ now' \in 0..RecordsTime
  BY <1>1
<1>3. RecordTypes'
  BY <1>0, <1>1, <1>2 DEF RecordTypes
<1>4. \A k \in R!Key, r \in R!Record : Anywhere(r, k)' => Anywhere(r, k)
  BY <1>1 DEF Anywhere
<1>5. /\ WasWritten' /\ Lasts' /\ MarkOutlasts'
      /\ \A k \in R!Key : \A r : Holds(r, k) => Holds(r, k)'
  <2>1. taken' = taken /\ apart \subseteq apart'
    BY <1>1
  <2> QED  BY <1>0, <1>2, <1>4, <2>1, NothingNew
<1>6. Quiet'
  BY <1>0, <1>1 DEF Quiet
<1>7. \A r \in R!Record : r.till \in Nat /\ (r.till <= now => r.till <= now') /\ (r.till > now' => r.till > now)
  BY <1>1 DEF R!Record
<1>8. MarkIsHeld'
  BY <1>0, <1>1, <1>7 DEF MarkIsHeld
<1>9. MarksStay'
  BY <1>0, <1>1, <1>5 DEF MarksStay
<1>10. TellsWhatItHas'
  BY <1>0, <1>1, <1>7 DEF TellsWhatItHas, OnWay
<1>11. WillBeTold'
  <2> SUFFICES ASSUME linked', NEW i \in Inst, NEW j \in Inst, NEW k \in R!Key \ (apart' \cup early'),
                      mem'[i][k] # NoRecord, mem'[i][k].till > now'
               PROVE  After(mem'[j][k], mem'[i][k]) \/ OnWay(mem[i][k], i, k)'
    BY DEF WillBeTold
  <2>1. mem'[i][k] = mem[i][k] /\ mem[i][k] \in R!Record
    BY <1>0, <1>1, HeldTypes
  <2>2. After(mem[j][k], mem[i][k]) \/ OnWay(mem[i][k], i, k)
    BY <1>0, <1>1, <1>7, <2>1 DEF WillBeTold
  <2> QED  BY <1>1, <2>1, <2>2 DEF OnWay
<1> QED  BY <1>3, <1>5, <1>6, <1>8, <1>9, <1>10, <1>11 DEF RecordsHold, MarksHold

LEMMA CutHolds ==
  ASSUME RecordsApart, RecordsHold, R!Cut
  PROVE  RecordsHold'
<1>0. /\ RecordTypes /\ Quiet /\ WasWritten /\ Lasts /\ MarkOutlasts /\ MarkIsHeld /\ MarksStay
      /\ TellsWhatItHas /\ WillBeTold
  BY DEF RecordsHold, MarksHold
<1>1. /\ linked' = FALSE /\ wire' = [i \in Inst |-> <<>>]
      /\ UNCHANGED <<now, up, mem, chain, disk, taken, marked, apart, early>>
  BY DEF R!Cut, R!Unlinked
<1>2. RecordTypes'
  <2>1. <<>> \in Seq(Frame)
    BY EmptySeq
  <2> QED  BY <1>0, <1>1, <2>1 DEF RecordTypes
<1>3. \A i \in Inst : \A r, k : ~Sent(wire'[i], r, k)
  BY <1>1, NothingWaits
<1>4. /\ \A k \in R!Key, r \in R!Record : Anywhere(r, k)' => Anywhere(r, k)
      /\ \A i \in Inst, k \in R!Key, r \in R!Record : OnWay(r, i, k)' => OnWay(r, i, k)
  BY <1>1, <1>3 DEF Anywhere, OnWay
<1>5. /\ WasWritten' /\ Lasts' /\ MarkOutlasts'
      /\ \A k \in R!Key : \A r : Holds(r, k) => Holds(r, k)'
  <2>1. taken' = taken /\ apart \subseteq apart' /\ now' = now
    BY <1>1
  <2>2. now' \in Nat /\ now <= now'
    BY <1>0, <2>1 DEF RecordTypes, RecordsApart
  <2> QED  BY <1>0, <1>4, <2>1, <2>2, NothingNew
<1>6. Quiet'
  BY <1>0, <1>1 DEF Quiet
<1>7. MarkIsHeld'
  BY <1>0, <1>1, <1>3 DEF MarkIsHeld
<1>8. MarksStay'
  BY <1>0, <1>1, <1>5 DEF MarksStay
<1>9. TellsWhatItHas'
  BY <1>0, <1>1, <1>4 DEF TellsWhatItHas
<1>10. WillBeTold'
  BY <1>1 DEF WillBeTold
<1> QED  BY <1>2, <1>5, <1>6, <1>7, <1>8, <1>9, <1>10 DEF RecordsHold, MarksHold

(* What is lost is in nobody's way: no link stands any more.                 *)
LEMMA KillHolds ==
  ASSUME RecordsApart, RecordsHold, NEW i \in Inst, R!Kill(i)
  PROVE  RecordsHold'
<1>0. /\ RecordTypes /\ Quiet /\ WasWritten /\ Lasts /\ MarkOutlasts /\ MarkIsHeld /\ MarksStay
      /\ TellsWhatItHas /\ WillBeTold
  BY DEF RecordsHold, MarksHold
<1>1. /\ linked' = FALSE /\ wire' = [j \in Inst |-> <<>>] /\ up' = up \ {i}
      /\ mem' = [mem EXCEPT ![i] = R!Empty] /\ chain' = [chain EXCEPT ![i] = <<>>]
      /\ UNCHANGED <<now, disk, taken, marked, apart, early>>
  BY DEF R!Kill, R!Unlinked
<1>2. RecordTypes'
  <2>1. R!Empty \in R!Set
    BY DEF R!Empty, R!Set
  <2>2. <<>> \in Seq(Frame) /\ <<>> \in Seq(Document)
    BY EmptySeq
  <2> QED  BY <1>0, <1>1, <2>1, <2>2 DEF RecordTypes
<1>3. /\ \A j \in Inst \ {i} : mem'[j] = mem[j] /\ chain'[j] = chain[j]
      /\ mem'[i] = R!Empty /\ chain'[i] = <<>>
      /\ \A k \in R!Key : mem'[i][k] = NoRecord
  BY <1>0, <1>1 DEF RecordTypes, R!Empty
<1>4. /\ \A j \in Inst : \A r, k : ~Sent(wire'[j], r, k)
      /\ \A r, k : ~Waits(chain'[i], r, k) /\ ~Tells(chain'[i], r, k)
  BY <1>1, <1>3, NothingWaits
<1>5. /\ \A k \in R!Key, r \in R!Record : Anywhere(r, k)' => Anywhere(r, k)
      /\ \A j \in Inst, k \in R!Key, r \in R!Record : OnWay(r, j, k)' => OnWay(r, j, k) /\ j # i
  BY <1>1, <1>3, <1>4 DEF Anywhere, OnWay, RecordsApart
<1>6. /\ WasWritten' /\ Lasts' /\ MarkOutlasts'
      /\ \A k \in R!Key : \A r : Holds(r, k) => Holds(r, k)'
  <2>1. taken' = taken /\ apart \subseteq apart' /\ now' = now
    BY <1>1
  <2>2. now' \in Nat /\ now <= now'
    BY <1>0, <2>1 DEF RecordTypes, RecordsApart
  <2> QED  BY <1>0, <1>5, <2>1, <2>2, NothingNew
<1>7. Quiet'
  BY <1>0, <1>1, <1>3 DEF Quiet
<1>8. MarkIsHeld'
  BY <1>0, <1>1, <1>3, <1>4 DEF MarkIsHeld
<1>9. MarksStay'
  <2> SUFFICES ASSUME NEW j \in Inst, NEW k \in R!Key
               PROVE
      /\ k \in marked[j] =>
           /\ Holds(disk[j][k], k)'
           /\ j \in up' => Holds(mem[j][k], k)'
           /\ \A n \in 1..Len(chain'[j]) : Holds(chain[j][n].doc[k], k)'
      /\ \A n \in 1..Len(chain'[j]) : R!IsMark(chain'[j][n].doc[k]) =>
           /\ Holds(mem[j][k], k)'
           /\ \A m \in n..Len(chain'[j]) : Holds(chain[j][m].doc[k], k)'
    BY <1>1 DEF MarksStay
  <2>1. CASE j = i
    <3>1. 1..Len(chain'[i]) = {}
      BY <1>3
    <3>2. k \in marked[i] => Holds(disk[i][k], k)
      BY <1>0 DEF MarksStay
    <3> QED  BY <1>1, <1>6, <2>1, <3>1, <3>2
  <2>2. CASE j # i
    BY <1>0, <1>1, <1>3, <1>6, <2>2 DEF MarksStay
  <2> QED  BY <2>1, <2>2
<1>10. TellsWhatItHas'
  BY <1>0, <1>1, <1>3, <1>5 DEF TellsWhatItHas
<1>11. WillBeTold'
  BY <1>1 DEF WillBeTold
<1> QED  BY <1>2, <1>6, <1>7, <1>8, <1>9, <1>10, <1>11 DEF RecordsHold, MarksHold

(* What is read back is what the file held, less what ran out.               *)
LEMMA LoadHolds ==
  ASSUME RecordsApart, RecordsHold, NEW i \in Inst, R!Load(i)
  PROVE  RecordsHold'
<1>0. /\ RecordTypes /\ Quiet /\ WasWritten /\ Lasts /\ MarkOutlasts /\ MarkIsHeld /\ MarksStay
      /\ TellsWhatItHas /\ WillBeTold
  BY DEF RecordsHold, MarksHold
<1>1. /\ i \notin up /\ up' = up \cup {i} /\ mem' = [mem EXCEPT ![i] = R!Expire(disk[i])]
      /\ UNCHANGED <<now, chain, disk, linked, wire, taken, marked, apart, early>>
  BY DEF R!Load
<1>2. ~linked /\ chain[i] = <<>> /\ \A j \in Inst : wire[j] = <<>>
  BY <1>0, <1>1 DEF Quiet
<1>3. /\ R!Expire(disk[i]) \in R!Set
      /\ \A k \in R!Key : R!Expire(disk[i])[k] =
                            IF Lives(disk[i][k]) THEN disk[i][k] ELSE NoRecord
  <2>1. disk[i] \in R!Set /\ now \in Nat
    BY <1>0 DEF RecordTypes, RecordsApart
  <2> QED  BY <2>1, ExpireIs
<1>4. /\ \A j \in Inst \ {i} : mem'[j] = mem[j]
      /\ \A k \in R!Key : mem'[i][k] = IF Lives(disk[i][k]) THEN disk[i][k] ELSE NoRecord
      /\ mem' \in [Inst -> R!Set]
  BY <1>0, <1>1, <1>3 DEF RecordTypes
<1>5. RecordTypes'
  BY <1>0, <1>1, <1>4 DEF RecordTypes
<1>6. \A k \in R!Key, r \in R!Record : Anywhere(r, k)' => Anywhere(r, k)
  BY <1>1, <1>4 DEF Anywhere, RecordsApart
<1>7. /\ \A j \in Inst : \A r, k : ~Sent(wire[j], r, k)
      /\ \A r, k : ~Waits(chain[i], r, k) /\ ~Tells(chain[i], r, k)
  BY <1>2, NothingWaits
<1>8. /\ WasWritten' /\ Lasts' /\ MarkOutlasts'
      /\ \A k \in R!Key : \A r : Holds(r, k) => Holds(r, k)'
  <2>1. taken' = taken /\ apart \subseteq apart' /\ now' = now
    BY <1>1
  <2>2. now' \in Nat /\ now <= now'
    BY <1>0, <2>1 DEF RecordTypes, RecordsApart
  <2> QED  BY <1>0, <1>6, <2>1, <2>2, NothingNew
<1>9. Quiet'
  BY <1>0, <1>1, <1>2 DEF Quiet
<1>10. MarkIsHeld'
  BY <1>0, <1>1, <1>4, <1>7 DEF MarkIsHeld
<1>11. MarksStay'
  <2> SUFFICES ASSUME NEW j \in Inst, NEW k \in R!Key
               PROVE
      /\ k \in marked[j] =>
           /\ Holds(disk[j][k], k)'
           /\ j \in up' => Holds(mem[j][k], k)'
           /\ \A n \in 1..Len(chain[j]) : Holds(chain[j][n].doc[k], k)'
      /\ \A n \in 1..Len(chain[j]) : R!IsMark(chain[j][n].doc[k]) =>
           /\ Holds(mem[j][k], k)'
           /\ \A m \in n..Len(chain[j]) : Holds(chain[j][m].doc[k], k)'
    BY <1>1 DEF MarksStay
  <2>1. CASE j = i
    <3>1. 1..Len(chain[i]) = {}
      BY <1>2
    <3>2. ASSUME k \in marked[i] PROVE Holds(disk[i][k], k)' /\ Holds(mem[i][k], k)'
      <4>1. Holds(disk[i][k], k)
        BY <1>0, <3>2 DEF MarksStay
      <4>2. Holds(mem'[i][k], k)
        BY <1>0, <1>4, <4>1, ForgottenHolds
      <4> QED  BY <1>1, <1>8, <4>1, <4>2
    <3> QED  BY <2>1, <3>1, <3>2
  <2>2. CASE j # i
    <3>1. j \in up' => j \in up
      BY <1>1, <2>2
    <3> QED  BY <1>0, <1>1, <1>4, <1>8, <2>2, <3>1 DEF MarksStay
  <2> QED  BY <2>1, <2>2
<1>12. TellsWhatItHas'
  BY <1>0, <1>1, <1>4, <1>7 DEF TellsWhatItHas, OnWay
<1>13. WillBeTold'
  BY <1>1, <1>2 DEF WillBeTold
<1> QED  BY <1>5, <1>8, <1>9, <1>10, <1>11, <1>12, <1>13 DEF RecordsHold, MarksHold

(* What each has at that time is told with the snapshot.                     *)
LEMMA RelinkHolds ==
  ASSUME RecordsApart, RecordsHold, R!Relink
  PROVE  RecordsHold'
<1>0. /\ RecordTypes /\ Quiet /\ WasWritten /\ Lasts /\ MarkOutlasts /\ MarkIsHeld /\ MarksStay
      /\ TellsWhatItHas /\ WillBeTold
  BY DEF RecordsHold, MarksHold
<1>1. /\ up = Inst /\ linked' = TRUE
      /\ mem' = [i \in Inst |-> R!Expire(mem[i])]
      /\ wire' = [i \in Inst |-> <<R!Snapshot(mem[i])>>]
      /\ UNCHANGED <<now, up, chain, disk, taken, marked, apart, early>>
  BY DEF R!Relink
<1>2. ASSUME NEW i \in Inst
      PROVE  /\ mem'[i] \in R!Set
             /\ \A k \in R!Key : mem'[i][k] = IF Lives(mem[i][k]) THEN mem[i][k] ELSE NoRecord
             /\ R!Snapshot(mem[i]) \in Frame
             /\ \A k \in R!Key : k \in DOMAIN R!Snapshot(mem[i]) <=> Lives(mem[i][k])
             /\ \A k \in DOMAIN R!Snapshot(mem[i]) : R!Snapshot(mem[i])[k] = mem[i][k]
  <2>1. mem[i] \in R!Set /\ now \in Nat
    BY <1>0 DEF RecordTypes, RecordsApart
  <2>2. /\ R!Expire(mem[i]) \in R!Set
        /\ \A k \in R!Key : R!Expire(mem[i])[k] =
                              IF Lives(mem[i][k]) THEN mem[i][k] ELSE NoRecord
    BY <2>1, ExpireIs
  <2>3. \A k \in R!Key : mem[i][k] \in R!Record \cup {NoRecord}
    BY <2>1 DEF R!Set
  <2> DEFINE D == {k \in R!Key : R!Expire(mem[i])[k] # NoRecord}
  <2>4. /\ D \in SUBSET R!Key /\ \A k \in R!Key : k \in D <=> Lives(mem[i][k])
        /\ R!Snapshot(mem[i]) = [k \in D |-> mem[i][k]]
    BY <2>2 DEF R!Snapshot, Lives
  <2> HIDE DEF D
  <2>5. \A k \in D : mem[i][k] \in R!Record
    BY <2>3, <2>4 DEF Lives
  <2>6. R!Snapshot(mem[i]) \in [D -> R!Record] /\ DOMAIN R!Snapshot(mem[i]) = D
    BY <2>4, <2>5
  <2>7. R!Snapshot(mem[i]) \in Frame
    BY <2>4, <2>6 DEF Frame
  <2> QED  BY <1>1, <2>2, <2>4, <2>6, <2>7
<1>3. RecordTypes'
  <2>1. \A i \in Inst : <<R!Snapshot(mem[i])>> \in Seq(Frame)
    BY <1>2
  <2>2. wire' \in [Inst -> Seq(Frame)]
    BY <1>1, <2>1
  <2>3. mem' \in [Inst -> R!Set]
    BY <1>1, <1>2
  <2>4. linked' \in BOOLEAN
    BY <1>1
  <2> QED  BY <1>0, <1>1, <2>2, <2>3, <2>4 DEF RecordTypes
<1>4. ASSUME NEW i \in Inst, NEW k \in R!Key, NEW r
      PROVE  Sent(wire'[i], r, k) <=> Lives(mem[i][k]) /\ r = mem[i][k]
  <2>1. wire'[i] = <<R!Snapshot(mem[i])>>
    BY <1>1
  <2>2. Sent(wire'[i], r, k) <=> k \in DOMAIN R!Snapshot(mem[i]) /\ R!Snapshot(mem[i])[k] = r
    BY <2>1 DEF Sent
  <2> QED  BY <1>2, <2>2
<1>5. \A k \in R!Key, r \in R!Record : Anywhere(r, k)' => Anywhere(r, k)
  BY <1>1, <1>2, <1>4 DEF Anywhere, RecordsApart
<1>6. /\ WasWritten' /\ Lasts' /\ MarkOutlasts'
      /\ \A k \in R!Key : \A r : Holds(r, k) => Holds(r, k)'
  <2>1. taken' = taken /\ apart \subseteq apart' /\ now' = now
    BY <1>1
  <2>2. now' \in Nat /\ now <= now'
    BY <1>0, <2>1 DEF RecordTypes, RecordsApart
  <2> QED  BY <1>0, <1>5, <2>1, <2>2, NothingNew
<1>7. Quiet'
  BY <1>0, <1>1 DEF Quiet
<1>8. \A i \in Inst, k \in R!Key : Lives(mem[i][k]) => mem'[i][k] = mem[i][k]
  BY <1>2
<1>9. MarkIsHeld'
  <2>0. UNCHANGED <<now, chain, disk, marked>>
    BY <1>1
  <2> SUFFICES ASSUME NEW i \in Inst, NEW k \in R!Key, NEW m \in R!Record, m.mark
               PROVE  /\ k \in Family /\ (Waits(chain[i], m, k) \/ Sent(wire'[i], m, k)) =>
                           m.till <= now \/ mem'[i][k] = m
                      /\ disk[i][k] = m => k \in marked[i]
    BY <2>0 DEF MarkIsHeld
  <2>1. k \in Family /\ Waits(chain[i], m, k) => m.till <= now \/ mem[i][k] = m
    BY <1>0 DEF MarkIsHeld
  <2>2. m.till \in Nat /\ now \in Nat
    BY <1>0 DEF R!Record, RecordTypes, RecordsApart
  <2>3. mem[i][k] = m => m.till <= now \/ mem'[i][k] = m
    BY <1>2, <2>2 DEF Lives, RecordsApart
  <2>4. Sent(wire'[i], m, k) => mem'[i][k] = m
    BY <1>4, <1>8
  <2>5. disk[i][k] = m => k \in marked[i]
    BY <1>0 DEF MarkIsHeld
  <2> QED  BY <2>1, <2>3, <2>4, <2>5
<1>10. MarksStay'
  <2>1. ASSUME NEW i \in Inst, NEW k \in R!Key, Holds(mem[i][k], k)
        PROVE  Holds(mem[i][k], k)'
    <3>1. Holds(mem'[i][k], k)
      BY <1>0, <1>2, <2>1, ForgottenHolds
    <3> QED  BY <1>6, <3>1
  <2> QED  BY <1>0, <1>1, <1>6, <2>1 DEF MarksStay
<1>11. TellsWhatItHas'
  <2> SUFFICES ASSUME NEW i \in Inst, NEW k \in R!Key \ (apart \cup early), NEW r \in R!Record,
                      OnWay(r, i, k)', r.till > now
               PROVE  After(mem'[i][k], r)
    BY <1>1 DEF TellsWhatItHas
  <2>1. mem[i][k] \in R!Record \cup {NoRecord}
    BY <1>0, HeldTypes
  <2>2. CASE Tells(chain[i], r, k)
    <3>1. After(mem[i][k], r)
      BY <1>0, <2>2 DEF TellsWhatItHas, OnWay
    <3>2. Lives(mem[i][k])
      BY <1>0, <2>1, <3>1, AfterIs
    <3> QED  BY <1>8, <3>1, <3>2
  <2>3. CASE Sent(wire'[i], r, k)
    <3>1. Lives(mem[i][k]) /\ r = mem[i][k]
      BY <1>4, <2>3
    <3>2. mem'[i][k] = r
      BY <1>8, <3>1
    <3> QED  BY <1>0, <3>2, AfterIs
  <2> QED  BY <1>1, <2>2, <2>3 DEF OnWay
<1>12. WillBeTold'
  <2> SUFFICES ASSUME NEW i \in Inst, NEW k \in R!Key, mem'[i][k] # NoRecord
               PROVE  Sent(wire[i], mem[i][k], k)'
    BY <1>1 DEF WillBeTold, OnWay
  <2>1. Lives(mem[i][k]) /\ mem'[i][k] = mem[i][k]
    BY <1>2
  <2> QED  BY <1>4, <2>1
<1> QED  BY <1>3, <1>6, <1>7, <1>9, <1>10, <1>11, <1>12 DEF RecordsHold, MarksHold

(* A record put in the place of what a key holds, later than it: over a      *)
(* mark only another, and not over that of a family.                         *)
LEMMA PutsHolds ==
  ASSUME RecordsApart, RecordsHold, NEW i \in Inst, NEW n \in R!Key, NEW w \in R!Record,
         i \in up, Lives(w),
         R!IsMark(mem[i][n]) => n \in Lasting /\ w.mark,
         mem[i][n] # NoRecord => After(w, mem[i][n]),
         R!Keep(i, [mem[i] EXCEPT ![n] = w], {n}),
         taken' = taken \cup {n}, apart \subseteq apart', apart' \subseteq R!Key,
         UNCHANGED <<now, up, disk, linked, wire, marked, early>>,
         n \in Lasting => w.till = R!Never,
         n \in Family /\ ~w.mark => w.till <= now + Life,
         n \in Family \ apart' => \A r \in R!Record : Anywhere(r, n) =>
           /\ w.mark => r.mark \/ r.till <= w.till
           /\ ~w.mark => ~r.mark,
         AllOver(n) => w.mark
  PROVE  RecordsHold'
<1>0. /\ RecordTypes /\ Quiet /\ WasWritten /\ Lasts /\ MarkOutlasts /\ MarkIsHeld /\ MarksStay
      /\ TellsWhatItHas /\ WillBeTold
  BY DEF RecordsHold, MarksHold
<1> DEFINE S == [mem[i] EXCEPT ![n] = w]
<1>1. S \in R!Set /\ S[n] = w /\ \A k \in R!Key \ {n} : S[k] = mem[i][k]
  BY <1>0 DEF RecordTypes, R!Set
<1> DEFINE T == {n}
<1>2. /\ mem' \in [Inst -> R!Set] /\ chain' \in [Inst -> Seq(Document)]
      /\ \A j \in Inst \ {i} : mem'[j] = mem[j] /\ chain'[j] = chain[j]
      /\ \A k \in R!Key : /\ Lives(S[k]) => mem'[i][k] = S[k]
                          /\ ~Lives(S[k]) => mem'[i][k] = NoRecord
      /\ \E b \in Document : b.doc = mem'[i] /\ b.tells = T /\ chain'[i] = Append(chain[i], b)
  <2>1. R!Keep(i, S, T) /\ T \in SUBSET R!Key /\ \A k \in T : Lives(S[k])
    BY <1>1
  <2> HIDE DEF S, T
  <2> QED  BY <1>0, <1>1, <2>1, KeepIs
<1> HIDE DEF S
<1>3. /\ mem'[i][n] = w
      /\ \A k \in R!Key \ {n} : mem'[i][k] = IF Lives(mem[i][k]) THEN mem[i][k] ELSE NoRecord
  BY <1>1, <1>2
<1>4. PICK b \in Document : b.doc = mem'[i] /\ b.tells = T /\ chain'[i] = Append(chain[i], b)
  BY <1>2
<1>5. \A j \in Inst \ {i} : mem'[j] = mem[j] /\ chain'[j] = chain[j]
  BY <1>2
<1>6. ASSUME NEW j \in Inst, NEW r, NEW k
      PROVE  /\ Waits(chain'[j], r, k) <=> Waits(chain[j], r, k) \/ (j = i /\ mem'[i][k] = r)
             /\ Tells(chain'[j], r, k) <=> Tells(chain[j], r, k)
                                             \/ (j = i /\ k = n /\ mem'[i][k] = r)
  <2>1. chain[i] \in Seq(Document) /\ (k \in T <=> k = n)
    BY <1>0 DEF RecordTypes
  <2> HIDE DEF T
  <2>2. /\ Waits(chain'[i], r, k) <=> Waits(chain[i], r, k) \/ mem'[i][k] = r
        /\ Tells(chain'[i], r, k) <=> Tells(chain[i], r, k) \/ (k \in T /\ mem'[i][k] = r)
    BY <1>4, <2>1, BehindDocuments
  <2>3. CASE j = i
    BY <2>1, <2>2, <2>3
  <2>4. CASE j # i
    <3>1. chain'[j] = chain[j]
      BY <1>5, <2>4
    <3> QED  BY <2>4, <3>1
  <2> QED  BY <2>3, <2>4
<1> HIDE DEF T
<1>7. RecordTypes'
  BY <1>0, <1>2 DEF RecordTypes
<1>8. \A k \in R!Key, r \in R!Record : Anywhere(r, k)' => Anywhere(r, k) \/ (k = n /\ r = w)
  <2> SUFFICES ASSUME NEW k \in R!Key, NEW r \in R!Record, Anywhere(r, k)', ~(k = n /\ r = w)
               PROVE  Anywhere(r, k)
    OBVIOUS
  <2>1. PICK j \in Inst : \/ mem'[j][k] = r \/ disk[j][k] = r
                          \/ Waits(chain'[j], r, k) \/ Sent(wire[j], r, k)
    BY DEF Anywhere
  <2>2. mem'[j][k] = r \/ (j = i /\ mem'[i][k] = r) => mem[j][k] = r
    BY <1>3, <1>5 DEF RecordsApart
  <2> QED  BY <1>6, <2>1, <2>2 DEF Anywhere
<1>9. /\ WasWritten' /\ Lasts' /\ MarkOutlasts'
      /\ \A k \in R!Key : \A r : Holds(r, k) => Holds(r, k)'
  <2>1. now' = now
    OBVIOUS
  <2> QED  BY <1>0, <1>8, <2>1, OneNew
<1>10. Quiet'
  BY <1>0, <1>5 DEF Quiet
<1>11. MarkIsHeld'
  <2> SUFFICES ASSUME NEW j \in Inst, NEW k \in R!Key, NEW m \in R!Record, m.mark
               PROVE  /\ k \in Family /\ (Waits(chain'[j], m, k) \/ Sent(wire[j], m, k)) =>
                           m.till <= now \/ mem'[j][k] = m
                      /\ disk[j][k] = m => k \in marked[j]
    BY DEF MarkIsHeld
  <2>1. /\ k \in Family /\ (Waits(chain[j], m, k) \/ Sent(wire[j], m, k)) =>
             m.till <= now \/ mem[j][k] = m
        /\ disk[j][k] = m => k \in marked[j]
    BY <1>0 DEF MarkIsHeld
  <2>2. m.till \in Nat /\ now \in Nat
    BY <1>0 DEF R!Record, RecordTypes, RecordsApart
  <2>3. k \in Family /\ mem[i][k] = m => m.till <= now \/ mem'[i][k] = m
    <3>1. k \in Family /\ mem[i][k] = m => k # n
      BY DEF R!IsMark, RecordsApart
    <3> QED  BY <1>3, <2>2, <3>1 DEF Lives
  <2> QED  BY <1>5, <1>6, <2>1, <2>3
<1>12. MarksStay'
  <2>1. ASSUME NEW k \in R!Key, Holds(mem[i][k], k) PROVE Holds(mem[i][k], k)'
    <3>1. CASE k = n
      <4>1. R!IsMark(mem[i][n]) => R!IsMark(mem'[i][n])
        BY <1>3 DEF R!IsMark, RecordsApart
      <4>2. Holds(mem'[i][k], k)
        BY <2>1, <3>1, <4>1 DEF Holds
      <4> QED  BY <1>9, <4>2
    <3>2. CASE k # n
      <4>1. Holds(mem'[i][k], k)
        BY <1>0, <1>3, <2>1, <3>2, ForgottenHolds
      <4> QED  BY <1>9, <4>1
    <3> QED  BY <3>1, <3>2
  <2>2. UNCHANGED <<disk, marked, up>>
    OBVIOUS
  <2> QED  BY <1>0, <1>4, <1>5, <1>9, <2>1, <2>2, KeepStays
<1>13. ASSUME NEW k \in R!Key, Lives(mem[i][k])
       PROVE  mem[i][k] \in R!Record /\ After(mem'[i][k], mem[i][k])
  <2>1. mem[i][k] \in R!Record
    BY <1>0, <1>13, HeldTypes DEF Lives
  <2>2. CASE k = n
    BY <1>3, <1>13, <2>1, <2>2 DEF Lives
  <2>3. CASE k # n
    BY <1>0, <1>3, <1>13, <2>1, <2>3, AfterIs
  <2> QED  BY <2>1, <2>2, <2>3
<1>14. ASSUME NEW k \in R!Key, NEW r \in R!Record, After(mem[i][k], r), r.till > now
       PROVE  After(mem'[i][k], r)
  <2>1. mem[i][k] \in R!Record \cup {NoRecord} /\ mem'[i][k] \in R!Record \cup {NoRecord}
    BY <1>0, <1>2, HeldTypes DEF R!Set
  <2>2. Lives(mem[i][k]) /\ mem[i][k] \in R!Record
    BY <1>0, <1>14, <2>1, AfterIs
  <2>3. After(mem'[i][k], mem[i][k]) /\ mem'[i][k] \in R!Record
    BY <1>13, <2>1, <2>2 DEF After
  <2> QED  BY <1>0, <1>14, <2>2, <2>3, AfterIs
<1>15. TellsWhatItHas'
  <2> SUFFICES ASSUME NEW j \in Inst, NEW k \in R!Key \ (apart' \cup early'), NEW r \in R!Record,
                      OnWay(r, j, k)', r.till > now
               PROVE  After(mem'[j][k], r)
    BY DEF TellsWhatItHas
  <2>0. k \in R!Key \ (apart \cup early)
    OBVIOUS
  <2>1. CASE OnWay(r, j, k)
    <3>1. After(mem[j][k], r)
      BY <1>0, <2>0, <2>1 DEF TellsWhatItHas
    <3> QED  BY <1>5, <1>14, <3>1
  <2>2. CASE j = i /\ mem'[i][k] = r
    BY <1>0, <2>2, AfterIs
  <2>3. Tells(chain'[j], r, k) \/ Sent(wire[j], r, k)
    BY DEF OnWay
  <2> QED  BY <1>6, <2>1, <2>2, <2>3 DEF OnWay
<1>16. WillBeTold'
  <2> SUFFICES ASSUME linked, NEW a \in Inst, NEW c \in Inst, NEW k \in R!Key \ (apart' \cup early'),
                      mem'[a][k] # NoRecord, mem'[a][k].till > now
               PROVE  After(mem'[c][k], mem'[a][k]) \/ OnWay(mem[a][k], a, k)'
    BY DEF WillBeTold
  <2>0. k \in R!Key \ (apart \cup early)
    OBVIOUS
  <2>1. mem'[a][k] \in R!Record
    BY <1>2 DEF R!Set
  <2>2. CASE a = i /\ k = n
    <3>1. Tells(chain[i], mem[i][k], k)'
      BY <1>6, <2>2
    <3> QED  BY <2>2, <3>1 DEF OnWay
  <2>3. CASE a # i \/ k # n
    <3>1. mem'[a][k] = mem[a][k]
      BY <1>3, <1>5, <2>3
    <3>2. After(mem[c][k], mem[a][k]) \/ OnWay(mem[a][k], a, k)
      BY <1>0, <2>0, <3>1 DEF WillBeTold
    <3>3. CASE After(mem[c][k], mem[a][k])
      BY <1>5, <1>14, <2>1, <3>1, <3>3
    <3>4. CASE OnWay(mem[a][k], a, k)
      BY <1>6, <3>1, <3>4 DEF OnWay
    <3> QED  BY <3>2, <3>3, <3>4
  <2> QED  BY <2>2, <2>3
<1> QED  BY <1>7, <1>9, <1>10, <1>11, <1>12, <1>15, <1>16 DEF RecordsHold, MarksHold

(* The first document gone, the others hold where they held.               *)
LEMMA TailStays ==
  ASSUME RecordTypes, MarksStay, NEW i \in Inst, chain[i] # <<>>,
         chain'[i] = Tail(chain[i]), mem' = mem,
         \A k \in R!Key : \A r : Holds(r, k) => Holds(r, k)'
  PROVE  \A k \in R!Key :
           /\ (\A n \in 1..Len(chain[i]) : Holds(chain[i][n].doc[k], k)) =>
                \A n \in 1..Len(chain'[i]) : Holds(chain[i][n].doc[k], k)'
           /\ \A n \in 1..Len(chain'[i]) : R!IsMark(chain'[i][n].doc[k]) =>
                /\ Holds(mem[i][k], k)'
                /\ \A m \in n..Len(chain'[i]) : Holds(chain[i][m].doc[k], k)'
<1>1. /\ Len(chain[i]) \in Nat /\ Len(chain'[i]) = Len(chain[i]) - 1
      /\ \A n \in 1..Len(chain'[i]) : n + 1 \in 1..Len(chain[i]) /\ chain'[i][n] = chain[i][n + 1]
  <2>1. chain[i] \in Seq(Document)
    BY DEF RecordTypes
  <2> QED  BY <2>1, TailIs
<1> SUFFICES ASSUME NEW k \in R!Key
             PROVE
           /\ (\A n \in 1..Len(chain[i]) : Holds(chain[i][n].doc[k], k)) =>
                \A n \in 1..Len(chain'[i]) : Holds(chain[i][n].doc[k], k)'
           /\ \A n \in 1..Len(chain'[i]) : R!IsMark(chain'[i][n].doc[k]) =>
                /\ Holds(mem[i][k], k)'
                /\ \A m \in n..Len(chain'[i]) : Holds(chain[i][m].doc[k], k)'
  OBVIOUS
<1>2. ASSUME \A n \in 1..Len(chain[i]) : Holds(chain[i][n].doc[k], k), NEW n \in 1..Len(chain'[i])
      PROVE  Holds(chain[i][n].doc[k], k)'
  <2>1. Holds(chain'[i][n].doc[k], k)
    BY <1>1, <1>2
  <2> QED  BY <2>1
<1>3. ASSUME NEW n \in 1..Len(chain'[i]), R!IsMark(chain'[i][n].doc[k])
      PROVE  /\ Holds(mem[i][k], k)'
             /\ \A m \in n..Len(chain'[i]) : Holds(chain[i][m].doc[k], k)'
  <2>1. /\ n + 1 \in 1..Len(chain[i]) /\ R!IsMark(chain[i][n + 1].doc[k])
    BY <1>1, <1>3
  <2>2. /\ Holds(mem[i][k], k)
        /\ \A m \in (n + 1)..Len(chain[i]) : Holds(chain[i][m].doc[k], k)
    BY <2>1 DEF MarksStay
  <2>3. ASSUME NEW m \in n..Len(chain'[i]) PROVE Holds(chain[i][m].doc[k], k)'
    <3>1. m \in 1..Len(chain'[i]) /\ m + 1 \in (n + 1)..Len(chain[i])
      BY <1>1
    <3>2. Holds(chain'[i][m].doc[k], k)
      BY <1>1, <2>2, <3>1
    <3> QED  BY <3>2
  <2> QED  BY <2>2, <2>3
<1> QED  BY <1>2, <1>3

(* What was to be told and could not be written is apart.                    *)
LEMMA LandFailsHolds ==
  ASSUME RecordsApart, RecordsHold, NEW i \in Inst, R!LandFails(i)
  PROVE  RecordsHold'
<1>0. /\ RecordTypes /\ Quiet /\ WasWritten /\ Lasts /\ MarkOutlasts /\ MarkIsHeld /\ MarksStay
      /\ TellsWhatItHas /\ WillBeTold
  BY DEF RecordsHold, MarksHold
<1> DEFINE b == Head(chain[i])
<1>1. /\ chain[i] # <<>> /\ chain' = [chain EXCEPT ![i] = Tail(chain[i])]
      /\ apart' = apart \cup b.tells
      /\ UNCHANGED <<now, up, mem, disk, linked, wire, taken, marked, early>>
  BY DEF R!LandFails
<1>2. chain[i] \in Seq(Document) /\ wire[i] \in Seq(Frame)
  BY <1>0 DEF RecordTypes
<1>3. b \in Document /\ Tail(chain[i]) \in Seq(Document)
  BY <1>1, <1>2, TailIs
<1>4. b.tells \subseteq R!Key
  BY <1>3, DocumentIs
<1>5. ASSUME NEW r, NEW k
      PROVE  /\ Waits(Tail(chain[i]), r, k) => Waits(chain[i], r, k)
             /\ Tells(Tail(chain[i]), r, k) => Tells(chain[i], r, k)
             /\ Tells(chain[i], r, k) => Tells(Tail(chain[i]), r, k) \/ k \in b.tells
  BY <1>1, <1>2, WithoutFirstDocument
<1> HIDE DEF b
<1>6. /\ chain'[i] = Tail(chain[i]) /\ \A j \in Inst \ {i} : chain'[j] = chain[j]
      /\ chain' \in [Inst -> Seq(Document)]
  BY <1>0, <1>1, <1>3 DEF RecordTypes
<1>7. RecordTypes'
  BY <1>0, <1>1, <1>4, <1>6 DEF RecordTypes
<1>8. ASSUME NEW j \in Inst, NEW r, NEW k
      PROVE  /\ Waits(chain'[j], r, k) => Waits(chain[j], r, k)
             /\ Tells(chain'[j], r, k) => Tells(chain[j], r, k)
             /\ Tells(chain[j], r, k) => Tells(chain'[j], r, k) \/ k \in b.tells
  BY <1>5, <1>6
<1>9. \A k \in R!Key, r \in R!Record : Anywhere(r, k)' => Anywhere(r, k)
  BY <1>1, <1>8 DEF Anywhere
<1>10. /\ WasWritten' /\ Lasts' /\ MarkOutlasts'
       /\ \A k \in R!Key : \A r : Holds(r, k) => Holds(r, k)'
  <2>1. taken' = taken /\ apart \subseteq apart' /\ now' = now
    BY <1>1
  <2>2. now' \in Nat /\ now <= now'
    BY <1>0, <2>1 DEF RecordTypes, RecordsApart
  <2> QED  BY <1>0, <1>9, <2>1, <2>2, NothingNew
<1>11. Quiet'
  <2>1. i \in up
    BY <1>0, <1>1 DEF Quiet
  <2> QED  BY <1>0, <1>1, <1>6, <2>1 DEF Quiet
<1>12. MarkIsHeld'
  BY <1>0, <1>1, <1>8 DEF MarkIsHeld
<1>13. MarksStay'
  <2>1. mem' = mem /\ chain'[i] = Tail(chain[i]) /\ chain[i] # <<>>
    BY <1>1, <1>6
  <2>2. \A k \in R!Key :
           /\ (\A n \in 1..Len(chain[i]) : Holds(chain[i][n].doc[k], k)) =>
                \A n \in 1..Len(chain'[i]) : Holds(chain[i][n].doc[k], k)'
           /\ \A n \in 1..Len(chain'[i]) : R!IsMark(chain'[i][n].doc[k]) =>
                /\ Holds(mem[i][k], k)'
                /\ \A m \in n..Len(chain'[i]) : Holds(chain[i][m].doc[k], k)'
    BY <1>0, <1>10, <2>1, TailStays
  <2>3. \A j \in Inst \ {i} : chain'[j] = chain[j]
    BY <1>6
  <2>4. UNCHANGED <<up, mem, disk, marked>>
    BY <1>1
  <2> SUFFICES ASSUME NEW j \in Inst, NEW k \in R!Key
               PROVE
      /\ k \in marked[j] =>
           /\ Holds(disk[j][k], k)'
           /\ j \in up => Holds(mem[j][k], k)'
           /\ \A n \in 1..Len(chain'[j]) : Holds(chain[j][n].doc[k], k)'
      /\ \A n \in 1..Len(chain'[j]) : R!IsMark(chain'[j][n].doc[k]) =>
           /\ Holds(mem[j][k], k)'
           /\ \A m \in n..Len(chain'[j]) : Holds(chain[j][m].doc[k], k)'
    BY <2>4 DEF MarksStay
  <2>5. /\ k \in marked[j] => Holds(disk[j][k], k)'
        /\ k \in marked[j] /\ j \in up => Holds(mem[j][k], k)'
    BY <1>0, <1>10, <2>4 DEF MarksStay
  <2>6. CASE j = i
    <3>1. k \in marked[i] => \A n \in 1..Len(chain[i]) : Holds(chain[i][n].doc[k], k)
      BY <1>0 DEF MarksStay
    <3> QED  BY <2>2, <2>5, <2>6, <3>1
  <2>7. CASE j # i
    BY <1>0, <1>10, <2>3, <2>4, <2>7 DEF MarksStay
  <2> QED  BY <2>6, <2>7
<1>14. TellsWhatItHas'
  BY <1>0, <1>1, <1>8 DEF TellsWhatItHas, OnWay
<1>15. WillBeTold'
  <2> SUFFICES ASSUME linked, NEW a \in Inst, NEW c \in Inst, NEW k \in R!Key \ (apart' \cup early),
                      mem[a][k] # NoRecord, mem[a][k].till > now
               PROVE  After(mem[c][k], mem[a][k]) \/ OnWay(mem[a][k], a, k)'
    BY <1>1 DEF WillBeTold
  <2>1. k \in R!Key \ (apart \cup early) /\ k \notin b.tells
    BY <1>1
  <2>2. After(mem[c][k], mem[a][k]) \/ OnWay(mem[a][k], a, k)
    BY <1>0, <2>1 DEF WillBeTold
  <2> QED  BY <1>1, <1>8, <2>1, <2>2 DEF OnWay
<1> QED  BY <1>7, <1>10, <1>11, <1>12, <1>13, <1>14, <1>15 DEF RecordsHold, MarksHold

(* A document that lands is told, and holds what the mark in it refuses.     *)
LEMMA LandsHolds ==
  ASSUME RecordsApart, RecordsHold, NEW i \in Inst, R!Lands(i)
  PROVE  RecordsHold'
<1>0. /\ RecordTypes /\ Quiet /\ WasWritten /\ Lasts /\ MarkOutlasts /\ MarkIsHeld /\ MarksStay
      /\ TellsWhatItHas /\ WillBeTold
  BY DEF RecordsHold, MarksHold
<1> DEFINE b == Head(chain[i])
           f == [k \in b.tells |-> b.doc[k]]
<1>1. /\ chain[i] # <<>> /\ chain' = [chain EXCEPT ![i] = Tail(chain[i])]
      /\ disk' = [disk EXCEPT ![i] = b.doc]
      /\ wire' = IF linked /\ b.tells # {} THEN [wire EXCEPT ![i] = Append(wire[i], f)] ELSE wire
      /\ marked' = [marked EXCEPT ![i] = marked[i] \cup {k \in R!Key : R!IsMark(b.doc[k])}]
      /\ UNCHANGED <<now, up, mem, linked, taken, apart, early>>
  BY DEF R!Lands
<1>2. chain[i] \in Seq(Document) /\ wire[i] \in Seq(Frame)
  BY <1>0 DEF RecordTypes
<1>3. b \in Document /\ b = chain[i][1] /\ 1 \in 1..Len(chain[i]) /\ Tail(chain[i]) \in Seq(Document)
  <2>1. /\ b \in Document /\ b = chain[i][1] /\ Tail(chain[i]) \in Seq(Document)
        /\ Len(chain[i]) \in Nat /\ Len(chain[i]) > 0
    BY <1>1, <1>2, TailIs
  <2> QED  BY <2>1
<1>4. ASSUME NEW r, NEW k
      PROVE  /\ Waits(Tail(chain[i]), r, k) => Waits(chain[i], r, k)
             /\ b.doc[k] = r => Waits(chain[i], r, k)
             /\ Tells(Tail(chain[i]), r, k) => Tells(chain[i], r, k)
             /\ Tells(chain[i], r, k) => \/ Tells(Tail(chain[i]), r, k)
                                         \/ k \in b.tells /\ b.doc[k] = r
             /\ k \in b.tells /\ b.doc[k] = r => Tells(chain[i], r, k)
  BY <1>1, <1>2, WithoutFirstDocument
<1> HIDE DEF b
<1>5. b.doc \in R!Set /\ b.tells \subseteq R!Key /\ \A k \in b.tells : b.doc[k] \in R!Record
  BY <1>3, DocumentIs
<1>6. f \in Frame /\ DOMAIN f = b.tells /\ \A k \in b.tells : f[k] = b.doc[k]
  <2>1. f \in [b.tells -> R!Record]
    BY <1>5
  <2> QED  BY <1>5, <2>1 DEF Frame
<1> HIDE DEF f
<1>7. /\ chain'[i] = Tail(chain[i]) /\ \A j \in Inst \ {i} : chain'[j] = chain[j]
      /\ chain' \in [Inst -> Seq(Document)]
      /\ disk'[i] = b.doc /\ \A j \in Inst \ {i} : disk'[j] = disk[j]
      /\ disk' \in [Inst -> R!Set]
  BY <1>0, <1>1, <1>3, <1>5 DEF RecordTypes
<1>8. /\ marked' \in [Inst -> SUBSET R!Key]
      /\ \A k \in R!Key : k \in marked'[i] <=> k \in marked[i] \/ R!IsMark(b.doc[k])
      /\ \A j \in Inst \ {i} : marked'[j] = marked[j]
  BY <1>0, <1>1 DEF RecordTypes
<1>9. /\ wire' \in [Inst -> Seq(Frame)]
      /\ \A j \in Inst \ {i} : wire'[j] = wire[j]
      /\ ~linked => wire' = wire
      /\ \A r, k : Sent(wire'[i], r, k) => Sent(wire[i], r, k) \/ (k \in b.tells /\ b.doc[k] = r)
      /\ \A r, k : Sent(wire[i], r, k) => Sent(wire'[i], r, k)
      /\ linked => \A r, k : k \in b.tells /\ b.doc[k] = r => Sent(wire'[i], r, k)
  <2>0. wire \in [Inst -> Seq(Frame)]
    BY <1>0 DEF RecordTypes
  <2>1. CASE linked /\ b.tells # {}
    <3>1. wire' = [wire EXCEPT ![i] = Append(wire[i], f)]
      BY <1>1, <2>1
    <3>2. ASSUME NEW r, NEW k
          PROVE  /\ Append(wire[i], f) \in Seq(Frame)
                 /\ Sent(Append(wire[i], f), r, k) <=>
                      Sent(wire[i], r, k) \/ (k \in DOMAIN f /\ f[k] = r)
      BY <1>2, <1>6, BehindFrames
    <3>3. wire'[i] = Append(wire[i], f) /\ Append(wire[i], f) \in Seq(Frame)
      BY <2>0, <3>1, <3>2
    <3>4. wire' \in [Inst -> Seq(Frame)] /\ \A j \in Inst \ {i} : wire'[j] = wire[j]
      BY <2>0, <3>1, <3>3
    <3> QED  BY <1>6, <2>1, <3>2, <3>3, <3>4
  <2>2. CASE ~(linked /\ b.tells # {})
    BY <1>1, <2>0, <2>2
  <2> QED  BY <2>1, <2>2
<1>10. RecordTypes'
  BY <1>0, <1>1, <1>7, <1>8, <1>9 DEF RecordTypes
<1>11. ASSUME NEW j \in Inst, NEW r, NEW k
       PROVE  /\ Waits(chain'[j], r, k) => Waits(chain[j], r, k)
              /\ Tells(chain'[j], r, k) => Tells(chain[j], r, k)
              /\ Sent(wire'[j], r, k) =>
                   Sent(wire[j], r, k) \/ (Tells(chain[j], r, k) /\ Waits(chain[j], r, k))
              /\ linked /\ OnWay(r, j, k) => Tells(chain'[j], r, k) \/ Sent(wire'[j], r, k)
  <2>1. CASE j = i
    <3>1. /\ Waits(chain'[i], r, k) => Waits(chain[i], r, k)
          /\ Tells(chain'[i], r, k) => Tells(chain[i], r, k)
      BY <1>4, <1>7
    <3>2. Sent(wire'[i], r, k) =>
            Sent(wire[i], r, k) \/ (Tells(chain[i], r, k) /\ Waits(chain[i], r, k))
      <4>1. Sent(wire'[i], r, k) => Sent(wire[i], r, k) \/ (k \in b.tells /\ b.doc[k] = r)
        BY <1>9
      <4> QED  BY <1>4, <4>1
    <3>3. ASSUME linked, Tells(chain[i], r, k) \/ Sent(wire[i], r, k)
          PROVE  Tells(chain'[i], r, k) \/ Sent(wire'[i], r, k)
      <4>1. /\ Sent(wire[i], r, k) => Sent(wire'[i], r, k)
            /\ k \in b.tells /\ b.doc[k] = r => Sent(wire'[i], r, k)
        BY <1>9, <3>3, Zenon
      <4>2. Tells(chain[i], r, k) => \/ Tells(chain'[i], r, k)
                                     \/ k \in b.tells /\ b.doc[k] = r
        BY <1>4, <1>7
      <4> QED  BY <3>3, <4>1, <4>2
    <3> QED  BY <2>1, <3>1, <3>2, <3>3 DEF OnWay
  <2>2. CASE j # i
    <3>1. chain'[j] = chain[j] /\ wire'[j] = wire[j]
      BY <1>7, <1>9, <2>2
    <3> QED  BY <3>1 DEF OnWay
  <2> QED  BY <2>1, <2>2
<1>12. \A k \in R!Key, r \in R!Record : Anywhere(r, k)' => Anywhere(r, k)
  <2> SUFFICES ASSUME NEW k \in R!Key, NEW r \in R!Record, Anywhere(r, k)' PROVE Anywhere(r, k)
    OBVIOUS
  <2>1. PICK j \in Inst : \/ mem[j][k] = r \/ disk'[j][k] = r
                          \/ Waits(chain'[j], r, k) \/ Sent(wire'[j], r, k)
    BY <1>1 DEF Anywhere
  <2>2. disk'[j][k] = r => disk[j][k] = r \/ Waits(chain[j], r, k)
    BY <1>4, <1>7
  <2> QED  BY <1>11, <2>1, <2>2 DEF Anywhere
<1>13. /\ WasWritten' /\ Lasts' /\ MarkOutlasts'
       /\ \A k \in R!Key : \A r : Holds(r, k) => Holds(r, k)'
  <2>1. taken' = taken /\ apart \subseteq apart' /\ now' = now
    BY <1>1
  <2>2. now' \in Nat /\ now <= now'
    BY <1>0, <2>1 DEF RecordTypes, RecordsApart
  <2> QED  BY <1>0, <1>12, <2>1, <2>2, NothingNew
<1>14. i \in up
  BY <1>0, <1>1 DEF Quiet
<1>15. Quiet'
  BY <1>0, <1>1, <1>7, <1>9, <1>14 DEF Quiet
<1>16. MarkIsHeld'
  <2> SUFFICES ASSUME NEW j \in Inst, NEW k \in R!Key, NEW m \in R!Record, m.mark
               PROVE  /\ k \in Family /\ (Waits(chain'[j], m, k) \/ Sent(wire'[j], m, k)) =>
                           m.till <= now \/ mem[j][k] = m
                      /\ disk'[j][k] = m => k \in marked'[j]
    BY <1>1 DEF MarkIsHeld
  <2>1. /\ k \in Family /\ (Waits(chain[j], m, k) \/ Sent(wire[j], m, k)) =>
             m.till <= now \/ mem[j][k] = m
        /\ disk[j][k] = m => k \in marked[j]
    BY <1>0 DEF MarkIsHeld
  <2>2. disk'[j][k] = m => k \in marked'[j]
    <3>1. CASE j = i
      BY <1>7, <1>8, <3>1 DEF R!IsMark, RecordsApart
    <3>2. CASE j # i
      BY <1>7, <1>8, <2>1, <3>2
    <3> QED  BY <3>1, <3>2
  <2> QED  BY <1>11, <2>1, <2>2
<1>17. MarksStay'
  <2>1. mem' = mem /\ chain'[i] = Tail(chain[i]) /\ chain[i] # <<>> /\ up' = up
    BY <1>1, <1>7
  <2>2. \A k \in R!Key :
           /\ (\A n \in 1..Len(chain[i]) : Holds(chain[i][n].doc[k], k)) =>
                \A n \in 1..Len(chain'[i]) : Holds(chain[i][n].doc[k], k)'
           /\ \A n \in 1..Len(chain'[i]) : R!IsMark(chain'[i][n].doc[k]) =>
                /\ Holds(mem[i][k], k)'
                /\ \A m \in n..Len(chain'[i]) : Holds(chain[i][m].doc[k], k)'
    BY <1>0, <1>13, <2>1, TailStays
  <2>3. ASSUME NEW k \in R!Key, k \in marked'[i]
        PROVE  /\ Holds(disk[i][k], k)' /\ Holds(mem[i][k], k)'
               /\ \A n \in 1..Len(chain[i]) : Holds(chain[i][n].doc[k], k)
    <3>1. CASE k \in marked[i]
      <4>1. /\ Holds(mem[i][k], k)
            /\ \A n \in 1..Len(chain[i]) : Holds(chain[i][n].doc[k], k)
        BY <1>0, <1>14, <3>1 DEF MarksStay
      <4>2. Holds(disk'[i][k], k)
        BY <1>3, <1>7, <4>1
      <4> QED  BY <1>13, <2>1, <4>1, <4>2
    <3>2. CASE R!IsMark(b.doc[k])
      <4>1. /\ Holds(mem[i][k], k)
            /\ \A n \in 1..Len(chain[i]) : Holds(chain[i][n].doc[k], k)
        BY <1>0, <1>3, <3>2 DEF MarksStay
      <4>2. Holds(disk'[i][k], k)
        BY <1>3, <1>7, <4>1
      <4> QED  BY <1>13, <2>1, <4>1, <4>2
    <3> QED  BY <1>8, <2>3, <3>1, <3>2
  <2>4. \A j \in Inst \ {i} : chain'[j] = chain[j] /\ disk'[j] = disk[j] /\ marked'[j] = marked[j]
    BY <1>7, <1>8
  <2> SUFFICES ASSUME NEW j \in Inst, NEW k \in R!Key
               PROVE
      /\ k \in marked'[j] =>
           /\ Holds(disk[j][k], k)'
           /\ j \in up => Holds(mem[j][k], k)'
           /\ \A n \in 1..Len(chain'[j]) : Holds(chain[j][n].doc[k], k)'
      /\ \A n \in 1..Len(chain'[j]) : R!IsMark(chain'[j][n].doc[k]) =>
           /\ Holds(mem[j][k], k)'
           /\ \A m \in n..Len(chain'[j]) : Holds(chain[j][m].doc[k], k)'
    BY <2>1 DEF MarksStay
  <2>5. CASE j = i
    BY <2>2, <2>3, <2>5
  <2>6. CASE j # i
    BY <1>0, <1>13, <2>1, <2>4, <2>6 DEF MarksStay
  <2> QED  BY <2>5, <2>6
<1>18. TellsWhatItHas'
  BY <1>0, <1>1, <1>11 DEF TellsWhatItHas, OnWay
<1>19. WillBeTold'
  <2> SUFFICES ASSUME linked, NEW a \in Inst, NEW c \in Inst, NEW k \in R!Key \ (apart \cup early),
                      mem[a][k] # NoRecord, mem[a][k].till > now
               PROVE  After(mem[c][k], mem[a][k]) \/ OnWay(mem[a][k], a, k)'
    BY <1>1 DEF WillBeTold
  <2>1. After(mem[c][k], mem[a][k]) \/ OnWay(mem[a][k], a, k)
    BY <1>0 DEF WillBeTold
  <2> QED  BY <1>1, <1>11, <2>1 DEF OnWay
<1> QED  BY <1>10, <1>13, <1>15, <1>16, <1>17, <1>18, <1>19 DEF RecordsHold, MarksHold

(* A frame taken: what it adds came from the other end, and what it          *)
(* replaces was no mark.                                                     *)
LEMMA TakesHolds ==
  ASSUME RecordsApart, RecordsHold, NEW i \in Inst, R!Takes(i)
  PROVE  RecordsHold'
<1>0. /\ RecordTypes /\ Quiet /\ WasWritten /\ Lasts /\ MarkOutlasts /\ MarkIsHeld /\ MarksStay
      /\ TellsWhatItHas /\ WillBeTold
  BY DEF RecordsHold, MarksHold
<1> DEFINE o == R!Other(i)
           f == Head(wire[o])
           D == {k \in DOMAIN f : R!Accepts(mem[i][k], f[k])}
           S == [k \in R!Key |-> IF k \in D THEN f[k] ELSE mem[i][k]]
           T == {k \in R!Key : FALSE}
<1>1. /\ i \in up /\ wire[o] # <<>> /\ wire' = [wire EXCEPT ![o] = Tail(wire[o])]
      /\ IF D = {} THEN UNCHANGED <<mem, chain>> ELSE R!Keep(i, S, T)
      /\ apart' = apart \cup
           {k \in DOMAIN f : mem[i][k] # NoRecord /\ R!Cross(mem[i][k], f[k])}
      /\ early' = early \cup
           {k \in DOMAIN f : mem[i][k] # NoRecord /\ (\/ R!Inverted(mem[i][k], f[k])
                                                     \/ R!Inverted(f[k], mem[i][k]))}
      /\ UNCHANGED <<now, up, disk, linked, taken, marked>>
  <2>1. T = {}
    OBVIOUS
  <2> HIDE DEF T
  <2> QED  BY <2>1 DEF R!Takes, R!Merge
<1>2. o \in Inst /\ o # i /\ \A j \in Inst : j = i \/ j = o
  BY OtherIs
<1> HIDE DEF o
<1>3. wire[o] \in Seq(Frame) /\ mem[i] \in R!Set /\ wire \in [Inst -> Seq(Frame)]
  BY <1>0, <1>2 DEF RecordTypes
<1>4. f \in Frame /\ Tail(wire[o]) \in Seq(Frame)
  BY <1>1, <1>3, TailIs
<1>5. ASSUME NEW r, NEW k
      PROVE  /\ Sent(Tail(wire[o]), r, k) => Sent(wire[o], r, k)
             /\ k \in DOMAIN f /\ f[k] = r => Sent(wire[o], r, k)
             /\ Sent(wire[o], r, k) => Sent(Tail(wire[o]), r, k) \/ (k \in DOMAIN f /\ f[k] = r)
  BY <1>1, <1>3, WithoutFirstFrame
<1> HIDE DEF f
<1>6. DOMAIN f \subseteq R!Key /\ \A k \in DOMAIN f : f[k] \in R!Record
  BY <1>4, FrameIs
<1>7. /\ wire' \in [Inst -> Seq(Frame)]
      /\ wire'[o] = Tail(wire[o]) /\ wire'[i] = wire[i]
  BY <1>1, <1>2, <1>3, <1>4
<1>8. S \in R!Set /\ \A k \in R!Key : S[k] = IF k \in D THEN f[k] ELSE mem[i][k]
  BY <1>3, <1>6 DEF R!Set
<1>9. \A k \in R!Key : k \in D <=> k \in DOMAIN f /\ R!Accepts(mem[i][k], f[k])
  OBVIOUS
<1>10. T \in SUBSET R!Key /\ \A k : k \notin T
  OBVIOUS
<1> HIDE DEF D, S, T
<1>11. /\ mem' \in [Inst -> R!Set] /\ chain' \in [Inst -> Seq(Document)]
       /\ mem'[o] = mem[o] /\ chain'[o] = chain[o]
       /\ \A k \in R!Key : \/ mem'[i][k] = IF Lives(S[k]) THEN S[k] ELSE NoRecord
                           \/ k \notin D /\ mem'[i][k] = mem[i][k]
       /\ \A r, k : /\ Waits(chain'[i], r, k) => Waits(chain[i], r, k) \/ mem'[i][k] = r
                    /\ Tells(chain'[i], r, k) <=> Tells(chain[i], r, k)
  <2>1. CASE D = {}
    BY <1>0, <1>1, <2>1 DEF RecordTypes
  <2>2. CASE D # {}
    <3>1. R!Keep(i, S, T) /\ \A k \in T : Lives(S[k])
      BY <1>1, <1>10, <2>2
    <3>2. /\ mem' \in [Inst -> R!Set] /\ chain' \in [Inst -> Seq(Document)]
          /\ \A j \in Inst \ {i} : mem'[j] = mem[j] /\ chain'[j] = chain[j]
          /\ \A k \in R!Key : /\ Lives(S[k]) => mem'[i][k] = S[k]
                              /\ ~Lives(S[k]) => mem'[i][k] = NoRecord
          /\ \E b \in Document : b.doc = mem'[i] /\ b.tells = T /\ chain'[i] = Append(chain[i], b)
      BY <1>0, <1>8, <1>10, <3>1, KeepIs
    <3>3. PICK b \in Document : b.doc = mem'[i] /\ b.tells = T /\ chain'[i] = Append(chain[i], b)
      BY <3>2
    <3>4. ASSUME NEW r, NEW k
          PROVE  /\ Waits(chain'[i], r, k) => Waits(chain[i], r, k) \/ mem'[i][k] = r
                 /\ Tells(chain'[i], r, k) <=> Tells(chain[i], r, k)
      <4>1. chain[i] \in Seq(Document)
        BY <1>0 DEF RecordTypes
      <4>2. /\ Waits(chain'[i], r, k) <=> Waits(chain[i], r, k) \/ mem'[i][k] = r
            /\ Tells(chain'[i], r, k) <=> Tells(chain[i], r, k) \/ (k \in T /\ mem'[i][k] = r)
        BY <3>3, <4>1, BehindDocuments
      <4> QED  BY <1>10, <4>2
    <3> QED  BY <1>2, <3>2, <3>4
  <2> QED  BY <2>1, <2>2
<1>12. RecordTypes'
  <2>1. apart' \subseteq R!Key /\ early' \subseteq R!Key
    BY <1>0, <1>1, <1>6 DEF RecordTypes
  <2> QED  BY <1>0, <1>1, <1>7, <1>11, <2>1 DEF RecordTypes
<1>13. ASSUME NEW k \in R!Key, NEW r, r # NoRecord, mem'[i][k] = r
       PROVE  mem[i][k] = r \/ Sent(wire[o], r, k)
  BY <1>5, <1>8, <1>9, <1>11, <1>13
<1>14. ASSUME NEW j \in Inst, NEW k \in R!Key, NEW r \in R!Record
       PROVE  /\ Sent(wire'[j], r, k) => Sent(wire[j], r, k)
              /\ Waits(chain'[j], r, k) => \/ Waits(chain[j], r, k)
                                           \/ j = i /\ mem'[i][k] = r
              /\ Tells(chain'[j], r, k) <=> Tells(chain[j], r, k)
              /\ mem'[j][k] = r => mem[j][k] = r \/ Sent(wire[o], r, k)
  <2>1. r # NoRecord
    BY DEF RecordsApart
  <2>2. CASE j = i
    BY <1>7, <1>11, <1>13, <2>1, <2>2
  <2>3. CASE j = o
    BY <1>5, <1>7, <1>11, <2>3
  <2> QED  BY <1>2, <2>2, <2>3
<1>15. \A k \in R!Key, r \in R!Record : Anywhere(r, k)' => Anywhere(r, k)
  <2> SUFFICES ASSUME NEW k \in R!Key, NEW r \in R!Record, Anywhere(r, k)' PROVE Anywhere(r, k)
    OBVIOUS
  <2>1. PICK j \in Inst : \/ mem'[j][k] = r \/ disk[j][k] = r
                          \/ Waits(chain'[j], r, k) \/ Sent(wire'[j], r, k)
    BY <1>1 DEF Anywhere
  <2> QED  BY <1>2, <1>14, <2>1 DEF Anywhere
<1>16. /\ WasWritten' /\ Lasts' /\ MarkOutlasts'
       /\ \A k \in R!Key : \A r : Holds(r, k) => Holds(r, k)'
  <2>1. taken' = taken /\ apart \subseteq apart' /\ now' = now
    BY <1>1
  <2>2. now' \in Nat /\ now <= now'
    BY <1>0, <2>1 DEF RecordTypes, RecordsApart
  <2> QED  BY <1>0, <1>15, <2>1, <2>2, NothingNew
<1>17. Quiet'
  <2>1. ~linked => wire[o] = <<>>
    BY <1>0, <1>2 DEF Quiet
  <2>2. \A j \in Inst : j \notin up => chain'[j] = <<>>
    BY <1>0, <1>1, <1>2, <1>11 DEF Quiet
  <2> QED  BY <1>0, <1>1, <2>1, <2>2 DEF Quiet
<1>18. \A k \in R!Key : R!IsMark(mem[i][k]) => k \notin D
  BY <1>9 DEF R!IsMark, R!Accepts
<1>19. \A k \in R!Key \ D : \/ mem'[i][k] = IF Lives(mem[i][k]) THEN mem[i][k] ELSE NoRecord
                            \/ mem'[i][k] = mem[i][k]
  BY <1>8, <1>11
<1>20. MarkIsHeld'
  <2> SUFFICES ASSUME NEW j \in Inst, NEW k \in R!Key, NEW m \in R!Record, m.mark
               PROVE  /\ k \in Family /\ (Waits(chain'[j], m, k) \/ Sent(wire'[j], m, k)) =>
                           m.till <= now \/ mem'[j][k] = m
                      /\ disk[j][k] = m => k \in marked[j]
    <3>1. UNCHANGED <<now, disk, marked>>
      BY <1>1
    <3> QED  BY <3>1 DEF MarkIsHeld
  <2>1. /\ k \in Family /\ (Waits(chain[j], m, k) \/ Sent(wire[j], m, k)) =>
             m.till <= now \/ mem[j][k] = m
        /\ disk[j][k] = m => k \in marked[j]
    BY <1>0 DEF MarkIsHeld
  <2>2. m.till \in Nat /\ now \in Nat
    BY <1>0 DEF R!Record, RecordTypes, RecordsApart
  <2>3. mem[j][k] = m => m.till <= now \/ mem'[j][k] = m
    <3>1. CASE j = o
      BY <1>11, <3>1
    <3>2. CASE j = i
      <4>1. mem[i][k] = m => k \notin D
        BY <1>18 DEF R!IsMark, RecordsApart
      <4> QED  BY <1>19, <2>2, <3>2, <4>1 DEF Lives
    <3> QED  BY <1>2, <3>1, <3>2
  <2> QED  BY <1>14, <2>1, <2>3
<1>21. MarksStay'
  <2>1. ASSUME NEW k \in R!Key, Holds(mem[i][k], k) PROVE Holds(mem[i][k], k)'
    <3>1. CASE k \in D
      <4>1. Holds(mem'[i][k], k)
        BY <1>18, <2>1, <3>1 DEF Holds
      <4> QED  BY <1>16, <4>1
    <3>2. CASE k \notin D
      <4>1. Holds(IF Lives(mem[i][k]) THEN mem[i][k] ELSE NoRecord, k)
        BY <1>0, <2>1, ForgottenHolds
      <4>2. Holds(mem'[i][k], k)
        BY <1>19, <2>1, <3>2, <4>1
      <4> QED  BY <1>16, <4>2
    <3> QED  BY <3>1, <3>2
  <2>2. UNCHANGED <<disk, marked, up>> /\ i \in up
    BY <1>1
  <2>3. CASE D = {}
    <3>1. mem' = mem /\ chain' = chain
      BY <1>1, <2>3
    <3> QED  BY <1>0, <1>16, <2>2, <3>1 DEF MarksStay
  <2>4. CASE D # {}
    <3>1. R!Keep(i, S, T) /\ \A k \in T : Lives(S[k])
      BY <1>1, <1>10, <2>4
    <3>2. /\ \A j \in Inst \ {i} : mem'[j] = mem[j] /\ chain'[j] = chain[j]
          /\ \E b \in Document : b.doc = mem'[i] /\ b.tells = T /\ chain'[i] = Append(chain[i], b)
      BY <1>0, <1>8, <1>10, <3>1, KeepIs
    <3> QED  BY <1>0, <1>16, <2>1, <2>2, <3>2, KeepStays
  <2> QED  BY <2>3, <2>4
<1>22. ASSUME NEW k \in R!Key \ (apart' \cup early'), k \in DOMAIN f, mem[i][k] # NoRecord
       PROVE  /\ mem[i][k] \in R!Record /\ f[k] \in R!Record
              /\ k \in D => After(f[k], mem[i][k])
              /\ k \notin D => After(mem[i][k], f[k])
  <2>1. mem[i][k] \in R!Record /\ f[k] \in R!Record
    BY <1>3, <1>6, <1>22 DEF R!Set
  <2>2. ~R!Cross(mem[i][k], f[k]) /\ ~R!Inverted(mem[i][k], f[k]) /\ ~R!Inverted(f[k], mem[i][k])
    BY <1>1, <1>22
  <2>3. /\ mem[i][k].at \in Nat /\ f[k].at \in Nat
        /\ mem[i][k].till \in Nat /\ f[k].till \in Nat
        /\ mem[i][k] # NoRecord /\ f[k] # NoRecord
    BY <2>1 DEF R!Record, RecordsApart
  <2>4. k \in D => After(f[k], mem[i][k])
    <3>1. k \in D => mem[i][k].at < f[k].at /\ ~mem[i][k].mark
      BY <1>9, <2>3 DEF R!Accepts
    <3> QED  BY <2>2, <2>3, <3>1 DEF After, R!Inverted
  <2>5. k \notin D => After(mem[i][k], f[k])
    <3>1. k \notin D => mem[i][k] = f[k] \/ (f[k].at < mem[i][k].at /\ ~f[k].mark)
      BY <1>9, <1>22, <2>2, <2>3 DEF R!Accepts, R!Cross
    <3> QED  BY <2>2, <2>3, <3>1 DEF After, R!Inverted
  <2> QED  BY <2>1, <2>4, <2>5
<1>23. ASSUME NEW k \in R!Key \ (apart' \cup early'), NEW r \in R!Record, r.till > now,
              After(mem[i][k], r) \/ (k \in DOMAIN f /\ f[k] = r)
       PROVE  After(mem'[i][k], r)
  <2>1. mem[i][k] \in R!Record \cup {NoRecord} /\ S[k] \in R!Record \cup {NoRecord}
    BY <1>3, <1>8 DEF R!Set
  <2>2. After(S[k], r)
    <3>1. CASE After(mem[i][k], r)
      <4>1. mem[i][k] \in R!Record /\ mem[i][k] # NoRecord
        BY <2>1, <3>1 DEF After
      <4>2. CASE k \in D
        <5>1. f[k] \in R!Record /\ After(f[k], mem[i][k])
          BY <1>9, <1>22, <4>1, <4>2
        <5>2. S[k] = f[k]
          BY <1>8, <4>2
        <5> QED  BY <1>0, <3>1, <4>1, <5>1, <5>2, AfterIs
      <4>3. CASE k \notin D
        BY <1>8, <3>1, <4>3
      <4> QED  BY <4>2, <4>3
    <3>2. CASE k \in DOMAIN f /\ f[k] = r
      <4>1. CASE k \in D
        BY <1>0, <1>8, <3>2, <4>1, AfterIs
      <4>2. CASE k \notin D
        <5>1. mem[i][k] # NoRecord
          BY <1>9, <3>2, <4>2 DEF R!Accepts
        <5> QED  BY <1>8, <1>22, <3>2, <4>2, <5>1
      <4> QED  BY <4>1, <4>2
    <3> QED  BY <1>23, <3>1, <3>2
  <2>3. Lives(S[k])
    BY <1>0, <1>23, <2>1, <2>2, AfterIs
  <2>4. mem'[i][k] = S[k]
    BY <1>8, <1>11, <2>3
  <2> QED  BY <2>2, <2>4
<1>24. TellsWhatItHas'
  <2> SUFFICES ASSUME NEW j \in Inst, NEW k \in R!Key \ (apart' \cup early'), NEW r \in R!Record,
                      OnWay(r, j, k)', r.till > now
               PROVE  After(mem'[j][k], r)
    BY <1>1 DEF TellsWhatItHas
  <2>0. k \in R!Key \ (apart \cup early)
    BY <1>1
  <2>1. OnWay(r, j, k)
    BY <1>14 DEF OnWay
  <2>2. After(mem[j][k], r)
    BY <1>0, <2>0, <2>1 DEF TellsWhatItHas
  <2> QED  BY <1>2, <1>11, <1>23, <2>2
<1>25. WillBeTold'
  <2> SUFFICES ASSUME linked, NEW a \in Inst, NEW c \in Inst, NEW k \in R!Key \ (apart' \cup early'),
                      mem'[a][k] # NoRecord, mem'[a][k].till > now
               PROVE  After(mem'[c][k], mem'[a][k]) \/ OnWay(mem[a][k], a, k)'
    BY <1>1 DEF WillBeTold
  <2>0. k \in R!Key \ (apart \cup early)
    BY <1>1
  <2> DEFINE r == mem'[a][k]
  <2>1. r \in R!Record
    BY <1>11 DEF R!Set
  <2>2. CASE a = c
    BY <1>0, <2>1, <2>2, AfterIs
  <2>3. CASE a = i /\ c = o
    <3>1. mem[i][k] = r \/ Sent(wire[o], r, k)
      BY <1>14, <2>1, <2>3
    <3>2. CASE mem[i][k] = r
      <4>1. After(mem[o][k], r) \/ OnWay(r, i, k)
        BY <1>0, <1>2, <2>0, <3>2 DEF WillBeTold
      <4>2. OnWay(r, i, k) => Tells(chain'[i], r, k) \/ Sent(wire'[i], r, k)
        BY <1>7, <1>11 DEF OnWay
      <4> QED  BY <1>11, <2>3, <4>1, <4>2 DEF OnWay
    <3>3. CASE Sent(wire[o], r, k)
      <4>1. OnWay(r, o, k)
        BY <3>3 DEF OnWay
      <4>2. After(mem[o][k], r)
        BY <1>0, <1>2, <2>0, <2>1, <4>1 DEF TellsWhatItHas
      <4> QED  BY <1>11, <2>3, <4>2
    <3> QED  BY <3>1, <3>2, <3>3
  <2>4. CASE a = o /\ c = i
    <3>1. mem[o][k] = r
      BY <1>11, <2>4
    <3>2. After(mem[i][k], r) \/ OnWay(r, o, k)
      BY <1>0, <1>2, <2>0, <3>1 DEF WillBeTold
    <3>3. OnWay(r, o, k) => \/ Tells(chain'[o], r, k) \/ Sent(wire'[o], r, k)
                            \/ k \in DOMAIN f /\ f[k] = r
      BY <1>5, <1>7, <1>11 DEF OnWay
    <3> QED  BY <1>23, <2>1, <2>4, <3>2, <3>3 DEF OnWay
  <2> QED  BY <1>2, <2>2, <2>3, <2>4
<1> QED  BY <1>12, <1>16, <1>17, <1>20, <1>21, <1>24, <1>25 DEF RecordsHold, MarksHold

(* A key that is new was nowhere, and one that stands has no mark that       *)
(* would outlast it.                                                         *)
LEMMA WriteHolds ==
  ASSUME RecordsApart, RecordsHold, NEW i \in Inst, NEW n \in R!Key, R!Write(i, n)
  PROVE  RecordsHold'
<1>0. RecordTypes /\ Quiet /\ WasWritten /\ Lasts /\ MarkOutlasts /\ MarkIsHeld /\ MarksStay
  BY DEF RecordsHold, MarksHold
<1> DEFINE h == mem[i][n]
           w == [at |-> R!Stamp(h), by |-> i, mark |-> FALSE,
                 till |-> IF n \in Family THEN now + Life ELSE R!Never]
<1>1. /\ i \in up
      /\ IF n \in taken THEN h # NoRecord /\ ~R!Over(h) ELSE TRUE
      /\ R!Accepts(h, w)
      /\ taken' = taken \cup {n}
      /\ apart' = IF \E j \in Inst : n \in marked[j] \/ R!IsMark(mem[j][n])
                  THEN apart \cup {n} ELSE apart
      /\ R!Keep(i, [mem[i] EXCEPT ![n] = w], {n})
      /\ UNCHANGED <<now, up, disk, linked, wire, marked, early>>
  BY DEF R!Write
<1>2. h \in R!Record \cup {NoRecord}
  BY <1>0, HeldTypes
<1>3. /\ now \in Nat /\ now <= RecordsTime /\ RecordsTime \in Nat
      /\ Life \in Nat /\ Life > 0 /\ Retention \in Nat
      /\ R!Never = RecordsTime + Life + Retention + 1
  BY <1>0 DEF RecordTypes, RecordsApart, R!Never
<1>4. h # NoRecord => h.at \in Nat /\ h.till \in Nat /\ h.mark \in BOOLEAN /\ h \in R!Record
  BY <1>2 DEF R!Record
<1>5. R!Stamp(h) \in Nat /\ (h # NoRecord => h.at < R!Stamp(h))
  BY <1>3, <1>4 DEF R!Stamp
<1>6. w.till \in Nat /\ now < w.till
  BY <1>3
<1>7. w \in R!Record
  BY <1>5, <1>6 DEF R!Record
<1>8. /\ w.at = R!Stamp(h) /\ ~w.mark /\ w.till = IF n \in Family THEN now + Life ELSE R!Never
  OBVIOUS
<1> HIDE DEF w, h
<1>9. w # NoRecord /\ Lives(w)
  BY <1>6, <1>7 DEF Lives, RecordsApart
<1>10. h # NoRecord => ~h.mark
  BY <1>1 DEF R!Accepts
<1>11. ~R!IsMark(h)
  BY <1>10 DEF R!IsMark
<1>12. Anywhere(h, n)
  BY DEF Anywhere, h
<1>13. h # NoRecord => After(w, h)
  <2> SUFFICES ASSUME h # NoRecord PROVE After(w, h)
    OBVIOUS
  <2>1. h.at < w.at
    BY <1>5, <1>8
  <2>2. h.till <= w.till
    <3>1. /\ n \in Lasting => h.till = R!Never
          /\ n \in Family => h.till <= now + Life
      BY <1>0, <1>4, <1>10, <1>12 DEF Lasts
    <3>2. n \in Lasting \/ n \in Family
      BY DEF R!Key
    <3> QED  BY <1>3, <1>4, <1>8, <3>1, <3>2 DEF RecordsApart
  <2> QED  BY <1>9, <1>10, <2>1, <2>2 DEF After
<1>14. n \in taken => h \in R!Record /\ h.till > now
  <2>1. n \in taken => h # NoRecord /\ ~(h.till <= now)
    BY <1>1 DEF R!Over
  <2> QED  BY <1>3, <1>4, <2>1
<1>15. AllOver(n) => w.mark
  <2>1. AllOver(n) => n \in taken /\ (h \in R!Record => h.mark \/ h.till <= now)
    BY <1>12 DEF AllOver
  <2> QED  BY <1>3, <1>4, <1>10, <1>14, <2>1 DEF RecordsApart
<1>16. ASSUME n \in Family \ apart', NEW r \in R!Record, Anywhere(r, n)
       PROVE  ~r.mark
  <2> SUFFICES ASSUME r.mark PROVE FALSE
    OBVIOUS
  <2>1. n \in taken
    BY <1>0, <1>16 DEF WasWritten
  <2>2. /\ n \notin apart
        /\ \A j \in Inst : n \notin marked[j] /\ ~R!IsMark(mem[j][n])
    BY <1>1, <1>16
  <2>3. PICK j \in Inst : \/ mem[j][n] = r \/ disk[j][n] = r
                          \/ Waits(chain[j], r, n) \/ Sent(wire[j], r, n)
    BY <1>16 DEF Anywhere
  <2>4. mem[j][n] # r
    BY <2>2 DEF R!IsMark, RecordsApart
  <2>5. disk[j][n] # r
    BY <1>0, <2>2 DEF MarkIsHeld
  <2>6. r.till <= now
    BY <1>0, <1>16, <2>3, <2>4, <2>5 DEF MarkIsHeld
  <2>7. h \in R!Record /\ h.till > now /\ ~h.mark
    BY <1>10, <1>14, <2>1 DEF RecordsApart
  <2>8. h.till <= r.till
    BY <1>0, <1>12, <1>16, <2>2, <2>7 DEF MarkOutlasts
  <2>9. r.till \in Nat
    BY DEF R!Record
  <2> QED  BY <1>3, <1>4, <2>6, <2>7, <2>8, <2>9 DEF RecordsApart
<1>17. apart \subseteq apart' /\ apart' \subseteq R!Key
  BY <1>0, <1>1 DEF RecordTypes
<1>18. /\ n \in Lasting => w.till = R!Never
       /\ n \in Family /\ ~w.mark => w.till <= now + Life
  BY <1>3, <1>8 DEF RecordsApart
<1>19. n \in Family \ apart' => \A r \in R!Record : Anywhere(r, n) =>
         /\ w.mark => r.mark \/ r.till <= w.till
         /\ ~w.mark => ~r.mark
  BY <1>8, <1>16
<1>20. /\ R!IsMark(mem[i][n]) => n \in Lasting /\ w.mark
       /\ (mem[i][n] # NoRecord => After(w, mem[i][n]))
  BY <1>11, <1>13 DEF h
<1> QED  BY <1>1, <1>7, <1>9, <1>15, <1>17, <1>18, <1>19, <1>20, PutsHolds

(* The mark over a family is kept as long as anything of it lasts.           *)
LEMMA EraseHolds ==
  ASSUME RecordsApart, RecordsHold, NEW i \in Inst, NEW n \in R!Key, R!Erase(i, n)
  PROVE  RecordsHold'
<1>0. RecordTypes /\ Quiet /\ WasWritten /\ Lasts /\ MarkOutlasts /\ MarkIsHeld /\ MarksStay
  BY DEF RecordsHold, MarksHold
<1> DEFINE h == mem[i][n]
           w == [at |-> R!Stamp(h), by |-> i, mark |-> TRUE,
                 till |-> IF n \in Family THEN now + Retention ELSE R!Never]
<1>1. /\ i \in up /\ h # NoRecord /\ (h.mark => n \in Lasting)
      /\ R!Keep(i, [mem[i] EXCEPT ![n] = w], {n})
      /\ UNCHANGED <<now, up, disk, linked, wire, taken, marked, apart, early>>
  BY DEF R!Erase
<1>2. h \in R!Record
  BY <1>0, <1>1, HeldTypes
<1>3. /\ now \in Nat /\ now <= RecordsTime /\ RecordsTime \in Nat
      /\ Life \in Nat /\ Life > 0 /\ Retention \in Nat /\ Life <= Retention
      /\ R!Never = RecordsTime + Life + Retention + 1
  BY <1>0 DEF RecordTypes, RecordsApart, R!Never
<1>4. h.at \in Nat /\ h.till \in Nat
  BY <1>2 DEF R!Record
<1>5. R!Stamp(h) \in Nat /\ h.at < R!Stamp(h)
  BY <1>1, <1>3, <1>4 DEF R!Stamp
<1>6. w.till \in Nat /\ now < w.till
  BY <1>3
<1>7. w \in R!Record
  BY <1>5, <1>6 DEF R!Record
<1>8. /\ w.at = R!Stamp(h) /\ w.mark /\ w.till = IF n \in Family THEN now + Retention ELSE R!Never
  OBVIOUS
<1> HIDE DEF w, h
<1>9. w # NoRecord /\ Lives(w)
  BY <1>6, <1>7 DEF Lives, RecordsApart
<1>10. Anywhere(h, n)
  BY DEF Anywhere, h
<1>11. n \in Lasting \/ n \in Family
  BY DEF R!Key
<1>12. ASSUME NEW r \in R!Record, Anywhere(r, n), ~r.mark PROVE r.till <= w.till
  <2>1. /\ n \in Lasting => r.till = R!Never
        /\ n \in Family => r.till <= now + Life
    BY <1>0, <1>12 DEF Lasts
  <2>2. r.till \in Nat
    BY DEF R!Record
  <2> QED  BY <1>3, <1>8, <1>11, <2>1, <2>2 DEF RecordsApart
<1>13. After(w, h)
  <2>1. n \in Lasting => h.till = R!Never /\ w.till = R!Never
    BY <1>0, <1>2, <1>8, <1>10 DEF Lasts, RecordsApart
  <2>2. h.till <= w.till
    BY <1>1, <1>2, <1>4, <1>6, <1>10, <1>12, <2>1
  <2>3. h.at < w.at
    BY <1>5, <1>8
  <2> QED  BY <1>8, <1>9, <2>2, <2>3 DEF After
<1>14. taken' = taken \cup {n}
  BY <1>0, <1>1, <1>2, <1>10 DEF WasWritten
<1>15. apart \subseteq apart' /\ apart' \subseteq R!Key
  BY <1>0, <1>1 DEF RecordTypes
<1>16. /\ n \in Lasting => w.till = R!Never
       /\ n \in Family /\ ~w.mark => w.till <= now + Life
  BY <1>8 DEF RecordsApart
<1>17. n \in Family \ apart' => \A r \in R!Record : Anywhere(r, n) =>
         /\ w.mark => r.mark \/ r.till <= w.till
         /\ ~w.mark => ~r.mark
  BY <1>8, <1>12
<1>18. /\ R!IsMark(mem[i][n]) => n \in Lasting /\ w.mark
       /\ (mem[i][n] # NoRecord => After(w, mem[i][n]))
  BY <1>1, <1>8, <1>13 DEF h, R!IsMark
<1>19. UNCHANGED <<now, up, disk, linked, wire, marked, early>> /\ (AllOver(n) => w.mark)
  BY <1>1, <1>8
<1> QED  BY <1>1, <1>7, <1>9, <1>14, <1>15, <1>16, <1>17, <1>18, <1>19, PutsHolds

LEMMA RecordsStep ==
  ASSUME RecordsApart, RecordsHold, [R!Next]_(R!vars)
  PROVE  RecordsHold'
<1>1. ASSUME NEW i \in Inst, NEW k \in R!Key, R!Write(i, k) \/ R!Erase(i, k)
      PROVE  RecordsHold'
  BY <1>1, WriteHolds, EraseHolds
<1>2. ASSUME NEW i \in Inst, R!Lands(i) \/ R!LandFails(i) \/ R!Takes(i) \/ R!Kill(i) \/ R!Load(i)
      PROVE  RecordsHold'
  BY <1>2, LandsHolds, LandFailsHolds, TakesHolds, KillHolds, LoadHolds
<1>3. CASE R!Relink \/ R!Cut \/ R!Tick
  BY <1>3, RelinkHolds, CutHolds, TickHolds
<1>4. CASE UNCHANGED R!vars
  <2>1. UNCHANGED <<now, up, mem, chain, disk, linked, wire, taken, marked, apart, early>>
    BY <1>4 DEF R!vars
  <2>2. \A r, k : Anywhere(r, k)' <=> Anywhere(r, k)
    BY <2>1 DEF Anywhere
  <2>3. \A k : AllOver(k)' <=> AllOver(k)
    BY <2>1, <2>2 DEF AllOver
  <2>4. \A r, k : Holds(r, k)' <=> Holds(r, k)
    BY <2>1, <2>3 DEF Holds
  <2>5. \A r, i, k : OnWay(r, i, k)' <=> OnWay(r, i, k)
    BY <2>1 DEF OnWay
  <2>6. RecordTypes' /\ Quiet'
    BY <2>1 DEF RecordTypes, Quiet, RecordsHold, MarksHold
  <2>7. WasWritten' /\ Lasts' /\ MarkOutlasts'
    BY <2>1, <2>2 DEF WasWritten, Lasts, MarkOutlasts, RecordsHold, MarksHold
  <2>8. MarkIsHeld'
    BY <2>1 DEF MarkIsHeld, RecordsHold, MarksHold
  <2>9. MarksStay'
    BY <2>1, <2>4 DEF MarksStay, RecordsHold, MarksHold
  <2>10. TellsWhatItHas'
    BY <2>1, <2>5 DEF TellsWhatItHas, RecordsHold
  <2>11. WillBeTold'
    <3> SUFFICES ASSUME linked, NEW i \in Inst, NEW j \in Inst, NEW k \in R!Key \ (apart \cup early),
                        mem[i][k] # NoRecord, mem[i][k].till > now
                 PROVE  After(mem[j][k], mem[i][k]) \/ OnWay(mem[i][k], i, k)'
      BY <2>1 DEF WillBeTold
    <3> QED  BY <2>1 DEF WillBeTold, RecordsHold, OnWay
  <2> QED  BY <2>6, <2>7, <2>8, <2>9, <2>10, <2>11 DEF RecordsHold, MarksHold
<1> QED  BY <1>1, <1>2, <1>3, <1>4 DEF R!Next

(* RecordsHold is enough for both properties.                                *)
LEMMA MarkStandsHolds ==
  ASSUME RecordsApart, RecordsHold
  PROVE  R!MarkStands
<1>0. RecordTypes /\ MarksStay
  BY DEF RecordsHold, MarksHold
<1> SUFFICES ASSUME NEW i \in up, NEW k \in R!Key, k \in marked[i]
             PROVE  \/ R!Expire(mem[i])[k] = NoRecord
                    \/ R!IsMark(mem[i][k])
                    \/ k \in Family \cap apart
  BY DEF R!MarkStands
<1>1. i \in Inst
  BY <1>0 DEF RecordTypes
<1>2. Holds(mem[i][k], k)
  BY <1>0, <1>1 DEF MarksStay
<1>3. CASE k \in Family /\ AllOver(k)
  <2>1. mem[i][k] \in R!Record \cup {NoRecord}
    BY <1>0, <1>1, HeldTypes
  <2>2. Anywhere(mem[i][k], k)
    BY <1>1 DEF Anywhere
  <2>3. mem[i][k] = NoRecord \/ mem[i][k].mark \/ R!Over(mem[i][k])
    BY <1>3, <2>1, <2>2 DEF AllOver, R!Over, RecordsApart
  <2> QED  BY <2>3 DEF R!Expire, R!IsMark
<1> QED  BY <1>2, <1>3 DEF Holds

LEMMA ConvergesHolds ==
  ASSUME RecordsApart, RecordsHold
  PROVE  R!Converges
<1>0. RecordTypes /\ WillBeTold
  BY DEF RecordsHold, MarksHold
<1> SUFFICES ASSUME linked, \A i \in Inst : chain[i] = <<>> /\ wire[i] = <<>>,
                    NEW k \in R!Key \ (apart \cup early), NEW i \in Inst, NEW j \in Inst
             PROVE  R!Expire(mem[i])[k] = R!Expire(mem[j])[k]
  BY DEF R!Converges
<1>1. \A a \in Inst : ~OnWay(mem[a][k], a, k)
  BY NothingWaits DEF OnWay
<1>2. \A a, c \in Inst : Lives(mem[a][k]) => After(mem[c][k], mem[a][k])
  BY <1>0, <1>1 DEF WillBeTold, Lives
<1>3. \A a \in Inst : /\ mem[a][k] \in R!Record \cup {NoRecord}
                      /\ R!Expire(mem[a])[k] = IF Lives(mem[a][k]) THEN mem[a][k] ELSE NoRecord
  <2> SUFFICES ASSUME NEW a \in Inst
               PROVE  /\ mem[a][k] \in R!Record \cup {NoRecord}
                      /\ R!Expire(mem[a])[k] = IF Lives(mem[a][k]) THEN mem[a][k] ELSE NoRecord
    OBVIOUS
  <2>1. mem[a] \in R!Set /\ now \in Nat
    BY <1>0 DEF RecordTypes, RecordsApart
  <2> QED  BY <1>0, <2>1, ExpireIs, HeldTypes
<1>4. ASSUME NEW a \in Inst, NEW c \in Inst, Lives(mem[a][k])
      PROVE  Lives(mem[c][k]) /\ mem[c][k] = mem[a][k]
  <2>1. After(mem[c][k], mem[a][k]) /\ mem[a][k] \in R!Record /\ mem[a][k].till > now
    BY <1>2, <1>3, <1>4 DEF Lives
  <2>2. mem[c][k] \in R!Record /\ Lives(mem[c][k])
    BY <1>0, <1>3, <2>1, AfterIs
  <2>3. After(mem[a][k], mem[c][k])
    BY <1>2, <2>2
  <2>4. mem[a][k].at \in Nat /\ mem[c][k].at \in Nat
    BY <2>1, <2>2 DEF R!Record
  <2> QED  BY <2>1, <2>2, <2>3, <2>4 DEF After
<1> QED  BY <1>3, <1>4

LEMMA RecordsAlways ==
  ASSUME RecordsApart
  PROVE  MCSpec => [](machine = "records" => RecordsHold)
<1> DEFINE InRecords == machine = "records" => RecordsHold
<1>1. MCInit => InRecords
  BY NoneToStartWith DEF MCInit, InitRecords, InitTokens, InitCeremonies, InitAbroad
<1>2. InRecords /\ [MCNext]_MCvars => InRecords'
  <2> SUFFICES ASSUME InRecords, [MCNext]_MCvars, machine' = "records" PROVE RecordsHold'
    OBVIOUS
  <2>1. CASE OnlyRecords /\ R!Next
    <3>1. machine = "records"
      BY <2>1 DEF OnlyRecords
    <3> QED  BY <2>1, <3>1, RecordsStep
  <2>2. CASE OnlyTokens \/ OnlyCeremonies \/ OnlyAbroad
    BY <2>2 DEF OnlyTokens, OnlyCeremonies, OnlyAbroad
  <2>3. CASE UNCHANGED MCvars
    <3>1. machine = "records" /\ UNCHANGED R!vars
      BY <2>3 DEF MCvars, R!vars
    <3> QED  BY <3>1, RecordsStep
  <2> QED  BY <2>1, <2>2, <2>3 DEF MCNext
<1> QED  BY <1>1, <1>2, PTL DEF MCSpec

(* A removal that was written down stands at that instance through kills,  *)
(* cuts, documents that cannot be written and peers that come back         *)
(* (accepts, fail).                                                        *)
THEOREM RemovalsStand == RecordsApart => (MCSpec => []MarkStands)
<1> SUFFICES ASSUME RecordsApart PROVE MCSpec => []MarkStands
  OBVIOUS
<1>1. (machine = "records" => RecordsHold) => MarkStands
  BY MarkStandsHolds DEF MarkStands
<1> QED  BY <1>1, RecordsAlways, PTL

(* Two instances that have heard each other out hold the same records      *)
(* (merge, the snapshot of a subscription).                                *)
THEOREM RecordsConverge == RecordsApart => (MCSpec => []Converges)
<1> SUFFICES ASSUME RecordsApart PROVE MCSpec => []Converges
  OBVIOUS
<1>1. (machine = "records" => RecordsHold) => Converges
  BY ConvergesHolds DEF Converges
<1> QED  BY <1>1, RecordsAlways, PTL

=============================================================================
