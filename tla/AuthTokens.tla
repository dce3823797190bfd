----------------------------- MODULE AuthTokens -----------------------------
(***************************************************************************)
(* One token family, rotated by whichever of two instances a browser's     *)
(* requests reach (src/src/auth/auth.ts: refreshToken, signout, admits,    *)
(* hold, extend; records.ts: byRefresh, naming, retiring, fail; http.ts:   *)
(* the routes refresh and signout).  Pages of one browser share one cookie *)
(* jar, a request carries what the jar held when it was sent, a reply may  *)
(* be lost or overtaken, and the instances hear of each other's rotations  *)
(* in any order or not at all.  Refresh values are numbers in the order    *)
(* they were minted; the ceremony that makes a family is in Auth.          *)
(***************************************************************************)
EXTENDS Integers, FiniteSets

CONSTANTS
  Inst, Page, Conn,
  REFRESH_TTL, ACCESS_TTL, ACCESS_KEEP, PREVIOUS_GRACE,
  MaxTime, MaxValues,
  None

ASSUME LifetimeAssumption ==
  REFRESH_TTL \in Nat /\ ACCESS_TTL \in Nat /\ PREVIOUS_GRACE \in Nat

VARIABLES
  now,
  family,  \* what each instance holds: a record of the family
  news,    \* records an instance published and the other may still take
  minted,  \* refresh values minted so far
  jar,     \* the cookie of the browser
  page,    \* what each page waits for: a request or a reply on its way
  conn,    \* #authorized of each instance: deadline, timer; the latest told
  away,    \* when each value was first rotated away, at either instance
  alone,   \* no two requests overlapped, none came past the grace of its value
  left     \* the person signed out

vars == <<now, family, news, minted, jar, page, conn, away, alone, left>>

Idle == [is |-> "idle"]

(* mint: the family as an instance first writes it, taken by both.         *)
Minted ==
  [at |-> 0, failed |-> FALSE, refresh |-> [value |-> 0, till |-> REFRESH_TTL],
   access |-> ACCESS_TTL, previous |-> [value |-> None, till |-> 0],
   retired |-> {}, issued |-> {[value |-> 0, till |-> REFRESH_TTL]}]

Init ==
  /\ now = 0 /\ minted = 0 /\ jar = 0 /\ news = {} /\ alone = TRUE /\ left = FALSE
  /\ family = [i \in Inst |-> Minted]
  /\ page = [p \in Page |-> Idle]
  /\ conn = [n \in Conn |-> None]
  /\ away = [v \in 0..MaxValues |-> MaxTime]

(* What byRefresh, retiring and naming find in the record of one instance. *)
Standing(f, v) == ~f.failed /\ f.refresh.value = v /\ f.refresh.till > now
Previous(f, v) == ~f.failed /\ f.previous.value = v /\ f.previous.till > now
Retired(f, v) == ~f.failed /\ \E r \in f.retired : r.value = v /\ r.till > now
Naming(f, v) == ~f.failed /\ v \in {f.refresh.value, f.previous.value}

Stamp(f) == IF f.at < now THEN now ELSE f.at + 1

RetireForgets(f) == {f.refresh}

(* retire: what has run out leaves, the outgoing value joins.              *)
Retire(f) == {r \in f.retired : r.till > now} \cup {f.refresh}

(* The access token is kept while enough of its life is left.              *)
Access(f) == IF f.access - now >= ACCESS_KEEP THEN f.access ELSE now + ACCESS_TTL

RotatedWithoutGrace(f, v) ==
  [f EXCEPT !.at = Stamp(f), !.access = Access(f),
            !.refresh = [value |-> v, till |-> now + REFRESH_TTL],
            !.previous = [value |-> None, till |-> 0],
            !.retired = Retire(f),
            !.issued = @ \cup {[value |-> v, till |-> now + REFRESH_TTL]}]

Rotated(f, v) ==
  [f EXCEPT !.at = Stamp(f), !.access = Access(f),
            !.refresh = [value |-> v, till |-> now + REFRESH_TTL],
            !.previous = [value |-> f.refresh.value, till |-> now + PREVIOUS_GRACE],
            !.retired = Retire(f),
            !.issued = @ \cup {[value |-> v, till |-> now + REFRESH_TTL]}]

Fail(f) == [f EXCEPT !.at = Stamp(f), !.failed = TRUE]

Writes(i, f) ==
  /\ family' = [family EXCEPT ![i] = f]
  /\ news' = news \cup {f}

Held(i) == {n \in Conn : IF conn[n] = None THEN FALSE ELSE conn[n].at = i}

(* disconnect: every connection the person holds at this instance.         *)
Disconnected(i) == conn' = [n \in Conn |-> IF n \in Held(i) THEN None ELSE conn[n]]

(* A page asks for a fresh token: on load, on reconnecting, or again for   *)
(* want of a reply.                                                        *)
Sends(p) ==
  /\ page[p] = Idle
  /\ page' = [page EXCEPT ![p] = [is |-> "asks", value |-> jar, sent |-> now]]
  /\ alone' = (alone /\ \A q \in Page : page[q] = Idle)
  /\ UNCHANGED <<now, family, news, minted, jar, conn, away, left>>

(* refreshToken: rotate on the standing value, answer the standing pair on *)
(* the one before it, fail the family on a retired one, refuse any other.  *)
Refresh(i, p) ==
  LET f == family[i] v == page[p].value
      replies(w) == page' = [page EXCEPT ![p] = [is |-> "told", value |-> w]]
  IN  /\ page[p].is = "asks"
      /\ alone' = (alone /\ now < away[v] + PREVIOUS_GRACE)
      /\ \/ /\ Standing(f, v)
            /\ minted < MaxValues /\ minted' = minted + 1
            /\ Writes(i, Rotated(f, minted'))
            /\ replies(minted')
            /\ away' = [away EXCEPT ![v] = IF @ < now THEN @ ELSE now]
            /\ UNCHANGED conn
         \/ /\ ~Standing(f, v) /\ Previous(f, v)
            /\ replies(f.refresh.value)
            /\ UNCHANGED <<family, news, minted, conn, away>>
         \/ /\ ~Standing(f, v) /\ ~Previous(f, v) /\ Retired(f, v)
            /\ Writes(i, Fail(f))
            /\ Disconnected(i)
            /\ page' = [page EXCEPT ![p] = Idle]
            /\ UNCHANGED <<minted, away>>
         \/ /\ ~Standing(f, v) /\ ~Previous(f, v) /\ ~Retired(f, v)
            /\ page' = [page EXCEPT ![p] = Idle]
            /\ UNCHANGED <<family, news, minted, conn, away>>
      /\ UNCHANGED <<now, jar, left>>

(* The reply with its cookie reaches the browser, or does not.             *)
Told(p) ==
  /\ page[p].is = "told"
  /\ jar' = page[p].value
  /\ page' = [page EXCEPT ![p] = Idle]
  /\ UNCHANGED <<now, family, news, minted, conn, away, alone, left>>

ReplyLost(p) ==
  /\ page[p].is # "idle"
  /\ page' = [page EXCEPT ![p] = Idle]
  /\ UNCHANGED <<now, family, news, minted, jar, conn, away, alone, left>>

(* signout: the family is failed wherever the call lands.                  *)
Signout(i) ==
  /\ Naming(family[i], jar)
  /\ Writes(i, Fail(family[i]))
  /\ Disconnected(i)
  /\ left' = TRUE
  /\ UNCHANGED <<now, minted, jar, page, away, alone>>

(* Auth.merge: the newer record is taken unless this one is failed; a mark *)
(* ends the connections held here.                                         *)
Merge(i, f) ==
  /\ f \in news
  /\ ~family[i].failed /\ family[i].at < f.at
  /\ family' = [family EXCEPT ![i] = f]
  /\ IF f.failed THEN Disconnected(i) ELSE UNCHANGED conn
  /\ UNCHANGED <<now, news, minted, jar, page, away, alone, left>>

OpenForFullLife(i, n) ==
  LET f == family[i]
  IN  /\ conn[n] = None /\ ~f.failed /\ f.access > now
      /\ conn' = [conn EXCEPT ![n] =
           [at |-> i, till |-> f.access, due |-> now + ACCESS_TTL, latest |-> f.access]]
      /\ UNCHANGED <<now, family, news, minted, jar, page, away, alone, left>>

(* admits, hold and #deadline: a connection opened with the access token   *)
(* as instance i holds it, closed by a timer set for its deadline.         *)
Open(i, n) ==
  LET f == family[i]
  IN  /\ conn[n] = None /\ ~f.failed /\ f.access > now
      /\ conn' = [conn EXCEPT ![n] =
           [at |-> i, till |-> f.access, due |-> f.access, latest |-> f.access]]
      /\ UNCHANGED <<now, family, news, minted, jar, page, away, alone, left>>

(* extend: only the deadline moves, the timer stays.  A record of the      *)
(* other instance may have brought an earlier deadline.                    *)
Extend(i, n) ==
  LET f == family[i]
  IN  /\ n \in Held(i) /\ ~f.failed /\ f.access > now
      /\ conn' = [conn EXCEPT ![n].till = f.access,
                              ![n].latest = IF @ < f.access THEN f.access ELSE @]
      /\ UNCHANGED <<now, family, news, minted, jar, page, away, alone, left>>

Due(n) == conn[n] # None /\ conn[n].due <= now

(* The timer: set again where the deadline moved, else the close.          *)
Fire(n) ==
  /\ Due(n)
  /\ conn' = [conn EXCEPT ![n] = IF @.till > now THEN [@ EXCEPT !.due = conn[n].till] ELSE None]
  /\ UNCHANGED <<now, family, news, minted, jar, page, away, alone, left>>

(* Time passes once the timers that are due have run.                      *)
Tick ==
  /\ now < MaxTime /\ ~\E n \in Conn : Due(n)
  /\ now' = now + 1
  /\ UNCHANGED <<family, news, minted, jar, page, conn, away, alone, left>>

Next ==
  \/ \E p \in Page : Sends(p) \/ Told(p) \/ ReplyLost(p)
  \/ \E i \in Inst, p \in Page : Refresh(i, p)
  \/ \E i \in Inst : Signout(i) \/ \E f \in news : Merge(i, f)
  \/ \E i \in Inst, n \in Conn : Open(i, n) \/ Extend(i, n)
  \/ \E n \in Conn : Fire(n)
  \/ Tick

Spec == Init /\ [][Next]_vars

-----------------------------------------------------------------------------
(* No gap in replay detection: every value the standing record's line of   *)
(* rotations ever issued and whose own expiry has not passed is either the *)
(* standing one or remembered as retired ("remembered as a digest for as   *)
(* long as it would have been accepted", refreshToken), however the two    *)
(* instances' rotations overtook each other.                               *)
RetiredIsRemembered ==
  \A i \in Inst : LET f == family[i] IN
    ~f.failed => \A r \in f.issued :
      r.till > now => r.value = f.refresh.value \/ Retired(f, r.value)

(* A browser that asks one page at a time, loses replies, and retries      *)
(* before the grace of a rotation it missed is over, never has its family  *)
(* failed: not when the retry reaches the instance that has not heard of   *)
(* the rotation, nor when both have rotated.  "The losing side of two      *)
(* parallel rotations holds a value the family also knows nothing of, and  *)
(* failing on that would take down every other page" (refreshToken).       *)
AloneIsNotFailed == alone /\ ~left => \A i \in Inst : ~family[i].failed

(* No connection is held past the latest deadline it was told, through any *)
(* number of extensions, rotations at either instance and records taken    *)
(* out of order ("close it when the token runs out", hold).                *)
ClosedByDeadline == \A n \in Conn : conn[n] # None => now <= conn[n].latest
=============================================================================
