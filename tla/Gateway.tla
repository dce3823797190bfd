------------------------------ MODULE Gateway ------------------------------
(***************************************************************************)
(* What an instance takes from the llm-gateway (src/src/upstream).         *)
(*                                                                         *)
(* The gateway posts what it saw: a request it forwarded, the answer to    *)
(* one, a promised lifetime withdrawn.  It is several processes and each   *)
(* post's body is awaited before it is read, so a post may be lost, read   *)
(* late, and read again: any item ever said may be taken, any number of    *)
(* times.  A post that is not admitted (a wrong path, method, token or     *)
(* size, or not JSON) changes nothing, and neither does an item that       *)
(* cannot be read.  Beside that the instance asks the gateway for its      *)
(* report on the services behind it.                                       *)
(***************************************************************************)
EXTENDS Integers, Sequences, FiniteSets, FiniteSetsExt, SequencesExt

CONSTANTS
  Sid, Prefix,   \* sessions, and the series they may be talking in
  Origin,        \* what a request may say of its series; "" says nothing
  Refused,       \* whether a request may have been refused upstream
  TTL,           \* how long a cache window stays open
  LIVE_WINDOW,   \* GATEWAY_LIVE_WINDOW_MS
  MAX_SERIES,    \* series remembered at once
  MAX_PREFIXES,  \* prefixes whose sessions are remembered
  MaxTime,       \* bound on the clock
  MaxSaid,       \* bound on what the gateways say
  MaxTaken,      \* bound on the items taken
  MaxTruth,      \* bound on changes of the services' standing
  MaxReads       \* bound on the reads begun

VARIABLES
  now,
  said,      \* every item a gateway has posted
  taken,     \* how many items have been read
  newest,    \* of each session, the newest thing read of it; -1: nothing
  series,    \* #series, keyed by session and prefix
  order,     \* the map's order of its keys
  prefixes,  \* #sidsByPrefix, in the map's order
  active,    \* #activeAt; -1: not seen
  frame,     \* the last frame of llm.requests
  shown,     \* the gateway_active_at of each session's row on peers
  listening, settling, report,
  reads,     \* the reads in flight: at most one, which its callers share
  begun,     \* reads begun
  truth      \* how often the services' standing has changed

requests == <<series, order, prefixes, active, frame, shown>>
status == <<listening, settling, report, reads, begun>>
posts == <<said, taken, newest>>
vars == <<now, posts, requests, status, truth>>

SeriesKey == Sid \X Prefix

Unserved == -1

(* What the gateways may say.  A request names the lifetime it promises,   *)
(* if it promises one; an answer names its request.                        *)
Request(k, promise, origin, refused) ==
  [kind |-> "request", key |-> k, at |-> now, promise |-> promise,
   origin |-> origin, refused |-> refused]
Response(r, cache) ==
  [kind |-> "response", key |-> r.key, at |-> now, of |-> r.at, cache |-> cache]
Expired(r) == [kind |-> "cache_expired", key |-> r.key, at |-> now, of |-> r.promise]

Init ==
  /\ now = 0 /\ said = {} /\ taken = 0
  /\ newest = [s \in Sid |-> -1]
  /\ series = <<>> /\ order = <<>> /\ prefixes = <<>>
  /\ active = [s \in Sid |-> -1]
  /\ frame = {}
  /\ shown = [s \in Sid |-> -1]
  /\ listening = FALSE /\ settling = FALSE /\ report = 0
  /\ reads = {} /\ begun = 0 /\ truth = 0

-----------------------------------------------------------------------------
(* The gateways *)

Tick ==
  /\ now < MaxTime
  /\ now' = now + 1
  /\ UNCHANGED <<posts, requests, status, truth>>

Says(item) ==
  /\ Cardinality(said) < MaxSaid
  /\ said' = said \cup {item}
  /\ UNCHANGED <<now, taken, newest, requests, status, truth>>

SayRequest(k, promised, origin, refused) ==
  Says(Request(k, IF promised THEN Cardinality(said) + 1 ELSE 0, origin, refused))

SayResponse(r, cache) == r.kind = "request" /\ Says(Response(r, cache))

SayExpired(r) == r.kind = "request" /\ r.promise # 0 /\ Says(Expired(r))

-----------------------------------------------------------------------------
(* LlmRequests *)

(* A clock that moved inside an open window and that no row says; a window *)
(* that closes a moment early for what is pruned.                          *)
MoveUnsaid(s, at) ==
  IF active[s] # -1 /\ at - active[s] <= LIVE_WINDOW THEN "none" ELSE "live"
PruneEarly(a, at) == [s \in Sid |-> IF a[s] <= at - LIVE_WINDOW THEN -1 ELSE a[s]]

(* active: whether the item moves the session's clock, what that moved,    *)
(* and the sessions not seen for longer than the window forgotten.         *)
Moves(s, at) == active[s] < at

Move(s, at) ==
  IF active[s] # -1 /\ at - active[s] <= LIVE_WINDOW THEN "clock" ELSE "live"

Prune(a, at) == [s \in Sid |-> IF a[s] < at - LIVE_WINDOW THEN -1 ELSE a[s]]

(* activeAt, as a row reads it.                                            *)
ActiveAt(a, s) == IF a[s] # -1 /\ now - a[s] <= LIVE_WINDOW THEN a[s] ELSE -1

(* moved: every row is restated when a window opened, and the one row when *)
(* its clock moved.                                                        *)
Active(s, at) ==
  IF ~Moves(s, at) THEN UNCHANGED <<active, shown>>
  ELSE LET a == Prune([active EXCEPT ![s] = at], at)
       IN  /\ active' = a
           /\ shown' = CASE Move(s, at) = "live" -> [x \in Sid |-> ActiveAt(a, x)]
                         [] Move(s, at) = "clock" -> [shown EXCEPT ![s] = ActiveAt(a, s)]
                         [] OTHER -> shown

Open(ss) == {k \in DOMAIN ss : ss[k].expires > now}

Drop(f, ks) == [k \in DOMAIN f \ ks |-> f[k]]

Without(q, ks) == SelectSeq(q, LAMBDA k : k \notin ks)

(* notePrefix: the sessions a prefix was seen under, as far as two.        *)
NotePrefix(p, k) ==
  LET at == {i \in DOMAIN p : p[i].prefix = k[2]}
      q == IF at = {} THEN Append(p, [prefix |-> k[2], sids |-> {k[1]}])
           ELSE [i \in DOMAIN p |->
                   IF i \in at /\ Cardinality(p[i].sids) < 2
                   THEN [p[i] EXCEPT !.sids = @ \cup {k[1]}] ELSE p[i]]
  IN  IF Len(q) > MAX_PREFIXES THEN Tail(q) ELSE q

Shared(p, k) == \E i \in DOMAIN p : p[i].prefix = k[2] /\ Cardinality(p[i].sids) > 1

(* #elect: the series a session says is its own, the newest of them; for a *)
(* session that says nothing, the first whose prefix no other session has, *)
(* and failing that the newest.                                            *)
Elect(ss, p, s) ==
  LET live == {k \in Open(ss) : k[1] = s}
      states == \E k \in live : ss[k].origin # ""
      own == {k \in live : ss[k].origin = "main"}
      alone == {k \in live : ~Shared(p, k)}
      latest(ks) == {k \in ks : \A j \in ks : ss[j].at <= ss[k].at}
      first(ks) == {k \in ks : \A j \in ks : ss[k].first <= ss[j].first}
  IN  IF states THEN latest(own) ELSE IF alone # {} THEN first(alone) ELSE latest(live)

(* entries: the open windows, with a session's own series marked.  Of two  *)
(* that tie the election keeps the one the map comes to first.             *)
Entries(ss, q, p) ==
  LET place(k) == SelectInSeq(q, LAMBDA x : x = k)
      main(k) == LET best == Elect(ss, p, k[1])
                 IN  k \in best /\ \A j \in best : place(k) <= place(j)
  IN  {[key |-> k, expires |-> ss[k].expires, main |-> main(k)] : k \in Open(ss)}

(* A change no subscriber is told of.                                      *)
PublishedToNone(ss, q, p) ==
  /\ series' = ss /\ order' = q /\ prefixes' = p
  /\ UNCHANGED frame

(* publish: reading the entries drops the closed windows from the map.     *)
Published(ss, q, p) ==
  LET closed == DOMAIN ss \ Open(ss)
  IN  /\ series' = Drop(ss, closed)
      /\ order' = Without(q, closed)
      /\ prefixes' = p
      /\ frame' = Entries(ss, q, p)

(* A request older than the one held taken in its place.                   *)
ReplacesAnyway(r) == TRUE

(* record.  The series moves to the end of the map, the place the eviction *)
(* reaches last.                                                           *)
Replaces(r) == r.key \notin DOMAIN series \/ series[r.key].at < r.at

Record(r) ==
  LET entry == [at |-> r.at, expires |-> r.at + TTL, promise |-> r.promise,
                origin |-> r.origin,
                first |-> IF r.key \in DOMAIN series THEN series[r.key].first
                          ELSE taken]
      q == Append(Without(order, {r.key}), r.key)
      kept == IF Len(q) > MAX_SERIES THEN Tail(q) ELSE q
      ss == [k \in DOMAIN series \cup {r.key} |->
               IF k = r.key THEN entry ELSE series[k]]
  IN  /\ Active(r.key[1], r.at)
      /\ IF Replaces(r)
         THEN Published(Drop(ss, DOMAIN ss \ Range(kept)), kept, NotePrefix(prefixes, r.key))
         ELSE UNCHANGED <<series, order, prefixes, frame>>

(* note and rebuild: an answer that says the cache was written again opens *)
(* the window at its own moment, when the request it names is the one      *)
(* held, and takes the promise away.                                       *)
Rebuilds(a) ==
  /\ a.cache = "written"
  /\ a.key \in DOMAIN series /\ series[a.key].at = a.of

Note(a) ==
  /\ Active(a.key[1], a.at)
  /\ IF Rebuilds(a)
     THEN Published([series EXCEPT ![a.key].expires = a.at + TTL, ![a.key].promise = 0],
                    order, prefixes)
     ELSE UNCHANGED <<series, order, prefixes, frame>>

(* expire: only the series whose latest promise is the one named.          *)
Expire(x) ==
  /\ UNCHANGED <<active, shown>>
  /\ IF x.key \in DOMAIN series /\ series[x.key].promise = x.of
     THEN Published(Drop(series, {x.key}), Without(order, {x.key}), prefixes)
     ELSE UNCHANGED <<series, order, prefixes, frame>>

(* snapshot: a subscriber is handed the entries as they are now.           *)
Snapshot ==
  /\ Published(series, order, prefixes)
  /\ UNCHANGED <<now, posts, active, shown, status, truth>>

-----------------------------------------------------------------------------
(* LlmStatus *)

(* Every caller reading for itself.                                        *)
ReadUnshared ==
  /\ begun < MaxReads
  /\ reads' = reads \cup {[n |-> begun, saw |-> Unserved]}
  /\ begun' = begun + 1

(* read: two callers at once share one read.                               *)
Read ==
  IF reads # {} THEN UNCHANGED <<reads, begun>>
  ELSE /\ begun < MaxReads
       /\ reads' = {[n |-> begun, saw |-> Unserved]}
       /\ begun' = begun + 1

(* start and stop, called as the topic's first subscriber comes and its    *)
(* last one leaves.  A read in flight is left to end.                      *)
Start ==
  /\ ~listening
  /\ listening' = TRUE
  /\ Read
  /\ UNCHANGED <<now, posts, requests, settling, report, truth>>

Stop ==
  /\ listening
  /\ listening' = FALSE /\ settling' = FALSE
  /\ UNCHANGED <<now, posts, requests, report, reads, begun, truth>>

(* noteRequestStatus: the read is deferred, and a second refusal joins.    *)
NoteRequestStatus(refused) == settling' = (settling \/ (refused /\ listening))

Settled ==
  /\ settling
  /\ settling' = FALSE
  /\ Read
  /\ UNCHANGED <<now, posts, requests, listening, report, truth>>

(* The gateway answers a read from the standing it has at that moment.     *)
Served(r) ==
  /\ r.saw = Unserved
  /\ reads' = (reads \ {r}) \cup {[r EXCEPT !.saw = truth]}
  /\ UNCHANGED <<now, posts, requests, listening, settling, report, begun, truth>>

(* #read ends: with the report, or without one that can be understood, and *)
(* then the last good one stands.                                          *)
ReadEnds(r, understood) ==
  /\ r.saw # Unserved
  /\ reads' = reads \ {r}
  /\ report' = IF understood THEN r.saw ELSE report
  /\ UNCHANGED <<now, posts, requests, listening, settling, begun, truth>>

ReadFails(r) ==
  /\ reads' = reads \ {r}
  /\ UNCHANGED <<now, posts, requests, listening, settling, report, begun, truth>>

TruthChanges ==
  /\ truth < MaxTruth
  /\ truth' = truth + 1
  /\ UNCHANGED <<now, posts, requests, status>>

-----------------------------------------------------------------------------
(* Gateway.take: one item of a post admitted by handleWebhook.             *)
Take(item) ==
  /\ taken < MaxTaken
  /\ taken' = taken + 1
  /\ newest' = IF item.kind = "cache_expired" THEN newest
               ELSE [newest EXCEPT ![item.key[1]] = Max({@, item.at})]
  /\ CASE item.kind = "request" -> Record(item) /\ NoteRequestStatus(item.refused)
       [] item.kind = "response" -> Note(item) /\ UNCHANGED settling
       [] item.kind = "cache_expired" -> Expire(item) /\ UNCHANGED settling
  /\ UNCHANGED <<now, said, listening, report, reads, begun, truth>>

Next ==
  \/ Tick
  \/ \E k \in SeriesKey, promised \in BOOLEAN, o \in Origin, refused \in Refused :
       SayRequest(k, promised, o, refused)
  \/ \E r \in said : \/ \E c \in {"hit", "written"} : SayResponse(r, c)
                     \/ SayExpired(r)
                     \/ Take(r)
  \/ Snapshot
  \/ Start \/ Stop \/ Settled \/ TruthChanges
  \/ \E r \in reads : \/ Served(r) \/ ReadFails(r)
                      \/ \E u \in BOOLEAN : ReadEnds(r, u)

Spec == Init /\ [][Next]_vars

-----------------------------------------------------------------------------
(* Properties *)

(* What a session's row says of the gateway is the newest thing taken of   *)
(* it, while that is inside the window, however the items came: late,      *)
(* twice, or with another session's in between whose arrival prunes.  The  *)
(* row is restated whole or on its own by what active answered.            *)
RowShowsNewest ==
  \A s \in Sid :
    newest[s] # -1 /\ now - newest[s] <= LIVE_WINDOW => shown[s] = newest[s]

(* A subscriber counts down the windows the instance holds open, every one *)
(* and no other: each record, rebuilding, withdrawal and eviction reached  *)
(* it, and both sides close a window at the same moment by themselves.     *)
CountdownsAgree ==
  {<<e.key, e.expires>> : e \in {x \in frame : x.expires > now}}
    = {<<k, series[k].expires>> : k \in Open(series)}

(* A series' held request is never replaced by an older one, so one that   *)
(* is delivered again does not walk its countdown back (record).           *)
KeepsHeld == \A k \in DOMAIN series \cap DOMAIN series' : series[k].at <= series'[k].at

HeldNeverOlder == [][KeepsHeld]_vars

(* The report is never replaced by one read before it: the starts, the     *)
(* stops and the refusals that ask for one share what is in flight.        *)
KeepsReport == report <= report'

ReportNeverGoesBack == [][KeepsReport]_vars
=============================================================================
