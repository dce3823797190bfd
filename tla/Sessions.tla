------------------------------ MODULE Sessions ------------------------------
(***************************************************************************)
(* The sessions one instance speaks about (src/src/sessions/registry.ts):  *)
(* who holds a connection, what the harness's directory named when it was  *)
(* last read, the list of sessions it has lost (last-live.ts) and the rows *)
(* of the topic `peers` that follow from the three (topics/elements.ts).   *)
(*                                                                         *)
(* A handler between two awaits is one step, and every one of them ends in *)
(* `changed`, which is why the domain's state is one record and the parts  *)
(* of a step are functions of it.  A greeting waits for the path it names  *)
(* to be resolved; anything may happen meanwhile, its own connection       *)
(* closing included.  How a reading of the directory comes about is the    *)
(* matter of HarnessRuns: here one lands with any answer.                  *)
(*                                                                         *)
(* Variants of a definition that carry a plausible fault stand just before *)
(* it; no specification uses them.                                         *)
(***************************************************************************)
EXTENDS Integers, Sequences, FiniteSets, SequencesExt

CONSTANTS
  Sid,        \* sessions
  Pid,        \* process ids
  Conn,       \* connections that may greet
  Sub,        \* connections that may subscribe to `peers`
  Retention,  \* LAST_LIVE_RETENTION_MS
  MaxTime,    \* bound on the clock
  MaxDocs,    \* bound on the writes asked for and not yet landed
  MaxCrashes, \* bound on the deaths of the process
  Nothing     \* an absent session, pid, entry or row

VARIABLES
  mem,      \* the domain: every private field of Sessions and LastLiveStore
  conn,     \* the connections: what each greeted as, and whether it is open
  sub,      \* the subscribers of `peers`, and the rows each one holds
  file,     \* last-live.json
  now,      \* Date.now()
  codex,    \* the config home runs Codex, whose locks name no process
  crashes,  \* how often the process died
  failed    \* a write of last-live.json failed since the last that landed

vars == <<mem, conn, sub, file, now, codex, crashes, failed>>

(* A stored entry: what the session said of itself, whether it declared    *)
(* that it was going, and when it was last seen.                           *)
Entry == [words : BOOLEAN, stopped : BOOLEAN, seen : 0..MaxTime]

Entries == [Sid -> Entry \cup {Nothing}]

NoEntries == [s \in Sid |-> Nothing]

Ours(own, s) == {p \in Pid : own.rows[p] = s}

Present(r, s) == s \in r.own.present

Live(r, s) == r.conns[s] > 0 \/ Present(r, s)

(* The runs of one session: an observed process each, or one run with no   *)
(* pid where only a connection or a lock says that there is one.  A        *)
(* connection that named no run belongs to the only one there is.          *)
RunsOf(r, s) ==
  LET observed == Ours(r.own, s)
      greeted == {p \in Pid : r.pids[s][p] > 0}
      connected == r.conns[s] > 0
  IN  IF observed = {}
      THEN IF Live(r, s) THEN {[pid |-> Nothing, connected |-> connected]} ELSE {}
      ELSE {[pid |-> p, connected |-> \/ p \in greeted
                                      \/ connected /\ Cardinality(observed) = 1] :
              p \in observed}

Duplicated(r, s) == Cardinality(RunsOf(r, s)) >= 2

(* One row of `peers`, from the first of the three sources that has the    *)
(* session.  The gateway's stamp is on every row, the activity of the      *)
(* connections only where there is one.                                    *)
PeerRow(r, s) ==
  LET row(at, words, stopped, active) ==
        [at |-> at, words |-> words, stopped |-> stopped, activity |-> active,
         runs |-> RunsOf(r, s), gateway |-> r.gateway[s],
         frozen |-> Duplicated(r, s)]
  IN  IF r.conns[s] > 0 THEN row("connected", r.stated[s], FALSE, r.activity[s])
      ELSE IF Present(r, s) THEN row("running", r.stated[s], FALSE, 0)
      ELSE IF r.last[s] # Nothing
           THEN row("lost", r.last[s].words, r.last[s].stopped, 0)
      ELSE Nothing

PeerRows(r) == [s \in Sid |-> PeerRow(r, s)]

-----------------------------------------------------------------------------
(* LastLiveStore *)

Expired(entry, t) == t - entry.seen > Retention

Unexpired(entries, t) ==
  [s \in Sid |-> IF entries[s] # Nothing /\ Expired(entries[s], t)
                 THEN Nothing ELSE entries[s]]

(* Every change of the list asks for a write of the list as it then is,    *)
(* each chained onto the one before it.                                    *)
Saves(old, new) ==
  LET moved == SetToSeq({s \in Sid : old[s] # new[s]})
  IN  [k \in DOMAIN moved |->
         [s \in Sid |-> IF \E j \in 1..k : moved[j] = s THEN new[s] ELSE old[s]]]

WithEntries(r, entries) ==
  [r EXCEPT !.last = entries, !.docs = @ \o Saves(r.last, entries)]

(* record: a stop already noted for the session survives. *)
Recorded(r, s, t) ==
  LET held == r.last[s]
  IN  [words |-> r.live[s] = "told", seen |-> t,
       stopped |-> r.stopping[s] \/ (held # Nothing /\ held.stopped)]

(* load: an unreadable or missing file is an empty list; what has expired  *)
(* is dropped, and nothing is written for it.                              *)
Load(t) == Unexpired(file, t)

-----------------------------------------------------------------------------
(* Sessions.changed *)

(* #liveNow: each live session, with whether its entry would carry words. *)
LiveNow(r) ==
  [s \in Sid |-> IF ~Live(r, s) THEN Nothing
                 ELSE IF r.stated[s] THEN "told" ELSE "untold"]

DepartedUndeclared(r, gone, t) ==
  [WithEntries(r, [s \in Sid |-> IF s \in gone
                                 THEN Recorded([r EXCEPT !.stopping[s] = FALSE], s, t)
                                 ELSE r.last[s]]) EXCEPT
     !.stated = [s \in Sid |-> @[s] /\ s \notin gone]]

(* What has stopped being live is recorded, with the declaration that came *)
(* before it; the words and the declaration are spent.                     *)
Departed(r, gone, t) ==
  LET entries == [s \in Sid |-> IF s \in gone THEN Recorded(r, s, t) ELSE r.last[s]]
  IN  [WithEntries(r, entries) EXCEPT
         !.stopping = [s \in Sid |-> @[s] /\ s \notin gone],
         !.stated = [s \in Sid |-> @[s] /\ s \notin gone]]

ReclaimNothing(r) == r

(* #reclaim: what is live is on no list of lost sessions. *)
Reclaim(r) ==
  WithEntries(r, [s \in Sid |-> IF Live(r, s) THEN Nothing ELSE r.last[s]])

DiffWithoutRemovals(sent, rows) == {s \in Sid : sent[s] # rows[s] /\ rows[s] # Nothing}

(* Elements.diff against what was sent, folded by a subscriber: a row that *)
(* differs, and a removal for a row the list no longer has.                *)
Diff(sent, rows) == {s \in Sid : sent[s] # rows[s]}

Told(view, rows, moved) == [s \in Sid |-> IF s \in moved THEN rows[s] ELSE view[s]]

(* changed: record, reclaim, prune, tell the fold which sessions two       *)
(* processes write, state what moved.                                      *)
Changed(r, t) ==
  LET gone == {s \in Sid : r.live[s] # Nothing /\ ~Live(r, s)}
      kept == Reclaim(Departed(r, gone, t))
      pruned == WithEntries(kept, Unexpired(kept.last, t))
      rows == PeerRows(pruned)
  IN  [pruned EXCEPT
         !.live = LiveNow(pruned),
         !.frozen = [s \in Sid |-> IF rows[s] # Nothing THEN rows[s].frozen ELSE @[s]],
         !.sent = Told(@, rows, Diff(@, rows))]

(* What the frames of one step leave every subscriber holding. *)
Stated(views, before, after) ==
  [u \in Sub |-> IF views[u].in = "in"
                 THEN [views[u] EXCEPT !.rows = Told(@, after, Diff(before, after))]
                 ELSE views[u]]

Step(r) == /\ mem' = r
           /\ sub' = Stated(sub, mem.sent, r.sent)

-----------------------------------------------------------------------------
(* Greeting and leaving *)

NoOne == [at |-> "anonymous", sid |-> Nothing, pid |-> Nothing, open |-> FALSE]

(* register: the words are added to those said before, the connection and  *)
(* the run it speaks for are counted.                                      *)
Register(r, s, p, words) ==
  Changed(WithEntries(
    [r EXCEPT !.conns[s] = @ + 1,
              !.pids[s] = [q \in Pid |-> IF q = p THEN @[q] + 1 ELSE @[q]],
              !.stated[s] = @ \/ words,
              !.activity[s] = 0],
    [r.last EXCEPT ![s] = Nothing]), now)

(* release: nothing for a session that is not held. *)
Release(r, s, p) ==
  IF r.conns[s] = 0 THEN r
  ELSE Changed([r EXCEPT !.conns[s] = @ - 1,
                         !.pids[s] = [q \in Pid |->
                            IF r.conns[s] = 1 THEN 0
                            ELSE IF q = p /\ @[q] > 0 THEN @[q] - 1 ELSE @[q]],
                         !.activity[s] = IF r.conns[s] = 1 THEN 0 ELSE @], now)

Connect(c) ==
  /\ ~conn[c].open /\ conn[c].at # "reading"
  /\ conn' = [conn EXCEPT ![c] = [NoOne EXCEPT !.open = TRUE]]
  /\ UNCHANGED <<mem, sub, file, now, codex, crashes, failed>>

(* helloSession up to its await: #greetable takes the claim, so a second   *)
(* greeting of the connection finds it taken.                              *)
HelloSession(c, s, p) ==
  /\ conn[c].open /\ conn[c].at = "anonymous"
  /\ conn' = [conn EXCEPT ![c] = [at |-> "reading", sid |-> s, pid |-> p, open |-> TRUE]]
  /\ UNCHANGED <<mem, sub, file, now, codex, crashes, failed>>

GreetedUnseen(c, words) ==
  /\ conn[c].at = "reading"
  /\ Len(mem.docs) < MaxDocs
  /\ Step(Register(mem, conn[c].sid, conn[c].pid, words))
  /\ conn' = [conn EXCEPT ![c] = IF @.open THEN [@ EXCEPT !.at = "greeted"] ELSE NoOne]
  /\ UNCHANGED <<file, now, codex, crashes, failed>>

(* The path is resolved: the session is registered, and released by the    *)
(* onClose of a connection that closed meanwhile.                          *)
Greeted(c, words) ==
  /\ conn[c].at = "reading"
  /\ Len(mem.docs) < MaxDocs
  /\ LET g == conn[c]
         in == Register(mem, g.sid, g.pid, words)
     IN  IF g.open
         THEN Step(in) /\ conn' = [conn EXCEPT ![c].at = "greeted"]
         ELSE Step(Release(in, g.sid, g.pid)) /\ conn' = [conn EXCEPT ![c] = NoOne]
  /\ UNCHANGED <<file, now, codex, crashes, failed>>

Close(c) ==
  /\ conn[c].open
  /\ Len(mem.docs) < MaxDocs
  /\ IF conn[c].at = "greeted"
     THEN /\ Step(Release(mem, conn[c].sid, conn[c].pid))
          /\ conn' = [conn EXCEPT ![c] = NoOne]
     ELSE /\ conn' = [conn EXCEPT ![c].open = FALSE]
          /\ UNCHANGED <<mem, sub>>
  /\ UNCHANGED <<file, now, codex, crashes, failed>>

(* touch: the stamp moves and no frame goes out for it. *)
Touch(c) ==
  /\ conn[c].open /\ conn[c].at = "greeted" /\ mem.activity[conn[c].sid] = 0
  /\ mem' = [mem EXCEPT !.activity[conn[c].sid] = 1]
  /\ UNCHANGED <<conn, sub, file, now, codex, crashes, failed>>

(* session.stopping *)
Stopping(c) ==
  /\ conn[c].open /\ conn[c].at = "greeted"
  /\ mem' = [mem EXCEPT !.stopping[conn[c].sid] = TRUE]
  /\ UNCHANGED <<conn, sub, file, now, codex, crashes, failed>>

-----------------------------------------------------------------------------
(* What the directory, the gateway and a person do *)

(* What a reading may find: a row per process, or the threads of Codex. *)
Findings ==
  IF codex THEN [rows : {[p \in Pid |-> Nothing]}, present : SUBSET Sid]
  ELSE {[rows |-> f, present |-> {f[p] : p \in Pid} \ {Nothing}] :
          f \in [Pid -> Sid \cup {Nothing}]}

(* A reading settles.  Whoever waits for an opening frame is answered with *)
(* it: every row, which is what the later differences are taken against.   *)
ReadingLands(found) ==
  /\ Len(mem.docs) < MaxDocs
  /\ LET r == Changed([mem EXCEPT !.own = found], now)
         opened == [r EXCEPT !.sent = PeerRows(r)]
         views == Stated(sub, mem.sent, r.sent)
     IN  /\ mem' = IF \E u \in Sub : sub[u].in = "opening" THEN opened ELSE r
         /\ sub' = [u \in Sub |-> IF sub[u].in = "opening"
                                  THEN [in |-> "in", rows |-> opened.sent]
                                  ELSE views[u]]
  /\ UNCHANGED <<conn, file, now, codex, crashes, failed>>

Subscribe(u) ==
  /\ sub[u].in = "out"
  /\ sub' = [sub EXCEPT ![u].in = "opening"]
  /\ UNCHANGED <<mem, conn, file, now, codex, crashes, failed>>

Unsubscribe(u) ==
  /\ sub[u].in # "out"
  /\ sub' = [sub EXCEPT ![u] = [in |-> "out", rows |-> NoEntries]]
  /\ UNCHANGED <<mem, conn, file, now, codex, crashes, failed>>

(* gatewayMoved: one row goes out, and none for a session not known here. *)
GatewayMoved(s) ==
  /\ ~mem.gateway[s]
  /\ LET r == [mem EXCEPT !.gateway[s] = TRUE]
         row == PeerRow(r, s)
     IN  Step([r EXCEPT !.sent[s] = IF row = Nothing THEN @ ELSE row])
  /\ UNCHANGED <<conn, file, now, codex, crashes, failed>>

(* session.forget *)
Forget(s) ==
  /\ mem.last[s] # Nothing
  /\ Len(mem.docs) < MaxDocs
  /\ Step(Changed(WithEntries(mem, [mem.last EXCEPT ![s] = Nothing]), now))
  /\ UNCHANGED <<conn, file, now, codex, crashes, failed>>

Tick ==
  /\ now < MaxTime
  /\ now' = now + 1
  /\ UNCHANGED <<mem, conn, sub, file, codex, crashes, failed>>

-----------------------------------------------------------------------------
(* The file *)

(* The first write of the chain ends: it replaced the file, or it failed   *)
(* and nobody is told.                                                     *)
Written(ok) ==
  /\ mem.docs # <<>>
  /\ mem' = [mem EXCEPT !.docs = Tail(@)]
  /\ file' = IF ok THEN Head(mem.docs) ELSE file
  /\ failed' = ~ok
  /\ UNCHANGED <<conn, sub, now, codex, crashes>>

Started(found, entries) ==
  LET none == [s \in Sid |-> FALSE]
      r == [own |-> found, conns |-> [s \in Sid |-> 0],
            pids |-> [s \in Sid |-> [p \in Pid |-> 0]], stated |-> none,
            stopping |-> none, activity |-> [s \in Sid |-> 0], gateway |-> none,
            live |-> NoEntries, last |-> entries, docs |-> <<>>,
            sent |-> NoEntries, frozen |-> none]
  IN  [Reclaim(r) EXCEPT !.live = LiveNow(r)]

(* The process dies and another starts: the constructor loads the list,    *)
(* reads the directory once and reclaims what is there again.              *)
Restart(found) ==
  /\ crashes < MaxCrashes
  /\ crashes' = crashes + 1
  /\ mem' = Started(found, Load(now))
  /\ conn' = [c \in Conn |-> NoOne]
  /\ sub' = [u \in Sub |-> [in |-> "out", rows |-> NoEntries]]
  /\ UNCHANGED <<file, now, codex, failed>>

Init ==
  /\ codex \in BOOLEAN
  /\ mem = Started([rows |-> [p \in Pid |-> Nothing], present |-> {}], NoEntries)
  /\ conn = [c \in Conn |-> NoOne]
  /\ sub = [u \in Sub |-> [in |-> "out", rows |-> NoEntries]]
  /\ file = NoEntries
  /\ now = 0
  /\ crashes = 0
  /\ failed = FALSE

Next ==
  \/ \E c \in Conn :
       \/ Connect(c) \/ Close(c) \/ Touch(c) \/ Stopping(c)
       \/ \E s \in Sid, p \in Pid \cup {Nothing} : HelloSession(c, s, p)
       \/ \E words \in BOOLEAN : Greeted(c, words)
  \/ \E u \in Sub : Subscribe(u) \/ Unsubscribe(u)
  \/ \E found \in Findings : ReadingLands(found) \/ Restart(found)
  \/ \E s \in Sid : GatewayMoved(s) \/ Forget(s)
  \/ \E ok \in BOOLEAN : Written(ok)
  \/ Tick

Spec == Init /\ [][Next]_vars

-----------------------------------------------------------------------------
(* No session is on both lists: what is connected or named by the harness  *)
(* has no entry among the lost (#reclaim, register).                       *)
OneList == \A s \in Sid : mem.last[s] # Nothing => ~Live(mem, s)

(* The connections of a session are counted exactly, and so are the runs   *)
(* they speak for: a connection that closes while its greeting still waits *)
(* for a path to be resolved leaves nothing behind (register, release).    *)
ConnectionsCounted ==
  \A s \in Sid :
    LET held == {c \in Conn : conn[c].at = "greeted" /\ conn[c].sid = s}
    IN  /\ mem.conns[s] = Cardinality(held)
        /\ \A p \in Pid : mem.pids[s][p] = Cardinality({c \in held : conn[c].pid = p})

(* A session that stops being live is recorded in the same step, with what *)
(* it had said of itself and with the stop it had declared (changed).      *)
Records ==
  crashes' = crashes => \A s \in Sid :
    Live(mem, s) /\ ~Live(mem', s) =>
      mem'.last[s] = [words |-> mem.stated[s], stopped |-> mem.stopping[s], seen |-> now]

DepartureIsRecorded == [][Records]_vars

(* What a subscriber has been sent adds up to the list as it is, but for   *)
(* the activity stamp, which moves unsaid (snapshot, changed,              *)
(* gatewayMoved).  A session it holds as frozen is one whose fold has been *)
(* told to stop moving.                                                    *)
ViewIsList ==
  \A u \in Sub : sub[u].in = "in" =>
    \A s \in Sid :
      LET row == PeerRow(mem, s)
          held == sub[u].rows[s]
      IN  IF row = Nothing \/ held = Nothing THEN row = held
          ELSE /\ [row EXCEPT !.activity = 0] = [held EXCEPT !.activity = 0]
               /\ mem.frozen[s] = held.frozen

(* Once every write has landed and the last did not fail, the file says    *)
(* what the list says, but for entries that expired in it.                 *)
FileFollows ==
  mem.docs = <<>> /\ ~failed => Unexpired(file, now) = Unexpired(mem.last, now)
=============================================================================
