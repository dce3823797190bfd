---------------------------- MODULE HarnessRuns ----------------------------
(***************************************************************************)
(* Which processes the harness says are running, and ending one of them:   *)
(* the state files of one config home, the overlapping readings of their   *)
(* directory (src/src/sessions/harness.ts), the check of a pid against the *)
(* process that now has it (starts.ts) and session.kill (processes.ts).    *)
(*                                                                         *)
(* A state file is truncated and then written, so a reading can catch it   *)
(* torn.  A pid whose process has ended may be given to another process at *)
(* any moment; births tells the processes that had one pid apart, as the   *)
(* instant each began does, and two instants are one or far apart: the     *)
(* tolerances of sameProcess are left out.  The host may fail to say when  *)
(* a process began, or what it was launched as, at any time.  A process    *)
(* that has ended counts as reaped at once, so that no start is "gone".    *)
(* A reading lists the directory, then reads the files one by one, and is  *)
(* judged when it lands.                                                   *)
(*                                                                         *)
(* Variants of a definition that carry a plausible fault stand just before *)
(* it; no specification uses them.                                         *)
(***************************************************************************)
EXTENDS Integers, FiniteSets

CONSTANTS
  Sid,        \* sessions
  Pid,        \* process ids, each greater than 1
  MaxBirths,  \* bound on the processes ever started
  MaxReads,   \* bound on the readings ever begun
  SECOND,     \* SECOND_SIGNAL_AFTER_MS, in polls
  GRACE,      \* GRACE_MS, in polls
  Nothing,    \* no process, no file, no row, no answer
  Torn,       \* a file caught between truncate and write, or not readable
  Listed,     \* a file the listing named and the reading has not read yet
  Unsaid      \* the host was asked when a process began and could not say

VARIABLES
  proc,     \* the process under each pid: when it began, whether it is the harness
  births,   \* processes started so far
  file,     \* the state file of each pid: torn, or the row it states
  reading,  \* the readings: where each stands and what it has found so far
  begun,    \* Readings.#generation
  rows,     \* HarnessSessions.#rows, which #lastComplete agrees with
  known,    \* StartCache.#known: per pid, what the host said of its start
  asking,   \* StartCache.#reading
  kill,     \* the session.kill in hand
  hits,     \* the processes it signalled
  moved     \* per reading, the pids whose file or process moved since it began

vars == <<proc, births, file, reading, begun, rows, known, asking, kill, hits, moved>>

Read == 1..MaxReads

NoKill == [at |-> "idle", sid |-> Nothing, pid |-> Nothing, born |-> Nothing,
           read |-> 0, polls |-> 0, force |-> FALSE, looked |-> 0, said |-> FALSE]

Init ==
  /\ proc = [p \in Pid |-> Nothing]
  /\ births = 0
  /\ file = [p \in Pid |-> Nothing]
  /\ reading = [g \in Read |-> [at |-> "idle", texts |-> [p \in Pid |-> Nothing]]]
  /\ begun = 0
  /\ rows = [p \in Pid |-> Nothing]
  /\ known = [p \in Pid |-> Nothing]
  /\ asking = {}
  /\ kill = NoKill
  /\ hits = {}
  /\ moved = [g \in Read |-> {}]

-----------------------------------------------------------------------------
(* The host: processes and the files the harness writes *)

Moves(p) == moved' = [g \in Read |-> IF g <= begun THEN moved[g] \cup {p} ELSE {}]

Spawn(p, harness) ==
  /\ proc[p] = Nothing /\ births < MaxBirths
  /\ births' = births + 1
  /\ proc' = [proc EXCEPT ![p] = [born |-> births + 1, harness |-> harness]]
  /\ Moves(p)
  /\ UNCHANGED <<file, reading, begun, rows, known, asking, kill, hits>>

(* The harness rewrites its file: truncate, then the document. *)
Truncate(p) ==
  /\ proc[p] # Nothing /\ proc[p].harness /\ file[p] # Torn
  /\ file' = [file EXCEPT ![p] = Torn]
  /\ Moves(p)
  /\ UNCHANGED <<proc, births, reading, begun, rows, known, asking, kill, hits>>

WriteState(p, s) ==
  /\ proc[p] # Nothing /\ proc[p].harness /\ file[p] = Torn
  /\ file' = [file EXCEPT ![p] = [sid |-> s, born |-> proc[p].born]]
  /\ Moves(p)
  /\ UNCHANGED <<proc, births, reading, begun, rows, known, asking, kill, hits>>

(* A process ends: with its file taken away, or killed and the file left. *)
Exit(p, clean) ==
  /\ proc[p] # Nothing
  /\ clean => proc[p].harness
  /\ proc' = [proc EXCEPT ![p] = Nothing]
  /\ file' = IF clean THEN [file EXCEPT ![p] = Nothing] ELSE file
  /\ Moves(p)
  /\ UNCHANGED <<births, reading, begun, rows, known, asking, kill, hits>>

-----------------------------------------------------------------------------
(* StartCache *)

(* own: an unread pid, and one the host could say nothing of, count as the *)
(* row's own.                                                              *)
Own(k, row, p) == k[p] \in {Nothing, Unsaid, row.born}

OwnRuns(s) == {p \in Pid : rows[p] # Nothing /\ rows[p].sid = s /\ Own(known, rows[p], p)}

(* observe: the pids that left the reading are forgotten, the new ones are *)
(* asked about.                                                            *)
Observed(k, f) == [p \in Pid |-> IF f[p] = Nothing THEN Nothing ELSE k[p]]

Unread(k, f) == {p \in Pid : f[p] # Nothing /\ k[p] = Nothing}

(* What the host may answer when it is asked when the process began that   *)
(* has a pid: `ps` fails for a pid that is gone, and may fail, take too    *)
(* long or state something unreadable for one that is not.                 *)
Starts(p) == {Unsaid} \cup (IF proc[p] = Nothing THEN {} ELSE {proc[p].born})

(* #fill *)
Fill(p) ==
  /\ p \in asking
  /\ \E said \in Starts(p) :
       LET k == Observed([known EXCEPT ![p] = said], rows)
       IN  /\ known' = k
           /\ asking' = (asking \ {p}) \cup Unread(k, rows)
  /\ UNCHANGED <<proc, births, file, reading, begun, rows, kill, hits, moved>>

-----------------------------------------------------------------------------
(* Readings *)

(* again: the listing is what the reading begins with. *)
Begins(g) ==
  /\ begun < MaxReads /\ g = begun + 1
  /\ begun' = g
  /\ reading' = [reading EXCEPT ![g].at = "listing"]
  /\ moved' = [moved EXCEPT ![g] = {}]

Begin ==
  /\ Begins(begun + 1)
  /\ UNCHANGED <<proc, births, file, rows, known, asking, kill, hits>>

List(g) ==
  /\ reading[g].at = "listing"
  /\ reading' = [reading EXCEPT ![g] =
       [at |-> "reading",
        texts |-> [p \in Pid |-> IF file[p] = Nothing THEN Nothing ELSE Listed]]]
  /\ UNCHANGED <<proc, births, file, begun, rows, known, asking, kill, hits, moved>>

(* A file that is gone by now is one that states nothing yet. *)
ReadFile(g, p) ==
  /\ reading[g].at = "reading" /\ reading[g].texts[p] = Listed
  /\ reading' = [reading EXCEPT ![g].texts[p] = IF file[p] = Nothing THEN Torn ELSE file[p]]
  /\ UNCHANGED <<proc, births, file, begun, rows, known, asking, kill, hits, moved>>

(* toRow: a complete document states a row while its process is alive.     *)
RowOf(p, text) == IF proc[p] = Nothing THEN Nothing ELSE text

SettledAsListed(g) ==
  [p \in Pid |-> IF reading[g].texts[p] = Torn THEN rows[p] ELSE reading[g].texts[p]]

(* #settle: a file caught torn keeps the row it stated last.               *)
Settled(g) ==
  [p \in Pid |-> CASE reading[g].texts[p] = Nothing -> Nothing
                   [] reading[g].texts[p] = Torn -> rows[p]
                   [] OTHER -> RowOf(p, reading[g].texts[p])]

OvertakenAnswers(g) == "done"

(* A reading that is no longer the latest when it lands settles nothing:   *)
(* its caller waits for the one that is.                                   *)
Overtaken(g) == IF reading[begun].at = "done" THEN "done" ELSE "waiting"

(* #take *)
Land(g) ==
  /\ reading[g].at = "reading"
  /\ \A p \in Pid : reading[g].texts[p] # Listed
  /\ IF g = begun
     THEN LET found == Settled(g)
              k == Observed(known, found)
          IN  /\ rows' = found
              /\ known' = k
              /\ asking' = asking \cup Unread(k, found)
              /\ reading' = [h \in Read |-> IF h = g \/ reading[h].at = "waiting"
                                            THEN [reading[h] EXCEPT !.at = "done"]
                                            ELSE reading[h]]
     ELSE /\ reading' = [reading EXCEPT ![g].at = Overtaken(g)]
          /\ UNCHANGED <<rows, known, asking>>
  /\ UNCHANGED <<proc, births, file, begun, kill, hits, moved>>

-----------------------------------------------------------------------------
(* session.kill *)

KillEnds == kill' = NoKill

(* runsNow: a reading of its own before anything is resolved. *)
Kill(s, p, force) ==
  /\ kill.at = "idle"
  /\ Begins(begun + 1)
  /\ kill' = [NoKill EXCEPT !.at = "runs", !.sid = s, !.pid = p, !.force = force,
                            !.read = begun + 1]
  /\ UNCHANGED <<proc, births, file, rows, known, asking, hits>>

(* #run: the run the caller named, or the only one. *)
Resolvable(runs) ==
  IF kill.pid = Nothing THEN (IF Cardinality(runs) = 1 THEN runs ELSE {})
  ELSE runs \cap {kill.pid}

KillResolves ==
  /\ kill.at = "runs" /\ reading[kill.read].at = "done"
  /\ LET runs == Resolvable(OwnRuns(kill.sid))
     IN  \/ runs = {} /\ KillEnds
         \/ \E p \in runs :
              kill' = [kill EXCEPT !.at = "command", !.pid = p,
                                   !.born = rows[p].born]
  /\ UNCHANGED <<proc, births, file, reading, begun, rows, known, asking, hits, moved>>

(* isHarness: what the process under the pid was launched as.  `ps` may    *)
(* fail for one that is running, which ends the kill as well.              *)
KillLooksAtCommand ==
  /\ kill.at = "command"
  /\ \/ /\ proc[kill.pid] # Nothing /\ proc[kill.pid].harness
        /\ kill' = [kill EXCEPT !.at = "start", !.looked = births]
     \/ KillEnds
  /\ UNCHANGED <<proc, births, file, reading, begun, rows, known, asking, hits, moved>>

SameProcessUnasked(start) == TRUE

(* isSameProcess: a start that could not be read leaves the pid on the     *)
(* first check alone.                                                      *)
SameProcess(start) == start \in {Unsaid, kill.born}

(* kill.looked and kill.said keep how many processes had begun when `ps`   *)
(* last said something of this pid, and whether it was when it began.      *)
KillLooksAtStart ==
  /\ kill.at = "start"
  /\ \E start \in Starts(kill.pid) :
       IF ~SameProcess(start) THEN KillEnds
       ELSE IF start = Unsaid THEN kill' = [kill EXCEPT !.at = "signal"]
       ELSE kill' = [kill EXCEPT !.at = "signal", !.looked = births, !.said = TRUE]
  /\ UNCHANGED <<proc, births, file, reading, begun, rows, known, asking, hits, moved>>

(* send: a pid that is gone is what the caller wanted. *)
Signal(next) ==
  IF proc[kill.pid] = Nothing THEN KillEnds /\ UNCHANGED hits
  ELSE /\ hits' = hits \cup {[proc |-> proc[kill.pid], kill |-> kill]}
       /\ kill' = next

KillSignals ==
  /\ kill.at = "signal"
  /\ Signal([kill EXCEPT !.at = "polling"])
  /\ UNCHANGED <<proc, births, file, reading, begun, rows, known, asking, moved>>

(* One turn of the wait: the process is gone, or the second SIGTERM is     *)
(* due, or the grace is over and what is still there is reported as such.  *)
KillPolls ==
  /\ kill.at = "polling"
  /\ LET next == [kill EXCEPT !.polls = @ + 1]
     IN  IF proc[kill.pid] = Nothing \/ next.polls = GRACE THEN KillEnds /\ UNCHANGED hits
         ELSE IF ~kill.force /\ next.polls = SECOND THEN Signal(next)
         ELSE kill' = next /\ UNCHANGED hits
  /\ UNCHANGED <<proc, births, file, reading, begun, rows, known, asking, moved>>

Next ==
  \/ \E p \in Pid :
       \/ \E harness \in BOOLEAN : Spawn(p, harness)
       \/ Truncate(p)
       \/ \E s \in Sid : WriteState(p, s)
       \/ \E clean \in BOOLEAN : Exit(p, clean)
       \/ Fill(p)
  \/ Begin
  \/ \E g \in Read : List(g) \/ Land(g) \/ \E p \in Pid : ReadFile(g, p)
  \/ \E s \in Sid, p \in Pid \cup {Nothing}, force \in BOOLEAN : Kill(s, p, force)
  \/ KillResolves \/ KillLooksAtCommand \/ KillLooksAtStart \/ KillSignals \/ KillPolls

Spec == Init /\ [][Next]_vars

-----------------------------------------------------------------------------
(* Whoever waited for a reading is answered with the directory as it was   *)
(* when the reading was asked for or later, in whatever order the          *)
(* overlapping readings land: a process whose file and life have not moved *)
(* since is among the rows if it stated itself, and is not if it is gone   *)
(* (Readings.again, HarnessSessions.#settle).                              *)
ReadIsNow ==
  \A g \in Read : reading[g].at = "done" =>
    \A p \in Pid \ moved[g] :
      /\ file[p] = Nothing => rows[p] = Nothing
      /\ proc[p] = Nothing /\ file[p] # Torn => rows[p] = Nothing
      /\ file[p] \notin {Nothing, Torn} /\ proc[p] # Nothing => rows[p] = file[p]

(* A kill signals a process that took the pid after `ps` last spoke of it, *)
(* or else the one the session's row was written for where the host said   *)
(* when the process began, and a harness where it could not say: there a   *)
(* pid recycled onto another harness is signalled, as the comment of       *)
(* isSameProcess accepts (SessionProcesses.pid, kill).                     *)
SignalsItsRun ==
  \A h \in hits :
    \/ h.proc.born > h.kill.looked
    \/ IF h.kill.said THEN h.proc.born = h.kill.born ELSE h.proc.harness
=============================================================================
