----------------------------- MODULE MCSessions -----------------------------
(* Small instances of what is known of a session: the list of sessions and *)
(* who speaks for each, with two connections or across a restart, the runs *)
(* of the harness behind them, and the transcript that is followed, across *)
(* two openings of it or while its file is replaced.                       *)
EXTENDS Integers, TLC

CONSTANTS
  Sid, Pid, Conn, Sub, Retention, MaxTime, MaxDocs, Nothing, RunPid,
  MaxBirths, MaxReads, SECOND, GRACE, Torn, Listed, Unsaid, MaxHolds,
  MaxEntries, MaxOpens, MaxRecords, MaxFiles, MaxWrites, None, Off

VARIABLES
  machine,  \* the component this behaviour is one of
  mem, conn, sub, file, now, codex, crashes, failed, proc, births, reading,
  begun, rows, known, asking, kill, hits, moved, stated, dup, current, entry,
  opening, tail, cache, writing, overlapped

S == INSTANCE Sessions WITH
  MaxCrashes <- 1

H == INSTANCE HarnessRuns WITH
  Pid <- RunPid

T == INSTANCE Transcripts

(* One component runs in a behaviour; the variables of the others hold     *)
(* nothing.                                                                *)
InitRegistry ==
  /\ machine = "registry" /\ S!Init
  /\ proc = Off /\ births = Off /\ reading = Off /\ begun = Off /\ rows = Off
  /\ known = Off /\ asking = Off /\ kill = Off /\ hits = Off /\ moved = Off
  /\ stated = Off /\ dup = Off /\ current = Off /\ entry = Off
  /\ opening = Off /\ tail = Off /\ cache = Off /\ writing = Off
  /\ overlapped = Off

OnlyRegistry ==
  /\ machine = "registry"
  /\ UNCHANGED <<machine, proc, births, reading, begun, rows, known, asking,
                 kill, hits, moved, stated, dup, current, entry, opening,
                 tail, cache, writing, overlapped>>

InitRestarted ==
  /\ machine = "restarted" /\ S!Init
  /\ proc = Off /\ births = Off /\ reading = Off /\ begun = Off /\ rows = Off
  /\ known = Off /\ asking = Off /\ kill = Off /\ hits = Off /\ moved = Off
  /\ stated = Off /\ dup = Off /\ current = Off /\ entry = Off
  /\ opening = Off /\ tail = Off /\ cache = Off /\ writing = Off
  /\ overlapped = Off

OnlyRestarted ==
  /\ machine = "restarted"
  /\ UNCHANGED <<machine, proc, births, reading, begun, rows, known, asking,
                 kill, hits, moved, stated, dup, current, entry, opening,
                 tail, cache, writing, overlapped>>

InitRuns ==
  /\ machine = "runs" /\ H!Init
  /\ mem = Off /\ conn = Off /\ sub = Off /\ now = Off /\ codex = Off
  /\ crashes = Off /\ failed = Off /\ stated = Off /\ dup = Off
  /\ current = Off /\ entry = Off /\ opening = Off /\ tail = Off
  /\ cache = Off /\ writing = Off /\ overlapped = Off

OnlyRuns ==
  /\ machine = "runs"
  /\ UNCHANGED <<machine, mem, conn, sub, now, codex, crashes, failed,
                 stated, dup, current, entry, opening, tail, cache, writing,
                 overlapped>>

InitTranscript ==
  /\ machine = "transcript" /\ T!Init
  /\ mem = Off /\ conn = Off /\ sub = Off /\ now = Off /\ codex = Off
  /\ crashes = Off /\ failed = Off /\ proc = Off /\ births = Off
  /\ reading = Off /\ begun = Off /\ rows = Off /\ known = Off
  /\ asking = Off /\ kill = Off /\ hits = Off /\ moved = Off

OnlyTranscript ==
  /\ machine = "transcript"
  /\ UNCHANGED <<machine, mem, conn, sub, now, codex, crashes, failed, proc,
                 births, reading, begun, rows, known, asking, kill, hits,
                 moved>>

InitReplaced ==
  /\ machine = "replaced" /\ T!Init
  /\ mem = Off /\ conn = Off /\ sub = Off /\ now = Off /\ codex = Off
  /\ crashes = Off /\ failed = Off /\ proc = Off /\ births = Off
  /\ reading = Off /\ begun = Off /\ rows = Off /\ known = Off
  /\ asking = Off /\ kill = Off /\ hits = Off /\ moved = Off

OnlyReplaced ==
  /\ machine = "replaced"
  /\ UNCHANGED <<machine, mem, conn, sub, now, codex, crashes, failed, proc,
                 births, reading, begun, rows, known, asking, kill, hits,
                 moved>>

MCInit ==
  \/ InitRegistry \/ InitRestarted \/ InitRuns \/ InitTranscript
  \/ InitReplaced

(* Several connections come and go in a process that lives on, or one at a *)
(* time in one that may die; a session is followed again and again over    *)
(* one file, or once over a file that is replaced.                         *)
LivesOn == crashes' = crashes

OneAtATime == \A c, d \in Conn : c # d => S!NoOne \in {conn'[c], conn'[d]}

SameFile == file'.gen = 1

HeldOnce == \A e \in 2..MaxEntries : ~entry'[e].made

MCNext ==
  \/ OnlyRegistry /\ S!Next /\ LivesOn
  \/ OnlyRestarted /\ S!Next /\ OneAtATime
  \/ OnlyRuns /\ H!Next
  \/ OnlyTranscript /\ T!Next /\ SameFile
  \/ OnlyReplaced /\ T!Next /\ HeldOnce

MCvars == <<machine, mem, conn, sub, file, now, codex, crashes, failed, proc,
            births, reading, begun, rows, known, asking, kill, hits, moved,
            stated, dup, current, entry, opening, tail, cache, writing, overlapped>>

Interchangeable == Permutations(Pid) \cup Permutations(Conn)

MCSpec == MCInit /\ [][MCNext]_MCvars

(* A state that FoldIsPrefix says nothing of is reached and not gone on    *)
(* from: nothing it says anything of comes after one.                      *)
NotOverlapped == machine \in {"transcript", "replaced"} => ~overlapped

-----------------------------------------------------------------------------
(* A session is live or among the past, never both; its connections and    *)
(* the runs they speak for are counted exactly; and what a subscriber was  *)
(* sent and the file add up to the list (SessionRegistry.register,         *)
(* release, changed, snapshot).                                            *)
SessionsAreListed ==
  machine \in {"registry", "restarted"} =>
    S!OneList /\ S!ConnectionsCounted /\ S!ViewIsList /\ S!FileFollows

(* A session that stops being live is recorded in the same step, with what *)
(* it had said and the stop it had declared (changed).                     *)
DepartureIsRecorded ==
  [][(machine \in {"registry", "restarted"}) => S!Records]_MCvars

(* Whoever waited for a reading of the runs is answered with the directory *)
(* as it was then or later, and a kill never signals a process it could    *)
(* have told from its run's own (Readings.again, SessionProcesses.pid).    *)
ReadIsNow == machine = "runs" => H!ReadIsNow /\ H!SignalsItsRun

(* What is folded of a transcript is each record of one file once and in   *)
(* order, from a tail that is wanted, also when it was taken up from the   *)
(* cache, as long as no thaw of the session has fallen while an opening of *)
(* it was at an await (Transcripts.#open, duplicated, FoldCache.save).     *)
FoldIsPrefix ==
  machine \in {"transcript", "replaced"} =>
    T!FoldIsPrefix /\ T!TailIsWanted /\ T!CacheDescribes
=============================================================================
