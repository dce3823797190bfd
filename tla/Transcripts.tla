---------------------------- MODULE Transcripts ----------------------------
(***************************************************************************)
(* Following the transcript of one session: the holds that want it, the    *)
(* opening that looks for the file, takes up what a past run had folded    *)
(* and reads the rest (src/src/transcript/transcripts.ts), the tail that   *)
(* follows the file (tail.ts) and the cache the fold is kept in between    *)
(* runs (cache.ts).                                                        *)
(*                                                                         *)
(* A record is two bytes, its text and its newline, so that a file may end *)
(* in half of one; a read takes one record, which makes every chunk a      *)
(* window.  A fold is the sequence of the records it was made from: what   *)
(* the records say is left out.  Openings are numbered, and the tail an    *)
(* opening makes has its number; entries are the Followed objects, of      *)
(* which the map holds at most one while older ones may still be opening.  *)
(*                                                                         *)
(* Variants of a definition that carry a plausible fault stand just before *)
(* it; no specification uses them.                                         *)
(***************************************************************************)
EXTENDS Integers, Sequences

CONSTANTS
  MaxHolds,     \* bound on the holds of one entry
  MaxEntries,   \* bound on the entries ever made
  MaxOpens,     \* bound on the openings ever begun
  MaxRecords,   \* bound on the records of one file
  MaxFiles,     \* bound on the files that take the name
  MaxWrites,    \* bound on the cache operations waiting
  None          \* no entry, no cached fold

VARIABLES
  file,     \* the transcript: which file has the name, its records, half of one
  stated,   \* the session has named its path, which need not exist yet
  dup,      \* whether the registry counts two runs of the session
  current,  \* Transcripts.#followed: the entry of the session
  entry,    \* the Followed objects
  opening,  \* the calls of #open
  tail,     \* the TranscriptTail each opening made
  cache,    \* the entry on disk for the path
  writing,  \* FoldCache.#writing: what is chained
  overlapped  \* a thaw has found an opening of its entry at an await

vars == <<file, stated, dup, current, entry, opening, tail, cache, writing, overlapped>>

Entry == 1..MaxEntries
Open == 1..MaxOpens

NoEntry == [made |-> FALSE, holds |-> 0, fold |-> <<>>, standing |-> "absent", frozen |-> FALSE,
            path |-> FALSE, tail |-> 0, timer |-> "none", resumed |-> FALSE]
NoOpening == [at |-> "none", entry |-> 0, appeared |-> FALSE, behind |-> 0]
NoTail == [run |-> "idle", offset |-> 0, size |-> 0, watched |-> FALSE]

Init ==
  /\ file = [gen |-> 1, ino |-> 1, records |-> 0, half |-> FALSE, there |-> FALSE]
  /\ stated = FALSE
  /\ dup = FALSE
  /\ current = None
  /\ entry = [e \in Entry |-> NoEntry]
  /\ opening = [o \in Open |-> NoOpening]
  /\ tail = [o \in Open |-> NoTail]
  /\ cache = None
  /\ writing = <<>>
  /\ overlapped = FALSE

-----------------------------------------------------------------------------
(* The harness writes *)

Size == IF file.there THEN 2 * file.records + (IF file.half THEN 1 ELSE 0) ELSE 0

(* Only the size tells that a file is another one, so one that grows past  *)
(* what was accounted for before anybody looked again is not told apart:   *)
(* the harness is taken not to write that fast.                            *)
Accounted ==
  LET kept == {writing[i] : i \in DOMAIN writing} \cup ({cache} \ {None})
  IN  /\ \A o \in Open :
           \/ tail[o].run = "stopped" /\ ~\E e \in Entry : current = e /\ entry[e].tail = o
           \/ tail[o].offset <= Size
      /\ \A k \in kept : k.ino = file.ino => k.offset <= Size

Write ==
  /\ file.gen > 1 => Accounted
  /\ \/ ~file.there /\ file' = [file EXCEPT !.there = TRUE]
     \/ /\ file.there /\ ~file.half /\ file.records < MaxRecords
        /\ file' = [file EXCEPT !.half = TRUE]
     \/ file.half /\ file' = [file EXCEPT !.half = FALSE, !.records = @ + 1]
  /\ UNCHANGED <<stated, dup, current, entry, opening, tail, cache, writing, overlapped>>

(* The file is emptied in place, or another takes its name. *)
Replace(another) ==
  /\ file.there /\ file.gen < MaxFiles
  /\ file' = [gen |-> file.gen + 1, ino |-> IF another THEN file.ino + 1 ELSE file.ino,
              records |-> 0, half |-> FALSE, there |-> TRUE]
  /\ UNCHANGED <<stated, dup, current, entry, opening, tail, cache, writing, overlapped>>

-----------------------------------------------------------------------------
(* FoldCache *)

Prefix(gen, n) == [i \in 1..n |-> <<gen, i>>]

SavedLater(e) == [op |-> "save", ino |-> file.ino, offset |-> Size, fold |-> entry[e].fold,
                  frozen |-> entry[e].frozen]

(* save: the state, the offset and the identity of the file are all taken  *)
(* when it is called.                                                      *)
Saved(e) == [op |-> "save", ino |-> file.ino, offset |-> tail[entry[e].tail].offset,
             fold |-> entry[e].fold, frozen |-> entry[e].frozen]

Dropped == [op |-> "drop", ino |-> 0, offset |-> 0, fold |-> <<>>, frozen |-> FALSE]

(* #remember: nothing for an entry with no tail, or a file that is gone. *)
Remember(e) == IF entry[e].path /\ entry[e].tail # 0 /\ file.there THEN <<Saved(e)>> ELSE <<>>

Lands ==
  /\ writing # <<>>
  /\ writing' = Tail(writing)
  /\ \/ /\ Head(writing).op = "save"
        /\ cache' \in {Head(writing), cache}
     \/ Head(writing).op = "drop" /\ cache' = None
  /\ opening' = [o \in Open |-> IF opening[o].behind > 0
                                THEN [opening[o] EXCEPT !.behind = @ - 1] ELSE opening[o]]
  /\ UNCHANGED <<file, stated, dup, current, entry, tail, overlapped>>

KeptUnasked == cache

(* read: another file, or one shorter than the state accounts for, has     *)
(* nothing kept.                                                           *)
Kept == IF cache # None /\ file.there /\ cache.ino = file.ino /\ Size >= cache.offset
        THEN cache ELSE None

-----------------------------------------------------------------------------
(* Transcripts.#open *)

Holds(e) == current = e

Free == {o \in Open : opening[o].at = "none" /\ \A p \in 1..(o - 1) : opening[p].at # "none"}

Begin(o, e, appeared) ==
  [opening EXCEPT ![o] = [at |-> "find", entry |-> e, appeared |-> appeared, behind |-> 0]]

Ended(o) == [opening EXCEPT ![o].at = "done"]

WantedUnasked(e) == ~entry[e].frozen

(* What every await is followed by: the entry is still the session's, and  *)
(* nobody has frozen it.                                                   *)
Wanted(e) == Holds(e) /\ ~entry[e].frozen

(* The path: one the session named, or the file that carries its name. *)
Find(o) ==
  LET e == opening[o].entry
  IN  /\ opening[o].at = "find"
      /\ CASE ~Wanted(e) -> opening' = Ended(o) /\ UNCHANGED entry
           [] Wanted(e) /\ ~(stated \/ file.there) ->
                /\ opening' = Ended(o)
                /\ entry' = [entry EXCEPT ![e].standing = "absent", ![e].timer = "appeared"]
           [] OTHER ->
                /\ opening' = [opening EXCEPT ![o].at = "cache", ![o].behind = Len(writing)]
                /\ entry' = [entry EXCEPT ![e].standing = "folding", ![e].path = TRUE]
      /\ UNCHANGED <<file, stated, dup, current, tail, cache, writing, overlapped>>

(* What was kept is taken up, and the tail reads from where it ended. *)
TakeUp(o) ==
  LET e == opening[o].entry
  IN  /\ opening[o].at = "cache" /\ opening[o].behind = 0
      /\ IF ~Wanted(e) THEN opening' = Ended(o) /\ UNCHANGED <<entry, tail>>
         ELSE /\ opening' = [opening EXCEPT ![o].at = "reading"]
              /\ entry' = [entry EXCEPT ![e].tail = o,
                             ![e].resumed = Kept # None /\ Kept.frozen,
                             ![e].fold = IF Kept = None THEN @ ELSE Kept.fold]
              /\ tail' = [tail EXCEPT ![o] = [run |-> "stat", size |-> 0, watched |-> FALSE,
                             offset |-> IF Kept = None THEN 0 ELSE Kept.offset]]
      /\ UNCHANGED <<file, stated, dup, current, cache, writing, overlapped>>

(* The file as it stands has been read: the watch goes on, and the reading *)
(* is written down.  A tail that was stopped meanwhile reads no further.   *)
Opened(o) ==
  LET e == opening[o].entry
  IN  /\ opening[o].at = "reading" /\ tail[o].run \in {"end", "stopped"}
      /\ Len(writing) < MaxWrites
      /\ IF ~Wanted(e)
         THEN /\ opening' = Ended(o)
              /\ tail' = [tail EXCEPT ![o].run = "stopped", ![o].watched = FALSE]
              /\ UNCHANGED writing
         ELSE /\ tail' = IF tail[o].run = "stopped" THEN tail
                         ELSE [tail EXCEPT ![o].run = "idle", ![o].watched = TRUE]
              /\ writing' = writing \o Remember(e)
              /\ opening' = [opening EXCEPT ![o].at = "keeping", ![o].behind = Len(writing')]
      /\ UNCHANGED <<file, stated, dup, current, entry, cache, overlapped>>

Finished(o) ==
  /\ opening[o].at = "keeping" /\ opening[o].behind = 0
  /\ opening' = Ended(o)
  /\ entry' = [entry EXCEPT ![opening[o].entry].standing =
                 IF tail[o].size > 0 THEN "ready" ELSE "absent"]
  /\ UNCHANGED <<file, stated, dup, current, tail, cache, writing, overlapped>>

(* The reading could not be made: what it was taken up from goes, and the  *)
(* file is looked for again while somebody holds the session.              *)
Fails(o) ==
  LET e == opening[o].entry
      held == entry[e].tail
  IN  /\ opening[o].at = "reading" /\ tail[o].run = "slice"
      /\ Len(writing) < MaxWrites
      /\ opening' = Ended(o)
      /\ tail' = [t \in Open |-> IF t \in {o, held}
                                 THEN [tail[t] EXCEPT !.run = "stopped", !.watched = FALSE]
                                 ELSE tail[t]]
      /\ entry' = [entry EXCEPT ![e] =
                     [@ EXCEPT !.tail = 0, !.path = FALSE, !.fold = <<>>,
                               !.standing = "absent",
                               !.timer = IF Wanted(e) THEN "again" ELSE @]]
      /\ writing' = Append(writing, Dropped)
      /\ UNCHANGED <<file, stated, dup, current, cache, overlapped>>

(* #lookAgain *)
TimerFires(o) ==
  /\ o \in Free /\ current # None /\ entry[current].timer # "none"
  /\ opening' = Begin(o, current, entry[current].timer = "appeared")
  /\ entry' = [entry EXCEPT ![current].timer = "none"]
  /\ UNCHANGED <<file, stated, dup, current, tail, cache, writing, overlapped>>

-----------------------------------------------------------------------------
(* TranscriptTail *)

Owner(o) == opening[o].entry

(* TranscriptFold.line: of what a fold holds, only the records it was      *)
(* given, and their order, are kept.                                       *)
Folded(fold, record) == Append(fold, record)

(* #appended: a record goes to the fold, and a session that had none has a *)
(* transcript now.                                                         *)
Appended(e, record, appears) ==
  [entry EXCEPT ![e].fold = Folded(@, record),
                ![e].standing = IF @ = "absent" /\ appears THEN "ready" ELSE @]

(* #reset: the file is not the one that was being read.                    *)
Reset(e) == [entry EXCEPT ![e].fold = <<>>]

(* #stat, first of catching up, then of every refresh: a file shorter than *)
(* what was consumed is another one, and is read from its beginning.       *)
Stat(o) ==
  /\ tail[o].run \in {"stat", "restat"}
  /\ LET size == IF file.there THEN Size ELSE tail[o].offset
         shrank == tail[o].run = "restat" /\ size < tail[o].offset
     IN  /\ tail' = [tail EXCEPT ![o].size = size, ![o].run = "slice",
                                 ![o].offset = IF shrank THEN 0 ELSE @]
         /\ entry' = IF shrank THEN Reset(Owner(o)) ELSE entry
         /\ writing' = IF shrank THEN Append(writing, Dropped) ELSE writing
         /\ shrank => Len(writing) < MaxWrites
  /\ UNCHANGED <<file, stated, dup, current, opening, cache, overlapped>>

(* #consume: the next whole record, and the end of the pass where there is *)
(* none up to the size that was seen.                                      *)
Slice(o) ==
  /\ tail[o].run = "slice"
  /\ LET at == tail[o].offset
         whole == at < tail[o].size /\ at \div 2 < file.records /\ at + 2 <= tail[o].size
         end == IF opening[o].at = "reading" THEN "end" ELSE "idle"
     IN  IF whole
         THEN /\ tail' = [tail EXCEPT ![o].offset = at + 2]
              /\ entry' = Appended(Owner(o), <<file.gen, at \div 2 + 1>>,
                                   end = "idle" \/ opening[o].appeared)
         ELSE /\ tail' = [tail EXCEPT ![o].run = end]
              /\ UNCHANGED entry
  /\ UNCHANGED <<file, stated, dup, current, opening, cache, writing, overlapped>>

(* The watch, or the poll. *)
Refresh(o) ==
  /\ tail[o].watched /\ tail[o].run = "idle"
  /\ tail' = [tail EXCEPT ![o].run = "restat"]
  /\ UNCHANGED <<file, stated, dup, current, entry, opening, cache, writing, overlapped>>

-----------------------------------------------------------------------------
(* Holds, releases and duplicates *)

(* #let: the tail of the entry stops, wherever its reading stands. *)
Let(e) ==
  IF entry[e].tail = 0 THEN tail
  ELSE [tail EXCEPT ![entry[e].tail] = [@ EXCEPT !.run = "stopped", !.watched = FALSE]]

Hold(e, o) ==
  \/ /\ current # None /\ e = current /\ entry[e].holds < MaxHolds
     /\ entry' = [entry EXCEPT ![e].holds = @ + 1]
     /\ UNCHANGED <<file, stated, dup, current, opening, tail, cache, writing, overlapped>>
  \/ /\ current = None /\ ~entry[e].made /\ \A f \in 1..(e - 1) : entry[f].made
     /\ o \in Free
     /\ current' = e
     /\ entry' = [entry EXCEPT ![e].made = TRUE, ![e].holds = 1, ![e].frozen = dup,
                               ![e].standing = IF dup THEN "frozen" ELSE "absent"]
     /\ opening' = IF dup THEN opening ELSE Begin(o, e, FALSE)
     /\ UNCHANGED <<file, stated, dup, tail, cache, writing, overlapped>>

Release(e) ==
  /\ current = e
  /\ Len(writing) < MaxWrites
  /\ IF entry[e].holds > 1
     THEN /\ entry' = [entry EXCEPT ![e].holds = @ - 1]
          /\ UNCHANGED <<current, tail, writing>>
     ELSE /\ current' = None
          /\ tail' = Let(e)
          /\ writing' = writing \o Remember(e)
          /\ entry' = [entry EXCEPT ![e].holds = 0, ![e].timer = "none"]
  /\ UNCHANGED <<file, stated, dup, opening, cache, overlapped>>

(* duplicated(sid, true): nothing of the file is read while two write it. *)
Freeze ==
  /\ ~dup /\ dup' = TRUE
  /\ IF current = None THEN UNCHANGED <<entry, tail>>
     ELSE /\ tail' = Let(current)
          /\ entry' = [entry EXCEPT ![current] =
                         [@ EXCEPT !.frozen = TRUE, !.standing = "frozen", !.timer = "none"]]
  /\ UNCHANGED <<file, stated, current, opening, cache, writing, overlapped>>

InFlight(e) == \E o \in Open : opening[o].entry = e /\ opening[o].at \notin {"none", "done"}

(* duplicated(sid, false): the reading begins again from the top, whether  *)
(* or not an opening of the entry is still at one of its awaits.           *)
Thaw(o) ==
  /\ dup /\ dup' = FALSE
  /\ overlapped' = (overlapped \/ (current # None /\ InFlight(current)))
  /\ IF current = None THEN UNCHANGED <<entry, opening, writing>>
     ELSE /\ o \in Free
          /\ Len(writing) < MaxWrites
          /\ writing' = IF entry[current].path THEN Append(writing, Dropped) ELSE writing
          /\ entry' = [entry EXCEPT ![current] =
                         [@ EXCEPT !.frozen = FALSE, !.fold = <<>>, !.tail = 0,
                                   !.path = FALSE, !.standing = "absent"]]
          /\ opening' = Begin(o, current, FALSE)
  /\ UNCHANGED <<file, stated, current, tail, cache>>

(* The greeting that names the path. *)
State ==
  /\ ~stated /\ stated' = TRUE
  /\ UNCHANGED <<file, dup, current, entry, opening, tail, cache, writing, overlapped>>

Steps ==
  \/ Lands
  \/ \E o \in Open : Find(o) \/ TakeUp(o) \/ Opened(o) \/ Finished(o) \/ TimerFires(o)
                     \/ Stat(o) \/ Slice(o) \/ Refresh(o)

Next ==
  \/ Write \/ State \/ Freeze \/ Steps
  \/ \E another \in BOOLEAN : Replace(another)
  \/ \E e \in Entry : Release(e) \/ \E o \in Open : Hold(e, o)
  \/ \E o \in Open : Thaw(o) \/ Fails(o)

Spec == Init /\ [][Next]_vars

-----------------------------------------------------------------------------
(* Only the entry a session is followed by has its file watched, by the    *)
(* tail the entry has, and none does that is frozen: "a reading nobody     *)
(* wants any more stops where it is, rather than going on to put a watch   *)
(* on a file" (#open, #let).                                               *)
WatchIsWanted ==
  \A o \in Open : tail[o].watched =>
    current = opening[o].entry /\ entry[current].tail = o /\ ~dup

(* The same, as long as no thaw has fallen while an opening of the entry   *)
(* was at one of its awaits: a release, another hold, a freeze alone and a *)
(* thaw after the opening ended leave no watch that nobody wants.  The     *)
(* await that a freeze and the thaw after it both fall into does, because  *)
(* the opening asks afterwards whether it is frozen and no longer is.      *)
TailIsWanted == ~overlapped => WatchIsWanted

(* What the followed entry has folded is the records of one file from its  *)
(* first to the one its tail has reached, each once and in order, whatever *)
(* was taken up from the cache (#open, TranscriptTail.#consume), as long   *)
(* as no thaw has fallen while an opening of the entry was at an await.    *)
FoldIsPrefix ==
  ~overlapped /\ current # None /\ entry[current].tail # 0 =>
    LET t == tail[entry[current].tail]
    IN  \E gen \in 1..MaxFiles : entry[current].fold = Prefix(gen, t.offset \div 2)

(* After two processes have written a session, its reading begins from the *)
(* top: no offset from before they did is taken up again (duplicated).     *)
ThawReadsFromTop == current # None => ~entry[current].resumed

(* What the cache keeps under a file's identity accounts for that file's   *)
(* first bytes up to the offset it states (FoldCache.save), as long as no  *)
(* thaw has fallen while an opening of the entry was at an await: two      *)
(* tails that fold into one entry save what neither of them read.          *)
CacheDescribes ==
  ~overlapped /\ cache # None =>
    \E gen \in 1..MaxFiles : cache.fold = Prefix(gen, cache.offset \div 2)
=============================================================================
