------------------------------- MODULE Config -------------------------------
(***************************************************************************)
(* What a host is told to run: the files a person edits, the commands that *)
(* write them, and the settings that were applied (src/src/instance/       *)
(* config.ts, src/src/daemon/registry.ts, the config commands of           *)
(* src/src/cli.ts, #adopt of src/src/daemon/supervise.ts).                 *)
(*                                                                         *)
(* Every command is a process of its own, and the supervisor is another,   *)
(* so what two of them do to the files interleaves at each file read or    *)
(* written.  A process may be killed between any two of its steps.  The    *)
(* id of an instance stands for the config home whose state directory      *)
(* holds it, which an add makes once and a remove leaves.                  *)
(***************************************************************************)
EXTENDS Integers, Sequences, FiniteSets, FiniteSetsExt

CONSTANTS
  Proc,      \* processes: commands, and the supervisor starting
  Home,      \* config homes, and with them instance ids
  Doing,     \* what a process may be started for
  Mistyped,  \* the files an edit may leave unreadable
  None,      \* no such row, file or value
  Broken,    \* a file that cannot be read as what it should be
  MaxRuns,   \* bound on processes started
  MaxKills,  \* bound on processes killed
  MaxEdits   \* bound on a person's edits

VARIABLES
  endpoints,   \* endpoints.json: the port of each row, or None, or Broken
  supervised,  \* supervisor.json: the ids it lists, or None, or Broken
  own,         \* each id's file under instances/: its home and port
  copies,      \* the checked copies of the three
  applied,     \* satisfied.json, or None
  proc,        \* what each process is doing
  reused,      \* whether an add took the port of a row no instance answers for
  reverted,    \* whether a revert was begun
  asked,       \* the homes a remove was begun for
  runs, kills, edits

files == <<endpoints, supervised, own>>
bounds == <<runs, kills, edits>>
story == <<reused, reverted, asked>>
vars == <<files, copies, applied, proc, story, bounds>>

FIRST_PORT == 1

NoRows == [h \in Home |-> None]
NoFiles == [h \in Home |-> None]
Empty == [endpoints |-> NoRows, instances |-> NoFiles]

Init ==
  /\ endpoints = None /\ supervised = None /\ own = NoFiles
  /\ copies = [endpoints |-> None, supervised |-> None, own |-> NoFiles]
  /\ applied = None
  /\ proc = [p \in Proc |-> [doing |-> None]]
  /\ reused = FALSE /\ reverted = FALSE /\ asked = {}
  /\ runs = 0 /\ kills = 0 /\ edits = 0

-----------------------------------------------------------------------------
(* evaluate *)

Ports(instances) == {instances[h].port : h \in {x \in Home : instances[x] # None}}

Distinct(f, ids) == \A g, h \in ids : g # h => f[g] # f[h]

(* settingsOf and parseConfig: the file is there, can be loaded, and what  *)
(* it states is checked, field by field.                                   *)
Readable(f) == f \notin {None, Broken}

(* The ids both lists name, each with a file of its own that can be read   *)
(* (instanceOf), are what an instance is made of.                          *)
InstancesHold(e, s, o) ==
  /\ \A h \in s : e[h] # None /\ Readable(o[h])
  /\ Distinct([h \in s |-> o[h].dir], s)
  /\ Distinct([h \in s |-> o[h].port], s)

(* readEndpoints and readSupervisor beside them.  A list that is not there *)
(* is not a broken one.                                                    *)
Holds(e, s, o) ==
  /\ e # Broken /\ s # Broken
  /\ e # None => Distinct(e, {h \in Home : e[h] # None})
  /\ e # None /\ s # None => InstancesHold(e, s, o)

Satisfied(e, s, o) ==
  IF e = None \/ s = None THEN Empty
  ELSE [endpoints |-> e, instances |-> [h \in Home |-> IF h \in s THEN o[h] ELSE None]]

(* applied: what stands when the files do not hold, and what nothing       *)
(* stands for.                                                             *)
Standing == IF applied = None THEN Empty ELSE applied

-----------------------------------------------------------------------------
(* The steps of a command.  What evaluate reads is kept as it goes: the    *)
(* two lists, then the files of the instances.                             *)

(* A remove takes the instance off the mesh before it takes it off the     *)
(* list of what is started, and an add the other way round.                *)
StepsMeshLast(doing) ==
  CASE doing = "add" ->
         <<"readEndpoints", "readSupervised", "readOwn", "choose", "writeOwn",
           "getSupervised", "putSupervised", "getEndpoints", "putEndpoints",
           "readEndpoints", "readSupervised", "readOwn", "copy", "satisfy">>
    [] doing = "remove" ->
         <<"readEndpoints", "readSupervised", "readOwn", "find",
           "getEndpoints", "putEndpoints", "getSupervised", "putSupervised", "dropOwn",
           "readEndpoints", "readSupervised", "readOwn", "copy", "satisfy">>
    [] doing = "adopt" ->
         <<"readEndpoints", "readSupervised", "readOwn", "copy", "satisfy">>
    [] doing = "revert" ->
         <<"restoreEndpoints", "restoreSupervised", "restoreOwn">>

(* add writes the instance's file, its row of the mesh and the list of     *)
(* what is started, in that order; remove goes the other way round.  Each  *)
(* then reads everything, checks it and applies what holds (settle), which *)
(* is all a supervisor does as it starts.  revert puts the copies back.    *)
Steps(doing) ==
  CASE doing = "add" ->
         <<"readEndpoints", "readSupervised", "readOwn", "choose", "writeOwn",
           "getEndpoints", "putEndpoints", "getSupervised", "putSupervised",
           "readEndpoints", "readSupervised", "readOwn", "copy", "satisfy">>
    [] doing = "remove" ->
         <<"readEndpoints", "readSupervised", "readOwn", "find",
           "getSupervised", "putSupervised", "getEndpoints", "putEndpoints", "dropOwn",
           "readEndpoints", "readSupervised", "readOwn", "copy", "satisfy">>
    [] doing = "adopt" ->
         <<"readEndpoints", "readSupervised", "readOwn", "copy", "satisfy">>
    [] doing = "revert" ->
         <<"restoreEndpoints", "restoreSupervised", "restoreOwn">>

Begin(p, doing, h) ==
  /\ proc[p].doing = None
  /\ runs < MaxRuns
  /\ runs' = runs + 1
  /\ proc' = [proc EXCEPT ![p] =
                [doing |-> doing, home |-> h, at |-> 1, port |-> None,
                 e |-> None, s |-> None,
                 o |-> IF doing = "revert" THEN Standing.instances ELSE NoFiles]]
  /\ reverted' = (reverted \/ doing = "revert")
  /\ asked' = IF doing = "remove" THEN asked \cup {h} ELSE asked
  /\ UNCHANGED <<files, copies, applied, reused, kills, edits>>

Killed(p) ==
  /\ proc[p].doing # None
  /\ kills < MaxKills
  /\ kills' = kills + 1
  /\ proc' = [proc EXCEPT ![p] = [doing |-> None]]
  /\ UNCHANGED <<files, copies, applied, story, runs, edits>>

At(p, step) == proc[p].doing # None /\ Steps(proc[p].doing)[proc[p].at] = step

Goes(p, field, value) ==
  LET task == [proc[p] EXCEPT !.at = proc[p].at + 1]
  IN  proc' = [proc EXCEPT ![p] = IF proc[p].at = Len(Steps(proc[p].doing)) THEN [doing |-> None]
                                  ELSE [task EXCEPT ![field] = value]]

Ends(p) == proc' = [proc EXCEPT ![p] = [doing |-> None]]

Reads(p) ==
  /\ \/ At(p, "readEndpoints") /\ Goes(p, "e", endpoints)
     \/ At(p, "readSupervised") /\ Goes(p, "s", supervised)
     \/ At(p, "readOwn") /\ Goes(p, "o", own)
  /\ UNCHANGED <<files, copies, applied, story, bounds>>

ReadHolds(p) == Holds(proc[p].e, proc[p].s, proc[p].o)

(* known: what a command acts on.                                          *)
Known(p) == IF ReadHolds(p) THEN Satisfied(proc[p].e, proc[p].s, proc[p].o) ELSE Standing

(* freePort: one past the highest of what is registered.                   *)
FreePort(instances) ==
  IF Ports(instances) = {} THEN FIRST_PORT ELSE Max(Ports(instances)) + 1

Choose(p) ==
  LET held == Known(p).instances
      port == FreePort(held)
      orphaned == /\ Readable(endpoints)
                  /\ \E h \in Home \ {proc[p].home} : endpoints[h] = port /\ held[h] = None
  IN  /\ At(p, "choose")
      /\ IF \E h \in Home : held[h] # None /\ held[h].dir = proc[p].home
         THEN Ends(p) /\ UNCHANGED reused
         ELSE Goes(p, "port", port) /\ reused' = (reused \/ orphaned)
      /\ UNCHANGED <<files, copies, applied, reverted, asked, bounds>>

Find(p) ==
  /\ At(p, "find")
  /\ IF Known(p).instances[proc[p].home] = None THEN Ends(p) ELSE Goes(p, "port", None)
  /\ UNCHANGED <<files, copies, applied, story, bounds>>

(* The list taken as empty however it reads.                               *)
RowsForgotten(f) == NoRows
ListedForgotten(f) == {}

(* readEndpointRows and readSupervised: a file that does not read as a     *)
(* list is an empty one.                                                   *)
Rows(f) == IF f \in {None, Broken} THEN NoRows ELSE f

Listed(f) == IF f \in {None, Broken} THEN {} ELSE f

Gets(p) ==
  /\ \/ At(p, "getEndpoints") /\ Goes(p, "e", Rows(endpoints))
     \/ At(p, "getSupervised") /\ Goes(p, "s", Listed(supervised))
  /\ UNCHANGED <<files, copies, applied, story, bounds>>

(* saveEndpoints and saveSupervisor: for an add the row with its port, for *)
(* a remove the rows without it.                                           *)
PutEndpoints(p) ==
  /\ At(p, "putEndpoints")
  /\ endpoints' = [proc[p].e EXCEPT ![proc[p].home] = proc[p].port]
  /\ Goes(p, "e", None)
  /\ UNCHANGED <<supervised, own, copies, applied, story, bounds>>

PutSupervised(p) ==
  /\ At(p, "putSupervised")
  /\ supervised' = IF proc[p].doing = "add" THEN proc[p].s \cup {proc[p].home}
                   ELSE proc[p].s \ {proc[p].home}
  /\ Goes(p, "s", None)
  /\ UNCHANGED <<endpoints, own, copies, applied, story, bounds>>

PutOwn(p) ==
  /\ \/ /\ At(p, "writeOwn")
        /\ own' = [own EXCEPT ![proc[p].home] =
                     [dir |-> proc[p].home, port |-> proc[p].port]]
        /\ Goes(p, "port", proc[p].port)
     \/ /\ At(p, "dropOwn")
        /\ own' = [own EXCEPT ![proc[p].home] = None]
        /\ Goes(p, "port", None)
  /\ UNCHANGED <<endpoints, supervised, copies, applied, story, bounds>>

(* settle and apply: what does not hold leaves the applied one standing.   *)
(* A file that is not there leaves its copy where it was.                  *)
Copied(f, copy) == IF f = None THEN copy ELSE f

Copies(p) ==
  /\ At(p, "copy")
  /\ IF ReadHolds(p)
     THEN /\ copies' = [endpoints |-> Copied(endpoints, copies.endpoints),
                        supervised |-> Copied(supervised, copies.supervised),
                        own |-> [h \in Home |->
                                   IF Satisfied(proc[p].e, proc[p].s, proc[p].o).instances[h] = None
                                   THEN copies.own[h] ELSE Copied(own[h], copies.own[h])]]
          /\ Goes(p, "port", None)
     ELSE Ends(p) /\ UNCHANGED copies
  /\ UNCHANGED <<files, applied, story, bounds>>

Satisfies(p) ==
  /\ At(p, "satisfy")
  /\ applied' = Satisfied(proc[p].e, proc[p].s, proc[p].o)
  /\ Goes(p, "port", None)
  /\ UNCHANGED <<files, copies, story, bounds>>

(* configRevert --all: each checked copy over the file it was taken of,    *)
(* for the instances of what was applied as it began.                      *)
Restores(p) ==
  /\ \/ /\ At(p, "restoreEndpoints")
        /\ endpoints' = IF copies.endpoints = None THEN endpoints ELSE copies.endpoints
        /\ UNCHANGED <<supervised, own>>
     \/ /\ At(p, "restoreSupervised")
        /\ supervised' = IF copies.supervised = None THEN supervised ELSE copies.supervised
        /\ UNCHANGED <<endpoints, own>>
     \/ /\ At(p, "restoreOwn")
        /\ own' = [h \in Home |-> IF proc[p].o[h] = None \/ copies.own[h] = None
                                  THEN own[h] ELSE copies.own[h]]
        /\ UNCHANGED <<endpoints, supervised>>
  /\ Goes(p, "port", None)
  /\ UNCHANGED <<copies, applied, story, bounds>>

(* A person's edit that left a file that cannot be read.                   *)
Typo(f, h) ==
  /\ edits < MaxEdits
  /\ edits' = edits + 1
  /\ endpoints' = IF f = "endpoints" THEN Broken ELSE endpoints
  /\ supervised' = IF f = "supervised" THEN Broken ELSE supervised
  /\ own' = IF f = "own" THEN [own EXCEPT ![h] = Broken] ELSE own
  /\ UNCHANGED <<copies, applied, proc, story, runs, kills>>

Next ==
  \/ \E p \in Proc :
       \/ \E d \in Doing, h \in Home : Begin(p, d, h)
       \/ Killed(p) \/ Reads(p) \/ Choose(p) \/ Find(p) \/ Gets(p)
       \/ PutEndpoints(p) \/ PutSupervised(p) \/ PutOwn(p)
       \/ Copies(p) \/ Satisfies(p) \/ Restores(p)
  \/ \E f \in Mistyped, h \in Home : Typo(f, h)

Spec == Init /\ [][Next]_vars

-----------------------------------------------------------------------------
(* Properties *)

(* The files hold after every step of a command and wherever one is        *)
(* killed, so the next start applies them: what is started is listed last  *)
(* and unlisted first.  Left out are a host where an add has taken the     *)
(* port of a row a killed command left, which freePort does not count, one *)
(* a revert was run on, which goes by file and not by that order, and one  *)
(* with a file somebody left unreadable.                                   *)
FilesHold == edits = 0 /\ ~reused /\ ~reverted => Holds(endpoints, supervised, own)

(* What is applied loses an instance only to a command that removes it: a  *)
(* file that does not check out leaves the applied one standing (settle),  *)
(* and no other command, killed where it may be, writes it off the lists.  *)
KeepsApplied ==
  \A h \in Home \ asked :
    applied # None /\ applied.instances[h] # None => applied'.instances[h] # None

AppliedStays == [][KeepsApplied]_vars
=============================================================================
