# A TLA+ model of ccmsg

ccmsg is a daemon that stands beside Claude Code sessions: it knows which
sessions run, carries messages between them, and tells terminals (a person's
browser, the command line, another instance) what changes. This directory holds
TLA+ modules that model its stateful parts, TLC configurations that check them
on small instances, and TLAPS proofs of what holds for instances of any size.

All paths below are those of the repository, under `src/`.

## 1. The system

One *instance* is one process serving one config home. It runs a single event
loop: what the code does between two `await`s nothing else interrupts, and what
happens at an `await` is where almost every hazard of this program lives. The
modules follow that: an action is one uninterrupted run of the loop (or, for the
lock, one system call), and what a handler keeps across an `await` is state.

### 1.1 Components

| Component | Source | State it keeps | Operations |
|---|---|---|---|
| topic mechanism | `src/topics/topics.ts` | subscribers and opening subscriptions per topic, last frame sent, running resources | subscribe, unsubscribe, publish, dropAll |
| outgoing queue | `src/topics/egress.ts` | waiting frames, keys with a frame waiting, count of those that do not fold, scheduled flush | push, flush, release |
| session status | `src/sessions/status.ts` | which pass may state a value | refresh, snapshot |
| message delivery | `src/messaging/delivery.ts` | counter of mids, offers running, messages claimed | send, retry, snapshot |
| inbox | `src/messaging/inbox.ts` | held messages per session, chain of appends, `inbox.jsonl` | hold, delivered, expire, load, compact |
| route (a) | `src/messaging/direct.ts` | sockets of sessions, receipts awaited | send, with three deadlines |
| key-value store | `src/kv/store.ts`, `merge.ts` | namespaces, chain of whole-file writes | read, write, delete, snapshot |
| instance lock | `src/instance/lock.ts` | one file | acquireLock, release, lockHolder |
| instance | `src/instance/instance.ts` | stopping, requests in flight | start, stop order |
| configuration | `src/instance/config.ts`, `src/daemon/registry.ts`, the config commands of `src/cli.ts` | settings files, their checked copies, the applied settings | evaluate, apply, add, remove, adopt, revert |
| transport | `src/transport/*` | partial line, write queue, deferred frames | line in, frame out, drain, close |
| dispatch | `src/dispatch/*` | none (a table) | dispatch |
| mesh links | `src/mesh/mesh.ts`, `keys.ts` | links, handshakes, forwarded requests, retries | dial, greet, hold, drop, forward |
| mesh relay | `src/mesh/relay.ts`, `src/topics/elements.ts` | rows each peer stated, when its link went | accept, lost, restored, snapshot, sweep |
| sessions | `src/sessions/*` | connected sessions, live set, last_live file, harness readings | hello, release, changed, read, kill |
| authentication | `src/auth/*` | records and their file, enrolments, challenges, token families, connections held open | issue, register, enroll, assert, refresh, revoke, merge |
| daemon | `src/daemon/*` | supervised children, backoff, waiting starts | start, stop, restart, add, remove |
| transcripts | `src/transcript/*` | holds, tails, folds, the cache of folds | hold, open, freeze, thaw, save |
| upstream | `src/upstream/*` | series of requests, activity, the gateway's report | record, note, expire, read |
| terminals, launcher | `src/terminals`, `src/launcher` | processes started | spawn, watch |
| files, translate, greeting, plugin, service, cli | the rest | none of a protocol | reads, installers, commands |

### 1.2 How they interact

A line from a socket goes through transport and dispatch to a handler. A handler
answers through the same connection; whatever it changes is *published* to a
topic, and the topic mechanism decides who hears it, suppresses repeats and
hands each terminal's frames to its outgoing queue. The opening frame of a
subscription does not go through that queue: it follows the reply. Delivery is
itself the owner of the `inbox` topic, so a session that subscribes empties its
inbox. The sessions domain calls back into delivery whenever a session comes or
goes, which offers what is held. The stop order (`Instance.#stop`) refuses new
requests, drops every subscription, waits for what is in flight, flushes, and
releases the lock last. The mesh carries requests and topic values between
instances over links both ends may dial at once.

### 1.3 What is hard here

* A subscription waits for its opening value; its connection may leave, come
  back, subscribe again or close while it waits, and the instance may stop.
* A message is sent on one of two routes, or held; sends, offers, subscriptions,
  expiry and eviction all move messages between two awaits of each other.
* Files are written behind memory: the inbox by appended lines, a namespace by
  whole files, each through a chain. A kill falls between any two writes, and a
  write may fail while those behind it succeed.
* Frames are folded, queued, bounded and flushed on a timer, and the opening
  frame goes past that queue.
* Processes contend for one lock file with system calls that are atomic one by
  one and not together.
* A supervisor chains restart loops, waits in four stages for a child to go, and
  takes requests for the same config home meanwhile.
* Between instances: both ends dial, heartbeats go missing, an answer comes
  after its deadline, rows come by two ways and records in any order.
* A person's exchanges run side by side over codes, challenges and counters that
  may each be used once, and tokens rotate at whichever instance is reached.
* The config files are written one after another by processes that may be killed,
  and edited by hand.

### 1.4 What makes each component correct

* topics: a resource runs exactly while somebody wants it; nothing of a closed
  connection is left; a subscriber is never left behind the owner's value; every
  subscribe is answered.
* outgoing queue: its books agree with its content; no frame waits without a
  flush; occurrences keep their order; the latest value is what is handed last.
* delivery and inbox: at most once while the process lives; what was told held
  survives; oldest first; the watchers' picture is the inbox; every send ends.
* store: what was answered is durable; the file never goes back; a subscriber
  catches up; a restart changes no answer.
* lock: one instance; a dead holder keeps nobody out; every starter settles.
* mesh: one link per peer after a glare; a forwarded request answered exactly
  once; relayed rows are those the owner stated last.
* relay: what is held of a peer is what it stated last; a subscriber is told as
  much.
* sessions: a session is live or among the past, never both; its connections are
  counted exactly; a departure is recorded when it happens; a reading that was
  waited for is of now or later.
* transcripts: what is folded is each record once and in order, of one file.
* authentication: what can be spent once is; a removal stands at every instance and
  puts out what rested on it; a person's own retries do not end their session.
* upstream: a row and a report never go back, whatever order posts come in.
* connection: frames arrive whole, once and in order; nothing that needs a greeting
  is answered before it.
* stop order: nothing unnamed lands without the lock, and the lock goes.
* configuration: what is supervised has a row and a file after every step.
* daemon: one watched child per unit; a start in waiting is always served; a
  stop that was answered stays; leaving ends and leaves no child.

## 2. Modules

| Module | Models | Uses |
|---|---|---|
| `Topics` | the topic mechanism, and `session.status` as the owner that reads | |
| `Egress` | the outgoing queue of one terminal, with the opening frame that bypasses it | |
| `Connection` | framing, dispatch, replies and the write queue of one connection | |
| `LineWire` | what a connection promises: frames arrive whole, once, in order | |
| `Delivery` | `message.send`, offers, the inbox and its file | |
| `Direct` | route (a) of a message: the harness's own socket or command | |
| `KvStore` | one namespace of the store | |
| `Gateway` | what the LLM gateway posts, and its report | |
| `InstanceLock` | `acquireLock`, `releaseLock` and the processes around them | |
| `Lifecycle` | the start and the stop order of an instance | |
| `Supervisor` | the foreground supervisor and its children | |
| `Config` | the config files, their copies and the applied settings | |
| `Mesh` | the link between two instances: dialling, proof, glare, heartbeat, loss | |
| `Relay` | rows relayed between instances | |
| `Sessions` | the registry of sessions, `last_live`, the rows of `peers` | |
| `HarnessRuns` | readings of the harness's state files, and `session.kill` | |
| `Transcripts` | following one transcript, with its tail and the cache | |
| `Auth` | the exchanges that let a person in and the removals that put them out | |
| `AuthTokens` | one token family rotated at two instances | |
| `AuthRecords` | the records two instances share, with their files | |
| `GatewayProofs`, `DeliveryProofs` | theorems of one component alone | `Gateway`, `Delivery` |
| `ExchangeProofs` | theorems of topics, connections, route (a), the inbox and its messages | `MCExchange`, `DeliveryProofs` |
| `MeshProofs` | theorems of mesh links, the files of a host, relayed rows | `MCMeshes` |
| `KeepingProofs` | theorems of the outgoing queue, the store, the supervisor, the status rows | `MCKeeping`, `GatewayProofs` |
| `DaemonProofs` | theorems of the lock and the stop order | `MCDaemon` |
| `AuthProofs` | theorems of families, deadlines, exchanges and shared records | `MCAuth` |
| `SessionsProofs` | theorems of the list, of readings and kills, of followed transcripts | `MCSessions` |
| `MCExchange` | small instances of `Topics`, `Delivery`, `Connection`, `Direct` | those, `LineWire` |
| `MCKeeping` | of `Egress`, `KvStore`, `Gateway` (twice), `Supervisor` | those |
| `MCDaemon` | of `InstanceLock`, `Supervisor`, `Lifecycle` | those |
| `MCMeshes` | of `Mesh`, `Relay`, `Config` | those |
| `MCLive` | of `Delivery` with failures and `Mesh`, under fairness | those |
| `MCAuth` | of `AuthRecords`, `AuthTokens`, `Auth` (twice) | those |
| `MCSessions` | of `Sessions` and of `Transcripts` (each under two bounds), `HarnessRuns` | those |

In each module a few operators stand just before a definition and carry a
plausible fault of it (a dropped guard, a missing reset, a wrong order). No
specification uses them: they are there to show that each property notices.

**How the MC modules are built.** Each puts several small instances side by side.
Its variable `machine` is chosen at the start and never changes: a behaviour of the
MC module is a behaviour of exactly one component, while the variables of the
others hold the constant `Off` (or, for the module that is EXTENDed, their initial
values). The instances therefore do not interact; a property is one component's
property, guarded by its `machine`. Where a property of the components is a
conjunction, the MC module states it as such under one name (`InboxIsKept`,
`SupervisorServes`, ...). Components that interact in the program meet in one
module where the interaction is modelled (`Topics` with its slow owner, `Delivery`
with the inbox, `Sessions` with `last_live` and the topic's rows, `Relay` with the
outgoing queue, `Lifecycle` with the lock and the files); elsewhere a module takes
the other's promise as its input, and says so in its head.

A proof module EXTENDS the MC module whose properties it proves, so that a theorem
speaks of the very definition a run checks, over the same next-state relation, with
the constants left open. What an MC module adds to a component is only which
behaviours it puts side by side and the bounds (`RequestsTime`, `MaxFiles`, ...),
which are constants of it as well; where two bounds of one component are
checked, they are two values of `machine` under which steps of the one instance are
further constrained (`LivesOn`, `OneAtATime`, `SameFile`, `HeldOnce` in `MCSessions`),
and no proof uses the constraints. The proof modules of single components are
INSTANCEd where the composition's theorem rests on them (`RP`, `SP`, `DP`).

### 2.1 `Topics`

`subs`, `opening` and `kept` are `#subscribers`, `#opening` and their keys;
`lastSent` is `#lastSent`; `runs` counts starts minus stops of the resource.
`call` is what each `topic.subscribe` in flight holds across its `await`:
`live` says whether the Set it captured is still the topic's (letting a topic go
deletes the Set, a later subscribe makes a new one), `value` the snapshot once
read. A topic outside `Slow` has an owner that answers at once, so only a
microtask separates the line from the join; the guards `NextEvent` and `LineOf`
say what may run in between: the other lines of the same chunk, nothing else.
For a topic of `Slow` anything may. `pass` is what the latest `refresh` of the
status owner has still to state. `view`, `promised` and the `let` of a request
are history the properties need. Frames are those of topics whose value is
replaced; delta topics are left to `Delivery` and `Egress`.

### 2.2 `Egress`

`queue`, `folded`, `kept` and `armed` are the fields of the class; `quiet` says
that the flush period has passed since the last flush. `Arm` is `#arm`: flush at
once after a quiet spell, otherwise schedule one flush. `Release` covers the two
ends: the stop order writes what waits, a close does not. `wire` is what was
written to the socket. `taken` is history: which occurrences the queue took.

### 2.3 `Delivery`

A message is its place in the order of issue, and `issued[m]` its mid. `inbox`
holds the fields of `Inbox` and the chain of appends (`queue`), each entry with
whoever awaits it. `offer` is the running `#offer` of a session: what is left to
hand over, and whether the head's line is being written. `op` is a
`message.send` between two awaits. Route (a) is seen through its answers:
carried, refused, not available. `Crash` keeps the file, with or without the
line being written; `Restart` is `load`, `#compact` and the new counter.

`Failing` switches on behaviour that the code meets rarely: an append fails or
leaves part of a line, an unsubscribe stands behind the subscribe in one chunk,
route (a) delivers after its deadline. The messages the code then loses or
repeats without knowing are kept in `strayed`, and the properties except exactly
those; section 6 lists the four ways a message strays.

### 2.4 `KvStore`

`mem` is a namespace in memory, `chain` the whole-file bodies still to be
written with what their operation does afterwards, `disk` the file. A write
carries the instant its caller states and is dropped when something newer
stands. A removal is a record that is forgotten after `Retention`. `lost` is
history: a body failed since the last start.

### 2.5 `InstanceLock`

One action per system call of `acquireLock`: link, read the holder, ask whether
it is alive, unlink, round again. `met` and `left` are history: whether two
starters ever contended at once, and whether a holder ever left.

### 2.6 `Supervisor`

`units` is `#units`; `unit` holds the fields of each `Supervised`, with the chain
of promises behind `loop` as the number of loops that have not ended and where the
first of them stands. `proc` and `lock` are the instances and the locks of their
config homes. A job of `call` is a request between two awaits: `next` is
`unit.next()`, `asking`, `accepted`, `sigterm` and `sigkill` are the stages of
`#stopChild`, `loop` the wait for `unit.loop`, `lock` for `awaitGone`. `Quiet`
says that no microtask is due; every event waits for it. Requests with `--all` are
several requests at once, and `#restartAll` on a host that starts the supervisor
again is `Leave`. A second signal while leaving only repeats the stop of the
children and is left out, as is a spawn that throws.

### 2.7 `Mesh`

Two instances, `Small` and `Large` in the order of their endpoints, and the
connections between them. `link` is `#links` of each end for the other, `retry`
the ends with a timer in `#retries`, `forgot` those that have the other in
`#forgotten`, `waiting` the requests in `#forwarded`. A connection records who
dialled it (`by`), whether its wire still carries anything (`wire`), how far its
greeting came (`hs`), and what each end knows of it (`end`): open, about to hear
that it closed and with which code, or gone.

`Dial`, `Opens`, `OpenFails` are `#dial`; `Greets`, `ServesKey`, `ProofFails`,
`KeyIn` are `greet` between its awaits, with the proof on the connection itself
and the key over one of its own; `Acknowledged` and `Refused` are the dialler's
side of the reply; `Hold`, `Drop`, `Closed`, `Beat` are `#hold`, `#drop`, the
`onClose` of both sides and `#beat`. A greeting refused for glare is never
answered: `#hold` closed its connection before the handler could reply.

`Prompt` says that what is on its way (a key, a reply, the notice of a closing)
arrives before a retry, which waits a second or more, is due. It is off for the
safety properties and on in `live` and `mesh_back`; section 6 says what happens
without it. A heartbeat fires on a silent wire only: a link that is slow but alive
is not dropped. `misjudged` is history: a dial was refused in favour of a link
that its dialler had already let go. The binding of instance ids, `ask` and the
rate of key requests are left out.

### 2.8 `Connection` and `LineWire`

Bytes are counted in units. `buffer`, `discarding` and `chunk` are the framing of
the line being received; `task` is what each line has come to, between the call of
its implementation (`Returns`, `Throws`) and the microtask that writes its answer
(`Replies`, which settles a greeting, sends, and flushes `deferred`). `pending` is
`WriteQueue`: each frame with what is left of it after short writes, `Drains` one
`drain` of the socket. `Kind` is what dispatch makes of the line. `LineWire` knows
only frames owed and frames taken; `owed` is refined by the frames of `pending`.

### 2.9 `Direct`

A send walks from its target over the token, the receipt channel and its address
to the write and the wait; every `await` is a step. `inboxes`, `opening`, `bound`
and `listening` are the channels of `#inboxes` and what the system has of them;
`watch` is the race of a receipt against its window, which opens before the write
begins. `verdict` is what the session made of a message, `held` what the harness
has whole: the two the answers are judged by. For Codex a send is one run of a
command. Deadlines expire when they like.

### 2.10 `Gateway`

`said` is everything any gateway process has posted; `Take` reads one of it, any
number of times and in any order (posts are awaited, retried and sent by several
processes). `Record`, `Note` and `Expire` are the three methods with what they
publish; `shown` and `frame` are what the row of the session and the topic last
said. The other half is `LlmStatus`: `reads` holds at most one read, shared by its
callers, of a `truth` that moves.

### 2.11 `Lifecycle`

`stage` is how far a process is in its start or stop; `flight` is `#inFlight`,
`named` what the log names as left behind. `chain` stands for every file written
whole from memory through a chain; each body remembers who asked for it, so that
what lands after the release can be traced. A successor may start as soon as the
lock is free, and reads `file` as it does.

### 2.12 `Config`

A process is one run of a command or of the supervisor, and its steps are the files
it reads and writes: `Reads` is `evaluate` one file at a time, `PutEndpoints`,
`PutSupervised` and `PutOwn` the writes, `Copies` and `Satisfies` are `apply`,
`Restores` is `revert`. A person's edit may leave a file `Broken`. The own files
of the instances are read and restored as one step. `Steps` lists the steps of each
command in the code's order, and a running one is `at` a place in it.

### 2.13 `Relay`

`rows` are an instance's own, `held` what it holds of each peer, `lostAt` when a
link went. A frame is a change or a whole list; `out` is the queue a change waits
in, which a whole list goes past. `Receive` is the whole of a frame's arrival:
`accept`, with the sweep, the news passed to local subscribers and, for a relayed
topic, to the peers that subscribed. A restarted instance has nothing of anybody.
`givenUp` is history: a subscription was given up over the link that stands.
`HeldCatchesUp` says what the frames on their way come to (`ComesTo`): for each row,
what the last of them that speaks of it says, or what is held if none does.

### 2.14 `Sessions` and `HarnessRuns`

Every handler of the registry ends in `changed`, so the state of the domain is one
record `mem` and a step is a function of it: `Changed` reclaims, records
departures, and states the rows that differ. `conn` says of each connection whether
its greeting still waits for a path. `HarnessRuns` is beneath it: a reading lists
the directory, reads each file, and lands; `begun` is the generation of
`Readings`. `proc` and `births` tell one process under a pid from the next;
`session.kill` looks at the command, then at the start, then signals, with a second
signal and an end to its waiting. Whenever `ps` is asked when a process began it may
fail, take too long or state something unreadable (`Starts`): a row then counts as the
pid's own (`Own`), and a kill goes on with the command alone (`SameProcess`). `looked`
and `said` in `kill` keep when `ps` last spoke of the pid and whether it said when the
process began. Two things are left out: a start is compared exactly and not within the
tolerances of `sameProcess`, and a zombie, which `ps` states and the code takes for
gone, is gone in the model at once.

### 2.15 `Transcripts`

`current` is the entry in `#followed`, `entry` every object that ever was (an
abandoned one may still be opening), `opening` the calls of `#open` at their awaits
and `tail` the `TranscriptTail` of each. A fold is the sequence of records it was
made from. `cache` is the entry on disk, `writing` the chain of its writes.
`overlapped` is history: a thaw has found an opening of its entry at one of its
awaits. The opening cannot tell (a freeze before it and the thaw leave what it asks
for as it was) and goes on beside the one the thaw begins; what is claimed of tails,
folds and the cache is claimed up to then, and section 6 says what follows.

### 2.16 `Auth`, `AuthTokens`, `AuthRecords`

`Auth` follows exchanges (register, enroll, assert) through their awaits: claims at
the issuer, spending the challenge, the writes with their commits, the grant, the
mint; and removals (revoke, removeCredential, signout, marks of a peer) as tasks
with the same commits. The configurations differ in who issued the URL and the
challenge: `Elsewhere` empty, or all of them. `passed` and `again` are history: what
let an exchange through, and whether on a counter that had not advanced.

`AuthTokens` is one family at two instances: `Refresh` judges the cookie by
`Standing`, `Previous`, `Retired`, `Naming` in the code's order, rotates, fails or
refuses; `news` carries records to the other instance in any order or not at all.
`alone` is history: one page at a time, and no retry past the grace.

`AuthRecords` is the store beneath: `Accepts` and `accept`'s last-write-wins, marks
that refuse later writes, the chain of whole documents behind memory, publication
after landing, and the snapshot of a subscription (`Relink`). `marked`, `apart` and
`early` are history: what was removed and written down, and what the two ends may
differ about.

## 3. What is checked

Every run states its properties in its `.cfg`; each property is commented where
it is defined. "Violation" runs show a place where the code does not do what one
of its own comments says; they run a component's module directly.

| Run | Instances | Shows |
|---|---|---|
| `exchange` | `Topics`: 2 connections, 2 topics (one slow), 2 requests, 2 values, failing readings. `Delivery`: 1 session, 2 sends in flight of 3 messages, limit 1, one expiry, one kill. `Connection`: 4 lines of 4 kinds, one too long, frames of 2 units. `Direct`: 2 sends over 1 directory, 3 kinds of route | resources and held values through every leave; at most once, in order, the inbox and its file; true answers of route (a); greetings first; the refinement of `LineWire` |
| `keeping` | `Egress`: 2 folding topics and one that does not, limit 2, 4 frames. `KvStore`: 2 keys, 2 operations in flight, instants 0..1, no retention, one kill. `Gateway`: 2 sessions × 2 series (limits 2), 3 posts taken 4 times; its report through 4 reads. `Supervisor`: 1 config home, 2 units, 2 requests, 2 chained loops | nothing stranded or out of order; durability; rows and reports that never go back; one watched child, stops that stay |
| `daemon` | `InstanceLock`: 3 processes, 2 rounds, stale files, fair. `Supervisor`: 1 unit, 2 processes, 2 requests, fair. `Lifecycle`: 2 processes, 1 request, 2 starts, fair | the lock, its takeover, every request answered, the stop order |
| `mesh` | `Mesh`: 3 connections, 1 request, one loss, one exit, forgetting. `Relay`: 2 instances, 2 changes, 2 breaks, 2 visits. `Config`: 2 homes, 4 commands in turns, 2 kills, one typo | proven links, agreement, rows, files |
| `live` | `Delivery`: 2 messages, 2 sends, 2 connections, failures, fair. `Mesh`: 2 connections, one loss, one exit, `Prompt`, fair | every send is answered; two instances end up linked |
| `auth` | `AuthRecords`: 2 instances, one lasting key and one family, 3 writes, one trouble, instants 0..2. `AuthTokens`: 2 pages, 2 instances, 3 rotations, instants 0..3, an access token kept only in the instant it was minted in. `Auth`: 2 exchanges, 1 passkey, 1 grant, 1 removal, 2 code attempts, and either 1 URL with 1 challenge or 2 challenges and no URL; issued here, and elsewhere | convergence, marks, families, deadlines, spending once, sessions that are backed |
| `sessions` | `Sessions`: 1 session, 2 pids, 2 connections with no kill (`LivesOn`); and one connection at a time with a restart (`OneAtATime`). `HarnessRuns`: 1 pid, 2 births, 2 readings. `Transcripts`: 2 entries, 2 openings, 2 records over one file (`SameFile`); and a file replaced once while the transcript is held once (`HeldOnce`); states past a thaw that finds an opening at an await are not gone on from (`NotOverlapped`) | the list, departures, fresh readings, folds |
| `lock_stale` (violation) | 3 processes over a stale file | two starters both run |
| `mesh_back` (violation) | 3 connections, one loss, fair | after one silent loss neither end may ever dial again (`mesh.ts:251`) |
| `stop_order` (violation) | 2 processes, 1 request | a departure recorded while the connections close lands after the lock went (`instance.ts:1163`) |
| `relay_echo` (violation) | a line of 3 instances, 2 changes, fair | a relayed change comes back and chases the newer one for ever (`relay.ts:134`) |
| `config_typo` (violation) | 2 homes, one typo in `supervisor.json` | the next `daemon add` drops what was served (`config.ts:528`) |

The types of `Topics`, `Egress`, `InstanceLock`, `Mesh` and `Supervisor`, and
`ClosedHoldsNothing` and `WaitHasRequest` of `Topics`, are proved (section 4) and not
checked again by a run. Some properties are stated in a module without a run of their own, because
they are violated for a reason section 6 gives (`ThawReadsFromTop`,
`FollowsItsAnswer`) or fold into a larger one (`HeldNeverOlder`,
`ReportNeverGoesBack` in `NothingGoesBack`).

Deadlock checking is off: the bounds (messages, frames, kills, time) end every
behaviour, and the program itself may idle for ever.

### 3.1 Bounds, and why they are enough

* `Topics`: two connections are needed for one to hold a topic while the other
  leaves; two requests for a connection to subscribe twice, or for a stale
  request to meet a fresh one. Values matter only as equal or not.
* `Delivery`: limit 1 makes the second message evict; three messages with two
  in flight make an offer of one, an eviction and a new arrival coincide; a
  second kill repeats the first (everything in memory is reset).
* `Connection`: a frame of two units is what a short write can cut; a line that is
  too long is followed by others of the same chunk; four kinds hold every pair
  of a greeting, what needs it, what is refused to its role, and what follows its
  answer. `garbled`, `refused`, `known` and `away` take the paths of those four.
* `Direct`: two sends share the one channel of a directory; the first binds it.
* `Egress`: the first frame goes out at once, so four frames fill a limit of two
  and refuse one.
* `KvStore`: two bodies in the chain are needed for an order; two keys for a body
  that carries another key's older state; with no retention a removal is
  forgotten at the next instant. One value suffices where a removal and a write
  of the same instant already differ.
* `Gateway`: limits of two make the third series evict, and three posts taken four
  times make one late, one repeated and one in between.
* `InstanceLock`: the third process is the one whose lock is removed by a
  starter that looked at the file before it.
* `Supervisor`: two units for one config home let an old child live on beside a
  new unit after a removal; two requests overlap in every pair of operations; a
  second chained loop is what a start in a backoff leaves. A process identifier is
  used again once reaped, so two are enough for two units.
* `Lifecycle`: two processes are one that leaves and its successor.
* `Config`: one process at a time, so that commands follow each other through
  kills; two homes are one that is served and one that is added or removed. Two
  commands at once lose updates (section 6).
* `Mesh`: three connections are the two that cross in a glare and a retry behind
  them; one that both ends are done with is used again. One loss leaves the ends
  with different pictures, one exit restarts an end under the other's link. In
  `live` two connections suffice for a dial and its retry.
* `Relay`: one key and one value, since rows are folded key by key and a value is
  told from its absence; two breaks are a loss and a restart.
* `Sessions`: two pids make a duplicate, two connections a take-over; the restart is
  a second instance since what it reads is what the file has.
* `HarnessRuns`: two births are a pid given to another process, two readings an
  overtaking; the host says when the process began or does not, each time it is asked.
* `Transcripts`: two entries are a release and a hold across an await; two files a
  replacement.
* `Auth`: two exchanges contend for one URL or challenge; with a challenge each, both
  get as far as the counter and contend for it. One removal falls between their steps.
  `AuthTokens`: two rotations put a value two behind; with a
  third at the other end, a record stamped later brings an earlier deadline.
  `AuthRecords`: three writes are one at each end and one after; one trouble is a
  kill, a cut or a document that does not land. A key of `early` takes five writes and
  a fourth instant, which the run does not reach; the theorems do not depend on it.

### 3.2 Fairness

* `Delivery`: route (a) answers within its deadlines, a queued line is written or
  fails. Nothing is assumed of connections, sends or kills.
* `InstanceLock`: `acquireLock` is a synchronous loop, so a process inside it goes
  on (unless it is killed).
* `Supervisor`: microtasks run (weak). Timers, deadlines and the exits of children
  are events, which the loop serves in order once no microtask is due: strong
  fairness, because microtasks disable them in between. A killed process dies;
  that an instance serves, answers or stops is not assumed.
* `Lifecycle`: timers fire, a write lands or fails, the steps of the stop follow
  each other. Nothing is assumed of requests: they may never end.
* `Mesh`: what was sent over a wire that carries arrives, closings are noticed,
  retry timers and heartbeats fire, deadlines pass. That an instance is started or
  that a connection breaks is not assumed.
* `Relay` (in `relay_echo`): what was written is read, a queue that holds something
  is flushed. So the rows that never settle do so in an instance where everything
  works.

## 4. What is proved

For every value of the constants (TLAPS; SMT, Zenon, and LS4 for the temporal
steps). Each theorem has the same shape: an inductive invariant, one lemma per
action or group of actions that keeps it, and a last step by PTL. Below, the name of
the theorem, the invariant it rests on, and why the property alone does not carry
itself.

### 4.1 What passes through an instance (`ExchangeProofs`, `DeliveryProofs`)

* `TopicsTypes`, `ResourceRunsWhileWanted`, `ClosedIsForgotten`, `StoppedIsQuiet`
  rest on `Wants`: a topic has an entry exactly while somebody subscribes or is
  opening (`KeptIsWanted`), the resource runs exactly for the entries
  (`RunsIsKept`), closed connections are nowhere, and after the stop every set is
  empty. None of the four properties is inductive alone: `#idle` decides on the
  entry, not on the sets, so `RunsWhileWanted` needs `KeptIsWanted` before it can
  be preserved by a leave.
* `HeldValueIsTold` rests on `Held`: an owner that holds its value owes no pass,
  the last frame is empty or the value held, and a request about to resume
  carries the value of now. The last one is where the microtask matters: a change
  cannot fall between the snapshot and the join.
* `WaitIsServed`: `WaitHasRequest` is inductive with the types.
* `ConnectionIsWire`, and `WireIsKept` of the composition, are the refinement: a
  connection implements `LineWire` with `owed` read off the write queue. It rests on
  `Queues` (what the queues hold, and that nothing waits once the socket is gone,
  without which an answer to a closed connection would be a frame handed over). Each
  step of a connection is then one of the wire or none (`WireStep`): a short write
  leaves `owed` as it is, the last unit of a frame is its arrival, and what a reply
  queues makes `owed` strictly longer (`BehindIsLonger`, `OwesBehind`).
* `NothingBeforeTheGreeting`, and `ClientsAreGreetedFirst` of the composition, rest on
  `Settled`: what needs a greeting was only begun once the connection had settled, one
  that settled has its greeting among the frames taken or pending while the socket
  stands, in front of what needs it, and frames that are deferred are no answers.
* `DirectTellsTheTruth` rests on `Routed`: what a send was told of a receipt is what
  the session made of its message, and what it wrote is held (`WhatWasSaid`); an
  opening is begun once, by a send that has its directory, and the one a send has
  got, or its frames name, ended well (`OpeningsOnce`); a channel that is listened on
  is being bound, or bound and not closed, or was bound after the close
  (`ChannelsAreKept`).
* `HeldSurvives`, `OneRouteOnly`, `OldestGoesFirst`, `MidsStayApart` rest on `Core`: what
  anything knows of is of one session and has a mid of its own (`Homes`); a request has
  its message to itself, and until route (a) answers nothing else speaks of it (`Sends`);
  each line owed to the file says what is so, and whoever waits for it waits for no other
  (`Owing`, `OwedOnce`); what is held or left to an offer has not been handed over, and
  of what is held an offer has the oldest, in order (`Unhanded`, `InOrder`). `HeldIsDurable` alone says nothing of an entry between the
  change of memory and its line: `Durable` follows what was answered held through the
  chain of appends, a kill and a compaction. These four hold whatever appends fail.
* `FileFollowsMemory`, `ViewShowsTheInbox`, `InboxStaysBounded`, `DeliveredArrived`, where
  no append fails, rest on `Whole`: the file with the queue behind it replays to memory
  (`Agrees`); what a watcher was told is what waits and what is being dropped (`Views`);
  and after every part of the queue has landed the file replays to an inbox within its
  limit, the adds in flight and those a kill cut off aside (`Within`). The bound is on
  the file at every instant, since a kill may fall at any. What is too old is left out
  on both sides (`Young`), since `load` drops what memory has not yet dropped.
* `MessagesGoOutOnce` and `InboxesAreKept` are these of the composition the run checks.

### 4.2 What an instance keeps (`KeepingProofs`, `GatewayProofs`)

* `EgressTypes`, `NoFrameIsStranded` rest on `Waiting`: the types, a flush armed
  exactly while something waits, and a key marked folded only while something
  waits (otherwise a frame could be folded onto an empty queue and be armed for
  nothing).
* `TerminalMissesNothing`, and `FramesReachTheTerminal` of the composition, rest on
  `Handed`: with the books (`folded`, `kept`) as the queue has them, the wire and the
  queue behind it hold every occurrence taken, once and in order (`InOrder`), and end
  with the latest value of a topic on its first visit (`EndsWith`). For the last, nothing
  of a topic never asked for may wait (`NothingUnasked`), or its opening frame, which
  goes past the queue, would have an older value behind it.
* `StoreKeepsItsAnswers` rests on `Stored`. While no body was lost, each body that
  waits is a later state of every key than the one before it, the first than the
  file, and memory is the last of them (`ChainClimbs`); a body carries what its
  operation set (`BodiesStand`); memory holds what one of the bodies of a key has
  set (`MemoryIsOwed`); what was answered is in the file, in every body and in memory
  (`AnswersKept`), the retention aside; a removal is announced by some body after
  which only removals are (`RemovalsTold`), and a subscriber lacks of a key exactly
  what the bodies will say (`ViewLacks`). `WhatIsKeptStays` is the action property that
  follows, with the two of the gateway.
* `SupervisorTypes`, `NoChildIsLost`, `StoppedStaysStopped` and, of the composition,
  `SupervisorKeepsWatch` and `SupervisorStopStays` rest on `Watched`: a unit has a loop
  exactly while something is due, awaited or waited out; a child is a process that was
  started and not reaped; the map and the units agree on the config home; the process a
  request looks at is the child of its unit; between the end of the loops a stop waited
  for and its answer, and from there to the next start, none of the unit's loops would
  spawn (`EndedIsAtRest`, `StoppedIsAtRest`). The last is the point: the property
  speaks of children, and what threatens it is a loop chained by an earlier request.
* `GatewayIsShown`, and `RowsShowWhatWasSaid` of the composition, rest on `Shows`: no
  clock is behind what was read for it, and that of a session heard of inside the
  window is what was heard last (`RowsCurrent`), though series are pruned, evicted and
  withdrawn. `RequestNeverOlder` follows; `ReportNeverOlder` rests on `Reports`: at most
  one read is in flight, and it has seen at least what is reported.

### 4.3 How instances come, go and meet (`DaemonProofs`, `MeshProofs`)

* `LockTypes`; `RaceHasOneWinner`: until a holder leaves, the file names a running
  process and nobody ever comes to drop it (`HolderRuns`). `LoneStarterExcludes`:
  while starters come one at a time, what the one contender read is still true of
  whoever runs (`ReadStillTrue`), whatever holders do. Together with `lock_stale`
  they draw the line: exclusion needs either no dead file or no second starter.
* `StopLeavesNothingUnnamed` rests on `StopIsOrdered`: whoever took the lock has it
  until it lets it go (`TakenIsHeld`); a process that has not listened has let nothing
  in, and one that flushes has only requests the log names (`DoorIsShut`); what stands
  behind the bodies a flush waits for was asked for since, by what the log names or
  by what closed (`RestIsNamed`).
* `MeshTypes`, `LinkIsProven`, `NobodyWaitsInVain` rest on `Founded`: the types, a
  connection in use has a dialler (`Known`), a link is proven, and the end that
  holds a connection has not been told that it is gone (`HeldIsThere`). The last is
  what keeps a held connection from being tidied away and used for another, which
  would leave a link to a connection nobody has proven; `Known` is what makes the
  two ends of a connection different.
* `GlareIsSettled` adds `Agreed`: over a wire that carries, an end hears of a closing as
  soon as the other closes; an acknowledged connection is the link of the end that
  accepted it, and a proven one that of both ends or of none, until a closing is on
  its way. `EndsAgree` alone says nothing of the connections that lost.
* `FilesAlwaysHold` rests on `FilesFit` with, for every step of an add or a remove, what
  the command has read and what it has already written (`HasRead`, `AddFits`,
  `RemoveFits`): a row is written before the list names it and taken away after, so a
  kill between any two leaves rows too many and never one too few. That `freePort` finds
  a port no row has is the maximum of a finite set of ports.
* `AppliedIsKept`, an action property, rests on `KeptIsListed`: what is applied, and not
  asked to go, is in the list of what is started and in its checked copy, so that
  neither a settling (`Settles`: the lists it has read are the lists that stand) nor a
  revert takes it off. It holds with kills, reverts and the typos `ListUntouched` leaves.
* `RowsAreNotMissed` rests on `RelayIInv`. An instance follows a peer in one of two ways
  (`Following`): its subscription is still on its way, once, and then nothing of the
  peer's rows is on its way back; or it has arrived, and then what is on its way makes
  up for what is held. Over a link that is down nothing is on its way (`DownIsEmpty`),
  and the peer of a link that is up is not marked as lost (`UpIsUnmarked`), so that no
  sweep takes its rows. What somebody at an instance was shown is what is held
  (`SeesHeld`). The steps are few once it is known what a frame put on a queue, taken
  from its head, or opening a subscription does to what the queue comes to.

### 4.4 Who is let in (`AuthProofs`)

* `DeadlineCloses` rests on `TimerIsInTime`: time never passes a timer that is set,
  and the timer is never set past the latest deadline told. `ClosedByDeadline` alone is
  not inductive: it says nothing of the timer, which is what `Tick` waits for. The
  deadline told last is not a bound (section 6), so it is not in the invariant.
* `FamilyIsKeptAlways` rests on `Kept`. Every value a record rotated away is retired or
  over (`LineIsRemembered`); retired values come before the previous one, and that is
  no later than what the browser holds (`LineIsBehind`), so what an honest browser sends
  is the standing value or the previous one; the grace of the previous one lasts from
  the first time it was rotated, wherever that was; and a browser that asks one page
  at a time asks with what it holds and is told nothing older (`PagesAgree`).
* `CodesLetOneThrough`, `SessionsHaveTheirPasskey` rest on `CeremoniesHold`: a URL or a
  challenge that let one through is held no more, was made once, and one that is held
  was tried less often than it may be (`Spent`); the readings that let exchanges through
  since a count was stated are at most that count (`Counted`); an exchange past the
  writing of its passkey has one, and one that spent its challenge after the removal
  never gets there (`Backed`); while no removal that closes connections is between its
  first mark and their closing, and none was cut short, what is held open is admitted
  (`Admitted`). It is shown of both issuers at once: `Ceremony` is
  the next-state relation with what the two have in common, and each implies it.
* `RemovalsStand`, `RecordsConverge` rest on `RecordsHold`, which speaks of every place
  a record of a key may be (`Anywhere`: memory, file, documents that wait, frames on
  the wire). A record of a family never outlives a mark over it that is anywhere
  (`MarkOutlasts`), so a mark that ran out leaves nothing to revive; a mark that is to be
  written or told is in memory still, over a family at least (`MarkIsHeld`; a lasting
  key is marked again, and told, while it is marked already); and behind a mark every
  document, the file and memory hold marks, or nothing that lasts (`MarksStay`): what a restart
  reads back refuses what the peer brings. `MarkStands` speaks of memory alone, which
  a kill empties. For convergence, what an instance is about to tell it has or has
  something later (`TellsWhatItHas`), and what one has the other has, has something
  later, or will be told (`WillBeTold`); with nothing on its way both are then the same.
  `After` is the order: a later stamp, over a mark only another mark, and lasting as
  long, since it must survive the sweep of what it replaced; without the last part, which `early`
  stands for, it is not true (section 6).

### 4.5 What is known of sessions (`SessionsProofs`)

* `SessionsStayListed`, `DeparturesAreRecorded` rest on `ListHolds`: connections that
  have greeted are counted by session and by process (`Counted`, with cardinalities of
  sets that gain or lose one), what was sent last is the list as it stands but for the
  stamps, whoever subscribed holds it (`SubsAgree`), and the documents that wait are a
  chain from the file to the list (`Chained`). `Changed`, the tail of every handler, is
  one lemma (`ChangedIs`) that the handlers cite.
* `ReadingIsNow` rests on `RunsHold`: readings are numbered in the order in which they
  began, one that began later has less that moved beneath it, and for what did not
  move it has read what is there (`Directory`); what a kill aims at took the pid after
  `ps` last spoke of it, or else is the process the row was written for where `ps` said
  when it began, and a harness where it did not (`Aimed`).
* `TranscriptIsPrefix` rests on `FollowHolds`: an entry is opened once at a time
  and looked for again only when it is not being opened (`OneOpening`); only the tail of
  the entry that is followed reads on, and what it handed over is the file up to where
  it stands, unless the file has shrunk and nobody has looked (`OneTail`); the same is
  true of what is cached or queued to be (`KeptIsTrue`). All of it is claimed until a
  thaw finds an opening at an await (`overlapped`), which no step takes back; from there
  on it is not true (section 6).

### 4.6 Hypotheses

The named `ASSUME`s of the modules: sets of the right shape, tokens outside them,
bounds that are numbers; TLC evaluates them. What a theorem of a composition needs
besides is a named hypothesis of the theorem, for the same reasons and no other:
`Apart`, `KvApart`, `StopApart`, `RunsApart`, `FollowApart`, `RecordsApart` (what stands
for an absent value is none of the values: `undefined` or `null` in the code; sets are
finite where they are counted; `RecordsApart` also says
that there are two instances and that a mark is kept as long as a family lasts, both
seven days in the code), `Windows` and `Countable` (lengths of time and counts are
numbers), `LinesApart` (`FRAME \in Nat`, and no line is the absence of one),
`SessionsAreGiven` (`Delivery`'s own assumption, with a session for each connection).

Three say more than what a constant means, and bound what the theorem covers:

* `~Failing`, of the four theorems of `DeliveryProofs` that speak of the file: no append
  fails. With failures they are not true (section 6).
* `CommandsFollow`: one process runs at a time, and commands follow each other through it,
  killed at any step. Two at once lose updates (section 6). `ListUntouched`, of
  `AppliedIsKept` only: nobody's typo is in `supervisor.json`; with one it is not true
  (`config_typo`).
* `TwoApart`: two instances, which are two. With a third, rows come by two ways and may
  never settle (`relay_echo`).

## 5. What is only model-checked

* Liveness (`HomeIsTaken`, `SupervisorServes`, `StopReleases`, `SendIsAnswered`,
  `LinkRecovers`): under fairness and `ENABLED`, beyond the prover.

Every invariant and every action property of a passing run is stated by a theorem. Where
one speaks of what a queue or a file comes to, it does so of the positions of a sequence
or of sets of them, and what needs an induction over them takes a least or a greatest
position instead (`Climb` of `DeliveryProofs`, `WFMin` in `MeshProofs`): the library's
induction theorems take an operator as a parameter, which no installed prover can
instantiate.

## 6. Observations from the model

Beside the violation runs, the following follow from the model by changing a
constant or a condition, and are kept here for the maintainers.

* A snapshot of `session.status` is read outside the numbering of passes: one read
  before a change can reach a new subscriber after the change was stated, and the
  owner, having stated the newer value already, does not correct it
  (`status.ts:147`; `status.ts:129` says "never what an older one caught up to
  saying").
* A terminal that leaves a topic and returns within the flush period is given the
  opening frame past the queue and then the older value still waiting in it
  (`topics.ts:258`; `egress.ts:74`: "never handed a value that has already been
  superseded"). `FirstVisitHoldsLatest` (in `FramesReach`) is the part that holds.
* A message an offer is handing over can be evicted or expire meanwhile: watchers
  are told it was dropped, and it arrives (`inbox.ts:128`; DESIGN: "it never arrived
  and never will").
* Two subscribes of one connection share a Set entry, and the failure of the first
  deletes it (`topics.ts:237`): the second is answered ok without having joined.
* A message strays (`Delivery.strayed`) in four ways, and without the exception
  `AtMostOnce` or `HeldIsDurable` fails for each: the snapshot empties the inbox
  (`delivery.ts:359`) before it is known whether the connection still joins; a
  deadline says nothing of whether the bytes were read (`direct.ts:593`); of two
  connections one takes the frame, one refuses it, and the message is held
  (`delivery.ts:168`); a line is appended behind part of one (`inbox.ts:244`).
* `InboxBounded` has a term for kills: the added line lands before the dropped
  one is asked for and `load` does not trim (`inbox.ts:120`).
* `HeldMidsDiffer` speaks of held messages only: after a restart the mids of
  messages handed over are issued again (`inbox.ts:167`).
* `ViewCatchesUp` needs `~lost`: an entry whose file write failed stays in memory
  and is told to nobody but new subscribers. A removal whose write failed is the
  same: removing again finds the removal in memory and announces nothing
  (`store.ts:114`), although "a subscriber that has the entry has to be told it is
  gone" (`store.ts:102`).
* `SupervisorServes` excepts (`Answered`) a stop that was overtaken: the child is gone while the
  ask is still pending, a start brings a new one, and the stop then awaits the new
  child's loop (`supervise.ts:420`) for as long as that child lives.
* A stop of a unit in its backoff is refused ("not running") and the unit comes
  back (`supervise.ts:412`). A start in a backoff chains one more loop each time.
  `stopOne` and `removeOne` cut short the backoff of every unit, not only theirs.
* After a removal the released child still serves the config home, and a shutdown
  asked on behalf of a new unit goes to it (`registry.ts:650`).
* The dialler of a mesh connection waits for the reply to its greeting without a
  deadline and without a heartbeat; over a wire gone silent it waits until the
  system gives the connection up (`WaitsInVain`, excepted by the two liveness
  properties).
* Without `Prompt`, `LinkRecovers` fails in three ways, all of them about a retry
  that overtakes something slower than a second: two dials of the same end replace
  each other for ever, since each closes the one before as the loser of a glare;
  a retry fires while the notice of a closing for glare is still under way; `greet`
  holds a connection that closed while its key was being fetched, and closes the
  live one for it before it drops it again.
* A supervisor whose `prepareFor` or spawn throws rejects the promise the next loop is
  chained on (`supervise.ts:475`), and nobody handles the rejection; what follows is
  the runtime's policy and is not modelled.

Connection and route (a):

* A deferred frame can be flushed by another request's reply before its own answer
  (`conn.ts`: "Queue one frame to go out once the reply to the request in flight
  has"); `FollowsItsAnswer` states what does not hold.
* A request pipelined behind a greeting in one chunk is judged anonymous.
* The receipt window starts before the write, though the comment on `send` says "The
  message is written, and then the receipt channel is watched": a write slower than
  the window lets a later refusal be answered delivered. A write flushed past its
  budget answers unavailable though the harness holds the message, which then goes by
  route (b) too; a Codex command killed late is the same.
* `close()` between the moment a send has its channel and its asking for the address
  binds a channel that nothing closes; `ChannelsAreKept` excepts it (`rebound`).

Instance and configuration:

* A start whose `listen` fails releases the lock twice; the second release can take a
  successor's (`twice`, excepted by `ServesWithLock`).
* A killed `add` or `remove` leaves an endpoint row whose port `freePort` hands out
  again, and the config then does not check out (`reused`). A revert brings deleted
  files back and goes by file (`reverted`). Both are excepted by `FilesHold`.
* Two commands at once, or a command and the supervisor, lose each other's updates:
  each reads the lists and writes them whole (`supervise.ts:145` speaks of one
  writer).

Relay:

* A whole list relayed by a peer whose own copy is stale replaces fresher rows.
* The sweep forgets rows without telling local subscribers; the sweep inside `accept`
  can delete the mark of a lost peer together with the rows.
* A subscription given up and asked for again within a flush is handed a whole list
  past the older change that waits for it (`givenUp`, excepted by `HeldCatchesUp`).

Sessions and transcripts:

* The registry's constructor tells nobody of duplicates until the first `changed`.
* A state file caught torn keeps its last row as running. `StartCache` may answer for
  the process that had the pid before; the second SIGTERM is sent without looking
  again; a pid given away between `ps` and the signal is signalled. Where `ps` does not
  say when a process began (it fails, takes too long, or states it in a form the code
  does not read) a kill rests on the command alone, and signals another harness that has
  had the pid since before it looked: `processes.ts:281` accepts this, and
  `SignalsItsRun` says which processes can be hit.
* After a thaw the reading goes on from the old offset, though `transcripts.ts` says of
  a duplicated session "the reading begins again from the top" (`ThawReadsFromTop`).
* A freeze and a thaw inside one await of `#open` let an opening go on that should have
  been given up: what it asks for again (`transcripts.ts:238`, `:248`, `:283`) is as it
  was. Each opening puts a watch on the file and folds into the one entry, whose `tail`
  is the later one, so nothing stops the other; `transcripts.ts:230` says that "a reading
  nobody wants any more stops where it is, rather than going on to put a watch on a
  file". `WatchIsWanted` of `Transcripts`, with one entry, two openings and one file, is
  violated in 12 steps, the last of them the second opening taking up; `FoldIsPrefix`
  and `TailIsWanted` except it (`overlapped`).
* The standing set after `await #remember` is not asked for again; records written while
  a session is frozen are never published.
* A replaced file that grows past what was read before anybody looks is not noticed,
  and the `stat` of a save may name the replacement.

Authentication:

* A family rotated at a partitioned peer after it was failed here outlives the mark;
  writes of the same instant at both ends, and a mark older than the peer's live write,
  leave the two apart (`apart`, excepted by `Converges` and `MarkStands`).
* A stamp moved ahead of the clock (`records.ts:138`, several rotations in one instant)
  can belong to a record that runs out before one stamped lower, written later at the
  other end. Arriving after it ran out, it still replaces the live one there
  (`records.ts:106` looks at the stamps only) and is swept; at the end it came from it
  was swept already, and the live one is taken. So the family goes on at one end and
  is gone at the other (`early`, excepted by `Converges`). The search for `RecordsHold`
  found it; it takes five writes and four instants.
* A snapshot tells a peer records that are not yet on disk, although `records.ts:149`
  keeps publication behind the write. A failed commit leaves memory ahead of the disk,
  tells nobody, and skips the closing of connections (`skipped`).
* A deadline can move back, and the close does not follow it. Where one end kept the
  access token through several rotations of one instant and the other minted a new one
  an instant later, the record stamped later brings the earlier deadline; `extend`
  takes it over (`auth.ts:1308`) and tells the client, while the timer waits for the
  deadline told before (`auth.ts:1274`). So the connection lives past the deadline it
  was told last, though not past the latest it was told (`ClosedByDeadline`). Stamps of
  two machines make this likelier than the shared clock of the model does.
* A slow request overtaken by two rotations fails an honest person's family (`alone`
  says when it does not).
* Two registrations of one passkey that run side by side, with a person each still to
  be written: the one that awaits the write of its person (`auth.ts:684`) finds the
  passkey free before and writes it again after the other has, and puts its count back
  to what it read itself. So `CountersAdvance` speaks of the readings between two
  statements of a count. Where the person exists there is no `await` between the look
  and the write, and it cannot happen.

Upstream:

* A refusal noted while a slow read is in flight joins the older read (`status.ts:68`).
* A request delivered again after its window was withdrawn opens it again; an answer
  that does not name its request may move a window back; a gateway whose clock is
  ahead prunes the activity of others; `main` is not published again when a window
  closes by itself.

## 7. What is not modelled

* The encodings and signatures (CBOR, WebAuthn, JWS), what a fold makes of the
  items of a transcript (`fold.ts`, `items/*`), search, dumps, usage reports,
  installers, the plugin, the translation helper, the other commands of `cli.ts`:
  input and output without protocol state of their own.
* The attributes of a session's row and of a status, beyond what the rows' life needs.
* Terminals and the launcher: processes started and watched through the operating
  system.
* Between modules: a refused frame of the outgoing queue (256 waiting) is not known to
  the store or to the relay; `Delivery` sees route (a) as answers; the sends for
  sessions of other instances, the binding of ids to endpoints, the rate of key
  requests and the `mesh.instances` topic are left out.
* Config: explicit `--port`, torn writes, what a settings file says of other fields.
* External: the harness and its files, the operating system's processes and sockets,
  the HTTP gateway, the browser and its authenticator.

## 8. Plan

1. Theorems: `FilesHold` for processes that exclude each other, should the commands come to
   take a lock; `HeldCatchesUp` for instances in a tree.
2. Compositions: `KvStore` and `Relay` with `Egress` (a refused frame is never told
   again); `Delivery` over `Direct`, with `MaybeStray` as its abstraction.
3. More of the system: terminals and the launcher; forwarded sends between instances;
   `mergeHeld` as a join once it has a caller.
