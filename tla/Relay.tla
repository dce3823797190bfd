------------------------------- MODULE Relay -------------------------------
(***************************************************************************)
(* What the peers said, held by each instance and passed on to its own     *)
(* subscribers (src/src/mesh/relay.ts, the event relay of                  *)
(* src/src/mesh/mesh.ts, the rows of src/src/topics/elements.ts).          *)
(*                                                                         *)
(* One topic of rows (peers, agents, terminals).  Its frames are changes,  *)
(* and the opening frame of a subscription is the whole list.  A change    *)
(* waits in the outgoing queue of the peer it is for; an opening frame     *)
(* does not (PeerActor.deferSend).  A link carries its frames in order and *)
(* loses what it carries when it breaks; both ends let it go at once here, *)
(* the ends' disagreement being the matter of Mesh.                        *)
(***************************************************************************)
EXTENDS Integers, Sequences, FiniteSets, SequencesExt

CONSTANTS
  Inst,        \* instances
  Linked,      \* the pairs of instances that can reach each other
  Key,         \* the names rows are matched by
  Value,       \* what a row may say
  Gone,        \* no such row; on the wire, a row marked removed
  Unheld,      \* nothing held of an instance
  Always,      \* whether the topic is peers, which is never given up
  RETENTION,   \* LAST_LIVE_RETENTION_MS
  MaxTime,     \* bound on the clock
  MaxChanges,  \* bound on changes of rows
  MaxBreaks,   \* bound on links lost and instances restarted
  MaxVisits    \* bound on local subscribers coming

VARIABLES
  rows,     \* per instance, its own rows: the owner's list
  held,     \* #held: per instance and peer, the rows the peer stated
  lostAt,   \* #lostAt: per instance and peer, when the link went
  up,       \* the links in use
  subs,     \* per instance, the peers subscribed to it
  out,      \* the outgoing queue of each instance for each peer
  wire,     \* what each instance has written to each peer
  view,     \* the rows a local subscriber has been handed, or none there
  givenUp,  \* pairs whose subscription was given up over the link they have
  clock, changes, breaks, visits

vars == <<rows, held, lostAt, up, subs, out, wire, view, givenUp, clock,
          changes, breaks, visits>>

Rows == [Key -> Value \cup {Gone}]

NoRows == [k \in Key |-> Gone]

(* What travels between instances: a subscription asked for or given up,   *)
(* or rows under the name of the instance that stated them.                *)
Ask == [is |-> "ask"]
GiveUp == [is |-> "giveUp"]
Frame(of, whole, said) == [is |-> "rows", of |-> of, whole |-> whole, said |-> said]

Peers(i) == {j \in Inst \ {i} : {i, j} \in up}

NoWires == [i \in Inst |-> [j \in Inst |-> <<>>]]

Init ==
  /\ rows = [i \in Inst |-> NoRows]
  /\ held = [i \in Inst |-> [j \in Inst |-> Unheld]]
  /\ lostAt = [i \in Inst |-> [j \in Inst |-> -1]]
  /\ up = {}
  /\ subs = [i \in Inst |-> {}]
  /\ out = NoWires
  /\ wire = NoWires
  /\ view = [i \in Inst |-> Unheld]
  /\ givenUp = {}
  /\ clock = 0 /\ changes = 0 /\ breaks = 0 /\ visits = 0

-----------------------------------------------------------------------------
(* A list restated whole taken as changes folded in; news that leaves the  *)
(* departures out.                                                         *)
OntoMerged(old, f) ==
  [k \in Key |-> IF k \in DOMAIN f.said THEN f.said[k] ELSE old[k]]

NewsWithoutRemovals(old, new) ==
  [k \in {x \in Key : new[x] \notin {old[x], Gone}} |-> new[k]]

(* Elements.merge and Elements.diff.  Both leave the rows that are stated  *)
(* in place; only the whole list takes away what it does not name.  What   *)
(* they answer is the part that said something.                            *)
Onto(old, f) ==
  [k \in Key |-> IF k \in DOMAIN f.said THEN f.said[k]
                 ELSE IF f.whole THEN Gone ELSE old[k]]

News(old, new) == [k \in {x \in Key : old[x] # new[x]} |-> new[k]]

Stated(h) == IF h = Unheld THEN NoRows ELSE h

(* The rows there are, which is what an opening frame carries.             *)
Standing(r) == [k \in {x \in Key : r[x] # Gone} |-> r[k]]

(* #sweep: what an instance said is dropped once it has been out of reach  *)
(* for longer than the window.                                             *)
Past(i) == {j \in Inst : lostAt[i][j] >= 0 /\ clock - lostAt[i][j] > RETENTION}

Swept(i) == [j \in Inst |-> IF j \in Past(i) THEN Unheld ELSE held[i][j]]

SweptMarks(i) == [j \in Inst |-> IF j \in Past(i) THEN -1 ELSE lostAt[i][j]]

(* Nothing tells a local subscriber that what it was handed was swept, so  *)
(* from then on its view of that instance is its own.                      *)
SweptView(i) ==
  IF view[i] = Unheld THEN Unheld
  ELSE [j \in Inst |-> IF j \in Past(i) THEN Unheld ELSE view[i][j]]

(* Topics.publish: a frame of news for the peers subscribed here and the   *)
(* local subscriber.                                                       *)
Queued(i, f) ==
  [j \in Inst |-> IF j \in subs[i] THEN Append(out[i][j], f) ELSE out[i][j]]

Shown(v, f) ==
  IF v = Unheld \/ v[f.of] = Unheld THEN v ELSE [v EXCEPT ![f.of] = Onto(@, f)]

-----------------------------------------------------------------------------
(* relay.accept: the frame is held under the instance that stated it, and  *)
(* passed on when it said something.  One's own rows come back round a     *)
(* third instance and are let be (#peerFrame).                             *)
Accept(i, f) ==
  IF f.of = i
  THEN UNCHANGED <<held, lostAt, out, view>>
  ELSE LET old == Stated(Swept(i)[f.of])
           new == Onto(old, f)
           news == Frame(f.of, FALSE, News(old, new))
           shown == IF SweptView(i) = Unheld THEN Unheld
                    ELSE Shown(SweptView(i), news)
       IN  /\ held' = [held EXCEPT ![i] = [Swept(i) EXCEPT ![f.of] = new]]
           /\ lostAt' = [lostAt EXCEPT ![i] = SweptMarks(i)]
           /\ IF DOMAIN news.said = {}
              THEN /\ view' = [view EXCEPT ![i] = SweptView(i)]
                   /\ UNCHANGED out
              ELSE /\ view' = [view EXCEPT ![i] = shown]
                   /\ out' = [out EXCEPT ![i] = Queued(i, news)]

(* Mesh.snapshot beside the instance's own: one opening frame for each     *)
(* instance that has stated rows.                                          *)
Openings(i) ==
  <<Frame(i, TRUE, Standing(rows[i]))>>
    \o SetToSeq({Frame(j, TRUE, Standing(Swept(i)[j])) :
                   j \in {x \in Inst : Swept(i)[x] # Unheld}})

(* A peer's subscription is taken: it is subscribed and written the        *)
(* opening frames at once.                                                 *)
TakeAsk(i, j, rest) ==
  /\ subs' = [subs EXCEPT ![i] = @ \cup {j}]
  /\ held' = [held EXCEPT ![i] = Swept(i)]
  /\ lostAt' = [lostAt EXCEPT ![i] = SweptMarks(i)]
  /\ view' = [view EXCEPT ![i] = SweptView(i)]
  /\ wire' = [wire EXCEPT ![j][i] = rest, ![i][j] = @ \o Openings(i)]
  /\ UNCHANGED out

(* i reads the next frame j wrote to it.                                   *)
Receive(i, j) ==
  /\ {i, j} \in up
  /\ wire[j][i] # <<>>
  /\ LET f == Head(wire[j][i])
         rest == Tail(wire[j][i])
     IN  CASE f.is = "ask" -> TakeAsk(i, j, rest)
           [] f.is = "giveUp" -> /\ subs' = [subs EXCEPT ![i] = @ \ {j}]
                                  /\ wire' = [wire EXCEPT ![j][i] = rest]
                                  /\ UNCHANGED <<held, lostAt, out, view>>
           [] f.is = "rows" -> /\ Accept(i, f)
                               /\ wire' = [wire EXCEPT ![j][i] = rest]
                               /\ UNCHANGED subs
  /\ UNCHANGED <<rows, up, givenUp, clock, changes, breaks, visits>>

(* Egress.flush: what waits for a peer is written to it.                   *)
Flush(i, j) ==
  /\ out[i][j] # <<>>
  /\ wire' = [wire EXCEPT ![i][j] = @ \o out[i][j]]
  /\ out' = [out EXCEPT ![i][j] = <<>>]
  /\ UNCHANGED <<rows, held, lostAt, up, subs, view, givenUp, clock, changes, breaks,
                 visits>>

(* A row of the instance's own moves, and its owner states the change.     *)
Change(i, k, v) ==
  /\ changes < MaxChanges
  /\ rows[i][k] # v
  /\ LET f == Frame(i, FALSE, [x \in {k} |-> v])
     IN  /\ rows' = [rows EXCEPT ![i][k] = v]
         /\ out' = [out EXCEPT ![i] = Queued(i, f)]
         /\ view' = [view EXCEPT ![i] = Shown(@, f)]
  /\ changes' = changes + 1
  /\ UNCHANGED <<held, lostAt, up, subs, wire, givenUp, clock, breaks, visits>>

-----------------------------------------------------------------------------
(* Mesh.demand on the first local subscriber and after the last: the       *)
(* subscription travels to every peer.                                     *)
Demanded(i) == Always \/ view[i] # Unheld

Demand(i, f) ==
  IF Always THEN UNCHANGED <<wire, givenUp>>
  ELSE /\ wire' = [wire EXCEPT ![i] =
                     [j \in Inst |-> IF j \in Peers(i) THEN Append(@[j], f) ELSE @[j]]]
       /\ givenUp' = IF f = GiveUp THEN givenUp \cup {<<i, j>> : j \in Peers(i)}
                     ELSE givenUp

(* A local subscriber is handed every row that is held.                    *)
Opens(i) ==
  /\ visits < MaxVisits
  /\ visits' = visits + 1
  /\ view[i] = Unheld
  /\ held' = [held EXCEPT ![i] = Swept(i)]
  /\ lostAt' = [lostAt EXCEPT ![i] = SweptMarks(i)]
  /\ view' = [view EXCEPT ![i] =
                [j \in Inst |-> IF j = i THEN rows[i] ELSE Stated(Swept(i)[j])]]
  /\ Demand(i, Ask)
  /\ UNCHANGED <<rows, up, subs, out, clock, changes, breaks>>

Leaves(i) ==
  /\ view[i] # Unheld
  /\ view' = [view EXCEPT ![i] = Unheld]
  /\ Demand(i, GiveUp)
  /\ UNCHANGED <<rows, held, lostAt, up, subs, out, clock, changes, breaks, visits>>

-----------------------------------------------------------------------------
(* #hold: the mark goes, what was said stands, and each end asks for what  *)
(* is demanded of it.                                                      *)
Link(i, j) ==
  /\ {i, j} \in Linked \ up
  /\ up' = up \cup {{i, j}}
  /\ lostAt' = [lostAt EXCEPT ![i][j] = -1, ![j][i] = -1]
  /\ wire' = [wire EXCEPT ![i][j] = IF Demanded(i) THEN <<Ask>> ELSE <<>>,
                          ![j][i] = IF Demanded(j) THEN <<Ask>> ELSE <<>>]
  /\ UNCHANGED <<rows, held, subs, out, view, givenUp, clock, changes, breaks,
                 visits>>

(* relay.lost at x for each peer in C: marked, unless it was already.      *)
Marked(x, C) ==
  [y \in Inst |-> IF y \in C /\ lostAt[x][y] < 0 THEN clock ELSE lostAt[x][y]]

Emptied(w, L) ==
  [x \in Inst |-> [y \in Inst |-> IF {x, y} \in L THEN <<>> ELSE w[x][y]]]

(* #drop at both ends of the links L: subscriptions over them are dropped  *)
(* with the connection, and what they carried is lost.                     *)
Severed(L) ==
  /\ up' = up \ L
  /\ subs' = [x \in Inst |-> {y \in subs[x] : {x, y} \notin L}]
  /\ wire' = Emptied(wire, L)
  /\ out' = Emptied(out, L)
  /\ givenUp' = {p \in givenUp : {p[1], p[2]} \notin L}
  /\ breaks' = breaks + 1

Breaks(i, j) ==
  /\ breaks < MaxBreaks
  /\ {i, j} \in up
  /\ Severed({{i, j}})
  /\ lostAt' = [lostAt EXCEPT ![i] = Marked(i, {j}), ![j] = Marked(j, {i})]
  /\ UNCHANGED <<rows, held, view, clock, changes, visits>>

(* An instance is stopped and started: it has nothing and no rows yet, and *)
(* its peers have lost it.                                                 *)
Restart(i) ==
  /\ breaks < MaxBreaks
  /\ Severed({l \in up : i \in l})
  /\ rows' = [rows EXCEPT ![i] = NoRows]
  /\ held' = [held EXCEPT ![i] = [j \in Inst |-> Unheld]]
  /\ view' = [view EXCEPT ![i] = Unheld]
  /\ lostAt' = [x \in Inst |-> IF x = i THEN [j \in Inst |-> -1]
                               ELSE IF x \in Peers(i) THEN Marked(x, {i})
                               ELSE lostAt[x]]
  /\ UNCHANGED <<clock, changes, visits>>

Tick ==
  /\ clock < MaxTime
  /\ clock' = clock + 1
  /\ UNCHANGED <<rows, held, lostAt, up, subs, out, wire, view, givenUp,
                 changes, breaks, visits>>

-----------------------------------------------------------------------------
Next ==
  \/ \E i, j \in Inst : Receive(i, j)
  \/ \E i, j \in Inst : Flush(i, j)
  \/ \E i \in Inst, k \in Key, v \in Value \cup {Gone} : Change(i, k, v)
  \/ \E i \in Inst : Opens(i)
  \/ \E i \in Inst : Leaves(i)
  \/ \E i, j \in Inst : Link(i, j)
  \/ \E i, j \in Inst : Breaks(i, j)
  \/ \E i \in Inst : Restart(i)
  \/ Tick

Spec == Init /\ [][Next]_vars

(* What was written is read, and a queue that holds something is flushed.  *)
FairSpec ==
  /\ Spec
  /\ \A i, j \in Inst : WF_vars(Receive(i, j)) /\ WF_vars(Flush(i, j))

-----------------------------------------------------------------------------
(* A frame that speaks of a row of j, and what it says of it.              *)
Speaks(f, j, k) == f.is = "rows" /\ f.of = j /\ (f.whole \/ k \in DOMAIN f.said)

Says(f, k) == IF k \in DOMAIN f.said THEN f.said[k] ELSE Gone

(* What is held as h of j is r once the frames of q are taken: of each row *)
(* the last that speaks of it says so, or what is held if none does.       *)
ComesTo(q, h, j, r) ==
  \A k \in Key :
    /\ (\A n \in 1..Len(q) : ~Speaks(q[n], j, k)) => h[k] = r[k]
    /\ \A n \in 1..Len(q) :
         /\ Speaks(q[n], j, k)
         /\ \A m \in n + 1..Len(q) : ~Speaks(q[m], j, k)
         => Says(q[n], k) = r[k]

(* Through losses, returns and restarts, what an instance holds of a peer  *)
(* it has subscribed to is what the peer's rows are once the frames on     *)
(* their way are taken: no row is missed, none stays that the peer no      *)
(* longer has (Relay.accept: "a row the peer no longer has is gone from it *)
(* and from nowhere else").  Excepted is a subscription given up: asked    *)
(* for again over the same link, its opening frame goes past what waits.   *)
HeldCatchesUp ==
  \A j \in Inst : \A i \in subs[j] :
    <<i, j>> \notin givenUp =>
      ComesTo(wire[j][i] \o out[j][i], Stated(held[i][j]), j, rows[j])

(* What a local subscriber was handed, frame by frame, is what is held:    *)
(* its opening value and the news after it leave nothing out, through      *)
(* restarts of the peer and lists restated whole (Relay.snapshot, accept). *)
ViewIsHeld ==
  \A i, j \in Inst :
    (i # j /\ view[i] # Unheld /\ held[i][j] # Unheld) =>
      view[i][j] \in {held[i][j], Unheld}

(* A change stated once comes to rest: where links stay up, every instance *)
(* ends up holding the rows of those it is linked with, and goes on        *)
(* holding them (relay.ts: a frame left with no rows is not passed on at   *)
(* all, "which is what stops a peer's restatement from becoming a frame    *)
(* for every local subscriber").                                           *)
RowsSettle ==
  <>[](\A i \in Inst : \A j \in Peers(i) : i \in subs[j] => held[i][j] = rows[j])
=============================================================================
