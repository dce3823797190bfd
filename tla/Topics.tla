------------------------------- MODULE Topics -------------------------------
(***************************************************************************)
(* The topic mechanism of one instance (src/src/topics/topics.ts): who is  *)
(* subscribed to what, the subscriptions whose opening value is still      *)
(* being read, the resource each topic keeps running, and the suppression  *)
(* that stands between a value and its subscribers.                        *)
(*                                                                         *)
(* An action is one uninterrupted run of the event loop: a request line up *)
(* to its first await, or what follows an await up to the next.  Two kinds *)
(* of owner stand behind a topic.  One holds its value and answers the     *)
(* snapshot at once, so only a microtask separates the call from the join  *)
(* and only the lines of the same chunk can fall between them.  The other  *)
(* (Slow; session.status, src/src/sessions/status.ts) reads before it      *)
(* answers, so anything may happen while a subscription waits.             *)
(*                                                                         *)
(* view is what the mechanism has put out for a connection, in the order   *)
(* it did; when a frame leaves the socket is the matter of Egress.         *)
(*                                                                         *)
(* Variants of a definition that carry a plausible fault stand just before *)
(* it; no specification uses them.                                         *)
(***************************************************************************)
EXTENDS Integers, FiniteSets

CONSTANTS
  Conn,     \* connections
  Topic,    \* topic names whose frames replace the value they carry
  Slow,     \* the topics whose owner reads before it can state a value
  Call,     \* the topic.subscribe requests that may be in flight at once
  Value,    \* the values an owner may state
  Hears,    \* the pairs <<connection, topic>> the role table admits
  NoValue,  \* nothing stated yet
  NoCall,   \* a request slot not in use
  Failing   \* whether the reading of a slow owner may fail

VARIABLES
  open,      \* the connections whose socket is there
  kept,      \* the topics with an entry in #subscribers / #opening
  subs,      \* #subscribers: per topic, the connections frames go to
  opening,   \* #opening: per topic, the connections still waiting
  call,      \* the topic.subscribe requests in flight
  runs,      \* starts minus stops asked of the resource of each topic
  lastSent,  \* #lastSent: the form of the last frame, per topic
  cur,       \* the value the owner of each topic holds
  pass,      \* what the latest refresh of a slow owner read and owes
  view,      \* the value last put out for each connection, per topic
  promised,  \* the subscriptions answered ok and not let go since
  stopping   \* Instance.#stopping: new requests are refused

vars == <<open, kept, subs, opening, call, runs, lastSent, cur, pass, view,
          promised, stopping>>

(* A subscribe between its line and its answer.  live is FALSE once the    *)
(* Set it captured is no longer the topic's: letting a topic go deletes    *)
(* the Set, and a later subscribe makes another.  let is TRUE once the     *)
(* connection has asked to be let out, or the reading for another request  *)
(* of it for the topic has failed.                                         *)
Request == [conn : Conn, topic : Topic, live : BOOLEAN, let : BOOLEAN,
            value : Value \cup {NoValue}]

ASSUME TopicsAssumption ==
  /\ Slow \subseteq Topic
  /\ Hears \subseteq Conn \X Topic
  /\ NoValue \notin Value
  /\ Failing \in BOOLEAN
  /\ NoCall \notin Request

TypeOK ==
  /\ open \subseteq Conn
  /\ kept \subseteq Topic
  /\ subs \in [Topic -> SUBSET Conn]
  /\ opening \in [Topic -> SUBSET Conn]
  /\ call \in [Call -> Request \cup {NoCall}]
  /\ runs \in [Topic -> Int]
  /\ lastSent \in [Topic -> Value \cup {NoValue}]
  /\ cur \in [Topic -> Value]
  /\ pass \in [Topic -> Value \cup {NoValue}]
  /\ view \in [Conn -> [Topic -> Value \cup {NoValue}]]
  /\ promised \subseteq Conn \X Topic
  /\ stopping \in BOOLEAN

Init ==
  /\ open = Conn
  /\ kept = {}
  /\ subs = [t \in Topic |-> {}]
  /\ opening = [t \in Topic |-> {}]
  /\ call = [k \in Call |-> NoCall]
  /\ runs = [t \in Topic |-> 0]
  /\ lastSent = [t \in Topic |-> NoValue]
  /\ cur \in [Topic -> Value]
  /\ pass = [t \in Topic |-> NoValue]
  /\ view = [c \in Conn |-> [t \in Topic |-> NoValue]]
  /\ promised = {}
  /\ stopping = FALSE

-----------------------------------------------------------------------------
(* Scheduling.  A request whose owner answered at once is resumed before   *)
(* the loop takes its next event; the lines of the chunk it arrived in run *)
(* before that.                                                            *)
Resuming(k) == call[k] # NoCall /\ call[k].topic \notin Slow

NextEventAlways == TRUE

NextEvent == \A k \in Call : ~Resuming(k)

LineOf(c) == /\ c \in open
             /\ ~stopping
             /\ \A k \in Call : Resuming(k) => call[k].conn = c

-----------------------------------------------------------------------------
(* What #idle would be without its first early return, without its second, *)
(* and with the last frame deleted from a table that is not a map.         *)
IdleStopsTwice(D, s, o, cs) ==
  LET gone == {t \in D : s[t] = {} /\ o[t] = {}}
  IN  /\ subs' = s /\ opening' = o /\ call' = cs
      /\ kept' = kept \ gone
      /\ runs' = [t \in Topic |-> IF t \in gone THEN runs[t] - 1 ELSE runs[t]]
      /\ UNCHANGED <<lastSent, pass>>

IdleTooSoon(D, s, o, cs) ==
  LET gone == D \cap kept
  IN  /\ subs' = [t \in Topic |-> IF t \in gone THEN {} ELSE s[t]]
      /\ opening' = [t \in Topic |-> IF t \in gone THEN {} ELSE o[t]]
      /\ kept' = kept \ gone
      /\ runs' = [t \in Topic |-> IF t \in gone THEN runs[t] - 1 ELSE runs[t]]
      /\ call' = cs
      /\ UNCHANGED <<lastSent, pass>>

(* #idle over the topics D: each one nothing wants any more is let go, its *)
(* last frame forgotten and its resource stopped (a slow owner drops the   *)
(* pass it owed with it).  s and o are the sets as they now stand, and cs  *)
(* the requests in flight.                                                 *)
Idle(D, s, o, cs) ==
  LET gone == {t \in D \cap kept : s[t] = {} /\ o[t] = {}}
  IN  /\ subs' = s
      /\ opening' = o
      /\ kept' = kept \ gone
      /\ runs' = [t \in Topic |-> IF t \in gone THEN runs[t] - 1 ELSE runs[t]]
      /\ lastSent' = [t \in Topic |-> IF t \in gone THEN NoValue ELSE lastSent[t]]
      /\ pass' = [t \in Topic |-> IF t \in gone THEN NoValue ELSE pass[t]]
      /\ call' = [k \in Call |->
                    IF cs[k] = NoCall THEN NoCall
                    ELSE IF cs[k].topic \in gone THEN [cs[k] EXCEPT !.live = FALSE]
                    ELSE cs[k]]

(* unsubscribe for the connections C on the topics D, whether the          *)
(* subscription is open or still opening.                                  *)
LetOut(C, D) ==
  /\ Idle({t \in D : C \cap (subs[t] \cup opening[t]) # {}},
          [t \in Topic |-> IF t \in D THEN subs[t] \ C ELSE subs[t]],
          [t \in Topic |-> IF t \in D THEN opening[t] \ C ELSE opening[t]],
          [k \in Call |->
             IF call[k] = NoCall THEN NoCall
             ELSE IF call[k].conn \in C /\ call[k].topic \in D
                  THEN [call[k] EXCEPT !.let = TRUE]
                  ELSE call[k]])
  /\ promised' = promised \ (C \X D)
  /\ view' = [c \in Conn |-> [t \in Topic |->
                IF c \in C /\ t \in D THEN NoValue ELSE view[c][t]]]

(* topic.subscribe up to its await: the close listener is on the           *)
(* connection, the connection is among the opening, and the first want     *)
(* starts the resource (and the demand on the mesh that travels with it).  *)
(* An owner that holds its value has stated it by the time this returns.   *)
Subscribe(k, c, t) ==
  /\ LineOf(c)
  /\ call[k] = NoCall
  /\ <<c, t>> \in Hears
  /\ opening' = [opening EXCEPT ![t] = @ \cup {c}]
  /\ kept' = kept \cup {t}
  /\ runs' = IF t \in kept THEN runs ELSE [runs EXCEPT ![t] = @ + 1]
  /\ pass' = IF t \in kept \/ t \notin Slow THEN pass
             ELSE [pass EXCEPT ![t] = cur[t]]
  /\ call' = [call EXCEPT ![k] =
                [conn |-> c, topic |-> t, live |-> TRUE, let |-> FALSE,
                 value |-> IF t \in Slow THEN NoValue ELSE cur[t]]]
  /\ UNCHANGED <<open, subs, lastSent, cur, view, promised, stopping>>

(* A slow owner has read its value; the reading is what it was then.       *)
Read(k) ==
  /\ NextEvent
  /\ call[k] # NoCall
  /\ call[k].value = NoValue
  /\ call' = [call EXCEPT ![k].value = cur[call[k].topic]]
  /\ UNCHANGED <<open, kept, subs, opening, runs, lastSent, cur, pass, view,
                 promised, stopping>>

(* The requests once k has failed.  Another one of its connection for the  *)
(* topic waits under the same entry of the Set, and is let out with it.    *)
Failed(k) ==
  [j \in Call |->
     IF j = k \/ call[j] = NoCall THEN NoCall
     ELSE IF /\ call[k].live
             /\ call[j].conn = call[k].conn /\ call[j].topic = call[k].topic
          THEN [call[j] EXCEPT !.let = TRUE]
          ELSE call[j]]

(* The reading failed: there is no subscription, and the failure is the    *)
(* caller's answer.                                                        *)
ReadFails(k) ==
  /\ Failing
  /\ NextEvent
  /\ call[k] # NoCall
  /\ call[k].value = NoValue
  /\ LET c == call[k].conn
         t == call[k].topic
     IN  Idle({t}, subs,
              IF call[k].live THEN [opening EXCEPT ![t] = @ \ {c}] ELSE opening,
              Failed(k))
  /\ UNCHANGED <<open, cur, view, promised, stopping>>

(* What follows the await.  The connection is still among the opening of   *)
(* the Set the request captured, and joins with its snapshot in hand ...   *)
Joins(k) == call[k].live /\ call[k].conn \in opening[call[k].topic]

JoinIn(k) ==
  LET c == call[k].conn
      t == call[k].topic
  IN  /\ Joins(k)
      /\ opening' = [opening EXCEPT ![t] = @ \ {c}]
      /\ subs' = [subs EXCEPT ![t] = @ \cup {c}]
      /\ view' = [view EXCEPT ![c][t] = call[k].value]
      /\ call' = [call EXCEPT ![k] = NoCall]
      /\ UNCHANGED <<kept, runs, lastSent, pass>>

(* ... or it has been let out meanwhile, and does not.                     *)
JoinOut(k) ==
  /\ ~Joins(k)
  /\ Idle({call[k].topic}, subs, opening, [call EXCEPT ![k] = NoCall])
  /\ UNCHANGED view

(* Either way the answer is ok.                                            *)
Join(k) ==
  /\ call[k] # NoCall
  /\ call[k].value # NoValue
  /\ JoinIn(k) \/ JoinOut(k)
  /\ promised' = IF call[k].let THEN promised
                 ELSE promised \cup {<<call[k].conn, call[k].topic>>}
  /\ UNCHANGED <<open, cur, stopping>>

(* topic.unsubscribe. *)
Unsubscribe(c, t) ==
  /\ LineOf(c)
  /\ LetOut({c}, {t})
  /\ UNCHANGED <<open, cur, stopping>>

(* The socket is gone; the one close listener drops every subscription the *)
(* connection holds.                                                       *)
Close(c) ==
  /\ NextEvent
  /\ c \in open
  /\ open' = open \ {c}
  /\ LetOut({c}, Topic)
  /\ UNCHANGED <<cur, stopping>>

StopMissesOpening ==
  /\ NextEvent
  /\ ~stopping
  /\ stopping' = TRUE
  /\ LetOut(open, {t \in Topic : subs[t] # {}})
  /\ UNCHANGED <<open, cur>>

(* Steps 1 and 2 of the stop order: requests are refused from here, and    *)
(* every connection's subscriptions are dropped.                           *)
Stop ==
  /\ NextEvent
  /\ ~stopping
  /\ stopping' = TRUE
  /\ LetOut(open, Topic)
  /\ UNCHANGED <<open, cur>>

-----------------------------------------------------------------------------
(* publish: the frame is put out for the subscribers unless it repeats the *)
(* last.                                                                   *)
Publish(t, v) ==
  /\ lastSent' = [lastSent EXCEPT ![t] = v]
  /\ view' = IF lastSent[t] = v THEN view
             ELSE [c \in Conn |-> IF c \in subs[t]
                                  THEN [view[c] EXCEPT ![t] = v]
                                  ELSE view[c]]

(* The value moves.  An owner that holds it states it in the same turn,    *)
(* subscribed to or not; a slow one begins another reading, which takes    *)
(* the place of the one before it, and only while somebody wants it.       *)
Change(t, v) ==
  /\ NextEvent
  /\ v # cur[t]
  /\ cur' = [cur EXCEPT ![t] = v]
  /\ IF t \in Slow
     THEN /\ pass' = IF t \in kept THEN [pass EXCEPT ![t] = v] ELSE pass
          /\ UNCHANGED <<lastSent, view>>
     ELSE /\ Publish(t, v)
          /\ UNCHANGED pass
  /\ UNCHANGED <<open, kept, subs, opening, call, runs, promised, stopping>>

(* The latest refresh of a slow owner has its reading and states it.       *)
Restate(t) ==
  /\ NextEvent
  /\ pass[t] # NoValue
  /\ Publish(t, pass[t])
  /\ pass' = [pass EXCEPT ![t] = NoValue]
  /\ UNCHANGED <<open, kept, subs, opening, call, runs, cur, promised, stopping>>

-----------------------------------------------------------------------------
Next ==
  \/ \E k \in Call, c \in Conn, t \in Topic : Subscribe(k, c, t)
  \/ \E k \in Call : Read(k)
  \/ \E k \in Call : ReadFails(k)
  \/ \E k \in Call : Join(k)
  \/ \E c \in Conn, t \in Topic : Unsubscribe(c, t)
  \/ \E c \in Conn : Close(c)
  \/ Stop
  \/ \E t \in Topic, v \in Value : Change(t, v)
  \/ \E t \in Topic : Restate(t)

Spec == Init /\ [][Next]_vars

-----------------------------------------------------------------------------
(* A topic's resource runs exactly while something wants it: it was        *)
(* started once more than it was stopped while a subscriber or an opening  *)
(* subscription is there, and as often as it was stopped otherwise         *)
(* (UpstreamResource: start on the first want, stop on the last).          *)
RunsWhileWanted ==
  \A t \in Topic :
    runs[t] = IF subs[t] \cup opening[t] # {} THEN 1 ELSE 0

(* A connection that closed is in no set of the mechanism, whatever it had *)
(* in flight when it closed: nothing else would ever take it out, and a    *)
(* message would be handed to a socket that is gone (subscriberCount).     *)
ClosedHoldsNothing ==
  \A t \in Topic : subs[t] \cup opening[t] \subseteq open

(* Once the stop order has dropped the subscriptions no resource runs, and *)
(* a request still in flight starts none again (Instance.#stop step 2).    *)
StoppedRunsNothing ==
  stopping => \A t \in Topic : runs[t] = 0

(* A connection waiting to be joined has a request that will join it or    *)
(* take it out; a wait without one would keep the resource for ever.       *)
WaitHasRequest ==
  \A t \in Topic : \A c \in opening[t] :
    \E k \in Call : /\ call[k] # NoCall
                    /\ call[k].conn = c /\ call[k].topic = t /\ call[k].live

(* Where the owner holds its value, suppression and the opening snapshot   *)
(* together never leave a subscriber behind: what was last put out for it  *)
(* is what the owner holds.                                                *)
HeldValueReaches ==
  \A t \in Topic \ Slow : \A c \in subs[t] : view[c][t] = cur[t]

(* A subscribe answered ok leaves the connection subscribed until it asks  *)
(* to be let out, closes, or the instance stops, whatever else was in      *)
(* flight, unless another subscribe of the same connection to the topic    *)
(* failed meanwhile (DESIGN 6: "immediately after topic.subscribe, a frame *)
(* with snapshot: true fires once, followed by deltas").                   *)
OkMeansSubscribed ==
  \A p \in promised : p[1] \in subs[p[2]]
=============================================================================
