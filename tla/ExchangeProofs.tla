--------------------------- MODULE ExchangeProofs ---------------------------
(***************************************************************************)
(* What MCExchange guarantees of what passes through an instance, for any  *)
(* values of its constants: the topics it serves, the connection its       *)
(* frames go out on, the harness's own route for messages, and the inbox   *)
(* behind the other one.                                                   *)
(***************************************************************************)
EXTENDS MCExchange, SequenceTheorems, TLAPS

-----------------------------------------------------------------------------
(* The topics, for any number of connections, topics, requests and values. *)

(* A topic has an entry exactly while somebody is subscribed or opening,   *)
(* and the resource has been started once more than stopped exactly then.  *)
KeptIsWanted == kept = {t \in Topic : subs[t] \cup opening[t] # {}}

RunsIsKept == runs = [t \in Topic |-> IF t \in kept THEN 1 ELSE 0]

StoppedIsEmpty ==
  stopping => \A t \in Topic : subs[t] = {} /\ opening[t] = {}

(* The strengthening under which who-wants-what is inductive.              *)
Wants == KeptIsWanted /\ RunsIsKept /\ ClosedHoldsNothing /\ StoppedIsEmpty

(* Letting topics go keeps the types, whatever the sets now hold.          *)
LEMMA IdleTypes ==
  ASSUME TypeOK, NEW G \in SUBSET Topic,
         NEW s \in [Topic -> SUBSET Conn], NEW o \in [Topic -> SUBSET Conn],
         NEW cs \in [Call -> Request \cup {NoCall}],
         Idle(G, s, o, cs)
  PROVE  /\ kept' \subseteq Topic
         /\ subs' = s
         /\ opening' = o
         /\ call' \in [Call -> Request \cup {NoCall}]
         /\ runs' \in [Topic -> Int]
         /\ lastSent' \in [Topic -> Value \cup {NoValue}]
         /\ pass' \in [Topic -> Value \cup {NoValue}]
<1> DEFINE gone == {t \in G \cap kept : s[t] = {} /\ o[t] = {}}
<1>1. /\ subs' = s
      /\ opening' = o
      /\ kept' = kept \ gone
      /\ runs' = [t \in Topic |-> IF t \in gone THEN runs[t] - 1 ELSE runs[t]]
      /\ lastSent' = [t \in Topic |-> IF t \in gone THEN NoValue ELSE lastSent[t]]
      /\ pass' = [t \in Topic |-> IF t \in gone THEN NoValue ELSE pass[t]]
      /\ call' = [k \in Call |->
                    IF cs[k] = NoCall THEN NoCall
                    ELSE IF cs[k].topic \in gone THEN [cs[k] EXCEPT !.live = FALSE]
                    ELSE cs[k]]
  BY DEF Idle
<1> HIDE DEF gone
<1>2. call' \in [Call -> Request \cup {NoCall}]
  BY <1>1 DEF Request
<1> QED  BY <1>1, <1>2 DEF TypeOK

(* Letting topics go keeps an entry for a topic exactly while it is        *)
(* wanted, provided G covers every topic whose last want has just gone.    *)
LEMMA IdleKeeps ==
  ASSUME TypeOK, RunsIsKept, NEW G \in SUBSET Topic,
         NEW s \in [Topic -> SUBSET Conn], NEW o \in [Topic -> SUBSET Conn],
         NEW cs,
         \A t \in Topic : s[t] \cup o[t] # {} => t \in kept,
         \A t \in kept \ G : s[t] \cup o[t] # {},
         Idle(G, s, o, cs)
  PROVE  KeptIsWanted' /\ RunsIsKept'
<1> DEFINE gone == {t \in G \cap kept : s[t] = {} /\ o[t] = {}}
<1>1. /\ subs' = s
      /\ opening' = o
      /\ kept' = kept \ gone
      /\ runs' = [t \in Topic |-> IF t \in gone THEN runs[t] - 1 ELSE runs[t]]
  BY DEF Idle
<1>2. KeptIsWanted'
  BY <1>1 DEF KeptIsWanted, TypeOK
<1>3. \A t \in Topic : runs'[t] = IF t \in kept' THEN 1 ELSE 0
  BY <1>1 DEF RunsIsKept, TypeOK
<1> QED  BY <1>1, <1>2, <1>3 DEF RunsIsKept

(* Letting connections out of topics keeps types and wants.                *)
LEMMA LetOutKeeps ==
  ASSUME TypeOK, Wants, NEW Who \in SUBSET Conn, NEW G \in SUBSET Topic,
         LetOut(Who, G)
  PROVE  /\ KeptIsWanted' /\ RunsIsKept'
         /\ subs' = [t \in Topic |-> IF t \in G THEN subs[t] \ Who ELSE subs[t]]
         /\ opening' = [t \in Topic |->
                          IF t \in G THEN opening[t] \ Who ELSE opening[t]]
         /\ (/\ open' \subseteq Conn
             /\ cur' \in [Topic -> Value]
             /\ stopping' \in BOOLEAN) => TypeOK'
<1> DEFINE E == {t \in G : Who \cap (subs[t] \cup opening[t]) # {}}
           s == [t \in Topic |-> IF t \in G THEN subs[t] \ Who ELSE subs[t]]
           o == [t \in Topic |-> IF t \in G THEN opening[t] \ Who ELSE opening[t]]
           cs == [k \in Call |->
                    IF call[k] = NoCall THEN NoCall
                    ELSE IF call[k].conn \in Who /\ call[k].topic \in G
                         THEN [call[k] EXCEPT !.let = TRUE]
                         ELSE call[k]]
<1>1. Idle(E, s, o, cs)
  BY DEF LetOut
<1>2. s \in [Topic -> SUBSET Conn] /\ o \in [Topic -> SUBSET Conn]
  BY DEF TypeOK
<1>3. cs \in [Call -> Request \cup {NoCall}]
  <2>1. ASSUME NEW k \in Call, call[k] # NoCall
        PROVE  [call[k] EXCEPT !.let = TRUE] \in Request
    <3>1. call[k] \in Request
      BY <2>1 DEF TypeOK
    <3> QED  BY <3>1 DEF Request
  <2>2. call \in [Call -> Request \cup {NoCall}]
    BY DEF TypeOK
  <2> QED  BY <2>1, <2>2
<1>4. \A t \in Topic : s[t] \cup o[t] # {} => t \in kept
  BY DEF Wants, KeptIsWanted
<1>5. \A t \in kept \ E : s[t] \cup o[t] # {}
  BY DEF Wants, KeptIsWanted, TypeOK
<1>6. E \in SUBSET Topic
  OBVIOUS
<1>7. promised' \subseteq Conn \X Topic
  BY DEF LetOut, TypeOK
<1>8. view' \in [Conn -> [Topic -> Value \cup {NoValue}]]
  BY DEF LetOut, TypeOK
<1>9. RunsIsKept
  BY DEF Wants
<1> HIDE DEF E, s, o, cs
<1>10. KeptIsWanted' /\ RunsIsKept'
  BY <1>1, <1>2, <1>4, <1>5, <1>6, <1>9, IdleKeeps
<1>11. /\ kept' \subseteq Topic
       /\ subs' = s
       /\ opening' = o
       /\ call' \in [Call -> Request \cup {NoCall}]
       /\ runs' \in [Topic -> Int]
       /\ lastSent' \in [Topic -> Value \cup {NoValue}]
       /\ pass' \in [Topic -> Value \cup {NoValue}]
  BY <1>1, <1>2, <1>3, <1>6, IdleTypes
<1>12. (/\ open' \subseteq Conn
        /\ cur' \in [Topic -> Value]
        /\ stopping' \in BOOLEAN) => TypeOK'
  BY <1>2, <1>7, <1>8, <1>11 DEF TypeOK
<1> QED  BY <1>10, <1>11, <1>12 DEF s, o

(* A value published keeps the types of what it touches.                   *)
LEMMA PublishTypes ==
  ASSUME TypeOK, NEW t \in Topic, NEW v \in Value, Publish(t, v)
  PROVE  /\ lastSent' \in [Topic -> Value \cup {NoValue}]
         /\ view' \in [Conn -> [Topic -> Value \cup {NoValue}]]
  BY DEF TypeOK, Publish

(* What a failed reading leaves of the requests: the same ones but its     *)
(* own, waiting for the same.                                              *)
LEMMA FailedKeeps ==
  ASSUME TypeOK, NEW k \in Call
  PROVE  /\ Failed(k) \in [Call -> Request \cup {NoCall}]
         /\ \A j \in Call :
              /\ Failed(k)[j] # NoCall <=> j # k /\ call[j] # NoCall
              /\ Failed(k)[j] # NoCall =>
                   /\ Failed(k)[j].conn = call[j].conn
                   /\ Failed(k)[j].topic = call[j].topic
                   /\ Failed(k)[j].live = call[j].live
                   /\ Failed(k)[j].value = call[j].value
<1>1. ASSUME NEW r \in Request
      PROVE  /\ [r EXCEPT !.let = TRUE] \in Request
             /\ [r EXCEPT !.let = TRUE].conn = r.conn
             /\ [r EXCEPT !.let = TRUE].topic = r.topic
             /\ [r EXCEPT !.let = TRUE].live = r.live
             /\ [r EXCEPT !.let = TRUE].value = r.value
  BY DEF Request
<1>2. \A j \in Call : call[j] # NoCall => call[j] \in Request
  BY DEF TypeOK
<1>3. NoCall \notin Request
  BY TopicsAssumption
<1> QED  BY <1>1, <1>2, <1>3 DEF Failed

(* Every step keeps the types and the wants.                               *)
LEMMA StepKeepsWants ==
  ASSUME TypeOK, Wants, [Next]_vars
  PROVE  TypeOK' /\ Wants'
<1> USE TopicsAssumption
<1>1. ASSUME NEW k \in Call, NEW c \in Conn, NEW t \in Topic, Subscribe(k, c, t)
      PROVE  TypeOK' /\ Wants'
  <2>0. c \in open /\ ~stopping
    BY <1>1 DEF Subscribe, LineOf
  <2>1. TypeOK'
    <3>1. [conn |-> c, topic |-> t, live |-> TRUE, let |-> FALSE,
           value |-> IF t \in Slow THEN NoValue ELSE cur[t]] \in Request
      BY DEF Request, TypeOK
    <3>2. call' \in [Call -> Request \cup {NoCall}]
      <4>1. call \in [Call -> Request \cup {NoCall}]
        BY DEF TypeOK
      <4> QED  BY <1>1, <3>1, <4>1 DEF Subscribe
    <3>3. runs' \in [Topic -> Int] /\ pass' \in [Topic -> Value \cup {NoValue}]
      BY <1>1 DEF Subscribe, TypeOK
    <3>4. /\ opening' \in [Topic -> SUBSET Conn]
          /\ kept' \subseteq Topic
      BY <1>1 DEF Subscribe, TypeOK
    <3> QED  BY <1>1, <3>2, <3>3, <3>4 DEF Subscribe, TypeOK
  <2>2. KeptIsWanted'
    <3>1. /\ opening' = [opening EXCEPT ![t] = @ \cup {c}] /\ subs' = subs
          /\ kept' = kept \cup {t}
      BY <1>1 DEF Subscribe
    <3>2. opening \in [Topic -> SUBSET Conn] /\ KeptIsWanted
      BY DEF TypeOK, Wants
    <3> QED  BY <3>1, <3>2 DEF KeptIsWanted
  <2>3. RunsIsKept'
    <3>1. runs' = IF t \in kept THEN runs ELSE [runs EXCEPT ![t] = @ + 1]
      BY <1>1 DEF Subscribe
    <3>2. kept' = kept \cup {t}
      BY <1>1 DEF Subscribe
    <3> QED  BY <3>1, <3>2 DEF Wants, RunsIsKept
  <2>4. ClosedHoldsNothing' /\ StoppedIsEmpty'
    BY <1>1, <2>0 DEF Subscribe, TypeOK, Wants, ClosedHoldsNothing, StoppedIsEmpty
  <2> QED  BY <2>1, <2>2, <2>3, <2>4 DEF Wants
<1>2. ASSUME NEW k \in Call, Read(k)
      PROVE  TypeOK' /\ Wants'
  <2>1. call[k] \in Request
    BY <1>2 DEF Read, TypeOK
  <2>2. call' \in [Call -> Request \cup {NoCall}]
    BY <1>2, <2>1 DEF Read, TypeOK, Request
  <2> QED  BY <1>2, <2>2 DEF Read, TypeOK, Wants, KeptIsWanted, RunsIsKept,
                            ClosedHoldsNothing, StoppedIsEmpty
<1>3. ASSUME NEW k \in Call, ReadFails(k)
      PROVE  TypeOK' /\ Wants'
  <2> DEFINE c == call[k].conn
             t == call[k].topic
             o == IF call[k].live THEN [opening EXCEPT ![t] = @ \ {c}] ELSE opening
             cs == Failed(k)
  <2>1. call[k] \in Request /\ c \in Conn /\ t \in Topic
    BY <1>3 DEF ReadFails, TypeOK, Request
  <2>2. Idle({t}, subs, o, cs)
    BY <1>3 DEF ReadFails
  <2>3. o \in [Topic -> SUBSET Conn] /\ cs \in [Call -> Request \cup {NoCall}]
    BY <2>1, FailedKeeps DEF TypeOK
  <2>4. \A u \in Topic : o[u] \subseteq opening[u]
    BY <2>1 DEF TypeOK
  <2>5. \A u \in Topic : subs[u] \cup o[u] # {} => u \in kept
    BY <2>4 DEF Wants, KeptIsWanted
  <2>6. \A u \in kept \ {t} : subs[u] \cup o[u] # {}
    BY <2>1 DEF Wants, KeptIsWanted, TypeOK
  <2>7. UNCHANGED <<open, cur, view, promised, stopping>>
    BY <1>3 DEF ReadFails
  <2>8. subs \in [Topic -> SUBSET Conn] /\ {t} \in SUBSET Topic /\ RunsIsKept
    BY <2>1 DEF TypeOK, Wants
  <2> HIDE DEF o, cs, c, t
  <2>9. KeptIsWanted' /\ RunsIsKept'
    BY <2>2, <2>3, <2>5, <2>6, <2>8, IdleKeeps
  <2>10. /\ kept' \subseteq Topic
         /\ subs' = subs
         /\ opening' = o
         /\ call' \in [Call -> Request \cup {NoCall}]
         /\ runs' \in [Topic -> Int]
         /\ lastSent' \in [Topic -> Value \cup {NoValue}]
         /\ pass' \in [Topic -> Value \cup {NoValue}]
    BY <2>2, <2>3, <2>8, IdleTypes
  <2>11. TypeOK'
    BY <2>3, <2>7, <2>10 DEF TypeOK
  <2>12. ClosedHoldsNothing' /\ StoppedIsEmpty'
    BY <2>4, <2>7, <2>10 DEF Wants, ClosedHoldsNothing, StoppedIsEmpty
  <2> QED  BY <2>9, <2>11, <2>12 DEF Wants
<1>4. ASSUME NEW k \in Call, Join(k)
      PROVE  TypeOK' /\ Wants'
  <2> DEFINE c == call[k].conn
             t == call[k].topic
             joins == call[k].live /\ c \in opening[t]
             cs == [call EXCEPT ![k] = NoCall]
  <2>1. /\ call[k] \in Request /\ c \in Conn /\ t \in Topic
        /\ call[k].value \in Value \cup {NoValue}
    BY <1>4 DEF Join, JoinIn, JoinOut, Joins, TypeOK, Request
  <2>2. UNCHANGED <<open, cur, stopping>>
    BY <1>4 DEF Join, JoinIn, JoinOut, Joins
  <2>3. promised' \subseteq Conn \X Topic
    BY <1>4, <2>1 DEF Join, JoinIn, JoinOut, Joins, TypeOK
  <2>4. cs \in [Call -> Request \cup {NoCall}]
    BY DEF TypeOK
  <2>5. CASE joins
    <3>1. /\ opening' = [opening EXCEPT ![t] = @ \ {c}]
          /\ subs' = [subs EXCEPT ![t] = @ \cup {c}]
          /\ view' = [view EXCEPT ![c][t] = call[k].value]
          /\ call' = cs
          /\ UNCHANGED <<kept, runs, lastSent, pass>>
      BY <1>4, <2>5 DEF Join, JoinIn, JoinOut, Joins
    <3>2. TypeOK'
      BY <2>1, <2>2, <2>3, <2>4, <3>1 DEF TypeOK
    <3>3. KeptIsWanted' /\ RunsIsKept'
      BY <2>1, <2>5, <3>1 DEF TypeOK, Wants, KeptIsWanted, RunsIsKept
    <3>4. ClosedHoldsNothing' /\ StoppedIsEmpty'
      BY <2>1, <2>2, <2>5, <3>1 DEF TypeOK, Wants, ClosedHoldsNothing, StoppedIsEmpty
    <3> QED  BY <3>2, <3>3, <3>4 DEF Wants
  <2>6. CASE ~joins
    <3>1. Idle({t}, subs, opening, cs) /\ UNCHANGED view
      BY <1>4, <2>6 DEF Join, JoinIn, JoinOut, Joins
    <3>2. /\ \A u \in Topic : subs[u] \cup opening[u] # {} => u \in kept
          /\ \A u \in kept \ {t} : subs[u] \cup opening[u] # {}
          /\ RunsIsKept /\ {t} \in SUBSET Topic
          /\ subs \in [Topic -> SUBSET Conn] /\ opening \in [Topic -> SUBSET Conn]
      BY <2>1 DEF Wants, KeptIsWanted, TypeOK
    <3> HIDE DEF c, t, joins, cs
    <3>3. KeptIsWanted' /\ RunsIsKept'
      BY <3>1, <3>2, IdleKeeps
    <3>4. /\ kept' \subseteq Topic
          /\ subs' = subs
          /\ opening' = opening
          /\ call' \in [Call -> Request \cup {NoCall}]
          /\ runs' \in [Topic -> Int]
          /\ lastSent' \in [Topic -> Value \cup {NoValue}]
          /\ pass' \in [Topic -> Value \cup {NoValue}]
      BY <2>4, <3>1, <3>2, IdleTypes
    <3>5. TypeOK'
      BY <2>2, <2>3, <3>1, <3>2, <3>4 DEF TypeOK
    <3>6. ClosedHoldsNothing' /\ StoppedIsEmpty'
      BY <2>2, <3>4 DEF Wants, ClosedHoldsNothing, StoppedIsEmpty
    <3> QED  BY <3>3, <3>5, <3>6 DEF Wants
  <2> QED  BY <2>5, <2>6
<1>5. ASSUME NEW c \in Conn, NEW t \in Topic, Unsubscribe(c, t)
      PROVE  TypeOK' /\ Wants'
  <2>1. LetOut({c}, {t}) /\ UNCHANGED <<open, cur, stopping>>
    BY <1>5 DEF Unsubscribe
  <2>0. /\ {c} \in SUBSET Conn /\ {t} \in SUBSET Topic
        /\ open' \subseteq Conn /\ cur' \in [Topic -> Value] /\ stopping' \in BOOLEAN
    BY <2>1 DEF TypeOK
  <2>2. /\ KeptIsWanted' /\ RunsIsKept'
        /\ subs' = [u \in Topic |-> IF u \in {t} THEN subs[u] \ {c} ELSE subs[u]]
        /\ opening' = [u \in Topic |-> IF u \in {t} THEN opening[u] \ {c} ELSE opening[u]]
        /\ TypeOK'
    BY <2>0, <2>1, LetOutKeeps
  <2>3. ClosedHoldsNothing' /\ StoppedIsEmpty'
    BY <2>1, <2>2 DEF Wants, ClosedHoldsNothing, StoppedIsEmpty
  <2> QED  BY <2>2, <2>3 DEF Wants
<1>6. ASSUME NEW c \in Conn, Close(c)
      PROVE  TypeOK' /\ Wants'
  <2>1. LetOut({c}, Topic) /\ UNCHANGED <<cur, stopping>> /\ open' = open \ {c}
    BY <1>6 DEF Close
  <2>0. /\ {c} \in SUBSET Conn /\ Topic \in SUBSET Topic
        /\ open' \subseteq Conn /\ cur' \in [Topic -> Value] /\ stopping' \in BOOLEAN
    BY <2>1 DEF TypeOK
  <2>2. /\ KeptIsWanted' /\ RunsIsKept'
        /\ subs' = [u \in Topic |-> IF u \in Topic THEN subs[u] \ {c} ELSE subs[u]]
        /\ opening' = [u \in Topic |-> IF u \in Topic THEN opening[u] \ {c} ELSE opening[u]]
        /\ TypeOK'
    BY <2>0, <2>1, LetOutKeeps
  <2>3. ClosedHoldsNothing' /\ StoppedIsEmpty'
    BY <2>1, <2>2 DEF Wants, ClosedHoldsNothing, StoppedIsEmpty
  <2> QED  BY <2>2, <2>3 DEF Wants
<1>7. ASSUME Stop
      PROVE  TypeOK' /\ Wants'
  <2>1. LetOut(open, Topic) /\ UNCHANGED <<open, cur>> /\ stopping' = TRUE
    BY <1>7 DEF Stop
  <2>0. /\ open \in SUBSET Conn /\ Topic \in SUBSET Topic
        /\ open' \subseteq Conn /\ cur' \in [Topic -> Value] /\ stopping' \in BOOLEAN
    BY <2>1 DEF TypeOK
  <2>2. /\ KeptIsWanted' /\ RunsIsKept'
        /\ subs' = [u \in Topic |-> IF u \in Topic THEN subs[u] \ open ELSE subs[u]]
        /\ opening' = [u \in Topic |-> IF u \in Topic THEN opening[u] \ open ELSE opening[u]]
        /\ TypeOK'
    BY <2>0, <2>1, LetOutKeeps
  <2>3. ClosedHoldsNothing' /\ StoppedIsEmpty'
    BY <2>1, <2>2 DEF Wants, ClosedHoldsNothing, StoppedIsEmpty
  <2> QED  BY <2>2, <2>3 DEF Wants
<1>8. ASSUME NEW t \in Topic, NEW v \in Value, Change(t, v)
      PROVE  TypeOK' /\ Wants'
  <2>1. /\ lastSent' \in [Topic -> Value \cup {NoValue}]
        /\ view' \in [Conn -> [Topic -> Value \cup {NoValue}]]
    <3>1. CASE t \in Slow  BY <1>8, <3>1 DEF Change, TypeOK
    <3>2. CASE t \notin Slow  BY <1>8, <3>2, PublishTypes DEF Change
    <3> QED  BY <3>1, <3>2
  <2>2. pass' \in [Topic -> Value \cup {NoValue}] /\ cur' \in [Topic -> Value]
    BY <1>8 DEF Change, TypeOK
  <2>3. UNCHANGED <<open, kept, subs, opening, call, runs, promised, stopping>>
    BY <1>8 DEF Change
  <2> QED  BY <2>1, <2>2, <2>3 DEF TypeOK, Wants, KeptIsWanted, RunsIsKept,
                                  ClosedHoldsNothing, StoppedIsEmpty
<1>9. ASSUME NEW t \in Topic, Restate(t)
      PROVE  TypeOK' /\ Wants'
  <2>1. pass[t] \in Value
    BY <1>9 DEF Restate, TypeOK
  <2>2. /\ lastSent' \in [Topic -> Value \cup {NoValue}]
        /\ view' \in [Conn -> [Topic -> Value \cup {NoValue}]]
    BY <1>9, <2>1, PublishTypes DEF Restate
  <2>3. /\ pass' \in [Topic -> Value \cup {NoValue}]
        /\ UNCHANGED <<open, kept, subs, opening, call, runs, cur, promised, stopping>>
    BY <1>9 DEF Restate, TypeOK
  <2> QED  BY <2>2, <2>3 DEF TypeOK, Wants, KeptIsWanted, RunsIsKept,
                            ClosedHoldsNothing, StoppedIsEmpty
<1>10. CASE UNCHANGED vars
  BY <1>10 DEF vars, TypeOK, Wants, KeptIsWanted, RunsIsKept,
               ClosedHoldsNothing, StoppedIsEmpty
<1> QED  BY <1>1, <1>2, <1>3, <1>4, <1>5, <1>6, <1>7, <1>8, <1>9, <1>10 DEF Next

(* Nothing is subscribed to and nothing runs when the instance starts.     *)
LEMMA InitWants == Init => TypeOK /\ Wants
<1> SUFFICES ASSUME Init PROVE TypeOK /\ Wants
  OBVIOUS
<1>1. TypeOK
  <2>1. view \in [Conn -> [Topic -> Value \cup {NoValue}]]
    BY DEF Init
  <2>2. /\ call \in [Call -> Request \cup {NoCall}]
        /\ runs \in [Topic -> Int]
        /\ lastSent \in [Topic -> Value \cup {NoValue}]
        /\ pass \in [Topic -> Value \cup {NoValue}]
    BY DEF Init
  <2>3. /\ subs \in [Topic -> SUBSET Conn]
        /\ opening \in [Topic -> SUBSET Conn]
        /\ promised \subseteq Conn \X Topic
    BY DEF Init
  <2> QED  BY <2>1, <2>2, <2>3 DEF Init, TypeOK
<1>2. KeptIsWanted /\ RunsIsKept
  BY DEF Init, KeptIsWanted, RunsIsKept
<1>3. ClosedHoldsNothing /\ StoppedIsEmpty
  BY DEF Init, ClosedHoldsNothing, StoppedIsEmpty
<1> QED  BY <1>1, <1>2, <1>3 DEF Wants

(* Types and wants hold in every state.                                    *)
LEMMA WantsAlways == Spec => [](TypeOK /\ Wants)
  BY InitWants, StepKeepsWants, PTL DEF Spec

(* Every state of Topics is one its variables are declared to hold.        *)
THEOREM TopicsTypes == Spec => []TypeOK
  BY WantsAlways, PTL

(* A topic's resource runs exactly while a subscriber or an opening        *)
(* subscription wants it: Topics.subscribe and #idle between them never    *)
(* start it twice, stop it twice or leave it running (topics.ts, #idle).   *)
THEOREM ResourceRunsWhileWanted == Spec => []RunsWhileWanted
<1>1. TypeOK /\ Wants => RunsWhileWanted
  BY DEF Wants, KeptIsWanted, RunsIsKept, RunsWhileWanted
<1> QED  BY <1>1, WantsAlways, PTL

(* A connection that closed, with whatever it had in flight, is in no set  *)
(* of the mechanism (the close listener of Topics.subscribe).              *)
THEOREM ClosedIsForgotten == Spec => []ClosedHoldsNothing
<1>1. TypeOK /\ Wants => ClosedHoldsNothing
  BY DEF Wants
<1> QED  BY <1>1, WantsAlways, PTL

(* Once the stop order has dropped the subscriptions, no resource runs and *)
(* no request in flight starts one (Instance.stop, step 2).                *)
THEOREM StoppedIsQuiet == Spec => []StoppedRunsNothing
<1>1. TypeOK /\ Wants => StoppedRunsNothing
  BY DEF Wants, KeptIsWanted, RunsIsKept, StoppedIsEmpty, StoppedRunsNothing
<1> QED  BY <1>1, WantsAlways, PTL

-----------------------------------------------------------------------------
(* What makes HeldValueReaches inductive: an owner that holds its value    *)
(* owes no reading, its last frame if remembered carried what it holds,    *)
(* and a subscribe about to be resumed carries what it holds too, since no *)
(* event of the loop falls between the call and the join.                  *)
HeldOwesNothing == \A t \in Topic \ Slow : pass[t] = NoValue

LastSentIsHeld == \A t \in Topic \ Slow : lastSent[t] \in {NoValue, cur[t]}

ResumesWithHeld == \A k \in Call : Resuming(k) => call[k].value = cur[call[k].topic]

Held == HeldOwesNothing /\ LastSentIsHeld /\ ResumesWithHeld /\ HeldValueReaches

(* Letting topics go forgets and invents nothing about a held value.       *)
LEMMA IdleHeld ==
  ASSUME TypeOK, Held, NEW G, NEW s, NEW o,
         NEW cs \in [Call -> Request \cup {NoCall}],
         \A k \in Call : cs[k] # NoCall =>
            /\ call[k] # NoCall
            /\ cs[k].topic = call[k].topic
            /\ cs[k].value = call[k].value,
         Idle(G, s, o, cs), cur' = cur
  PROVE  HeldOwesNothing' /\ LastSentIsHeld' /\ ResumesWithHeld'
<1> DEFINE gone == {t \in G \cap kept : s[t] = {} /\ o[t] = {}}
<1>1. /\ lastSent' = [t \in Topic |-> IF t \in gone THEN NoValue ELSE lastSent[t]]
      /\ pass' = [t \in Topic |-> IF t \in gone THEN NoValue ELSE pass[t]]
      /\ call' = [k \in Call |->
                    IF cs[k] = NoCall THEN NoCall
                    ELSE IF cs[k].topic \in gone THEN [cs[k] EXCEPT !.live = FALSE]
                    ELSE cs[k]]
  BY DEF Idle
<1> HIDE DEF gone
<1>2. HeldOwesNothing' /\ LastSentIsHeld'
  BY <1>1 DEF Held, HeldOwesNothing, LastSentIsHeld
<1>3. ASSUME NEW k \in Call, Resuming(k)'
      PROVE  (call[k].value = cur[call[k].topic])'
  <2>1. call'[k] # NoCall /\ call'[k].topic \notin Slow
    BY <1>3 DEF Resuming
  <2>2. cs[k] # NoCall /\ cs[k] \in Request
    BY <1>1, <2>1
  <2>3. call'[k].topic = cs[k].topic /\ call'[k].value = cs[k].value
    BY <1>1, <2>2 DEF Request
  <2>4. Resuming(k)
    BY <2>1, <2>2, <2>3 DEF Resuming
  <2> QED  BY <2>2, <2>3, <2>4 DEF Held, ResumesWithHeld
<1> QED  BY <1>2, <1>3 DEF ResumesWithHeld

(* Neither does letting connections out.                                   *)
LEMMA LetOutHeld ==
  ASSUME TypeOK, Held, NEW Who \in SUBSET Conn, NEW G \in SUBSET Topic,
         LetOut(Who, G), cur' = cur
  PROVE  Held'
<1> DEFINE E == {t \in G : Who \cap (subs[t] \cup opening[t]) # {}}
           s == [t \in Topic |-> IF t \in G THEN subs[t] \ Who ELSE subs[t]]
           o == [t \in Topic |-> IF t \in G THEN opening[t] \ Who ELSE opening[t]]
           cs == [k \in Call |->
                    IF call[k] = NoCall THEN NoCall
                    ELSE IF call[k].conn \in Who /\ call[k].topic \in G
                         THEN [call[k] EXCEPT !.let = TRUE]
                         ELSE call[k]]
<1>1. /\ Idle(E, s, o, cs)
      /\ view' = [c \in Conn |-> [t \in Topic |->
                   IF c \in Who /\ t \in G THEN NoValue ELSE view[c][t]]]
  BY DEF LetOut
<1>2. cs \in [Call -> Request \cup {NoCall}]
  <2>1. ASSUME NEW k \in Call, call[k] # NoCall
        PROVE  [call[k] EXCEPT !.let = TRUE] \in Request
    <3>1. call[k] \in Request
      BY <2>1 DEF TypeOK
    <3> QED  BY <3>1 DEF Request
  <2>2. call \in [Call -> Request \cup {NoCall}]
    BY DEF TypeOK
  <2> QED  BY <2>1, <2>2
<1>3. \A k \in Call : cs[k] # NoCall =>
         /\ call[k] # NoCall
         /\ cs[k].topic = call[k].topic
         /\ cs[k].value = call[k].value
  BY DEF TypeOK, Request
<1>4. subs' = s
  BY <1>1 DEF Idle
<1>5. HeldValueReaches'
  BY <1>1, <1>4 DEF Held, HeldValueReaches, TypeOK
<1> HIDE DEF E, s, o, cs
<1>6. HeldOwesNothing' /\ LastSentIsHeld' /\ ResumesWithHeld'
  BY <1>1, <1>2, <1>3, IdleHeld
<1> QED  BY <1>5, <1>6 DEF Held

(* Every step keeps what is said of held values.                           *)
LEMMA StepKeepsHeld ==
  ASSUME TypeOK, Held, [Next]_vars
  PROVE  Held'
<1> USE TopicsAssumption
<1>1. ASSUME NEW k \in Call, NEW c \in Conn, NEW t \in Topic, Subscribe(k, c, t)
      PROVE  Held'
  <2>1. HeldOwesNothing'
    BY <1>1 DEF Subscribe, TypeOK, Held, HeldOwesNothing
  <2>2. LastSentIsHeld' /\ HeldValueReaches'
    BY <1>1 DEF Subscribe, Held, LastSentIsHeld, HeldValueReaches
  <2>3. ResumesWithHeld'
    BY <1>1 DEF Subscribe, TypeOK, Held, ResumesWithHeld, Resuming
  <2> QED  BY <2>1, <2>2, <2>3 DEF Held
<1>2. ASSUME NEW k \in Call, Read(k)
      PROVE  Held'
  <2>1. \A j \in Call : ~Resuming(j)'
    BY <1>2 DEF Read, NextEvent, Resuming, TypeOK, Request
  <2> QED  BY <1>2, <2>1 DEF Read, Held, HeldOwesNothing, LastSentIsHeld,
                            ResumesWithHeld, HeldValueReaches
<1>3. ASSUME NEW k \in Call, ReadFails(k)
      PROVE  Held'
  <2> DEFINE t == call[k].topic
             o == IF call[k].live THEN [opening EXCEPT ![t] = @ \ {call[k].conn}]
                  ELSE opening
             cs == Failed(k)
  <2>1. Idle({t}, subs, o, cs) /\ UNCHANGED <<cur, view>>
    BY <1>3 DEF ReadFails
  <2>2. /\ cs \in [Call -> Request \cup {NoCall}]
        /\ \A j \in Call : cs[j] # NoCall =>
             /\ call[j] # NoCall
             /\ cs[j].topic = call[j].topic /\ cs[j].value = call[j].value
    BY FailedKeeps
  <2>3. HeldValueReaches'
    BY <2>1 DEF Held, HeldValueReaches, Idle
  <2> HIDE DEF t, o, cs
  <2>4. HeldOwesNothing' /\ LastSentIsHeld' /\ ResumesWithHeld'
    BY <2>1, <2>2, IdleHeld
  <2> QED  BY <2>3, <2>4 DEF Held
<1>4. ASSUME NEW k \in Call, Join(k)
      PROVE  Held'
  <2> DEFINE c == call[k].conn
             t == call[k].topic
             joins == call[k].live /\ c \in opening[t]
             cs == [call EXCEPT ![k] = NoCall]
  <2>1. cur' = cur /\ c \in Conn /\ t \in Topic /\ call[k] # NoCall
    BY <1>4 DEF Join, JoinIn, JoinOut, Joins, TypeOK, Request
  <2>2. /\ cs \in [Call -> Request \cup {NoCall}]
        /\ \A j \in Call : cs[j] # NoCall => cs[j] = call[j]
    BY DEF TypeOK
  <2>3. CASE joins
    <3>1. /\ subs' = [subs EXCEPT ![t] = @ \cup {c}]
          /\ view' = [view EXCEPT ![c][t] = call[k].value]
          /\ call' = cs
          /\ UNCHANGED <<lastSent, pass>>
      BY <1>4, <2>3 DEF Join, JoinIn, JoinOut, Joins
    <3>2. t \notin Slow => call[k].value = cur[t]
      BY <2>1 DEF Held, ResumesWithHeld, Resuming
    <3>3. HeldValueReaches'
      BY <2>1, <3>1, <3>2 DEF Held, HeldValueReaches, TypeOK
    <3>4. HeldOwesNothing' /\ LastSentIsHeld'
      BY <2>1, <3>1 DEF Held, HeldOwesNothing, LastSentIsHeld
    <3>5. ResumesWithHeld'
      BY <2>1, <2>2, <3>1 DEF Held, ResumesWithHeld, Resuming
    <3> QED  BY <3>3, <3>4, <3>5 DEF Held
  <2>4. CASE ~joins
    <3>1. Idle({t}, subs, opening, cs) /\ UNCHANGED view
      BY <1>4, <2>4 DEF Join, JoinIn, JoinOut, Joins
    <3>2. HeldValueReaches'
      BY <2>1, <3>1 DEF Held, HeldValueReaches, Idle
    <3> HIDE DEF t, cs
    <3>3. HeldOwesNothing' /\ LastSentIsHeld' /\ ResumesWithHeld'
      BY <2>1, <2>2, <3>1, IdleHeld
    <3> QED  BY <3>2, <3>3 DEF Held
  <2> QED  BY <2>3, <2>4
<1>5. ASSUME NEW c \in Conn, NEW t \in Topic, Unsubscribe(c, t)
      PROVE  Held'
  <2>1. LetOut({c}, {t}) /\ cur' = cur /\ {c} \in SUBSET Conn /\ {t} \in SUBSET Topic
    BY <1>5 DEF Unsubscribe
  <2> QED  BY <2>1, LetOutHeld
<1>6. ASSUME NEW c \in Conn, Close(c)
      PROVE  Held'
  <2>1. LetOut({c}, Topic) /\ cur' = cur /\ {c} \in SUBSET Conn /\ Topic \in SUBSET Topic
    BY <1>6 DEF Close
  <2> QED  BY <2>1, LetOutHeld
<1>7. ASSUME Stop
      PROVE  Held'
  <2>1. LetOut(open, Topic) /\ cur' = cur /\ open \in SUBSET Conn /\ Topic \in SUBSET Topic
    BY <1>7 DEF Stop, TypeOK
  <2> QED  BY <2>1, LetOutHeld
<1>8. ASSUME NEW t \in Topic, NEW v \in Value, Change(t, v)
      PROVE  Held'
  <2>1. /\ UNCHANGED <<subs, call>>
        /\ cur' = [cur EXCEPT ![t] = v]
        /\ v # cur[t]
        /\ \A k \in Call : ~Resuming(k)
    BY <1>8 DEF Change, NextEvent
  <2>2. ResumesWithHeld'
    BY <2>1 DEF ResumesWithHeld, Resuming
  <2>3. CASE t \in Slow
    <3>1. /\ pass' = IF t \in kept THEN [pass EXCEPT ![t] = v] ELSE pass
          /\ UNCHANGED <<lastSent, view>>
      BY <1>8, <2>3 DEF Change
    <3> QED  BY <2>1, <2>2, <2>3, <3>1 DEF Held, HeldOwesNothing, LastSentIsHeld,
                                       HeldValueReaches, TypeOK
  <2>4. CASE t \notin Slow
    <3>1. Publish(t, v) /\ pass' = pass
      BY <1>8, <2>4 DEF Change
    <3>2. lastSent[t] # v
      BY <2>1, <2>4 DEF Held, LastSentIsHeld
    <3>3. /\ lastSent' = [lastSent EXCEPT ![t] = v]
          /\ view' = [c \in Conn |-> IF c \in subs[t]
                                    THEN [view[c] EXCEPT ![t] = v]
                                    ELSE view[c]]
      BY <3>1, <3>2 DEF Publish
    <3>4. HeldOwesNothing' /\ LastSentIsHeld'
      BY <2>1, <3>1, <3>3 DEF Held, HeldOwesNothing, LastSentIsHeld, TypeOK
    <3>5. HeldValueReaches'
      BY <2>1, <3>3 DEF Held, HeldValueReaches, TypeOK
    <3> QED  BY <2>2, <3>4, <3>5 DEF Held
  <2> QED  BY <2>3, <2>4
<1>9. ASSUME NEW t \in Topic, Restate(t)
      PROVE  Held'
  <2>1. t \in Slow
    BY <1>9 DEF Restate, Held, HeldOwesNothing
  <2>2. /\ UNCHANGED <<subs, call, cur>>
        /\ pass' = [pass EXCEPT ![t] = NoValue]
        /\ lastSent' = [lastSent EXCEPT ![t] = pass[t]]
        /\ view' = IF lastSent[t] = pass[t] THEN view
                   ELSE [c \in Conn |-> IF c \in subs[t]
                                        THEN [view[c] EXCEPT ![t] = pass[t]]
                                        ELSE view[c]]
    BY <1>9 DEF Restate, Publish
  <2>3. HeldOwesNothing' /\ LastSentIsHeld' /\ ResumesWithHeld'
    BY <2>1, <2>2 DEF Held, HeldOwesNothing, LastSentIsHeld, ResumesWithHeld,
                      Resuming, TypeOK
  <2>4. HeldValueReaches'
    BY <2>1, <2>2 DEF Held, HeldValueReaches, TypeOK
  <2> QED  BY <2>3, <2>4 DEF Held
<1>10. CASE UNCHANGED vars
  BY <1>10 DEF vars, Held, HeldOwesNothing, LastSentIsHeld, ResumesWithHeld,
               HeldValueReaches, Resuming
<1> QED  BY <1>1, <1>2, <1>3, <1>4, <1>5, <1>6, <1>7, <1>8, <1>9, <1>10 DEF Next

(* Whoever is subscribed to a topic whose owner holds its value has been   *)
(* told the value the owner holds: the opening snapshot and the            *)
(* suppression of repeated frames (Topics.publish) together lose nothing.  *)
THEOREM HeldValueIsTold == Spec => []HeldValueReaches
<1>1. Init => Held
  BY DEF Init, Held, HeldOwesNothing, LastSentIsHeld, ResumesWithHeld, Resuming,
         HeldValueReaches
<1>2. TypeOK /\ Held /\ [Next]_vars => Held'
  BY StepKeepsHeld
<1>3. Held => HeldValueReaches
  BY DEF Held
<1> QED  BY <1>1, <1>2, <1>3, TopicsTypes, PTL DEF Spec

-----------------------------------------------------------------------------
(* Letting topics go leaves alone the requests of a topic still waited on. *)
LEMMA IdleWait ==
  ASSUME NEW G, NEW s, NEW o \in [Topic -> SUBSET Conn], NEW cs,
         \A t \in Topic : \A c \in o[t] :
           \E k \in Call : /\ cs[k] # NoCall
                           /\ cs[k].conn = c /\ cs[k].topic = t /\ cs[k].live,
         Idle(G, s, o, cs)
  PROVE  WaitHasRequest'
<1> DEFINE gone == {t \in G \cap kept : s[t] = {} /\ o[t] = {}}
<1>1. /\ opening' = o
      /\ call' = [k \in Call |->
                    IF cs[k] = NoCall THEN NoCall
                    ELSE IF cs[k].topic \in gone THEN [cs[k] EXCEPT !.live = FALSE]
                    ELSE cs[k]]
  BY DEF Idle
<1>2. SUFFICES ASSUME NEW t \in Topic, NEW c \in o[t]
               PROVE  \E k \in Call : /\ call'[k] # NoCall
                                      /\ call'[k].conn = c /\ call'[k].topic = t
                                      /\ call'[k].live
  BY <1>1 DEF WaitHasRequest
<1>3. PICK k \in Call : /\ cs[k] # NoCall
                        /\ cs[k].conn = c /\ cs[k].topic = t /\ cs[k].live
  OBVIOUS
<1>4. t \notin gone
  OBVIOUS
<1> HIDE DEF gone
<1>5. call'[k] = cs[k]
  BY <1>1, <1>3, <1>4
<1> QED  BY <1>3, <1>5

(* Letting connections out takes their waits with them.                    *)
LEMMA LetOutWait ==
  ASSUME TypeOK, WaitHasRequest, NEW Who \in SUBSET Conn, NEW G \in SUBSET Topic,
         LetOut(Who, G)
  PROVE  WaitHasRequest'
<1> DEFINE E == {t \in G : Who \cap (subs[t] \cup opening[t]) # {}}
           s == [t \in Topic |-> IF t \in G THEN subs[t] \ Who ELSE subs[t]]
           o == [t \in Topic |-> IF t \in G THEN opening[t] \ Who ELSE opening[t]]
           cs == [k \in Call |->
                    IF call[k] = NoCall THEN NoCall
                    ELSE IF call[k].conn \in Who /\ call[k].topic \in G
                         THEN [call[k] EXCEPT !.let = TRUE]
                         ELSE call[k]]
<1>1. Idle(E, s, o, cs)
  BY DEF LetOut
<1>2. ASSUME NEW t \in Topic, NEW c \in o[t]
      PROVE  \E k \in Call : /\ cs[k] # NoCall
                             /\ cs[k].conn = c /\ cs[k].topic = t /\ cs[k].live
  <2>1. c \in opening[t] /\ ~(c \in Who /\ t \in G)
    BY <1>2
  <2>2. PICK k \in Call : /\ call[k] # NoCall
                          /\ call[k].conn = c /\ call[k].topic = t /\ call[k].live
    BY <2>1 DEF WaitHasRequest
  <2>3. cs[k] = call[k]
    BY <2>1, <2>2
  <2> QED  BY <2>2, <2>3
<1>3. o \in [Topic -> SUBSET Conn]
  BY DEF TypeOK
<1> HIDE DEF E, s, o, cs
<1> QED  BY <1>1, <1>2, <1>3, IdleWait

(* Every step leaves each wait a request.                                  *)
LEMMA StepKeepsWaits ==
  ASSUME TypeOK, WaitHasRequest, [Next]_vars
  PROVE  WaitHasRequest'
<1>1. ASSUME NEW k \in Call, NEW c \in Conn, NEW t \in Topic, Subscribe(k, c, t)
      PROVE  WaitHasRequest'
  <2> DEFINE r == [conn |-> c, topic |-> t, live |-> TRUE, let |-> FALSE,
                   value |-> IF t \in Slow THEN NoValue ELSE cur[t]]
  <2>1. /\ call[k] = NoCall
        /\ call' = [call EXCEPT ![k] = r]
        /\ opening' = [opening EXCEPT ![t] = @ \cup {c}]
    BY <1>1 DEF Subscribe
  <2>2. r.conn = c /\ r.topic = t /\ r.live
    OBVIOUS
  <2>3. r \in Request
    BY DEF Request, TypeOK
  <2>4. r # NoCall
    BY <2>3, TopicsAssumption
  <2> HIDE DEF r
  <2> QED  BY <2>1, <2>2, <2>4 DEF TypeOK, WaitHasRequest
<1>2. ASSUME NEW k \in Call, Read(k)
      PROVE  WaitHasRequest'
  <2>1. /\ call[k] \in Request
        /\ call' = [call EXCEPT ![k].value = cur[call[k].topic]]
        /\ opening' = opening
    BY <1>2 DEF Read, TypeOK
  <2>2. \A j \in Call : call[j] # NoCall =>
          /\ call'[j] # NoCall /\ call'[j].conn = call[j].conn
          /\ call'[j].topic = call[j].topic /\ call'[j].live = call[j].live
    BY <2>1, TopicsAssumption DEF TypeOK, Request
  <2> QED  BY <2>1, <2>2 DEF WaitHasRequest
<1>3. ASSUME NEW k \in Call, ReadFails(k)
      PROVE  WaitHasRequest'
  <2> DEFINE c == call[k].conn
             t == call[k].topic
             o == IF call[k].live THEN [opening EXCEPT ![t] = @ \ {c}] ELSE opening
             cs == Failed(k)
  <2>1. Idle({t}, subs, o, cs)
    BY <1>3 DEF ReadFails
  <2>2. o \in [Topic -> SUBSET Conn]
    BY DEF TypeOK
  <2>3. ASSUME NEW u \in Topic, NEW d \in o[u]
        PROVE  \E j \in Call : /\ cs[j] # NoCall
                               /\ cs[j].conn = d /\ cs[j].topic = u /\ cs[j].live
    <3>1. d \in opening[u] /\ ~(d = c /\ u = t /\ call[k].live)
      BY <2>3 DEF TypeOK
    <3>2. PICK j \in Call : /\ call[j] # NoCall
                            /\ call[j].conn = d /\ call[j].topic = u /\ call[j].live
      BY <3>1 DEF WaitHasRequest
    <3>3. j # k
      BY <3>1, <3>2
    <3> QED  BY <3>2, <3>3, FailedKeeps
  <2> HIDE DEF c, t, o, cs
  <2> QED  BY <2>1, <2>2, <2>3, IdleWait
<1>4. ASSUME NEW k \in Call, Join(k)
      PROVE  WaitHasRequest'
  <2> DEFINE c == call[k].conn
             t == call[k].topic
             joins == call[k].live /\ c \in opening[t]
             cs == [call EXCEPT ![k] = NoCall]
  <2>1. CASE joins
    <3>1. opening' = [opening EXCEPT ![t] = @ \ {c}] /\ call' = cs
      BY <1>4, <2>1 DEF Join, JoinIn, JoinOut, Joins
    <3>2. SUFFICES ASSUME NEW u \in Topic, NEW d \in opening'[u]
                   PROVE  \E j \in Call : /\ call'[j] # NoCall
                                          /\ call'[j].conn = d /\ call'[j].topic = u
                                          /\ call'[j].live
      BY DEF WaitHasRequest
    <3>3. d \in opening[u] /\ ~(d = c /\ u = t)
      BY <3>1 DEF TypeOK
    <3>4. PICK j \in Call : /\ call[j] # NoCall
                            /\ call[j].conn = d /\ call[j].topic = u /\ call[j].live
      BY <3>3 DEF WaitHasRequest
    <3>5. j # k
      BY <3>3, <3>4
    <3> QED  BY <3>1, <3>4, <3>5 DEF TypeOK
  <2>2. CASE ~joins
    <3>1. Idle({t}, subs, opening, cs) /\ opening \in [Topic -> SUBSET Conn]
      BY <1>4, <2>2 DEF Join, JoinIn, JoinOut, Joins, TypeOK
    <3>2. ASSUME NEW u \in Topic, NEW d \in opening[u]
          PROVE  \E j \in Call : /\ cs[j] # NoCall
                                 /\ cs[j].conn = d /\ cs[j].topic = u /\ cs[j].live
      <4>1. PICK j \in Call : /\ call[j] # NoCall
                              /\ call[j].conn = d /\ call[j].topic = u /\ call[j].live
        BY <3>2 DEF WaitHasRequest
      <4>2. j # k
        BY <2>2, <3>2, <4>1
      <4> QED  BY <4>1, <4>2 DEF TypeOK
    <3> HIDE DEF c, t, joins, cs
    <3> QED  BY <3>1, <3>2, IdleWait
  <2> QED  BY <2>1, <2>2
<1>5. ASSUME NEW c \in Conn, NEW t \in Topic, Unsubscribe(c, t)
      PROVE  WaitHasRequest'
  <2>1. LetOut({c}, {t}) /\ {c} \in SUBSET Conn /\ {t} \in SUBSET Topic
    BY <1>5 DEF Unsubscribe
  <2> QED  BY <2>1, LetOutWait
<1>6. ASSUME NEW c \in Conn, Close(c)
      PROVE  WaitHasRequest'
  <2>1. LetOut({c}, Topic) /\ {c} \in SUBSET Conn /\ Topic \in SUBSET Topic
    BY <1>6 DEF Close
  <2> QED  BY <2>1, LetOutWait
<1>7. ASSUME Stop
      PROVE  WaitHasRequest'
  <2>1. LetOut(open, Topic) /\ open \in SUBSET Conn /\ Topic \in SUBSET Topic
    BY <1>7 DEF Stop, TypeOK
  <2> QED  BY <2>1, LetOutWait
<1>8. ASSUME NEW t \in Topic, NEW v \in Value, Change(t, v)
      PROVE  WaitHasRequest'
  BY <1>8 DEF Change, WaitHasRequest
<1>9. ASSUME NEW t \in Topic, Restate(t)
      PROVE  WaitHasRequest'
  BY <1>9 DEF Restate, WaitHasRequest
<1>10. CASE UNCHANGED vars
  BY <1>10 DEF vars, WaitHasRequest
<1> QED  BY <1>1, <1>2, <1>3, <1>4, <1>5, <1>6, <1>7, <1>8, <1>9, <1>10 DEF Next

(* A connection still waiting to be joined has a live request that will    *)
(* join it or take it out; no order of leaving and coming back strands     *)
(* one, and with it the resource it keeps (Topics.subscribe, #idle).       *)
THEOREM WaitIsServed == Spec => []WaitHasRequest
<1>1. Init => WaitHasRequest
  BY DEF Init, WaitHasRequest
<1>2. TypeOK /\ WaitHasRequest /\ [Next]_vars => WaitHasRequest'
  BY StepKeepsWaits
<1> QED  BY <1>1, <1>2, TopicsTypes, PTL DEF Spec

-----------------------------------------------------------------------------
(* The connection implements a wire of lines, for any lines, kinds and     *)
(* sizes and however short each write of the socket falls; and nothing is  *)
(* said to a client before it was greeted.                                 *)
Frame == [to : Line, is : {"ok", "error", "later"}]
Entry == [f : Frame, left : Nat]

(* The parts of the queues' types the wire depends on, and that a dropped  *)
(* queue stays empty (WriteQueue.abandon, Conn.send).                      *)
Queues ==
  /\ up \in BOOLEAN
  /\ line \in Line \cup {NoLine}
  /\ pending \in Seq(Entry) /\ deferred \in Seq(Frame)
  /\ ~up => pending = <<>>

(* What the abstraction calls owed: the frame of each entry.               *)
Owes(q) == [i \in 1..Len(q) |-> q[i].f]

Entries(s) == [i \in 1..Len(s) |-> [f |-> s[i], left |-> FRAME]]

-----------------------------------------------------------------------------
(* What is put behind a sequence makes it a strict prefix.                 *)
LEMMA BehindIsLonger ==
  ASSUME NEW S, NEW s \in Seq(S), NEW u \in Seq(S), u # <<>>
  PROVE  Wire!IsStrictPrefix(s, s \o u)
<1> DEFINE t == s \o u
<1>1. t \in Seq(S) /\ Len(t) = Len(s) + Len(u) /\ Len(s) \in Nat /\ Len(u) \in Nat /\ Len(u) > 0
  BY ConcatProperties, EmptySeq, LenProperties
<1>2. \A i \in 1..Len(s) : t[i] = s[i]
  BY ConcatProperties
<1>3. SubSeq(s, 1, Len(s)) = SubSeq(t, 1, Len(s))
  BY <1>1, <1>2
<1>4. s # t
  BY <1>1
<1> HIDE DEF t
<1>5. Wire!IsStrictPrefix(s, t)
  BY <1>1, <1>3, <1>4 DEF Wire!IsStrictPrefix, Wire!IsPrefix
<1> QED  BY <1>5 DEF t

LEMMA OwesType ==
  ASSUME NEW q \in Seq(Entry)
  PROVE  Owes(q) \in Seq(Frame) /\ Len(Owes(q)) = Len(q)
<1>1. Len(q) \in Nat /\ \A i \in 1..Len(q) : q[i] \in Entry
  BY ElementOfSeq, LenProperties
<1>2. \A i \in 1..Len(q) : q[i].f \in Frame
  BY <1>1 DEF Entry
<1> QED  BY <1>1, <1>2, IsASeq DEF Owes

LEMMA NothingOwed == Owes(<<>>) = <<>>
BY DEF Owes

LEMMA EntriesType ==
  ASSUME FRAME \in Nat, NEW s \in Seq(Frame)
  PROVE  /\ Entries(s) \in Seq(Entry) /\ Len(Entries(s)) = Len(s)
         /\ Owes(Entries(s)) = s
<1>1. Entries(s) \in Seq(Entry) /\ Len(Entries(s)) = Len(s)
  BY DEF Entries, Entry
<1>2. \A i \in 1..Len(s) : Entries(s)[i].f = s[i]
  BY DEF Entries
<1>3. Owes(Entries(s)) = [i \in 1..Len(s) |-> s[i]]
  BY <1>1, <1>2 DEF Owes
<1> QED  BY <1>1, <1>3

LEMMA OwesBehind ==
  ASSUME NEW q \in Seq(Entry), NEW r \in Seq(Entry)
  PROVE  Owes(q \o r) = Owes(q) \o Owes(r)
<1>1. q \o r \in Seq(Entry) /\ Len(q \o r) = Len(q) + Len(r)
  BY ConcatProperties
<1>2. \A i \in 1..Len(q \o r) : (q \o r)[i] = IF i <= Len(q) THEN q[i] ELSE r[i - Len(q)]
  BY ConcatProperties
<1> QED  BY <1>1, <1>2 DEF Owes

(* Frames handed over while the socket is there go behind the others;      *)
(* afterwards nothing is owed (Conn.send).                                 *)
LEMMA SendHandsOver ==
  ASSUME FRAME \in Nat, Queues, NEW s \in Seq(Frame), s # <<>>, C!Send(s), UNCHANGED up
  PROVE  /\ pending' \in Seq(Entry) /\ (~up => pending' = <<>>)
         /\ up => Wire!IsStrictPrefix(Owes(pending), Owes(pending'))
<1>1. CASE up
  <2>1. pending' = pending \o Entries(s)
    BY <1>1 DEF C!Send, Entries
  <2>2. /\ pending \in Seq(Entry) /\ Entries(s) \in Seq(Entry)
        /\ Owes(pending) \in Seq(Frame)
    BY EntriesType, OwesType DEF Queues
  <2>3. Owes(pending') = Owes(pending) \o s
    <3>1. Owes(pending \o Entries(s)) = Owes(pending) \o Owes(Entries(s))
      BY <2>2, OwesBehind
    <3>2. Owes(Entries(s)) = s
      BY EntriesType
    <3> QED  BY <2>1, <3>1, <3>2
  <2>4. pending' \in Seq(Entry)
    BY <2>1, <2>2
  <2>5. Wire!IsStrictPrefix(Owes(pending), Owes(pending) \o s)
    BY <2>2, BehindIsLonger
  <2> QED  BY <1>1, <2>3, <2>4, <2>5
<1>2. CASE ~up
  BY <1>2 DEF C!Send
<1> QED  BY <1>1, <1>2 DEF Queues

-----------------------------------------------------------------------------
(* What a step does at the wire: frames handed over, one arrived, the      *)
(* connection broken, or nothing.                                          *)
WireStep ==
  \/ up /\ Wire!IsStrictPrefix(Owes(pending), Owes(pending')) /\ UNCHANGED <<up, taken>>
  \/ /\ Owes(pending) # <<>>
     /\ taken' = Append(taken, Head(Owes(pending)))
     /\ Owes(pending') = Tail(Owes(pending))
     /\ UNCHANGED up
  \/ up /\ up' = FALSE /\ Owes(pending') = <<>> /\ UNCHANGED taken
  \/ UNCHANGED <<up, taken>> /\ Owes(pending') = Owes(pending)

LEMMA AnswerStep ==
  ASSUME FRAME \in Nat, Queues, NEW s \in Seq(Frame), s # <<>>, C!Send(s),
         deferred' \in Seq(Frame), line' \in Line \cup {NoLine}, UNCHANGED <<up, taken>>
  PROVE  Queues' /\ WireStep
<1>1. /\ pending' \in Seq(Entry) /\ (~up => pending' = <<>>)
      /\ up => Wire!IsStrictPrefix(Owes(pending), Owes(pending'))
  BY SendHandsOver
<1>2. ~up => pending' = pending
  BY <1>1 DEF Queues
<1> QED  BY <1>1, <1>2 DEF Queues, WireStep

(* A short write leaves the frame owed; the last unit of it is its arrival *)
(* (WriteQueue.drain).                                                     *)
LEMMA DrainMoves ==
  ASSUME Queues, C!Drains
  PROVE  /\ pending' \in Seq(Entry)
         /\ \/ UNCHANGED taken /\ Owes(pending') = Owes(pending)
            \/ /\ Owes(pending) # <<>>
               /\ taken' = Append(taken, Head(Owes(pending)))
               /\ Owes(pending') = Tail(Owes(pending))
<1>1. /\ pending \in Seq(Entry) /\ pending # <<>> /\ Len(pending) \in Nat \ {0}
      /\ pending[1] \in Entry /\ Head(pending) = pending[1]
  BY DEF C!Drains, Queues
<1>2. CASE Head(pending).left > 1
  <2> DEFINE e == [pending[1] EXCEPT !.left = @ - 1]
  <2>1. e \in Entry /\ e.f = pending[1].f
    BY <1>1, <1>2 DEF Entry
  <2>2. pending' = [pending EXCEPT ![1] = e]
    BY <1>1, <1>2 DEF C!Drains
  <2> HIDE DEF e
  <2>3. /\ pending' \in Seq(Entry) /\ Len(pending') = Len(pending)
        /\ \A i \in 1..Len(pending) : pending'[i].f = pending[i].f
    BY <1>1, <2>1, <2>2, ExceptSeq
  <2>4. Owes(pending') = Owes(pending)
    BY <2>3 DEF Owes
  <2> QED  BY <1>2, <2>3, <2>4 DEF C!Drains
<1>3. CASE ~(Head(pending).left > 1)
  <2>1. /\ pending' = Tail(pending) /\ taken' = Append(taken, Head(pending).f)
        /\ UNCHANGED <<up, line, deferred>> /\ up
    BY <1>3 DEF C!Drains
  <2>2. /\ pending' \in Seq(Entry) /\ Len(pending') = Len(pending) - 1
        /\ \A i \in 1..Len(pending') : pending'[i] = pending[i + 1]
    BY <1>1, <2>1, HeadTailProperties
  <2>3. /\ Owes(pending) \in Seq(Frame) /\ Len(Owes(pending)) = Len(pending)
        /\ Owes(pending) # <<>> /\ Head(Owes(pending)) = Head(pending).f
    BY <1>1, OwesType DEF Owes
  <2>4. /\ Owes(pending') \in Seq(Frame) /\ Len(Owes(pending')) = Len(pending')
        /\ Tail(Owes(pending)) \in Seq(Frame)
        /\ Len(Tail(Owes(pending))) = Len(pending')
    BY <1>1, <2>2, <2>3, OwesType, HeadTailProperties
  <2>5. \A i \in 1..Len(pending') : Owes(pending')[i] = Tail(Owes(pending))[i]
    BY <1>1, <2>2, <2>3, HeadTailProperties DEF Owes
  <2>6. Owes(pending') = Tail(Owes(pending))
    BY <2>4, <2>5, SeqEqual
  <2> QED  BY <2>1, <2>2, <2>3, <2>6
<1> QED  BY <1>2, <1>3

LEMMA DrainStep == ASSUME Queues, C!Drains PROVE Queues' /\ WireStep
<1>1. up /\ UNCHANGED <<up, line, deferred>>
  BY DEF C!Drains
<1> QED  BY <1>1, DrainMoves DEF Queues, WireStep

LEMMA NewlineStep ==
  ASSUME FRAME \in Nat, Queues, NoLine \notin Line, C!Newline
  PROVE  Queues' /\ WireStep
<1>1. /\ line \in Line /\ line' \in Line \cup {NoLine}
      /\ deferred' \in Seq(Frame) /\ UNCHANGED <<up, taken>>
  BY DEF C!Newline, Queues
<1>2. CASE discarding \/ Kind[line] = "garbled"
  <2>1. C!Send(<<C!Error(line)>>) /\ <<C!Error(line)>> \in Seq(Frame) /\ <<C!Error(line)>> # <<>>
    BY <1>1, <1>2 DEF C!Newline, C!Error, Frame
  <2> QED  BY <1>1, <2>1, AnswerStep
<1>3. CASE ~(discarding \/ Kind[line] = "garbled")
  BY <1>1, <1>3 DEF C!Newline, Queues, WireStep
<1> QED  BY <1>2, <1>3

LEMMA RepliesStep ==
  ASSUME FRAME \in Nat, Queues, NEW l \in Line, C!Replies(l)
  PROVE  Queues' /\ WireStep
<1> DEFINE a == IF task[l] = "ok" THEN C!Ok(l) ELSE C!Error(l)
<1>1. a \in Frame /\ deferred \in Seq(Frame)
  BY DEF C!Ok, C!Error, Frame, Queues
<1>2. <<a>> \o deferred \in Seq(Frame) /\ <<a>> \o deferred # <<>>
  BY <1>1
<1>3. /\ C!Send(<<a>> \o deferred) /\ deferred' \in Seq(Frame)
      /\ line' \in Line \cup {NoLine} /\ UNCHANGED <<up, taken>>
  BY DEF C!Replies, Queues
<1> HIDE DEF a
<1> QED  BY <1>2, <1>3, AnswerStep

LEMMA EveryStep ==
  FRAME \in Nat /\ NoLine \notin Line /\ Queues /\ [C!Next]_(C!vars) => Queues' /\ WireStep
<1> SUFFICES ASSUME FRAME \in Nat, NoLine \notin Line, Queues, [C!Next]_(C!vars)
             PROVE  Queues' /\ WireStep
  OBVIOUS
<1>1. ASSUME NEW l \in Line, C!Unit(l) PROVE Queues' /\ WireStep
  BY <1>1 DEF C!Unit, Queues, WireStep
<1>2. CASE C!Newline
  BY <1>2, NewlineStep
<1>3. ASSUME NEW l \in Line, C!Returns(l) PROVE Queues' /\ WireStep
  <2>1. C!Later(l) \in Frame
    BY DEF C!Later, Frame
  <2> QED  BY <1>3, <2>1 DEF C!Returns, Queues, WireStep
<1>4. ASSUME NEW l \in Line, C!Throws(l) PROVE Queues' /\ WireStep
  BY <1>4 DEF C!Throws, Queues, WireStep
<1>5. ASSUME NEW l \in Line, C!Replies(l) PROVE Queues' /\ WireStep
  BY <1>5, RepliesStep
<1>6. CASE C!Drains
  BY <1>6, DrainStep
<1>7. CASE C!Closed
  <2>1. up /\ up' = FALSE /\ pending' = <<>> /\ UNCHANGED <<line, deferred, taken>>
    BY <1>7 DEF C!Closed
  <2>2. Owes(pending') = <<>>
    BY <2>1, NothingOwed
  <2>3. WireStep
    BY <2>1, <2>2 DEF WireStep
  <2>4. Queues'
    BY <2>1, EmptySeq DEF Queues
  <2> QED  BY <2>3, <2>4
<1>8. CASE C!ChunkEnds \/ UNCHANGED C!vars
  BY <1>8 DEF C!ChunkEnds, C!vars, Queues, WireStep
<1> QED  BY <1>1, <1>2, <1>3, <1>4, <1>5, <1>6, <1>7, <1>8 DEF C!Next

(* A connection implements the wire it promises: however short the writes, *)
(* whatever order the answers come in and whenever the socket goes, frames *)
(* arrive whole, once each and in the order they were handed over (Conn,   *)
(* WriteQueue).                                                            *)
THEOREM ConnectionIsWire ==
  FRAME \in Nat /\ NoLine \notin Line => (C!Spec => C!WireIsLines)
<1> SUFFICES ASSUME FRAME \in Nat, NoLine \notin Line PROVE C!Spec => C!WireIsLines
  OBVIOUS
<1>1. C!Init => Queues /\ C!Wire!Init
  BY DEF C!Init, Queues, C!Wire!Init
<1>2. Queues /\ [C!Next]_(C!vars) => Queues'
  BY EveryStep
<1>3. Queues /\ [C!Next]_(C!vars) => [C!Wire!Next]_(C!Wire!vars)
  <2> SUFFICES ASSUME Queues, [C!Next]_(C!vars) PROVE C!Wire!Next \/ UNCHANGED C!Wire!vars
    BY DEF C!Wire!vars
  <2> DEFINE o == [i \in 1..Len(pending) |-> pending[i].f]
  <2>1. WireStep
    BY EveryStep
  <2>2. Owes(pending) = o /\ Owes(pending') = o'
    BY DEF Owes
  <2>3. Wire!IsStrictPrefix(o, o') => C!Wire!IsStrictPrefix(o, o')
    BY DEF Wire!IsStrictPrefix, Wire!IsPrefix, C!Wire!IsStrictPrefix, C!Wire!IsPrefix
  <2>4. \/ up /\ Wire!IsStrictPrefix(o, o') /\ UNCHANGED <<up, taken>>
        \/ o # <<>> /\ taken' = Append(taken, Head(o)) /\ o' = Tail(o) /\ UNCHANGED up
        \/ up /\ up' = FALSE /\ o' = <<>> /\ UNCHANGED taken
        \/ UNCHANGED <<up, taken>> /\ o' = o
    BY <2>1, <2>2 DEF WireStep
  <2> QED
    BY <2>3, <2>4 DEF C!Wire!Next, C!Wire!HandOver, C!Wire!Arrive, C!Wire!Break, C!Wire!vars
<1> QED  BY <1>1, <1>2, <1>3, PTL DEF C!Spec, C!WireIsLines, C!Wire!Spec

-----------------------------------------------------------------------------
(* Greetings.  Of a sequence of frames: it greets the client, and it does  *)
(* so before it says anything that needs a greeting.                       *)
Welcomes(f) == f.is = "ok" /\ Kind[f.to] = "hello"
NeedsWelcome(f) == f.is = "ok" /\ C!NeedsHello(f.to)

Welcomed(w) == \E m \in 1..Len(w) : Welcomes(w[m])
InOrder(w) == \A n \in 1..Len(w) : NeedsWelcome(w[n]) => \E m \in 1..(n - 1) : Welcomes(w[m])

LEMMA OrderBehind ==
  ASSUME NEW w \in Seq(Frame), NEW s \in Seq(Frame), InOrder(w),
         \A i \in 1..Len(s) : NeedsWelcome(s[i]) => Welcomed(w)
  PROVE  InOrder(w \o s)
<1> DEFINE t == w \o s
<1>1. /\ t \in Seq(Frame) /\ Len(t) = Len(w) + Len(s) /\ Len(w) \in Nat /\ Len(s) \in Nat
      /\ \A i \in 1..Len(w) : t[i] = w[i]
      /\ \A i \in 1..Len(s) : t[Len(w) + i] = s[i]
  BY ConcatProperties, LenProperties
<1> HIDE DEF t
<1>2. ASSUME NEW n \in 1..Len(t), NeedsWelcome(t[n])
      PROVE  \E m \in 1..(n - 1) : Welcomes(t[m])
  <2>1. CASE n <= Len(w)
    <3>1. n \in 1..Len(w) /\ t[n] = w[n]
      BY <1>1, <2>1
    <3>2. PICK m \in 1..(n - 1) : Welcomes(w[m])
      BY <1>2, <3>1 DEF InOrder
    <3> QED  BY <1>1, <3>1, <3>2
  <2>2. CASE n > Len(w)
    <3>1. n - Len(w) \in 1..Len(s) /\ t[n] = s[n - Len(w)]
      BY <1>1, <2>2
    <3>2. PICK m \in 1..Len(w) : Welcomes(w[m])
      BY <1>2, <3>1 DEF Welcomed
    <3> QED  BY <1>1, <2>2, <3>2
  <2> QED  BY <1>1, <2>1, <2>2
<1> QED  BY <1>2 DEF InOrder, t

LEMMA OrderFront ==
  ASSUME NEW w \in Seq(Frame), NEW s \in Seq(Frame), InOrder(w \o s)
  PROVE  InOrder(w)
<1> DEFINE t == w \o s
<1>1. /\ Len(t) = Len(w) + Len(s) /\ Len(w) \in Nat /\ Len(s) \in Nat
      /\ \A i \in 1..Len(w) : t[i] = w[i]
  BY ConcatProperties, LenProperties
<1>2. InOrder(t)
  OBVIOUS
<1> HIDE DEF t
<1> QED  BY <1>1, <1>2 DEF InOrder

LEMMA WelcomeBehind ==
  ASSUME NEW w \in Seq(Frame), NEW s \in Seq(Frame), Welcomed(w) \/ Welcomed(s)
  PROVE  Welcomed(w \o s)
<1> DEFINE t == w \o s
<1>1. /\ Len(t) = Len(w) + Len(s) /\ Len(w) \in Nat /\ Len(s) \in Nat
      /\ \A i \in 1..Len(w) : t[i] = w[i]
      /\ \A i \in 1..Len(s) : t[Len(w) + i] = s[i]
  BY ConcatProperties, LenProperties
<1> HIDE DEF t
<1>2. CASE Welcomed(w)
  BY <1>1, <1>2 DEF Welcomed, t
<1>3. CASE Welcomed(s)
  <2>1. PICK m \in 1..Len(s) : Welcomes(s[m])
    BY <1>3 DEF Welcomed
  <2>2. Len(w) + m \in 1..Len(t) /\ Welcomes(t[Len(w) + m])
    BY <1>1, <2>1
  <2>3. Welcomed(t)
    BY <2>2 DEF Welcomed
  <2> QED  BY <2>3 DEF t
<1> QED  BY <1>2, <1>3

(* The inductive invariant: what a request that needs a greeting was let   *)
(* through for is a connection that settled, and one that settled has its  *)
(* greeting written, unless the socket has gone and nothing is written any *)
(* more.  Frames that wait for an answer are no answers.                   *)
Says == taken \o Owes(pending)

Settled ==
  /\ Queues /\ taken \in Seq(Frame)
  /\ task \in [Line -> {"none", "runs", "ok", "error", "over"}]
  /\ identity \in BOOLEAN
  /\ \A l \in Line : task[l] \in {"runs", "ok"} /\ C!NeedsHello(l) => identity
  /\ \A i \in 1..Len(deferred) : deferred[i].is = "later"
  /\ up /\ identity => Welcomed(Says)
  /\ InOrder(Says)

(* Frames behind the others, none of which says too much.                  *)
LEMMA SayingMore ==
  ASSUME FRAME \in Nat, Settled, NEW s \in Seq(Frame), s # <<>>, C!Send(s), UNCHANGED <<up, taken>>,
         \A i \in 1..Len(s) : NeedsWelcome(s[i]) => identity
  PROVE  /\ InOrder(Says')
         /\ up => Says' = Says \o s
<1>1. /\ taken \in Seq(Frame) /\ Owes(pending) \in Seq(Frame) /\ pending \in Seq(Entry)
      /\ Says \in Seq(Frame)
  BY OwesType DEF Settled, Queues, Says
<1>2. CASE up
  <2>1. pending' = pending \o Entries(s)
    BY <1>2 DEF C!Send, Entries
  <2>2. Entries(s) \in Seq(Entry) /\ Owes(Entries(s)) = s
    BY EntriesType
  <2>3. Owes(pending') = Owes(pending) \o s
    BY <1>1, <2>1, <2>2, OwesBehind
  <2>4. Says' = taken \o (Owes(pending) \o s)
    BY <2>3 DEF Says
  <2>5. Says' = Says \o s
    BY <1>1, <2>4, ConcatAssociative DEF Says
  <2>6. InOrder(Says \o s)
    BY <1>1, <1>2, OrderBehind DEF Settled
  <2> QED  BY <2>5, <2>6
<1>3. CASE ~up
  <2>1. pending = <<>> /\ pending' = <<>>
    BY <1>3 DEF Settled, Queues, C!Send
  <2>2. Says' = Says
    BY <2>1 DEF Says
  <2> QED  BY <1>3, <2>2 DEF Settled
<1> QED  BY <1>2, <1>3 DEF Settled, Queues

LEMMA RepliesSettle ==
  ASSUME FRAME \in Nat, Settled, NEW l \in Line, C!Replies(l), Queues'
  PROVE  Settled'
<1> DEFINE a == IF task[l] = "ok" THEN C!Ok(l) ELSE C!Error(l)
           s == <<a>> \o deferred
<1>1. /\ task[l] \in {"ok", "error"} /\ task' = [task EXCEPT ![l] = "over"]
      /\ identity' = (identity \/ (task[l] = "ok" /\ Kind[l] = "hello"))
      /\ C!Send(s) /\ deferred' = <<>> /\ UNCHANGED <<up, taken>>
  BY DEF C!Replies
<1>2. a \in Frame /\ deferred \in Seq(Frame) /\ a.to = l /\ (a.is = "ok" <=> task[l] = "ok")
  BY <1>1 DEF C!Ok, C!Error, Frame, Settled, Queues
<1> HIDE DEF a
<1>3. /\ s \in Seq(Frame) /\ s # <<>> /\ Len(s) = Len(deferred) + 1 /\ s[1] = a
      /\ \A i \in 2..Len(s) : s[i] = deferred[i - 1] /\ i - 1 \in 1..Len(deferred)
  BY <1>2
<1> HIDE DEF s
<1>4. NeedsWelcome(a) => identity
  BY <1>1, <1>2 DEF Settled, NeedsWelcome
<1>5. \A i \in 1..Len(s) : NeedsWelcome(s[i]) => identity
  <2> SUFFICES ASSUME NEW i \in 1..Len(s), NeedsWelcome(s[i]) PROVE identity
    OBVIOUS
  <2>1. CASE i = 1
    BY <1>3, <1>4, <2>1
  <2>2. CASE i # 1
    <3>1. i \in 2..Len(s)
      BY <2>2
    <3> QED  BY <1>3, <3>1 DEF Settled, NeedsWelcome
  <2> QED  BY <2>1, <2>2
<1>6. InOrder(Says') /\ (up => Says' = Says \o s)
  BY <1>1, <1>3, <1>5, SayingMore
<1>7. up' /\ identity' => Welcomed(Says')
  <2> SUFFICES ASSUME up, identity' PROVE Welcomed(Says \o s)
    BY <1>1, <1>6
  <2>1. Says \in Seq(Frame)
    BY OwesType DEF Says, Settled, Queues
  <2>2. CASE identity
    BY <1>3, <2>1, <2>2, WelcomeBehind DEF Settled
  <2>3. CASE task[l] = "ok" /\ Kind[l] = "hello"
    <3>1. Welcomes(s[1]) /\ 1 \in 1..Len(s)
      BY <1>2, <1>3, <2>3 DEF Welcomes
    <3>2. Welcomed(s)
      BY <3>1 DEF Welcomed
    <3> QED  BY <1>3, <2>1, <3>2, WelcomeBehind
  <2> QED  BY <1>1, <2>2, <2>3
<1>8. identity' \in BOOLEAN /\ (identity => identity')
  BY <1>1 DEF Settled
<1>9. task' \in [Line -> {"none", "runs", "ok", "error", "over"}]
      /\ \A k \in Line : task'[k] \in {"runs", "ok"} /\ C!NeedsHello(k) => identity'
  BY <1>1, <1>8 DEF Settled
<1>10. \A i \in 1..Len(deferred') : deferred'[i].is = "later"
  BY <1>1
<1> QED  BY <1>1, <1>6, <1>7, <1>8, <1>9, <1>10 DEF Settled

LEMMA NewlineSettles ==
  ASSUME FRAME \in Nat, NoLine \notin Line, Settled, C!Newline, Queues'
  PROVE  Settled'
<1>1. line \in Line /\ UNCHANGED <<identity, deferred, taken, up>>
  BY DEF C!Newline, Settled, Queues
<1>2. CASE discarding \/ Kind[line] = "garbled"
  <2> DEFINE s == <<C!Error(line)>>
  <2>1. C!Send(s) /\ task' = [task EXCEPT ![line] = "over"]
    BY <1>2 DEF C!Newline
  <2>2. s \in Seq(Frame) /\ s # <<>> /\ Len(s) = 1 /\ s[1].is = "error"
    BY <1>1 DEF C!Error, Frame
  <2> HIDE DEF s
  <2>3. InOrder(Says') /\ (up => Says' = Says \o s)
    BY <1>1, <2>1, <2>2, SayingMore DEF NeedsWelcome
  <2>4. up' /\ identity' => Welcomed(Says')
    <3>1. Says \in Seq(Frame)
      BY OwesType DEF Says, Settled, Queues
    <3> QED  BY <1>1, <2>2, <2>3, <3>1, WelcomeBehind DEF Settled
  <2>5. task' \in [Line -> {"none", "runs", "ok", "error", "over"}]
        /\ \A k \in Line : task'[k] \in {"runs", "ok"} /\ C!NeedsHello(k) => identity
    BY <2>1 DEF Settled
  <2> QED  BY <1>1, <2>3, <2>4, <2>5 DEF Settled
<1>3. CASE ~(discarding \/ Kind[line] = "garbled")
  <2>1. /\ task' = [task EXCEPT ![line] = IF C!Allowed(line) THEN "runs" ELSE "error"]
        /\ UNCHANGED pending
    BY <1>3 DEF C!Newline
  <2>2. Says' = Says
    BY <1>1, <2>1 DEF Says
  <2>3. task' \in [Line -> {"none", "runs", "ok", "error", "over"}]
    BY <2>1 DEF Settled
  <2>4. \A k \in Line : task'[k] \in {"runs", "ok"} /\ C!NeedsHello(k) => identity
    BY <1>1, <2>1 DEF Settled, C!Allowed
  <2> QED  BY <1>1, <2>2, <2>3, <2>4 DEF Settled
<1> QED  BY <1>2, <1>3

(* What has arrived is the beginning of what was said.                     *)
LEMMA DrainSettles == ASSUME Settled, C!Drains, Queues' PROVE Settled'
<1>1. UNCHANGED <<identity, deferred, up, task>>
  BY DEF C!Drains
<1>2. /\ pending \in Seq(Entry) /\ taken \in Seq(Frame) /\ pending' \in Seq(Entry)
      /\ Owes(pending) \in Seq(Frame) /\ Owes(pending') \in Seq(Frame)
  BY OwesType DEF Settled, Queues
<1>4. CASE UNCHANGED taken /\ Owes(pending') = Owes(pending)
  <2>1. Says' = Says
    BY <1>4 DEF Says
  <2> QED  BY <1>1, <1>4, <2>1 DEF Settled
<1>5. CASE /\ Owes(pending) # <<>>
           /\ taken' = Append(taken, Head(Owes(pending)))
           /\ Owes(pending') = Tail(Owes(pending))
  <2> DEFINE o == Owes(pending)
  <2> HIDE DEF o
  <2>1. o \in Seq(Frame) /\ o # <<>> /\ taken' = Append(taken, Head(o)) /\ Owes(pending') = Tail(o)
    BY <1>2, <1>5 DEF o
  <2>2. Append(taken, Head(o)) \o Tail(o) = taken \o o
    BY <1>2, <2>1
  <2>3. Says' = Says /\ taken' \in Seq(Frame)
    BY <1>2, <2>1, <2>2 DEF Says, o
  <2> QED  BY <1>1, <2>3 DEF Settled
<1> QED  BY <1>4, <1>5, DrainMoves DEF Settled

LEMMA SettledStep ==
  FRAME \in Nat /\ NoLine \notin Line /\ Settled /\ [C!Next]_(C!vars) => Settled'
<1> SUFFICES ASSUME FRAME \in Nat, NoLine \notin Line, Settled, [C!Next]_(C!vars)
             PROVE  Settled'
  OBVIOUS
<1>q. Queues'
  BY EveryStep DEF Settled
<1>1. ASSUME NEW l \in Line, C!Unit(l) PROVE Settled'
  BY <1>1, <1>q DEF C!Unit, Settled, Says
<1>2. CASE C!Newline
  BY <1>2, <1>q, NewlineSettles
<1>3. ASSUME NEW l \in Line, C!Returns(l) PROVE Settled'
  <2>1. /\ task' = [task EXCEPT ![l] = "ok"] /\ task[l] = "runs"
        /\ UNCHANGED <<identity, pending, taken, up>>
    BY <1>3 DEF C!Returns
  <2>2. \A i \in 1..Len(deferred') : deferred'[i].is = "later"
    BY <1>3 DEF C!Returns, Settled, Queues, C!Later
  <2>3. Says' = Says
    BY <2>1 DEF Says
  <2> QED  BY <1>q, <2>1, <2>2, <2>3 DEF Settled
<1>4. ASSUME NEW l \in Line, C!Throws(l) PROVE Settled'
  BY <1>4, <1>q DEF C!Throws, Settled, Says
<1>5. ASSUME NEW l \in Line, C!Replies(l) PROVE Settled'
  BY <1>5, <1>q, RepliesSettle
<1>6. CASE C!Drains
  BY <1>6, <1>q, DrainSettles
<1>7. CASE C!Closed
  <2>1. up' = FALSE /\ pending' = <<>> /\ UNCHANGED <<identity, task, deferred, taken>>
    BY <1>7 DEF C!Closed
  <2>2. taken \in Seq(Frame) /\ Owes(pending) \in Seq(Frame)
    BY OwesType DEF Settled, Queues
  <2>3. InOrder(taken)
    BY <2>2, OrderFront DEF Settled, Says
  <2>4. Says' = taken
    BY <2>1, <2>2, NothingOwed DEF Says
  <2> QED  BY <1>q, <2>1, <2>3, <2>4 DEF Settled
<1>8. CASE C!ChunkEnds \/ UNCHANGED C!vars
  BY <1>8, <1>q DEF C!ChunkEnds, C!vars, Settled, Says
<1> QED  BY <1>1, <1>2, <1>3, <1>4, <1>5, <1>6, <1>7, <1>8 DEF C!Next

LEMMA SettledAtFirst == C!Init => Settled
<1> SUFFICES ASSUME C!Init PROVE Settled
  OBVIOUS
<1>1. /\ Queues /\ taken \in Seq(Frame) /\ pending = <<>> /\ taken = <<>> /\ deferred = <<>>
      /\ identity = FALSE
  BY DEF C!Init, Queues
<1>2. Says = <<>>
  BY <1>1, NothingOwed DEF Says
<1>3. InOrder(Says)
  BY <1>2 DEF InOrder
<1>4. task = [l \in Line |-> "none"]
  BY DEF C!Init
<1>5. \A l \in Line : task[l] \in {"runs", "ok"} /\ C!NeedsHello(l) => identity
  BY <1>4
<1>6. \A i \in 1..Len(deferred) : deferred[i].is = "later"
  BY <1>1
<1>7. task \in [Line -> {"none", "runs", "ok", "error", "over"}]
  BY <1>4
<1>8. identity \in BOOLEAN /\ ~identity
  BY <1>1
<1> QED  BY <1>1, <1>3, <1>5, <1>6, <1>7, <1>8 DEF Settled

LEMMA SettledIsGreeted == Settled => C!GreetedFirst
BY DEF Settled, Says, Owes, InOrder, C!GreetedFirst, C!Written, NeedsWelcome, Welcomes

(* A client is told nothing that needs a greeting before its greeting was  *)
(* answered, whatever lines it writes before the answer is out and in      *)
(* whatever order the answers come (settleIfHello, dispatch).              *)
THEOREM NothingBeforeTheGreeting ==
  FRAME \in Nat /\ NoLine \notin Line => (C!Spec => []C!GreetedFirst)
<1> SUFFICES ASSUME FRAME \in Nat, NoLine \notin Line PROVE C!Spec => []C!GreetedFirst
  OBVIOUS
<1>1. Settled /\ [C!Next]_(C!vars) => Settled'
  BY SettledStep
<1> QED  BY <1>1, SettledAtFirst, SettledIsGreeted, PTL DEF C!Spec

-----------------------------------------------------------------------------
(* The connection in the composition.  A frame has a length, and no line   *)
(* stands for none.                                                        *)
LinesApart == FRAME \in Nat /\ NoLine \notin Line

ConnectionIsSettled == machine = "connection" => Settled

LEMMA ConnectionInit == MCInit => ConnectionIsSettled
BY SettledAtFirst
   DEF MCInit, InitTopics, InitDelivery, InitConnection, InitDirect, ConnectionIsSettled

LEMMA OneMachine == [MCNext]_MCvars => machine' = machine
BY DEF MCNext, MCvars, OnlyTopics, OnlyDelivery, OnlyConnection, OnlyDirect

LEMMA ConnectionMoves ==
  ASSUME [MCNext]_MCvars, machine = "connection"
  PROVE  C!Next \/ UNCHANGED C!vars
<1>1. C!Next \/ UNCHANGED MCvars
  BY DEF MCNext, OnlyTopics, OnlyDelivery, OnlyDirect
<1> QED  BY <1>1 DEF MCvars, C!vars

LEMMA ConnectionStep ==
  LinesApart /\ ConnectionIsSettled /\ [MCNext]_MCvars => ConnectionIsSettled'
<1> SUFFICES ASSUME LinesApart, ConnectionIsSettled, [MCNext]_MCvars,
                    machine' = "connection"
             PROVE  Settled'
  BY DEF ConnectionIsSettled
<1>1. machine = "connection" /\ Settled
  BY OneMachine DEF ConnectionIsSettled
<1> QED  BY <1>1, ConnectionMoves, SettledStep DEF LinesApart

(* A client is told nothing that needs a greeting before its greeting was  *)
(* answered (settleIfHello, dispatch).                                     *)
THEOREM ClientsAreGreetedFirst == LinesApart => (MCSpec => []GreetedFirst)
<1> SUFFICES ASSUME LinesApart PROVE MCSpec => []GreetedFirst
  OBVIOUS
<1>1. ConnectionIsSettled => GreetedFirst
  BY SettledIsGreeted DEF ConnectionIsSettled, GreetedFirst
<1> QED  BY <1>1, ConnectionInit, ConnectionStep, PTL DEF MCSpec

-----------------------------------------------------------------------------
(* The wire of MCExchange, in the connection's own terms.                  *)
LEMMA WireOfConnection ==
  ASSUME LinesApart, Queues, [MCNext]_MCvars, machine = "connection"
  PROVE  [Wire!Next]_(Wire!vars)
<1> SUFFICES Wire!Next \/ UNCHANGED Wire!vars
  BY DEF Wire!vars
<1> DEFINE o == [i \in 1..Len(pending) |-> pending[i].f]
<1>1. WireStep
  BY ConnectionMoves, EveryStep DEF LinesApart
<1>2. Owes(pending) = o /\ Owes(pending') = o'
  BY DEF Owes
<1>3. \/ up /\ Wire!IsStrictPrefix(o, o') /\ UNCHANGED <<up, taken>>
      \/ o # <<>> /\ taken' = Append(taken, Head(o)) /\ o' = Tail(o) /\ UNCHANGED up
      \/ up /\ up' = FALSE /\ o' = <<>> /\ UNCHANGED taken
      \/ UNCHANGED <<up, taken>> /\ o' = o
  BY <1>1, <1>2 DEF WireStep
<1>4. machine' = "connection"
  BY OneMachine
<1> HIDE DEF o
<1>5. up \in BOOLEAN /\ up' \in BOOLEAN
  BY ConnectionMoves, EveryStep DEF Queues, LinesApart
<1> QED
  BY <1>3, <1>4, <1>5 DEF o, Wire!Next, Wire!HandOver, Wire!Arrive, Wire!Break, Wire!vars

LEMMA WireElsewhere ==
  ASSUME [MCNext]_MCvars, machine # "connection"
  PROVE  UNCHANGED Wire!vars
BY OneMachine DEF Wire!vars

(* A connection keeps the promise of LineWire: what it was handed arrives  *)
(* whole, once and in order, however short the writes (WriteQueue.drain,   *)
(* conn.send).                                                             *)
THEOREM WireIsKept == LinesApart => (MCSpec => WireIsLines)
<1> SUFFICES ASSUME LinesApart PROVE MCSpec => WireIsLines
  OBVIOUS
<1>1. MCInit => Wire!Init
  <2> SUFFICES ASSUME MCInit PROVE Wire!Init
    OBVIOUS
  <2>1. CASE machine # "connection"
    BY <2>1 DEF Wire!Init
  <2>2. CASE machine = "connection"
    <3>1. pending = <<>> /\ taken = <<>> /\ up = TRUE
      BY <2>2 DEF MCInit, InitTopics, InitDelivery, InitConnection, InitDirect, C!Init
    <3>2. [i \in 1..Len(pending) |-> pending[i].f] = <<>>
      BY <3>1
    <3> QED  BY <2>2, <3>1, <3>2 DEF Wire!Init
  <2> QED  BY <2>1, <2>2
<1>2. ConnectionIsSettled /\ [MCNext]_MCvars => [Wire!Next]_(Wire!vars)
  <2> SUFFICES ASSUME ConnectionIsSettled, [MCNext]_MCvars PROVE [Wire!Next]_(Wire!vars)
    OBVIOUS
  <2>1. CASE machine = "connection"
    BY <2>1, WireOfConnection DEF ConnectionIsSettled, Settled
  <2>2. CASE machine # "connection"
    BY <2>2, WireElsewhere
  <2> QED  BY <2>1, <2>2
<1> QED  BY <1>1, <1>2, ConnectionInit, ConnectionStep, PTL DEF MCSpec, WireIsLines, Wire!Spec

-----------------------------------------------------------------------------
(* Route (a).  None of the sends, and no answer, is the value that stands  *)
(* for none.                                                               *)
Apart == NoOp \notin Call \cup R!Answer

Sends ==
  /\ route \in {"disabled", "socket", "queue"}
  /\ pc \in [Call -> {"idle", "target", "token", "inbox", "awaiting", "address",
                      "writing", "written", "running", "done"}]
  /\ dir \in [Call -> Dir \cup {NoOp}]
  /\ channel \in [Call -> Call \cup {NoOp}]
  /\ from \in [Call -> Call \cup {NoOp}]
  /\ watch \in [Call -> {"none", "open", "over"} \cup R!Status]
  /\ answer \in [Call -> R!Answer \cup {NoOp}]
  /\ held \in SUBSET Call
  /\ verdict \in [Call -> {"none", "taken"} \cup R!Status]

Channels ==
  /\ inboxes \in [Dir -> Call \cup {NoOp}]
  /\ openingInDirect \in [Call -> {"none", "binding", "unbound", "held", "failed"}]
  /\ bound \in SUBSET Call /\ listening \in SUBSET Call
  /\ closed \in BOOLEAN /\ rebound \in BOOLEAN

(* What a send was written is held, and what it was told of a receipt is   *)
(* what the session made of its message.                                   *)
WhatWasSaid ==
  \A s \in Call :
    /\ pc[s] = "written" \/ answer[s] = "delivered" => s \in held
    /\ watch[s] \in R!REFUSING \/ answer[s] = "refused" => verdict[s] \in R!REFUSING

(* An opening is begun once, by a send that has its directory; the one a   *)
(* send has got, and the one its frames name, has ended well.              *)
OpeningsOnce ==
  \A s \in Call :
    /\ pc[s] \in {"token", "inbox", "awaiting"} => dir[s] \in Dir
    /\ pc[s] \in {"idle", "target", "token", "inbox"} => openingInDirect[s] = "none"
    /\ pc[s] = "awaiting" => channel[s] \in Call
    /\ pc[s] = "address" /\ channel[s] # NoOp => openingInDirect[channel[s]] = "held"
    /\ from[s] # NoOp => openingInDirect[from[s]] = "held"
    /\ s \in bound => openingInDirect[s] = "held"

Routed == Sends /\ Channels /\ WhatWasSaid /\ OpeningsOnce /\ R!ChannelsAreKept

(* Every step of a send, of its channel and of the session keeps it.       *)
LEMMA DirectStep ==
  ASSUME Apart, Routed, R!Next PROVE Routed'
<1> USE DEF Apart, Routed, R!At, R!Goes, R!Answers, R!Answer, R!REFUSING, R!Status,
            R!sends, R!channels
<1>1. ASSUME NEW s \in Call, R!Begin(s) PROVE Routed'
  <2>0. /\ pc[s] = "idle"
        /\ \/ pc' = [pc EXCEPT ![s] = "done"] /\ answer' = [answer EXCEPT ![s] = "unavailable"]
           \/ pc' = [pc EXCEPT ![s] = "running"] /\ UNCHANGED answer
           \/ pc' = [pc EXCEPT ![s] = "target"] /\ UNCHANGED answer
        /\ UNCHANGED <<route, dir, channel, from, watch, inboxes, openingInDirect, bound,
                       listening, closed, rebound, held, verdict>>
    BY <1>1 DEF R!Begin, Sends
  <2>1. Sends' /\ Channels'
    BY <2>0 DEF Sends, Channels
  <2>2. WhatWasSaid'
    BY <2>0 DEF Sends, WhatWasSaid
  <2>3. OpeningsOnce'
    BY <2>0 DEF Sends, Channels, OpeningsOnce
  <2>4. R!ChannelsAreKept'
    BY <2>0 DEF Sends, Channels, OpeningsOnce, R!ChannelsAreKept
  <2> QED  BY <2>1, <2>2, <2>3, <2>4
<1>2. ASSUME NEW s \in Call, R!Token(s) PROVE Routed'
  <2>1. Sends' /\ Channels'
    BY <1>2 DEF R!Token, Sends, Channels
  <2>2. WhatWasSaid'
    BY <1>2 DEF R!Token, Sends, WhatWasSaid
  <2>3. OpeningsOnce'
    BY <1>2 DEF R!Token, Sends, Channels, OpeningsOnce
  <2>4. R!ChannelsAreKept'
    BY <1>2 DEF R!Token, Sends, Channels, OpeningsOnce, R!ChannelsAreKept
  <2> QED  BY <2>1, <2>2, <2>3, <2>4
<1>3. ASSUME NEW s \in Call, R!Missing(s) PROVE Routed'
  <2>1. Sends' /\ Channels'
    BY <1>3 DEF R!Missing, Sends, Channels
  <2>2. WhatWasSaid'
    BY <1>3 DEF R!Missing, Sends, WhatWasSaid
  <2>3. OpeningsOnce'
    BY <1>3 DEF R!Missing, Sends, Channels, OpeningsOnce
  <2>4. R!ChannelsAreKept'
    BY <1>3 DEF R!Missing, Sends, Channels, OpeningsOnce, R!ChannelsAreKept
  <2> QED  BY <2>1, <2>2, <2>3, <2>4
<1>4. ASSUME NEW s \in Call, NEW d \in Dir, R!Target(s, d) PROVE Routed'
  <2>1. Sends' /\ Channels'
    BY <1>4 DEF R!Target, Sends, Channels
  <2>2. WhatWasSaid'
    BY <1>4 DEF R!Target, Sends, WhatWasSaid
  <2>3. OpeningsOnce'
    BY <1>4 DEF R!Target, Sends, Channels, OpeningsOnce
  <2>4. R!ChannelsAreKept'
    BY <1>4 DEF R!Target, Sends, Channels, OpeningsOnce, R!ChannelsAreKept
  <2> QED  BY <2>1, <2>2, <2>3, <2>4
<1>5. ASSUME NEW s \in Call, NEW b \in BOOLEAN, R!Inbox(s, b) PROVE Routed'
  <2>1. Sends' /\ Channels'
    BY <1>5 DEF R!Inbox, Sends, Channels, OpeningsOnce
  <2>2. WhatWasSaid'
    BY <1>5 DEF R!Inbox, Sends, WhatWasSaid
  <2>3. OpeningsOnce'
    BY <1>5 DEF R!Inbox, Sends, Channels, OpeningsOnce
  <2>4. R!ChannelsAreKept'
    BY <1>5 DEF R!Inbox, Sends, Channels, OpeningsOnce, R!ChannelsAreKept
  <2> QED  BY <2>1, <2>2, <2>3, <2>4
<1>6. ASSUME NEW s \in Call, NEW b \in BOOLEAN, R!Address(s, b) PROVE Routed'
  <2>1. Sends' /\ Channels'
    BY <1>6 DEF R!Address, Sends, Channels
  <2>2. WhatWasSaid'
    BY <1>6 DEF R!Address, Sends, WhatWasSaid
  <2>3. OpeningsOnce'
    BY <1>6 DEF R!Address, Sends, Channels, OpeningsOnce
  <2>4. R!ChannelsAreKept'
    BY <1>6 DEF R!Address, Sends, Channels, OpeningsOnce, R!ChannelsAreKept
  <2> QED  BY <2>1, <2>2, <2>3, <2>4
<1>7. ASSUME NEW s \in Call, NEW b \in BOOLEAN, R!Flushed(s, b) PROVE Routed'
  <2>1. Sends' /\ Channels'
    BY <1>7 DEF R!Flushed, Sends, Channels
  <2>2. WhatWasSaid'
    BY <1>7 DEF R!Flushed, Sends, WhatWasSaid
  <2>3. OpeningsOnce'
    BY <1>7 DEF R!Flushed, Sends, Channels, OpeningsOnce
  <2>4. R!ChannelsAreKept'
    BY <1>7 DEF R!Flushed, Sends, Channels, OpeningsOnce, R!ChannelsAreKept
  <2> QED  BY <2>1, <2>2, <2>3, <2>4
<1>8. ASSUME NEW s \in Call, R!Opened(s) PROVE Routed'
  <2>1. Sends' /\ Channels'
    BY <1>8 DEF R!Opened, Sends, Channels
  <2>2. WhatWasSaid'
    BY <1>8 DEF R!Opened, Sends, WhatWasSaid
  <2>3. OpeningsOnce'
    BY <1>8 DEF R!Opened, Sends, Channels, OpeningsOnce
  <2>4. R!ChannelsAreKept'
    BY <1>8 DEF R!Opened, Sends, Channels, OpeningsOnce, R!ChannelsAreKept
  <2> QED  BY <2>1, <2>2, <2>3, <2>4
<1>9. ASSUME NEW s \in Call, R!GetsInbox(s) PROVE Routed'
  <2>1. Sends' /\ Channels'
    BY <1>9 DEF R!GetsInbox, Sends, Channels
  <2>2. WhatWasSaid'
    BY <1>9 DEF R!GetsInbox, Sends, WhatWasSaid
  <2>3. OpeningsOnce'
    BY <1>9 DEF R!GetsInbox, Sends, Channels, OpeningsOnce
  <2>4. R!ChannelsAreKept'
    BY <1>9 DEF R!GetsInbox, Sends, Channels, OpeningsOnce, R!ChannelsAreKept
  <2> QED  BY <2>1, <2>2, <2>3, <2>4
<1>10. ASSUME NEW s \in Call, R!WriteFails(s) PROVE Routed'
  <2>1. Sends' /\ Channels'
    BY <1>10 DEF R!WriteFails, Sends, Channels
  <2>2. WhatWasSaid'
    BY <1>10 DEF R!WriteFails, Sends, WhatWasSaid
  <2>3. OpeningsOnce'
    BY <1>10 DEF R!WriteFails, Sends, Channels, OpeningsOnce
  <2>4. R!ChannelsAreKept'
    BY <1>10 DEF R!WriteFails, Sends, Channels, OpeningsOnce, R!ChannelsAreKept
  <2> QED  BY <2>1, <2>2, <2>3, <2>4
<1>11. ASSUME NEW s \in Call, R!WindowCloses(s) PROVE Routed'
  <2>1. Sends' /\ Channels'
    BY <1>11 DEF R!WindowCloses, Sends, Channels
  <2>2. WhatWasSaid'
    BY <1>11 DEF R!WindowCloses, Sends, WhatWasSaid
  <2>3. OpeningsOnce'
    BY <1>11 DEF R!WindowCloses, Sends, Channels, OpeningsOnce
  <2>4. R!ChannelsAreKept'
    BY <1>11 DEF R!WindowCloses, Sends, Channels, OpeningsOnce, R!ChannelsAreKept
  <2> QED  BY <2>1, <2>2, <2>3, <2>4
<1>12. ASSUME NEW s \in Call, R!Settles(s) PROVE Routed'
  <2>1. Sends' /\ Channels'
    BY <1>12 DEF R!Settles, Sends, Channels
  <2>2. WhatWasSaid'
    BY <1>12 DEF R!Settles, Sends, WhatWasSaid
  <2>3. OpeningsOnce'
    BY <1>12 DEF R!Settles, Sends, Channels, OpeningsOnce
  <2>4. R!ChannelsAreKept'
    BY <1>12 DEF R!Settles, Sends, Channels, OpeningsOnce, R!ChannelsAreKept
  <2> QED  BY <2>1, <2>2, <2>3, <2>4
<1>13. ASSUME NEW s \in Call, R!Takes(s) PROVE Routed'
  <2>1. Sends' /\ Channels'
    BY <1>13 DEF R!Takes, Sends, Channels
  <2>2. WhatWasSaid'
    BY <1>13 DEF R!Takes, Sends, WhatWasSaid
  <2>3. OpeningsOnce'
    BY <1>13 DEF R!Takes, Sends, Channels, OpeningsOnce
  <2>4. R!ChannelsAreKept'
    BY <1>13 DEF R!Takes, Sends, Channels, OpeningsOnce, R!ChannelsAreKept
  <2> QED  BY <2>1, <2>2, <2>3, <2>4
<1>14. ASSUME NEW s \in Call, R!Queues(s) PROVE Routed'
  <2>1. Sends' /\ Channels'
    BY <1>14 DEF R!Queues, Sends, Channels
  <2>2. WhatWasSaid'
    BY <1>14 DEF R!Queues, Sends, WhatWasSaid
  <2>3. OpeningsOnce'
    BY <1>14 DEF R!Queues, Sends, Channels, OpeningsOnce
  <2>4. R!ChannelsAreKept'
    BY <1>14 DEF R!Queues, Sends, Channels, OpeningsOnce, R!ChannelsAreKept
  <2> QED  BY <2>1, <2>2, <2>3, <2>4
<1>15. ASSUME NEW s \in Call, NEW ms \in SUBSET Call, NEW st \in R!Status, R!Refuses(s, ms, st) PROVE Routed'
  <2>1. Sends' /\ Channels'
    BY <1>15 DEF R!Refuses, R!Receipt, Sends, Channels
  <2>2. WhatWasSaid'
    BY <1>15 DEF R!Refuses, R!Receipt, Sends, WhatWasSaid
  <2>3. OpeningsOnce'
    BY <1>15 DEF R!Refuses, R!Receipt, Sends, Channels, OpeningsOnce
  <2>4. R!ChannelsAreKept'
    BY <1>15 DEF R!Refuses, R!Receipt, Sends, Channels, OpeningsOnce, R!ChannelsAreKept
  <2> QED  BY <2>1, <2>2, <2>3, <2>4
<1>16. ASSUME NEW s \in Call, NEW n \in {0, 1}, R!Exits(s, n) PROVE Routed'
  <2>1. Sends' /\ Channels'
    BY <1>16 DEF R!Exits, Sends, Channels
  <2>2. WhatWasSaid'
    BY <1>16 DEF R!Exits, Sends, WhatWasSaid
  <2>3. OpeningsOnce'
    BY <1>16 DEF R!Exits, Sends, Channels, OpeningsOnce
  <2>4. R!ChannelsAreKept'
    BY <1>16 DEF R!Exits, Sends, Channels, OpeningsOnce, R!ChannelsAreKept
  <2> QED  BY <2>1, <2>2, <2>3, <2>4
<1>17. ASSUME R!Close PROVE Routed'
  <2>1. Sends' /\ Channels'
    BY <1>17 DEF R!Close, Sends, Channels
  <2>2. WhatWasSaid'
    BY <1>17 DEF R!Close, Sends, WhatWasSaid
  <2>3. OpeningsOnce'
    BY <1>17 DEF R!Close, Sends, Channels, OpeningsOnce
  <2>4. R!ChannelsAreKept'
    BY <1>17 DEF R!Close, Sends, Channels, OpeningsOnce, R!ChannelsAreKept
  <2> QED  BY <2>1, <2>2, <2>3, <2>4
<1> QED  BY <1>1, <1>2, <1>3, <1>4, <1>5, <1>6, <1>7, <1>8, <1>9, <1>10, <1>11, <1>12, <1>13, <1>14, <1>15, <1>16, <1>17 DEF R!Next

LEMMA DirectInit == Apart /\ R!Init => Routed
<1> SUFFICES ASSUME Apart, R!Init PROVE Routed
  OBVIOUS
<1> USE DEF Apart, R!Init, R!Answer, R!Status, R!REFUSING
<1>1. Sends
  BY DEF Sends
<1>2. Channels
  BY DEF Channels
<1>3. WhatWasSaid
  BY DEF WhatWasSaid
<1>4. OpeningsOnce /\ R!ChannelsAreKept
  BY DEF OpeningsOnce, R!ChannelsAreKept
<1> QED  BY <1>1, <1>2, <1>3, <1>4 DEF Routed

DirectIsRouted == machine = "direct" => Routed

LEMMA DirectStays == Apart /\ DirectIsRouted /\ [MCNext]_MCvars => DirectIsRouted'
<1> SUFFICES ASSUME Apart, DirectIsRouted, [MCNext]_MCvars, machine' = "direct"
             PROVE  Routed'
  BY DEF DirectIsRouted
<1>1. machine = "direct" /\ Routed
  BY OneMachine DEF DirectIsRouted
<1>2. R!Next \/ UNCHANGED MCvars
  BY <1>1 DEF MCNext, OnlyTopics, OnlyDelivery, OnlyConnection
<1>3. CASE UNCHANGED MCvars
  BY <1>1, <1>3 DEF MCvars, Routed, Sends, Channels, WhatWasSaid, OpeningsOnce,
                    R!ChannelsAreKept
<1> QED  BY <1>1, <1>2, <1>3, DirectStep

(* A message answered delivered is held whole by the harness, one answered *)
(* refused was turned away by the session it went to, and the channel a    *)
(* message names is listened on while the route is open and gone with it,  *)
(* for any sends side by side (ClaudeCodeSocketRoute.send, #inbox, close). *)
THEOREM DirectTellsTheTruth == Apart => (MCSpec => []DirectIsTrue)
<1> SUFFICES ASSUME Apart PROVE MCSpec => []DirectIsTrue
  OBVIOUS
<1>1. MCInit => DirectIsRouted
  BY DirectInit
     DEF MCInit, InitTopics, InitDelivery, InitConnection, InitDirect, DirectIsRouted
<1>2. DirectIsRouted => DirectIsTrue
  BY DEF DirectIsRouted, DirectIsTrue, Routed, WhatWasSaid, R!AnswersAreTrue
<1> QED  BY <1>1, <1>2, DirectStays, PTL DEF MCSpec

-----------------------------------------------------------------------------
(* The inbox and the delivery of its messages, by the invariant of         *)
(* DeliveryProofs, in the configuration whose writes all reach the disk.   *)

DP == INSTANCE DeliveryProofs WITH Conn <- Client, Op <- Call, Failing <- FALSE

(* Constants that mean what the code means by them: a connection belongs   *)
(* to one session, the limits are numbers, and the names that stand for    *)
(* "no request", "an offer" and "no route" are no request's (the           *)
(* assumption of Delivery, at these constants).                            *)
SessionsAreGiven ==
  /\ SidOf \in [Client -> Sid]
  /\ MaxHeld \in Nat \ {0} /\ MaxSends \in Nat /\ MaxCrashes \in Nat
  /\ MaxAged \in Nat
  /\ IsFiniteSet(Sid) /\ IsFiniteSet(Call)
  /\ {NoOp, "offer", "none"} \cap Call = {} /\ NoOp \notin {"offer", "none"}

DeliveryIsSound == machine = "delivery" => DP!Inv

LEMMA SessionsAreDelivered == SessionsAreGiven => DP!DeliveryAssumption
BY DEF SessionsAreGiven, DP!DeliveryAssumption, DP!IsFiniteSet, IsFiniteSet

(* The two instances of Delivery are one.                                  *)
LEMMA SameInit == D!Init => DP!Init
BY Zenon
   DEF D!Init, DP!Init, D!Standing, DP!Standing, D!EmptyInbox, DP!EmptyInbox,
       D!NoOffer, DP!NoOffer, D!Free, DP!Free, D!Message, DP!Message

LEMMA SameNext == D!Next => DP!Next
BY Zenon
   DEF D!Message, DP!Message, D!Standing, DP!Standing, D!InboxLine, DP!InboxLine, D!Owed,
       DP!Owed, D!InboxState, DP!InboxState, D!Offer, DP!Offer, D!NoOffer, DP!NoOffer,
       D!Request, DP!Request, D!Free, DP!Free, D!EmptyInbox, DP!EmptyInbox, D!Only,
       DP!Only, D!Without, DP!Without, D!Expire, DP!Expire, D!Delivered, DP!Delivered,
       D!Hold, DP!Hold, D!Replayed, DP!Replayed, D!Replay, DP!Replay, D!Unexpired,
       DP!Unexpired, D!Compacted, DP!Compacted, D!LastCounter, DP!LastCounter,
       D!Offering, DP!Offering, D!Claimed, DP!Claimed, D!OfferedInbox, DP!OfferedInbox,
       D!Offered, DP!Offered, D!HandAll, DP!HandAll, D!Hand, DP!Hand, D!HandNothing,
       DP!HandNothing, D!Stray, DP!Stray, D!MaybeStray, DP!MaybeStray, D!Answer,
       DP!Answer, D!EndOffer, DP!EndOffer, D!NextOffer, DP!NextOffer, D!OfferCarried,
       DP!OfferCarried, D!OfferStopped, DP!OfferStopped, D!Changed, DP!Changed, D!Send,
       DP!Send, D!At, DP!At, D!StartHold, DP!StartHold, D!Carried, DP!Carried,
       D!Refused, DP!Refused, D!Listeners, DP!Listeners, D!Unavailable, DP!Unavailable,
       D!OverLimit, DP!OverLimit, D!Evict, DP!Evict, D!LineOf, DP!LineOf, D!Landed,
       DP!Landed, D!AppendFails, DP!AppendFails, D!Subscribe, DP!Subscribe,
       D!Unsubscribe, DP!Unsubscribe, D!Watch, DP!Watch, D!Age, DP!Age, D!Crash,
       DP!Crash, D!Restart, DP!Restart, D!Next, DP!Next, D!ToSet, DP!ToSet, D!SetToSeq,
       DP!SetToSeq, D!IsInjective, DP!IsInjective, D!Cardinality, DP!Cardinality,
       D!IsFiniteSet, DP!IsFiniteSet, D!Max, DP!Max

LEMMA SameProperties ==
  /\ DP!AtMostOnce => D!AtMostOnce
  /\ DP!OldestFirst => D!OldestFirst
  /\ DP!DeliveredHasArrived => D!DeliveredHasArrived
  /\ DP!FileIsMemory => D!FileIsMemory
  /\ DP!ViewIsInbox => D!ViewIsInbox
  /\ DP!InboxBounded => D!InboxBounded
  /\ DP!HeldMidsDiffer => D!HeldMidsDiffer
  /\ DP!HeldIsDurable => D!HeldIsDurable
BY Zenon
   DEF D!AtMostOnce, DP!AtMostOnce, D!OldestFirst, DP!OldestFirst,
       D!DeliveredHasArrived, DP!DeliveredHasArrived, D!FileIsMemory, DP!FileIsMemory,
       D!ViewIsInbox, DP!ViewIsInbox, D!InboxBounded, DP!InboxBounded,
       D!HeldMidsDiffer, DP!HeldMidsDiffer, D!HeldIsDurable, DP!HeldIsDurable,
       D!Message, DP!Message, D!Offering, DP!Offering, D!Replay, DP!Replay, D!Replayed,
       DP!Replayed, D!Unexpired, DP!Unexpired, D!Without, DP!Without, D!Only, DP!Only,
       D!EmptyInbox, DP!EmptyInbox, D!ToSet, DP!ToSet, D!Cardinality, DP!Cardinality,
       D!IsFiniteSet, DP!IsFiniteSet

(* The invariant at the start.                                              *)
LEMMA DeliveryInit == SessionsAreGiven /\ D!Init => DP!Inv
<1> SUFFICES ASSUME SessionsAreGiven, D!Init PROVE DP!Inv
  OBVIOUS
<1>1. DP!DeliveryAssumption /\ DP!Init
  BY SessionsAreDelivered, SameInit
<1>2. DP!Core
  BY <1>1, DP!InitCore
<1> QED  BY <1>1, <1>2, DP!InitWhole DEF DP!Inv

(* Steps of Delivery keep it, and those of the others leave it alone.      *)
LEMMA DeliveryStays == SessionsAreGiven /\ DeliveryIsSound /\ [MCNext]_MCvars => DeliveryIsSound'
<1> SUFFICES ASSUME SessionsAreGiven, DeliveryIsSound, [MCNext]_MCvars, machine' = "delivery" PROVE DP!Inv'
  BY DEF DeliveryIsSound
<1>1. machine = "delivery" /\ DP!Core /\ DP!Whole
  BY OneMachine DEF DeliveryIsSound, DP!Inv
<1>0. DP!DeliveryAssumption
  BY SessionsAreDelivered
<1>2. D!Next \/ UNCHANGED MCvars
  BY <1>1 DEF MCNext, OnlyTopics, OnlyConnection, OnlyDirect
<1>3. CASE D!Next
  <2>1. DP!Next
    BY <1>3, SameNext
  <2>2. DP!Core' /\ DP!Whole'
    BY <1>0, <1>1, <2>1, DP!NextCore, DP!NextWhole
  <2> QED  BY <2>2 DEF DP!Inv
<1>4. CASE UNCHANGED MCvars
  <2>1. UNCHANGED DP!vars
    BY <1>4 DEF MCvars, DP!vars, D!vars
  <2>2. DP!Core' /\ DP!Whole'
    BY <1>0, <1>1, <2>1, DP!StutterCore, DP!StutterWhole
  <2> QED  BY <2>2 DEF DP!Inv
<1> QED  BY <1>2, <1>3, <1>4

(* So it always holds of the composition.                                  *)
LEMMA DeliveryAlways == SessionsAreGiven => (MCSpec => []DeliveryIsSound)
<1> SUFFICES ASSUME SessionsAreGiven PROVE MCSpec => []DeliveryIsSound
  OBVIOUS
<1>1. MCInit => DeliveryIsSound
  BY DeliveryInit
     DEF MCInit, InitTopics, InitDelivery, InitConnection, InitDirect, DeliveryIsSound
<1> QED  BY <1>1, DeliveryStays, PTL DEF MCSpec

(* A message goes out on one route, the oldest of a session first, and     *)
(* what is stated delivered has reached it, for any sessions, requests and *)
(* connections (Delivery.#claimed, #offering, #offer).                     *)
THEOREM MessagesGoOutOnce == SessionsAreGiven => (MCSpec => []DeliveredOnceInOrder)
<1> SUFFICES ASSUME SessionsAreGiven PROVE MCSpec => []DeliveredOnceInOrder
  OBVIOUS
<1>1. DeliveryIsSound => DeliveredOnceInOrder
  <2> SUFFICES ASSUME DP!Core, DP!Whole PROVE D!AtMostOnce /\ D!OldestFirst /\ D!DeliveredHasArrived
    BY DEF DeliveryIsSound, DeliveredOnceInOrder, DP!Inv
  <2>1. DP!AtMostOnce
    BY DEF DP!Core
  <2>2. DP!OldestFirst
    BY SessionsAreDelivered, DP!CoreOldestFirst
  <2>3. DP!DeliveredHasArrived
    BY DEF DP!Whole
  <2> QED  BY <2>1, <2>2, <2>3, SameProperties
<1> QED  BY <1>1, DeliveryAlways, PTL

(* The file, the memory and what is shown of the inbox agree, within the   *)
(* limit and with no two mids alike, and what is held survives every kill, *)
(* for any sessions, requests and limits (Inbox.hold, #append, load).      *)
THEOREM InboxesAreKept == SessionsAreGiven => (MCSpec => []InboxIsKept)
<1> SUFFICES ASSUME SessionsAreGiven PROVE MCSpec => []InboxIsKept
  OBVIOUS
<1>1. DeliveryIsSound => InboxIsKept
  <2> SUFFICES ASSUME DP!Inv
               PROVE  /\ D!FileIsMemory /\ D!ViewIsInbox /\ D!InboxBounded
                      /\ D!HeldMidsDiffer /\ D!HeldIsDurable
    BY DEF DeliveryIsSound, InboxIsKept
  <2>1. DP!Core /\ DP!Whole
    BY DEF DP!Inv
  <2>2. DP!FileIsMemory /\ DP!ViewIsInbox
    BY SessionsAreDelivered, DP!WholeIsMemory, DP!WholeIsView
  <2>3. DP!InboxBounded
    BY <2>1, Zenon DEF DP!Whole
  <2>4. DP!HeldMidsDiffer /\ DP!HeldIsDurable
    BY <2>1, SessionsAreDelivered, DP!CoreMidsDiffer, DP!CoreIsDurable
  <2> QED  BY <2>2, <2>3, <2>4, SameProperties
<1> QED  BY <1>1, DeliveryAlways, PTL
=============================================================================
