-------------------------------- MODULE Auth --------------------------------
(***************************************************************************)
(* The exchanges that let a person in (src/src/auth/auth.ts: issue,        *)
(* challenge, register, enroll, assert, mint; admin.ts; http.ts) and the   *)
(* ones that put them out (revoke, removeCredential, signout, the marks a  *)
(* peer sends), at one instance and for one person.  Exchanges run side by *)
(* side and give way at each await: the verification, the issuer's answer, *)
(* each write's commit.  A write is in memory before its commit.  The      *)
(* rotation and the expiry of tokens are in AuthTokens, the records' file  *)
(* and their replication in AuthRecords.                                   *)
(*                                                                         *)
(* The cryptography is left out: an exchange is one whose signatures are   *)
(* right.  Which code it carries and what its authenticator counts is not. *)
(***************************************************************************)
EXTENDS Integers, FiniteSets

CONSTANTS
  Url,            \* enrolment URLs, by jti
  Challenge,
  Elsewhere,      \* the URLs and challenges another instance issued
  Cred, Grant, Conn,
  Exchange,       \* requests to /auth/register, enroll and assert
  Task,           \* removals under way
  CODE_ATTEMPTS, REGISTER_TTL, CHALLENGE_TTL, MaxCount, MaxTime,
  None,
  Removed         \* what a mark leaves of a record

VARIABLES
  now,
  pending,     \* #pending of the URL's issuer
  issued,      \* URLs that were made: a jti is random
  challenges,  \* #challenges: when each runs out
  handed,      \* challenges that were made
  person,      \* the user record stands
  cred,        \* credential records: None, the counter, or Removed
  grant,       \* grantings of this instance: None, "stands" or Removed
  family,      \* the family an exchange minted: None, "stands" or Removed
  exchange, task,
  conn,        \* #authorized: the family that opened the connection
  wrong,       \* wrong codes judged against each URL
  passed,      \* what exchanges got through: URLs, challenges, readings
  again,       \* an exchange passed on a reading that did not advance
  skipped      \* a commit failed, and with it what the caller does after it

vars == <<now, pending, issued, challenges, handed, person, cred, grant, family,
          exchange, task, conn, wrong, passed, again, skipped>>
memory == <<person, cred, grant, family>>
carried == <<pending, issued, challenges, handed, wrong>>

Idle == [is |-> "idle"]
Register == "register"
Enroll == "enroll"
Assert == "assert"

Init ==
  /\ now = 0
  /\ pending = [u \in Url |-> None] /\ issued = {} /\ wrong = [u \in Url |-> 0]
  /\ challenges = [k \in Challenge |-> None] /\ handed = {}
  /\ person \in BOOLEAN
  /\ cred \in [Cred -> IF person THEN {None, 0, 1} ELSE {None}]
  /\ grant \in {[g \in Grant |-> IF g \in G THEN "stands" ELSE None] :
                 G \in {S \in SUBSET Grant : S = {} \/ (person /\ Cardinality(S) = 1)}}
  /\ family = [x \in Exchange |-> None]
  /\ exchange = [x \in Exchange |-> Idle] /\ task = [t \in Task |-> Idle]
  /\ conn = [n \in Conn |-> None]
  /\ passed = {} /\ again = FALSE /\ skipped = FALSE

Stands(c) == cred[c] \notin {None, Removed}
Owns == \E g \in Grant : grant[g] = "stands"
Alive(u) == IF pending[u] = None THEN FALSE ELSE pending[u].till > now
Live(k) == IF challenges[k] = None THEN FALSE ELSE challenges[k] > now

(* advances, and the same rule inside verifyAssertion.                     *)
Advances(recorded, reading) == recorded = 0 \/ reading > recorded

(* #forget: what has run out is dropped.                                   *)
Unexpired == [k \in Challenge |-> IF Live(k) THEN challenges[k] ELSE None]
Forget == pending' = [u \in Url |-> IF u \in Elsewhere \/ Alive(u) THEN pending[u] ELSE None]

(* issue: a URL of either purpose, with whether it hands this instance     *)
(* over: its own always does, one of a peer when it names all.             *)
Issue(u, purpose, hands) ==
  /\ u \notin issued /\ (u \in Elsewhere \/ hands)
  /\ issued' = issued \cup {u}
  /\ pending' = [pending EXCEPT ![u] =
       [purpose |-> purpose, hands |-> hands, till |-> now + REGISTER_TTL, attempts |-> 0]]
  /\ UNCHANGED <<now, challenges, handed, memory, exchange, task, conn, wrong, passed,
                 again, skipped>>

(* challenge: with a URL's token it is refused unless the URL is alive.    *)
HandOut(k, u) ==
  /\ k \notin handed
  /\ IF u = None THEN TRUE ELSE Alive(u)
  /\ handed' = handed \cup {k}
  /\ challenges' = [Unexpired EXCEPT ![k] = now + CHALLENGE_TTL]
  /\ Forget
  /\ UNCHANGED <<now, issued, memory, exchange, task, conn, wrong, passed, again, skipped>>

(* A request arrives: register names a URL and a new credential.           *)
Registers(x, u, k, c, right) ==
  /\ exchange[x] = Idle /\ u \in issued /\ k \in handed
  /\ exchange' = [exchange EXCEPT ![x] =
       [is |-> "claims", op |-> Register, url |-> u, challenge |-> k, cred |-> c,
        reading |-> 0, right |-> right, late |-> FALSE, hands |-> FALSE]]
  /\ UNCHANGED <<now, carried, memory, task, conn, passed, again, skipped>>

(* #asserted: the record is read, and its counter held to the reading,     *)
(* before the wait for the verification.                                   *)
Asserts(x, op, u, k, c, reading, right) ==
  /\ exchange[x] = Idle /\ k \in handed /\ Stands(c)
  /\ Advances(cred[c], reading)
  /\ op = Enroll => u \in issued
  /\ exchange' = [exchange EXCEPT ![x] =
       [is |-> IF op = Enroll THEN "claims" ELSE "owns", op |-> op, url |-> u,
        challenge |-> k, cred |-> c, reading |-> reading, right |-> right,
        late |-> FALSE, hands |-> FALSE]]
  /\ UNCHANGED <<now, carried, memory, task, conn, passed, again, skipped>>

Refused(x) == exchange' = [exchange EXCEPT ![x] = [Idle EXCEPT !.is = "refused"]]
Goes(x, stage) == exchange' = [exchange EXCEPT ![x].is = stage]

ResolveKeeps(x) ==
  LET u == exchange[x].url IN
  /\ Alive(u)
  /\ exchange[x].right
  /\ UNCHANGED pending
  /\ UNCHANGED wrong
  /\ passed' = passed \cup {<<"url", u, x>>}
  /\ exchange' = [exchange EXCEPT ![x].is = "spend", ![x].hands = pending[u].hands]

(* resolveEnrolment, at the issuer: the URL held, inside its window, the   *)
(* code right and the purpose the one the caller asks for.  A wrong code   *)
(* counts against the URL, and the last one spends it.                     *)
Resolve(x) ==
  LET u == exchange[x].url e == exchange[x] IN
  \/ /\ ~Alive(u)
     /\ pending' = [pending EXCEPT ![u] = None]
     /\ Refused(x)
     /\ UNCHANGED <<wrong, passed>>
  \/ /\ Alive(u) /\ ~e.right
     /\ wrong' = [wrong EXCEPT ![u] = @ + 1]
     /\ IF pending[u].attempts + 1 >= CODE_ATTEMPTS
        THEN pending' = [pending EXCEPT ![u] = None]
        ELSE pending' = [pending EXCEPT ![u].attempts = @ + 1]
     /\ Refused(x)
     /\ UNCHANGED passed
  \/ /\ Alive(u) /\ e.right
     /\ pending' = [pending EXCEPT ![u] = None]
     /\ passed' = passed \cup {<<"url", u, x>>}
     /\ IF (pending[u].purpose = "create_user") = (e.op = Register)
        THEN exchange' = [exchange EXCEPT ![x].is = "spend", ![x].hands = pending[u].hands]
        ELSE Refused(x)
     /\ UNCHANGED wrong

Claims(x) ==
  /\ exchange[x].is = "claims"
  /\ Resolve(x)
  /\ UNCHANGED <<now, issued, challenges, handed, memory, task, conn, again, skipped>>

(* The issuer is another instance, has spent what it was asked about, and  *)
(* its answer does not come back.                                          *)
AnswerLost(x) ==
  /\ \/ /\ exchange[x].is = "claims" /\ exchange[x].url \in Elsewhere
        /\ pending' = [pending EXCEPT ![exchange[x].url] = None]
        /\ UNCHANGED challenges
     \/ /\ exchange[x].is = "spend" /\ exchange[x].challenge \in Elsewhere
        /\ challenges' = [challenges EXCEPT ![exchange[x].challenge] = None]
        /\ UNCHANGED pending
  /\ Refused(x)
  /\ UNCHANGED <<now, issued, handed, memory, task, conn, wrong, passed, again, skipped>>

(* assert goes on only for an owner.                                       *)
ChecksOwner(x) ==
  /\ exchange[x].is = "owns"
  /\ IF Owns THEN Goes(x, "spend") ELSE Refused(x)
  /\ UNCHANGED <<now, carried, memory, task, conn, passed, again, skipped>>

(* spend: good once.  Remembered: the passkey was already removed.         *)
Spend(x) ==
  LET k == exchange[x].challenge IN
  /\ exchange[x].is = "spend"
  /\ IF Live(k)
     THEN /\ exchange' = [exchange EXCEPT
               ![x].is = IF exchange[x].op = Register THEN "user" ELSE "used",
               ![x].late = (cred[exchange[x].cred] = Removed)]
          /\ passed' = passed \cup {<<"challenge", k, x>>}
     ELSE Refused(x) /\ UNCHANGED passed
  /\ challenges' = [Unexpired EXCEPT ![k] = None]
  /\ Forget
  /\ UNCHANGED <<now, issued, handed, memory, task, conn, wrong, again, skipped>>

(* The credential's own write is the last word: a mark refuses it.  It     *)
(* states the count anew, also where another registration of the same      *)
(* passkey has been written while this one wrote the person.               *)
PutsCred(x) ==
  LET c == exchange[x].cred IN
  IF cred[c] = Removed
  THEN Refused(x) /\ UNCHANGED <<cred, passed>>
  ELSE /\ cred' = [cred EXCEPT ![c] = exchange[x].reading]
       /\ passed' = {p \in passed : p[1] # c}
       /\ Goes(x, "cred written")

(* register: the credential must be new; the person is written once, and   *)
(* whoever finds them written goes on to the credential without a wait.    *)
WritesUser(x) ==
  /\ exchange[x].is = "user"
  /\ \/ Stands(exchange[x].cred) /\ Refused(x) /\ UNCHANGED <<person, cred, passed>>
     \/ ~Stands(exchange[x].cred) /\ person /\ PutsCred(x) /\ UNCHANGED person
     \/ /\ ~Stands(exchange[x].cred) /\ ~person
        /\ Goes(x, "user written")
        /\ person' = TRUE
        /\ UNCHANGED <<cred, passed>>
  /\ UNCHANGED <<now, carried, grant, family, task, conn, again, skipped>>

WritesCred(x) ==
  /\ exchange[x].is = "cred"
  /\ PutsCred(x)
  /\ UNCHANGED <<now, carried, person, grant, family, task, conn, again, skipped>>

(* A reading that another one at least as high went before.                *)
Stale(c, reading) ==
  \E r \in 1..MaxCount : r >= reading /\ \E x \in Exchange : <<c, r, x>> \in passed

UsedAsRead(x) ==
  LET e == exchange[x] c == e.cred IN
  /\ e.is = "used"
  /\ IF Stands(c)
     THEN /\ cred' = [cred EXCEPT ![c] = e.reading]
          /\ passed' = passed \cup {<<c, e.reading, x>>}
          /\ again' = (again \/ Stale(c, e.reading))
          /\ Goes(x, "used written")
     ELSE Refused(x) /\ UNCHANGED <<cred, passed, again>>
  /\ UNCHANGED <<now, carried, person, grant, family, task, conn, skipped>>

(* #used: the record as it stands after the waits.                         *)
Used(x) ==
  LET e == exchange[x] c == e.cred IN
  /\ e.is = "used"
  /\ IF Stands(c) /\ Advances(IF Stands(c) THEN cred[c] ELSE 0, e.reading)
     THEN /\ cred' = [cred EXCEPT ![c] = e.reading]
          /\ passed' = passed \cup {<<c, e.reading, x>>}
          /\ again' = (again \/ Stale(c, e.reading))
          /\ Goes(x, "used written")
     ELSE Refused(x) /\ UNCHANGED <<cred, passed, again>>
  /\ UNCHANGED <<now, carried, person, grant, family, task, conn, skipped>>

(* grant: nothing is written for what is already owned.                    *)
Grants(x) ==
  /\ exchange[x].is = "grant"
  /\ IF exchange[x].hands /\ ~Owns
     THEN \E g \in Grant :
            /\ grant[g] = None
            /\ grant' = [grant EXCEPT ![g] = "stands"]
            /\ Goes(x, "grant written")
     ELSE Goes(x, "mint") /\ UNCHANGED grant
  /\ UNCHANGED <<now, carried, person, cred, family, task, conn, passed, again, skipped>>

(* mint: a family of its own key.                                          *)
Mints(x) ==
  /\ exchange[x].is = "mint"
  /\ family' = [family EXCEPT ![x] = "stands"]
  /\ Goes(x, "mint written")
  /\ UNCHANGED <<now, carried, person, cred, grant, task, conn, passed, again, skipped>>

After(stage, op) ==
  CASE stage = "user written" -> "cred"
    [] stage = "cred written" -> "grant"
    [] stage = "used written" -> IF op = Enroll THEN "grant" ELSE "mint"
    [] stage = "grant written" -> "mint"
    [] stage = "mint written" -> "answered"
    [] OTHER -> "none"

Written == {"user written", "cred written", "used written", "grant written", "mint written"}

(* The document of the write an exchange waits for has landed, or could    *)
(* not be written: then the exchange ends there, memory as it is.          *)
Commits(x) ==
  /\ exchange[x].is \in Written
  /\ Goes(x, After(exchange[x].is, exchange[x].op))
  /\ UNCHANGED <<now, carried, memory, task, conn, passed, again, skipped>>

CommitFails(x) ==
  /\ exchange[x].is \in Written
  /\ Refused(x)
  /\ UNCHANGED <<now, carried, memory, task, conn, passed, again, skipped>>

(* The ways a person is put out, each a mark in memory and then a commit:  *)
(* revoke marks the grantings it found one after the other, the rest mark  *)
(* one record, a peer's frame any of them.                                 *)
Mark(f, S) == [r \in DOMAIN f |-> IF r \in S THEN Removed ELSE f[r]]

Revoke(t) ==
  LET found == {g \in Grant : grant[g] = "stands"} IN
  /\ task[t] = Idle /\ found # {}
  /\ task' = [task EXCEPT ![t] = [is |-> "erase", left |-> found]]
  /\ UNCHANGED <<now, carried, memory, exchange, conn, passed, again, skipped>>

Erase(t) ==
  /\ task[t].is = "erase"
  /\ \E g \in task[t].left :
       /\ grant' = Mark(grant, {g})
       /\ task' = [task EXCEPT ![t] = [is |-> "erasing", left |-> @.left \ {g}]]
  /\ UNCHANGED <<now, carried, person, cred, family, exchange, conn, passed, again, skipped>>

RemoveCredential(t, c) ==
  /\ task[t] = Idle /\ Stands(c)
  /\ cred' = Mark(cred, {c})
  /\ task' = [task EXCEPT ![t] = [is |-> "keeping", closes |-> FALSE]]
  /\ UNCHANGED <<now, carried, person, grant, family, exchange, conn, passed, again, skipped>>

(* signout, and #failReplayed.                                             *)
FailFamily(t, x) ==
  /\ task[t] = Idle /\ family[x] = "stands"
  /\ family' = Mark(family, {x})
  /\ task' = [task EXCEPT ![t] = [is |-> "keeping", closes |-> TRUE]]
  /\ UNCHANGED <<now, carried, person, cred, grant, exchange, conn, passed, again, skipped>>

PeerMarks(t, gs, cs, fs) ==
  /\ task[t] = Idle
  /\ grant' = Mark(grant, gs) /\ cred' = Mark(cred, cs) /\ family' = Mark(family, fs)
  /\ task' = [task EXCEPT ![t] = [is |-> "keeping", closes |-> TRUE]]
  /\ UNCHANGED <<now, carried, person, exchange, conn, passed, again, skipped>>

(* A peer wrote the credential, which counts as its own authenticator did. *)
PeerUses(c, reading) ==
  /\ Stands(c) /\ cred[c] # reading
  /\ cred' = [cred EXCEPT ![c] = reading]
  /\ passed' = {p \in passed : p[1] # c}
  /\ UNCHANGED <<now, carried, person, grant, family, exchange, task, conn, again, skipped>>

Closed == conn' = [n \in Conn |-> None]

TaskEndsSilently(t) ==
  /\ \/ task[t].is = "keeping"
     \/ task[t].is = "erasing" /\ task[t].left = {}
  /\ task' = [task EXCEPT ![t] = Idle]
  /\ UNCHANGED conn
  /\ UNCHANGED <<now, carried, memory, exchange, passed, again, skipped>>

(* The commit landed: the next granting, or the end.  disconnect closes    *)
(* all the person holds; the sweep of merge closes what nothing admits.    *)
TaskEnds(t) ==
  /\ \/ task[t].is = "keeping"
     \/ task[t].is = "erasing" /\ task[t].left = {}
  /\ task' = [task EXCEPT ![t] = Idle]
  /\ IF task[t].is = "keeping" /\ ~task[t].closes THEN UNCHANGED conn ELSE Closed
  /\ UNCHANGED <<now, carried, memory, exchange, passed, again, skipped>>

TaskGoesOn(t) ==
  /\ task[t].is = "erasing" /\ task[t].left # {}
  /\ task' = [task EXCEPT ![t].is = "erase"]
  /\ UNCHANGED <<now, carried, memory, exchange, conn, passed, again, skipped>>

(* The commit failed: the caller is told, and nothing after it runs.       *)
TaskFails(t) ==
  /\ task[t].is \in {"keeping", "erasing"}
  /\ task' = [task EXCEPT ![t] = Idle]
  /\ skipped' = TRUE
  /\ UNCHANGED <<now, carried, memory, exchange, conn, passed, again>>

(* admits and hold, in the one event of a handshake.                       *)
Open(n, x) ==
  /\ conn[n] = None /\ family[x] = "stands" /\ Owns
  /\ conn' = [conn EXCEPT ![n] = x]
  /\ UNCHANGED <<now, carried, memory, exchange, task, passed, again, skipped>>

Close(n) ==
  /\ conn[n] # None
  /\ conn' = [conn EXCEPT ![n] = None]
  /\ UNCHANGED <<now, carried, memory, exchange, task, passed, again, skipped>>

Tick ==
  /\ now < MaxTime
  /\ now' = now + 1
  /\ UNCHANGED <<carried, memory, exchange, task, conn, passed, again, skipped>>

Next ==
  \/ \E u \in Url, p \in {"create_user", "add_owner"}, h \in BOOLEAN : Issue(u, p, h)
  \/ \E k \in Challenge, u \in Url \cup {None} : HandOut(k, u)
  \/ \E x \in Exchange, u \in Url, k \in Challenge, c \in Cred, right \in BOOLEAN :
       \/ Registers(x, u, k, c, right)
       \/ \E reading \in 0..MaxCount : Asserts(x, Enroll, u, k, c, reading, right)
  \/ \E x \in Exchange, k \in Challenge, c \in Cred, reading \in 0..MaxCount :
       Asserts(x, Assert, None, k, c, reading, TRUE)
  \/ \E x \in Exchange :
       \/ Claims(x) \/ AnswerLost(x) \/ ChecksOwner(x) \/ Spend(x) \/ WritesUser(x)
       \/ WritesCred(x) \/ Used(x) \/ Grants(x) \/ Mints(x) \/ Commits(x) \/ CommitFails(x)
  \/ \E t \in Task :
       \/ Revoke(t) \/ Erase(t) \/ TaskEnds(t) \/ TaskGoesOn(t) \/ TaskFails(t)
       \/ \E c \in Cred : RemoveCredential(t, c)
       \/ \E x \in Exchange : FailFamily(t, x)
       \/ \E gs \in SUBSET {g \in Grant : grant[g] = "stands"},
             cs \in SUBSET {c \in Cred : Stands(c)},
             fs \in SUBSET {x \in Exchange : family[x] = "stands"} :
            gs \cup cs \cup fs # {} /\ PeerMarks(t, gs, cs, fs)
  \/ \E c \in Cred, reading \in 0..MaxCount : PeerUses(c, reading)
  \/ \E n \in Conn : Close(n) \/ \E x \in Exchange : Open(n, x)
  \/ Tick

Spec == Init /\ [][Next]_vars

-----------------------------------------------------------------------------
(* A URL lets one exchange through and a challenge one, whatever requests  *)
(* overlap and whatever answers are lost; and no exchange gets past a URL  *)
(* once CODE_ATTEMPTS wrong codes were judged against it, wherever they    *)
(* were tried ("guessing the code costs the whole enrolment").             *)
SpentOnce ==
  /\ \A p, q \in passed : p[1] \in {"url", "challenge"} /\ p[1] = q[1] /\ p[2] = q[2] => p = q
  /\ \A u \in Url : wrong[u] <= CODE_ATTEMPTS
  /\ \A u \in Url : wrong[u] = CODE_ATTEMPTS => pending[u] = None

(* Between two words that state a credential's count (a peer's record, a   *)
(* registration), the readings that let exchanges through here advance,    *)
(* though all were verified against the record as it was before any of     *)
(* them ("the earlier assertion cannot put its lower count back over the   *)
(* later one's", #used).                                                   *)
CountersAdvance == ~again

(* A session is answered only over a passkey that was written down and was *)
(* not already removed when its challenge was spent ("a session minted     *)
(* over a credential that was never written down would be the removal not  *)
(* having happened", register).                                            *)
AnsweredIsBacked ==
  \A x \in Exchange : exchange[x].is = "answered"
    => cred[exchange[x].cred] # None /\ ~exchange[x].late

(* With no removal under way, what is held open is admitted still: its     *)
(* family stands and its person owns the instance ("a connection left open *)
(* on one is the revocation not having happened", disconnect), unless a    *)
(* commit failed, which skips the closing.                                 *)
HeldIsAdmitted ==
  (\A t \in Task : task[t] = Idle) /\ ~skipped
    => \A n \in Conn : conn[n] # None => family[conn[n]] = "stands" /\ Owns
=============================================================================
