------------------------------- MODULE MCAuth -------------------------------
(* Small instances of the three parts of authentication: the records two   *)
(* instances share, the token family they rotate, and the ceremonies of    *)
(* one of them, with the addresses and challenges issued by it or by the   *)
(* other.                                                                  *)
EXTENDS AuthTokens, TLC

CONSTANTS
  RecordsTime, CeremoniesTime,   \* bounds on the clocks of AuthRecords and Auth
  Lasting, Family, Life, Retention, MaxWrites, MaxTroubles, NoRecord, Url,
  Challenge, Cred, Grant, Exchange, Task, CODE_ATTEMPTS, REGISTER_TTL,
  CHALLENGE_TTL, MaxCount, Removed, Off

VARIABLES
  machine,  \* the component this behaviour is one of
  up, mem, chain, disk, linked, wire, writes, troubles, taken, marked, apart,
  early, pending, issued, challenges, handed, person, cred, grant, exchange, task,
  wrong, passed, again, skipped,
  session   \* the connections of Auth, which are not those of AuthTokens

R == INSTANCE AuthRecords WITH
  MaxTime <- RecordsTime

A == INSTANCE Auth WITH
  conn <- session, MaxTime <- CeremoniesTime, Elsewhere <- {}

B == INSTANCE Auth WITH
  conn <- session, MaxTime <- CeremoniesTime, Elsewhere <- Url \cup Challenge

(* One component runs in a behaviour; the variables of the others hold     *)
(* nothing.                                                                *)
InitRecords ==
  /\ machine = "records" /\ R!Init
  /\ family = Off /\ news = Off /\ minted = Off /\ jar = Off /\ page = Off
  /\ conn = [n \in Conn |-> None] /\ session = Off /\ away = Off /\ alone = Off /\ left = Off /\ pending = Off
  /\ issued = Off /\ challenges = Off /\ handed = Off /\ person = Off
  /\ cred = Off /\ grant = Off /\ exchange = Off /\ task = Off /\ wrong = Off
  /\ passed = Off /\ again = Off /\ skipped = Off

OnlyRecords ==
  /\ machine = "records"
  /\ UNCHANGED <<machine, family, news, minted, jar, page, conn, session, away,
                 alone, left, pending, issued, challenges, handed, person, cred,
                 grant, exchange, task, wrong, passed, again, skipped>>

InitTokens ==
  /\ machine = "tokens" /\ Init
  /\ up = Off /\ mem = Off /\ chain = Off /\ disk = Off /\ linked = Off
  /\ wire = Off /\ writes = Off /\ troubles = Off /\ taken = Off
  /\ marked = Off /\ apart = Off /\ early = Off /\ pending = Off /\ issued = Off
  /\ challenges = Off /\ handed = Off /\ person = Off /\ cred = Off
  /\ grant = Off /\ exchange = Off /\ task = Off /\ wrong = Off
  /\ passed = Off /\ again = Off /\ skipped = Off /\ session = Off

OnlyTokens ==
  /\ machine = "tokens"
  /\ UNCHANGED <<machine, up, mem, chain, disk, linked, wire, writes,
                 troubles, taken, marked, apart, early, pending, issued, challenges,
                 handed, person, cred, grant, exchange, task, wrong, passed,
                 again, skipped, session>>

InitCeremonies ==
  /\ machine = "ceremonies" /\ A!Init
  /\ up = Off /\ mem = Off /\ chain = Off /\ disk = Off /\ linked = Off
  /\ wire = Off /\ writes = Off /\ troubles = Off /\ taken = Off
  /\ marked = Off /\ apart = Off /\ early = Off /\ news = Off /\ minted = Off /\ jar = Off
  /\ page = Off /\ conn = [n \in Conn |-> None] /\ away = Off /\ alone = Off /\ left = Off

OnlyCeremonies ==
  /\ machine = "ceremonies"
  /\ UNCHANGED <<machine, up, mem, chain, disk, linked, wire, writes,
                 troubles, taken, marked, apart, early, news, minted, jar, page,
                 conn, away, alone, left>>

InitAbroad ==
  /\ machine = "abroad" /\ B!Init
  /\ up = Off /\ mem = Off /\ chain = Off /\ disk = Off /\ linked = Off
  /\ wire = Off /\ writes = Off /\ troubles = Off /\ taken = Off
  /\ marked = Off /\ apart = Off /\ early = Off /\ news = Off /\ minted = Off /\ jar = Off
  /\ page = Off /\ conn = [n \in Conn |-> None] /\ away = Off /\ alone = Off /\ left = Off

OnlyAbroad ==
  /\ machine = "abroad"
  /\ UNCHANGED <<machine, up, mem, chain, disk, linked, wire, writes,
                 troubles, taken, marked, apart, early, news, minted, jar, page,
                 conn, away, alone, left>>

MCInit == InitRecords \/ InitTokens \/ InitCeremonies \/ InitAbroad

(* Exchanges contend for a URL and a challenge, or each with a challenge   *)
(* of its own for a passkey's counter; challenges are handed out in order. *)
First == CHOOSE k \in Challenge : TRUE

OneChallenge == handed' \subseteq {First}

NoUrl == issued' = {} /\ (handed' # {} => First \in handed')

MCNext ==
  \/ OnlyRecords /\ R!Next
  \/ OnlyTokens /\ Next
  \/ OnlyCeremonies /\ A!Next /\ (OneChallenge \/ NoUrl)
  \/ OnlyAbroad /\ B!Next /\ OneChallenge

MCvars == <<machine, now, up, mem, chain, disk, linked, wire, writes,
            troubles, taken, marked, apart, early, family, news, minted, jar, page,
            conn, away, alone, left, pending, issued, challenges, handed,
            person, cred, grant, exchange, task, wrong, passed, again,
            skipped, session>>

Interchangeable ==
  Permutations(Exchange) \cup Permutations(Page) \cup Permutations(Inst)

MCSpec == MCInit /\ [][MCNext]_MCvars

-----------------------------------------------------------------------------
(* Two instances that have heard each other out hold the same records      *)
(* (RecordStore.merge, the snapshots of a link).                           *)
Converges == machine = "records" => R!Converges

(* A removal stands through kills, cuts and returning peers                *)
(* (RecordStore.accepts, fail).                                            *)
MarkStands == machine = "records" => R!MarkStands

(* A browser that asks one page at a time keeps its family, whatever       *)
(* replies it loses, and no value it was issued is taken for a stranger's  *)
(* (refreshToken, retire).                                                 *)
FamilyIsKept == machine = "tokens" => AloneIsNotFailed /\ RetiredIsRemembered

(* A URL's code and a challenge let one exchange through, wrong codes run  *)
(* out, and a passkey's counter only advances, whichever of the exchanges  *)
(* under way over it comes first (resolve, #used).                         *)
PassedOnce ==
  machine \in {"ceremonies", "abroad"} => A!SpentOnce /\ A!CountersAdvance

(* A session is answered over a passkey that was written down and was not  *)
(* already removed when its challenge was spent, and what is held open is  *)
(* admitted still (register, disconnect).                                  *)
SessionsAreBacked ==
  machine \in {"ceremonies", "abroad"} => A!AnsweredIsBacked /\ A!HeldIsAdmitted
=============================================================================
