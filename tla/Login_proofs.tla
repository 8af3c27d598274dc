----------------------------- MODULE Login_proofs -----------------------------
(***************************************************************************)
(* Proofs about Login, for every value of its constants: types, that a     *)
(* login token brings no more logins than verifications had it in hand at  *)
(* once, that a used one has made its user, and that a logout ends the     *)
(* sessions that are not renewed after it.                                 *)
(***************************************************************************)
EXTENDS Login, FiniteSetTheorems, TLAPS

\* What a request has in hand: a row that exists, and an e-mail, its owner's.
\* The user is there once the e-mail is being verified, and the token is no
\* longer pending once a request has marked it.
InProgress(r) ==
    LET x == request[r]
    IN  /\ x.phase = "none" => x.token = None /\ x.email = None
        /\ x.phase = "logout" => x.token = None /\ x.email \in Email
        /\ x.phase \notin {"none", "logout"} =>
             /\ x.token \in Token /\ x.email \in Email
             /\ x.email = token[x.token].email
             /\ token[x.token].status # "none"
        /\ x.phase \in {"verify", "issue"} => account[x.email].exists
        /\ x.phase \in {"find", "insert", "verify", "issue"} => token[x.token].status # "pending"

Requests == \A r \in Request : InProgress(r)

\* A row has an e-mail, and who is not there has no name.
Rows ==
    /\ \A t \in Token : token[t].status # "none" => token[t].email \in Email
    /\ \A e \in Email : ~account[e].exists => account[e].username = None

\* No login before the token is marked; from then on nobody takes it in hand,
\* so what is in hand may become logins and nothing else may.
Hands ==
    \A t \in Token :
        /\ token[t].status \in {"none", "pending"} => logins[t] = 0
        /\ logins[t] + Cardinality(InHand(t)) <= most[t]

\* A user whose e-mail is not verified has a request that is about to.
Verifying ==
    \A e \in Email :
        account[e].exists /\ ~account[e].verified =>
            \E r \in Request : request[r].phase = "verify" /\ request[r].email = e

\* A used token whose user does not exist has a request that is about to look
\* or to insert, or met a username that belongs to somebody.
Creating ==
    \A t \in Token :
        token[t].status = "used" /\ ~account[token[t].email].exists =>
            \/ Taken(token[t].username)
            \/ \E r \in Request : /\ request[r].phase \in {"find", "insert"}
                                  /\ request[r].token = t

\* What is written, or on its way, as the last logout of a user lies between
\* the moment it stays from and the latest one.
Leaving ==
    /\ \A e \in Email : /\ left[e] <= account[e].logoutAt /\ left[e] <= clock
                       /\ account[e].logoutAt <= last[e]
    /\ \A r \in Request : request[r].phase = "logout" =>
                            left[request[r].email] <= request[r].at /\ request[r].at <= clock

\* Only what is remembered is renewed.
Renewed == \A s \in sessions : ~s.remember => s.since = s.at

IInv ==
    /\ TypeOK
    /\ Requests /\ Rows /\ Hands
    /\ faults = 0 => Verifying /\ Creating
    /\ Leaving /\ Renewed

-----------------------------------------------------------------------------
Rec == [phase: Phase, token: Token \cup {None}, email: Email \cup {None}, at: Nat]

\* What is in hand after request r has become x.
LEMMA HandOf ==
    ASSUME request \in [Request -> Rec], NEW r \in Request, NEW x,
           request' = [request EXCEPT ![r] = x], NEW t \in Token
    PROVE  /\ IsFiniteSet(InHand(t)) /\ Cardinality(InHand(t)) \in Nat
           /\ x.token = t => InHand(t)' = InHand(t) \cup {r}
           /\ x.token # t => InHand(t)' = InHand(t) \ {r}
           /\ r \in InHand(t) <=> request[r].token = t
<1>1. IsFiniteSet(InHand(t))
  BY LoginAssumption, FS_Subset DEF InHand
<1>2. Cardinality(InHand(t)) \in Nat
  BY <1>1, FS_CardinalityType
<1> QED BY <1>1, <1>2 DEF InHand

\* A request that goes on with its token, or drops it: what is in hand does
\* not grow.
LEMMA HandsShrink ==
    ASSUME request \in [Request -> Rec], NEW r \in Request, NEW x,
           request' = [request EXCEPT ![r] = x], NEW t \in Token,
           x.token = t => request[r].token = t
    PROVE  /\ Cardinality(InHand(t)) \in Nat /\ Cardinality(InHand(t)') \in Nat
           /\ Cardinality(InHand(t)') <= Cardinality(InHand(t))
           /\ request[r].token = t /\ x.token # t =>
                Cardinality(InHand(t)') = Cardinality(InHand(t)) - 1
<1>1. /\ IsFiniteSet(InHand(t)) /\ Cardinality(InHand(t)) \in Nat
      /\ x.token = t => InHand(t)' = InHand(t) \cup {r}
      /\ x.token # t => InHand(t)' = InHand(t) \ {r}
      /\ r \in InHand(t) <=> request[r].token = t
  BY HandOf
<1>2. CASE x.token = t
  <2>1. InHand(t)' = InHand(t)
    BY <1>1, <1>2
  <2> QED BY <1>1, <1>2, <2>1
<1>3. CASE x.token # t /\ request[r].token = t
  <2>1. Cardinality(InHand(t) \ {r}) = Cardinality(InHand(t)) - 1
    BY <1>1, <1>3, FS_RemoveElement
  <2>2. Cardinality(InHand(t) \ {r}) \in Nat
    <3>1. IsFiniteSet(InHand(t) \ {r})
      BY <1>1, FS_Subset
    <3> QED BY <3>1, FS_CardinalityType
  <2> QED BY <1>1, <1>3, <2>1, <2>2
<1>4. CASE x.token # t /\ request[r].token # t
  <2>1. InHand(t)' = InHand(t)
    BY <1>1, <1>4
  <2> QED BY <1>1, <1>4, <2>1
<1> QED BY <1>2, <1>3, <1>4

\* Second cuts a tick to whole seconds.
LEMMA Seconds ==
    ASSUME NEW a \in Nat
    PROVE  /\ Second(a) \in Nat
           /\ Second(a) * PerSecond <= a
           /\ a < Second(a) * PerSecond + PerSecond
<1>1. PerSecond \in Nat /\ PerSecond > 0
  BY LoginAssumption
<1> DEFINE q == a \div PerSecond
           m == a % PerSecond
<1>2. q \in Int /\ m \in Int /\ a = PerSecond * q + m /\ 0 <= m /\ m < PerSecond
  BY <1>1
<1>3. q >= 0
  BY <1>1
<1>4. PerSecond * q = q * PerSecond
  BY <1>1, <1>2
<1> QED BY <1>1, <1>2, <1>3, <1>4 DEF Second

LEMMA LaterSecond ==
    ASSUME NEW a \in Nat, NEW b \in Nat, Second(a) > Second(b)
    PROVE  Second(a) * PerSecond > b
<1>1. /\ Second(a) \in Nat /\ Second(b) \in Nat /\ PerSecond \in Nat
      /\ b < Second(b) * PerSecond + PerSecond
  BY Seconds, LoginAssumption
<1>2. PICK p \in Nat, q \in Nat, d \in Nat : p = Second(a) /\ q = Second(b) /\ d = PerSecond
  BY <1>1
<1>3. PICK k \in Nat : p = q + 1 + k
  <2>1. p - q - 1 \in Nat /\ p = q + 1 + (p - q - 1)
    BY <1>2
  <2> QED BY <2>1
<1>4. p * d = q * d + d + k * d
  BY <1>3
<1>5. k * d >= 0 /\ k * d \in Nat /\ q * d \in Nat /\ p * d \in Nat
  OBVIOUS
<1> QED BY <1>1, <1>2, <1>4, <1>5

-----------------------------------------------------------------------------
(* The steps.                                                               *)

LEMMA TickKeeps ==
    ASSUME IInv, Tick
    PROVE  IInv'
<1>1. clock' \in PerSecond..MaxClock /\ clock <= clock'
  BY LoginAssumption DEF Tick, IInv, TypeOK
<1>2. UNCHANGED <<token, account, sessions, request, faults, logins, most, left, last>>
  BY DEF Tick, history
<1>3. sessions \subseteq {s \in Session : s.since <= s.at /\ s.at <= clock' /\ account[s.email].exists}
  <2> SUFFICES ASSUME NEW s \in sessions
               PROVE  s \in Session /\ s.since <= s.at /\ s.at <= clock' /\ account[s.email].exists
    OBVIOUS
  <2>1. s \in Session /\ s.since <= s.at /\ s.at <= clock /\ s.at \in Nat /\ account[s.email].exists
    BY DEF IInv, TypeOK, Session
  <2>2. clock \in Nat /\ clock' \in Nat
    BY <1>1, LoginAssumption DEF IInv, TypeOK
  <2> QED BY <1>1, <2>1, <2>2
<1>4. TypeOK'
  BY <1>1, <1>2, <1>3 DEF IInv, TypeOK
<1>5. Leaving'
  <2>1. clock \in Nat /\ clock' \in Nat /\ left \in [Email -> Nat]
        /\ \A r \in Request : request[r].at \in Nat
    BY <1>1, LoginAssumption DEF IInv, TypeOK
  <2> QED BY <1>1, <1>2, <2>1 DEF IInv, Leaving
<1> QED BY <1>2, <1>4, <1>5
  DEF IInv, Requests, InProgress, Rows, Hands, InHand, Verifying, Creating, Taken, Renewed

\* A row is written for a token nobody can have in hand yet.
LEMMA RequestLoginKeeps ==
    ASSUME IInv, NEW t \in Token, NEW e \in Email, NEW u \in Username \cup {None},
           RequestLogin(t, e, u)
    PROVE  IInv'
<1>1. /\ token[t].status = "none"
      /\ UNCHANGED <<clock, account, sessions, request, faults, logins, most, left, last>>
      /\ \A x \in Token : x # t => token'[x] = token[x]
      /\ token'[t].email = e /\ token'[t].username = u /\ token'[t].status = "pending"
  BY DEF RequestLogin, history, IInv, TypeOK
<1>2. clock \in Nat /\ clock + Minute * PerSecond \in Nat
  <2>1. clock \in Nat /\ Minute \in Nat /\ PerSecond \in Nat
    BY LoginAssumption DEF IInv, TypeOK
  <2>2. Minute * PerSecond \in Nat
    BY <2>1
  <2> QED BY <2>1, <2>2
<1>3. TypeOK'
  BY <1>1, <1>2 DEF RequestLogin, IInv, TypeOK
<1>4. \A r \in Request : request[r].token # t
  <2>1. \A r \in Request : request[r].token \in Token => request[r].phase \notin {"none", "logout"}
    BY LoginAssumption DEF IInv, Requests, InProgress
  <2> QED BY <1>1, <2>1 DEF IInv, Requests, InProgress
<1>5. Requests'
  BY <1>1, <1>4 DEF IInv, Requests, InProgress
<1>6. Rows' /\ Hands'
  BY <1>1 DEF IInv, Rows, Hands, InHand
<1>7. faults' = 0 => Verifying' /\ Creating'
  BY <1>1 DEF IInv, Verifying, Creating, Taken
<1>8. Leaving' /\ Renewed'
  BY <1>1 DEF IInv, Leaving, Renewed
<1> QED BY <1>3, <1>5, <1>6, <1>7, <1>8 DEF IInv

LEMMA SelectPendingKeeps ==
    ASSUME IInv, NEW r \in Request, NEW t \in Token, SelectPending(r, t)
    PROVE  IInv'
<1>1. PICK x : /\ x = [Idle EXCEPT !.phase = "check", !.token = t, !.email = token[t].email]
               /\ request' = [request EXCEPT ![r] = x]
  BY DEF SelectPending
<1>2. /\ request[r].phase = "none" /\ token[t].status = "pending"
      /\ request \in [Request -> Rec] /\ request[r].token = None
      /\ token[t].email \in Email
      /\ UNCHANGED <<clock, token, account, sessions, faults, logins, left, last>>
      /\ most' = [most EXCEPT ![t] = IF Cardinality(InHand(t)) >= @ THEN @ + 1 ELSE @]
  BY DEF SelectPending, IInv, TypeOK, Rec, Rows, Requests, InProgress
<1>3. /\ x \in Rec /\ x.phase = "check" /\ x.token = t /\ x.email = token[t].email
  BY <1>1, <1>2 DEF Idle, Rec, Phase
<1>4. request'[r] = x /\ \A q \in Request : q # r => request'[q] = request[q]
  BY <1>1, <1>2
<1>5. TypeOK'
  <2>1. most' \in [Token -> Nat]
    BY <1>2 DEF IInv, TypeOK
  <2>2. request' \in [Request -> Rec]
    BY <1>1, <1>2, <1>3
  <2> QED BY <1>2, <2>1, <2>2 DEF IInv, TypeOK, Rec
<1>6. Requests' /\ Rows' /\ Leaving' /\ Renewed'
  BY <1>2, <1>3, <1>4 DEF IInv, Requests, InProgress, Rows, Leaving, Renewed
<1>7. Hands'
  <2> SUFFICES ASSUME NEW k \in Token
               PROVE  /\ token'[k].status \in {"none", "pending"} => logins'[k] = 0
                      /\ logins'[k] + Cardinality(InHand(k)') <= most'[k]
    BY DEF Hands
  <2>1. /\ token[k].status \in {"none", "pending"} => logins[k] = 0
        /\ logins[k] + Cardinality(InHand(k)) <= most[k]
        /\ logins[k] \in Nat /\ most[k] \in Nat
    BY DEF IInv, Hands, TypeOK
  <2>2. IsFiniteSet(InHand(k)) /\ Cardinality(InHand(k)) \in Nat
    BY <1>1, <1>2, HandOf
  <2>3. CASE k = t
    <3>1. InHand(k)' = InHand(k) \cup {r} /\ r \notin InHand(k)
      BY <1>1, <1>2, <1>3, <2>3, LoginAssumption, HandOf
    <3>2. Cardinality(InHand(k)') = Cardinality(InHand(k)) + 1
      BY <2>2, <3>1, FS_AddElement
    <3>3. most'[k] = IF Cardinality(InHand(k)) >= most[k] THEN most[k] + 1 ELSE most[k]
      BY <1>2, <2>3 DEF IInv, TypeOK
    <3>4. logins[k] = 0
      BY <1>2, <2>1, <2>3
    <3> QED BY <1>2, <2>1, <2>2, <3>2, <3>3, <3>4
  <2>4. CASE k # t
    <3>1. InHand(k)' = InHand(k)
      <4>1. x.token # k /\ request[r].token # k
        BY <1>2, <1>3, <2>4, LoginAssumption
      <4> QED BY <1>1, <1>2, <4>1 DEF InHand
    <3>2. most'[k] = most[k]
      BY <1>2, <2>4 DEF IInv, TypeOK
    <3> QED BY <1>2, <2>1, <3>1, <3>2
  <2> QED BY <2>3, <2>4
<1>8. faults' = 0 => Verifying' /\ Creating'
  BY <1>2, <1>3, <1>4 DEF IInv, Verifying, Creating, Taken
<1> QED BY <1>5, <1>6, <1>7, <1>8 DEF IInv

\* Hands, for a step of r that adds no login and marks no token pending.
LEMMA HandsKept ==
    ASSUME IInv, NEW r \in Request, NEW x, request' = [request EXCEPT ![r] = x],
           \A t \in Token : x.token = t => request[r].token = t,
           UNCHANGED <<logins, most>>,
           \A t \in Token : token'[t].status \in {"none", "pending"} => token'[t].status = token[t].status
    PROVE  Hands'
<1> SUFFICES ASSUME NEW t \in Token
             PROVE  /\ token'[t].status \in {"none", "pending"} => logins'[t] = 0
                    /\ logins'[t] + Cardinality(InHand(t)') <= most'[t]
  BY DEF Hands
<1>1. /\ token[t].status \in {"none", "pending"} => logins[t] = 0
      /\ logins[t] + Cardinality(InHand(t)) <= most[t]
      /\ logins[t] \in Nat /\ most[t] \in Nat
      /\ request \in [Request -> Rec]
  BY DEF IInv, Hands, TypeOK, Rec
<1>2. /\ Cardinality(InHand(t)) \in Nat /\ Cardinality(InHand(t)') \in Nat
      /\ Cardinality(InHand(t)') <= Cardinality(InHand(t))
  BY <1>1, HandsShrink
<1> QED BY <1>1, <1>2

\* What a request that verifies a token has in hand.
LEMMA Verification ==
    ASSUME IInv, NEW r \in Request, request[r].phase \notin {"none", "logout"}
    PROVE  /\ request \in [Request -> Rec] /\ request[r] \in Rec
           /\ request[r].token \in Token /\ request[r].token # None
           /\ request[r].email \in Email
           /\ request[r].email = token[request[r].token].email
           /\ token[request[r].token].status # "none"
BY LoginAssumption DEF IInv, Requests, InProgress, TypeOK, Rec

\* What request r becomes when it goes on, and when it ends.
LEMMA GotoBecomes ==
    ASSUME request \in [Request -> Rec], NEW r \in Request, NEW phase \in Phase, Goto(r, phase)
    PROVE  \E x \in Rec :
             /\ request' = [request EXCEPT ![r] = x]
             /\ x.phase = phase /\ x.token = request[r].token /\ x.email = request[r].email
             /\ x.at = request[r].at
             /\ request'[r] = x /\ \A q \in Request : q # r => request'[q] = request[q]
             /\ request' \in [Request -> Rec]
<1>1. PICK x : x = [request[r] EXCEPT !.phase = phase]
  OBVIOUS
<1>2. request' = [request EXCEPT ![r] = x]
  BY <1>1 DEF Goto
<1>3. /\ x \in Rec /\ x.phase = phase /\ x.token = request[r].token
      /\ x.email = request[r].email /\ x.at = request[r].at
  BY <1>1 DEF Rec
<1> QED BY <1>2, <1>3

LEMMA EndsBecomes ==
    ASSUME request \in [Request -> Rec], NEW r \in Request, Ends(r)
    PROVE  /\ Idle \in Rec /\ Idle.phase = "none" /\ Idle.token = None /\ Idle.email = None
           /\ request' = [request EXCEPT ![r] = Idle]
           /\ request'[r] = Idle /\ \A q \in Request : q # r => request'[q] = request[q]
           /\ request' \in [Request -> Rec]
<1>1. Idle \in Rec /\ Idle.phase = "none" /\ Idle.token = None /\ Idle.email = None
  BY DEF Idle, Rec, Phase
<1> QED BY <1>1 DEF Ends

\* Leaving, for a step that begins no logout and writes none.
LEMMA LeavingKept ==
    ASSUME IInv, NEW r \in Request, request'[r].phase # "logout",
           \A q \in Request : q # r => request'[q] = request[q],
           UNCHANGED <<clock, left, last>>,
           \A e \in Email : account'[e].logoutAt = account[e].logoutAt
    PROVE  Leaving'
BY DEF IInv, Leaving

LEMMA CheckExpiryKeeps ==
    ASSUME IInv, NEW r \in Request, CheckExpiry(r)
    PROVE  IInv'
<1>1. /\ request[r].phase = "check"
      /\ UNCHANGED <<clock, token, account, sessions, faults, logins, most, left, last>>
  BY DEF CheckExpiry, history
<1>2. /\ request \in [Request -> Rec] /\ request[r].token \in Token
      /\ request[r].email \in Email /\ request[r].email = token[request[r].token].email
      /\ token[request[r].token].status # "none"
  BY <1>1, Verification
<1>3. PICK phase \in {"expire", "mark"} : Goto(r, phase)
  BY DEF CheckExpiry
<1>4. PICK x \in Rec :
        /\ request' = [request EXCEPT ![r] = x]
        /\ x.phase = phase /\ x.token = request[r].token /\ x.email = request[r].email
        /\ request'[r] = x /\ \A q \in Request : q # r => request'[q] = request[q]
        /\ request' \in [Request -> Rec]
  <2>1. phase \in Phase
    BY DEF Phase
  <2> QED BY <1>2, <1>3, <2>1, GotoBecomes
<1>5. TypeOK'
  BY <1>1, <1>4 DEF IInv, TypeOK, Rec
<1>6. Requests' /\ Rows' /\ Leaving' /\ Renewed'
  BY <1>1, <1>2, <1>4 DEF IInv, Requests, InProgress, Rows, Leaving, Renewed
<1>7. Hands'
  BY <1>1, <1>4, HandsKept
<1>8. faults' = 0 => Verifying' /\ Creating'
  BY <1>1, <1>4 DEF IInv, Verifying, Creating, Taken
<1> QED BY <1>5, <1>6, <1>7, <1>8 DEF IInv

\* What SetStatus writes.
LEMMA StatusBecomes ==
    ASSUME IInv, NEW r \in Request, request[r].token \in Token,
           NEW status \in {"used", "expired"}, SetStatus(r, status)
    PROVE  /\ token'[request[r].token].status = status
           /\ \A t \in Token :
                /\ token'[t].email = token[t].email /\ token'[t].username = token[t].username
                /\ t # request[r].token => token'[t] = token[t]
           /\ token' \in [Token -> [email: Email \cup {None}, username: Username \cup {None},
                            status: {"none", "pending", "used", "expired"}, expiresAt: Nat]]
<1>1. token \in [Token -> [email: Email \cup {None}, username: Username \cup {None},
                            status: {"none", "pending", "used", "expired"}, expiresAt: Nat]]
  BY DEF IInv, TypeOK
<1> QED BY <1>1 DEF SetStatus

LEMMA MarkExpiredKeeps ==
    ASSUME IInv, NEW r \in Request, MarkExpired(r)
    PROVE  IInv'
<1>1. /\ request[r].phase = "expire" /\ SetStatus(r, "expired") /\ Ends(r)
      /\ UNCHANGED <<clock, account, sessions, faults, logins, most, left, last>>
  BY DEF MarkExpired, history
<1>2. /\ request \in [Request -> Rec] /\ request[r].token \in Token
  BY <1>1, Verification
<1>3. /\ Idle \in Rec /\ Idle.phase = "none" /\ Idle.token = None /\ Idle.email = None
      /\ request' = [request EXCEPT ![r] = Idle]
      /\ request'[r] = Idle /\ \A q \in Request : q # r => request'[q] = request[q]
      /\ request' \in [Request -> Rec]
  BY <1>1, <1>2, EndsBecomes
<1>4. /\ token'[request[r].token].status = "expired"
      /\ \A t \in Token :
           /\ token'[t].email = token[t].email /\ token'[t].username = token[t].username
           /\ t # request[r].token => token'[t] = token[t]
      /\ token' \in [Token -> [email: Email \cup {None}, username: Username \cup {None},
                            status: {"none", "pending", "used", "expired"}, expiresAt: Nat]]
  BY <1>1, <1>2, StatusBecomes
<1>5. TypeOK'
  BY <1>1, <1>3, <1>4 DEF IInv, TypeOK, Rec
<1>6. Requests'
  BY <1>1, <1>3, <1>4 DEF IInv, Requests, InProgress
<1>7. Rows' /\ Leaving' /\ Renewed'
  <2>1. token[request[r].token].status # "none"
    BY <1>1, Verification
  <2>2. Leaving'
    BY <1>1, <1>3, LeavingKept
  <2> QED BY <1>1, <1>2, <1>4, <2>1, <2>2 DEF IInv, Rows, Renewed
<1>8. Hands'
  <2>1. \A t \in Token : token'[t].status \in {"none", "pending"} => token'[t].status = token[t].status
    BY <1>2, <1>4
  <2>2. \A t \in Token : Idle.token = t => request[r].token = t
    BY <1>3, LoginAssumption
  <2>3. PICK x : x = Idle
    OBVIOUS
  <2>4. /\ request' = [request EXCEPT ![r] = x]
        /\ \A t \in Token : x.token = t => request[r].token = t
    BY <1>3, <2>2, <2>3
  <2>5. UNCHANGED <<logins, most>>
    BY <1>1
  <2> QED BY <2>1, <2>4, <2>5, HandsKept
<1>9. faults' = 0 => Verifying' /\ Creating'
  BY <1>1, <1>3, <1>4 DEF IInv, Verifying, Creating, Taken
<1> QED BY <1>5, <1>6, <1>7, <1>8, <1>9 DEF IInv

LEMMA MarkUsedKeeps ==
    ASSUME IInv, NEW r \in Request, MarkUsed(r)
    PROVE  IInv'
<1>1. /\ request[r].phase = "mark" /\ SetStatus(r, "used") /\ Goto(r, "find")
      /\ UNCHANGED <<clock, account, sessions, faults, logins, most, left, last>>
  BY DEF MarkUsed, history
<1>2. /\ request \in [Request -> Rec] /\ request[r].token \in Token
      /\ request[r].email \in Email /\ request[r].email = token[request[r].token].email
      /\ token[request[r].token].status # "none"
  BY <1>1, Verification
<1>3. PICK x \in Rec :
        /\ request' = [request EXCEPT ![r] = x]
        /\ x.phase = "find" /\ x.token = request[r].token /\ x.email = request[r].email
        /\ request'[r] = x /\ \A q \in Request : q # r => request'[q] = request[q]
        /\ request' \in [Request -> Rec]
  <2>1. "find" \in Phase
    BY DEF Phase
  <2> QED BY <1>1, <1>2, <2>1, GotoBecomes
<1>4. /\ token'[request[r].token].status = "used"
      /\ \A t \in Token :
           /\ token'[t].email = token[t].email /\ token'[t].username = token[t].username
           /\ t # request[r].token => token'[t] = token[t]
      /\ token' \in [Token -> [email: Email \cup {None}, username: Username \cup {None},
                            status: {"none", "pending", "used", "expired"}, expiresAt: Nat]]
  BY <1>1, <1>2, StatusBecomes
<1>5. TypeOK'
  BY <1>1, <1>3, <1>4 DEF IInv, TypeOK, Rec
<1>6. Requests'
  BY <1>1, <1>2, <1>3, <1>4 DEF IInv, Requests, InProgress
<1>7. Rows' /\ Leaving' /\ Renewed'
  <2>1. Leaving'
    BY <1>1, <1>3, LeavingKept
  <2> QED BY <1>1, <1>2, <1>4, <2>1 DEF IInv, Rows, Renewed
<1>8. Hands'
  <2>1. \A t \in Token : token'[t].status \in {"none", "pending"} => token'[t].status = token[t].status
    BY <1>2, <1>4
  <2>2. UNCHANGED <<logins, most>>
    BY <1>1
  <2>3. /\ request' = [request EXCEPT ![r] = x]
        /\ \A t \in Token : x.token = t => request[r].token = t
    BY <1>3
  <2> QED BY <2>1, <2>2, <2>3, HandsKept
<1>9. faults' = 0 => Verifying' /\ Creating'
  BY <1>1, <1>3, <1>4 DEF IInv, Verifying, Creating, Taken
<1> QED BY <1>5, <1>6, <1>7, <1>8, <1>9 DEF IInv

LEMMA FindUserKeeps ==
    ASSUME IInv, NEW r \in Request, FindUser(r)
    PROVE  IInv'
<1>1. /\ request[r].phase = "find"
      /\ UNCHANGED <<clock, token, account, sessions, faults, logins, most, left, last>>
  BY DEF FindUser, history
<1>2. /\ request \in [Request -> Rec] /\ request[r].token \in Token
      /\ request[r].email \in Email /\ request[r].email = token[request[r].token].email
      /\ token[request[r].token].status # "none"
  BY <1>1, Verification
<1>3. PICK phase \in {"insert", "verify", "issue"} :
        /\ Goto(r, phase)
        /\ phase = "insert" <=> ~account[request[r].email].exists
  BY DEF FindUser
<1>4. PICK x \in Rec :
        /\ request' = [request EXCEPT ![r] = x]
        /\ x.phase = phase /\ x.token = request[r].token /\ x.email = request[r].email
        /\ request'[r] = x /\ \A q \in Request : q # r => request'[q] = request[q]
        /\ request' \in [Request -> Rec]
  <2>1. phase \in Phase
    BY DEF Phase
  <2> QED BY <1>2, <1>3, <2>1, GotoBecomes
<1>5. TypeOK'
  BY <1>1, <1>4 DEF IInv, TypeOK, Rec
<1>6. Requests'
  BY <1>1, <1>2, <1>3, <1>4 DEF IInv, Requests, InProgress
<1>7. Rows' /\ Leaving' /\ Renewed'
  <2>1. x.phase # "logout"
    BY <1>4
  <2>2. Leaving'
    BY <1>1, <1>4, <2>1, LeavingKept
  <2> QED BY <1>1, <2>2 DEF IInv, Rows, Renewed
<1>8. Hands'
  BY <1>1, <1>4, HandsKept
<1>9. faults' = 0 => Verifying' /\ Creating'
  <2>1. faults = 0 => Verifying'
    BY <1>1, <1>4 DEF IInv, Verifying
  <2>2. faults = 0 => Creating'
    BY <1>1, <1>2, <1>3, <1>4 DEF IInv, Creating, Taken
  <2> QED BY <1>1, <2>1, <2>2
<1> QED BY <1>5, <1>6, <1>7, <1>8, <1>9 DEF IInv

\* A username, once somebody's, stays so; e-mail and username of the user
\* inserted are the token's.
LEMMA InsertUserKeeps ==
    ASSUME IInv, NEW r \in Request, InsertUser(r)
    PROVE  IInv'
<1> DEFINE e == request[r].email
           u == token[request[r].token].username
<1>1. /\ request[r].phase = "insert"
      /\ UNCHANGED <<clock, token, sessions, faults, logins, most, left, last>>
  BY DEF InsertUser, history
<1>2. /\ request \in [Request -> Rec] /\ request[r].token \in Token
      /\ request[r].email \in Email /\ request[r].email = token[request[r].token].email
      /\ token[request[r].token].status # "none"
  BY <1>1, Verification
<1>3. CASE (account[e].exists \/ Taken(u)) /\ Ends(r) /\ UNCHANGED account
  <2>1. /\ Idle \in Rec /\ Idle.phase = "none" /\ Idle.token = None /\ Idle.email = None
        /\ request' = [request EXCEPT ![r] = Idle]
        /\ request'[r] = Idle /\ \A q \in Request : q # r => request'[q] = request[q]
        /\ request' \in [Request -> Rec]
    BY <1>2, <1>3, EndsBecomes
  <2>2. TypeOK'
    BY <1>1, <1>3, <2>1 DEF IInv, TypeOK, Rec
  <2>3. Requests' /\ Rows' /\ Leaving' /\ Renewed'
    BY <1>1, <1>3, <2>1 DEF IInv, Requests, InProgress, Rows, Leaving, Renewed
  <2>4. Hands'
    <3>1. \A t \in Token : Idle.token = t => request[r].token = t
      BY <2>1, LoginAssumption
    <3>2. PICK x : x = Idle
      OBVIOUS
    <3>3. /\ request' = [request EXCEPT ![r] = x]
          /\ \A t \in Token : x.token = t => request[r].token = t
      BY <2>1, <3>1, <3>2
    <3> QED BY <1>1, <3>3, HandsKept
  <2>5. faults = 0 => Verifying'
    BY <1>1, <1>3, <2>1 DEF IInv, Verifying
  <2>6. faults = 0 => Creating'
    BY <1>1, <1>2, <1>3, <2>1 DEF IInv, Creating, Taken
  <2> QED BY <1>1, <2>2, <2>3, <2>4, <2>5, <2>6 DEF IInv
<1>4. CASE /\ ~account[e].exists /\ ~Taken(u) /\ Goto(r, "verify")
           /\ account' = [account EXCEPT ![e].exists = TRUE, ![e].username = u]
  <2>1. PICK x \in Rec :
          /\ request' = [request EXCEPT ![r] = x]
          /\ x.phase = "verify" /\ x.token = request[r].token /\ x.email = e
          /\ request'[r] = x /\ \A q \in Request : q # r => request'[q] = request[q]
          /\ request' \in [Request -> Rec]
    <3>1. "verify" \in Phase
      BY DEF Phase
    <3> QED BY <1>2, <1>4, <3>1, GotoBecomes
  <2>2. u \in Username \cup {None}
    BY <1>2 DEF IInv, TypeOK
  <2>3. /\ account'[e].exists = TRUE /\ account'[e].username = u
        /\ account'[e].verified = account[e].verified /\ account'[e].logoutAt = account[e].logoutAt
        /\ \A f \in Email : f # e => account'[f] = account[f]
        /\ account' \in [Email -> [exists: BOOLEAN, username: Username \cup {None},
                                   verified: BOOLEAN, logoutAt: Nat]]
    <3>1. account \in [Email -> [exists: BOOLEAN, username: Username \cup {None},
                                verified: BOOLEAN, logoutAt: Nat]]
      BY DEF IInv, TypeOK
    <3>2. PICK a : a = [account[e] EXCEPT !.exists = TRUE, !.username = u]
      OBVIOUS
    <3>3. account' = [account EXCEPT ![e] = a]
      BY <1>4, <3>2
    <3>0. e \in Email
      BY <1>2
    <3> HIDE DEF e, u
    <3>4. /\ a.exists = TRUE /\ a.username = u
          /\ a.verified = account[e].verified /\ a.logoutAt = account[e].logoutAt
          /\ a \in [exists: BOOLEAN, username: Username \cup {None},
                    verified: BOOLEAN, logoutAt: Nat]
      BY <2>2, <3>0, <3>1, <3>2
    <3> QED BY <3>0, <3>1, <3>3, <3>4
  <2>4. \A f \in Email : account[f].exists => account'[f].exists
    BY <2>3
  <2>5. \A n : Taken(n) => Taken(n)'
    <3> SUFFICES ASSUME NEW n, n # None, NEW f \in Email, account[f].username = n
                 PROVE  account'[f].username = n
      BY DEF Taken
    <3>1. f # e
      BY <1>2, <1>4 DEF IInv, Rows
    <3> QED BY <2>3, <3>1
  <2>6. TypeOK'
    <3>1. \A f, g \in Email :
            account'[f].username = account'[g].username /\ account'[f].username # None => f = g
      BY <1>4, <2>3 DEF Taken, IInv, TypeOK
    <3>2. sessions \subseteq {s \in Session : s.since <= s.at /\ s.at <= clock /\ account'[s.email].exists}
      BY <2>4 DEF IInv, TypeOK, Session
    <3> HIDE DEF e, u
    <3> QED BY <1>1, <2>1, <2>3, <3>1, <3>2 DEF IInv, TypeOK, Rec
  <2>7. Requests'
    BY <1>1, <1>2, <2>1, <2>3, <2>4 DEF IInv, Requests, InProgress
  <2>8. Rows' /\ Leaving' /\ Renewed'
    <3>1. \A f \in Email : account'[f].logoutAt = account[f].logoutAt
      BY <2>3
    <3>2. Leaving'
      BY <1>1, <2>1, <3>1, LeavingKept
    <3> QED BY <1>1, <2>3, <3>2 DEF IInv, Rows, Renewed
  <2>9. Hands'
    BY <1>1, <2>1, HandsKept
  <2>10. faults = 0 => Verifying'
    BY <1>2, <2>1, <2>3 DEF IInv, Verifying
  <2>11. faults = 0 => Creating'
    <3> SUFFICES ASSUME faults = 0, NEW t \in Token,
                        token[t].status = "used", ~account'[token[t].email].exists
                 PROVE  \/ Taken(token[t].username)'
                        \/ \E q \in Request : /\ request'[q].phase \in {"find", "insert"}
                                              /\ request'[q].token = t
      BY <1>1 DEF Creating
    <3>1. token[t].email \in Email
      BY DEF IInv, Rows
    <3>2. ~account[token[t].email].exists /\ token[t].email # e
      BY <2>3, <2>4, <3>1
    <3>3. CASE Taken(token[t].username)
      BY <1>1, <2>5, <3>3
    <3>4. ASSUME NEW q \in Request, request[q].phase \in {"find", "insert"}, request[q].token = t
          PROVE  request'[q].phase \in {"find", "insert"} /\ request'[q].token = t
      BY <1>2, <2>1, <3>2, <3>4
    <3> QED BY <3>2, <3>3, <3>4 DEF IInv, Creating
  <2> QED BY <1>1, <2>6, <2>7, <2>8, <2>9, <2>10, <2>11 DEF IInv
<1> QED BY <1>3, <1>4 DEF InsertUser

LEMMA VerifyEmailKeeps ==
    ASSUME IInv, NEW r \in Request, VerifyEmail(r)
    PROVE  IInv'
<1> DEFINE e == request[r].email
<1>1. /\ request[r].phase = "verify" /\ Goto(r, "issue")
      /\ account' = [account EXCEPT ![e].verified = TRUE]
      /\ UNCHANGED <<clock, token, sessions, faults, logins, most, left, last>>
  BY DEF VerifyEmail, history
<1>2. /\ request \in [Request -> Rec] /\ request[r].token \in Token
      /\ e \in Email /\ e = token[request[r].token].email
      /\ token[request[r].token].status # "none"
  BY <1>1, Verification
<1>3. PICK x \in Rec :
        /\ request' = [request EXCEPT ![r] = x]
        /\ x.phase = "issue" /\ x.token = request[r].token /\ x.email = e
        /\ request'[r] = x /\ \A q \in Request : q # r => request'[q] = request[q]
        /\ request' \in [Request -> Rec]
  <2>1. "issue" \in Phase
    BY DEF Phase
  <2> QED BY <1>1, <1>2, <2>1, GotoBecomes
<1>4. /\ account'[e].verified = TRUE
      /\ \A f \in Email : /\ account'[f].exists = account[f].exists
                          /\ account'[f].username = account[f].username
                          /\ account'[f].logoutAt = account[f].logoutAt
                          /\ f # e => account'[f] = account[f]
      /\ account' \in [Email -> [exists: BOOLEAN, username: Username \cup {None},
                                 verified: BOOLEAN, logoutAt: Nat]]
  <2>1. account \in [Email -> [exists: BOOLEAN, username: Username \cup {None},
                              verified: BOOLEAN, logoutAt: Nat]]
    BY DEF IInv, TypeOK
  <2> HIDE DEF e
  <2> QED BY <1>1, <1>2, <2>1
<1>5. \A n : Taken(n)' <=> Taken(n)
  BY <1>4 DEF Taken
<1>6. TypeOK'
  <2>1. \A f, g \in Email :
          account'[f].username = account'[g].username /\ account'[f].username # None => f = g
    BY <1>4 DEF IInv, TypeOK
  <2>2. sessions \subseteq {s \in Session : s.since <= s.at /\ s.at <= clock /\ account'[s.email].exists}
    BY <1>4 DEF IInv, TypeOK, Session
  <2> HIDE DEF e
  <2> QED BY <1>1, <1>3, <1>4, <2>1, <2>2 DEF IInv, TypeOK, Rec
<1>7. Requests'
  <2>1. token' = token
    BY <1>1
  <2>2. account'[e].exists /\ \A f \in Email : account'[f].exists = account[f].exists
    <3>1. InProgress(r)
      BY DEF IInv, Requests
    <3>2. account[e].exists
      BY <1>1, <3>1 DEF InProgress
    <3> HIDE DEF e
    <3> QED BY <1>2, <1>4, <3>2
  <2>3. InProgress(r)'
    <3>1. InProgress(r)
      BY DEF IInv, Requests
    <3> QED BY <1>1, <1>2, <1>3, <2>1, <2>2, <3>1 DEF InProgress
  <2>4. ASSUME NEW q \in Request, q # r
        PROVE  InProgress(q)'
    <3>1. InProgress(q) /\ request'[q] = request[q]
      BY <1>3, <2>4 DEF IInv, Requests
    <3> QED BY <2>1, <2>2, <3>1 DEF InProgress
  <2> QED BY <2>3, <2>4 DEF Requests
<1>8. Rows' /\ Leaving' /\ Renewed'
  <2>1. Leaving'
    BY <1>1, <1>3, <1>4, LeavingKept
  <2> QED BY <1>1, <1>4, <2>1 DEF IInv, Rows, Renewed
<1>9. Hands'
  BY <1>1, <1>3, HandsKept
<1>10. faults = 0 => Verifying'
  BY <1>2, <1>3, <1>4 DEF IInv, Verifying
<1>11. faults = 0 => Creating'
  <2>1. \A t \in Token : token[t].status = "used" => token[t].email \in Email
    BY DEF IInv, Rows
  <2>2. \A n : Taken(n)' <=> Taken(n)
    BY <1>5
  <2> QED BY <1>1, <1>3, <1>4, <2>1, <2>2 DEF IInv, Creating
<1> QED BY <1>1, <1>6, <1>7, <1>8, <1>9, <1>10, <1>11 DEF IInv

\* One login more, one verification in hand less.
LEMMA IssueTokensKeeps ==
    ASSUME IInv, NEW r \in Request, NEW remember \in BOOLEAN, IssueTokens(r, remember)
    PROVE  IInv'
<1> DEFINE k == request[r].token
           new == [email |-> request[r].email, since |-> clock, at |-> clock, remember |-> remember]
<1>1. /\ request[r].phase = "issue" /\ Ends(r)
      /\ sessions' = sessions \cup {new}
      /\ logins' = [logins EXCEPT ![k] = @ + 1]
      /\ UNCHANGED <<clock, token, account, faults, most, left, last>>
  BY DEF IssueTokens
<1>2. /\ request \in [Request -> Rec] /\ k \in Token /\ request[r].email \in Email
      /\ k # None
  BY <1>1, Verification
<1>3. /\ Idle \in Rec /\ Idle.phase = "none" /\ Idle.token = None /\ Idle.email = None
      /\ request' = [request EXCEPT ![r] = Idle]
      /\ request'[r] = Idle /\ \A q \in Request : q # r => request'[q] = request[q]
      /\ request' \in [Request -> Rec]
  BY <1>1, <1>2, EndsBecomes
<1>4. account[request[r].email].exists /\ token[k].status \notin {"none", "pending"}
  BY <1>1 DEF IInv, Requests, InProgress
<1>5. TypeOK'
  <2>1. new \in Session /\ new.since <= new.at /\ new.at <= clock /\ account[new.email].exists
    <3>1. clock \in Nat
      BY LoginAssumption DEF IInv, TypeOK
    <3> QED BY <1>2, <1>4, <3>1 DEF Session
  <2>2. sessions' \subseteq {s \in Session : s.since <= s.at /\ s.at <= clock /\ account[s.email].exists}
    BY <1>1, <2>1 DEF IInv, TypeOK
  <2>3. logins' \in [Token -> Nat]
    BY <1>1, <1>2 DEF IInv, TypeOK
  <2> HIDE DEF new, k
  <2> QED BY <1>1, <1>3, <2>2, <2>3 DEF IInv, TypeOK, Rec
<1>6. Requests' /\ Rows' /\ Leaving' /\ Renewed'
  <2>1. Leaving'
    BY <1>1, <1>3, LeavingKept
  <2>2. Renewed'
    <3>1. new.since = new.at
      OBVIOUS
    <3> QED BY <1>1, <3>1 DEF IInv, Renewed
  <2> HIDE DEF new, k
  <2> QED BY <1>1, <1>3, <2>1, <2>2 DEF IInv, Requests, InProgress, Rows
<1>7. Hands'
  <2> SUFFICES ASSUME NEW t \in Token
               PROVE  /\ token'[t].status \in {"none", "pending"} => logins'[t] = 0
                      /\ logins'[t] + Cardinality(InHand(t)') <= most'[t]
    BY DEF Hands
  <2>1. /\ token[t].status \in {"none", "pending"} => logins[t] = 0
        /\ logins[t] + Cardinality(InHand(t)) <= most[t]
        /\ logins[t] \in Nat /\ most[t] \in Nat
    BY DEF IInv, Hands, TypeOK
  <2>2. Idle.token = t => request[r].token = t
    BY <1>3, LoginAssumption
  <2>3. /\ Cardinality(InHand(t)) \in Nat /\ Cardinality(InHand(t)') \in Nat
        /\ Cardinality(InHand(t)') <= Cardinality(InHand(t))
        /\ k = t /\ Idle.token # t => Cardinality(InHand(t)') = Cardinality(InHand(t)) - 1
    BY <1>2, <1>3, <2>2, HandsShrink
  <2>4. CASE k = t
    <3>1. logins'[t] = logins[t] + 1
      BY <1>1, <1>2, <2>4 DEF IInv, TypeOK
    <3>2. Cardinality(InHand(t)') = Cardinality(InHand(t)) - 1
      BY <1>2, <1>3, <2>3, <2>4
    <3> QED BY <1>1, <1>4, <2>1, <2>3, <2>4, <3>1, <3>2
  <2>5. CASE k # t
    <3>1. logins'[t] = logins[t]
      BY <1>1, <2>5 DEF IInv, TypeOK
    <3> QED BY <1>1, <2>1, <2>3, <3>1
  <2> QED BY <2>4, <2>5
<1>8. faults' = 0 => Verifying' /\ Creating'
  BY <1>1, <1>3 DEF IInv, Verifying, Creating, Taken
<1> QED BY <1>5, <1>6, <1>7, <1>8 DEF IInv

LEMMA RefreshTokenKeeps ==
    ASSUME IInv, NEW s \in sessions, RefreshToken(s)
    PROVE  IInv'
<1>1. PICK new : new = [s EXCEPT !.at = clock]
  OBVIOUS
<1>2. /\ sessions' = sessions \cup {new}
      /\ UNCHANGED <<clock, token, account, request, faults, logins, most, left, last>>
  BY <1>1 DEF RefreshToken, history
<1>3. s \in Session /\ account[s.email].exists /\ clock \in Nat
  BY LoginAssumption DEF IInv, TypeOK
<1>4. /\ new \in Session /\ new.at = clock /\ new.email = s.email /\ new.since = s.since
      /\ new.remember
  BY <1>1, <1>3 DEF Session, RefreshToken
<1>5. sessions' \subseteq {x \in Session : x.since <= x.at /\ x.at <= clock /\ account[x.email].exists}
  <2>1. s.since <= s.at /\ s.at <= clock /\ s.since \in Nat /\ s.at \in Nat
    BY <1>3 DEF IInv, TypeOK, Session
  <2>2. new.since <= new.at
    BY <1>3, <1>4, <2>1
  <2>3. new.at <= clock /\ account[new.email].exists
    BY <1>3, <1>4
  <2> QED BY <1>2, <1>4, <2>2, <2>3 DEF IInv, TypeOK
<1>6. TypeOK'
  BY <1>2, <1>5 DEF IInv, TypeOK
<1>7. Renewed'
  BY <1>2, <1>4 DEF IInv, Renewed
<1> QED BY <1>2, <1>6, <1>7
  DEF IInv, Requests, InProgress, Rows, Hands, InHand, Verifying, Creating, Taken, Leaving

\* A logout takes the moment, which is no earlier than any before.
LEMMA LogoutKeeps ==
    ASSUME IInv, NEW r \in Request, NEW s \in sessions, Logout(r, s)
    PROVE  IInv'
<1>1. PICK x : x = [Idle EXCEPT !.phase = "logout", !.email = s.email, !.at = clock]
  OBVIOUS
<1>2. /\ request[r].phase = "none" /\ request' = [request EXCEPT ![r] = x]
      /\ UNCHANGED <<clock, token, account, sessions, faults, logins, most, left, last>>
  BY <1>1 DEF Logout, history
<1>3. s.email \in Email /\ clock \in Nat /\ request \in [Request -> Rec]
  BY LoginAssumption DEF IInv, TypeOK, Session, Rec
<1>4. x \in Rec /\ x.phase = "logout" /\ x.token = None /\ x.email = s.email /\ x.at = clock
  BY <1>1, <1>3 DEF Idle, Rec, Phase
<1>5. request'[r] = x /\ \A q \in Request : q # r => request'[q] = request[q]
  BY <1>2, <1>3
<1>6. TypeOK'
  <2>1. request' \in [Request -> Rec]
    BY <1>2, <1>3, <1>4
  <2> QED BY <1>2, <2>1 DEF IInv, TypeOK, Rec
<1>7. Requests' /\ Rows' /\ Leaving' /\ Renewed'
  BY <1>2, <1>3, <1>4, <1>5 DEF IInv, Requests, InProgress, Rows, Leaving, Renewed
<1>8. Hands'
  <2>1. \A t \in Token : x.token = t => request[r].token = t
    BY <1>4, LoginAssumption
  <2> QED BY <1>2, <2>1, HandsKept
<1>9. faults' = 0 => Verifying' /\ Creating'
  BY <1>2, <1>5 DEF IInv, Verifying, Creating, Taken
<1> QED BY <1>6, <1>7, <1>8, <1>9 DEF IInv

LEMMA UpdateLastLogoutKeeps ==
    ASSUME IInv, NEW r \in Request, UpdateLastLogout(r)
    PROVE  IInv'
<1>1. PICK e, at : e = request[r].email /\ at = request[r].at
  OBVIOUS
<1>2. /\ request[r].phase = "logout" /\ Ends(r)
      /\ account' = [account EXCEPT ![e].logoutAt = at]
      /\ last' = [last EXCEPT ![e] = IF at > @ THEN at ELSE @]
      /\ UNCHANGED <<clock, token, sessions, faults, logins, most>>
  BY <1>1 DEF UpdateLastLogout
<1>3. PICK least \in LeavingAt(e) :
         (\A m \in LeavingAt(e) : least <= m) /\ left' = [left EXCEPT ![e] = least]
  BY <1>1, <1>2 DEF UpdateLastLogout
<1>4. e \in Email /\ at \in Nat /\ request \in [Request -> Rec]
  BY <1>1, <1>2 DEF IInv, TypeOK, Requests, InProgress, Rec
<1>5. /\ Idle \in Rec /\ Idle.phase = "none" /\ Idle.token = None /\ Idle.email = None
      /\ request' = [request EXCEPT ![r] = Idle]
      /\ request'[r] = Idle /\ \A q \in Request : q # r => request'[q] = request[q]
      /\ request' \in [Request -> Rec]
  BY <1>2, <1>4, EndsBecomes
<1>6. /\ account'[e].logoutAt = at
      /\ \A f \in Email : /\ account'[f].exists = account[f].exists
                          /\ account'[f].username = account[f].username
                          /\ account'[f].verified = account[f].verified
                          /\ f # e => account'[f] = account[f]
      /\ account' \in [Email -> [exists: BOOLEAN, username: Username \cup {None},
                                 verified: BOOLEAN, logoutAt: Nat]]
  <2>1. account \in [Email -> [exists: BOOLEAN, username: Username \cup {None},
                              verified: BOOLEAN, logoutAt: Nat]]
    BY DEF IInv, TypeOK
  <2> QED BY <1>2, <1>4, <2>1
<1>7. /\ at \in LeavingAt(e) /\ \A m \in LeavingAt(e) : m \in Nat
       /\ least <= at /\ least \in Nat
  <2>1. at \in LeavingAt(e) /\ \A m \in LeavingAt(e) : m \in Nat
    BY <1>1, <1>2, <1>4 DEF LeavingAt, Rec
  <2> QED BY <1>3, <2>1
<1>8. /\ left'[e] = least /\ last'[e] \in Nat /\ at <= last'[e]
      /\ \A f \in Email : f # e => left'[f] = left[f] /\ last'[f] = last[f]
      /\ left' \in [Email -> Nat] /\ last' \in [Email -> Nat]
  <2>1. left \in [Email -> Nat] /\ last \in [Email -> Nat]
    BY DEF IInv, TypeOK
  <2>2. last'[e] = IF at > last[e] THEN at ELSE last[e]
    BY <1>2, <1>4, <2>1
  <2> QED BY <1>2, <1>4, <1>3, <1>7, <2>1, <2>2
<1>9. \A n : Taken(n)' <=> Taken(n)
  BY <1>6 DEF Taken
<1>10. TypeOK'
  <2>1. \A f, g \in Email :
          account'[f].username = account'[g].username /\ account'[f].username # None => f = g
    BY <1>6 DEF IInv, TypeOK
  <2>2. sessions \subseteq {s \in Session : s.since <= s.at /\ s.at <= clock /\ account'[s.email].exists}
    BY <1>6 DEF IInv, TypeOK, Session
  <2> QED BY <1>2, <1>5, <1>6, <1>8, <2>1, <2>2 DEF IInv, TypeOK, Rec
<1>11. Requests'
  BY <1>2, <1>5, <1>6 DEF IInv, Requests, InProgress
<1>12. Rows' /\ Renewed'
  BY <1>2, <1>6 DEF IInv, Rows, Renewed
<1>13. Leaving'
  <2>1. at <= clock /\ clock \in Nat
    BY <1>1, <1>2, LoginAssumption DEF IInv, Leaving, TypeOK
  <2>2. ASSUME NEW f \in Email
        PROVE  /\ left'[f] <= account'[f].logoutAt /\ left'[f] <= clock
               /\ account'[f].logoutAt <= last'[f]
    <3>1. CASE f = e
      BY <1>4, <1>6, <1>8, <1>7, <2>1, <3>1
    <3>2. CASE f # e
      BY <1>6, <1>8, <3>2 DEF IInv, Leaving
    <3> QED BY <3>1, <3>2
  <2>3. ASSUME NEW q \in Request, request'[q].phase = "logout"
        PROVE  left'[request'[q].email] <= request'[q].at /\ request'[q].at <= clock
    <3>1. /\ q # r /\ request'[q] = request[q] /\ request[q].email \in Email
          /\ left[request[q].email] <= request[q].at /\ request[q].at <= clock
      BY <1>5, <2>3 DEF IInv, Leaving, Requests, InProgress
    <3>2. CASE request[q].email = e
      BY <1>8, <1>3, <2>3, <3>1, <3>2 DEF LeavingAt
    <3>3. CASE request[q].email # e
      BY <1>8, <3>1, <3>3
    <3> QED BY <3>2, <3>3
  <2> QED BY <1>2, <2>2, <2>3 DEF Leaving
<1>14. Hands'
  <2>1. PICK x : x = Idle
    OBVIOUS
  <2>2. /\ request' = [request EXCEPT ![r] = x]
        /\ \A t \in Token : x.token = t => request[r].token = t
    BY <1>5, <2>1, LoginAssumption
  <2> QED BY <1>2, <2>2, HandsKept
<1>15. faults = 0 => Verifying'
  BY <1>2, <1>5, <1>6 DEF IInv, Verifying
<1>16. faults = 0 => Creating'
  <2>1. \A t \in Token : token[t].status = "used" => token[t].email \in Email
    BY DEF IInv, Rows
  <2> QED BY <1>2, <1>5, <1>6, <1>9, <2>1 DEF IInv, Creating
<1> QED BY <1>2, <1>10, <1>11, <1>12, <1>14, <1>15, <1>16, <1>13 DEF IInv

LEMMA FailsKeeps ==
    ASSUME IInv, NEW r \in Request, Fails(r)
    PROVE  IInv'
<1>1. /\ Ends(r) /\ faults < MaxFaults /\ faults' = faults + 1
      /\ UNCHANGED <<clock, token, account, sessions, logins, most, left, last>>
  BY DEF Fails, history
<1>2. request \in [Request -> Rec] /\ faults \in Nat /\ MaxFaults \in Nat
  BY LoginAssumption DEF IInv, TypeOK, Rec
<1>3. /\ Idle \in Rec /\ Idle.phase = "none" /\ Idle.token = None /\ Idle.email = None
      /\ request' = [request EXCEPT ![r] = Idle]
      /\ request'[r] = Idle /\ \A q \in Request : q # r => request'[q] = request[q]
      /\ request' \in [Request -> Rec]
  BY <1>1, <1>2, EndsBecomes
<1>4. faults' \in 0..MaxFaults /\ faults' # 0
  BY <1>1, <1>2
<1>5. TypeOK'
  BY <1>1, <1>3, <1>4 DEF IInv, TypeOK, Rec
<1>6. Requests' /\ Rows' /\ Leaving' /\ Renewed'
  BY <1>1, <1>3 DEF IInv, Requests, InProgress, Rows, Leaving, Renewed
<1>7. Hands'
  <2>1. PICK x : x = Idle
    OBVIOUS
  <2>2. /\ request' = [request EXCEPT ![r] = x]
        /\ \A t \in Token : x.token = t => request[r].token = t
    BY <1>3, <2>1, LoginAssumption
  <2> QED BY <1>1, <2>2, HandsKept
<1> QED BY <1>4, <1>5, <1>6, <1>7 DEF IInv

LEMMA InitHolds == Init => IInv
<1> SUFFICES ASSUME Init PROVE IInv
  OBVIOUS
<1>1. /\ clock = PerSecond /\ sessions = {} /\ faults = 0
      /\ \A t \in Token : token[t].status = "none" /\ token[t].email = None
      /\ \A e \in Email : /\ ~account[e].exists /\ account[e].username = None
                          /\ account[e].logoutAt = 0
      /\ \A r \in Request : request[r] = Idle
      /\ \A t \in Token : logins[t] = 0 /\ most[t] = 0
      /\ \A e \in Email : left[e] = 0 /\ last[e] = 0
  BY DEF Init
<1>2. Idle \in Rec /\ Idle.phase = "none" /\ Idle.token = None /\ Idle.email = None
  BY DEF Idle, Rec, Phase
<1>3. TypeOK
  <2>1. clock \in PerSecond..MaxClock /\ faults \in 0..MaxFaults
    BY <1>1, LoginAssumption
  <2>2. /\ token \in [Token -> [email: Email \cup {None}, username: Username \cup {None},
                            status: {"none", "pending", "used", "expired"}, expiresAt: Nat]]
        /\ account \in [Email -> [exists: BOOLEAN, username: Username \cup {None},
                              verified: BOOLEAN, logoutAt: Nat]]
        /\ request \in [Request -> Rec]
        /\ logins \in [Token -> Nat] /\ most \in [Token -> Nat] /\ left \in [Email -> Nat]
        /\ last \in [Email -> Nat]
    BY <1>2 DEF Init
  <2> QED BY <1>1, <2>1, <2>2 DEF TypeOK, Rec
<1>4. Requests /\ Rows /\ Verifying /\ Creating
  BY <1>1, <1>2 DEF Requests, InProgress, Rows, Verifying, Creating
<1>5. Leaving /\ Renewed
  BY <1>1, LoginAssumption DEF Leaving, Renewed, Idle
<1>6. Hands
  <2> SUFFICES ASSUME NEW t \in Token
               PROVE  logins[t] = 0 /\ logins[t] + Cardinality(InHand(t)) <= most[t]
    BY DEF Hands
  <2>1. InHand(t) = {}
    BY <1>1, <1>2, LoginAssumption DEF InHand
  <2> QED BY <1>1, <2>1, FS_EmptySet
<1> QED BY <1>3, <1>4, <1>6, <1>5 DEF IInv

-----------------------------------------------------------------------------
(* The theorems.                                                            *)

\* The inductive invariant, however requests, logouts and failures interleave.
THEOREM LoginInvariant == Spec => []IInv
<1>1. IInv /\ [Next]_vars => IInv'
  <2> SUFFICES ASSUME IInv, [Next]_vars PROVE IInv'
    OBVIOUS
  <2>1. CASE UNCHANGED vars
    BY <2>1 DEF vars, history, IInv, TypeOK, Requests, InProgress, Rows, Hands, InHand,
                Verifying, Creating, Taken, Leaving, Renewed
  <2>2. ASSUME NEW r \in Request, VerifyStep(r) PROVE IInv'
    BY <2>2, CheckExpiryKeeps, MarkExpiredKeeps, MarkUsedKeeps, FindUserKeeps,
       InsertUserKeeps, VerifyEmailKeeps, IssueTokensKeeps DEF VerifyStep
  <2> QED BY <2>1, <2>2, TickKeeps, RequestLoginKeeps, SelectPendingKeeps, RefreshTokenKeeps,
             LogoutKeeps, UpdateLastLogoutKeeps, FailsKeeps DEF Next
<1> QED BY <1>1, InitHolds, PTL DEF Spec

\* Every variable keeps its type; usernames stay unique, no session is of the
\* future or of nobody.
THEOREM LoginTypeCorrect == Spec => []TypeOK
<1>1. IInv => TypeOK
  BY DEF IInv
<1> QED BY <1>1, LoginInvariant, PTL

\* A login token brings as many logins as verifications had it in hand at
\* once, and none after that.
THEOREM LoginsAreBounded == Spec => []LoginsBounded
<1>1. IInv => LoginsBounded
  <2> SUFFICES ASSUME IInv, NEW t \in Token PROVE logins[t] <= most[t]
    BY DEF LoginsBounded
  <2>1. /\ logins[t] + Cardinality(InHand(t)) <= most[t]
        /\ logins[t] \in Nat /\ most[t] \in Nat
    BY DEF IInv, Hands, TypeOK
  <2>2. IsFiniteSet(InHand(t))
    BY LoginAssumption, FS_Subset DEF InHand
  <2>3. Cardinality(InHand(t)) \in Nat
    BY <2>2, FS_CardinalityType
  <2> QED BY <2>1, <2>3
<1> QED BY <1>1, LoginInvariant, PTL

\* A used token whose e-mail nobody has in hand has its user, verified, or
\* was used up on a username that is somebody else's.
THEOREM UsedTokensHaveUsers == Spec => []UsedTokenHasUser
<1>1. IInv => UsedTokenHasUser
  <2> SUFFICES ASSUME IInv, NEW t \in Token, token[t].status = "used", faults = 0,
                      \A r \in Request : request[r].email # token[t].email
               PROVE  \/ account[token[t].email].verified
                      \/ ~account[token[t].email].exists /\ Taken(token[t].username)
    BY DEF UsedTokenHasUser
  <2>1. token[t].email \in Email
    BY DEF IInv, Rows
  <2>2. CASE account[token[t].email].exists
    BY <2>1, <2>2 DEF IInv, Verifying
  <2>3. CASE ~account[token[t].email].exists
    <3>1. ASSUME NEW r \in Request, request[r].phase \in {"find", "insert"}, request[r].token = t
          PROVE  FALSE
      BY <3>1, Verification
    <3> QED BY <2>3, <3>1 DEF IInv, Creating
  <2> QED BY <2>2, <2>3
<1> QED BY <1>1, LoginInvariant, PTL

\* A session held since before a logout is accepted only if it was remembered
\* and renewed after it; one of a later second than every logout is accepted
\* until it expires.
THEOREM LogoutsEndSessions == Spec => []LogoutEndsSessions
<1>1. IInv => LogoutEndsSessions
  <2> SUFFICES ASSUME IInv, NEW s \in sessions
               PROVE  /\ VerifyToken(s) /\ s.since < left[s.email] =>
                           s.remember /\ left[s.email] <= s.at
                      /\ Unexpired(s) /\ Second(s.at) > Second(last[s.email]) => VerifyToken(s)
    BY DEF LogoutEndsSessions
  <2>1. /\ s.email \in Email /\ s.at \in Nat /\ s.since \in Nat
        /\ left[s.email] \in Nat /\ last[s.email] \in Nat
        /\ account[s.email].logoutAt \in Nat /\ PerSecond \in Nat
    BY LoginAssumption DEF IInv, TypeOK, Session
  <2>2. /\ left[s.email] <= account[s.email].logoutAt
        /\ account[s.email].logoutAt <= last[s.email]
    BY <2>1 DEF IInv, Leaving
  <2>3. PICK n \in Nat : n = Second(s.at) * PerSecond
    <3>1. Second(s.at) \in Nat
      BY <2>1, Seconds
    <3> QED BY <2>1, <3>1
  <2>4. ASSUME VerifyToken(s), s.since < left[s.email]
        PROVE  s.remember /\ left[s.email] <= s.at
    <3>1. n <= s.at
      BY <2>1, <2>3, Seconds
    <3>2. account[s.email].logoutAt <= n
      BY <2>1, <2>3, <2>4 DEF VerifyToken, LoggedOut
    <3>3. left[s.email] <= s.at /\ s.since # s.at
      BY <2>1, <2>2, <2>4, <3>1, <3>2
    <3> QED BY <3>3 DEF IInv, Renewed
  <2>5. ASSUME Unexpired(s), Second(s.at) > Second(last[s.email])
        PROVE  VerifyToken(s)
    <3>1. n > last[s.email]
      BY <2>1, <2>3, <2>5, LaterSecond
    <3>2. ~LoggedOut(s)
      BY <2>1, <2>2, <2>3, <3>1 DEF LoggedOut
    <3> QED BY <2>5, <3>2 DEF VerifyToken
  <2> QED BY <2>4, <2>5
<1> QED BY <1>1, LoginInvariant, PTL
=============================================================================
