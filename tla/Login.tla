--------------------------------- MODULE Login ---------------------------------
(***************************************************************************)
(* Sign-in by a link (AuthService and the part of UsersService it uses): a *)
(* login token is requested for an e-mail, verified once, and exchanged    *)
(* for an access and a refresh token, of which the second gets new ones; a *)
(* logout refuses what was issued before it, but not to be renewed.        *)
(* Verifications and logouts overlap between any two of their database     *)
(* calls, and a call may fail.                                             *)
(*                                                                         *)
(* Time is counted in ticks; PerSecond of them, in the code a thousand,    *)
(* make a second.  A user is named by the e-mail, which is unique.  What   *)
(* issueTokens signs is a session: the access token and the refresh token  *)
(* of one moment, and since when a login has been renewed by them.         *)
(***************************************************************************)
EXTENDS Integers, FiniteSets

CONSTANTS
    Email, Username,
    Token,          \* bound: login tokens
    Request,        \* bound: verifications and logouts at once
    PerSecond,      \* ticks in a second
    Minute, Week,   \* in seconds: life of a login and an access token, of a refresh token
    MaxClock,       \* bound: the last tick
    MaxSessions,    \* bound: sessions at which none is refreshed
    MaxFaults,      \* bound: database calls that fail
    None

ASSUME LoginAssumption ==
    /\ {PerSecond, Minute, Week} \subseteq Nat \ {0}
    /\ {MaxClock, MaxSessions, MaxFaults} \subseteq Nat /\ PerSecond <= MaxClock
    /\ None \notin Email \cup Username \cup Token /\ IsFiniteSet(Request)

VARIABLES
    clock,
    token,        \* the rows of auth_tokens
    account,      \* the rows of users
    sessions,     \* the tokens that clients hold
    request,      \* verifyLogin and logout in progress
    faults,       \* history: database calls that have failed
    logins,       \* history: sessions a login token has brought
    most,         \* history: the most verifications that had a token in hand at once
    left,         \* history: a logout of a user is done, and lastLogoutAt stays from here on
    last          \* history: the latest moment written to lastLogoutAt

history == <<logins, most, left, last>>
vars == <<clock, token, account, sessions, request, faults, history>>

Session == [email: Email, since: Nat, at: Nat, remember: BOOLEAN]
Phase == {"none", "check", "expire", "mark", "find", "insert", "verify", "issue", "logout"}

TypeOK ==
    /\ clock \in PerSecond..MaxClock
    /\ token \in [Token -> [email: Email \cup {None}, username: Username \cup {None},
                            status: {"none", "pending", "used", "expired"}, expiresAt: Nat]]
    /\ account \in [Email -> [exists: BOOLEAN, username: Username \cup {None},
                              verified: BOOLEAN, logoutAt: Nat]]
    /\ \A e, f \in Email :
           account[e].username = account[f].username /\ account[e].username # None => e = f
    /\ sessions \subseteq
         {s \in Session : s.since <= s.at /\ s.at <= clock /\ account[s.email].exists}
    /\ request \in [Request -> [phase: Phase, token: Token \cup {None},
                                email: Email \cup {None}, at: Nat]]
    /\ faults \in 0..MaxFaults
    /\ logins \in [Token -> Nat] /\ most \in [Token -> Nat]
    /\ left \in [Email -> Nat] /\ last \in [Email -> Nat]

Idle == [phase |-> "none", token |-> None, email |-> None, at |-> 0]

Init ==
    /\ clock = PerSecond
    /\ token = [t \in Token |->
                  [email |-> None, username |-> None, status |-> "none", expiresAt |-> 0]]
    /\ account = [e \in Email |->
                    [exists |-> FALSE, username |-> None, verified |-> FALSE, logoutAt |-> 0]]
    /\ sessions = {}
    /\ request = [r \in Request |-> Idle]
    /\ faults = 0
    /\ logins = [t \in Token |-> 0] /\ most = [t \in Token |-> 0]
    /\ left = [e \in Email |-> 0] /\ last = [e \in Email |-> 0]

Tick ==
    /\ clock < MaxClock
    /\ clock' = clock + 1
    /\ UNCHANGED <<token, account, sessions, request, faults, history>>

-----------------------------------------------------------------------------
(* What a signed token says.                                                *)

Second(tick) == tick \div PerSecond

\* jwt.verify: exp is iat plus the life of the token, in whole seconds.
Expired(s, life) == Second(clock) >= Second(s.at) + life

\* Mutant: both sides are cut to seconds.
LoggedOutBySecond(s) == Second(s.at) < Second(account[s.email].logoutAt)

\* iat is in seconds; times 1000 it is compared with the moment of the logout.
LoggedOut(s) == Second(s.at) * PerSecond < account[s.email].logoutAt

\* Neither lifetime is over: any signed token passes for an access token, the
\* refresh token, which every login gets, among them.
Unexpired(s) == ~Expired(s, Minute) \/ ~Expired(s, Week)

\* verifyToken, of one of the two tokens.  Users are never deleted.
VerifyToken(s) == s \in sessions /\ Unexpired(s) /\ ~LoggedOut(s)

-----------------------------------------------------------------------------
(* requestLogin, verifyLogin.                                               *)

\* Without a username the user must exist.  One step, since a user who exists
\* goes on to.
RequestLogin(t, e, u) ==
    /\ token[t].status = "none"
    /\ u = None => account[e].exists
    /\ token' = [token EXCEPT ![t] = [email |-> e, username |-> u, status |-> "pending",
                                      expiresAt |-> clock + Minute * PerSecond]]
    /\ UNCHANGED <<clock, account, sessions, request, faults, history>>

InHand(t) == {r \in Request : request[r].token = t}

\* The row is selected while it is pending.
SelectPending(r, t) ==
    /\ request[r].phase = "none" /\ token[t].status = "pending"
    /\ request' = [request EXCEPT ![r] = [Idle EXCEPT !.phase = "check", !.token = t,
                                              !.email = token[t].email]]
    /\ most' = [most EXCEPT ![t] = IF Cardinality(InHand(t)) >= @ THEN @ + 1 ELSE @]
    /\ UNCHANGED <<clock, token, account, sessions, faults, logins, left, last>>

Goto(r, phase) == request' = [request EXCEPT ![r].phase = phase]
Ends(r) == request' = [request EXCEPT ![r] = Idle]

CheckExpiry(r) ==
    /\ request[r].phase = "check"
    /\ Goto(r, IF token[request[r].token].expiresAt < clock THEN "expire" ELSE "mark")
    /\ UNCHANGED <<clock, token, account, sessions, faults, history>>

SetStatus(r, status) == token' = [token EXCEPT ![request[r].token].status = status]

MarkExpired(r) ==
    /\ request[r].phase = "expire"
    /\ SetStatus(r, "expired")
    /\ Ends(r)
    /\ UNCHANGED <<clock, account, sessions, faults, history>>

\* Mutant: the token stays pending.
MarkUsedNot(r) ==
    /\ request[r].phase = "mark"
    /\ Goto(r, "find")
    /\ UNCHANGED <<clock, token, account, sessions, faults, history>>

\* The update names the row, not the status it was selected with.
MarkUsed(r) ==
    /\ request[r].phase = "mark"
    /\ SetStatus(r, "used")
    /\ Goto(r, "find")
    /\ UNCHANGED <<clock, account, sessions, faults, history>>

\* findOrCreate looks the user up.  Every user has a username from the start
\* (only a token with one can create a user), so none is set here.
FindUser(r) ==
    /\ request[r].phase = "find"
    /\ LET user == account[request[r].email]
       IN  Goto(r, IF ~user.exists THEN "insert" ELSE IF user.verified THEN "issue" ELSE "verify")
    /\ UNCHANGED <<clock, token, account, sessions, faults, history>>

Taken(u) == u # None /\ \E e \in Email : account[e].username = u

\* Mutant: the index on usernames is left out.
InsertUserAnyName(r) ==
    /\ request[r].phase = "insert"
    /\ LET e == request[r].email
       IN  IF account[e].exists THEN Ends(r) /\ UNCHANGED account
           ELSE /\ account' = [account EXCEPT ![e].exists = TRUE,
                                              ![e].username = token[request[r].token].username]
                /\ Goto(r, "verify")
    /\ UNCHANGED <<clock, token, sessions, faults, history>>

\* It inserts the user, or throws: the e-mail is there by now, or the
\* username belongs to somebody.
InsertUser(r) ==
    /\ request[r].phase = "insert"
    /\ LET e == request[r].email
           u == token[request[r].token].username
       IN  IF account[e].exists \/ Taken(u) THEN Ends(r) /\ UNCHANGED account
           ELSE /\ account' = [account EXCEPT ![e].exists = TRUE, ![e].username = u]
                /\ Goto(r, "verify")
    /\ UNCHANGED <<clock, token, sessions, faults, history>>

\* Mutant: a user who has just been created is not verified.
VerifyEmailOfOthers(r) ==
    /\ request[r].phase = "verify"
    /\ Goto(r, "issue")
    /\ UNCHANGED <<clock, token, account, sessions, faults, history>>

VerifyEmail(r) ==
    /\ request[r].phase = "verify"
    /\ account' = [account EXCEPT ![request[r].email].verified = TRUE]
    /\ Goto(r, "issue")
    /\ UNCHANGED <<clock, token, sessions, faults, history>>

\* issueTokens, and the resolver hands them out.  Whether to remember the
\* session was asked with the request and is used only here.
IssueTokens(r, remember) ==
    /\ request[r].phase = "issue"
    /\ sessions' = sessions \cup {[email |-> request[r].email, since |-> clock, at |-> clock,
                                   remember |-> remember]}
    /\ logins' = [logins EXCEPT ![request[r].token] = @ + 1]
    /\ Ends(r)
    /\ UNCHANGED <<clock, token, account, faults, most, left, last>>

-----------------------------------------------------------------------------
(* refreshToken and logout.                                                 *)

\* Only the refresh token is looked at, not the last logout.  One step, since
\* the user looked up is always there.
RefreshToken(s) ==
    /\ s \in sessions /\ s.remember /\ ~Expired(s, Week)
    /\ Cardinality(sessions) < MaxSessions
    /\ sessions' = sessions \cup {[s EXCEPT !.at = clock]}
    /\ UNCHANGED <<clock, token, account, request, faults, history>>

LeavingAt(e) == {request[r].at : r \in {x \in Request : /\ request[x].phase = "logout"
                                                       /\ request[x].email = e}}

\* The context of the request verifies the token; the moment of the
\* logout is taken before the update is sent.
Logout(r, s) ==
    /\ request[r].phase = "none" /\ VerifyToken(s)
    /\ request' = [request EXCEPT ![r] = [Idle EXCEPT !.phase = "logout",
                                              !.email = s.email, !.at = clock]]
    /\ UNCHANGED <<clock, token, account, sessions, faults, history>>

\* An update still on its way may be of an earlier moment, and overwrite it.
UpdateLastLogout(r) ==
    /\ request[r].phase = "logout"
    /\ LET e == request[r].email
           at == request[r].at
       IN  /\ account' = [account EXCEPT ![e].logoutAt = at]
           /\ \E least \in LeavingAt(e) :
                 /\ \A m \in LeavingAt(e) : least <= m
                 /\ left' = [left EXCEPT ![e] = least]
           /\ last' = [last EXCEPT ![e] = IF at > @ THEN at ELSE @]
    /\ Ends(r)
    /\ UNCHANGED <<clock, token, sessions, faults, logins, most>>

\* A database call throws, and the request with it.  (A call that throws after
\* it has committed is one that succeeds with the next one failing.)
Fails(r) ==
    /\ request[r].phase \notin {"none", "check", "issue"}
    /\ faults < MaxFaults
    /\ faults' = faults + 1
    /\ Ends(r)
    /\ UNCHANGED <<clock, token, account, sessions, history>>

-----------------------------------------------------------------------------
VerifyStep(r) ==
    \/ CheckExpiry(r) \/ MarkExpired(r) \/ MarkUsed(r) \/ FindUser(r) \/ InsertUser(r)
    \/ VerifyEmail(r) \/ \E remember \in BOOLEAN : IssueTokens(r, remember)

Next ==
    \/ Tick
    \/ \E t \in Token, e \in Email, u \in Username \cup {None} : RequestLogin(t, e, u)
    \/ \E r \in Request :
           \/ \E t \in Token : SelectPending(r, t)
           \/ VerifyStep(r)
           \/ \E s \in sessions : Logout(r, s)
           \/ UpdateLastLogout(r)
           \/ Fails(r)
    \/ \E s \in sessions : RefreshToken(s)

Spec == Init /\ [][Next]_vars

-----------------------------------------------------------------------------
\* A used login token has made its user, with the e-mail verified, whatever
\* verifications of the same e-mail it met: unless a call failed, one is still
\* in hand, or the username asked for belongs to somebody else, in which case
\* the token is used up for nothing.
UsedTokenHasUser ==
    \A t \in Token :
        /\ token[t].status = "used" /\ faults = 0
        /\ \A r \in Request : request[r].email # token[t].email
        => LET user == account[token[t].email]
           IN  user.verified \/ (~user.exists /\ Taken(token[t].username))

\* The select and the update of a login token are two statements: it brings
\* as many logins as verifications had it in hand at one moment, never more.
LoginsBounded ==
    \A t \in Token : logins[t] <= most[t]

\* A logout ends the sessions of the user, however logouts overlap: what has
\* been held since before it is accepted only when the login was remembered and
\* refreshToken, which does not look at the last logout, has renewed it after
\* the logout.  It ends no more than those: what is issued in a later second
\* than any logout is accepted until it expires.
LogoutEndsSessions ==
    \A s \in sessions :
        /\ VerifyToken(s) /\ s.since < left[s.email] => s.remember /\ left[s.email] <= s.at
        /\ Unexpired(s) /\ Second(s.at) > Second(last[s.email]) => VerifyToken(s)
=============================================================================
