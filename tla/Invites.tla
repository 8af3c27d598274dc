------------------------------- MODULE Invites -------------------------------
(***************************************************************************)
(* InvitesService for ONE tool instance: its invites and its members, and  *)
(* the requests that create, accept, decline, revoke and list invites, or  *)
(* make somebody a member without one (ToolInstanceService.addMember).     *)
(* None of them is a transaction: a step is one database call of one       *)
(* request, and the steps of several requests interleave.  The instance    *)
(* may be deleted (the rows cascade) and a member removed in between.      *)
(*                                                                         *)
(* A request whose checks reject it changes nothing, so only the ones that *)
(* pass are steps.  The owner's requests are the owner's: ownership does   *)
(* not change here.                                                        *)
(***************************************************************************)
EXTENDS Naturals, FiniteSets

CONSTANTS
    User,        \* users who may be invited (an invitee email is its user)
    InviteId,    \* bound: invites ever created
    Request,     \* bound: requests in flight at once
    MaxFaults    \* bound: database calls that fail

ASSUME InvitesAssumption == MaxFaults \in Nat /\ IsFiniteSet(Request)

VARIABLES
    alive,       \* the tool instance's row exists
    invites,     \* the invite rows; status "none" when there is no row
    members,     \* the users with a toolInstanceMembers row
    request,     \* what each request in flight has read and does next
    notified,    \* the invites of which the owner got an 'invite_accepted'
    faults,      \* history: failed database calls
    removed,     \* history: users removed from the members
    added,       \* history: the members whose row addMember has inserted
    overlapped   \* history: invites that two requests had in hand at once

vars == <<alive, invites, members, request, notified, faults, removed, added, overlapped>>

Settled == {"accepted", "declined", "revoked", "expired"}

NoInvite == [status |-> "none", invitee |-> {}, late |-> FALSE]
Idle     == [phase |-> "idle", invites |-> {}, user |-> {}]

\* Phases, named for the database call that comes next.
Phase == {"idle", "existing", "insertInvite", "expire", "insertMember", "markAccepted",
          "notify", "instance", "markRevoked", "markDeclined", "addMember"}

TypeOK ==
    /\ alive \in BOOLEAN
    /\ invites \in [InviteId -> [status: {"none", "pending"} \cup Settled,
                                 invitee: SUBSET User, late: BOOLEAN]]
    /\ \A i \in InviteId : invites[i].invitee = {} <=> invites[i].status = "none"
    /\ members \subseteq User
    /\ request \in [Request -> [phase: Phase, invites: SUBSET InviteId, user: SUBSET User]]
    /\ notified \subseteq InviteId
    /\ faults \in Nat
    /\ removed \subseteq User
    /\ added \subseteq members
    /\ overlapped \subseteq InviteId

Init ==
    /\ alive = TRUE
    /\ invites = [i \in InviteId |-> NoInvite]
    /\ members = {}
    /\ request = [r \in Request |-> Idle]
    /\ notified = {}
    /\ faults = 0
    /\ removed = {}
    /\ added = {}
    /\ overlapped = {}

PendingFor(u) == {i \in InviteId : invites[i].status = "pending" /\ invites[i].invitee = {u}}

\* Mutant: a row that is gone comes back.
SetStatusOrInsert(i, s) == invites' = [invites EXCEPT ![i].status = s]

\* UPDATE ... WHERE id = i: nothing when the row is gone.
SetStatus(i, s) ==
    invites' = [invites EXCEPT ![i].status = IF @ = "none" THEN @ ELSE s]

\* Request r has made its read and goes on; whatever another request holds
\* as well is overlapped from now on.
Begin(r, phase, is, us) ==
    /\ request[r] = Idle
    /\ request' = [request EXCEPT ![r] = [phase |-> phase, invites |-> is, user |-> us]]
    /\ overlapped' = overlapped \cup {i \in is : \E q \in Request : i \in request[q].invites}

GoOn(r, phase) == request' = [request EXCEPT ![r].phase = phase]
End(r)         == request' = [request EXCEPT ![r] = Idle]

\* A database call fails.
Fault == faults < MaxFaults /\ faults' = faults + 1

-----------------------------------------------------------------------------
(* createInvite.                                                            *)

CreateInvite(r, u) ==
    /\ alive
    /\ Begin(r, "existing", {}, {u})
    /\ UNCHANGED <<alive, invites, members, notified, faults, removed, added>>

\* Mutant: the check is only made on what the owner sees in a list.
CheckNothing(r) ==
    /\ request[r].phase = "existing"
    /\ GoOn(r, "insertInvite")
    /\ UNCHANGED <<alive, invites, members, notified, faults, removed, added, overlapped>>

\* "Prevent multiple pending invites for same email+instance".
CheckExisting(r) ==
    /\ request[r].phase = "existing"
    /\ \E u \in request[r].user :
          IF PendingFor(u) = {} THEN GoOn(r, "insertInvite") ELSE End(r)
    /\ UNCHANGED <<alive, invites, members, notified, faults, removed, added, overlapped>>

\* The insert; it fails on the foreign key once the instance is gone.
InsertInvite(r) ==
    /\ request[r].phase = "insertInvite"
    /\ \/ /\ alive
          /\ \E i \in InviteId :
               /\ invites[i].status = "none"
               /\ invites' = [invites EXCEPT ![i] = [status |-> "pending", late |-> FALSE,
                                                     invitee |-> request[r].user]]
       \/ ~alive /\ UNCHANGED invites
    /\ End(r)
    /\ UNCHANGED <<alive, members, notified, faults, removed, added, overlapped>>

-----------------------------------------------------------------------------
(* acceptInvite and acceptInviteById, which differ in their lookup only.    *)

\* Mutant: the email is not compared.
AcceptByAnyone(r, i, u) ==
    /\ invites[i].status = "pending"
    /\ IF invites[i].late THEN Begin(r, "expire", {i}, {})
                          ELSE Begin(r, "insertMember", {i}, {u})
    /\ UNCHANGED <<alive, invites, members, notified, faults, removed, added>>

\* The invite is read: pending, not past expiresAt, and u's.  One that is
\* past expiresAt is marked expired, whoever asks.
AcceptInvite(r, i, u) ==
    /\ invites[i].status = "pending"
    /\ \/ invites[i].late /\ Begin(r, "expire", {i}, {})
       \/ ~invites[i].late /\ invites[i].invitee = {u} /\ Begin(r, "insertMember", {i}, {u})
    /\ UNCHANGED <<alive, invites, members, notified, faults, removed, added>>

\* Mutant: the invite is marked before the membership exists.
InsertMemberLast(r) ==
    /\ request[r].phase = "insertMember"
    /\ \E i \in request[r].invites : SetStatus(i, "accepted")
    /\ GoOn(r, "markAccepted")
    /\ UNCHANGED <<alive, members, notified, faults, removed, added, overlapped>>

\* The membership is inserted.  Any error is taken for "already member": the
\* foreign key of a deleted instance, and a failed call.
InsertMember(r) ==
    /\ request[r].phase = "insertMember"
    /\ \/ alive /\ members' = members \cup request[r].user /\ UNCHANGED faults
       \/ ~alive /\ UNCHANGED <<members, faults>>
       \/ Fault /\ UNCHANGED members
    /\ GoOn(r, "markAccepted")
    /\ UNCHANGED <<alive, invites, notified, removed, added, overlapped>>

\* The status is set, whatever it is by now.
MarkAccepted(r) ==
    /\ request[r].phase = "markAccepted"
    /\ \E i \in request[r].invites : SetStatus(i, "accepted")
    /\ GoOn(r, "notify")
    /\ UNCHANGED <<alive, members, notified, faults, removed, added, overlapped>>

\* The owner is told, if the instance is still there.
Notify(r) ==
    /\ request[r].phase = "notify"
    /\ notified' = IF alive THEN notified \cup request[r].invites ELSE notified
    /\ End(r)
    /\ UNCHANGED <<alive, invites, members, faults, removed, added, overlapped>>

-----------------------------------------------------------------------------
(* revokeInvite, declineInvite, and the expiry that listing brings about.   *)

\* Mutant: the status read does not matter.
RevokeAnyStatus(r, i) ==
    /\ invites[i].status # "none"
    /\ Begin(r, "instance", {i}, {})
    /\ UNCHANGED <<alive, invites, members, notified, faults, removed, added>>

\* The invite is read first; unless pending, the request ends in 'true'.
RevokeInvite(r, i) ==
    /\ invites[i].status = "pending"
    /\ Begin(r, "instance", {i}, {})
    /\ UNCHANGED <<alive, invites, members, notified, faults, removed, added>>

\* Then the instance, for its owner.
RevokeCheckOwner(r) ==
    /\ request[r].phase = "instance"
    /\ IF alive THEN GoOn(r, "markRevoked") ELSE End(r)
    /\ UNCHANGED <<alive, invites, members, notified, faults, removed, added, overlapped>>

MarkRevoked(r) ==
    /\ request[r].phase = "markRevoked"
    /\ \E i \in request[r].invites : SetStatus(i, "revoked")
    /\ End(r)
    /\ UNCHANGED <<alive, members, notified, faults, removed, added, overlapped>>

DeclineInvite(r, i) ==
    /\ invites[i].status = "pending"
    /\ Begin(r, "markDeclined", {i}, {})
    /\ UNCHANGED <<alive, invites, members, notified, faults, removed, added>>

MarkDeclined(r) ==
    /\ request[r].phase = "markDeclined"
    /\ \E i \in request[r].invites : SetStatus(i, "declined")
    /\ End(r)
    /\ UNCHANGED <<alive, members, notified, faults, removed, added, overlapped>>

\* myReceivedInvitations: the user's pending invites are read at once, the
\* ones past expiresAt then marked one by one.
MyReceivedInvitations(r, u) ==
    LET late == {i \in PendingFor(u) : invites[i].late}
    IN  /\ late # {}
        /\ Begin(r, "expire", late, {})
        /\ UNCHANGED <<alive, invites, members, notified, faults, removed, added>>

MarkExpired(r) ==
    /\ request[r].phase = "expire"
    /\ \E i \in request[r].invites :
         /\ SetStatus(i, "expired")
         /\ IF request[r].invites = {i}
            THEN End(r)
            ELSE request' = [request EXCEPT ![r].invites = @ \ {i}]
    /\ UNCHANGED <<alive, members, notified, faults, removed, added, overlapped>>

-----------------------------------------------------------------------------
(* addMember, for the owner who calls addToolInstanceMember, or hands the   *)
(* instance over to somebody who cannot access it (transferOwnership).      *)

\* isOwner, or getById and canAccess, has found the instance.
AddMember(r, u) ==
    /\ alive
    /\ Begin(r, "addMember", {}, {u})
    /\ UNCHANGED <<alive, invites, members, notified, faults, removed, added>>

\* The insert.  Any error is taken for "already member", as in acceptInvite.
InsertAdded(r) ==
    /\ request[r].phase = "addMember"
    /\ \/ /\ alive
          /\ members' = members \cup request[r].user
          /\ added' = added \cup (request[r].user \ members)
          /\ UNCHANGED faults
       \/ ~alive /\ UNCHANGED <<members, added, faults>>
       \/ Fault /\ UNCHANGED <<members, added>>
    /\ End(r)
    /\ UNCHANGED <<alive, invites, notified, removed, overlapped>>

-----------------------------------------------------------------------------
(* What happens around them.                                                *)

\* The call a request awaits fails: the request throws and leaves what it has
\* done so far.  (The two inserts of a member swallow their errors.)
CallFails(r) ==
    /\ request[r].phase \notin {"idle", "insertMember", "addMember"}
    /\ Fault
    /\ End(r)
    /\ UNCHANGED <<alive, invites, members, notified, removed, added, overlapped>>

\* expiresAt of a pending invite passes.
Elapse(i) ==
    /\ invites[i].status = "pending" /\ ~invites[i].late
    /\ invites' = [invites EXCEPT ![i].late = TRUE]
    /\ UNCHANGED <<alive, members, request, notified, faults, removed, added, overlapped>>

\* ToolInstanceService.removeMember and leave: the row is deleted.
RemoveMember(u) ==
    /\ u \in members
    /\ members' = members \ {u}
    /\ removed' = removed \cup {u}
    /\ added' = added \ {u}
    /\ UNCHANGED <<alive, invites, request, notified, faults, overlapped>>

\* ToolInstanceService.delete: invites and members cascade.
DeleteInstance ==
    /\ alive
    /\ alive' = FALSE
    /\ invites' = [i \in InviteId |-> NoInvite]
    /\ members' = {}
    /\ added' = {}
    /\ UNCHANGED <<request, notified, faults, removed, overlapped>>

-----------------------------------------------------------------------------
Begins(r) ==
    \/ \E u \in User : CreateInvite(r, u) \/ MyReceivedInvitations(r, u) \/ AddMember(r, u)
    \/ \E i \in InviteId, u \in User : AcceptInvite(r, i, u)
    \/ \E i \in InviteId : RevokeInvite(r, i) \/ DeclineInvite(r, i)

AcceptStep(r) == InsertMember(r) \/ MarkAccepted(r) \/ Notify(r)

GoesOn(r) ==
    \/ CheckExisting(r) \/ InsertInvite(r) \/ AcceptStep(r)
    \/ RevokeCheckOwner(r) \/ MarkRevoked(r) \/ MarkDeclined(r) \/ MarkExpired(r)
    \/ InsertAdded(r) \/ CallFails(r)

Next ==
    \/ \E r \in Request : Begins(r) \/ GoesOn(r)
    \/ \E i \in InviteId : Elapse(i)
    \/ \E u \in User : RemoveMember(u)
    \/ DeleteInstance

Spec == Init /\ [][Next]_vars

-----------------------------------------------------------------------------
(* Properties.                                                              *)

\* The check for an existing invite and the insert are two calls.  Requests
\* that overlap may each insert one, but never more than can be in flight at
\* once, however long the service runs.
PendingBounded ==
    \A u \in User :
        Cardinality(PendingFor(u))
          + Cardinality({r \in Request : request[r].phase = "insertInvite"
                                         /\ request[r].user = {u}})
        <= Cardinality(Request)

\* An acceptance is whole, however requests for the invite overlap: unless a
\* call has failed, its invitee has become a member (and may have been removed
\* since), and the owner has been told or is about to be.
AcceptanceIsWhole ==
    faults = 0 =>
        \A i \in InviteId : invites[i].status = "accepted" =>
            /\ invites[i].invitee \subseteq members \cup removed
            /\ \/ i \in notified
               \/ \E r \in Request : i \in request[r].invites /\ request[r].phase = "notify"

\* Whoever is a member and was not made one by addMember has an invite of
\* their own behind it that they have accepted, or are about to have: not
\* somebody else's token, nor a declined or revoked one, unless two requests
\* had the invite at once.  Without a failed call: one that fails between the
\* two writes of an acceptance leaves a member whose invite may be declined.
MembershipIsBacked ==
    faults = 0 =>
        \A u \in members \ added : \E i \in InviteId :
            /\ invites[i].invitee = {u}
            /\ \/ invites[i].status = "accepted"
               \/ \E r \in Request : i \in request[r].invites
                                     /\ request[r].phase = "markAccepted"
               \/ i \in overlapped

\* A settled invite stays as it was settled, unless two requests had it in
\* hand at once (or its row goes with the instance).
SettledStays ==
    [][\A i \in InviteId :
          /\ invites[i].status \in Settled
          /\ i \notin overlapped
          => invites'[i].status \in {invites[i].status, "none"}]_vars

\* invites.service.spec.ts:102, of a declined invite: "token should no longer
\* be usable".
DeclinedIsUnusable ==
    [][\A i \in InviteId :
          invites[i].status = "declined" => invites'[i].status # "accepted"]_vars

=============================================================================
