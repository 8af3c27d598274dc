---------------------------- MODULE Invites_proofs ----------------------------
(***************************************************************************)
(* Proofs about Invites, for every value of its constants: types, the      *)
(* bound on pending invites, that an acceptance is whole and a membership  *)
(* backed by an invite, and that a settled invite stays so.                *)
(***************************************************************************)
EXTENDS Invites, FiniteSetTheorems, TLAPS

Rec == [phase: Phase, invites: SUBSET InviteId, user: SUBSET User]

Accepting == {"insertMember", "markAccepted", "notify"}

\* What a request in flight holds, phase by phase.
Shape(x) ==
    /\ x.phase = "idle" => x.invites = {}
    /\ x.phase \in {"existing", "insertInvite", "addMember"} => x.invites = {} /\ \E u \in User : x.user = {u}
    /\ x.phase \in Accepting \cup {"instance", "markRevoked", "markDeclined"} =>
         \E i \in InviteId : x.invites = {i}
    /\ x.phase \in Accepting => \E u \in User : x.user = {u}

Shapes == \A r \in Request : Shape(request[r])

\* With the instance, everything is gone, and nothing comes back.
Gone == ~alive => members = {} /\ \A i \in InviteId : invites[i].status = "none"

\* An invite in hand still has its row, and one that is being accepted is the
\* user's who accepts it.  Unless it is overlapped, one request has it in hand,
\* and only that one settles it.
Held ==
    \A r \in Request : \A i \in request[r].invites : alive =>
        /\ invites[i].status # "none"
        /\ request[r].phase \in Accepting => invites[i].invitee = request[r].user
        /\ i \notin overlapped => IF request[r].phase = "notify"
                                  THEN invites[i].status = "accepted"
                                  ELSE invites[i].status = "pending"

Alone ==
    \A i \in InviteId \ overlapped : \A r, q \in Request :
        i \in request[r].invites /\ i \in request[q].invites => q = r

\* The membership comes first.
Joined ==
    alive => \A r \in Request :
        request[r].phase \in {"markAccepted", "notify"} => request[r].user \subseteq members \cup removed

Whole ==
    \A i \in InviteId : invites[i].status = "accepted" =>
        /\ invites[i].invitee \subseteq members \cup removed
        /\ \/ i \in notified
           \/ \E r \in Request : i \in request[r].invites /\ request[r].phase = "notify"

Backing(i, u) ==
    /\ invites[i].invitee = {u}
    /\ \/ invites[i].status = "accepted"
       \/ \E r \in Request : i \in request[r].invites /\ request[r].phase = "markAccepted"
       \/ i \in overlapped

Backed == \A u \in members \ added : \E i \in InviteId : Backing(i, u)

Inserting(u) == {r \in Request : request[r].phase = "insertInvite" /\ request[r].user = {u}}

Bounded ==
    \A u \in User :
        /\ IsFiniteSet(PendingFor(u))
        /\ Cardinality(PendingFor(u)) + Cardinality(Inserting(u)) <= Cardinality(Request)

IInv ==
    /\ TypeOK
    /\ Shapes /\ Gone /\ Held /\ Alone /\ Bounded
    /\ faults = 0 => Joined /\ Whole /\ Backed

-----------------------------------------------------------------------------
(* The bound.                                                               *)

LEMMA InsertingType ==
    ASSUME NEW u
    PROVE  /\ IsFiniteSet(Inserting(u)) /\ Cardinality(Inserting(u)) \in Nat
           /\ Cardinality(Inserting(u)) <= Cardinality(Request)
           /\ Cardinality(Request) \in Nat
<1>1. IsFiniteSet(Request) /\ Inserting(u) \subseteq Request
  BY InvitesAssumption DEF Inserting
<1>2. IsFiniteSet(Inserting(u)) /\ Cardinality(Inserting(u)) <= Cardinality(Request)
  BY <1>1, FS_Subset
<1> QED BY <1>1, <1>2, FS_CardinalityType

\* Fewer invites are pending, and fewer requests are about to insert one.
LEMMA BoundedShrinks ==
    ASSUME Bounded,
           \A u \in User : PendingFor(u)' \subseteq PendingFor(u)
                           /\ Inserting(u)' \subseteq Inserting(u)
    PROVE  Bounded'
<1> SUFFICES ASSUME NEW u \in User
             PROVE  /\ IsFiniteSet(PendingFor(u)')
                    /\ Cardinality(PendingFor(u)') + Cardinality(Inserting(u)')
                         <= Cardinality(Request)
  BY DEF Bounded
<1>1. /\ IsFiniteSet(PendingFor(u))
      /\ Cardinality(PendingFor(u)) + Cardinality(Inserting(u)) <= Cardinality(Request)
  BY DEF Bounded
<1>2. IsFiniteSet(Inserting(u)) /\ Cardinality(Inserting(u)) \in Nat /\ Cardinality(Request) \in Nat
  BY InsertingType
<1>3. /\ IsFiniteSet(PendingFor(u)') /\ IsFiniteSet(Inserting(u)')
      /\ Cardinality(PendingFor(u)') <= Cardinality(PendingFor(u))
      /\ Cardinality(Inserting(u)') <= Cardinality(Inserting(u))
  BY <1>1, <1>2, FS_Subset
<1>4. /\ Cardinality(PendingFor(u)) \in Nat /\ Cardinality(PendingFor(u)') \in Nat
      /\ Cardinality(Inserting(u)') \in Nat
  BY <1>1, <1>3, FS_CardinalityType
<1> QED BY <1>1, <1>2, <1>3, <1>4

-----------------------------------------------------------------------------
(* Requests that begin, go on and end.                                      *)

LEMMA GoOnBecomes ==
    ASSUME TypeOK, NEW r \in Request, NEW phase \in Phase, GoOn(r, phase)
    PROVE  /\ request' \in [Request -> Rec]
           /\ request'[r].phase = phase
           /\ request'[r].invites = request[r].invites /\ request'[r].user = request[r].user
           /\ \A q \in Request : q # r => request'[q] = request[q]
BY DEF GoOn, TypeOK, Rec

LEMMA EndBecomes ==
    ASSUME TypeOK, NEW r \in Request, End(r)
    PROVE  /\ request' \in [Request -> Rec]
           /\ request'[r].phase = "idle" /\ request'[r].invites = {} /\ request'[r].user = {}
           /\ \A q \in Request : q # r => request'[q] = request[q]
BY DEF End, TypeOK, Rec, Idle, Phase

\* A request begins: what it takes in hand is pending, and overlapped when
\* somebody else has it.
LEMMA BeginKeeps ==
    ASSUME IInv, NEW r \in Request, NEW phase \in Phase,
           NEW is \in SUBSET InviteId, NEW us \in SUBSET User,
           Begin(r, phase, is, us),
           UNCHANGED <<alive, invites, members, notified, faults, removed, added>>,
           \A i \in is : invites[i].status = "pending",
           Shape([phase |-> phase, invites |-> is, user |-> us]),
           phase \notin {"idle", "insertInvite", "markAccepted", "notify"},
           phase \in Accepting => \A i \in is : invites[i].invitee = us
    PROVE  IInv'
<1>1. PICK x : x = [phase |-> phase, invites |-> is, user |-> us]
  OBVIOUS
<1>2. /\ x \in Rec /\ x.phase = phase /\ x.invites = is /\ x.user = us
      /\ request[r] = Idle /\ request' = [request EXCEPT ![r] = x]
      /\ overlapped' = overlapped \cup {i \in is : \E q \in Request : i \in request[q].invites}
  BY <1>1 DEF Begin, Rec
<1>3. /\ request'[r] = x /\ \A q \in Request : q # r => request'[q] = request[q]
      /\ request' \in [Request -> Rec] /\ Shape(x)
      /\ request[r].phase = "idle" /\ request[r].invites = {}
  BY <1>1, <1>2 DEF IInv, TypeOK, Rec, Idle
<1>4. TypeOK'
  BY <1>2, <1>3 DEF IInv, TypeOK, Rec
<1>5. Shapes'
  BY <1>3 DEF IInv, Shapes
<1>6. Gone'
  BY DEF IInv, Gone
<1>7. Held'
  <2> SUFFICES ASSUME NEW q \in Request, NEW i \in request'[q].invites, alive
               PROVE  /\ invites[i].status # "none"
                      /\ request'[q].phase \in Accepting => invites[i].invitee = request'[q].user
                      /\ i \notin overlapped' => IF request'[q].phase = "notify"
                                                 THEN invites[i].status = "accepted"
                                                 ELSE invites[i].status = "pending"
    BY DEF Held
  <2>1. CASE q = r
    BY <1>2, <1>3, <2>1
  <2>2. CASE q # r
    <3>1. request'[q] = request[q] /\ (i \notin overlapped' => i \notin overlapped)
      BY <1>2, <1>3, <2>2
    <3> QED BY <3>1 DEF IInv, Held
  <2> QED BY <2>1, <2>2
<1>8. Alone'
  BY <1>2, <1>3 DEF IInv, Alone
<1>9. Bounded'
  <2>1. \A u \in User : PendingFor(u)' \subseteq PendingFor(u)
    BY DEF PendingFor
  <2>2. \A u \in User : Inserting(u)' \subseteq Inserting(u)
    BY <1>2, <1>3 DEF Inserting
  <2> QED BY <2>1, <2>2, BoundedShrinks DEF IInv
<1>10. faults = 0 => Joined'
  BY <1>2, <1>3 DEF IInv, Joined
<1>11. faults = 0 => Whole'
  BY <1>3 DEF IInv, Whole
<1>12. faults = 0 => Backed'
  <2> SUFFICES ASSUME faults = 0, NEW u \in members \ added
               PROVE  \E i \in InviteId : Backing(i, u)'
    BY DEF Backed
  <2>1. PICK i \in InviteId : Backing(i, u)
    BY DEF IInv, Backed
  <2>2. Backing(i, u)'
    BY <1>2, <1>3, <2>1 DEF Backing
  <2> QED BY <2>2
<1> QED BY <1>4, <1>5, <1>6, <1>7, <1>8, <1>9, <1>10, <1>11, <1>12 DEF IInv

LEMMA BeginsKeeps ==
    ASSUME IInv, NEW r \in Request, Begins(r)
    PROVE  IInv'
<1>1. ASSUME NEW u \in User, CreateInvite(r, u) PROVE IInv'
  <2>1. Shape([phase |-> "existing", invites |-> {}, user |-> {u}]) /\ "existing" \in Phase
    BY DEF Shape, Phase, Accepting
  <2> QED BY <1>1, <2>1, BeginKeeps DEF CreateInvite, Accepting
<1>2. ASSUME NEW u \in User, MyReceivedInvitations(r, u) PROVE IInv'
  <2>1. PICK late : late = {i \in PendingFor(u) : invites[i].late}
    OBVIOUS
  <2>2. /\ late \in SUBSET InviteId /\ \A i \in late : invites[i].status = "pending"
        /\ Begin(r, "expire", late, {})
        /\ UNCHANGED <<alive, invites, members, notified, faults, removed, added>>
    BY <1>2, <2>1 DEF MyReceivedInvitations, PendingFor
  <2>3. Shape([phase |-> "expire", invites |-> late, user |-> {}]) /\ "expire" \in Phase
    BY DEF Shape, Phase, Accepting
  <2> QED BY <2>2, <2>3, BeginKeeps DEF Accepting
<1>3. ASSUME NEW i \in InviteId, NEW u \in User, AcceptInvite(r, i, u) PROVE IInv'
  <2>1. /\ invites[i].status = "pending"
        /\ UNCHANGED <<alive, invites, members, notified, faults, removed, added>>
    BY <1>3 DEF AcceptInvite
  <2>2. CASE Begin(r, "expire", {i}, {})
    <3>1. Shape([phase |-> "expire", invites |-> {i}, user |-> {}]) /\ "expire" \in Phase
      BY DEF Shape, Phase, Accepting
    <3> QED BY <2>1, <2>2, <3>1, BeginKeeps DEF Accepting
  <2>3. CASE invites[i].invitee = {u} /\ Begin(r, "insertMember", {i}, {u})
    <3>1. Shape([phase |-> "insertMember", invites |-> {i}, user |-> {u}]) /\ "insertMember" \in Phase
      BY DEF Shape, Phase, Accepting
    <3> QED BY <2>1, <2>3, <3>1, BeginKeeps DEF Accepting
  <2> QED BY <1>3, <2>2, <2>3 DEF AcceptInvite
<1>4. ASSUME NEW i \in InviteId, RevokeInvite(r, i) \/ DeclineInvite(r, i) PROVE IInv'
  <2>1. PICK phase \in {"instance", "markDeclined"} :
          /\ Begin(r, phase, {i}, {}) /\ invites[i].status = "pending"
          /\ UNCHANGED <<alive, invites, members, notified, faults, removed, added>>
    BY <1>4 DEF RevokeInvite, DeclineInvite
  <2>2. Shape([phase |-> phase, invites |-> {i}, user |-> {}]) /\ phase \in Phase
    BY DEF Shape, Phase, Accepting
  <2> QED BY <2>1, <2>2, BeginKeeps DEF Accepting
<1>5. ASSUME NEW u \in User, AddMember(r, u) PROVE IInv'
  <2>1. Shape([phase |-> "addMember", invites |-> {}, user |-> {u}]) /\ "addMember" \in Phase
    BY DEF Shape, Phase, Accepting
  <2> QED BY <1>5, <2>1, BeginKeeps DEF AddMember, Accepting
<1> QED BY <1>1, <1>2, <1>3, <1>4, <1>5 DEF Begins

\* A request that keeps or drops what it has in hand, with the rows as they were.
LEMMA HoldersKeep ==
    ASSUME IInv, NEW r \in Request,
           \A q \in Request : q # r => request'[q] = request[q],
           Shape(request'[r]), request'[r].invites \subseteq request[r].invites,
           request'[r].invites # {} =>
             /\ request'[r].user = request[r].user
             /\ request'[r].phase \in Accepting => request[r].phase \in Accepting
             /\ request'[r].phase # "notify" /\ request[r].phase # "notify",
           UNCHANGED <<alive, invites, overlapped>>
    PROVE  Shapes' /\ Held' /\ Alone'
<1>1. Shapes'
  BY DEF IInv, Shapes
<1>2. Held'
  <2> SUFFICES ASSUME NEW q \in Request, NEW i \in request'[q].invites, alive
               PROVE  /\ invites[i].status # "none"
                      /\ request'[q].phase \in Accepting => invites[i].invitee = request'[q].user
                      /\ i \notin overlapped => IF request'[q].phase = "notify"
                                                THEN invites[i].status = "accepted"
                                                ELSE invites[i].status = "pending"
    BY DEF Held
  <2>1. CASE q = r
    BY <2>1 DEF IInv, Held
  <2>2. CASE q # r
    BY <2>2 DEF IInv, Held
  <2> QED BY <2>1, <2>2
<1>3. Alone'
  BY DEF IInv, Alone
<1> QED BY <1>1, <1>2, <1>3

\* A request that throws: nothing is said once a call has failed but for what
\* is in hand.
LEMMA CallFailsKeeps ==
    ASSUME IInv, NEW r \in Request, CallFails(r)
    PROVE  IInv'
<1>1. /\ UNCHANGED <<alive, invites, members, notified, removed, added, overlapped>>
      /\ faults' = faults + 1 /\ faults \in Nat
  BY DEF CallFails, Fault, IInv, TypeOK
<1>2. /\ request' \in [Request -> Rec]
      /\ request'[r].phase = "idle" /\ request'[r].invites = {}
      /\ \A q \in Request : q # r => request'[q] = request[q]
  BY EndBecomes DEF CallFails, IInv
<1>3. TypeOK'
  BY <1>1, <1>2 DEF IInv, TypeOK, Rec
<1>4. Shapes' /\ Held' /\ Alone'
  <2>1. Shape(request'[r])
    BY <1>2 DEF Shape, Accepting
  <2> QED BY <1>1, <1>2, <2>1, HoldersKeep
<1>5. Gone'
  BY <1>1 DEF IInv, Gone
<1>6. Bounded'
  BY <1>1, <1>2, BoundedShrinks DEF IInv, PendingFor, Inserting
<1> QED BY <1>1, <1>3, <1>4, <1>5, <1>6 DEF IInv

LEMMA CheckExistingKeeps ==
    ASSUME IInv, NEW r \in Request, CheckExisting(r)
    PROVE  IInv'
<1>1. /\ UNCHANGED <<alive, invites, members, notified, faults, removed, added, overlapped>>
      /\ request[r].phase = "existing"
  BY DEF CheckExisting
<1>2. PICK u \in request[r].user :
        IF PendingFor(u) = {} THEN GoOn(r, "insertInvite") ELSE End(r)
  BY DEF CheckExisting
<1>3. request[r].user = {u} /\ request[r].invites = {} /\ u \in User
  BY <1>1, <1>2 DEF IInv, Shapes, Shape
<1>4. /\ request' \in [Request -> Rec] /\ request'[r].invites = {}
      /\ \A q \in Request : q # r => request'[q] = request[q]
      /\ \/ /\ request'[r].phase = "insertInvite" /\ request'[r].user = {u}
            /\ PendingFor(u) = {}
         \/ request'[r].phase = "idle"
  <2>1. CASE PendingFor(u) = {}
    <3>1. "insertInvite" \in Phase /\ TypeOK
      BY DEF Phase, IInv
    <3>2. GoOn(r, "insertInvite")
      BY <1>2, <2>1
    <3> QED BY <1>3, <2>1, <3>1, <3>2, GoOnBecomes
  <2>2. CASE PendingFor(u) # {}
    BY <1>2, <2>2, EndBecomes DEF IInv
  <2> QED BY <2>1, <2>2
<1>5. TypeOK'
  BY <1>1, <1>4 DEF IInv, TypeOK, Rec
<1>6. Shapes' /\ Held' /\ Alone'
  <2>1. Shape(request'[r])
    BY <1>3, <1>4 DEF Shape, Accepting
  <2> QED BY <1>1, <1>4, <2>1, HoldersKeep
<1>7. Gone'
  BY <1>1 DEF IInv, Gone
<1>8. Bounded'
  <2> SUFFICES ASSUME NEW v \in User
               PROVE  /\ IsFiniteSet(PendingFor(v)')
                      /\ Cardinality(PendingFor(v)') + Cardinality(Inserting(v)')
                           <= Cardinality(Request)
    BY DEF Bounded
  <2>1. PendingFor(v)' = PendingFor(v)
    BY <1>1 DEF PendingFor
  <2>2. /\ IsFiniteSet(PendingFor(v))
        /\ Cardinality(PendingFor(v)) + Cardinality(Inserting(v)) <= Cardinality(Request)
    BY DEF IInv, Bounded
  <2>3. CASE PendingFor(v) = {}
    <3>1. Cardinality(PendingFor(v)) = 0
      BY <2>3, FS_EmptySet
    <3>2. Inserting(v)' \subseteq Request
      BY DEF Inserting
    <3>3. /\ Cardinality(Inserting(v)') <= Cardinality(Request)
          /\ Cardinality(Inserting(v)') \in Nat
      <4>1. IsFiniteSet(Inserting(v)') /\ Cardinality(Inserting(v)') <= Cardinality(Request)
        BY <3>2, InvitesAssumption, FS_Subset
      <4> QED BY <4>1, FS_CardinalityType
    <3> QED BY <2>1, <2>2, <3>1, <3>3
  <2>4. CASE PendingFor(v) # {}
    <3>1. Inserting(v)' \subseteq Inserting(v)
      BY <1>4, <2>4 DEF Inserting
    <3>2. IsFiniteSet(Inserting(v)) /\ Cardinality(Inserting(v)) \in Nat /\ Cardinality(Request) \in Nat
      BY InsertingType
    <3>3. IsFiniteSet(Inserting(v)') /\ Cardinality(Inserting(v)') <= Cardinality(Inserting(v))
      BY <3>1, <3>2, FS_Subset
    <3>4. Cardinality(Inserting(v)') \in Nat /\ Cardinality(PendingFor(v)) \in Nat
      BY <2>2, <3>3, FS_CardinalityType
    <3> QED BY <2>1, <2>2, <3>2, <3>3, <3>4
  <2> QED BY <2>3, <2>4
<1>9. faults = 0 => Joined' /\ Whole' /\ Backed'
  BY <1>1, <1>3, <1>4 DEF IInv, Joined, Whole, Backed, Backing
<1> QED BY <1>1, <1>5, <1>6, <1>7, <1>8, <1>9 DEF IInv

LEMMA RevokeCheckOwnerKeeps ==
    ASSUME IInv, NEW r \in Request, RevokeCheckOwner(r)
    PROVE  IInv'
<1>1. /\ UNCHANGED <<alive, invites, members, notified, faults, removed, added, overlapped>>
      /\ request[r].phase = "instance" /\ TypeOK
  BY DEF RevokeCheckOwner, IInv
<1>2. /\ request' \in [Request -> Rec]
      /\ \A q \in Request : q # r => request'[q] = request[q]
      /\ \/ /\ request'[r].phase = "markRevoked" /\ request'[r].user = request[r].user
            /\ request'[r].invites = request[r].invites
         \/ request'[r].phase = "idle" /\ request'[r].invites = {}
  <2>1. CASE alive
    <3>1. GoOn(r, "markRevoked") /\ "markRevoked" \in Phase
      BY <2>1 DEF RevokeCheckOwner, Phase
    <3> QED BY <1>1, <3>1, GoOnBecomes
  <2>2. CASE ~alive
    BY <1>1, <2>2, EndBecomes DEF RevokeCheckOwner
  <2> QED BY <2>1, <2>2
<1>3. TypeOK'
  BY <1>1, <1>2 DEF IInv, TypeOK, Rec
<1>4. Shapes' /\ Held' /\ Alone'
  <2>1. Shape(request[r])
    BY DEF IInv, Shapes
  <2>2. Shape(request'[r])
    BY <1>1, <1>2, <2>1 DEF Shape, Accepting
  <2>3. request'[r].phase \notin Accepting
    BY <1>2 DEF Accepting
  <2>4. request'[r].phase # "notify" /\ request[r].phase # "notify"
    BY <1>1, <1>2
  <2> QED BY <1>1, <1>2, <2>2, <2>3, <2>4, HoldersKeep
<1>5. Gone'
  BY <1>1 DEF IInv, Gone
<1>6. Bounded'
  BY <1>1, <1>2, BoundedShrinks DEF IInv, PendingFor, Inserting
<1>7. faults = 0 => Joined' /\ Whole' /\ Backed'
  <2>1. faults = 0 => Joined'
    BY <1>1, <1>2 DEF IInv, Joined
  <2>2. faults = 0 => Whole'
    BY <1>1, <1>2 DEF IInv, Whole
  <2>3. faults = 0 => Backed'
    <3> SUFFICES ASSUME faults = 0, NEW u \in members \ added
                 PROVE  \E i \in InviteId : Backing(i, u)'
      BY <1>1 DEF Backed
    <3>1. PICK i \in InviteId : Backing(i, u)
      BY DEF IInv, Backed
    <3>2. Backing(i, u)'
      BY <1>1, <1>2, <3>1 DEF Backing
    <3> QED BY <3>2
  <2> QED BY <2>1, <2>2, <2>3
<1> QED BY <1>1, <1>3, <1>4, <1>5, <1>6, <1>7 DEF IInv

LEMMA NotifyKeeps ==
    ASSUME IInv, NEW r \in Request, Notify(r)
    PROVE  IInv'
<1>1. /\ UNCHANGED <<alive, invites, members, faults, removed, added, overlapped>>
      /\ request[r].phase = "notify" /\ TypeOK
      /\ notified' = IF alive THEN notified \cup request[r].invites ELSE notified
      /\ request[r].invites \subseteq InviteId
  BY DEF Notify, IInv, TypeOK
<1>2. /\ request' \in [Request -> Rec]
      /\ request'[r].phase = "idle" /\ request'[r].invites = {}
      /\ \A q \in Request : q # r => request'[q] = request[q]
  BY EndBecomes DEF Notify, IInv
<1>3. TypeOK'
  BY <1>1, <1>2 DEF IInv, TypeOK, Rec
<1>4. Shapes' /\ Held' /\ Alone'
  <2>1. Shape(request'[r])
    BY <1>2 DEF Shape, Accepting
  <2> QED BY <1>1, <1>2, <2>1, HoldersKeep
<1>5. Gone'
  BY <1>1 DEF IInv, Gone
<1>6. Bounded'
  BY <1>1, <1>2, BoundedShrinks DEF IInv, PendingFor, Inserting
<1>7. faults = 0 => Joined'
  BY <1>1, <1>2 DEF IInv, Joined
<1>8. faults = 0 => Whole'
  <2> SUFFICES ASSUME faults = 0, NEW i \in InviteId, invites[i].status = "accepted"
               PROVE  /\ invites[i].invitee \subseteq members \cup removed
                      /\ \/ i \in notified'
                         \/ \E q \in Request : i \in request'[q].invites /\ request'[q].phase = "notify"
    BY <1>1 DEF Whole
  <2>1. alive
    BY DEF IInv, Gone
  <2> QED BY <1>1, <1>2, <2>1 DEF IInv, Whole
<1>9. faults = 0 => Backed'
  <2> SUFFICES ASSUME faults = 0, NEW u \in members \ added
               PROVE  \E i \in InviteId : Backing(i, u)'
    BY <1>1 DEF Backed
  <2>1. PICK i \in InviteId : Backing(i, u)
    BY DEF IInv, Backed
  <2>2. Backing(i, u)'
    BY <1>1, <1>2, <2>1 DEF Backing
  <2> QED BY <2>2
<1> QED BY <1>1, <1>3, <1>4, <1>5, <1>6, <1>7, <1>8, <1>9 DEF IInv

-----------------------------------------------------------------------------
(* Requests that write.                                                     *)

LEMMA InsertInviteKeeps ==
    ASSUME IInv, NEW r \in Request, InsertInvite(r)
    PROVE  IInv'
<1>1. /\ UNCHANGED <<alive, members, notified, faults, removed, added, overlapped>>
      /\ request[r].phase = "insertInvite" /\ TypeOK
  BY DEF InsertInvite, IInv
<1>2. /\ request' \in [Request -> Rec]
      /\ request'[r].phase = "idle" /\ request'[r].invites = {}
      /\ \A q \in Request : q # r => request'[q] = request[q]
  BY EndBecomes DEF InsertInvite, IInv
<1>3. Shape(request'[r])
  BY <1>2 DEF Shape, Accepting
<1>4. CASE ~alive /\ UNCHANGED invites
  <2>1. TypeOK'
    BY <1>1, <1>2, <1>4 DEF TypeOK, Rec
  <2>2. Shapes' /\ Held' /\ Alone'
    BY <1>1, <1>2, <1>3, <1>4, HoldersKeep
  <2>3. Gone' /\ Joined' /\ Whole' /\ Backed'
    BY <1>1, <1>4 DEF IInv, Gone, Joined, Whole, Backed
  <2>4. Bounded'
    BY <1>1, <1>2, <1>4, BoundedShrinks DEF IInv, PendingFor, Inserting
  <2> QED BY <2>1, <2>2, <2>3, <2>4 DEF IInv
<1>5. ASSUME alive, NEW i \in InviteId, invites[i].status = "none",
             invites' = [invites EXCEPT ![i] = [status |-> "pending", late |-> FALSE,
                                                invitee |-> request[r].user]]
      PROVE  IInv'
  <2>1. PICK u \in User : request[r].user = {u}
    BY <1>1 DEF IInv, Shapes, Shape
  <2>2. /\ invites'[i].status = "pending" /\ invites'[i].invitee = {u}
        /\ \A j \in InviteId : j # i => invites'[j] = invites[j]
        /\ invites[i].invitee = {}
    BY <1>1, <1>5, <2>1 DEF TypeOK
  <2>3. TypeOK'
    <3>1. invites' \in [InviteId -> [status: {"none", "pending"} \cup Settled,
                                     invitee: SUBSET User, late: BOOLEAN]]
      BY <1>1, <1>5, <2>1 DEF TypeOK
    <3> QED BY <1>1, <1>2, <2>2, <3>1 DEF TypeOK, Rec
  <2>4. \A q \in Request : i \notin request[q].invites
    BY <1>5 DEF IInv, Held
  <2>5. Shapes' /\ Alone' /\ Gone'
    BY <1>1, <1>2, <1>3, <1>5 DEF IInv, Shapes, Alone, Gone
  <2>6. Held'
    <3> SUFFICES ASSUME NEW q \in Request, NEW j \in request'[q].invites
                 PROVE  /\ invites'[j].status # "none"
                        /\ request'[q].phase \in Accepting => invites'[j].invitee = request'[q].user
                        /\ j \notin overlapped => IF request'[q].phase = "notify"
                                                  THEN invites'[j].status = "accepted"
                                                  ELSE invites'[j].status = "pending"
      BY <1>1 DEF Held
    <3>1. q # r /\ request'[q] = request[q] /\ j \in InviteId /\ j # i
      BY <1>1, <1>2, <2>4 DEF TypeOK
    <3> QED BY <1>5, <2>2, <3>1 DEF IInv, Held
  <2>7. Bounded'
    <3> SUFFICES ASSUME NEW v \in User
                 PROVE  /\ IsFiniteSet(PendingFor(v)')
                        /\ Cardinality(PendingFor(v)') + Cardinality(Inserting(v)')
                             <= Cardinality(Request)
      BY DEF Bounded
    <3>1. /\ IsFiniteSet(PendingFor(v)) /\ Cardinality(PendingFor(v)) \in Nat
          /\ Cardinality(PendingFor(v)) + Cardinality(Inserting(v)) <= Cardinality(Request)
          /\ IsFiniteSet(Inserting(v)) /\ Cardinality(Inserting(v)) \in Nat
          /\ Cardinality(Request) \in Nat
      BY InsertingType, FS_CardinalityType DEF IInv, Bounded
    <3>2. CASE v = u
      <4>1. PendingFor(v)' = PendingFor(v) \cup {i} /\ i \notin PendingFor(v)
        BY <1>5, <2>2, <3>2 DEF PendingFor
      <4>2. Inserting(v)' = Inserting(v) \ {r} /\ r \in Inserting(v)
        BY <1>1, <1>2, <2>1, <3>2 DEF Inserting
      <4>3. IsFiniteSet(PendingFor(v)') /\ Cardinality(PendingFor(v)') = Cardinality(PendingFor(v)) + 1
        BY <3>1, <4>1, FS_AddElement
      <4>4. Cardinality(Inserting(v)') = Cardinality(Inserting(v)) - 1
        BY <3>1, <4>2, FS_RemoveElement
      <4> QED BY <3>1, <4>3, <4>4
    <3>3. CASE v # u
      <4>1. PendingFor(v)' = PendingFor(v)
        BY <1>5, <2>2, <3>3 DEF PendingFor
      <4>2. Inserting(v)' = Inserting(v)
        BY <1>1, <1>2, <2>1, <3>3 DEF Inserting
      <4> QED BY <3>1, <4>1, <4>2
    <3> QED BY <3>2, <3>3
  <2>8. faults = 0 => Joined'
    BY <1>1, <1>2 DEF IInv, Joined
  <2>9. faults = 0 => Whole'
    BY <1>1, <1>2, <2>2 DEF IInv, Whole
  <2>10. faults = 0 => Backed'
    <3> SUFFICES ASSUME faults = 0, NEW w \in members \ added
                 PROVE  \E j \in InviteId : Backing(j, w)'
      BY <1>1 DEF Backed
    <3>1. PICK j \in InviteId : Backing(j, w)
      BY DEF IInv, Backed
    <3>2. j # i
      BY <2>2, <3>1 DEF Backing
    <3>3. Backing(j, w)'
      BY <1>1, <1>2, <2>2, <3>1, <3>2 DEF Backing
    <3> QED BY <3>3
  <2> QED BY <1>1, <2>3, <2>5, <2>6, <2>7, <2>8, <2>9, <2>10 DEF IInv
<1> QED BY <1>4, <1>5 DEF InsertInvite

LEMMA InsertMemberKeeps ==
    ASSUME IInv, NEW r \in Request, InsertMember(r)
    PROVE  IInv'
<1>1. /\ UNCHANGED <<alive, invites, notified, removed, added, overlapped>>
      /\ request[r].phase = "insertMember" /\ TypeOK
  BY DEF InsertMember, IInv
<1>2. /\ request' \in [Request -> Rec]
      /\ request'[r].phase = "markAccepted"
      /\ request'[r].invites = request[r].invites /\ request'[r].user = request[r].user
      /\ \A q \in Request : q # r => request'[q] = request[q]
  <2>1. "markAccepted" \in Phase
    BY DEF Phase
  <2> QED BY <1>1, <2>1, GoOnBecomes DEF InsertMember
<1>3. PICK u \in User, i \in InviteId : request[r].user = {u} /\ request[r].invites = {i}
  BY <1>1 DEF IInv, Shapes, Shape, Accepting
<1>4. /\ members' \in {members, members \cup {u}} /\ faults' \in {faults, faults + 1}
      /\ faults' = faults => members' = IF alive THEN members \cup {u} ELSE members
      /\ ~alive => members' = members
      /\ faults \in Nat
  BY <1>1, <1>3 DEF InsertMember, Fault, TypeOK
<1>5. TypeOK'
  BY <1>1, <1>2, <1>4 DEF TypeOK, Rec
<1>6. Shapes' /\ Held' /\ Alone'
  <2>1. Shape(request'[r])
    BY <1>2, <1>3 DEF Shape, Accepting
  <2> QED BY <1>1, <1>2, <2>1, HoldersKeep DEF Accepting
<1>7. Gone'
  BY <1>1, <1>4 DEF IInv, Gone
<1>8. Bounded'
  BY <1>1, <1>2, BoundedShrinks DEF IInv, PendingFor, Inserting
<1>9. faults' = 0 => faults = 0 /\ members' = IF alive THEN members \cup {u} ELSE members
  BY <1>4
<1>10. faults' = 0 => Joined'
  BY <1>1, <1>2, <1>3, <1>9 DEF IInv, Joined
<1>11. faults' = 0 => Whole'
  BY <1>1, <1>2, <1>4, <1>9 DEF IInv, Whole
<1>12. faults' = 0 => Backed'
  <2> SUFFICES ASSUME faults' = 0, NEW w \in members' \ added
               PROVE  \E j \in InviteId : Backing(j, w)'
    BY <1>1 DEF Backed
  <2>1. CASE w \in members \ added
    <3>1. PICK j \in InviteId : Backing(j, w)
      BY <1>9, <2>1 DEF IInv, Backed
    <3>2. Backing(j, w)'
      BY <1>1, <1>2, <3>1 DEF Backing
    <3> QED BY <3>2
  <2>2. CASE w = u /\ alive
    <3>1. invites[i].invitee = {u}
      BY <1>1, <1>3, <2>2 DEF IInv, Held, Accepting
    <3>2. Backing(i, w)'
      BY <1>1, <1>2, <1>3, <2>2, <3>1 DEF Backing
    <3> QED BY <3>2
  <2> QED BY <1>9, <2>1, <2>2
<1> QED BY <1>5, <1>6, <1>7, <1>8, <1>10, <1>11, <1>12 DEF IInv

\* Who addMember makes a member needs no invite.
LEMMA InsertAddedKeeps ==
    ASSUME IInv, NEW r \in Request, InsertAdded(r)
    PROVE  IInv'
<1>1. /\ UNCHANGED <<alive, invites, notified, removed, overlapped>>
      /\ request[r].phase = "addMember" /\ TypeOK
  BY DEF InsertAdded, IInv
<1>2. /\ request' \in [Request -> Rec]
      /\ request'[r].phase = "idle" /\ request'[r].invites = {}
      /\ \A q \in Request : q # r => request'[q] = request[q]
  BY EndBecomes DEF InsertAdded, IInv
<1>3. PICK u \in User : request[r].user = {u}
  BY <1>1 DEF IInv, Shapes, Shape
<1>4. /\ members \subseteq members' /\ members' \subseteq members \cup {u}
      /\ added' \subseteq members' /\ members' \ added' = members \ added
      /\ faults' \in Nat /\ (faults' = 0 => faults = 0)
      /\ ~alive => members' = members
  BY <1>1, <1>3 DEF InsertAdded, Fault, TypeOK
<1>5. TypeOK'
  BY <1>1, <1>2, <1>4 DEF TypeOK, Rec
<1>6. Shapes' /\ Held' /\ Alone'
  <2>1. Shape(request'[r])
    BY <1>2 DEF Shape, Accepting
  <2> QED BY <1>1, <1>2, <2>1, HoldersKeep
<1>7. Gone'
  BY <1>1, <1>4 DEF IInv, Gone
<1>8. Bounded'
  BY <1>1, <1>2, BoundedShrinks DEF IInv, PendingFor, Inserting
<1>9. faults' = 0 => Joined' /\ Whole'
  BY <1>1, <1>2, <1>4 DEF IInv, Joined, Whole
<1>10. faults' = 0 => Backed'
  <2> SUFFICES ASSUME faults = 0, NEW w \in members \ added
               PROVE  \E j \in InviteId : Backing(j, w)'
    BY <1>4 DEF Backed
  <2>1. PICK j \in InviteId : Backing(j, w)
    BY DEF IInv, Backed
  <2>2. Backing(j, w)'
    BY <1>1, <1>2, <2>1 DEF Backing
  <2> QED BY <2>2
<1> QED BY <1>5, <1>6, <1>7, <1>8, <1>9, <1>10 DEF IInv

\* What SetStatus writes: a row that is gone does not come back.
LEMMA SetStatusBecomes ==
    ASSUME TypeOK, NEW i \in InviteId, NEW s \in Settled, SetStatus(i, s)
    PROVE  /\ invites' \in [InviteId -> [status: {"none", "pending"} \cup Settled,
                                         invitee: SUBSET User, late: BOOLEAN]]
           /\ \A j \in InviteId : invites'[j].invitee = invites[j].invitee
           /\ \A j \in InviteId : j # i => invites'[j] = invites[j]
           /\ invites'[i].status = IF invites[i].status = "none" THEN "none" ELSE s
BY DEF SetStatus, TypeOK, Settled

\* The membership is there before the invite is marked.
LEMMA MarkAcceptedKeeps ==
    ASSUME IInv, NEW r \in Request, MarkAccepted(r)
    PROVE  IInv'
<1>1. /\ UNCHANGED <<alive, members, notified, faults, removed, added, overlapped>>
      /\ request[r].phase = "markAccepted" /\ TypeOK
  BY DEF MarkAccepted, IInv
<1>2. /\ request' \in [Request -> Rec]
      /\ request'[r].phase = "notify"
      /\ request'[r].invites = request[r].invites /\ request'[r].user = request[r].user
      /\ \A q \in Request : q # r => request'[q] = request[q]
  <2>1. "notify" \in Phase
    BY DEF Phase
  <2> QED BY <1>1, <2>1, GoOnBecomes DEF MarkAccepted
<1>3. PICK u \in User, i \in InviteId : request[r].user = {u} /\ request[r].invites = {i}
  BY <1>1 DEF IInv, Shapes, Shape, Accepting
<1>4. /\ invites' \in [InviteId -> [status: {"none", "pending"} \cup Settled,
                                    invitee: SUBSET User, late: BOOLEAN]]
      /\ \A j \in InviteId : invites'[j].invitee = invites[j].invitee
      /\ \A j \in InviteId : j # i => invites'[j] = invites[j]
      /\ invites'[i].status = IF invites[i].status = "none" THEN "none" ELSE "accepted"
  <2>1. SetStatus(i, "accepted") /\ "accepted" \in Settled
    BY <1>3 DEF MarkAccepted, Settled
  <2> QED BY <1>1, <2>1, SetStatusBecomes
<1>5. TypeOK'
  <2>1. \A j \in InviteId : invites'[j].invitee = {} <=> invites'[j].status = "none"
    BY <1>1, <1>4 DEF TypeOK
  <2> QED BY <1>1, <1>2, <1>4, <2>1 DEF TypeOK, Rec
<1>6. Shapes' /\ Alone' /\ Gone'
  <2>1. Shape(request'[r])
    BY <1>2, <1>3 DEF Shape, Accepting
  <2>2. Shapes'
    BY <1>2, <2>1 DEF IInv, Shapes
  <2> QED BY <1>1, <1>2, <1>4, <2>2 DEF IInv, Alone, Gone
<1>7. Held'
  <2> SUFFICES ASSUME NEW q \in Request, NEW j \in request'[q].invites, alive
               PROVE  /\ invites'[j].status # "none"
                      /\ request'[q].phase \in Accepting => invites'[j].invitee = request'[q].user
                      /\ j \notin overlapped => IF request'[q].phase = "notify"
                                                THEN invites'[j].status = "accepted"
                                                ELSE invites'[j].status = "pending"
    BY <1>1 DEF Held
  <2>1. CASE q = r
    <3>1. j = i /\ request'[q].phase = "notify" /\ request'[q].user = request[r].user
      BY <1>2, <1>3, <2>1
    <3>2. invites[i].status # "none" /\ invites[i].invitee = request[r].user
      BY <1>1, <1>3 DEF IInv, Held, Accepting
    <3> QED BY <1>4, <3>1, <3>2
  <2>2. CASE q # r
    <3>1. j \in InviteId /\ request'[q] = request[q]
      BY <1>1, <1>2, <2>2 DEF TypeOK
    <3>2. CASE j = i
      <4>1. i \in overlapped
        BY <1>3, <2>2, <3>1, <3>2 DEF IInv, Alone
      <4> QED BY <1>4, <3>1, <3>2, <4>1 DEF IInv, Held
    <3>3. CASE j # i
      BY <1>4, <3>1, <3>3 DEF IInv, Held
    <3> QED BY <3>2, <3>3
  <2> QED BY <2>1, <2>2
<1>8. Bounded'
  <2>1. \A v \in User : PendingFor(v)' \subseteq PendingFor(v)
    BY <1>4 DEF PendingFor
  <2>2. \A v \in User : Inserting(v)' \subseteq Inserting(v)
    BY <1>2 DEF Inserting
  <2> QED BY <2>1, <2>2, BoundedShrinks DEF IInv
<1>9. faults = 0 => Joined'
  BY <1>1, <1>2 DEF IInv, Joined
<1>10. faults = 0 => Whole'
  <2> SUFFICES ASSUME faults = 0, NEW j \in InviteId, invites'[j].status = "accepted"
               PROVE  /\ invites'[j].invitee \subseteq members \cup removed
                      /\ \/ j \in notified
                         \/ \E q \in Request : j \in request'[q].invites /\ request'[q].phase = "notify"
    BY <1>1 DEF Whole
  <2>1. CASE j = i
    <3>1. invites[i].status # "none" /\ alive
      BY <1>4, <2>1 DEF IInv, Gone
    <3>2. invites[i].invitee = {u} /\ {u} \subseteq members \cup removed
      BY <1>1, <1>3, <3>1 DEF IInv, Held, Joined, Accepting
    <3> QED BY <1>2, <1>3, <1>4, <2>1, <3>2
  <2>2. CASE j # i
    BY <1>1, <1>2, <1>4, <2>2 DEF IInv, Whole
  <2> QED BY <2>1, <2>2
<1>11. faults = 0 => Backed'
  <2> SUFFICES ASSUME faults = 0, NEW w \in members \ added
               PROVE  \E j \in InviteId : Backing(j, w)'
    BY <1>1 DEF Backed
  <2>1. PICK j \in InviteId : Backing(j, w)
    BY DEF IInv, Backed
  <2>2. alive
    BY DEF IInv, Gone
  <2>3. CASE j = i
    <3>1. invites[i].status # "none"
      BY <1>3, <2>2 DEF IInv, Held
    <3>2. Backing(j, w)'
      BY <1>4, <2>1, <2>3, <3>1 DEF Backing
    <3> QED BY <3>2
  <2>4. CASE j # i
    <3>1. Backing(j, w)'
      BY <1>1, <1>2, <1>3, <1>4, <2>1, <2>4 DEF Backing
    <3> QED BY <3>1
  <2> QED BY <2>3, <2>4
<1> QED BY <1>1, <1>5, <1>6, <1>7, <1>8, <1>9, <1>10, <1>11 DEF IInv

\* An invite r has in hand is settled otherwise, and r lets go of it.
LEMMA SettleKeeps ==
    ASSUME IInv, NEW r \in Request, NEW i \in request[r].invites, NEW s \in Settled,
           s # "accepted", SetStatus(i, s),
           request[r].phase \notin {"notify", "markAccepted"},
           request' \in [Request -> Rec], Shape(request'[r]),
           request'[r].invites = request[r].invites \ {i},
           request'[r].invites # {} => request'[r].phase = request[r].phase
                                       /\ request'[r].user = request[r].user,
           request'[r].phase \notin {"notify", "markAccepted", "insertInvite"},
           \A q \in Request : q # r => request'[q] = request[q],
           UNCHANGED <<alive, members, notified, faults, removed, added, overlapped>>
    PROVE  IInv'
<1>1. TypeOK /\ i \in InviteId
  BY DEF IInv, TypeOK
<1>2. /\ invites' \in [InviteId -> [status: {"none", "pending"} \cup Settled,
                                    invitee: SUBSET User, late: BOOLEAN]]
      /\ \A j \in InviteId : invites'[j].invitee = invites[j].invitee
      /\ \A j \in InviteId : j # i => invites'[j] = invites[j]
      /\ invites'[i].status = IF invites[i].status = "none" THEN "none" ELSE s
  BY <1>1, SetStatusBecomes
<1>3. s \notin {"none", "pending"}
  BY DEF Settled
<1>4. TypeOK'
  <2>1. \A j \in InviteId : invites'[j].invitee = {} <=> invites'[j].status = "none"
    BY <1>1, <1>2, <1>3 DEF TypeOK
  <2> QED BY <1>1, <1>2, <2>1 DEF TypeOK, Rec
<1>5. Shapes' /\ Alone' /\ Gone'
  BY <1>2 DEF IInv, Shapes, Alone, Gone
<1>6. Held'
  <2> SUFFICES ASSUME NEW q \in Request, NEW j \in request'[q].invites, alive
               PROVE  /\ invites'[j].status # "none"
                      /\ request'[q].phase \in Accepting => invites'[j].invitee = request'[q].user
                      /\ j \notin overlapped => IF request'[q].phase = "notify"
                                                THEN invites'[j].status = "accepted"
                                                ELSE invites'[j].status = "pending"
    BY DEF Held
  <2>0. j \in InviteId
    BY DEF Rec
  <2>1. CASE q = r
    <3>1. j # i /\ j \in request[r].invites /\ request'[r].phase = request[r].phase
          /\ request'[r].user = request[r].user
      BY <2>1
    <3> QED BY <1>2, <2>0, <2>1, <3>1 DEF IInv, Held
  <2>2. CASE q # r /\ j = i
    <3>1. i \in overlapped
      BY <1>1, <2>2 DEF IInv, Alone
    <3> QED BY <1>1, <1>2, <1>3, <2>2, <3>1 DEF IInv, Held
  <2>3. CASE q # r /\ j # i
    BY <1>2, <2>0, <2>3 DEF IInv, Held
  <2> QED BY <2>1, <2>2, <2>3
<1>7. Bounded'
  <2>1. \A v \in User : PendingFor(v)' \subseteq PendingFor(v)
    BY <1>2, <1>3 DEF PendingFor
  <2>2. \A v \in User : Inserting(v)' \subseteq Inserting(v)
    BY DEF Inserting
  <2> QED BY <2>1, <2>2, BoundedShrinks DEF IInv
<1>8. faults = 0 => Joined'
  BY DEF IInv, Joined
<1>9. faults = 0 => Whole'
  <2> SUFFICES ASSUME faults = 0, NEW j \in InviteId, invites'[j].status = "accepted"
               PROVE  /\ invites'[j].invitee \subseteq members \cup removed
                      /\ \/ j \in notified
                         \/ \E q \in Request : j \in request'[q].invites /\ request'[q].phase = "notify"
    BY DEF Whole
  <2>1. j # i /\ invites[j].status = "accepted"
    BY <1>2, <1>3
  <2> QED BY <1>2, <2>1 DEF IInv, Whole
<1>10. faults = 0 => Backed'
  <2> SUFFICES ASSUME faults = 0, NEW w \in members \ added
               PROVE  \E j \in InviteId : Backing(j, w)'
    BY DEF Backed
  <2>1. PICK j \in InviteId : Backing(j, w)
    BY DEF IInv, Backed
  <2>2. alive
    BY DEF IInv, Gone
  <2>3. CASE j = i
    <3>1. i \in overlapped
      <4> SUFFICES ASSUME i \notin overlapped PROVE FALSE
        OBVIOUS
      <4>1. invites[i].status = "pending"
        BY <2>2 DEF IInv, Held
      <4>2. PICK q \in Request : i \in request[q].invites /\ request[q].phase = "markAccepted"
        BY <2>1, <2>3, <4>1 DEF Backing
      <4> QED BY <1>1, <4>2 DEF IInv, Alone
    <3>2. Backing(j, w)'
      BY <1>2, <2>1, <2>3, <3>1 DEF Backing
    <3> QED BY <3>2
  <2>4. CASE j # i
    <3>1. Backing(j, w)'
      BY <1>2, <2>1, <2>4 DEF Backing
    <3> QED BY <3>1
  <2> QED BY <2>3, <2>4
<1> QED BY <1>4, <1>5, <1>6, <1>7, <1>8, <1>9, <1>10 DEF IInv

LEMMA MarkKeeps ==
    ASSUME IInv, NEW r \in Request, MarkRevoked(r) \/ MarkDeclined(r)
    PROVE  IInv'
<1>1. PICK s \in {"revoked", "declined"}, i \in request[r].invites : SetStatus(i, s)
  BY DEF MarkRevoked, MarkDeclined
<1>2. /\ UNCHANGED <<alive, members, notified, faults, removed, added, overlapped>>
      /\ request[r].phase \in {"markRevoked", "markDeclined"} /\ TypeOK
  BY DEF MarkRevoked, MarkDeclined, IInv
<1>3. /\ request' \in [Request -> Rec]
      /\ request'[r].phase = "idle" /\ request'[r].invites = {}
      /\ \A q \in Request : q # r => request'[q] = request[q]
  BY EndBecomes DEF MarkRevoked, MarkDeclined, IInv
<1>4. request[r].invites = {i} /\ Shape(request'[r])
  BY <1>2, <1>3 DEF IInv, Shapes, Shape, Accepting
<1>5. s \in Settled /\ s # "accepted"
  BY DEF Settled
<1> QED BY <1>1, <1>2, <1>3, <1>4, <1>5, SettleKeeps

LEMMA MarkExpiredKeeps ==
    ASSUME IInv, NEW r \in Request, MarkExpired(r)
    PROVE  IInv'
<1>1. /\ UNCHANGED <<alive, members, notified, faults, removed, added, overlapped>>
      /\ request[r].phase = "expire" /\ TypeOK
  BY DEF MarkExpired, IInv
<1>2. PICK i \in request[r].invites :
        /\ SetStatus(i, "expired")
        /\ IF request[r].invites = {i}
           THEN End(r)
           ELSE request' = [request EXCEPT ![r].invites = @ \ {i}]
  BY DEF MarkExpired
<1>3. /\ request' \in [Request -> Rec]
      /\ request'[r].invites = request[r].invites \ {i}
      /\ request'[r].phase \in {"idle", "expire"}
      /\ request'[r].phase = "idle" => request'[r].invites = {}
      /\ request'[r].invites # {} => request'[r].phase = "expire"
                                     /\ request'[r].user = request[r].user
      /\ \A q \in Request : q # r => request'[q] = request[q]
  <2>1. CASE request[r].invites = {i}
    BY <1>1, <1>2, <2>1, EndBecomes
  <2>2. CASE request[r].invites # {i}
    <3>1. /\ request' = [request EXCEPT ![r].invites = @ \ {i}]
          /\ request \in [Request -> Rec] /\ request[r] \in Rec
      BY <1>1, <1>2, <2>2 DEF TypeOK, Rec
    <3>2. request[r].invites \in SUBSET InviteId
      BY <3>1 DEF Rec
    <3>3. PICK x \in Rec : x = [request[r] EXCEPT !.invites = request[r].invites \ {i}]
      BY <3>1, <3>2 DEF Rec
    <3>4. /\ x.invites = request[r].invites \ {i}
          /\ x.phase = request[r].phase /\ x.user = request[r].user
      BY <3>1, <3>3 DEF Rec
    <3>5. request' = [request EXCEPT ![r] = x]
      BY <3>1, <3>3
    <3> QED BY <1>1, <3>1, <3>4, <3>5
  <2> QED BY <2>1, <2>2
<1>4. Shape(request'[r])
  BY <1>3 DEF Shape, Accepting
<1>5. "expired" \in Settled
  BY DEF Settled
<1> QED BY <1>1, <1>2, <1>3, <1>4, <1>5, SettleKeeps

-----------------------------------------------------------------------------
(* What happens around them.                                                *)

LEMMA ElapseKeeps ==
    ASSUME IInv, NEW i \in InviteId, Elapse(i)
    PROVE  IInv'
<1>1. /\ UNCHANGED <<alive, members, request, notified, faults, removed, added, overlapped>>
      /\ invites' = [invites EXCEPT ![i].late = TRUE] /\ TypeOK
  BY DEF Elapse, IInv
<1>2. /\ \A j \in InviteId : invites'[j].status = invites[j].status
                             /\ invites'[j].invitee = invites[j].invitee
      /\ invites' \in [InviteId -> [status: {"none", "pending"} \cup Settled,
                                    invitee: SUBSET User, late: BOOLEAN]]
  <2>1. PICK Status : Status = {"none", "pending"} \cup Settled
    OBVIOUS
  <2>2. invites \in [InviteId -> [status: Status, invitee: SUBSET User, late: BOOLEAN]]
    BY <1>1, <2>1 DEF TypeOK
  <2> QED BY <1>1, <2>1, <2>2
<1>3. TypeOK'
  BY <1>1, <1>2 DEF TypeOK
<1>4. Shapes' /\ Gone' /\ Alone'
  BY <1>1, <1>2 DEF IInv, Shapes, Gone, Alone
<1>5. Held'
  <2>1. \A r \in Request : \A j \in request[r].invites : j \in InviteId
    BY <1>1 DEF TypeOK
  <2> QED BY <1>1, <1>2, <2>1 DEF IInv, Held
<1>6. Bounded'
  BY <1>1, <1>2, BoundedShrinks DEF IInv, PendingFor, Inserting
<1>7. faults = 0 => Joined' /\ Whole'
  BY <1>1, <1>2 DEF IInv, Joined, Whole
<1>8. faults = 0 => Backed'
  BY <1>1, <1>2 DEF IInv, Backed, Backing
<1> QED BY <1>1, <1>3, <1>4, <1>5, <1>6, <1>7, <1>8 DEF IInv

LEMMA RemoveMemberKeeps ==
    ASSUME IInv, NEW u \in User, RemoveMember(u)
    PROVE  IInv'
<1>1. /\ UNCHANGED <<alive, invites, request, notified, faults, overlapped>>
      /\ members' = members \ {u} /\ removed' = removed \cup {u} /\ added' = added \ {u}
      /\ members' \subseteq members /\ members' \cup removed' = members \cup removed
  BY DEF RemoveMember
<1>2. TypeOK'
  BY <1>1 DEF IInv, TypeOK
<1>3. Shapes' /\ Gone' /\ Held' /\ Alone'
  BY <1>1 DEF IInv, Shapes, Gone, Held, Alone
<1>4. Bounded'
  BY <1>1, BoundedShrinks DEF IInv, PendingFor, Inserting
<1>5. faults = 0 => Joined' /\ Whole'
  BY <1>1 DEF IInv, Joined, Whole
<1>6. faults = 0 => Backed'
  BY <1>1 DEF IInv, Backed, Backing
<1> QED BY <1>1, <1>2, <1>3, <1>4, <1>5, <1>6 DEF IInv

LEMMA DeleteInstanceKeeps ==
    ASSUME IInv, DeleteInstance
    PROVE  IInv'
<1>1. /\ UNCHANGED <<request, notified, faults, removed, overlapped>>
      /\ ~alive' /\ alive' \in BOOLEAN /\ members' = {} /\ added' = {}
      /\ invites' = [i \in InviteId |-> NoInvite]
  BY DEF DeleteInstance
<1>2. \A i \in InviteId : invites'[i].status = "none" /\ invites'[i].invitee = {}
  BY <1>1 DEF NoInvite
<1>3. TypeOK'
  <2>1. invites' \in [InviteId -> [status: {"none", "pending"} \cup Settled,
                                   invitee: SUBSET User, late: BOOLEAN]]
    BY <1>1 DEF NoInvite
  <2> QED BY <1>1, <1>2, <2>1 DEF IInv, TypeOK
<1>4. Shapes' /\ Gone' /\ Held' /\ Alone'
  BY <1>1, <1>2 DEF IInv, Shapes, Gone, Held, Alone
<1>5. Bounded'
  <2>1. \A v \in User : PendingFor(v)' \subseteq PendingFor(v)
    BY <1>2 DEF PendingFor
  <2> QED BY <1>1, <2>1, BoundedShrinks DEF IInv, Inserting
<1>6. Joined' /\ Whole' /\ Backed'
  BY <1>1, <1>2 DEF Joined, Whole, Backed
<1> QED BY <1>3, <1>4, <1>5, <1>6 DEF IInv

LEMMA InitHolds == Init => IInv
<1> SUFFICES ASSUME Init PROVE IInv
  OBVIOUS
<1>1. /\ alive = TRUE /\ members = {} /\ notified = {} /\ faults = 0 /\ removed = {}
      /\ added = {} /\ overlapped = {}
      /\ invites = [i \in InviteId |-> NoInvite] /\ request = [r \in Request |-> Idle]
  BY DEF Init
<1>2. /\ \A i \in InviteId : invites[i].status = "none" /\ invites[i].invitee = {}
      /\ \A r \in Request : request[r].phase = "idle" /\ request[r].invites = {}
  BY <1>1 DEF NoInvite, Idle
<1>3. TypeOK
  <2>1. invites \in [InviteId -> [status: {"none", "pending"} \cup Settled,
                                  invitee: SUBSET User, late: BOOLEAN]]
    BY <1>1 DEF NoInvite
  <2>2. request \in [Request -> Rec]
    BY <1>1 DEF Idle, Rec, Phase
  <2> QED BY <1>1, <1>2, <2>1, <2>2 DEF TypeOK, Rec
<1>4. Shapes
  BY <1>2 DEF Shapes, Shape, Accepting
<1>5. Gone /\ Held /\ Alone /\ Joined /\ Whole /\ Backed
  BY <1>1, <1>2 DEF Gone, Held, Alone, Joined, Whole, Backed
<1>6. Bounded
  <2> SUFFICES ASSUME NEW u \in User
               PROVE  /\ IsFiniteSet(PendingFor(u))
                      /\ Cardinality(PendingFor(u)) + Cardinality(Inserting(u)) <= Cardinality(Request)
    BY DEF Bounded
  <2>1. PendingFor(u) = {} /\ Inserting(u) = {}
    BY <1>2 DEF PendingFor, Inserting
  <2>2. IsFiniteSet({}) /\ Cardinality({}) = 0 /\ Cardinality(Request) \in Nat
    BY InvitesAssumption, FS_EmptySet, FS_CardinalityType
  <2> QED BY <2>1, <2>2
<1> QED BY <1>3, <1>4, <1>5, <1>6 DEF IInv

-----------------------------------------------------------------------------
(* The theorems.                                                            *)

LEMMA NextKeeps == IInv /\ [Next]_vars => IInv'
<1> SUFFICES ASSUME IInv, [Next]_vars PROVE IInv'
  OBVIOUS
<1>1. CASE UNCHANGED vars
  <2>1. TypeOK' /\ Shapes' /\ Gone' /\ Held' /\ Alone'
    BY <1>1 DEF vars, IInv, TypeOK, Shapes, Gone, Held, Alone
  <2>2. Bounded'
    BY <1>1, BoundedShrinks DEF vars, IInv, PendingFor, Inserting
  <2>3. faults' = 0 => Joined' /\ Whole' /\ Backed'
    BY <1>1 DEF vars, IInv, Joined, Whole, Backed, Backing
  <2> QED BY <2>1, <2>2, <2>3 DEF IInv
<1>2. ASSUME NEW r \in Request, GoesOn(r) PROVE IInv'
  BY <1>2, CheckExistingKeeps, InsertInviteKeeps, InsertMemberKeeps, MarkAcceptedKeeps,
     NotifyKeeps, RevokeCheckOwnerKeeps, MarkKeeps, MarkExpiredKeeps, InsertAddedKeeps,
     CallFailsKeeps
     DEF GoesOn, AcceptStep
<1> QED BY <1>1, <1>2, BeginsKeeps, ElapseKeeps, RemoveMemberKeeps, DeleteInstanceKeeps DEF Next

\* The inductive invariant, however the requests for an invite interleave.
THEOREM InvitesInvariant == Spec => []IInv
BY InitHolds, NextKeeps, PTL DEF Spec

\* Every variable keeps its type, and who has no row has no invitee.
THEOREM InvitesTypeCorrect == Spec => []TypeOK
<1>1. IInv => TypeOK
  BY DEF IInv
<1> QED BY <1>1, InvitesInvariant, PTL

\* As many invites of one user are pending as requests can be in flight, at
\* most, however long the service runs.
THEOREM PendingIsBounded == Spec => []PendingBounded
<1>1. IInv => PendingBounded
  BY DEF IInv, Bounded, PendingBounded, Inserting
<1> QED BY <1>1, InvitesInvariant, PTL

\* Who has accepted has become a member, and the owner was told or is about
\* to be, unless a call has failed.
THEOREM AcceptancesAreWhole == Spec => []AcceptanceIsWhole
<1>1. IInv => AcceptanceIsWhole
  BY DEF IInv, Whole, AcceptanceIsWhole
<1> QED BY <1>1, InvitesInvariant, PTL

\* Whoever is a member has an invite of their own that they accepted, or a row
\* that addMember inserted, unless a call has failed.
THEOREM MembershipsAreBacked == Spec => []MembershipIsBacked
<1>1. IInv => MembershipIsBacked
  BY DEF IInv, Backed, Backing, MembershipIsBacked
<1> QED BY <1>1, InvitesInvariant, PTL

\* What one request settled no other one settles again, unless the two had the
\* invite in hand at once.
THEOREM SettledInvitesStay == Spec => SettledStays
<1> DEFINE Stays == \A i \in InviteId :
                      /\ invites[i].status \in Settled
                      /\ i \notin overlapped
                      => invites'[i].status \in {invites[i].status, "none"}
<1>1. IInv /\ [Next]_vars => [Stays]_vars
  <2> SUFFICES ASSUME IInv, Next, NEW i \in InviteId,
                      invites[i].status \in Settled, i \notin overlapped
               PROVE  invites'[i].status \in {invites[i].status, "none"}
    OBVIOUS
  <2>0. TypeOK /\ invites[i].status \notin {"none", "pending"} /\ alive
    BY DEF IInv, Settled, Gone
  <2>1. ASSUME NEW r \in Request, NEW j \in request[r].invites, NEW s \in Settled,
               request[r].phase # "notify", SetStatus(j, s)
        PROVE  invites'[i].status = invites[i].status
    <3>1. j # i
      BY <2>0, <2>1 DEF IInv, Held
    <3>2. j \in InviteId
      BY <2>0, <2>1 DEF TypeOK
    <3> QED BY <2>0, <2>1, <3>1, <3>2, SetStatusBecomes
  <2>2. ASSUME NEW r \in Request, Begins(r) PROVE invites' = invites
    BY <2>2 DEF Begins, CreateInvite, MyReceivedInvitations, AddMember, AcceptInvite, RevokeInvite, DeclineInvite
  <2>3. ASSUME NEW r \in Request, GoesOn(r) PROVE invites'[i].status = invites[i].status
    <3>1. CASE InsertInvite(r)
      BY <2>0, <3>1 DEF InsertInvite, TypeOK
    <3>2. CASE \/ CheckExisting(r) \/ InsertMember(r) \/ Notify(r) \/ RevokeCheckOwner(r)
               \/ InsertAdded(r) \/ CallFails(r)
      BY <3>2 DEF CheckExisting, InsertMember, Notify, RevokeCheckOwner, InsertAdded, CallFails
    <3>3. CASE MarkAccepted(r) \/ MarkRevoked(r) \/ MarkDeclined(r) \/ MarkExpired(r)
      <4>1. PICK j \in request[r].invites, s \in Settled :
              SetStatus(j, s) /\ request[r].phase # "notify"
        BY <3>3 DEF MarkAccepted, MarkRevoked, MarkDeclined, MarkExpired, Settled
      <4> QED BY <2>1, <4>1
    <3> QED BY <2>3, <3>1, <3>2, <3>3 DEF GoesOn, AcceptStep
  <2>4. ASSUME NEW j \in InviteId, Elapse(j) PROVE invites'[i].status = invites[i].status
    BY <2>0, <2>4 DEF Elapse, TypeOK
  <2>5. ASSUME NEW u \in User, RemoveMember(u) PROVE invites' = invites
    BY <2>5 DEF RemoveMember
  <2>6. CASE DeleteInstance
    BY <2>6 DEF DeleteInstance, NoInvite
  <2> QED BY <2>2, <2>3, <2>4, <2>5, <2>6 DEF Next
<1> QED BY <1>1, InvitesInvariant, PTL DEF Spec, SettledStays
=============================================================================
