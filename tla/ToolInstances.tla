----------------------------- MODULE ToolInstances -----------------------------
(***************************************************************************)
(* ToolInstanceService for ONE instance that has just been created: its    *)
(* owner, its members and their accesses, under the requests that the      *)
(* GraphQL resolvers hand to it and that overlap freely.  A request is a   *)
(* record that goes through the code from one database call to the next;   *)
(* nothing holds a lock or a transaction across them.  The document row is *)
(* put there by a load that finds none, for a socket or a request that may *)
(* be older than what has become of the instance.                          *)
(***************************************************************************)
EXTENDS Integers, FiniteSets

CONSTANTS
    User,
    Creator,       \* the user who created the instance
    Call,          \* bound: requests at once
    MaxFaults,     \* bound: database calls that fail
    Visitor,       \* bound: the users whose accesses are recorded
    MaxRecorded    \* bound: the count at which no more are recorded

ASSUME ToolInstancesAssumption ==
    /\ Creator \in User /\ Visitor \subseteq User
    /\ MaxFaults \in Nat /\ MaxRecorded \in Nat

VARIABLES
    exists, owner, archived,   \* the row of tool_instances
    document,                  \* the document row (documents) exists
    members,                   \* the rows of tool_instance_members
    accessCount,               \* the rows of user_tool_instance_accesses; 0: none
    placed,                    \* history: the row was last inserted with its instance there
    call,                      \* the requests
    faults,                    \* history: database calls that have failed
    seen,                      \* history: what was true at some moment of a call
    untold,                    \* history: notifications members still should get
    late,                      \* history: members added since a delete listed them
    recorded,                  \* history: the accesses recorded for a user
    raced                      \* history: users with two recordings at once

tables == <<exists, owner, archived, document, members, accessCount>>
history == <<untold, late, recorded, raced>>
vars == <<tables, placed, call, faults, seen, history>>

Op == {"access", "transfer", "add", "remove", "leave", "archive", "unarchive",
       "delete", "record"}

\* "owner": isOwner; "inst", "mem": the reads of canAccess; "read": getById;
\* "list": the members to tell; "delrow": the row goes; "granted": the answer.
Step == {"owner", "inst", "mem", "read", "member", "insert", "delrow", "write", "list",
         "document", "tell", "look", "count", "create", "granted"}

None == "none"

Notice == [user: User, type: {"archived", "deleted"}]

TypeOK ==
    /\ exists \in BOOLEAN /\ archived \in BOOLEAN
    /\ document \in BOOLEAN /\ placed \in BOOLEAN
    /\ owner \in User /\ members \subseteq User
    /\ accessCount \in [User -> Nat]
    /\ ~exists => members = {} /\ \A u \in User : accessCount[u] = 0
    /\ untold \subseteq Notice
    /\ call \in [Call -> [op: Op \cup {None}, user: User, target: User,
                          step: Step \cup {None}, left: SUBSET User, count: Nat]]
    /\ faults \in 0..MaxFaults
    /\ seen \in [Call -> SUBSET {"owned", "member", "open"}]
    /\ late \subseteq User /\ raced \subseteq User
    /\ recorded \in [User -> Nat]

Idle == [op |-> None, user |-> Creator, target |-> Creator, step |-> None,
         left |-> {}, count |-> 0]

Running(c) == call[c].op # None

\* create has inserted the instance and recorded an access of its owner; the
\* document is not there before somebody opens it.
Init ==
    /\ exists = TRUE /\ owner = Creator /\ archived = FALSE
    /\ document = FALSE /\ placed = FALSE
    /\ members = {}
    /\ accessCount = [u \in User |-> IF u = Creator THEN 1 ELSE 0]
    /\ recorded = accessCount
    /\ untold = {} /\ late = {} /\ raced = {}
    /\ call = [c \in Call |-> Idle]
    /\ faults = 0
    /\ seen = [c \in Call |-> {}]

-----------------------------------------------------------------------------
At(c, op, step) == call[c].op = op /\ call[c].step = step
Goto(c, step) == call' = [call EXCEPT ![c].step = step]
Ends(c) == call' = [call EXCEPT ![c] = Idle]

\* A read that decides: the call goes on, or throws or returns.
Decides(c, ok, step) ==
    /\ IF ok THEN Goto(c, step) ELSE Ends(c)
    /\ UNCHANGED <<tables, faults, history>>

FirstStep(op) ==
    CASE op \in {"add", "remove"} -> "owner"
      [] op = "access" -> "inst"
      [] op = "record" -> "look"
      [] OTHER -> "read"

Begin(c, op, u, t) ==
    /\ ~Running(c)
    /\ op \in {"access", "leave", "record"} => t = u
    /\ op \in {"archive", "unarchive", "delete"} => t = u
    /\ op = "record" => u \in Visitor /\ recorded[u] < MaxRecorded
    /\ call' = [call EXCEPT ![c] = [Idle EXCEPT !.op = op, !.user = u, !.target = t,
                                               !.step = FirstStep(op)]]
    /\ raced' = raced \cup {v \in {u} : op = "record" /\
                              \E d \in Call : call[d].op = "record" /\ call[d].user = u}
    /\ UNCHANGED <<tables, faults, untold, late, recorded>>

\* A database call throws, and with it the request; what was written stays.
\* addMember alone catches it: see InsertMember.
Fails(c) ==
    /\ Running(c) /\ call[c].step \notin {"insert", "granted"}
    /\ faults < MaxFaults
    /\ faults' = faults + 1
    /\ Ends(c)
    /\ UNCHANGED <<tables, history>>

\* The caller has its answer.
Answered(c) ==
    /\ call[c].step = "granted"
    /\ Ends(c)
    /\ UNCHANGED <<tables, faults, history>>

-----------------------------------------------------------------------------
(* canAccess, of a user for themselves and of transferOwnership for the new *)
(* owner.  Its first query asks only whether the instance is there.         *)

AccessResult(c, granted) ==
    /\ IF call[c].op = "transfer"
       THEN Goto(c, IF granted THEN "write" ELSE "insert")
       ELSE IF granted THEN Goto(c, "granted") ELSE Ends(c)
    /\ UNCHANGED <<tables, faults, history>>

\* Mutant: archiving does not keep the members out.
CanAccessReadArchived(c) ==
    /\ call[c].step = "inst"
    /\ IF ~exists THEN AccessResult(c, FALSE)
       ELSE IF owner = call[c].target THEN AccessResult(c, TRUE)
       ELSE Goto(c, "mem") /\ UNCHANGED <<tables, faults, history>>

CanAccessRead(c) ==
    /\ call[c].step = "inst"
    /\ IF ~exists THEN AccessResult(c, FALSE)
       ELSE IF owner = call[c].target THEN AccessResult(c, TRUE)
       ELSE IF archived THEN AccessResult(c, FALSE)
       ELSE Goto(c, "mem") /\ UNCHANGED <<tables, faults, history>>

CanAccessMember(c) ==
    /\ call[c].step = "mem"
    /\ AccessResult(c, call[c].target \in members)

-----------------------------------------------------------------------------
(* The checks at the start.                                                 *)

\* Mutant: anybody may.
OwnerCheckOpen(c) == call[c].step = "owner" /\ Decides(c, TRUE,
    IF call[c].op = "add" THEN "insert" ELSE "read")

\* The resolvers of addToolInstanceMember and removeToolInstanceMember ask
\* isOwner; the first then returns at once if the owner names themselves.
OwnerCheck(c) ==
    /\ call[c].step = "owner"
    /\ LET isOwner == exists /\ owner = call[c].user
       IN  IF call[c].op = "add"
           THEN Decides(c, isOwner /\ call[c].target # call[c].user, "insert")
           ELSE Decides(c, isOwner, "read")

\* getById, and who may go on.
ReadTransfer(c) ==
    /\ At(c, "transfer", "read")
    /\ Decides(c, exists /\ owner = call[c].user,
                  IF call[c].target = call[c].user THEN "write" ELSE "inst")

ReadRemove(c) ==
    /\ At(c, "remove", "read")
    /\ Decides(c, exists /\ owner # call[c].target, "delrow")

ReadLeave(c) ==
    /\ At(c, "leave", "read")
    /\ Decides(c, exists /\ owner # call[c].user, "member")

ReadOwned(c) ==
    /\ \E op \in {"archive", "unarchive", "delete"} : At(c, op, "read")
    /\ Decides(c, exists /\ owner = call[c].user,
                  IF call[c].op = "delete" THEN "list" ELSE "write")

LeaveMember(c) ==
    /\ At(c, "leave", "member")
    /\ Decides(c, call[c].user \in members, "delrow")

-----------------------------------------------------------------------------
(* Members.                                                                 *)

\* addMember: any error of the insert, a key or a foreign key among them, is
\* caught, and transferOwnership does not look at the result.
InsertMember(c) ==
    /\ call[c].step = "insert"
    /\ \/ /\ members' = IF exists THEN members \cup {call[c].target} ELSE members
          /\ UNCHANGED faults
       \/ /\ faults < MaxFaults
          /\ faults' = faults + 1
          /\ UNCHANGED members
    /\ late' = IF \E d \in Call : call[d].op = "delete" /\ call[d].step = "write"
               THEN late \cup (members' \ members) ELSE late
    /\ IF call[c].op = "transfer" THEN Goto(c, "write") ELSE Ends(c)
    /\ UNCHANGED <<exists, owner, archived, document, accessCount, untold, recorded, raced>>

\* removeMember and leave; the row may be gone already.
DeleteMember(c) ==
    /\ call[c].step = "delrow"
    /\ members' = members \ {call[c].target}
    /\ untold' = untold \ {[user |-> call[c].target, type |-> "archived"]}
    /\ Ends(c)
    /\ UNCHANGED <<exists, owner, archived, document, accessCount, faults,
                   late, recorded, raced>>

-----------------------------------------------------------------------------
(* The instance.  An update of a row that is gone changes nothing.          *)

WriteOwner(c) ==
    /\ At(c, "transfer", "write")
    /\ owner' = IF exists THEN call[c].target ELSE owner
    /\ Ends(c)
    /\ UNCHANGED <<exists, archived, document, members, accessCount, faults, history>>

Archive(c) ==
    /\ At(c, "archive", "write")
    /\ archived' = (archived \/ exists)
    /\ untold' = untold \cup [user: members, type: {"archived"}]
    /\ Goto(c, "list")
    /\ UNCHANGED <<exists, owner, document, members, accessCount, faults,
                   late, recorded, raced>>

Unarchive(c) ==
    /\ At(c, "unarchive", "write")
    /\ archived' = (archived /\ ~exists)
    /\ Ends(c)
    /\ UNCHANGED <<exists, owner, document, members, accessCount, faults, history>>

\* The members to tell: read by archive after its update, by delete before.
ListMembers(c) ==
    /\ call[c].step = "list"
    /\ call' = [call EXCEPT ![c].left = members,
                            ![c].step = IF call[c].op = "delete" THEN "write" ELSE "tell"]
    /\ UNCHANGED <<tables, faults, history>>

\* The row goes, and by cascade members, accesses and the notifications of
\* archiving, which name the instance.
Delete(c) ==
    /\ At(c, "delete", "write")
    /\ exists' = FALSE /\ archived' = FALSE /\ members' = {}
    /\ accessCount' = [u \in User |-> 0]
    /\ untold' = {n \in untold : n.type = "deleted"}
                   \cup [user: members \ late, type: {"deleted"}]
    /\ late' = {} /\ raced' = {}
    /\ Goto(c, "document")
    /\ UNCHANGED <<owner, document, faults, recorded>>

\* Mutant: only the request that finds members goes on to the document.
DeleteDocumentOfMembers(c) ==
    /\ At(c, "delete", "document")
    /\ document' = (document /\ call[c].left = {})
    /\ Goto(c, "tell")
    /\ UNCHANGED <<exists, owner, archived, members, accessCount, faults, history>>

\* Then the document; DocumentRegistry.forget follows in the same step.
DeleteDocument(c) ==
    /\ At(c, "delete", "document")
    /\ document' = FALSE
    /\ Goto(c, "tell")
    /\ UNCHANGED <<exists, owner, archived, members, accessCount, faults, history>>

\* What a member is told by a call.
Notification(c, u) ==
    [user |-> u, type |-> IF call[c].op = "archive" THEN "archived" ELSE "deleted"]

\* One notification; that of an archive names the instance, so that its
\* insert fails, and the request with it, once the row is gone.
Tell(c) ==
    /\ call[c].step = "tell" /\ call[c].left # {}
    /\ IF call[c].op = "archive" /\ ~exists
       THEN Ends(c) /\ UNCHANGED untold
       ELSE \E u \in call[c].left :
              /\ untold' = untold \ {Notification(c, u)}
              /\ call' = [call EXCEPT ![c].left = @ \ {u}]
    /\ UNCHANGED <<exists, owner, archived, document, members, accessCount, faults,
                   late, recorded, raced>>

TellDone(c) ==
    /\ call[c].step = "tell" /\ call[c].left = {}
    /\ Ends(c)
    /\ UNCHANGED <<tables, faults, history>>

-----------------------------------------------------------------------------
(* recordAccess.                                                            *)

RecordLook(c) ==
    /\ At(c, "record", "look")
    /\ call' = [call EXCEPT ![c].step = IF accessCount[call[c].user] = 0 THEN "create" ELSE "count",
                            ![c].count = accessCount[call[c].user]]
    /\ UNCHANGED <<tables, faults, history>>

\* Mutant: what was read is written back.
RecordCountStale(c) ==
    /\ At(c, "record", "count")
    /\ accessCount' = IF exists THEN [accessCount EXCEPT ![call[c].user] = call[c].count]
                      ELSE accessCount
    /\ recorded' = [recorded EXCEPT ![call[c].user] = @ + 1]
    /\ Ends(c)
    /\ UNCHANGED <<exists, owner, archived, document, members, faults, untold, late, raced>>

RecordCount(c) ==
    /\ At(c, "record", "count")
    /\ accessCount' = IF exists THEN [accessCount EXCEPT ![call[c].user] = call[c].count + 1]
                      ELSE accessCount
    /\ recorded' = [recorded EXCEPT ![call[c].user] = @ + 1]
    /\ Ends(c)
    /\ UNCHANGED <<exists, owner, archived, document, members, faults, untold, late, raced>>

\* Mutant: the insert does not ask whether the instance is there.
RecordCreateAnyway(c) ==
    /\ At(c, "record", "create")
    /\ accessCount' = [accessCount EXCEPT ![call[c].user] = 1]
    /\ recorded' = [recorded EXCEPT ![call[c].user] = @ + 1]
    /\ Ends(c)
    /\ UNCHANGED <<exists, owner, archived, document, members, faults, untold, late, raced>>

\* The insert throws when a concurrent call was first or the instance is gone.
RecordCreate(c) ==
    /\ At(c, "record", "create")
    /\ LET u == call[c].user
       IN  IF exists /\ accessCount[u] = 0
           THEN /\ accessCount' = [accessCount EXCEPT ![u] = 1]
                /\ recorded' = [recorded EXCEPT ![u] = @ + 1]
           ELSE UNCHANGED <<accessCount, recorded>>
    /\ Ends(c)
    /\ UNCHANGED <<exists, owner, archived, document, members, faults, untold, late, raced>>

-----------------------------------------------------------------------------
(* The document row.                                                        *)

\* loadDocument finds no snapshot and persistInitialSnapshot inserts one.  One
\* step, since acquire shares a load and nobody else inserts the row.  acquire is
\* called for sockets that are connected and requests past their checks: it
\* does not ask again whether the instance is there.
LoadCreates ==
    /\ ~document
    /\ document' = TRUE /\ placed' = exists
    /\ UNCHANGED <<exists, owner, archived, members, accessCount, call, faults, history>>

-----------------------------------------------------------------------------
Steps(c) ==
    \/ \E op \in Op, u, t \in User : Begin(c, op, u, t)
    \/ Fails(c) \/ Answered(c)
    \/ CanAccessRead(c) \/ CanAccessMember(c) \/ OwnerCheck(c)
    \/ ReadTransfer(c) \/ ReadRemove(c) \/ ReadLeave(c) \/ ReadOwned(c) \/ LeaveMember(c)
    \/ InsertMember(c) \/ DeleteMember(c) \/ WriteOwner(c)
    \/ Archive(c) \/ Unarchive(c) \/ ListMembers(c)
    \/ Delete(c) \/ DeleteDocument(c) \/ Tell(c) \/ TellDone(c)
    \/ RecordLook(c) \/ RecordCount(c) \/ RecordCreate(c)

\* What holds now of the user of a call.
Facts(c) ==
    {f \in {"owned", "member", "open"} :
        CASE f = "owned" -> exists /\ owner = call[c].user
          [] f = "member" -> call[c].op = "access" /\ call[c].user \in members
          [] f = "open" -> call[c].op = "access" /\ exists /\ ~archived}

Remember ==
    seen' = [c \in Call |-> IF ~Running(c)' THEN {}
                            ELSE (IF Running(c) THEN seen[c] ELSE {}) \cup Facts(c)']

Next ==
    /\ \/ (\E c \in Call : Steps(c)) /\ UNCHANGED placed
       \/ LoadCreates
    /\ Remember

Spec == Init /\ [][Next]_vars

-----------------------------------------------------------------------------
\* Access is granted only to a user who, during the request, was the owner,
\* or was a member at one moment and found the instance unarchived at one:
\* canAccess reads the two one after the other.
GrantIsHonest ==
    \A c \in Call : At(c, "access", "granted") =>
        "owned" \in seen[c] \/ {"member", "open"} \subseteq seen[c]

\* Every change of owner, archive state, existence and members is made by a
\* request whose user owned the instance at some moment of it, or by a
\* member who leaves: no overlap of a transfer with the other requests lets
\* one through that was never entitled.
ChangesAreEntitled ==
    [][<<owner, archived, exists, members>>' # <<owner, archived, exists, members>> =>
         \E c \in Call : /\ call'[c] # call[c]
                         /\ \/ "owned" \in seen[c]
                            \/ call[c].op = "leave" /\ members' = members \ {call[c].user}]_vars

\* Without a failing call requests leave nothing half done.  Every member of
\* the moment the instance was archived, who stayed, and of the moment it was
\* deleted, has been told once the requests are through; only members who
\* joined behind the back of a delete that had listed them are not.  And the
\* document row stays while the instance does, and outlives it only when a
\* load has inserted it, perhaps again, after the instance was gone.
RequestsAreWhole ==
    faults = 0 =>
        /\ (\A c \in Call : ~Running(c)) => untold = {}
        /\ exists /\ placed => document
        /\ (\A c \in Call : call[c].op # "delete") /\ document /\ placed => exists

\* While the instance exists its access count is exact for a user who never
\* had two recordings at once, and never above or without one for the others.
AccessesCounted ==
    exists => \A u \in User :
        /\ accessCount[u] <= recorded[u]
        /\ recorded[u] > 0 => accessCount[u] > 0
        /\ u \notin raced => accessCount[u] = recorded[u]

=============================================================================
