-------------------------- MODULE ToolInstances_proofs --------------------------
(***************************************************************************)
(* Theorems of ToolInstances, for every set of users and of requests: who  *)
(* may change an instance and who is let in, that nobody is left untold,   *)
(* and what the access counts are.  Then the theorems of SchemaDesign, the *)
(* tool whose documents the instances hold.                                *)
(***************************************************************************)
EXTENDS ToolInstances, SchemaDesign, FiniteSetTheorems, TLAPS

-----------------------------------------------------------------------------
(* The inductive invariant.                                                 *)

Request == [op: Op \cup {None}, user: User, target: User,
            step: Step \cup {None}, left: SUBSET User, count: Nat]

\* The steps each request goes through, and the ones about oneself.
Shape(r) ==
    /\ r.op = None => r.step = None
    /\ r.op = "access" => r.step \in {"inst", "mem", "granted"}
    /\ r.op = "transfer" => r.step \in {"read", "inst", "mem", "insert", "write"}
    /\ r.op = "add" => r.step \in {"owner", "insert"}
    /\ r.op = "remove" => r.step \in {"owner", "read", "delrow"}
    /\ r.op = "leave" => r.step \in {"read", "member", "delrow"}
    /\ r.op = "archive" => r.step \in {"read", "write", "list", "tell"}
    /\ r.op = "unarchive" => r.step \in {"read", "write"}
    /\ r.op = "delete" => r.step \in {"read", "list", "write", "document", "tell"}
    /\ r.op = "record" => r.step \in {"look", "count", "create"}
    /\ r.op \in {"access", "leave", "record"} => r.target = r.user

Shapes == \A c \in Call : Shape(call[c])

\* A request is past its owner check.
Checked(r) ==
    \/ r.op = "transfer" /\ r.step # "read"
    \/ r.op \in {"add", "remove"} /\ r.step # "owner"
    \/ r.op \in {"archive", "unarchive", "delete"} /\ r.step # "read"

\* What a request has passed, it has seen.
EntitledBy(r, s) ==
    /\ Checked(r) => "owned" \in s
    /\ r.op = "access" /\ r.step = "mem" => "open" \in s
    /\ r.op = "access" /\ r.step = "granted" => "owned" \in s \/ {"member", "open"} \subseteq s

Entitled == \A c \in Call : EntitledBy(call[c], seen[c])

\* The row goes before the document and the telling; with it the
\* notifications that name it.
Deleting ==
    /\ \A c \in Call : call[c].op = "delete" /\ call[c].step \in {"document", "tell"} => ~exists
    /\ ~exists => \A n \in untold : n.type = "deleted"

\* Who joined behind a delete that has listed the members is in late.
Listed ==
    \A c \in Call : At(c, "delete", "write") => members \subseteq call[c].left \cup late

\* Somebody is on the way to send a notification.
WillTell(c, n) ==
    \/ /\ n.type = "archived" /\ call[c].op = "archive"
       /\ \/ call[c].step = "list" /\ n.user \in members
          \/ call[c].step = "tell" /\ n.user \in call[c].left
    \/ /\ n.type = "deleted" /\ call[c].op = "delete"
       /\ call[c].step \in {"document", "tell"} /\ n.user \in call[c].left

Told == \A n \in untold : \E c \in Call : WillTell(c, n)

\* A row inserted with its instance stays with it; only the delete that is
\* about to take it may have left it behind.
Documented ==
    /\ exists /\ placed => document
    /\ document /\ placed /\ ~exists => \E c \in Call : At(c, "delete", "document")

\* Two recordings at once are remembered; one alone finds what it has read.
Recording(c) == call[c].op = "record"

Recordings ==
    exists => \A c \in Call : Recording(c) =>
        /\ \A d \in Call \ {c} : Recording(d) /\ call[d].user = call[c].user =>
                                    call[c].user \in raced
        /\ call[c].step = "count" =>
             /\ call[c].count <= recorded[call[c].user]
             /\ call[c].user \notin raced => call[c].count = accessCount[call[c].user]
        /\ call[c].step = "create" /\ call[c].user \notin raced =>
             accessCount[call[c].user] = 0

IInv ==
    /\ TypeOK /\ Shapes /\ Entitled /\ Deleting /\ Listed
    /\ faults = 0 => Told /\ Documented
    /\ Recordings /\ AccessesCounted

-----------------------------------------------------------------------------
(* How a step moves the requests.                                           *)

\* Goto moves one request.
LEMMA Going ==
    ASSUME call \in [Call -> Request], NEW c \in Call, NEW s \in Step, Goto(c, s)
    PROVE  /\ call' \in [Call -> Request]
           /\ \A d \in Call \ {c} : call'[d] = call[d]
           /\ call'[c].step = s /\ call'[c].op = call[c].op
           /\ call'[c].user = call[c].user /\ call'[c].target = call[c].target
           /\ call'[c].left = call[c].left /\ call'[c].count = call[c].count
<1>1. PICK r : r = [call[c] EXCEPT !.step = s]
  OBVIOUS
<1>2. call[c] \in Request
  OBVIOUS
<1>3. /\ r \in Request /\ r.step = s /\ r.op = call[c].op /\ r.user = call[c].user
      /\ r.target = call[c].target /\ r.left = call[c].left /\ r.count = call[c].count
  BY <1>1, <1>2 DEF Request
<1>4. call' = [call EXCEPT ![c] = r]
  BY <1>1 DEF Goto
<1> QED
  BY <1>3, <1>4

\* Ends makes one request idle.
LEMMA Ending ==
    ASSUME call \in [Call -> Request], Creator \in User, NEW c \in Call, Ends(c)
    PROVE  /\ call' \in [Call -> Request]
           /\ \A d \in Call \ {c} : call'[d] = call[d]
           /\ call'[c].op = None /\ call'[c].step = None
<1>1. PICK r : r = Idle
  OBVIOUS
<1>2. r \in Request /\ r.op = None /\ r.step = None
  BY <1>1 DEF Idle, Request
<1>3. call' = [call EXCEPT ![c] = r]
  BY <1>1 DEF Ends
<1> QED
  BY <1>2, <1>3

\* Begin puts one request at its first step.
LEMMA Beginning ==
    ASSUME call \in [Call -> Request], Creator \in User, NEW c \in Call,
           NEW op \in Op, NEW u \in User, NEW t \in User, Begin(c, op, u, t)
    PROVE  /\ call' \in [Call -> Request]
           /\ \A d \in Call \ {c} : call'[d] = call[d]
           /\ call'[c].op = op /\ call'[c].user = u /\ call'[c].target = t
           /\ call'[c].step = FirstStep(op)
           /\ op \in {"add", "remove"} => call'[c].step = "owner"
           /\ op = "access" => call'[c].step = "inst"
           /\ op = "record" => call'[c].step = "look"
           /\ op \notin {"add", "remove", "access", "record"} => call'[c].step = "read"
<1>1. FirstStep(op) \in Step
  BY DEF FirstStep, Step, Op
<1>2. PICK r : r = [Idle EXCEPT !.op = op, !.user = u, !.target = t, !.step = FirstStep(op)]
  OBVIOUS
<1>3. r = [op |-> op, user |-> u, target |-> t, step |-> FirstStep(op), left |-> {}, count |-> 0]
  BY <1>2 DEF Idle
<1>4. r \in Request
  BY <1>1, <1>3 DEF Request
<1>5. call' = [call EXCEPT ![c] = r]
  BY <1>2 DEF Begin
<1>6. /\ call' \in [Call -> Request] /\ call'[c] = r
      /\ \A d \in Call \ {c} : call'[d] = call[d]
  BY <1>4, <1>5
<1>7. /\ op \in {"add", "remove"} => FirstStep(op) = "owner"
      /\ op = "access" => FirstStep(op) = "inst"
      /\ op = "record" => FirstStep(op) = "look"
      /\ op \notin {"add", "remove", "access", "record"} => FirstStep(op) = "read"
  BY DEF FirstStep, Op
<1> QED
  BY <1>3, <1>6, <1>7

\* Listing the members.
LEMMA Listing ==
    ASSUME call \in [Call -> Request], members \subseteq User, NEW c \in Call, ListMembers(c)
    PROVE  /\ call' \in [Call -> Request]
           /\ \A d \in Call \ {c} : call'[d] = call[d]
           /\ call'[c].op = call[c].op /\ call'[c].left = members
           /\ call'[c].user = call[c].user /\ call'[c].target = call[c].target
           /\ call[c].op = "delete" => call'[c].step = "write"
           /\ call[c].op # "delete" => call'[c].step = "tell"
<1>1. PICK s : s = IF call[c].op = "delete" THEN "write" ELSE "tell"
  OBVIOUS
<1>2. PICK r : r = [call[c] EXCEPT !.left = members, !.step = s]
  OBVIOUS
<1>3. call[c] \in Request /\ s \in Step
  BY <1>1 DEF Step
<1>4. /\ r \in Request /\ r.step = s /\ r.op = call[c].op /\ r.left = members
      /\ r.user = call[c].user /\ r.target = call[c].target
  BY <1>2, <1>3 DEF Request
<1>5. call' = [call EXCEPT ![c] = r]
  BY <1>1, <1>2 DEF ListMembers
<1> QED
  BY <1>1, <1>4, <1>5

\* Telling one of those left.
LEMMA Telling ==
    ASSUME call \in [Call -> Request], NEW c \in Call, NEW u \in call[c].left,
           call' = [call EXCEPT ![c].left = @ \ {u}]
    PROVE  /\ call' \in [Call -> Request]
           /\ \A d \in Call \ {c} : call'[d] = call[d]
           /\ call'[c].op = call[c].op /\ call'[c].step = call[c].step
           /\ call'[c].user = call[c].user /\ call'[c].target = call[c].target
           /\ call'[c].left = call[c].left \ {u}
<1>1. PICK r : r = [call[c] EXCEPT !.left = @ \ {u}]
  OBVIOUS
<1>2. call[c] \in Request
  OBVIOUS
<1>3. /\ r \in Request /\ r.step = call[c].step /\ r.op = call[c].op
      /\ r.left = call[c].left \ {u}
      /\ r.user = call[c].user /\ r.target = call[c].target
  BY <1>1, <1>2 DEF Request
<1>4. call' = [call EXCEPT ![c] = r]
  BY <1>1
<1> QED
  BY <1>3, <1>4

\* Looking up one's accesses.
LEMMA Looking ==
    ASSUME call \in [Call -> Request], accessCount \in [User -> Nat], NEW c \in Call,
           RecordLook(c)
    PROVE  /\ call' \in [Call -> Request]
           /\ \A d \in Call \ {c} : call'[d] = call[d]
           /\ call'[c].op = call[c].op /\ call'[c].user = call[c].user
           /\ call'[c].target = call[c].target
           /\ call'[c].count = accessCount[call[c].user]
           /\ accessCount[call[c].user] = 0 => call'[c].step = "create"
           /\ accessCount[call[c].user] # 0 => call'[c].step = "count"
<1>1. PICK n : n = accessCount[call[c].user]
  OBVIOUS
<1>2. PICK s : s = IF n = 0 THEN "create" ELSE "count"
  OBVIOUS
<1>3. PICK r : r = [call[c] EXCEPT !.step = s, !.count = n]
  OBVIOUS
<1>4. call[c] \in Request
  OBVIOUS
<1>5. n \in Nat /\ s \in Step
  BY <1>1, <1>2, <1>4 DEF Step, Request
<1>6. /\ r \in Request /\ r.step = s /\ r.op = call[c].op /\ r.count = n
      /\ r.user = call[c].user /\ r.target = call[c].target
  BY <1>3, <1>4, <1>5 DEF Request
<1>7. call' = [call EXCEPT ![c] = r]
  BY <1>1, <1>2, <1>3 DEF RecordLook
<1> QED
  BY <1>1, <1>2, <1>6, <1>7

\* Whatever the step, it moves one request, along its own path.
LEMMA Moves ==
    ASSUME TypeOK, Shapes, NEW c \in Call, Steps(c)
    PROVE  /\ call' \in [Call -> Request]
           /\ \A d \in Call \ {c} : call'[d] = call[d]
           /\ call'[c].op # None /\ call[c].op # None =>
                /\ call'[c].op = call[c].op /\ call'[c].user = call[c].user
                /\ call'[c].target = call[c].target
           /\ Shape(call'[c])
<1> DEFINE Done == /\ call' \in [Call -> Request]
                   /\ \A d \in Call \ {c} : call'[d] = call[d]
                   /\ call'[c].op # None /\ call[c].op # None =>
                        /\ call'[c].op = call[c].op /\ call'[c].user = call[c].user
                        /\ call'[c].target = call[c].target
                   /\ Shape(call'[c])
<1>1. /\ call \in [Call -> Request] /\ Creator \in User /\ members \subseteq User
      /\ accessCount \in [User -> Nat]
  BY ToolInstancesAssumption DEF TypeOK, Request, ToolInstancesAssumption
<1>2. /\ Shape(call[c]) /\ call[c].op \in Op \cup {None}
      /\ call[c].user \in User /\ call[c].target \in User
  BY <1>1 DEF Shapes, Request
<1>3. ASSUME Ends(c)
      PROVE  Done
  BY <1>1, <1>3, Ending DEF Shape, None
<1>4. ASSUME NEW op \in Op, NEW u \in User, NEW t \in User, Begin(c, op, u, t)
      PROVE  Done
  <2>1. /\ ~Running(c) /\ op \in Op
        /\ op \in {"access", "leave", "record"} => t = u
    BY <1>4 DEF Begin, Running
  <2>2. /\ call' \in [Call -> Request]
        /\ \A d \in Call \ {c} : call'[d] = call[d]
        /\ call'[c].op = op /\ call'[c].user = u /\ call'[c].target = t
        /\ op \in {"add", "remove"} => call'[c].step = "owner"
        /\ op = "access" => call'[c].step = "inst"
        /\ op = "record" => call'[c].step = "look"
        /\ op \notin {"add", "remove", "access", "record"} => call'[c].step = "read"
    BY <1>1, <1>4, Beginning
  <2>3. Shape(call'[c])
    BY <2>1, <2>2 DEF Shape, Op, None
  <2> QED
    BY <2>1, <2>2, <2>3 DEF Running
<1>5. CASE Fails(c)
  BY <1>1, <1>2, <1>3, <1>5, Going DEF Fails, Step, Op, Shape, None
<1>6. CASE Answered(c)
  BY <1>1, <1>2, <1>3, <1>6, Going DEF Answered, Step, Op, Shape, None
<1>7. CASE CanAccessRead(c)
  BY <1>1, <1>2, <1>3, <1>7, Going DEF CanAccessRead, AccessResult, Step, Op, Shape, None
<1>8. CASE CanAccessMember(c)
  BY <1>1, <1>2, <1>3, <1>8, Going DEF CanAccessMember, AccessResult, Step, Op, Shape, None
<1>9. CASE OwnerCheck(c)
  BY <1>1, <1>2, <1>3, <1>9, Going DEF OwnerCheck, Decides, Step, Op, Shape, None
<1>10. CASE ReadTransfer(c)
  BY <1>1, <1>2, <1>3, <1>10, Going DEF ReadTransfer, At, Decides, Step, Op, Shape, None
<1>11. CASE ReadRemove(c)
  BY <1>1, <1>2, <1>3, <1>11, Going DEF ReadRemove, At, Decides, Step, Op, Shape, None
<1>12. CASE ReadLeave(c)
  BY <1>1, <1>2, <1>3, <1>12, Going DEF ReadLeave, At, Decides, Step, Op, Shape, None
<1>13. CASE ReadOwned(c)
  BY <1>1, <1>2, <1>3, <1>13, Going DEF ReadOwned, At, Decides, Step, Op, Shape, None
<1>14. CASE LeaveMember(c)
  BY <1>1, <1>2, <1>3, <1>14, Going DEF LeaveMember, At, Decides, Step, Op, Shape, None
<1>15. CASE InsertMember(c)
  BY <1>1, <1>2, <1>3, <1>15, Going DEF InsertMember, Step, Op, Shape, None
<1>16. CASE DeleteMember(c)
  BY <1>1, <1>2, <1>3, <1>16, Going DEF DeleteMember, Step, Op, Shape, None
<1>17. CASE WriteOwner(c)
  BY <1>1, <1>2, <1>3, <1>17, Going DEF WriteOwner, At, Step, Op, Shape, None
<1>18. CASE Archive(c)
  BY <1>1, <1>2, <1>3, <1>18, Going DEF Archive, At, Step, Op, Shape, None
<1>19. CASE Unarchive(c)
  BY <1>1, <1>2, <1>3, <1>19, Going DEF Unarchive, At, Step, Op, Shape, None
<1>20. CASE ListMembers(c)
  BY <1>1, <1>2, <1>20, Listing DEF ListMembers, Shape, Op, None
<1>21. CASE Delete(c)
  BY <1>1, <1>2, <1>3, <1>21, Going DEF Delete, At, Step, Op, Shape, None
<1>22. CASE DeleteDocument(c)
  BY <1>1, <1>2, <1>3, <1>22, Going DEF DeleteDocument, At, Step, Op, Shape, None
<1>23. CASE Tell(c)
  <2>1. CASE call[c].op = "archive" /\ ~exists
    BY <1>3, <1>23, <2>1 DEF Tell
  <2>2. CASE ~(call[c].op = "archive" /\ ~exists)
    <3>1. PICK u \in call[c].left : call' = [call EXCEPT ![c].left = @ \ {u}]
      BY <1>23, <2>2 DEF Tell
    <3> QED
      BY <1>1, <1>2, <3>1, Telling DEF Shape
  <2> QED
    BY <2>1, <2>2
<1>24. CASE TellDone(c)
  BY <1>1, <1>2, <1>3, <1>24, Going DEF TellDone, Step, Op, Shape, None
<1>25. CASE RecordLook(c)
  BY <1>1, <1>2, <1>25, Looking DEF RecordLook, At, Shape, Op, None
<1>26. CASE RecordCount(c)
  BY <1>1, <1>2, <1>3, <1>26, Going DEF RecordCount, At, Step, Op, Shape, None
<1>27. CASE RecordCreate(c)
  BY <1>1, <1>2, <1>3, <1>27, Going DEF RecordCreate, At, Step, Op, Shape, None
<1> QED
  BY <1>4, <1>5, <1>6, <1>7, <1>8, <1>9, <1>10, <1>11, <1>12, <1>13, <1>14, <1>15, <1>16, <1>17, <1>18, <1>19, <1>20, <1>21, <1>22, <1>23, <1>24, <1>25, <1>26, <1>27 DEF Steps

-----------------------------------------------------------------------------
(* What a request remembers.                                                *)

\* A request goes on remembering, and remembers what holds now.
LEMMA Remembering ==
    ASSUME seen \in [Call -> SUBSET {"owned", "member", "open"}], Remember
    PROVE  /\ seen' \in [Call -> SUBSET {"owned", "member", "open"}]
           /\ \A d \in Call : call'[d].op # None =>
                /\ call[d].op # None => seen[d] \subseteq seen'[d]
                /\ exists' /\ owner' = call'[d].user => "owned" \in seen'[d]
                /\ call'[d].op = "access" /\ call'[d].user \in members' =>
                     "member" \in seen'[d]
                /\ call'[d].op = "access" /\ exists' /\ ~archived' => "open" \in seen'[d]
<1>1. \A d \in Call : Facts(d)' \subseteq {"owned", "member", "open"}
  BY DEF Facts
<1>2. \A d \in Call :
        /\ exists' /\ owner' = call'[d].user => "owned" \in Facts(d)'
        /\ call'[d].op = "access" /\ call'[d].user \in members' => "member" \in Facts(d)'
        /\ call'[d].op = "access" /\ exists' /\ ~archived' => "open" \in Facts(d)'
  BY DEF Facts
<1>3. seen' = [d \in Call |-> IF ~Running(d)' THEN {}
                             ELSE (IF Running(d) THEN seen[d] ELSE {}) \cup Facts(d)']
  BY DEF Remember
<1>4. seen' \in [Call -> SUBSET {"owned", "member", "open"}]
  BY <1>1, <1>3
<1>5. \A d \in Call : call'[d].op # None =>
        /\ call[d].op # None => seen[d] \subseteq seen'[d]
        /\ Facts(d)' \subseteq seen'[d]
  BY <1>3 DEF Running
<1> QED
  BY <1>2, <1>4, <1>5

\* A request that passes a check remembers that it held.
LEMMA StaysEntitled ==
    ASSUME TypeOK, Shapes, Entitled, NEW c \in Call, Steps(c), Remember
    PROVE  Entitled'
<1>1. /\ call \in [Call -> Request] /\ Creator \in User /\ members \subseteq User
      /\ accessCount \in [User -> Nat] /\ seen \in [Call -> SUBSET {"owned", "member", "open"}]
  BY ToolInstancesAssumption DEF TypeOK, Request, ToolInstancesAssumption
<1>2. /\ Shape(call[c]) /\ EntitledBy(call[c], seen[c])
      /\ call[c].op \in Op \cup {None}
  BY <1>1 DEF Shapes, Entitled, Request
<1>3. /\ \A d \in Call \ {c} : call'[d] = call[d]
      /\ call'[c].op # None /\ call[c].op # None =>
           call'[c].op = call[c].op /\ call'[c].user = call[c].user
                                  /\ call'[c].target = call[c].target
  BY Moves
<1>4. \A d \in Call : call'[d].op # None =>
        /\ call[d].op # None => seen[d] \subseteq seen'[d]
        /\ exists' /\ owner' = call'[d].user => "owned" \in seen'[d]
        /\ call'[d].op = "access" /\ call'[d].user \in members' => "member" \in seen'[d]
        /\ call'[d].op = "access" /\ exists' /\ ~archived' => "open" \in seen'[d]
  BY <1>1, Remembering
<1>5. ASSUME NEW d \in Call \ {c}
      PROVE  EntitledBy(call'[d], seen'[d])
  <2>1. call'[d] = call[d] /\ EntitledBy(call[d], seen[d])
    BY <1>3, <1>5 DEF Entitled
  <2>2. call[d].op # None => seen[d] \subseteq seen'[d]
    BY <1>4, <1>5, <2>1
  <2> QED
    BY <2>1, <2>2 DEF EntitledBy, Checked, None
<1>6. ASSUME call'[c].op = None
      PROVE  EntitledBy(call'[c], seen'[c])
  BY <1>6 DEF EntitledBy, Checked, None
<1>7. ASSUME call'[c].op # None
      PROVE  EntitledBy(call'[c], seen'[c])
  <2> DEFINE Goal == EntitledBy(call'[c], seen'[c])
  <2>1. ASSUME Ends(c) PROVE Goal
    BY <1>1, <1>6, <2>1, Ending
  <2>2. /\ call[c].op # None =>
             /\ seen[c] \subseteq seen'[c]
             /\ call'[c].op = call[c].op /\ call'[c].user = call[c].user
             /\ call'[c].target = call[c].target
        /\ exists' /\ owner' = call'[c].user => "owned" \in seen'[c]
        /\ call'[c].op = "access" /\ call'[c].user \in members' => "member" \in seen'[c]
        /\ call'[c].op = "access" /\ exists' /\ ~archived' => "open" \in seen'[c]
    BY <1>3, <1>4, <1>7
  <2>3. ASSUME Checked(call[c]) PROVE Goal
    BY <1>2, <2>2, <2>3 DEF EntitledBy, Checked, None
  <2>4. ASSUME NEW op \in Op, NEW u \in User, NEW t \in User, Begin(c, op, u, t)
        PROVE  Goal
    <3>1. /\ call'[c].op = op
          /\ op \in {"add", "remove"} => call'[c].step = "owner"
          /\ op = "access" => call'[c].step = "inst"
          /\ op = "record" => call'[c].step = "look"
          /\ op \notin {"add", "remove", "access", "record"} => call'[c].step = "read"
      BY <1>1, <2>4, Beginning
    <3> QED
      BY <3>1 DEF EntitledBy, Checked
  <2>5. CASE Fails(c)
    BY <2>1, <2>5 DEF Fails
  <2>6. CASE Answered(c)
    BY <2>1, <2>6 DEF Answered
  <2>7. CASE CanAccessRead(c)
    BY <1>1, <1>2, <2>1, <2>2, <2>7, Going
       DEF CanAccessRead, AccessResult, Step, Op, Shape, None, EntitledBy, Checked, tables, history
  <2>8. CASE CanAccessMember(c)
    BY <1>1, <1>2, <2>1, <2>2, <2>8, Going
       DEF CanAccessMember, AccessResult, Step, Op, Shape, None, EntitledBy, Checked, tables, history
  <2>9. CASE OwnerCheck(c)
    BY <1>1, <1>2, <2>1, <2>2, <2>9, Going
       DEF OwnerCheck, Decides, Step, Op, Shape, None, EntitledBy, Checked, tables, history
  <2>10. CASE ReadTransfer(c)
    BY <1>1, <1>2, <2>1, <2>2, <2>10, Going
       DEF ReadTransfer, At, Decides, Step, Op, Shape, None, EntitledBy, Checked, tables, history
  <2>11. CASE ReadRemove(c)
    BY <1>1, <1>2, <2>1, <2>2, <2>11, Going
       DEF ReadRemove, At, Decides, Step, Op, Shape, None, EntitledBy, Checked, tables, history
  <2>12. CASE ReadLeave(c)
    BY <1>1, <1>2, <2>1, <2>2, <2>12, Going
       DEF ReadLeave, At, Decides, Step, Op, Shape, None, EntitledBy, Checked, tables, history
  <2>13. CASE ReadOwned(c)
    BY <1>1, <1>2, <2>1, <2>2, <2>13, Going
       DEF ReadOwned, At, Decides, Step, Op, Shape, None, EntitledBy, Checked, tables, history
  <2>14. CASE LeaveMember(c)
    BY <1>1, <1>2, <2>1, <2>2, <2>14, Going
       DEF LeaveMember, At, Decides, Step, Op, Shape, None, EntitledBy, Checked, tables, history
  <2>15. CASE InsertMember(c)
    BY <1>1, <1>2, <2>1, <2>2, <2>15, Going
       DEF InsertMember, Step, Op, Shape, None, EntitledBy, Checked, tables, history
  <2>16. CASE DeleteMember(c)
    BY <2>1, <2>16 DEF DeleteMember
  <2>17. CASE WriteOwner(c)
    BY <2>1, <2>17 DEF WriteOwner
  <2>18. CASE Archive(c)
    BY <1>2, <2>3, <2>18 DEF Archive, At, Checked, Shape, Op, None
  <2>19. CASE Unarchive(c)
    BY <2>1, <2>19 DEF Unarchive
  <2>20. CASE ListMembers(c)
    BY <1>2, <2>3, <2>20 DEF ListMembers, Checked, Shape, Op, None
  <2>21. CASE Delete(c)
    BY <1>2, <2>3, <2>21 DEF Delete, At, Checked, Shape, Op, None
  <2>22. CASE DeleteDocument(c)
    BY <1>2, <2>3, <2>22 DEF DeleteDocument, At, Checked, Shape, Op, None
  <2>23. CASE Tell(c)
    BY <1>2, <2>3, <2>23 DEF Tell, Checked, Shape, Op, None
  <2>24. CASE TellDone(c)
    BY <2>1, <2>24 DEF TellDone
  <2>25. CASE RecordLook(c)
    BY <1>1, <2>25, Looking DEF RecordLook, At, EntitledBy, Checked
  <2>26. CASE RecordCount(c)
    BY <2>1, <2>26 DEF RecordCount
  <2>27. CASE RecordCreate(c)
    BY <2>1, <2>27 DEF RecordCreate
  <2> QED
    BY <2>4, <2>5, <2>6, <2>7, <2>8, <2>9, <2>10, <2>11, <2>12, <2>13, <2>14, <2>15, <2>16, <2>17, <2>18, <2>19, <2>20, <2>21, <2>22, <2>23, <2>24, <2>25, <2>26, <2>27 DEF Steps
<1> QED
  BY <1>5, <1>6, <1>7 DEF Entitled

\* The steps that only move their request.
Moving(c) ==
    \/ Answered(c) \/ CanAccessRead(c) \/ CanAccessMember(c) \/ OwnerCheck(c)
    \/ ReadTransfer(c) \/ ReadRemove(c) \/ ReadLeave(c) \/ ReadOwned(c) \/ LeaveMember(c)
    \/ ListMembers(c) \/ TellDone(c) \/ RecordLook(c)

LEMMA MovingChangesNothing ==
    ASSUME NEW c \in Call, Moving(c)
    PROVE  /\ exists' = exists /\ owner' = owner /\ archived' = archived
           /\ document' = document /\ members' = members /\ accessCount' = accessCount
           /\ faults' = faults /\ untold' = untold /\ late' = late
           /\ recorded' = recorded /\ raced' = raced
<1> DEFINE Same == /\ exists' = exists /\ owner' = owner /\ archived' = archived
                   /\ document' = document /\ members' = members
                   /\ accessCount' = accessCount
                   /\ faults' = faults /\ untold' = untold /\ late' = late
                   /\ recorded' = recorded /\ raced' = raced
<1>1. ASSUME UNCHANGED <<tables, faults, history>> PROVE Same
  BY <1>1 DEF tables, history
<1>2. CASE Answered(c)
  BY <1>1, <1>2 DEF Answered
<1>3. CASE CanAccessRead(c)
  BY <1>1, <1>3 DEF CanAccessRead, AccessResult
<1>4. CASE CanAccessMember(c)
  BY <1>1, <1>4 DEF CanAccessMember, AccessResult
<1>5. CASE OwnerCheck(c)
  BY <1>1, <1>5 DEF OwnerCheck, Decides
<1>6. CASE ReadTransfer(c)
  BY <1>1, <1>6 DEF ReadTransfer, Decides
<1>7. CASE ReadRemove(c)
  BY <1>1, <1>7 DEF ReadRemove, Decides
<1>8. CASE ReadLeave(c)
  BY <1>1, <1>8 DEF ReadLeave, Decides
<1>9. CASE ReadOwned(c)
  BY <1>1, <1>9 DEF ReadOwned, Decides
<1>10. CASE LeaveMember(c)
  BY <1>1, <1>10 DEF LeaveMember, Decides
<1>11. CASE ListMembers(c)
  BY <1>1, <1>11 DEF ListMembers
<1>12. CASE TellDone(c)
  BY <1>1, <1>12 DEF TellDone
<1>13. CASE RecordLook(c)
  BY <1>1, <1>13 DEF RecordLook
<1> QED
  BY <1>2, <1>3, <1>4, <1>5, <1>6, <1>7, <1>8, <1>9, <1>10, <1>11, <1>12, <1>13 DEF Moving

\* Everything keeps its type.
LEMMA StaysTyped ==
    ASSUME TypeOK, Shapes, NEW c \in Call, Steps(c), Remember, placed' = placed
    PROVE  TypeOK'
<1> DEFINE Rows == /\ exists \in BOOLEAN /\ archived \in BOOLEAN /\ document \in BOOLEAN
                   /\ owner \in User /\ members \subseteq User
                   /\ ~exists => members = {}
           Counts == /\ accessCount \in [User -> Nat] /\ recorded \in [User -> Nat]
                     /\ ~exists => \A u \in User : accessCount[u] = 0
           Others == /\ untold \subseteq Notice /\ late \subseteq User
                     /\ raced \subseteq User /\ faults \in 0..MaxFaults
<1>1. Rows /\ Counts /\ Others /\ MaxFaults \in Nat
  BY ToolInstancesAssumption DEF TypeOK, ToolInstancesAssumption
<1>2. call \in [Call -> Request] /\ call[c] \in Request
  BY DEF TypeOK, Request
<1>3. call' \in [Call -> Request] /\ seen' \in [Call -> SUBSET {"owned", "member", "open"}]
  BY Moves, Remembering DEF TypeOK
<1>4. Rows' /\ Counts' /\ Others'
  <2>1. ASSUME NEW op \in Op, NEW u \in User, NEW t \in User, Begin(c, op, u, t)
        PROVE  Rows' /\ Counts' /\ Others'
    BY <1>1, <2>1 DEF Begin, tables
  <2>2. CASE Moving(c)
    BY <1>1, <2>2, MovingChangesNothing
  <2>3. CASE Fails(c)
    BY <1>1, <2>3 DEF Fails, tables, history
  <2>4. CASE InsertMember(c)
    <3>1. call[c].target \in User
      BY <1>2 DEF Request
    <3>2. Rows' /\ Counts'
      BY <1>1, <2>4, <3>1 DEF InsertMember
    <3>3. Others'
      BY <1>1, <2>4, <3>2 DEF InsertMember
    <3> QED
      BY <3>2, <3>3
  <2>5. CASE DeleteMember(c)
    BY <1>1, <2>5 DEF DeleteMember
  <2>6. CASE WriteOwner(c)
    <3>1. call[c].target \in User
      BY <1>2 DEF Request
    <3> QED
      BY <1>1, <2>6, <3>1 DEF WriteOwner, history
  <2>7. CASE Archive(c)
    BY <1>1, <2>7 DEF Archive, Notice
  <2>8. CASE Unarchive(c)
    BY <1>1, <2>8 DEF Unarchive, history
  <2>9. CASE Delete(c)
    BY <1>1, <2>9 DEF Delete, Notice
  <2>10. CASE DeleteDocument(c)
    BY <1>1, <2>10 DEF DeleteDocument, history
  <2>11. CASE Tell(c)
    BY <1>1, <2>11 DEF Tell
  <2>12. CASE RecordCount(c)
    <3>1. call[c].user \in User /\ call[c].count \in Nat
      BY <1>2 DEF Request
    <3> QED
      BY <1>1, <2>12, <3>1 DEF RecordCount
  <2>13. CASE RecordCreate(c)
    <3>1. call[c].user \in User
      BY <1>2 DEF Request
    <3> QED
      BY <1>1, <2>13, <3>1 DEF RecordCreate
  <2> QED
    BY <2>1, <2>2, <2>3, <2>4, <2>5, <2>6, <2>7, <2>8, <2>9, <2>10, <2>11, <2>12, <2>13
       DEF Steps, Moving
<1> QED
  BY <1>3, <1>4 DEF TypeOK, Request

-----------------------------------------------------------------------------
(* Deleting, and telling the members.                                       *)

\* The steps from the listing of the members on, by the one that leads there.
LEMMA LaterSteps ==
    ASSUME TypeOK, Shapes, NEW c \in Call, Steps(c)
    PROVE  /\ At(c, "delete", "write")' =>
                ListMembers(c) /\ call'[c].left = members
           /\ At(c, "delete", "document")' => Delete(c) /\ call'[c].left = call[c].left
           /\ At(c, "delete", "tell")' =>
                \/ DeleteDocument(c) /\ call'[c].left = call[c].left
                \/ Tell(c) /\ At(c, "delete", "tell")
           /\ At(c, "archive", "list")' => Archive(c)
           /\ At(c, "archive", "tell")' =>
                \/ ListMembers(c) /\ At(c, "archive", "list") /\ call'[c].left = members
                \/ Tell(c) /\ At(c, "archive", "tell")
<1> DEFINE Later == /\ At(c, "delete", "write")' =>
                          ListMembers(c) /\ call'[c].left = members
                    /\ At(c, "delete", "document")' =>
                          Delete(c) /\ call'[c].left = call[c].left
                    /\ At(c, "delete", "tell")' =>
                          \/ DeleteDocument(c) /\ call'[c].left = call[c].left
                          \/ Tell(c) /\ At(c, "delete", "tell")
                    /\ At(c, "archive", "list")' => Archive(c)
                    /\ At(c, "archive", "tell")' =>
                          \/ ListMembers(c) /\ At(c, "archive", "list") /\ call'[c].left = members
                          \/ Tell(c) /\ At(c, "archive", "tell")
<1>1. /\ call \in [Call -> Request] /\ Creator \in User /\ members \subseteq User
      /\ accessCount \in [User -> Nat]
  BY ToolInstancesAssumption DEF TypeOK, Request, ToolInstancesAssumption
<1>2. Shape(call[c]) /\ call[c].op \in Op \cup {None}
  BY <1>1 DEF Shapes, Request
<1>3. ASSUME Ends(c) PROVE Later
  BY <1>1, <1>3, Ending DEF At, None
<1>4. ASSUME NEW op \in Op, NEW u \in User, NEW t \in User, Begin(c, op, u, t)
      PROVE  Later
  <2>1. /\ call'[c].op = op
        /\ op \in {"delete", "archive"} => call'[c].step = "read"
    BY <1>1, <1>4, Beginning
  <2> QED
    BY <2>1 DEF At
<1>5. CASE Fails(c)
  BY <1>3, <1>5 DEF Fails
<1>6. CASE Answered(c)
  BY <1>3, <1>6 DEF Answered
<1>7. CASE CanAccessRead(c)
  BY <1>1, <1>2, <1>3, <1>7, Going
     DEF CanAccessRead, AccessResult, At, Step, Op, Shape, None
<1>8. CASE CanAccessMember(c)
  BY <1>1, <1>2, <1>3, <1>8, Going
     DEF CanAccessMember, AccessResult, At, Step, Op, Shape, None
<1>9. CASE OwnerCheck(c)
  BY <1>1, <1>2, <1>3, <1>9, Going
     DEF OwnerCheck, Decides, At, Step, Op, Shape, None
<1>10. CASE ReadTransfer(c)
  BY <1>1, <1>2, <1>3, <1>10, Going
     DEF ReadTransfer, Decides, At, Step, Op, Shape, None
<1>11. CASE ReadRemove(c)
  BY <1>1, <1>2, <1>3, <1>11, Going
     DEF ReadRemove, Decides, At, Step, Op, Shape, None
<1>12. CASE ReadLeave(c)
  BY <1>1, <1>2, <1>3, <1>12, Going
     DEF ReadLeave, Decides, At, Step, Op, Shape, None
<1>13. CASE ReadOwned(c)
  BY <1>1, <1>2, <1>3, <1>13, Going
     DEF ReadOwned, Decides, At, Step, Op, Shape, None
<1>14. CASE LeaveMember(c)
  BY <1>1, <1>2, <1>3, <1>14, Going
     DEF LeaveMember, Decides, At, Step, Op, Shape, None
<1>15. CASE InsertMember(c)
  BY <1>1, <1>2, <1>3, <1>15, Going
     DEF InsertMember, At, Step, Op, Shape, None
<1>16. CASE DeleteMember(c)
  BY <1>3, <1>16 DEF DeleteMember
<1>17. CASE WriteOwner(c)
  BY <1>3, <1>17 DEF WriteOwner
<1>18. CASE Archive(c)
  <2>1. call[c].op = "archive" /\ Goto(c, "list") /\ "list" \in Step
    BY <1>18 DEF Archive, At, Step
  <2>2. call'[c].op = "archive" /\ call'[c].step = "list" /\ call'[c].left = call[c].left
    BY <1>1, <2>1, Going
  <2> QED
    BY <1>18, <2>2 DEF At
<1>19. CASE Unarchive(c)
  BY <1>3, <1>19 DEF Unarchive
<1>20. CASE ListMembers(c)
  <2>1. call[c].step = "list"
    BY <1>20 DEF ListMembers
  <2> QED
    BY <1>1, <1>2, <1>20, <2>1, Listing DEF At, Shape, Op, None
<1>21. CASE Delete(c)
  <2>1. call[c].op = "delete" /\ Goto(c, "document") /\ "document" \in Step
    BY <1>21 DEF Delete, At, Step
  <2>2. call'[c].op = "delete" /\ call'[c].step = "document" /\ call'[c].left = call[c].left
    BY <1>1, <2>1, Going
  <2> QED
    BY <1>21, <2>2 DEF At
<1>22. CASE DeleteDocument(c)
  <2>1. call[c].op = "delete" /\ Goto(c, "tell") /\ "tell" \in Step
    BY <1>22 DEF DeleteDocument, At, Step
  <2>2. call'[c].op = "delete" /\ call'[c].step = "tell" /\ call'[c].left = call[c].left
    BY <1>1, <2>1, Going
  <2> QED
    BY <1>22, <2>2 DEF At
<1>23. CASE Tell(c)
  <2>1. CASE call[c].op = "archive" /\ ~exists
    BY <1>3, <1>23, <2>1 DEF Tell
  <2>2. CASE ~(call[c].op = "archive" /\ ~exists)
    <3>1. PICK u \in call[c].left : call' = [call EXCEPT ![c].left = @ \ {u}]
      BY <1>23, <2>2 DEF Tell
    <3>2. call'[c].op = call[c].op /\ call'[c].step = call[c].step /\ call[c].step = "tell"
      BY <1>1, <1>23, <3>1, Telling DEF Tell
    <3> QED
      BY <1>23, <3>2 DEF At
  <2> QED
    BY <2>1, <2>2
<1>24. CASE TellDone(c)
  BY <1>3, <1>24 DEF TellDone
<1>25. CASE RecordLook(c)
  <2>1. call[c].op = "record"
    BY <1>25 DEF RecordLook, At
  <2> QED
    BY <1>1, <1>25, <2>1, Looking DEF At
<1>26. CASE RecordCount(c)
  BY <1>3, <1>26 DEF RecordCount
<1>27. CASE RecordCreate(c)
  BY <1>3, <1>27 DEF RecordCreate
<1> QED
  BY <1>4, <1>5, <1>6, <1>7, <1>8, <1>9, <1>10, <1>11, <1>12, <1>13, <1>14, <1>15, <1>16, <1>17, <1>18, <1>19, <1>20, <1>21, <1>22, <1>23, <1>24, <1>25, <1>26, <1>27 DEF Steps

\* The rows, the history, and the users of the requests, by what happens to them.
LEMMA RowsMove ==
    ASSUME TypeOK, NEW c \in Call, Steps(c)
    PROVE  /\ exists' => exists
           /\ \/ members' \subseteq members /\ (late \subseteq late' \/ members' = {})
              \/ InsertMember(c)
           /\ faults' = 0 => faults = 0
<1> DEFINE Goal == /\ exists' => exists
                   /\ \/ members' \subseteq members /\ (late \subseteq late' \/ members' = {})
                      \/ InsertMember(c)
                   /\ faults' = 0 => faults = 0
<1>1. faults \in Nat
  BY ToolInstancesAssumption DEF TypeOK, ToolInstancesAssumption
<1>2. ASSUME NEW op \in Op, NEW u \in User, NEW t \in User, Begin(c, op, u, t)
      PROVE  Goal
  BY <1>2 DEF Begin, tables
<1>3. CASE Moving(c)
  BY <1>3, MovingChangesNothing
<1>4. CASE Fails(c)
  BY <1>1, <1>4 DEF Fails, tables, history
<1>5. CASE InsertMember(c)
  BY <1>1, <1>5 DEF InsertMember
<1>6. CASE DeleteMember(c)
  BY <1>6 DEF DeleteMember
<1>7. CASE WriteOwner(c) \/ Archive(c) \/ Unarchive(c) \/ Tell(c) \/ DeleteDocument(c)
  BY <1>7 DEF WriteOwner, Archive, Unarchive, Tell, DeleteDocument, history
<1>8. CASE Delete(c)
  BY <1>8 DEF Delete
<1>9. CASE RecordCount(c) \/ RecordCreate(c)
  BY <1>9 DEF RecordCount, RecordCreate
<1> QED
  BY <1>2, <1>3, <1>4, <1>5, <1>6, <1>7, <1>8, <1>9 DEF Steps, Moving

\* The row goes first.
LEMMA StaysDeleting ==
    ASSUME TypeOK, Shapes, Deleting, NEW c \in Call, Steps(c)
    PROVE  Deleting'
<1>1. exists' => exists
  BY RowsMove
<1>2. \A d \in Call \ {c} : call'[d] = call[d]
  BY Moves
<1>3. ASSUME NEW d \in Call, call'[d].op = "delete", call'[d].step \in {"document", "tell"}
      PROVE  ~exists'
  <2>1. CASE d # c
    BY <1>1, <1>2, <1>3, <2>1 DEF Deleting
  <2>2. CASE d = c
    <3>1. Delete(c) \/ DeleteDocument(c) \/ At(c, "delete", "tell")
      BY <1>3, <2>2, LaterSteps DEF At
    <3>2. CASE Delete(c)
      BY <3>2 DEF Delete
    <3>3. CASE DeleteDocument(c) \/ At(c, "delete", "tell")
      BY <1>1, <3>3 DEF Deleting, DeleteDocument, At
    <3> QED
      BY <3>1, <3>2, <3>3
  <2> QED
    BY <2>1, <2>2
<1>4. ASSUME ~exists', NEW n \in untold'
      PROVE  n.type = "deleted"
  <2>1. exists => Delete(c)
    <3>1. ASSUME NEW op \in Op, NEW u \in User, NEW t \in User, Begin(c, op, u, t)
          PROVE  exists' = exists
      BY <3>1 DEF Begin, tables
    <3>2. CASE Moving(c)
      BY <1>4, <3>2, MovingChangesNothing
    <3>3. CASE Fails(c) \/ InsertMember(c) \/ DeleteMember(c) \/ WriteOwner(c) \/ Archive(c)
      BY <1>4, <3>3 DEF Fails, InsertMember, DeleteMember, WriteOwner, Archive, tables
    <3>4. CASE Unarchive(c) \/ Tell(c) \/ DeleteDocument(c) \/ RecordCount(c) \/ RecordCreate(c)
      BY <1>4, <3>4 DEF Unarchive, Tell, DeleteDocument, RecordCount, RecordCreate
    <3> QED
      BY <1>4, <3>1, <3>2, <3>3, <3>4 DEF Steps, Moving
  <2>2. CASE Delete(c)
    BY <1>4, <2>2 DEF Delete
  <2>3. CASE ~exists /\ ~Delete(c)
    <3>1. members = {} /\ \A k \in untold : k.type = "deleted"
      BY <2>3 DEF TypeOK, Deleting
    <3>2. untold' \subseteq untold
      <4>1. ASSUME NEW op \in Op, NEW u \in User, NEW t \in User, Begin(c, op, u, t)
            PROVE  untold' = untold
        BY <4>1 DEF Begin
      <4>2. CASE Moving(c)
        BY <4>2, MovingChangesNothing
      <4>3. CASE Fails(c) \/ InsertMember(c) \/ DeleteMember(c) \/ WriteOwner(c)
        BY <4>3 DEF Fails, InsertMember, DeleteMember, WriteOwner, history
      <4>4. CASE Archive(c)
        BY <3>1, <4>4 DEF Archive
      <4>5. CASE Unarchive(c) \/ Tell(c) \/ DeleteDocument(c) \/ RecordCount(c) \/ RecordCreate(c)
        BY <4>5 DEF Unarchive, Tell, DeleteDocument, RecordCount, RecordCreate, history
      <4> QED
        BY <2>3, <4>1, <4>2, <4>3, <4>4, <4>5 DEF Steps, Moving
    <3> QED
      BY <1>4, <3>1, <3>2
  <2> QED
    BY <2>1, <2>2, <2>3
<1> QED
  BY <1>3, <1>4 DEF Deleting

\* A delete has listed everybody but those who joined behind it.
LEMMA StaysListed ==
    ASSUME TypeOK, Shapes, Listed, NEW c \in Call, Steps(c)
    PROVE  Listed'
<1> SUFFICES ASSUME NEW d \in Call, At(d, "delete", "write")'
             PROVE  members' \subseteq call'[d].left \cup late'
  BY DEF Listed
<1>1. \A e \in Call \ {c} : call'[e] = call[e]
  BY Moves
<1>2. CASE d = c
  <2>1. ListMembers(c) /\ call'[c].left = members
    BY <1>2, LaterSteps
  <2> QED
    BY <1>2, <2>1, MovingChangesNothing DEF Moving
<1>3. CASE d # c
  <2>1. At(d, "delete", "write") /\ call'[d] = call[d]
    BY <1>1, <1>3 DEF At
  <2>2. members \subseteq call[d].left \cup late
    BY <2>1 DEF Listed
  <2>3. CASE InsertMember(c)
    BY <2>1, <2>2, <2>3 DEF InsertMember, At
  <2>4. CASE members' \subseteq members /\ (late \subseteq late' \/ members' = {})
    BY <2>1, <2>2, <2>4
  <2> QED
    BY <2>3, <2>4, RowsMove
<1> QED
  BY <1>2, <1>3

\* The steps that lead from the listing of the members on.
LEMMA NextSteps ==
    ASSUME Shapes, NEW c \in Call, Steps(c), ~Fails(c)
    PROVE  /\ call[c].step = "list" => ListMembers(c)
           /\ call[c].step = "document" => DeleteDocument(c)
           /\ call[c].step = "tell" => Tell(c) \/ TellDone(c)
<1> DEFINE Goal == /\ call[c].step = "list" => ListMembers(c)
                   /\ call[c].step = "document" => DeleteDocument(c)
                   /\ call[c].step = "tell" => Tell(c) \/ TellDone(c)
<1>1. ASSUME NEW op \in Op, NEW u \in User, NEW t \in User, Begin(c, op, u, t)
      PROVE  Goal
  <2>1. call[c].step = None
    BY <1>1 DEF Begin, Running, Shapes, Shape
  <2> QED
    BY <2>1 DEF None
<1>2. CASE Answered(c) \/ CanAccessRead(c) \/ CanAccessMember(c) \/ OwnerCheck(c)
  BY <1>2 DEF Answered, CanAccessRead, CanAccessMember, OwnerCheck
<1>3. CASE ReadTransfer(c) \/ ReadRemove(c) \/ ReadLeave(c) \/ ReadOwned(c) \/ LeaveMember(c)
  BY <1>3 DEF ReadTransfer, ReadRemove, ReadLeave, ReadOwned, LeaveMember, At
<1>4. CASE InsertMember(c) \/ DeleteMember(c) \/ WriteOwner(c) \/ Archive(c) \/ Unarchive(c)
  BY <1>4 DEF InsertMember, DeleteMember, WriteOwner, Archive, Unarchive, At
<1>5. CASE Delete(c) \/ RecordLook(c) \/ RecordCount(c) \/ RecordCreate(c)
  BY <1>5 DEF Delete, RecordLook, RecordCount, RecordCreate, At
<1>6. CASE ListMembers(c)
  BY <1>6 DEF ListMembers
<1>7. CASE DeleteDocument(c)
  BY <1>7 DEF DeleteDocument, At
<1>8. CASE Tell(c) \/ TellDone(c)
  BY <1>8 DEF Tell, TellDone
<1> QED
  BY <1>1, <1>2, <1>3, <1>4, <1>5, <1>6, <1>7, <1>8 DEF Steps

\* What a step adds to the notifications to send, and what takes one away.
LEMMA UntoldMoves ==
    ASSUME TypeOK, NEW c \in Call, Steps(c)
    PROVE  /\ untold' \subseteq untold \/ Archive(c) \/ Delete(c)
           /\ members' = members \/ InsertMember(c) \/ DeleteMember(c) \/ Delete(c)
<1> DEFINE Goal == /\ untold' \subseteq untold \/ Archive(c) \/ Delete(c)
                   /\ members' = members \/ InsertMember(c) \/ DeleteMember(c) \/ Delete(c)
<1>1. ASSUME NEW op \in Op, NEW u \in User, NEW t \in User, Begin(c, op, u, t)
      PROVE  Goal
  BY <1>1 DEF Begin, tables
<1>2. CASE Moving(c)
  BY <1>2, MovingChangesNothing
<1>3. CASE Fails(c) \/ WriteOwner(c) \/ Unarchive(c) \/ DeleteDocument(c)
  BY <1>3 DEF Fails, WriteOwner, Unarchive, DeleteDocument, tables, history
<1>4. CASE RecordCount(c) \/ RecordCreate(c) \/ Tell(c)
  BY <1>4 DEF RecordCount, RecordCreate, Tell
<1>5. CASE Archive(c)
  BY <1>5 DEF Archive
<1>6. CASE InsertMember(c)
  BY <1>6 DEF InsertMember
<1>7. CASE DeleteMember(c)
  BY <1>7 DEF DeleteMember
<1> QED
  BY <1>1, <1>2, <1>3, <1>4, <1>5, <1>6, <1>7 DEF Steps, Moving

\* Who is on the way to tell a member goes on until the member is told.
LEMMA StaysTold ==
    ASSUME TypeOK, Shapes, Deleting, Listed, Told, NEW c \in Call, Steps(c), ~Fails(c)
    PROVE  Told'
<1> SUFFICES ASSUME NEW n \in untold'
             PROVE  \E d \in Call : WillTell(d, n)'
  BY DEF Told
<1>1. /\ call \in [Call -> Request] /\ members \subseteq User
      /\ accessCount \in [User -> Nat] /\ untold \subseteq Notice
  BY DEF TypeOK, Request
<1>2. /\ \A d \in Call \ {c} : call'[d] = call[d]
  BY Moves
<1>3. CASE n \notin untold
  <2>1. Archive(c) \/ Delete(c)
    BY <1>3, UntoldMoves
  <2>2. CASE Archive(c)
    <3>1. Goto(c, "list") /\ call[c].op = "archive" /\ "list" \in Step /\ members' = members
      BY <2>2 DEF Archive, At, Step
    <3>2. call'[c].op = "archive" /\ call'[c].step = "list"
      BY <1>1, <3>1, Going
    <3>3. n.type = "archived" /\ n.user \in members
      BY <1>3, <2>2 DEF Archive
    <3> QED
      BY <3>1, <3>2, <3>3 DEF WillTell
  <2>3. CASE Delete(c)
    <3>1. Goto(c, "document") /\ At(c, "delete", "write") /\ "document" \in Step
      BY <2>3 DEF Delete, Step
    <3>2. call'[c].op = "delete" /\ call'[c].step = "document" /\ call'[c].left = call[c].left
      BY <1>1, <3>1, Going DEF At
    <3>3. n.type = "deleted" /\ n.user \in members \ late
      BY <1>3, <2>3 DEF Delete
    <3>4. n.user \in call[c].left
      BY <3>1, <3>3 DEF Listed
    <3> QED
      BY <3>2, <3>3, <3>4 DEF WillTell
  <2> QED
    BY <2>1, <2>2, <2>3
<1>4. CASE n \in untold
  <2>1. PICK d \in Call : WillTell(d, n)
    BY <1>4 DEF Told
  <2>2. CASE d # c
    <3>1. call'[d] = call[d]
      BY <1>2, <2>2
    <3>2. CASE ~(n.type = "archived" /\ call[d].op = "archive" /\ call[d].step = "list"
                   /\ n.user \in members)
      BY <2>1, <3>1, <3>2 DEF WillTell
    <3>3. CASE n.type = "archived" /\ call[d].op = "archive" /\ call[d].step = "list"
                 /\ n.user \in members
      <4>1. ~Delete(c)
        BY <3>3 DEF Delete
      <4>2. CASE DeleteMember(c)
        <5>1. n = [user |-> n.user, type |-> "archived"]
          BY <1>1, <1>4, <3>3 DEF Notice
        <5>2. n.user # call[c].target
          BY <4>2, <5>1 DEF DeleteMember
        <5>3. n.user \in members'
          BY <3>3, <4>2, <5>2 DEF DeleteMember
        <5> QED
          BY <3>1, <3>3, <5>3 DEF WillTell
      <4>3. CASE ~DeleteMember(c)
        <5>1. members' = members \/ InsertMember(c)
          BY <4>1, <4>3, UntoldMoves
        <5>2. n.user \in members'
          BY <1>1, <3>3, <5>1 DEF InsertMember
        <5> QED
          BY <3>1, <3>3, <5>2 DEF WillTell
      <4> QED
        BY <4>2, <4>3
    <3> QED
      BY <3>2, <3>3
  <2>3. CASE d = c
    <3>1. CASE call[c].step = "list"
      <4>1. ListMembers(c) /\ call[c].op = "archive" /\ n.type = "archived" /\ n.user \in members
        BY <2>1, <2>3, <3>1, NextSteps DEF WillTell
      <4>2. call'[c].op = "archive" /\ call'[c].step = "tell" /\ call'[c].left = members
        BY <1>1, <4>1, Listing
      <4> QED
        BY <4>1, <4>2 DEF WillTell
    <3>2. CASE call[c].step = "document"
      <4>1. DeleteDocument(c) /\ call[c].op = "delete" /\ n.type = "deleted"
              /\ n.user \in call[c].left
        BY <2>1, <2>3, <3>2, NextSteps DEF WillTell
      <4>2. Goto(c, "tell") /\ "tell" \in Step
        BY <4>1 DEF DeleteDocument, Step
      <4>3. call'[c].op = "delete" /\ call'[c].step = "tell" /\ call'[c].left = call[c].left
        BY <1>1, <4>1, <4>2, Going
      <4> QED
        BY <4>1, <4>3 DEF WillTell
    <3>3. CASE call[c].step = "tell"
      <4>1. /\ n.user \in call[c].left /\ n.type \in {"archived", "deleted"}
            /\ n.type = "archived" <=> call[c].op = "archive"
            /\ n.type = "deleted" <=> call[c].op = "delete"
        BY <2>1, <2>3, <3>3 DEF WillTell
      <4>2. Tell(c)
        BY <3>3, <4>1, NextSteps DEF TellDone
      <4>3. ~(call[c].op = "archive" /\ ~exists)
        BY <1>4, <4>1 DEF Deleting
      <4>4. PICK u \in call[c].left : /\ untold' = untold \ {Notification(c, u)}
                                      /\ call' = [call EXCEPT ![c].left = @ \ {u}]
        BY <4>2, <4>3 DEF Tell
      <4>5. /\ call'[c].op = call[c].op /\ call'[c].step = "tell"
            /\ call'[c].left = call[c].left \ {u}
        BY <1>1, <3>3, <4>4, Telling
      <4>6. n.user # u
        <5>1. n = [user |-> n.user, type |-> n.type]
          BY <1>1, <1>4 DEF Notice
        <5>2. n # Notification(c, u)
          BY <4>4
        <5> QED
          BY <4>1, <5>1, <5>2 DEF Notification
      <4> QED
        BY <2>1, <2>3, <3>3, <4>1, <4>5, <4>6 DEF WillTell
    <3> QED
      BY <2>1, <2>3, <3>1, <3>2, <3>3 DEF WillTell
  <2> QED
    BY <2>2, <2>3
<1> QED
  BY <1>3, <1>4

\* The document goes with the row.
LEMMA StaysDocumented ==
    ASSUME TypeOK, Shapes, Deleting, Documented, NEW c \in Call, Steps(c), ~Fails(c), placed' = placed
    PROVE  Documented'
<1>1. /\ call \in [Call -> Request] /\ Creator \in User
  BY ToolInstancesAssumption DEF TypeOK, Request, ToolInstancesAssumption
<1>2. \A d \in Call \ {c} : call'[d] = call[d]
  BY Moves
<1>3. CASE Delete(c)
  <2>1. Goto(c, "document") /\ call[c].op = "delete" /\ "document" \in Step /\ ~exists'
    BY <1>3 DEF Delete, At, Step
  <2>2. At(c, "delete", "document")'
    BY <1>1, <2>1, Going DEF At
  <2> QED
    BY <2>1, <2>2 DEF Documented
<1>4. CASE DeleteDocument(c)
  <2>1. ~document' /\ ~exists'
    BY <1>4 DEF DeleteDocument, Deleting, At
  <2> QED
    BY <2>1 DEF Documented
<1>5. CASE ~Delete(c) /\ ~DeleteDocument(c)
  <2>1. exists' = exists /\ document' = document
    <3>1. ASSUME NEW op \in Op, NEW u \in User, NEW t \in User, Begin(c, op, u, t)
          PROVE  exists' = exists /\ document' = document
      BY <3>1 DEF Begin, tables
    <3>2. CASE Moving(c)
      BY <3>2, MovingChangesNothing
    <3>3. CASE InsertMember(c) \/ DeleteMember(c) \/ WriteOwner(c) \/ Archive(c)
      BY <3>3 DEF InsertMember, DeleteMember, WriteOwner, Archive
    <3>4. CASE Unarchive(c) \/ Tell(c) \/ RecordCount(c) \/ RecordCreate(c)
      BY <3>4 DEF Unarchive, Tell, RecordCount, RecordCreate
    <3> QED
      BY <1>5, <3>1, <3>2, <3>3, <3>4 DEF Steps, Moving
  <2>2. ASSUME NEW d \in Call, At(d, "delete", "document")
        PROVE  At(d, "delete", "document")'
    <3>1. d # c
      BY <1>5, <2>2, NextSteps DEF At
    <3> QED
      BY <1>2, <2>2, <3>1 DEF At
  <2> QED
    BY <2>1, <2>2 DEF Documented
<1> QED
  BY <1>3, <1>4, <1>5

-----------------------------------------------------------------------------
(* The access counts.                                                       *)

\* What a step may do to the recordings.
LEMMA RecordMoves ==
    ASSUME TypeOK, Shapes, NEW c \in Call, Steps(c), exists'
    PROVE  \/ RecordCount(c) \/ RecordCreate(c)
           \/ /\ accessCount' = accessCount /\ recorded' = recorded /\ raced \subseteq raced'
              /\ \/ call'[c].op # "record"
                 \/ RecordLook(c)
                 \/ \E u, t \in User : Begin(c, "record", u, t)
<1> DEFINE Same == accessCount' = accessCount /\ recorded' = recorded /\ raced \subseteq raced'
           Other == call'[c].op # "record"
<1>1. /\ call \in [Call -> Request] /\ Creator \in User /\ members \subseteq User
  BY ToolInstancesAssumption DEF TypeOK, Request, ToolInstancesAssumption
<1>2. /\ Shape(call[c]) /\ call[c].op \in Op \cup {None}
      /\ call'[c].op # None /\ call[c].op # None => call'[c].op = call[c].op
  BY <1>1, Moves DEF Shapes, Request
<1>3. ASSUME NEW op \in Op, NEW u \in User, NEW t \in User, Begin(c, op, u, t)
      PROVE  Same /\ (op = "record" \/ Other)
  <2>1. Same
    BY <1>3 DEF Begin, tables
  <2>2. call'[c].op = op
    BY <1>1, <1>3, Beginning
  <2> QED
    BY <2>1, <2>2
<1>4. ASSUME call[c].op # "record", call[c].op # None
      PROVE  Other
  BY <1>2, <1>4 DEF None
<1>5. ASSUME Ends(c)
      PROVE  Other
  BY <1>1, <1>5, Ending DEF None
<1>6. CASE Fails(c)
  BY <1>5, <1>6 DEF Fails, tables, history
<1>7. CASE Moving(c)
  <2>1. Same
    BY <1>7, MovingChangesNothing
  <2>2. CASE RecordLook(c)
    BY <2>1, <2>2
  <2>3. CASE Answered(c) \/ TellDone(c)
    BY <1>5, <2>1, <2>3 DEF Answered, TellDone
  <2>4. CASE OwnerCheck(c) \/ CanAccessRead(c) \/ CanAccessMember(c) \/ ListMembers(c)
    <3>1. call[c].op # "record" /\ call[c].op # None
      BY <1>2, <2>4 DEF OwnerCheck, CanAccessRead, CanAccessMember, ListMembers, Shape, None
    <3> QED
      BY <1>4, <2>1, <3>1
  <2>5. CASE ReadTransfer(c) \/ ReadRemove(c) \/ ReadLeave(c) \/ ReadOwned(c) \/ LeaveMember(c)
    <3>1. call[c].op # "record" /\ call[c].op # None
      BY <2>5 DEF ReadTransfer, ReadRemove, ReadLeave, ReadOwned, LeaveMember, At, None
    <3> QED
      BY <1>4, <2>1, <3>1
  <2> QED
    BY <1>7, <2>2, <2>3, <2>4, <2>5 DEF Moving
<1>8. CASE InsertMember(c) \/ DeleteMember(c) \/ Tell(c)
  <2>1. Same
    BY <1>8 DEF InsertMember, DeleteMember, Tell
  <2>2. call[c].op # "record" /\ call[c].op # None
    BY <1>2, <1>8 DEF InsertMember, DeleteMember, Tell, Shape, None
  <2> QED
    BY <1>4, <2>1, <2>2
<1>9. CASE WriteOwner(c) \/ Archive(c) \/ Unarchive(c) \/ DeleteDocument(c)
  <2>1. Same
    BY <1>9 DEF WriteOwner, Archive, Unarchive, DeleteDocument, history
  <2>2. call[c].op # "record" /\ call[c].op # None
    BY <1>9 DEF WriteOwner, Archive, Unarchive, DeleteDocument, At, None
  <2> QED
    BY <1>4, <2>1, <2>2
<1>10. ~Delete(c)
  BY DEF Delete
<1> QED
  BY <1>3, <1>6, <1>7, <1>8, <1>9, <1>10 DEF Steps, Moving

\* Counts stay exact but for who records twice at once.
LEMMA StaysCounted ==
    ASSUME TypeOK, Shapes, Recordings, AccessesCounted, NEW c \in Call, Steps(c)
    PROVE  Recordings' /\ AccessesCounted'
<1> SUFFICES ASSUME exists'
             PROVE  Recordings' /\ AccessesCounted'
  BY DEF Recordings, AccessesCounted
<1>1. /\ call \in [Call -> Request] /\ Creator \in User
      /\ accessCount \in [User -> Nat] /\ recorded \in [User -> Nat]
  BY ToolInstancesAssumption DEF TypeOK, Request, ToolInstancesAssumption
<1>2. exists
  BY RowsMove
<1>3. /\ call' \in [Call -> Request]
      /\ \A d \in Call \ {c} : call'[d] = call[d]
  BY Moves
<1>4. \A u \in User : /\ accessCount[u] <= recorded[u]
                      /\ recorded[u] > 0 => accessCount[u] > 0
                      /\ u \notin raced => accessCount[u] = recorded[u]
  BY <1>2 DEF AccessesCounted
<1>5. \A d, e \in Call : d # e /\ call[d].op = "record" /\ call[e].op = "record"
                           /\ call[e].user = call[d].user => call[d].user \in raced
  BY <1>2 DEF Recordings, Recording
<1>6. \A d \in Call : call[d].op = "record" =>
        /\ call[d].step = "count" =>
             /\ call[d].count <= recorded[call[d].user]
             /\ call[d].user \notin raced => call[d].count = accessCount[call[d].user]
        /\ call[d].step = "create" /\ call[d].user \notin raced =>
             accessCount[call[d].user] = 0
  BY <1>2 DEF Recordings, Recording
<1>7. \A d \in Call : call[d].user \in User /\ call[d].count \in Nat
  BY <1>1 DEF Request
<1> DEFINE Pairs == \A d, e \in Call : d # e /\ call[d].op = "record" /\ call[e].op = "record"
                           /\ call[e].user = call[d].user => call[d].user \in raced
           Alone(d) == call[d].op = "record" =>
                /\ call[d].step = "count" =>
                     /\ call[d].count <= recorded[call[d].user]
                     /\ call[d].user \notin raced => call[d].count = accessCount[call[d].user]
                /\ call[d].step = "create" /\ call[d].user \notin raced =>
                     accessCount[call[d].user] = 0
<1>8. ASSUME Pairs', \A d \in Call : Alone(d)'
      PROVE  Recordings'
  BY <1>8 DEF Recordings, Recording
<1>9. CASE RecordCount(c) \/ RecordCreate(c)
  <2>1. /\ call[c].op = "record" /\ Ends(c) /\ raced' = raced
        /\ call[c].step \in {"count", "create"}
    BY <1>9 DEF RecordCount, RecordCreate, At
  <2>2. call'[c].op = None
    BY <1>1, <2>1, Ending
  <2> DEFINE u == call[c].user
  <2>3. u \in User
    BY <1>7
  <2>4. \A d \in Call \ {c} : call[d].op = "record" /\ u \notin raced => call[d].user # u
    BY <1>5, <2>1
  <2>5. Pairs'
    BY <1>3, <1>5, <2>1, <2>2 DEF None
  <2>6. /\ accessCount' \in [User -> Nat] /\ recorded' \in [User -> Nat]
        /\ \A v \in User \ {u} : accessCount'[v] = accessCount[v] /\ recorded'[v] = recorded[v]
        /\ recorded'[u] >= recorded[u]
        /\ accessCount'[u] <= recorded'[u]
        /\ recorded'[u] > 0 => accessCount'[u] > 0
        /\ u \notin raced => accessCount'[u] = recorded'[u]
    <3>1. CASE RecordCount(c)
      <4>1. /\ call[c].step = "count" /\ call[c].count \in Nat
            /\ accessCount' = [accessCount EXCEPT ![u] = call[c].count + 1]
            /\ recorded' = [recorded EXCEPT ![u] = recorded[u] + 1]
        BY <1>2, <1>7, <3>1 DEF RecordCount, At
      <4>2. /\ call[c].count <= recorded[u]
            /\ u \notin raced => call[c].count = accessCount[u]
        BY <1>6, <2>1, <4>1
      <4>3. /\ accessCount'[u] = call[c].count + 1 /\ recorded'[u] = recorded[u] + 1
            /\ recorded[u] \in Nat /\ accessCount[u] \in Nat
            /\ accessCount' \in [User -> Nat] /\ recorded' \in [User -> Nat]
            /\ \A v \in User \ {u} : accessCount'[v] = accessCount[v] /\ recorded'[v] = recorded[v]
        BY <1>1, <2>3, <4>1
      <4>4. u \notin raced => accessCount[u] = recorded[u]
        BY <1>4, <2>3
      <4> HIDE DEF u
      <4> QED
        BY <4>1, <4>2, <4>3, <4>4
    <3>2. CASE RecordCreate(c) /\ accessCount[u] = 0
      <4>1. /\ accessCount' = [accessCount EXCEPT ![u] = 1]
            /\ recorded' = [recorded EXCEPT ![u] = recorded[u] + 1]
        BY <1>2, <3>2 DEF RecordCreate
      <4>2. recorded[u] = 0
        BY <1>1, <1>4, <2>3, <3>2
      <4> HIDE DEF u
      <4> QED
        BY <1>1, <2>3, <4>1, <4>2
    <3>3. CASE RecordCreate(c) /\ accessCount[u] # 0
      <4>1. accessCount' = accessCount /\ recorded' = recorded
        BY <3>3 DEF RecordCreate
      <4> HIDE DEF u
      <4> QED
        BY <1>1, <1>4, <2>3, <4>1
    <3> QED
      BY <1>9, <3>1, <3>2, <3>3
  <2>7. ASSUME NEW d \in Call
        PROVE  Alone(d)'
    <3>1. CASE d = c
      BY <2>2, <3>1 DEF None
    <3>2. CASE d # c /\ call[d].op = "record"
      <4>1. call'[d] = call[d] /\ call[d].user \in User /\ call[d].count \in Nat /\ Alone(d)
        BY <1>3, <1>6, <1>7, <3>2
      <4>2. CASE call[d].user # u
        BY <2>1, <2>6, <4>1, <4>2
      <4>3. CASE call[d].user = u
        <5>1. u \in raced
          BY <2>4, <3>2, <4>3
        <5>2. recorded[u] \in Nat /\ recorded'[u] \in Nat
          BY <1>1, <2>3, <2>6
        <5> HIDE DEF u
        <5> QED
          BY <2>1, <2>6, <4>1, <4>3, <5>1, <5>2
      <4> QED
        BY <4>2, <4>3
    <3>3. CASE d # c /\ call[d].op # "record"
      BY <1>3, <3>3
    <3> QED
      BY <3>1, <3>2, <3>3
  <2>8. AccessesCounted'
    BY <1>4, <2>1, <2>6 DEF AccessesCounted
  <2> QED
    BY <1>8, <2>5, <2>7, <2>8
<1>10. CASE ~RecordCount(c) /\ ~RecordCreate(c)
  <2>1. /\ accessCount' = accessCount /\ recorded' = recorded /\ raced \subseteq raced'
        /\ \/ call'[c].op # "record"
           \/ RecordLook(c)
           \/ \E u, t \in User : Begin(c, "record", u, t)
    BY <1>10, RecordMoves
  <2>2. AccessesCounted'
    BY <1>4, <2>1 DEF AccessesCounted
  <2>3. ASSUME NEW d \in Call, d # c
        PROVE  Alone(d)'
    <3>1. call'[d] = call[d] /\ Alone(d)
      BY <1>3, <1>6, <2>3
    <3> QED
      BY <2>1, <3>1
  <2>4. CASE call'[c].op # "record"
    <3>1. Pairs' /\ Alone(c)'
      BY <1>3, <1>5, <2>1, <2>4
    <3> QED
      BY <1>8, <2>2, <2>3, <3>1
  <2>5. CASE RecordLook(c)
    <3>1. /\ call[c].op = "record" /\ call'[c].op = "record" /\ call'[c].user = call[c].user
          /\ call'[c].count = accessCount[call[c].user]
          /\ accessCount[call[c].user] = 0 => call'[c].step = "create"
          /\ accessCount[call[c].user] # 0 => call'[c].step = "count"
      BY <1>1, <2>5, Looking DEF RecordLook, At
    <3>2. Pairs'
      BY <1>3, <1>5, <2>1, <3>1
    <3>3. Alone(c)'
      BY <1>4, <1>7, <2>1, <3>1
    <3> QED
      BY <1>8, <2>2, <2>3, <3>2, <3>3
  <2>6. ASSUME NEW u \in User, NEW t \in User, Begin(c, "record", u, t)
        PROVE  Pairs' /\ Alone(c)'
    <3>1. "record" \in Op
      BY DEF Op
    <3>2. call'[c].op = "record" /\ call'[c].user = u /\ call'[c].step = "look"
      BY <1>1, <2>6, <3>1, Beginning
    <3>3. ASSUME NEW d \in Call \ {c}, call[d].op = "record", call[d].user = u
          PROVE  u \in raced'
      BY <2>6, <3>3 DEF Begin
    <3>4. Pairs'
      BY <1>3, <1>5, <2>1, <3>2, <3>3
    <3> QED
      BY <3>2, <3>4
  <2> QED
    BY <1>8, <2>1, <2>2, <2>3, <2>4, <2>5, <2>6
<1> QED
  BY <1>9, <1>10

-----------------------------------------------------------------------------
(* The theorems.                                                            *)

LEMMA InitHolds == Init => IInv
<1> SUFFICES ASSUME Init
             PROVE  IInv
  OBVIOUS
<1>1. \A c \in Call : call[c] = Idle /\ call[c].op = None /\ call[c].step = None
  BY DEF Init, Idle
<1>2. Idle \in Request
  BY ToolInstancesAssumption DEF Idle, Request, ToolInstancesAssumption
<1>3. call \in [Call -> Request]
  <2>1. call = [c \in Call |-> Idle]
    BY DEF Init
  <2> QED
    BY <1>2, <2>1
<1>4. TypeOK
  <2>1. accessCount \in [User -> Nat] /\ recorded \in [User -> Nat]
    BY DEF Init
  <2>2. /\ exists = TRUE /\ owner \in User /\ archived = FALSE
        /\ document = FALSE /\ placed = FALSE
        /\ members = {} /\ untold = {} /\ late = {} /\ raced = {}
        /\ faults \in 0..MaxFaults
    BY ToolInstancesAssumption DEF Init, ToolInstancesAssumption
  <2>3. seen \in [Call -> SUBSET {"owned", "member", "open"}]
    BY DEF Init
  <2> QED
    BY <1>3, <2>1, <2>2, <2>3 DEF TypeOK, Request
<1>5. Shapes /\ Entitled /\ Deleting /\ Listed
  BY <1>1 DEF Init, Shapes, Shape, Entitled, EntitledBy, Checked, Deleting, Listed, At, None
<1>6. Told /\ Documented
  BY DEF Init, Told, Documented
<1>7. Recordings /\ AccessesCounted
  BY <1>1 DEF Init, Recordings, Recording, AccessesCounted, None
<1> QED
  BY <1>4, <1>5, <1>6, <1>7 DEF IInv

\* A load that inserts the document touches no request and no other table.
LEMMA LoadKeeps ==
    ASSUME IInv, LoadCreates, Remember
    PROVE  IInv'
<1>1. /\ UNCHANGED <<exists, owner, archived, members, accessCount, call, faults,
                    untold, late, recorded, raced>>
      /\ document' = TRUE /\ placed' = exists
  BY DEF LoadCreates, history
<1>2. \A c \in Call : seen'[c] = IF ~Running(c) THEN {} ELSE seen[c] \cup Facts(c)
  BY <1>1 DEF Remember, Running, Facts
<1>3. TypeOK'
  <2>1. \A c \in Call : Facts(c)' \subseteq {"owned", "member", "open"}
    BY DEF Facts
  <2>2. seen' \in [Call -> SUBSET {"owned", "member", "open"}]
    BY <2>1 DEF Remember, IInv, TypeOK
  <2>3. document' \in BOOLEAN /\ placed' \in BOOLEAN
    BY <1>1 DEF IInv, TypeOK
  <2> QED
    BY <1>1, <2>2, <2>3 DEF IInv, TypeOK
<1>4. Shapes' /\ Deleting' /\ Listed'
  BY <1>1 DEF IInv, Shapes, Deleting, Listed, At
<1>5. Entitled'
  <2>1. ASSUME NEW c \in Call
        PROVE  EntitledBy(call[c], seen'[c])
    <3>1. EntitledBy(call[c], seen[c]) /\ Shape(call[c])
      BY DEF IInv, Entitled, Shapes
    <3>2. CASE Running(c)
      BY <1>2, <3>1, <3>2 DEF EntitledBy
    <3>3. CASE ~Running(c)
      BY <3>1, <3>3 DEF EntitledBy, Running, Checked, None
    <3> QED
      BY <3>2, <3>3
  <2> QED
    BY <1>1, <2>1 DEF Entitled
<1>6. faults' = 0 => Told'
  BY <1>1 DEF IInv, Told, WillTell
<1>7. Documented'
  BY <1>1 DEF Documented
<1>8. Recordings' /\ AccessesCounted'
  BY <1>1 DEF IInv, Recordings, Recording, AccessesCounted
<1> QED
  BY <1>3, <1>4, <1>5, <1>6, <1>7, <1>8 DEF IInv

LEMMA NextKeeps == IInv /\ [Next]_vars => IInv'
<1> SUFFICES ASSUME IInv, [Next]_vars
             PROVE  IInv'
  OBVIOUS
<1>1. CASE UNCHANGED vars
  <2>1. TypeOK' /\ Shapes' /\ Entitled'
    BY <1>1 DEF IInv, vars, tables, history, TypeOK, Shapes, Entitled
  <2>2. Deleting' /\ Listed'
    BY <1>1 DEF IInv, vars, tables, history, Deleting, Listed, At
  <2>3. faults' = 0 => Told' /\ Documented'
    BY <1>1 DEF IInv, vars, tables, history, Told, WillTell, Documented, At
  <2>4. Recordings' /\ AccessesCounted'
    BY <1>1 DEF IInv, vars, tables, history, Recordings, Recording, AccessesCounted
  <2> QED
    BY <2>1, <2>2, <2>3, <2>4 DEF IInv
<1>2. CASE LoadCreates /\ Remember
  BY <1>2, LoadKeeps
<1>3. CASE (\E c \in Call : Steps(c)) /\ placed' = placed /\ Remember
  <2>1. PICK c \in Call : Steps(c)
    BY <1>3
  <2>2. Remember /\ placed' = placed
    BY <1>3
  <2>3. TypeOK'
    BY <2>1, <2>2, StaysTyped DEF IInv
  <2>4. Shapes'
    <3>1. Shape(call'[c]) /\ \A d \in Call \ {c} : call'[d] = call[d]
      BY <2>1, Moves DEF IInv
    <3> QED
      BY <3>1 DEF IInv, Shapes
  <2>5. Entitled'
    BY <2>1, <2>2, StaysEntitled DEF IInv
  <2>6. Deleting' /\ Listed'
    BY <2>1, StaysDeleting, StaysListed DEF IInv
  <2>7. faults' = 0 => Told' /\ Documented'
    <3>1. faults' = 0 => faults = 0 /\ ~Fails(c)
      BY <2>1, RowsMove DEF IInv, TypeOK, Fails
    <3> QED
      BY <2>1, <2>2, <3>1, StaysTold, StaysDocumented DEF IInv
  <2>8. Recordings' /\ AccessesCounted'
    BY <2>1, StaysCounted DEF IInv
  <2> QED
    BY <2>3, <2>4, <2>5, <2>6, <2>7, <2>8 DEF IInv
<1> QED
  BY <1>1, <1>2, <1>3 DEF Next

\* The inductive invariant, however the requests overlap.
THEOREM InstancesInvariant == Spec => []IInv
BY InitHolds, NextKeeps, PTL DEF Spec

\* Every variable keeps its type, and what belongs to an instance goes with it.
THEOREM InstancesTypeCorrect == Spec => []TypeOK
<1>1. IInv => TypeOK
  BY DEF IInv
<1> QED
  BY <1>1, InstancesInvariant, PTL

\* canAccess lets in only who was the owner during the request, or was a
\* member and found the instance open.
THEOREM GrantsAreHonest == Spec => []GrantIsHonest
<1>1. IInv => GrantIsHonest
  BY DEF IInv, Entitled, EntitledBy, GrantIsHonest, At
<1> QED
  BY <1>1, InstancesInvariant, PTL

\* While no database call fails, every member is told of what archive and
\* delete did; and the document stays with the instance and goes with it,
\* unless a load inserts it after that.
THEOREM NobodyIsLeftUntold == Spec => []RequestsAreWhole
<1>1. ASSUME IInv, faults = 0
      PROVE  /\ (\A c \in Call : ~Running(c)) => untold = {}
             /\ exists /\ placed => document
             /\ (\A c \in Call : call[c].op # "delete") /\ document /\ placed => exists
  <2>1. Told /\ Documented
    BY <1>1 DEF IInv
  <2>2. ASSUME \A c \in Call : ~Running(c) PROVE untold = {}
    BY <2>1, <2>2 DEF Told, WillTell, Running, None
  <2>3. /\ exists /\ placed => document
        /\ (\A c \in Call : call[c].op # "delete") /\ document /\ placed => exists
    BY <2>1 DEF Documented, At
  <2> QED
    BY <2>2, <2>3
<1>2. IInv => RequestsAreWhole
  BY <1>1 DEF RequestsAreWhole
<1> QED
  BY <1>2, InstancesInvariant, PTL

\* The access count of a user who never recorded twice at once is exact, and
\* nobody's is too high or lost.
THEOREM AccessesAreCounted == Spec => []AccessesCounted
<1>1. IInv => AccessesCounted
  BY DEF IInv
<1> QED
  BY <1>1, InstancesInvariant, PTL

\* The owner, the members, the archive state and the row change only by a
\* request whose user owned the instance during it, or by a member's leaving.
THEOREM ChangesStayEntitled == Spec => ChangesAreEntitled
<1> DEFINE Entitles ==
        <<owner, archived, exists, members>>' # <<owner, archived, exists, members>> =>
         \E c \in Call : /\ call'[c] # call[c]
                         /\ \/ "owned" \in seen[c]
                            \/ call[c].op = "leave" /\ members' = members \ {call[c].user}
<1>1. IInv /\ [Next]_vars => [Entitles]_vars
  <2> SUFFICES ASSUME IInv, Next,
                      <<owner, archived, exists, members>>' # <<owner, archived, exists, members>>
               PROVE  \E c \in Call : /\ call'[c] # call[c]
                         /\ \/ "owned" \in seen[c]
                            \/ call[c].op = "leave" /\ members' = members \ {call[c].user}
    OBVIOUS
  <2>1. PICK c \in Call : Steps(c)
    BY DEF Next, LoadCreates
  <2>2. /\ call \in [Call -> Request] /\ Creator \in User /\ Shape(call[c])
        /\ call[c].op \in Op \cup {None}
        /\ Checked(call[c]) => "owned" \in seen[c]
    BY ToolInstancesAssumption DEF IInv, TypeOK, Request, Shapes, Entitled, EntitledBy,
                                   ToolInstancesAssumption
  <2>3. \/ InsertMember(c) \/ DeleteMember(c) \/ WriteOwner(c)
        \/ Archive(c) \/ Unarchive(c) \/ Delete(c)
    <3>1. ASSUME NEW op \in Op, NEW u \in User, NEW t \in User, Begin(c, op, u, t)
          PROVE  FALSE
      BY <3>1 DEF Begin, tables
    <3>2. ~Moving(c)
      BY MovingChangesNothing
    <3>3. ~(Fails(c) \/ DeleteDocument(c) \/ Tell(c) \/ RecordCount(c) \/ RecordCreate(c))
      BY DEF Fails, DeleteDocument, Tell, RecordCount, RecordCreate, tables
    <3> QED
      BY <2>1, <3>1, <3>2, <3>3 DEF Steps, Moving
  <2>4. ASSUME Ends(c), call[c].op # None
        PROVE  call'[c] # call[c]
    BY <2>2, <2>4, Ending
  <2>5. ASSUME NEW s \in Step, Goto(c, s), call[c].step # s
        PROVE  call'[c] # call[c]
    BY <2>2, <2>5, Going
  <2>6. CASE InsertMember(c)
    <3>1. call[c].op \in {"transfer", "add"} /\ call[c].step = "insert"
      BY <2>2, <2>6 DEF InsertMember, Shape, Op, None
    <3>2. Goto(c, "write") \/ Ends(c)
      BY <2>6 DEF InsertMember
    <3> QED
      BY <2>2, <2>4, <2>5, <3>1, <3>2 DEF Checked, Step, None
  <2>7. CASE DeleteMember(c)
    <3>1. call[c].op \in {"remove", "leave"} /\ call[c].step = "delrow"
      BY <2>2, <2>7 DEF DeleteMember, Shape, Op, None
    <3>2. Ends(c) /\ members' = members \ {call[c].target}
      BY <2>7 DEF DeleteMember
    <3> QED
      BY <2>2, <2>4, <3>1, <3>2 DEF Checked, Shape, None
  <2>8. CASE WriteOwner(c) \/ Unarchive(c)
    BY <2>2, <2>4, <2>8 DEF WriteOwner, Unarchive, At, Checked, None
  <2>9. CASE Archive(c) \/ Delete(c)
    BY <2>2, <2>5, <2>9 DEF Archive, Delete, At, Checked, Step
  <2> QED
    BY <2>3, <2>6, <2>7, <2>8, <2>9
<1> QED
  BY <1>1, InstancesInvariant, PTL DEF Spec, ChangesAreEntitled

-----------------------------------------------------------------------------
(* SchemaDesign, the tool that the instances are instances of: its state is *)
(* the document of one of them.                                             *)

\* R orders S strictly and totally.
OrderOn(S, R) ==
    /\ \A x \in S : <<x, x>> \notin R
    /\ \A x, y, z \in S : <<x, y>> \in R /\ <<y, z>> \in R => <<x, z>> \in R
    /\ \A x, y \in S : x # y => <<x, y>> \in R \/ <<y, x>> \in R

\* What comes before x.
Below(S, R, x) == {y \in S : <<y, x>> \in R}

\* Of a finite set, finitely many come before.
LEMMA BelowType ==
  ASSUME NEW S, IsFiniteSet(S), NEW R, NEW x
  PROVE  IsFiniteSet(Below(S, R, x)) /\ Cardinality(Below(S, R, x)) \in Nat
<1>1. Below(S, R, x) \in SUBSET S
  BY DEF Below
<1> QED BY <1>1, FS_Subset, FS_CardinalityType

\* The further on, the more elements before.
LEMMA BelowGrows ==
  ASSUME NEW S, IsFiniteSet(S), NEW R, OrderOn(S, R),
         NEW x \in S, NEW y \in S, <<x, y>> \in R
  PROVE  Cardinality(Below(S, R, x)) < Cardinality(Below(S, R, y))
<1>1. Below(S, R, x) \in SUBSET Below(S, R, y)
  BY DEF Below, OrderOn
<1>2. x \in Below(S, R, y) /\ x \notin Below(S, R, x)
  BY DEF Below, OrderOn
<1>3. /\ Cardinality(Below(S, R, x)) <= Cardinality(Below(S, R, y))
      /\ Cardinality(Below(S, R, y)) = Cardinality(Below(S, R, x))
           => Below(S, R, y) = Below(S, R, x)
  BY <1>1, BelowType, FS_Subset
<1> QED BY <1>2, <1>3, BelowType

\* Every place has its element: the count of those before is one to one, and
\* so onto.
LEMMA EveryRank ==
  ASSUME NEW S, IsFiniteSet(S), NEW R, OrderOn(S, R), NEW i \in 1..Cardinality(S)
  PROVE  \E x \in S : Cardinality(Below(S, R, x)) = i - 1
<1> DEFINE n == Cardinality(S)
           rank == [x \in S |-> Cardinality(Below(S, R, x))]
<1>1. n \in Nat
  BY FS_CardinalityType
<1>2. rank \in [S -> 0..(n - 1)]
  <2> SUFFICES ASSUME NEW x \in S PROVE Cardinality(Below(S, R, x)) \in 0..(n - 1)
    OBVIOUS
  <2>1. Below(S, R, x) \in SUBSET S /\ x \notin Below(S, R, x)
    BY DEF Below, OrderOn
  <2>2. /\ Cardinality(Below(S, R, x)) <= n
        /\ n = Cardinality(Below(S, R, x)) => S = Below(S, R, x)
    BY <2>1, FS_Subset
  <2> QED BY <1>1, <2>1, <2>2, BelowType
<1>3. \A x, y \in S : rank[x] = rank[y] => x = y
  <2> SUFFICES ASSUME NEW x \in S, NEW y \in S, x # y PROVE rank[x] # rank[y]
    OBVIOUS
  <2>1. <<x, y>> \in R \/ <<y, x>> \in R
    BY DEF OrderOn
  <2> QED BY <2>1, BelowGrows, BelowType
<1>4. rank \in Injection(S, 0..(n - 1))
  BY <1>2, <1>3 DEF Injection, IsInjective
<1>5. IsFiniteSet(0..(n - 1)) /\ Cardinality(0..(n - 1)) = n
  <2>1. 0 \in Int /\ n - 1 \in Int
    BY <1>1
  <2> HIDE DEF n
  <2>2. /\ IsFiniteSet(0..(n - 1))
        /\ Cardinality(0..(n - 1)) = IF 0 > n - 1 THEN 0 ELSE (n - 1) - 0 + 1
    BY <2>1, FS_Interval
  <2> QED BY <1>1, <2>2
<1>6. rank \in Surjection(S, 0..(n - 1))
  BY <1>4, <1>5, FS_Injection
<1>7. i - 1 \in 0..(n - 1)
  BY <1>1
<1>8. \A j \in 0..(n - 1) : \E x \in S : rank[x] = j
  BY <1>6 DEF Surjection
<1>9. PICK x \in S : rank[x] = i - 1
  BY <1>7, <1>8
<1> QED BY <1>9

\* Sorted sorts: it has the elements of S, each of them, in the order of R.
LEMMA SortedSorts ==
  ASSUME NEW S, IsFiniteSet(S), NEW R, OrderOn(S, R)
  PROVE  LET s == Sorted(S, R)
         IN  /\ s \in [1..Cardinality(S) -> S]
             /\ \A x \in S : \E i \in 1..Cardinality(S) : s[i] = x
             /\ \A i, j \in 1..Cardinality(S) : i < j => <<s[i], s[j]>> \in R
<1> DEFINE n == Cardinality(S)
           s == Sorted(S, R)
<1>1. /\ DOMAIN s = 1..n /\ s = [i \in DOMAIN s |-> s[i]]
      /\ \A i \in 1..n : s[i] = CHOOSE x \in S : Cardinality(Below(S, R, x)) = i - 1
  <2>1. s = [i \in 1..Cardinality(S) |->
               CHOOSE x \in S : Cardinality(Below(S, R, x)) = i - 1]
    BY DEF Sorted, Below
  <2> HIDE DEF s
  <2> QED BY <2>1
<1>2. \A i \in 1..n : s[i] \in S /\ Cardinality(Below(S, R, s[i])) = i - 1
  <2> SUFFICES ASSUME NEW i \in 1..n
               PROVE s[i] \in S /\ Cardinality(Below(S, R, s[i])) = i - 1
    OBVIOUS
  <2>1. \E x \in S : Cardinality(Below(S, R, x)) = i - 1
    BY EveryRank
  <2>2. s[i] = CHOOSE x \in S : Cardinality(Below(S, R, x)) = i - 1
    BY <1>1
  <2> HIDE DEF s
  <2> QED BY <2>1, <2>2
<1>3. s \in [1..n -> S]
  <2> HIDE DEF s
  <2> QED BY <1>1, <1>2
<1>4. n \in Nat
  BY FS_CardinalityType
<1>5. \A x \in S : \E i \in 1..n : s[i] = x
  <2> SUFFICES ASSUME NEW x \in S PROVE \E i \in 1..n : s[i] = x
    OBVIOUS
  <2>1. Below(S, R, x) \in SUBSET S /\ x \notin Below(S, R, x)
    BY DEF Below, OrderOn
  <2>2. /\ Cardinality(Below(S, R, x)) <= n
        /\ n = Cardinality(Below(S, R, x)) => S = Below(S, R, x)
    BY <2>1, FS_Subset
  <2> DEFINE i == Cardinality(Below(S, R, x)) + 1
  <2>3. i \in 1..n /\ i - 1 = Cardinality(Below(S, R, x))
    BY <1>4, <2>1, <2>2, BelowType
  <2>4. s[i] \in S /\ Cardinality(Below(S, R, s[i])) = Cardinality(Below(S, R, x))
    BY <1>2, <2>3
  <2>5. s[i] = x
    <3> SUFFICES ASSUME s[i] # x PROVE FALSE
      OBVIOUS
    <3>1. <<s[i], x>> \in R \/ <<x, s[i]>> \in R
      BY <2>4 DEF OrderOn
    <3> HIDE DEF s, i
    <3> QED BY <2>4, <3>1, BelowGrows, BelowType
  <2> HIDE DEF s, i
  <2> QED BY <2>3, <2>5
<1>6. \A i, j \in 1..n : i < j => <<s[i], s[j]>> \in R
  <2> SUFFICES ASSUME NEW i \in 1..n, NEW j \in 1..n, i < j, <<s[i], s[j]>> \notin R PROVE FALSE
    OBVIOUS
  <2>1. /\ s[i] \in S /\ Cardinality(Below(S, R, s[i])) = i - 1
        /\ s[j] \in S /\ Cardinality(Below(S, R, s[j])) = j - 1
    BY <1>2
  <2> HIDE DEF s
  <2>2. s[i] # s[j]
    BY <1>4, <2>1
  <2>3. <<s[j], s[i]>> \in R
    BY <2>1, <2>2 DEF OrderOn
  <2>4. j - 1 < i - 1
    BY <2>1, <2>3, BelowGrows
  <2> QED BY <1>4, <2>4
<1> QED BY <1>3, <1>5, <1>6

\* The order in which a replica iterates a map is one.
LEMMA IterationOrders ==
  ASSUME NEW ids, IsFiniteSet(ids), NEW o \in Orders(ids)
  PROVE  /\ \A x \in ids : ~Before(o, x, x)
         /\ \A x, y, z \in ids :
               Before(o, x, y) /\ Before(o, y, z) => Before(o, x, z)
         /\ \A x, y \in ids : x # y => Before(o, x, y) \/ Before(o, y, x)
<1> DEFINE n == Cardinality(ids)
<1>1. n \in Nat
  BY FS_CardinalityType
<1>2. /\ o \in [1..n -> ids]
      /\ \A i, j \in 1..n : i # j => o[i] # o[j]
  BY DEF Orders, SetToSeqs
<1>3. o \in Injection(1..n, ids)
  BY <1>2 DEF Injection, IsInjective
<1>4. Cardinality(1..n) = n
  BY <1>1, FS_Interval
<1>5. o \in Surjection(1..n, ids)
  BY <1>3, <1>4, FS_Injection
<1>6. \A x \in ids : \E i \in 1..n : o[i] = x
  BY <1>5 DEF Surjection
<1>7. \A x, y : Before(o, x, y) <=> \E i, j \in 1..n : i < j /\ o[i] = x /\ o[j] = y
  BY <1>2 DEF Before
<1> HIDE DEF n
<1>8. \A x \in ids : ~Before(o, x, x)
  BY <1>1, <1>2, <1>7
<1>9. \A x, y, z \in ids :
         Before(o, x, y) /\ Before(o, y, z) => Before(o, x, z)
  <2> SUFFICES ASSUME NEW x, NEW y, NEW z, Before(o, x, y), Before(o, y, z)
               PROVE Before(o, x, z)
    OBVIOUS
  <2>1. PICK i \in 1..n, j \in 1..n : i < j /\ o[i] = x /\ o[j] = y
    BY <1>7
  <2>2. PICK k \in 1..n, l \in 1..n : k < l /\ o[k] = y /\ o[l] = z
    BY <1>7
  <2>3. j = k
    BY <1>2, <2>1, <2>2
  <2>4. i < l
    BY <1>1, <2>1, <2>2, <2>3
  <2> QED BY <1>7, <2>1, <2>2, <2>4
<1>10. \A x, y \in ids : x # y => Before(o, x, y) \/ Before(o, y, x)
  <2> SUFFICES ASSUME NEW x \in ids, NEW y \in ids, x # y
               PROVE Before(o, x, y) \/ Before(o, y, x)
    OBVIOUS
  <2>1. PICK i \in 1..n : o[i] = x
    BY <1>6
  <2>2. PICK j \in 1..n : o[j] = y
    BY <1>6
  <2>3. i < j \/ j < i
    BY <1>1, <2>1, <2>2
  <2> QED BY <1>7, <2>1, <2>2, <2>3
<1> QED BY <1>8, <1>9, <1>10
-----------------------------------------------------------------------------
\* Whatever clients write, the document keeps to its maps: tables, keys,
\* references and compositions, each with what is written under an id.
THEOREM DesignTypeCorrect == DesignSpec => []DesignTypeOK
<1>1. DesignInit => DesignTypeOK
  BY DEF DesignInit, DesignTypeOK, Written
<1>2. DesignTypeOK /\ [DesignNext]_designVars => DesignTypeOK'
  <2> SUFFICES ASSUME DesignTypeOK, [DesignNext]_designVars PROVE DesignTypeOK'
    OBVIOUS
  <2>1. CASE \E t \in TableId, v \in Written(TableValue) : PutTable(t, v)
    BY <2>1 DEF DesignTypeOK, PutTable
  <2>2. CASE \E k \in KeyId, v \in Written(KeyValue) : PutKey(k, v)
    BY <2>2 DEF DesignTypeOK, PutKey
  <2>3. CASE \E r \in ReferenceId, v \in Written(ReferenceValue) :
               PutReference(r, v)
    BY <2>3 DEF DesignTypeOK, PutReference
  <2>4. CASE \E c \in CompositionId, v \in Written(CompositionValue) :
               PutComposition(c, v)
    BY <2>4 DEF DesignTypeOK, PutComposition
  <2>5. CASE SetVersion
    BY <2>5 DEF DesignTypeOK, SetVersion
  <2>6. CASE UNCHANGED designVars
    BY <2>6 DEF DesignTypeOK, designVars
  <2> QED BY <2>1, <2>2, <2>3, <2>4, <2>5, <2>6 DEF DesignNext
<1> QED BY <1>1, <1>2, PTL DEF DesignSpec

\* What is sorted, and by what.
LEMMA DesignTypes ==
  ASSUME DesignTypeOK
  PROVE  /\ NamedTables(doc) \in SUBSET TableId
         /\ \A t \in NamedTables(doc) :
               /\ doc.tables[t].name \in DOMAIN Lower
               /\ doc.tables[t].name # Blank
               /\ TableName(doc, t) = doc.tables[t].name
               /\ TableName(doc, t) \in Nat
         /\ \A t \in Nat : Label(doc, t) \in Nat
         /\ Constraining(doc) \in SUBSET KeyId
         /\ \A k \in Constraining(doc) :
               doc.keys[k].tableId \in Nat /\ doc.keys[k].name \in Nat
         /\ Objects(doc.references) \in SUBSET ReferenceId
         /\ \A r \in Objects(doc.references) :
               doc.references[r].fromTableId \in Nat /\ doc.references[r].toTableId \in Nat
<1>1. NamedTables(doc) \in SUBSET TableId
  BY DEF NamedTables, Objects, DesignTypeOK
<1>2. ASSUME NEW t \in NamedTables(doc)
      PROVE  /\ doc.tables[t].name \in DOMAIN Lower
             /\ doc.tables[t].name # Blank
             /\ TableName(doc, t) = doc.tables[t].name
             /\ TableName(doc, t) \in Nat
  <2>1. doc.tables[t] \in TableValue /\ doc.tables[t].name # Blank
    BY DEF NamedTables, Objects, DesignTypeOK, Written
  <2> QED BY <2>1, SchemaDesignAssumption DEF SchemaDesignAssumption, TableName
<1>3. \A t \in Nat : Label(doc, t) \in Nat
  BY <1>2 DEF Label
<1>4. Constraining(doc) \in SUBSET KeyId
  BY DEF Constraining, NamedKeys, Objects, DesignTypeOK
<1>5. ASSUME NEW k \in Constraining(doc)
      PROVE  doc.keys[k].tableId \in Nat /\ doc.keys[k].name \in Nat
  <2>1. doc.keys[k] \in KeyValue
    BY DEF Constraining, NamedKeys, Objects, DesignTypeOK,
           Written
  <2> QED BY <2>1, SchemaDesignAssumption DEF SchemaDesignAssumption
<1>6. Objects(doc.references) \in SUBSET ReferenceId
  BY DEF Objects, DesignTypeOK
<1>7. ASSUME NEW r \in Objects(doc.references)
      PROVE  doc.references[r].fromTableId \in Nat /\ doc.references[r].toTableId \in Nat
  <2>1. doc.references[r] \in ReferenceValue
    BY DEF Objects, DesignTypeOK, Written
  <2> QED BY <2>1, SchemaDesignAssumption DEF SchemaDesignAssumption
<1> QED BY <1>1, <1>2, <1>3, <1>4, <1>5, <1>6, <1>7

\* The orders of the three sorts of compile, as sets of pairs.
TableOrder(o) ==
    {p \in NamedTables(doc) \X NamedTables(doc) :
        TableFirst(doc, o, p[1], p[2])}

KeyOrder(o) ==
    {p \in Constraining(doc) \X Constraining(doc) :
        KeyFirst(doc, o, p[1], p[2])}

ReferenceOrder(o) ==
    {p \in Objects(doc.references) \X Objects(doc.references) :
        ReferenceFirst(doc, o, p[1], p[2])}

\* Each of the three sorts has a strict total order to sort by.
LEMMA TablesOrdered ==
  ASSUME DesignTypeOK, NEW o \in Orders(TableId)
  PROVE  OrderOn(NamedTables(doc), TableOrder(o))
<1> DEFINE S == NamedTables(doc)
           name(t) == TableName(doc, t)
<1>1. \A x, y \in S : <<x, y>> \in TableOrder(o) <=>
         \/ name(x) < name(y)
         \/ name(x) = name(y) /\ Before(o, x, y)
  BY DEF TableOrder, TableFirst
<1>2. S \in SUBSET TableId /\ \A x \in S : name(x) \in Nat
  BY DesignTypes
<1>3. IsFiniteSet(TableId)
  BY SchemaDesignAssumption DEF SchemaDesignAssumption
<1>4. /\ \A x \in S : ~Before(o, x, x)
      /\ \A x, y, z \in S :
            Before(o, x, y) /\ Before(o, y, z) => Before(o, x, z)
      /\ \A x, y \in S : x # y => Before(o, x, y) \/ Before(o, y, x)
  BY <1>2, <1>3, IterationOrders
<1> HIDE DEF S, name
<1> QED BY <1>1, <1>2, <1>4 DEF OrderOn, S

LEMMA KeysOrdered ==
  ASSUME DesignTypeOK, NEW o \in Orders(KeyId)
  PROVE  OrderOn(Constraining(doc), KeyOrder(o))
<1> DEFINE S == Constraining(doc)
           label(k) == Label(doc, doc.keys[k].tableId)
           name(k) == doc.keys[k].name
<1>1. \A x, y \in S : <<x, y>> \in KeyOrder(o) <=>
         \/ label(x) < label(y)
         \/ label(x) = label(y) /\ name(x) < name(y)
         \/ label(x) = label(y) /\ name(x) = name(y) /\ Before(o, x, y)
  BY DEF KeyOrder, KeyFirst
<1>2. S \in SUBSET KeyId /\ \A x \in S : label(x) \in Nat /\ name(x) \in Nat
  BY DesignTypes
<1>3. IsFiniteSet(KeyId)
  BY SchemaDesignAssumption DEF SchemaDesignAssumption
<1>4. /\ \A x \in S : ~Before(o, x, x)
      /\ \A x, y, z \in S :
            Before(o, x, y) /\ Before(o, y, z) => Before(o, x, z)
      /\ \A x, y \in S : x # y => Before(o, x, y) \/ Before(o, y, x)
  BY <1>2, <1>3, IterationOrders
<1> HIDE DEF S, label, name
<1> QED BY <1>1, <1>2, <1>4 DEF OrderOn, S

LEMMA ReferencesOrdered ==
  ASSUME DesignTypeOK, NEW o
  PROVE  OrderOn(Objects(doc.references), ReferenceOrder(o))
<1> DEFINE S == Objects(doc.references)
           from(r) == Label(doc, doc.references[r].fromTableId)
           to(r) == Label(doc, doc.references[r].toTableId)
<1>1. \A x, y \in S : <<x, y>> \in ReferenceOrder(o) <=>
         \/ from(x) < from(y)
         \/ from(x) = from(y) /\ to(x) < to(y)
         \/ from(x) = from(y) /\ to(x) = to(y) /\ x < y
  BY DEF ReferenceOrder, ReferenceFirst
<1>2. S \in SUBSET Nat /\ \A x \in S : from(x) \in Nat /\ to(x) \in Nat
  BY DesignTypes, SchemaDesignAssumption DEF SchemaDesignAssumption
<1> HIDE DEF S, from, to
<1> QED BY <1>1, <1>2 DEF OrderOn, S

\* So what is compiled are the objects themselves, sorted.
LEMMA CompiledFrom ==
  ASSUME DesignTypeOK,
         NEW ot \in Orders(TableId), NEW ok \in Orders(KeyId), NEW or
  PROVE  /\ \E n \in Nat : SortedTables(doc, ot) \in [1..n -> NamedTables(doc)]
         /\ \E n \in Nat : SortedKeys(doc, ok) \in [1..n -> Constraining(doc)]
         /\ \E n \in Nat :
               SortedReferences(doc, or) \in [1..n -> Objects(doc.references)]
<1>1. /\ IsFiniteSet(NamedTables(doc)) /\ IsFiniteSet(Constraining(doc))
      /\ IsFiniteSet(Objects(doc.references))
  BY DesignTypes, FS_Subset, SchemaDesignAssumption DEF SchemaDesignAssumption
<1>2. /\ SortedTables(doc, ot) = Sorted(NamedTables(doc), TableOrder(ot))
      /\ SortedKeys(doc, ok) = Sorted(Constraining(doc), KeyOrder(ok))
      /\ SortedReferences(doc, or)
           = Sorted(Objects(doc.references), ReferenceOrder(or))
  BY DEF SortedTables, TableOrder, SortedKeys, KeyOrder,
         SortedReferences, ReferenceOrder
<1>3. /\ Cardinality(NamedTables(doc)) \in Nat
      /\ Cardinality(Constraining(doc)) \in Nat
      /\ Cardinality(Objects(doc.references)) \in Nat
  BY <1>1, FS_CardinalityType
<1>4. SortedTables(doc, ot)
        \in [1..Cardinality(NamedTables(doc)) -> NamedTables(doc)]
  BY <1>1, <1>2, TablesOrdered, SortedSorts
<1>5. SortedKeys(doc, ok)
        \in [1..Cardinality(Constraining(doc)) -> Constraining(doc)]
  BY <1>1, <1>2, KeysOrdered, SortedSorts
<1>6. SortedReferences(doc, or)
        \in [1..Cardinality(Objects(doc.references)) -> Objects(doc.references)]
  BY <1>1, <1>2, ReferencesOrdered, SortedSorts
<1> QED BY <1>3, <1>4, <1>5, <1>6

-----------------------------------------------------------------------------
\* The names of the tables differ in more than case.
DistinctNames ==
    \A t, u \in NamedTables(doc) :
        Lower[TableName(doc, t)] = Lower[TableName(doc, u)] => t = u

\* Which of two tables is the duplicate depends on the order; whether one is
\* does not.
LEMMA DuplicatesByName ==
  ASSUME DesignTypeOK, NEW o \in Orders(TableId)
  PROVE  Duplicates(doc, o) = {} <=> DistinctNames
<1> DEFINE S == NamedTables(doc)
           lower(t) == Lower[TableName(doc, t)]
<1>1. S \in SUBSET TableId /\ \A t \in S : lower(t) = Lower[doc.tables[t].name]
  BY DesignTypes
<1>2. IsFiniteSet(TableId)
  BY SchemaDesignAssumption DEF SchemaDesignAssumption
<1>3. /\ \A x \in S : ~Before(o, x, x)
      /\ \A x, y \in S : x # y => Before(o, x, y) \/ Before(o, y, x)
  BY <1>1, <1>2, IterationOrders
<1>4. Duplicates(doc, o)
        = {t \in S : \E u \in S : Before(o, u, t) /\ lower(u) = lower(t)}
  BY <1>1 DEF Duplicates
<1>5. DistinctNames <=> \A t, u \in S : lower(t) = lower(u) => t = u
  BY DEF DistinctNames
<1> HIDE DEF S, lower
<1> QED BY <1>3, <1>4, <1>5

\* The other errors do not depend on the order at all.
LEMMA ValidInAnyOrder ==
  ASSUME DesignTypeOK,
         NEW o \in Orders(TableId), NEW p \in Orders(TableId),
         Valid(doc, o)
  PROVE  Valid(doc, p) /\ DistinctNames
<1>1. Duplicates(doc, o) = {}
  BY DEF Valid, Errors, TableErrors
<1>2. DistinctNames
  BY <1>1, DuplicatesByName
<1>3. Duplicates(doc, p) = {}
  BY <1>2, DuplicatesByName
<1>4. TableErrors(doc, p) = TableErrors(doc, o)
  BY <1>1, <1>3 DEF TableErrors
<1>5. Errors(doc, p) = Errors(doc, o)
  BY <1>4 DEF Errors
<1> QED BY <1>2, <1>5 DEF Valid

\* No two tables tie, so that the order of the map does not matter.
LEMMA TablesDoNotTie ==
  ASSUME DesignTypeOK, DistinctNames,
         NEW o \in Orders(TableId), NEW p \in Orders(TableId)
  PROVE  CompiledTables(doc, o) = CompiledTables(doc, p)
<1> DEFINE S == NamedTables(doc)
           name(t) == TableName(doc, t)
<1>1. S \in SUBSET TableId /\ IsFiniteSet(TableId)
  BY DesignTypes, SchemaDesignAssumption DEF SchemaDesignAssumption
<1>2. \A x \in S : ~Before(o, x, x) /\ ~Before(p, x, x)
  BY <1>1, IterationOrders
<1>3. \A x, y \in S : name(x) = name(y) => x = y
  BY DEF DistinctNames
<1>4. \A x, y \in S : TableFirst(doc, o, x, y) <=> TableFirst(doc, p, x, y)
  BY <1>2, <1>3 DEF TableFirst
<1>5. {q \in S \X S : TableFirst(doc, o, q[1], q[2])}
        = {q \in S \X S : TableFirst(doc, p, q[1], q[2])}
  BY <1>4
<1>6. SortedTables(doc, o) = SortedTables(doc, p)
  BY <1>5 DEF SortedTables
<1> QED BY <1>6 DEF CompiledTables

\* The same of the constraints, when no two keys of a table share a name.
LEMMA KeysDoNotTie ==
  ASSUME DesignTypeOK, ~KeysTie(doc),
         NEW o \in Orders(KeyId), NEW p \in Orders(KeyId)
  PROVE  CompiledKeys(doc, o) = CompiledKeys(doc, p)
<1> DEFINE S == Constraining(doc)
           label(k) == Label(doc, doc.keys[k].tableId)
<1>1. S \in SUBSET KeyId /\ IsFiniteSet(KeyId)
  BY DesignTypes, SchemaDesignAssumption DEF SchemaDesignAssumption
<1>2. \A x \in S : ~Before(o, x, x) /\ ~Before(p, x, x)
  BY <1>1, IterationOrders
<1>3. \A x, y \in S : label(x) = label(y) /\ doc.keys[x].name = doc.keys[y].name => x = y
  BY DEF KeysTie
<1>4. \A x, y \in S : KeyFirst(doc, o, x, y) <=> KeyFirst(doc, p, x, y)
  BY <1>2, <1>3 DEF KeyFirst
<1>5. {q \in S \X S : KeyFirst(doc, o, q[1], q[2])}
        = {q \in S \X S : KeyFirst(doc, p, q[1], q[2])}
  BY <1>4
<1>6. SortedKeys(doc, o) = SortedKeys(doc, p)
  BY <1>5 DEF SortedKeys
<1> QED BY <1>6 DEF CompiledKeys

\* The sort of the references asks nothing of the order of the map.
LEMMA ReferencesDoNotTie ==
  \A o, p : CompiledReferences(doc, o) = CompiledReferences(doc, p)
<1> SUFFICES ASSUME NEW o, NEW p
             PROVE  CompiledReferences(doc, o) = CompiledReferences(doc, p)
  OBVIOUS
<1> DEFINE S == Objects(doc.references)
<1>1. \A x, y : ReferenceFirst(doc, o, x, y) <=> ReferenceFirst(doc, p, x, y)
  BY DEF ReferenceFirst
<1>2. {q \in S \X S : ReferenceFirst(doc, o, q[1], q[2])}
        = {q \in S \X S : ReferenceFirst(doc, p, q[1], q[2])}
  BY <1>1
<1>3. SortedReferences(doc, o) = SortedReferences(doc, p)
  BY <1>2 DEF SortedReferences
<1> QED BY <1>3 DEF CompiledReferences

\* Replicas that hold the same document agree on whether it is valid, on its
\* foreign keys and, if it is valid, on its tables and, keys that tie aside,
\* on its constraints: for every number of tables, keys and references, and
\* in whatever order each replica iterates them.
THEOREM DesignReplicasAgree ==
  DesignSpec => []ReplicasAgree
<1>1. ASSUME DesignTypeOK PROVE ReplicasAgree
  <2>1. ASSUME NEW o \in Orders(TableId), NEW p \in Orders(TableId)
        PROVE  /\ Valid(doc, o) = Valid(doc, p)
               /\ Valid(doc, o) =>
                    CompiledTables(doc, o) = CompiledTables(doc, p)
    <3>1. Valid(doc, o) <=> Valid(doc, p)
      BY <1>1, ValidInAnyOrder
    <3>2. Valid(doc, o) = Valid(doc, p)
      BY <3>1 DEF Valid
    <3>3. Valid(doc, o) =>
            CompiledTables(doc, o) = CompiledTables(doc, p)
      BY <1>1, ValidInAnyOrder, TablesDoNotTie
    <3> QED BY <3>2, <3>3
  <2>2. ~KeysTie(doc) =>
          \A o, p \in Orders(KeyId) :
             CompiledKeys(doc, o) = CompiledKeys(doc, p)
    BY <1>1, KeysDoNotTie
  <2> QED BY <2>1, <2>2, ReferencesDoNotTie DEF ReplicasAgree
<1> QED BY <1>1, DesignTypeCorrect, PTL

-----------------------------------------------------------------------------
\* What a valid document links to is there, and named.
LEMMA ValidLinks ==
  ASSUME NEW o, Valid(doc, o)
  PROVE  /\ \A t \in Present(doc.tables) : TableName(doc, t) # Blank
         /\ \A k \in Objects(doc.keys) : doc.keys[k].tableId \in Present(doc.tables)
         /\ \A r \in Objects(doc.references) :
               /\ doc.references[r].fromTableId \in Present(doc.tables)
               /\ doc.references[r].toTableId \in Present(doc.tables)
<1>1. /\ TableErrors(doc, o) = {} /\ KeyErrors(doc) = {}
      /\ ReferenceErrors(doc) = {}
  BY DEF Valid, Errors
<1>2. Present(doc.tables) \subseteq NamedTables(doc)
  BY <1>1 DEF TableErrors
<1>3. \A t \in NamedTables(doc) : TableName(doc, t) # Blank
  BY DEF NamedTables, TableName
<1>4. \A k \in Objects(doc.keys) : doc.keys[k].tableId \in Present(doc.tables)
  BY <1>1 DEF KeyErrors
<1>5. \A r \in Objects(doc.references) :
         /\ doc.references[r].fromTableId \in Present(doc.tables)
         /\ doc.references[r].toTableId \in Present(doc.tables)
  BY <1>1 DEF ReferenceErrors
<1> QED BY <1>2, <1>3, <1>4, <1>5

\* The statements of sequences put together are those of the sequences.
LEMMA ToSetOfThree ==
  ASSUME NEW T, NEW s \in Seq(T), NEW t \in Seq(T), NEW u \in Seq(T)
  PROVE  ToSet(s \o t \o u) \subseteq T
<1>1. s \o t \o u \in Seq(T)
  OBVIOUS
<1> QED BY <1>1 DEF ToSet

\* What compile says of an object whose table it does not find.
Skipped == {"skipped key", "skipped reference"}

\* compile skips no key and no reference of a valid document for a table it
\* does not find, and the names of the tables differ in more than case.
THEOREM DesignValidMeansCompiled ==
  DesignSpec => []ValidMeansCompiled
<1>1. ASSUME DesignTypeOK PROVE ValidMeansCompiled
  <2> SUFFICES ASSUME NEW ot \in Orders(TableId), NEW ok \in Orders(KeyId),
                      NEW or \in Orders(ReferenceId), Valid(doc, ot)
               PROVE  /\ \A s \in ToSet(Compile(doc, ot, ok, or)) :
                            s.kind \notin Skipped
                      /\ DistinctNames
    BY DEF ValidMeansCompiled, DistinctNames, Skipped
  <2> DEFINE A == CompiledTables(doc, ot)
             B == CompiledKeys(doc, ok)
             C == CompiledReferences(doc, or)
             T == {A[i] : i \in DOMAIN A} \cup {B[i] : i \in DOMAIN B}
                    \cup {C[i] : i \in DOMAIN C}
  <2>1. PICK l \in Nat : SortedTables(doc, ot) \in [1..l -> NamedTables(doc)]
    BY <1>1, CompiledFrom
  <2>2. PICK m \in Nat : SortedKeys(doc, ok) \in [1..m -> Constraining(doc)]
    BY <1>1, CompiledFrom
  <2>3. PICK n \in Nat :
          SortedReferences(doc, or) \in [1..n -> Objects(doc.references)]
    BY <1>1, CompiledFrom
  <2>4. A \in Seq(T)
    <3>1. A \in [1..l -> T]
      BY <2>1 DEF CompiledTables
    <3> HIDE DEF A, T
    <3> QED BY <3>1
  <2>5. B \in Seq(T)
    <3>1. B \in [1..m -> T]
      BY <2>2 DEF CompiledKeys
    <3> HIDE DEF B, T
    <3> QED BY <3>1
  <2>6. C \in Seq(T)
    <3>1. C \in [1..n -> T]
      BY <2>3 DEF CompiledReferences
    <3> HIDE DEF C, T
    <3> QED BY <3>1
  <2>7. \A i \in DOMAIN A : A[i].kind \notin Skipped
    BY <2>1 DEF CompiledTables, Skipped
  <2>8. \A i \in DOMAIN B : B[i].kind \notin Skipped
    <3>1. ASSUME NEW k \in Constraining(doc)
          PROVE  KeyStatement(doc, k).kind \notin Skipped
      <4>1. k \in Objects(doc.keys) /\ doc.keys[k].kind \in {"primary", "unique"}
        BY DEF Constraining, NamedKeys
      <4>2. TableName(doc, doc.keys[k].tableId) # Blank
        BY <4>1, ValidLinks
      <4> QED BY <4>1, <4>2 DEF KeyStatement, Skipped
    <3> QED BY <2>2, <3>1 DEF CompiledKeys
  <2>9. \A i \in DOMAIN C : C[i].kind \notin Skipped
    <3>1. ASSUME NEW r \in Objects(doc.references)
          PROVE  ReferenceStatement(doc, r).kind \notin Skipped
      <4>1. /\ TableName(doc, doc.references[r].fromTableId) # Blank
            /\ TableName(doc, doc.references[r].toTableId) # Blank
        BY ValidLinks
      <4> QED BY <4>1 DEF ReferenceStatement, Skipped
    <3> QED BY <2>3, <3>1 DEF CompiledReferences
  <2>10. \A s \in T : s.kind \notin Skipped
    BY <2>7, <2>8, <2>9
  <2>11. ToSet(Compile(doc, ot, ok, or)) \subseteq T
    <3>1. Compile(doc, ot, ok, or) = A \o B \o C
      BY DEF Compile
    <3> HIDE DEF A, B, C, T
    <3> QED BY <2>4, <2>5, <2>6, <3>1, ToSetOfThree
  <2>12. DistinctNames
    BY <1>1, ValidInAnyOrder
  <2> HIDE DEF T
  <2> QED BY <2>10, <2>11, <2>12
<1> QED BY <1>1, DesignTypeCorrect, PTL
=============================================================================
