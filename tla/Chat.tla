---------------------------------- MODULE Chat ----------------------------------
(***************************************************************************)
(* The chat of one tool instance.  A message is stored, its sender is      *)
(* looked up, and then it is sent to the sockets in the room at that       *)
(* moment; what was said before, a client lists page by page.  Calls       *)
(* overlap between any two database calls, also several of one client.     *)
(*                                                                         *)
(* A client is a socket together with its user.  What a socket is sent it  *)
(* gets in that order until it breaks; a client whose socket is gone       *)
(* starts anew.                                                            *)
(***************************************************************************)
EXTENDS Integers, Sequences, FiniteSets

CONSTANTS
    Client,       \* bound: the clients followed; others send messages too
    Message,      \* bound: messages
    Limit,        \* rows of a page
    MaxClock,     \* bound: the last millisecond
    MaxFaults     \* bound: database calls that fail

ASSUME ChatAssumption ==
    /\ Limit \in Nat \ {0}
    /\ MaxClock \in Nat \ {0} /\ MaxFaults \in Nat

VARIABLES
    clock,
    exists,       \* the instance
    allowed,      \* the clients canAccess lets in
    rows,         \* the rows of chat_messages
    post,         \* where the call that creates a message is
    createdAt,    \* its timestamp
    conn,         \* where handleConnection of a client is; "in": in the room
    got,          \* what the socket of a client has been sent, in order
    listing,      \* where chatMessages of a client is
    skip,         \* its offset
    listed,       \* what the pages have brought
    live,         \* history: the first page was read by a client in the room
    before,       \* history: the messages answered before a message was sent
    unsent,       \* history: messages stored whose sender could not be looked up
    faults        \* history: database calls that have failed

posting == <<clock, post, createdAt, before>>
clients == <<conn, got, listing, skip, listed, live>>
vars == <<exists, allowed, rows, posting, clients, unsent, faults>>

TypeOK ==
    /\ clock \in 1..MaxClock /\ exists \in BOOLEAN
    /\ allowed \subseteq Client /\ rows \subseteq Message
    /\ ~exists => rows = {}
    /\ post \in [Message -> {"none", "insert", "sender", "done"}]
    /\ createdAt \in [Message -> 0..MaxClock]
    /\ conn \in [Client -> {"out", "connecting", "in"}]
    /\ got \in [Client -> Seq(Message)]
    /\ \A c \in Client : conn[c] # "in" => got[c] = <<>>
    /\ listing \in [Client -> {"idle", "read", "done"}]
    /\ skip \in [Client -> Nat]
    /\ listed \in [Client -> SUBSET Message]
    /\ live \in [Client -> BOOLEAN]
    /\ before \in [Message -> SUBSET Message]
    /\ unsent \subseteq Message /\ faults \in 0..MaxFaults

Init ==
    /\ clock = 1 /\ exists = TRUE /\ rows = {}
    /\ allowed = Client
    /\ post = [m \in Message |-> "none"]
    /\ createdAt = [m \in Message |-> 0]
    /\ conn = [c \in Client |-> "out"]
    /\ got = [c \in Client |-> <<>>]
    /\ listing = [c \in Client |-> "idle"]
    /\ skip = [c \in Client |-> 0]
    /\ listed = [c \in Client |-> {}]
    /\ live = [c \in Client |-> FALSE]
    /\ before = [m \in Message |-> {}]
    /\ unsent = {} /\ faults = 0

\* Whether canAccess answers yes: one look here, two in ToolInstances.
CanAccess(c) == exists /\ c \in allowed

-----------------------------------------------------------------------------
(* ChatGateway: connecting.  The client's 'connect' event comes first, and  *)
(* nothing tells it when it is in the room.                                 *)

Connect(c) ==
    /\ conn[c] = "out"
    /\ conn' = [conn EXCEPT ![c] = "connecting"]
    /\ UNCHANGED <<exists, allowed, rows, posting, got, listing, skip, listed, live,
                   unsent, faults>>

\* verifyToken and canAccess have been awaited.
Join(c) ==
    /\ conn[c] = "connecting" /\ CanAccess(c)
    /\ conn' = [conn EXCEPT ![c] = "in"]
    /\ UNCHANGED <<exists, allowed, rows, posting, got, listing, skip, listed, live,
                   unsent, faults>>

\* The socket goes away, or the gateway disconnects it: no token, no access,
\* or a call that failed.
Disconnect(c) ==
    /\ conn[c] # "out"
    /\ conn' = [conn EXCEPT ![c] = "out"]
    /\ got' = [got EXCEPT ![c] = <<>>]
    /\ listing' = [listing EXCEPT ![c] = "idle"]
    /\ skip' = [skip EXCEPT ![c] = 0]
    /\ listed' = [listed EXCEPT ![c] = {}]
    /\ live' = [live EXCEPT ![c] = FALSE]
    /\ UNCHANGED <<exists, allowed, rows, posting, unsent, faults>>

-----------------------------------------------------------------------------
(* createMessage, called by the gateway (sendMessage) and the resolver      *)
(* (sendChatMessage).                                                       *)

\* Mutant: the emit is not awaited.
ReturnedEarly(m) == post[m] \in {"sender", "done"}

\* createMessage has returned.
Returned(m) == post[m] = "done"

\* The timestamp is taken before the insert.
CreateMessage(m) ==
    /\ post[m] = "none"
    /\ post' = [post EXCEPT ![m] = "insert"]
    /\ createdAt' = [createdAt EXCEPT ![m] = clock]
    /\ before' = [before EXCEPT ![m] = {n \in Message : Returned(n)}]
    /\ UNCHANGED <<clock, exists, allowed, rows, clients, unsent, faults>>

\* A socket that is not in the room yet is ignored without an answer.
HandleSendMessage(m) == (\E c \in Client : conn[c] = "in") /\ CreateMessage(m)

\* canAccess has let the sender in, who need not be one of Client: as long
\* as the instance is there its owner is let in.
SendChatMessage(m) == exists /\ CreateMessage(m)

\* Mutant: the insert does not ask for the instance.
InsertMessageAnyway(m) ==
    /\ post[m] = "insert"
    /\ rows' = rows \cup {m}
    /\ post' = [post EXCEPT ![m] = "sender"]
    /\ UNCHANGED <<clock, exists, allowed, createdAt, before, clients, unsent, faults>>

\* The insert throws once the instance is gone (foreign key).
InsertMessage(m) ==
    /\ post[m] = "insert"
    /\ rows' = IF exists THEN rows \cup {m} ELSE rows
    /\ post' = [post EXCEPT ![m] = IF exists THEN "sender" ELSE "done"]
    /\ UNCHANGED <<clock, exists, allowed, createdAt, before, clients, unsent, faults>>

\* The sender has been read: emitToInstance, and the call returns.
EmitToInstance(m) ==
    /\ post[m] = "sender"
    /\ got' = [c \in Client |-> IF conn[c] = "in" THEN Append(got[c], m) ELSE got[c]]
    /\ post' = [post EXCEPT ![m] = "done"]
    /\ UNCHANGED <<clock, exists, allowed, rows, createdAt, before, conn, listing,
                   skip, listed, live, unsent, faults>>

\* A call throws, and with it createMessage; a row that is there stays.
CreateFails(m) ==
    /\ post[m] \in {"insert", "sender"}
    /\ faults < MaxFaults
    /\ faults' = faults + 1
    /\ unsent' = IF post[m] = "sender" THEN unsent \cup {m} ELSE unsent
    /\ post' = [post EXCEPT ![m] = "done"]
    /\ UNCHANGED <<clock, exists, allowed, rows, createdAt, before, clients>>

-----------------------------------------------------------------------------
(* chatMessages.  The client lists page after page until one is not full.   *)

\* n rows of S, or all of them.
AtMost(n, S) == IF n < Cardinality(S) THEN n ELSE Cardinality(S)
NoOlder(S, T) == \A m \in S, k \in T : createdAt[m] >= createdAt[k]

\* Mutant: rows are counted from one.
PagesFromOne(n, size) ==
    {page \in SUBSET rows : \E past \in SUBSET (rows \ page) :
        /\ Cardinality(past) = AtMost(n + 1, rows)
        /\ Cardinality(page) = AtMost(size, rows \ past)
        /\ NoOlder(past, page) /\ NoOlder(past \cup page, rows \ (past \cup page))}

\* The rows LIMIT size OFFSET n ORDER BY createdAt DESC may return: rows of
\* one millisecond are in no order, and not in the same one the next time.
Pages(n, size) ==
    {page \in SUBSET rows : \E past \in SUBSET (rows \ page) :
        /\ Cardinality(past) = AtMost(n, rows)
        /\ Cardinality(page) = AtMost(size, rows \ past)
        /\ NoOlder(past, page) /\ NoOlder(past \cup page, rows \ (past \cup page))}

\* A refusal, or a call that fails, is an error to the client, who may ask
\* for the page again.
ChatMessages(c) ==
    /\ listing[c] = "idle" /\ CanAccess(c)
    /\ listing' = [listing EXCEPT ![c] = "read"]
    /\ UNCHANGED <<exists, allowed, rows, posting, conn, got, skip, listed, live, unsent, faults>>

ListMessages(c) ==
    /\ listing[c] = "read"
    /\ \E page \in Pages(skip[c], Limit) :
         /\ listed' = [listed EXCEPT ![c] = @ \cup page]
         /\ listing' = [listing EXCEPT ![c] = IF Cardinality(page) < Limit THEN "done" ELSE "idle"]
    /\ skip' = [skip EXCEPT ![c] = @ + Limit]
    /\ live' = [live EXCEPT ![c] = IF skip[c] = 0 THEN conn[c] = "in" ELSE @]
    /\ UNCHANGED <<exists, allowed, rows, posting, conn, got, unsent, faults>>

-----------------------------------------------------------------------------
Tick ==
    /\ clock < MaxClock
    /\ clock' = clock + 1
    /\ UNCHANGED <<exists, allowed, rows, post, createdAt, before, clients, unsent, faults>>

\* The clients let in change: members, owner, archive state.
SetAllowed(S) ==
    /\ exists
    /\ allowed' = S
    /\ UNCHANGED <<exists, rows, posting, clients, unsent, faults>>

\* ToolInstanceService.delete: the messages cascade.
DeleteInstance ==
    /\ exists
    /\ exists' = FALSE /\ rows' = {}
    /\ UNCHANGED <<allowed, posting, clients, unsent, faults>>

Next ==
    \/ Tick \/ DeleteInstance
    \/ \E S \in SUBSET Client : SetAllowed(S)
    \/ \E c \in Client :
           \/ Connect(c) \/ Join(c) \/ Disconnect(c)
           \/ ChatMessages(c) \/ ListMessages(c)
    \/ \E m \in Message :
           \/ HandleSendMessage(m) \/ SendChatMessage(m)
           \/ InsertMessage(m) \/ EmitToInstance(m) \/ CreateFails(m)

Spec == Init /\ [][Next]_vars

-----------------------------------------------------------------------------
Received(c) == {got[c][i] : i \in DOMAIN got[c]}

\* A client who was in the room when the first page was read, and has read to
\* the last one, has every message there is, in the pages or from the socket,
\* or is about to be sent it: however messages come in between and shift the
\* pages.  Except what was stored and could not be sent, and messages of one
\* millisecond, which two pages may both have passed over.
NothingMissed ==
    \A c \in Client : conn[c] = "in" /\ live[c] /\ listing[c] = "done" =>
        \A m \in rows \ (listed[c] \cup Received(c) \cup unsent) :
            \/ post[m] = "sender"
            \/ \E n \in rows \ {m} : createdAt[n] = createdAt[m]

\* Messages sent at once may be received in either order, whatever their
\* timestamps; but a message that was answered before another was sent is
\* never received after it.
AnsweredFirst ==
    \A c \in Client : \A i, j \in DOMAIN got[c] : i < j => got[c][j] \notin before[got[c][i]]
=============================================================================
