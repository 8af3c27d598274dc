------------------------------ MODULE Chat_proofs ------------------------------
(***************************************************************************)
(* Theorems of Chat, for every set of clients and messages and every size  *)
(* of a page: what was answered first is received first, and who pages     *)
(* through the messages while in the room has every one of them.           *)
(***************************************************************************)
EXTENDS Chat, FiniteSetTheorems, TLAPS

-----------------------------------------------------------------------------
(* The inductive invariant.                                                 *)

\* A row is there once it is stored; a socket gets what was answered, and the
\* messages answered before one was created have been answered.
Stored ==
    /\ IsFiniteSet(rows)
    /\ \A m \in rows : post[m] \in {"sender", "done"}
    /\ \A c \in Client : \A i \in DOMAIN got[c] : post[got[c][i]] = "done"
    /\ \A m \in Message : \A n \in before[m] : post[n] = "done"

\* Whoever was in the room for the first page still is.
Lives == \A c \in Client : live[c] => conn[c] = "in"

Newer(m) == {n \in rows : createdAt[n] > createdAt[m]}

\* The client has the message, or need not have it yet, or is excused.
Settled(c, m) ==
    \/ m \in listed[c] \/ m \in Received(c) \/ m \in unsent
    \/ post[m] = "sender"
    \/ \E n \in rows \ {m} : createdAt[n] = createdAt[m]

\* What a client still misses is in the pages it has not read: so many rows
\* are newer.
Ahead ==
    \A c \in Client : live[c] =>
        \A m \in rows : \/ Settled(c, m)
                        \/ listing[c] # "done" /\ Cardinality(Newer(m)) >= skip[c]

IInv == TypeOK /\ Stored /\ Lives /\ AnsweredFirst /\ Ahead

-----------------------------------------------------------------------------
(* The pages.                                                               *)

\* What a page may bring: a row that is newer than no row of the page and
\* those passed, and is not brought, has them all before it.
LEMMA PageBrings ==
    ASSUME IsFiniteSet(rows), \A k \in rows : createdAt[k] \in Nat,
           NEW n \in Nat, NEW size \in Nat, NEW page \in Pages(n, size), NEW m \in rows \ page,
           \A k \in rows \ {m} : createdAt[k] # createdAt[m],
           Cardinality(Newer(m)) >= n
    PROVE  Cardinality(page) = size /\ Cardinality(Newer(m)) >= n + size
<1>1. PICK past \in SUBSET (rows \ page) :
        /\ Cardinality(past) = AtMost(n, rows)
        /\ Cardinality(page) = AtMost(size, rows \ past)
        /\ NoOlder(past, page) /\ NoOlder(past \cup page, rows \ (past \cup page))
  BY DEF Pages
<1>2. page \subseteq rows /\ past \subseteq rows /\ past \cap page = {}
  BY DEF Pages
<1>3. /\ IsFiniteSet(past) /\ IsFiniteSet(page) /\ IsFiniteSet(Newer(m))
      /\ IsFiniteSet(rows \ past) /\ IsFiniteSet(past \cup page)
  <2>1. Newer(m) \subseteq rows
    BY DEF Newer
  <2> QED
    BY <1>2, <2>1, FS_Subset
<1>4. /\ Cardinality(past) \in Nat /\ Cardinality(page) \in Nat
      /\ Cardinality(Newer(m)) \in Nat /\ Cardinality(rows) \in Nat
      /\ Cardinality(rows \ past) \in Nat /\ Cardinality(past \cup page) \in Nat
  BY <1>3, FS_CardinalityType
<1>5. Cardinality(past) <= n
  BY <1>1, <1>4 DEF AtMost
<1>6. m \notin past
  <2> SUFFICES ASSUME m \in past PROVE FALSE
    OBVIOUS
  <2>1. Newer(m) \subseteq past \ {m}
    <3> SUFFICES ASSUME NEW k \in rows, createdAt[k] > createdAt[m]
                 PROVE  k \in past \ {m}
      BY DEF Newer
    <3>1. createdAt[k] \in Nat /\ createdAt[m] \in Nat
      OBVIOUS
    <3>2. k \notin page /\ k \notin rows \ (past \cup page)
      BY <1>1, <3>1 DEF NoOlder
    <3> QED
      BY <3>1, <3>2
  <2>2. IsFiniteSet(past \ {m}) /\ Cardinality(past \ {m}) = Cardinality(past) - 1
    BY <1>3, FS_RemoveElement
  <2>3. Cardinality(Newer(m)) <= Cardinality(past \ {m})
    BY <2>1, <2>2, FS_Subset
  <2> QED
    BY <1>4, <1>5, <2>2, <2>3
<1>7. past \cup page \subseteq Newer(m)
  <2> SUFFICES ASSUME NEW k \in past \cup page
               PROVE  createdAt[k] > createdAt[m]
    BY <1>2 DEF Newer
  <2>1. k \in rows \ {m} /\ m \in rows \ (past \cup page)
    BY <1>2, <1>6
  <2>2. createdAt[k] \in Nat /\ createdAt[m] \in Nat /\ createdAt[k] # createdAt[m]
    BY <2>1
  <2>3. createdAt[k] >= createdAt[m]
    BY <1>1, <2>1 DEF NoOlder
  <2> QED
    BY <2>2, <2>3
<1>8. Cardinality(past) + Cardinality(page) <= Cardinality(Newer(m))
  <2>1. Cardinality(past \cup page) <= Cardinality(Newer(m))
    BY <1>3, <1>7, FS_Subset
  <2>2. Cardinality(past \cap page) = 0
    BY <1>2, FS_EmptySet
  <2>3. Cardinality(past \cup page) = Cardinality(past) + Cardinality(page) - Cardinality(past \cap page)
    BY <1>3, FS_Union
  <2> QED
    BY <1>4, <2>1, <2>2, <2>3
<1>9. Cardinality(past) = n
  <2>1. Cardinality(past) # Cardinality(rows)
    <3>1. past # rows
      BY <1>6
    <3> QED
      BY <1>2, <3>1, FS_Subset
  <2> QED
    BY <1>1, <2>1 DEF AtMost
<1>10. Cardinality(page) = size
  <2>1. Cardinality(page) # Cardinality(rows \ past)
    <3>1. page # rows \ past /\ page \subseteq rows \ past
      BY <1>2, <1>6
    <3> QED
      BY <1>3, <3>1, FS_Subset
  <2> QED
    BY <1>1, <2>1 DEF AtMost
<1> QED
  BY <1>4, <1>8, <1>9, <1>10

-----------------------------------------------------------------------------
(* What a step keeps.                                                       *)

\* A message is sent to a socket last.
LEMMA Emitting ==
    ASSUME got \in [Client -> Seq(Message)], NEW m \in Message, EmitToInstance(m), NEW c \in Client
    PROVE  /\ got'[c] \in Seq(Message)
           /\ conn[c] = "in" => got'[c] = Append(got[c], m)
           /\ conn[c] # "in" => got'[c] = got[c]
           /\ \A i \in DOMAIN got'[c] :
                \/ i \in DOMAIN got[c] /\ got'[c][i] = got[c][i]
                \/ got'[c][i] = m /\ \A j \in DOMAIN got'[c] : j <= i
           /\ Received(c) \subseteq Received(c)'
           /\ conn[c] = "in" => m \in Received(c)'
<1>1. got'[c] = IF conn[c] = "in" THEN Append(got[c], m) ELSE got[c]
  BY DEF EmitToInstance
<1>2. got[c] \in Seq(Message)
  OBVIOUS
<1>3. CASE conn[c] = "in"
  <2>1. got'[c] = Append(got[c], m)
    BY <1>1, <1>3
  <2>2. /\ got'[c] \in Seq(Message) /\ Len(got'[c]) = Len(got[c]) + 1 /\ Len(got[c]) \in Nat
        /\ DOMAIN got[c] = 1..Len(got[c]) /\ DOMAIN got'[c] = 1..Len(got'[c])
        /\ got'[c][Len(got[c]) + 1] = m
        /\ \A i \in 1..Len(got[c]) : got'[c][i] = got[c][i]
    BY <1>2, <2>1
  <2>3. \A i \in DOMAIN got'[c] :
                \/ i \in DOMAIN got[c] /\ got'[c][i] = got[c][i]
                \/ got'[c][i] = m /\ \A j \in DOMAIN got'[c] : j <= i
    BY <2>2
  <2>4. Received(c) \subseteq Received(c)'
    BY <2>2 DEF Received
  <2>5. m \in Received(c)'
    BY <2>2 DEF Received
  <2> QED
    BY <1>3, <2>1, <2>2, <2>3, <2>4, <2>5
<1>4. CASE conn[c] # "in"
  BY <1>1, <1>2, <1>4 DEF Received
<1> QED
  BY <1>3, <1>4

LEMMA TypeStays == TypeOK /\ [Next]_vars => TypeOK'
<1> SUFFICES ASSUME TypeOK, [Next]_vars
             PROVE  TypeOK'
  OBVIOUS
<1> USE DEF TypeOK
<1>1. Limit \in Nat /\ MaxClock \in Nat \ {0} /\ MaxFaults \in Nat
  BY ChatAssumption DEF ChatAssumption
<1>2. CASE UNCHANGED vars
  BY <1>2 DEF vars, posting, clients
<1>3. CASE Tick \/ DeleteInstance \/ \E S \in SUBSET Client : SetAllowed(S)
  <2>1. CASE Tick
    BY <1>1, <2>1 DEF Tick, clients
  <2>2. CASE DeleteInstance
    BY <1>1, <2>2 DEF DeleteInstance, posting, clients
  <2>3. ASSUME NEW S \in SUBSET Client, SetAllowed(S)
        PROVE  TypeOK'
    BY <1>1, <2>3 DEF SetAllowed, posting, clients
  <2> QED
    BY <1>3, <2>1, <2>2, <2>3
<1>4. ASSUME NEW c \in Client, Connect(c) \/ Join(c) \/ ChatMessages(c)
      PROVE  TypeOK'
  BY <1>4 DEF Connect, Join, ChatMessages, posting
<1>5. ASSUME NEW c \in Client, Disconnect(c)
      PROVE  TypeOK'
  <2>1. got' \in [Client -> Seq(Message)] /\ got'[c] = <<>>
    BY <1>5 DEF Disconnect
  <2>2. \A d \in Client : conn'[d] # "in" => got'[d] = <<>>
    BY <1>5, <2>1 DEF Disconnect
  <2>3. /\ conn' \in [Client -> {"out", "connecting", "in"}]
        /\ listing' \in [Client -> {"idle", "read", "done"}]
        /\ skip' \in [Client -> Nat] /\ listed' \in [Client -> SUBSET Message]
        /\ live' \in [Client -> BOOLEAN]
    BY <1>5 DEF Disconnect
  <2> QED
    BY <1>5, <2>1, <2>2, <2>3 DEF Disconnect, posting
<1>6. ASSUME NEW c \in Client, ListMessages(c)
      PROVE  TypeOK'
  <2>1. PICK page \in Pages(skip[c], Limit) :
          /\ listed' = [listed EXCEPT ![c] = listed[c] \cup page]
          /\ listing' = [listing EXCEPT ![c] = IF Cardinality(page) < Limit THEN "done" ELSE "idle"]
    BY <1>6 DEF ListMessages
  <2>2. page \subseteq Message
    BY DEF Pages
  <2>3. listed' \in [Client -> SUBSET Message] /\ listing' \in [Client -> {"idle", "read", "done"}]
    BY <2>1, <2>2
  <2>4. skip' \in [Client -> Nat]
    BY <1>1, <1>6 DEF ListMessages
  <2>5. live' \in [Client -> BOOLEAN]
    BY <1>6 DEF ListMessages
  <2> QED
    BY <1>6, <2>3, <2>4, <2>5 DEF ListMessages, posting
<1>7. ASSUME NEW m \in Message, HandleSendMessage(m) \/ SendChatMessage(m)
      PROVE  TypeOK'
  <2>1. CreateMessage(m)
    BY <1>7 DEF HandleSendMessage, SendChatMessage
  <2> QED
    BY <2>1, <1>1 DEF CreateMessage, clients
<1>8. ASSUME NEW m \in Message, InsertMessage(m) \/ CreateFails(m)
      PROVE  TypeOK'
  <2>1. CASE InsertMessage(m)
    <3>1. post' \in [Message -> {"none", "insert", "sender", "done"}]
      BY <2>1 DEF InsertMessage
    <3>2. rows' \subseteq Message /\ (~exists => rows' = {})
      BY <2>1 DEF InsertMessage
    <3> QED
      BY <2>1, <3>1, <3>2 DEF InsertMessage, clients
  <2>2. CASE CreateFails(m)
    <3>1. post' \in [Message -> {"none", "insert", "sender", "done"}]
      BY <2>2 DEF CreateFails
    <3>2. unsent' \subseteq Message /\ faults' \in 0..MaxFaults
      BY <1>1, <2>2 DEF CreateFails
    <3> QED
      BY <2>2, <3>1, <3>2 DEF CreateFails, clients
  <2> QED
    BY <1>8, <2>1, <2>2
<1>9. ASSUME NEW m \in Message, EmitToInstance(m)
      PROVE  TypeOK'
  <2>1. \A c \in Client : got'[c] \in Seq(Message) /\ (conn[c] # "in" => got'[c] = got[c])
    BY <1>9, Emitting
  <2>2. got' \in [Client -> Seq(Message)]
    BY <1>9, <2>1 DEF EmitToInstance
  <2>3. \A c \in Client : conn'[c] # "in" => got'[c] = <<>>
    BY <1>9, <2>1 DEF EmitToInstance
  <2> QED
    BY <1>9, <2>2, <2>3 DEF EmitToInstance
<1> QED
  BY <1>2, <1>3, <1>4, <1>5, <1>6, <1>7, <1>8, <1>9 DEF Next

LEMMA StoredStays == TypeOK /\ Stored /\ [Next]_vars => Stored'
<1> SUFFICES ASSUME TypeOK, Stored, [Next]_vars
             PROVE  Stored'
  OBVIOUS
<1>1. CASE UNCHANGED vars
  BY <1>1 DEF Stored, vars, posting, clients
<1>2. CASE Tick \/ DeleteInstance \/ \E S \in SUBSET Client : SetAllowed(S)
  <2>1. rows' = rows \/ rows' = {}
    BY <1>2 DEF Tick, DeleteInstance, SetAllowed
  <2>2. IsFiniteSet(rows') /\ rows' \subseteq rows
    BY <2>1, FS_EmptySet DEF Stored
  <2> QED
    BY <1>2, <2>2 DEF Stored, Tick, DeleteInstance, SetAllowed, posting, clients
<1>3. ASSUME NEW c \in Client, Connect(c) \/ Join(c) \/ ChatMessages(c) \/ ListMessages(c)
      PROVE  Stored'
  BY <1>3 DEF Stored, Connect, Join, ChatMessages, ListMessages, posting
<1>4. ASSUME NEW c \in Client, Disconnect(c)
      PROVE  Stored'
  <2>1. /\ UNCHANGED <<rows, post, before>>
        /\ got' = [got EXCEPT ![c] = <<>>] /\ got \in [Client -> Seq(Message)]
    BY <1>4 DEF Disconnect, posting, TypeOK
  <2>2. \A d \in Client : \A i \in DOMAIN got'[d] : got'[d] = got[d]
    BY <2>1
  <2> QED
    BY <2>1, <2>2 DEF Stored
<1>5. ASSUME NEW m \in Message, HandleSendMessage(m) \/ SendChatMessage(m)
      PROVE  Stored'
  <2>1. CreateMessage(m)
    BY <1>5 DEF HandleSendMessage, SendChatMessage
  <2>2. /\ post[m] = "none" /\ post' = [post EXCEPT ![m] = "insert"]
        /\ before' = [before EXCEPT ![m] = {n \in Message : Returned(n)}]
        /\ rows' = rows /\ got' = got
        /\ post \in [Message -> {"none", "insert", "sender", "done"}]
        /\ before \in [Message -> SUBSET Message]
        /\ rows \subseteq Message
        /\ \A c \in Client : \A i \in DOMAIN got[c] : got[c][i] \in Message
    BY <2>1 DEF CreateMessage, clients, TypeOK
  <2>3. \A n \in Message : post[n] = "done" => post'[n] = "done"
    BY <2>2
  <2>4. \A k \in rows : post'[k] \in {"sender", "done"}
    BY <2>2 DEF Stored
  <2>5. \A k \in Message : \A n \in before'[k] : post'[n] = "done"
    BY <2>2, <2>3 DEF Stored, Returned
  <2> QED
    BY <2>2, <2>3, <2>4, <2>5 DEF Stored
<1>6. ASSUME NEW m \in Message, InsertMessage(m)
      PROVE  Stored'
  <2>1. /\ post[m] = "insert" /\ UNCHANGED <<before, got>>
        /\ post \in [Message -> {"none", "insert", "sender", "done"}]
        /\ rows \subseteq Message /\ before \in [Message -> SUBSET Message]
        /\ \A c \in Client : \A i \in DOMAIN got[c] : got[c][i] \in Message
        /\ post' = [post EXCEPT ![m] = IF exists THEN "sender" ELSE "done"]
        /\ rows' = IF exists THEN rows \cup {m} ELSE rows
    BY <1>6 DEF InsertMessage, clients, TypeOK
  <2>2. IsFiniteSet(rows')
    BY <2>1, FS_AddElement DEF Stored
  <2>3. \A n \in Message : post[n] = "done" => post'[n] = "done"
    BY <2>1
  <2>4. \A k \in rows' : post'[k] \in {"sender", "done"}
    BY <2>1 DEF Stored
  <2> QED
    BY <2>1, <2>2, <2>3, <2>4 DEF Stored
<1>7. ASSUME NEW m \in Message, EmitToInstance(m) \/ CreateFails(m)
      PROVE  Stored'
  <2>1. /\ UNCHANGED <<before, rows>> /\ post' = [post EXCEPT ![m] = "done"]
        /\ post \in [Message -> {"none", "insert", "sender", "done"}]
        /\ rows \subseteq Message /\ before \in [Message -> SUBSET Message]
        /\ \A c \in Client : \A i \in DOMAIN got[c] : got[c][i] \in Message
    BY <1>7 DEF EmitToInstance, CreateFails, clients, TypeOK
  <2>2. \A n \in Message : post[n] = "done" => post'[n] = "done"
    BY <2>1
  <2>3. \A k \in rows : post'[k] \in {"sender", "done"}
    BY <2>1 DEF Stored
  <2>4. post'[m] = "done"
    BY <2>1
  <2>5. \A c \in Client : \A i \in DOMAIN got'[c] : post'[got'[c][i]] = "done"
    <3>1. CASE EmitToInstance(m)
      <4>1. \A c \in Client : \A i \in DOMAIN got'[c] :
                \/ i \in DOMAIN got[c] /\ got'[c][i] = got[c][i]
                \/ got'[c][i] = m
        BY <3>1, Emitting DEF TypeOK
      <4> QED
        BY <2>1, <2>2, <2>4, <4>1 DEF Stored
    <3>2. CASE CreateFails(m)
      BY <2>1, <2>2, <3>2 DEF Stored, CreateFails, clients
    <3> QED
      BY <1>7, <3>1, <3>2
  <2> QED
    BY <2>1, <2>2, <2>3, <2>5 DEF Stored
<1> QED
  BY <1>1, <1>2, <1>3, <1>4, <1>5, <1>6, <1>7 DEF Next

LEMMA LivesStays == TypeOK /\ Lives /\ [Next]_vars => Lives'
<1> SUFFICES ASSUME TypeOK, Lives, [Next]_vars, NEW d \in Client, live'[d]
             PROVE  conn'[d] = "in"
  BY DEF Lives
<1>1. CASE UNCHANGED vars
  BY <1>1 DEF Lives, vars, clients
<1>2. CASE Tick \/ DeleteInstance \/ \E S \in SUBSET Client : SetAllowed(S)
  BY <1>2 DEF Lives, Tick, DeleteInstance, SetAllowed, clients
<1>3. ASSUME NEW c \in Client, Connect(c) \/ Join(c) \/ ChatMessages(c)
      PROVE  conn'[d] = "in"
  BY <1>3 DEF Lives, Connect, Join, ChatMessages, TypeOK
<1>4. ASSUME NEW c \in Client, Disconnect(c)
      PROVE  conn'[d] = "in"
  BY <1>4 DEF Lives, Disconnect, TypeOK
<1>5. ASSUME NEW c \in Client, ListMessages(c)
      PROVE  conn'[d] = "in"
  BY <1>5 DEF Lives, ListMessages, TypeOK
<1>6. ASSUME NEW m \in Message, HandleSendMessage(m) \/ SendChatMessage(m)
      PROVE  conn'[d] = "in"
  BY <1>6 DEF Lives, HandleSendMessage, SendChatMessage, CreateMessage, clients
<1>7. ASSUME NEW m \in Message, InsertMessage(m) \/ EmitToInstance(m) \/ CreateFails(m)
      PROVE  conn'[d] = "in"
  BY <1>7 DEF Lives, InsertMessage, EmitToInstance, CreateFails, clients
<1> QED
  BY <1>1, <1>2, <1>3, <1>4, <1>5, <1>6, <1>7 DEF Next

\* What was answered before a message was created is not sent after it.
LEMMA AnsweredFirstStays == TypeOK /\ Stored /\ AnsweredFirst /\ [Next]_vars => AnsweredFirst'
<1> SUFFICES ASSUME TypeOK, Stored, AnsweredFirst, [Next]_vars,
                    NEW c \in Client, NEW i \in DOMAIN got'[c], NEW j \in DOMAIN got'[c], i < j
             PROVE  got'[c][j] \notin before'[got'[c][i]]
  BY DEF AnsweredFirst
<1>1. ASSUME got'[c] = got[c], before' = before
      PROVE  got'[c][j] \notin before'[got'[c][i]]
  BY <1>1 DEF AnsweredFirst
<1>2. CASE UNCHANGED vars
  BY <1>1, <1>2 DEF vars, clients, posting
<1>3. CASE Tick \/ DeleteInstance \/ \E S \in SUBSET Client : SetAllowed(S)
  BY <1>1, <1>3 DEF Tick, DeleteInstance, SetAllowed, clients, posting
<1>4. ASSUME NEW d \in Client, Connect(d) \/ Join(d) \/ ChatMessages(d) \/ ListMessages(d)
      PROVE  got'[c][j] \notin before'[got'[c][i]]
  BY <1>1, <1>4 DEF Connect, Join, ChatMessages, ListMessages, posting
<1>5. ASSUME NEW d \in Client, Disconnect(d)
      PROVE  got'[c][j] \notin before'[got'[c][i]]
  <2>1. /\ got' = [got EXCEPT ![d] = <<>>] /\ got \in [Client -> Seq(Message)]
        /\ before' = before
    BY <1>5 DEF Disconnect, posting, TypeOK
  <2>2. c # d
    BY <2>1
  <2> QED
    BY <1>1, <2>1, <2>2
<1>6. ASSUME NEW m \in Message, HandleSendMessage(m) \/ SendChatMessage(m)
      PROVE  got'[c][j] \notin before'[got'[c][i]]
  <2>1. /\ post[m] = "none" /\ got' = got
        /\ \A n \in Message \ {m} : before'[n] = before[n]
    BY <1>6 DEF HandleSendMessage, SendChatMessage, CreateMessage, clients, TypeOK
  <2>2. got[c][i] \in Message /\ got[c][i] # m
    BY <2>1 DEF Stored, TypeOK
  <2> QED
    BY <2>1, <2>2 DEF AnsweredFirst
<1>7. ASSUME NEW m \in Message, InsertMessage(m) \/ CreateFails(m)
      PROVE  got'[c][j] \notin before'[got'[c][i]]
  BY <1>1, <1>7 DEF InsertMessage, CreateFails, clients
<1>8. ASSUME NEW m \in Message, EmitToInstance(m)
      PROVE  got'[c][j] \notin before'[got'[c][i]]
  <2>1. /\ post[m] = "sender" /\ before' = before
    BY <1>8 DEF EmitToInstance
  <2>2. \A k \in DOMAIN got'[c] :
          \/ k \in DOMAIN got[c] /\ got'[c][k] = got[c][k]
          \/ got'[c][k] = m /\ \A l \in DOMAIN got'[c] : l <= k
    BY <1>8, Emitting DEF TypeOK
  <2>3. got'[c] \in Seq(Message)
    BY <1>8, Emitting DEF TypeOK
  <2>4. i \in Int /\ j \in Int
    BY <2>3
  <2>5. i \in DOMAIN got[c] /\ got'[c][i] = got[c][i]
    BY <2>2, <2>4
  <2>6. CASE j \in DOMAIN got[c] /\ got'[c][j] = got[c][j]
    BY <2>1, <2>5, <2>6 DEF AnsweredFirst
  <2>7. CASE got'[c][j] = m
    <3>1. got[c][i] \in Message
      BY <2>5 DEF TypeOK
    <3> QED
      BY <2>1, <2>5, <2>7, <3>1 DEF Stored
  <2> QED
    BY <2>2, <2>6, <2>7
<1> QED
  BY <1>2, <1>3, <1>4, <1>5, <1>6, <1>7, <1>8 DEF Next

\* What a client has or is excused from stays so, and rows that come in put
\* the others further back, unless pages are read.
LEMMA AheadStays ==
    ASSUME TypeOK, Ahead, IsFiniteSet(rows'), rows \subseteq rows',
           \A m \in rows' \ rows : post'[m] = "sender",
           \A m \in rows : createdAt'[m] = createdAt[m],
           unsent \subseteq unsent',
           NEW c \in Client,
           live'[c] =>
             /\ live[c] /\ listed'[c] = listed[c] /\ skip'[c] = skip[c]
             /\ listing'[c] = "done" => listing[c] = "done"
             /\ Received(c) \subseteq Received(c)'
             /\ \A m \in rows : post[m] = "sender" =>
                  post'[m] = "sender" \/ m \in unsent' \/ m \in Received(c)'
    PROVE  live'[c] => \A m \in rows' :
             Settled(c, m)' \/ (listing'[c] # "done" /\ Cardinality(Newer(m)') >= skip'[c])
<1> SUFFICES ASSUME live'[c], NEW m \in rows'
             PROVE  Settled(c, m)' \/ (listing'[c] # "done" /\ Cardinality(Newer(m)') >= skip'[c])
  OBVIOUS
<1>1. CASE m \notin rows
  BY <1>1 DEF Settled
<1>2. CASE m \in rows /\ Settled(c, m)
  <2>1. ASSUME NEW n \in rows \ {m}, createdAt[n] = createdAt[m]
        PROVE  n \in rows' \ {m} /\ createdAt'[n] = createdAt'[m]
    BY <1>2, <2>1
  <2> QED
    BY <1>2, <2>1 DEF Settled
<1>3. CASE m \in rows /\ listing[c] # "done" /\ Cardinality(Newer(m)) >= skip[c]
  <2>1. Newer(m) \subseteq Newer(m)' /\ Newer(m)' \subseteq rows'
    BY <1>3 DEF Newer
  <2>2. IsFiniteSet(Newer(m)')
    BY <2>1, FS_Subset
  <2>3. Cardinality(Newer(m)) <= Cardinality(Newer(m)') /\ IsFiniteSet(Newer(m))
    BY <2>1, <2>2, FS_Subset
  <2>4. Cardinality(Newer(m)) \in Nat /\ Cardinality(Newer(m)') \in Nat /\ skip[c] \in Nat
    BY <2>2, <2>3, FS_CardinalityType DEF TypeOK
  <2> QED
    BY <1>3, <2>3, <2>4
<1> QED
  BY <1>1, <1>2, <1>3 DEF Ahead

\* A page brings what a client misses, or leaves it ahead.
LEMMA AheadAfterPage ==
    ASSUME TypeOK, Stored, Ahead, NEW d \in Client, ListMessages(d)
    PROVE  Ahead'
<1>1. PICK page \in Pages(skip[d], Limit) :
        /\ listed' = [listed EXCEPT ![d] = listed[d] \cup page]
        /\ listing' = [listing EXCEPT ![d] = IF Cardinality(page) < Limit THEN "done" ELSE "idle"]
  BY DEF ListMessages
<1>2. /\ UNCHANGED <<rows, unsent, got, conn, createdAt, post>> /\ listing[d] = "read"
      /\ skip' = [skip EXCEPT ![d] = skip[d] + Limit]
      /\ live' = [live EXCEPT ![d] = IF skip[d] = 0 THEN conn[d] = "in" ELSE live[d]]
  BY DEF ListMessages, posting
<1>3. /\ skip \in [Client -> Nat] /\ listed \in [Client -> SUBSET Message]
      /\ live \in [Client -> BOOLEAN] /\ listing \in [Client -> {"idle", "read", "done"}]
      /\ Limit \in Nat /\ IsFiniteSet(rows) /\ \A k \in rows : createdAt[k] \in Nat
  BY ChatAssumption DEF TypeOK, Stored, ChatAssumption
<1>4. ASSUME NEW c \in Client \ {d}
      PROVE  live'[c] => \A m \in rows' :
             Settled(c, m)' \/ (listing'[c] # "done" /\ Cardinality(Newer(m)') >= skip'[c])
  <2>1. /\ listed'[c] = listed[c] /\ listing'[c] = listing[c]
        /\ skip'[c] = skip[c] /\ live'[c] = live[c]
    BY <1>1, <1>2, <1>3
  <2>2. Received(c)' = Received(c)
    BY <1>2 DEF Received
  <2> QED
    BY <1>2, <1>3, <2>1, <2>2, AheadStays
<1>5. ASSUME live'[d], NEW m \in rows, ~Settled(d, m)'
      PROVE  listing'[d] # "done" /\ Cardinality(Newer(m)') >= skip'[d]
  <2>1. /\ listed'[d] = listed[d] \cup page /\ skip'[d] = skip[d] + Limit /\ skip[d] \in Nat
        /\ listing'[d] = IF Cardinality(page) < Limit THEN "done" ELSE "idle"
    BY <1>1, <1>2, <1>3
  <2>2. ~Settled(d, m) /\ m \notin page
    BY <1>2, <1>5, <2>1 DEF Settled, Received
  <2>3. \A k \in rows \ {m} : createdAt[k] # createdAt[m]
    BY <2>2 DEF Settled
  <2>4. IsFiniteSet(Newer(m)) /\ Cardinality(Newer(m)) \in Nat
    <3>1. Newer(m) \subseteq rows
      BY DEF Newer
    <3>2. IsFiniteSet(Newer(m))
      BY <1>3, <3>1, FS_Subset
    <3> QED
      BY <3>2, FS_CardinalityType
  <2>5. Cardinality(Newer(m)) >= skip[d]
    <3>1. CASE skip[d] = 0
      BY <2>4, <3>1
    <3>2. CASE skip[d] # 0
      <4>1. live[d]
        BY <1>2, <1>3, <1>5, <3>2
      <4> QED
        BY <2>2, <4>1 DEF Ahead
    <3> QED
      BY <3>1, <3>2
  <2>6. Cardinality(page) = Limit /\ Cardinality(Newer(m)) >= skip[d] + Limit
    BY <1>3, <2>1, <2>2, <2>3, <2>5, PageBrings
  <2>7. Newer(m)' = Newer(m)
    BY <1>2 DEF Newer
  <2> QED
    BY <1>3, <2>1, <2>6, <2>7
<1> QED
  BY <1>2, <1>4, <1>5 DEF Ahead

LEMMA AheadKept == TypeOK /\ Stored /\ Lives /\ Ahead /\ [Next]_vars => Ahead'
<1> SUFFICES ASSUME TypeOK, Stored, Lives, Ahead, [Next]_vars
             PROVE  Ahead'
  OBVIOUS
<1>1. rows \subseteq Message /\ IsFiniteSet(rows') /\ IsFiniteSet(rows)
  BY StoredStays DEF Stored, TypeOK
<1> DEFINE Keeps(c) ==
             live'[c] =>
               /\ live[c] /\ listed'[c] = listed[c] /\ skip'[c] = skip[c]
               /\ listing'[c] = "done" => listing[c] = "done"
               /\ Received(c) \subseteq Received(c)'
               /\ \A m \in rows : post[m] = "sender" =>
                    post'[m] = "sender" \/ m \in unsent' \/ m \in Received(c)'
<1>2. ASSUME rows \subseteq rows',
             \A m \in rows' \ rows : post'[m] = "sender",
             \A m \in rows : createdAt'[m] = createdAt[m],
             unsent \subseteq unsent',
             \A c \in Client : Keeps(c)
      PROVE  Ahead'
  <2> SUFFICES ASSUME NEW c \in Client
               PROVE  live'[c] => \A m \in rows' :
                        Settled(c, m)' \/ (listing'[c] # "done" /\ Cardinality(Newer(m)') >= skip'[c])
    BY DEF Ahead
  <2>1. Keeps(c)
    BY <1>2
  <2> QED
    BY <1>1, <1>2, <2>1, AheadStays
<1>3. ASSUME UNCHANGED <<rows, createdAt, post, unsent>>,
             \A c \in Client : live'[c] =>
                /\ live[c] /\ listed'[c] = listed[c] /\ skip'[c] = skip[c] /\ got'[c] = got[c]
                /\ listing'[c] = "done" => listing[c] = "done"
      PROVE  Ahead'
  <2>1. \A c \in Client : live'[c] => Received(c) \subseteq Received(c)'
    BY <1>3 DEF Received
  <2> QED
    BY <1>2, <1>3, <2>1
<1>4. CASE UNCHANGED vars
  BY <1>3, <1>4 DEF vars, posting, clients
<1>5. CASE DeleteInstance
  BY <1>5 DEF Ahead, DeleteInstance
<1>6. CASE Tick \/ \E S \in SUBSET Client : SetAllowed(S)
  BY <1>3, <1>6 DEF Tick, SetAllowed, posting, clients
<1>7. ASSUME NEW d \in Client, Connect(d) \/ Join(d)
      PROVE  Ahead'
  BY <1>3, <1>7 DEF Connect, Join, posting
<1>8. ASSUME NEW d \in Client, ChatMessages(d)
      PROVE  Ahead'
  BY <1>3, <1>8 DEF ChatMessages, posting, TypeOK
<1>9. ASSUME NEW d \in Client, Disconnect(d)
      PROVE  Ahead'
  <2>1. \A c \in Client : live'[c] =>
          c # d /\ live[c] /\ listed'[c] = listed[c] /\ skip'[c] = skip[c] /\ got'[c] = got[c]
          /\ listing'[c] = listing[c]
    BY <1>9 DEF Disconnect, TypeOK
  <2>2. UNCHANGED <<rows, createdAt, post, unsent>>
    BY <1>9 DEF Disconnect, posting
  <2> QED
    BY <1>3, <2>1, <2>2
<1>10. ASSUME NEW d \in Client, ListMessages(d)
       PROVE  Ahead'
  BY <1>10, AheadAfterPage
<1>11. ASSUME NEW m \in Message, CreateMessage(m) \/ InsertMessage(m) \/ CreateFails(m)
       PROVE  Ahead'
  <2>1. UNCHANGED clients
    BY <1>11 DEF CreateMessage, InsertMessage, CreateFails
  <2>2. \A c \in Client : Received(c)' = Received(c)
    BY <2>1 DEF Received, clients
  <2>3. /\ rows \subseteq rows' /\ unsent \subseteq unsent'
        /\ \A k \in rows' \ rows : post'[k] = "sender"
        /\ \A k \in rows : createdAt'[k] = createdAt[k]
        /\ \A k \in rows : post[k] = "sender" => post'[k] = "sender" \/ k \in unsent'
    <3>1. CASE CreateMessage(m)
      <4>1. m \notin rows
        BY <3>1 DEF CreateMessage, Stored
      <4> QED
        BY <1>1, <3>1, <4>1 DEF CreateMessage, TypeOK
    <3>2. CASE InsertMessage(m)
      BY <1>1, <3>2 DEF InsertMessage, TypeOK
    <3>3. CASE CreateFails(m)
      BY <1>1, <3>3 DEF CreateFails, TypeOK
    <3> QED
      BY <1>11, <3>1, <3>2, <3>3
  <2>4. \A c \in Client : Keeps(c)
    BY <2>1, <2>2, <2>3 DEF clients
  <2> HIDE DEF Keeps
  <2> QED
    BY <1>2, <2>3, <2>4
<1>12. ASSUME NEW m \in Message, EmitToInstance(m)
       PROVE  Ahead'
  <2>1. UNCHANGED <<rows, createdAt, unsent, conn, listing, skip, listed, live>>
    BY <1>12 DEF EmitToInstance
  <2>2. \A k \in rows \ {m} : post'[k] = post[k]
    BY <1>1, <1>12 DEF EmitToInstance, TypeOK
  <2>3. ASSUME NEW c \in Client
        PROVE  Keeps(c)
    <3>1. Received(c) \subseteq Received(c)' /\ (conn[c] = "in" => m \in Received(c)')
      BY <1>12, Emitting DEF TypeOK
    <3>2. live[c] => conn[c] = "in"
      BY DEF Lives
    <3> QED
      BY <2>1, <2>2, <3>1, <3>2
  <2> HIDE DEF Keeps
  <2> QED
    BY <1>2, <2>1, <2>3
<1> QED
  BY <1>4, <1>5, <1>6, <1>7, <1>8, <1>9, <1>10, <1>11, <1>12
     DEF Next, HandleSendMessage, SendChatMessage

-----------------------------------------------------------------------------
(* The theorems.                                                            *)

LEMMA InitHolds == Init => IInv
<1> SUFFICES ASSUME Init
             PROVE  IInv
  OBVIOUS
<1>1. TypeOK
  <2>1. got \in [Client -> Seq(Message)]
    BY DEF Init
  <2> QED
    BY <2>1, ChatAssumption DEF Init, TypeOK, ChatAssumption
<1>2. Stored /\ Lives /\ AnsweredFirst /\ Ahead
  BY FS_EmptySet DEF Init, Stored, Lives, AnsweredFirst, Ahead
<1> QED
  BY <1>1, <1>2 DEF IInv

LEMMA NextKeeps == IInv /\ [Next]_vars => IInv'
BY TypeStays, StoredStays, LivesStays, AnsweredFirstStays, AheadKept DEF IInv

\* The inductive invariant, however sending, paging and leaving interleave.
THEOREM ChatInvariant == Spec => []IInv
BY InitHolds, NextKeeps, PTL DEF Spec

\* Every variable keeps its type; only a socket in the room has been sent
\* anything, and no message outlives the instance.
THEOREM ChatTypeCorrect == Spec => []TypeOK
<1>1. IInv => TypeOK
  BY DEF IInv
<1> QED
  BY <1>1, ChatInvariant, PTL

\* emitToInstance never sends a message after one that was created when the
\* first had been answered.
THEOREM AnsweredComesFirst == Spec => []AnsweredFirst
<1>1. IInv => AnsweredFirst
  BY DEF IInv
<1> QED
  BY <1>1, ChatInvariant, PTL

\* Who was in the room for the first page and reads to the last has every
\* message, whatever was stored in between and shifted the pages, but what
\* could not be sent and what shares its millisecond.
THEOREM PagingMissesNothing == Spec => []NothingMissed
<1>1. IInv => NothingMissed
  BY DEF IInv, Ahead, Settled, NothingMissed
<1> QED
  BY <1>1, ChatInvariant, PTL
=============================================================================
