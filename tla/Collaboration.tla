----------------------------- MODULE Collaboration -----------------------------
(***************************************************************************)
(* YjsSocketIoGateway for ONE document: sockets that connect, look the     *)
(* instance up, join the room and acquire the document, and that may go    *)
(* away at any moment of it; the awareness bookkeeping of the gateway; the *)
(* lists of viewers it broadcasts.                                         *)
(*                                                                         *)
(* Of DocumentRegistry only what the gateway sees is here: the resident    *)
(* entry with its refCount, a shared load that ends well or not, eviction, *)
(* forget.  A step is the code from one database call or socket event to   *)
(* the next; the awaits of modules that are loaded already, of join and of *)
(* fetchSockets let no event in.  Every socket belongs to another user.    *)
(***************************************************************************)
EXTENDS Integers, FiniteSets

CONSTANTS
    Socket,       \* bound: sockets at once (ids are reused when forgotten)
    Doc,          \* bound: entries that something still refers to
    MaxFaults,    \* bound: database calls that fail
    MaxLeaks,     \* bound: sockets that go away while they connect
    None

ASSUME CollaborationAssumption ==
    /\ None \notin Socket \cup Doc /\ IsFiniteSet(Socket)
    /\ MaxFaults \in Nat /\ MaxLeaks \in Nat

VARIABLES
    available,       \* the instance exists and is not archived
    online,          \* the sockets that are connected
    phase,           \* how far handleConnection is for a socket
    room,            \* the members of the document's room
    docs,            \* the entry in DocumentRegistry.docs, or None
    loading,         \* a load of the document is in flight
    refCount,        \* its refCount
    evicting,        \* the entry evictIdleDocs is about to destroy, or None
    holds,           \* the entry whose document a ready socket works on
    awarenessByDoc,  \* the entry whose awareness the gateway has stored
    attachedByDoc,   \* the socket whose listener the gateway remembers
    listeners,       \* the listeners on the awareness of every entry
    states,          \* the sockets with a state in the awareness of an entry
    known,           \* the keys of socketIdToClientId
    timer,           \* an awareness flush is due
    payload,         \* latestAwarenessPayload has one
    sending,         \* viewer lists on their way
    shown,           \* the list of viewers a socket received last
    leaks,           \* history: documents acquired for a socket that is gone
    faults,          \* history: database calls that have failed
    forgotten,       \* history: the instance was deleted
    disturbed,       \* history: an entry was destroyed while it was in use
    crossed          \* history: two viewer lists were on their way at once

registryVars == <<docs, loading, refCount, evicting>>
awarenessVars == <<awarenessByDoc, attachedByDoc, listeners, states, known, timer, payload>>
viewerVars == <<sending, shown, crossed>>
vars == <<available, online, phase, room, registryVars, holds, awarenessVars,
          viewerVars, leaks, faults, forgotten, disturbed>>

\* "lookup" awaits getDocByInstanceId, "loading" awaits acquire; "lost" and
\* "failed" are connected although handleConnection has thrown, before and
\* after client.data was set.
Phase == {"none", "lookup", "lost", "loading", "failed", "ready"}

\* client.data.docId is set.
Named(s) == phase[s] \in {"loading", "failed", "ready"}

Kind == {"connect", "disconnect"}

TypeOK ==
    /\ available \in BOOLEAN /\ crossed \in BOOLEAN
    /\ forgotten \in BOOLEAN /\ disturbed \in BOOLEAN
    /\ online \subseteq Socket /\ room \subseteq online
    /\ phase \in [Socket -> Phase]
    /\ docs \in Doc \cup {None} /\ loading \in BOOLEAN /\ refCount \in Int
    /\ evicting \in Doc \cup {None}
    /\ holds \in [Socket -> Doc \cup {None}]
    /\ awarenessByDoc \in Doc \cup {None}
    /\ attachedByDoc \in Socket \cup {None}
    /\ listeners \in [Doc -> SUBSET Socket] /\ states \in [Doc -> SUBSET Socket]
    /\ known \subseteq Socket
    /\ timer \in BOOLEAN /\ payload \in BOOLEAN
    /\ sending \subseteq [by: Socket, kind: Kind, viewers: SUBSET Socket]
    /\ shown \in [Socket -> SUBSET Socket]
    /\ leaks \in Nat /\ faults \in Nat

Init ==
    /\ available = TRUE /\ crossed = FALSE
    /\ forgotten = FALSE /\ disturbed = FALSE
    /\ online = {} /\ room = {}
    /\ phase = [s \in Socket |-> "none"]
    /\ docs = None /\ loading = FALSE /\ refCount = 0
    /\ evicting = None
    /\ holds = [s \in Socket |-> None]
    /\ awarenessByDoc = None /\ attachedByDoc = None
    /\ listeners = [d \in Doc |-> {}] /\ states = [d \in Doc |-> {}]
    /\ known = {} /\ timer = FALSE /\ payload = FALSE
    /\ sending = {} /\ shown = [s \in Socket |-> {}]
    /\ leaks = 0 /\ faults = 0

Fault == faults < MaxFaults /\ faults' = faults + 1

\* Nothing refers to the entry any more: its id may stand for a new one.
Fresh(d) ==
    d \notin {docs, evicting, awarenessByDoc} /\ \A s \in Socket : holds[s] # d

-----------------------------------------------------------------------------
(* broadcastViewers: the room is read at once, then one query per user.     *)

\* Mutant: the list is read before the room has changed.
SendsBefore(by, kind) ==
    /\ sending' = sending \cup IF room' = {} THEN {}
                               ELSE [by: by, kind: {kind}, viewers: {room}]
    /\ crossed' = (crossed \/ Cardinality(sending') > 1)

\* A list of nobody is emitted at once, to the empty room it was read from.
Sends(by, kind) ==
    /\ sending' = sending \cup IF room' = {} THEN {}
                               ELSE [by: by, kind: {kind}, viewers: {room'}]
    /\ crossed' = (crossed \/ Cardinality(sending') > 1)

BroadcastEnds(b) ==
    /\ b \in sending
    /\ sending' = sending \ {b}
    /\ shown' = [s \in Socket |-> IF s \in room THEN b.viewers ELSE shown[s]]
    /\ UNCHANGED <<available, online, phase, room, registryVars, holds, awarenessVars,
                   crossed, leaks, faults, forgotten, disturbed>>

BroadcastFails(b) ==
    /\ b \in sending
    /\ Fault
    /\ sending' = sending \ {b}
    /\ UNCHANGED <<available, online, phase, room, registryVars, holds, awarenessVars,
                   shown, crossed, leaks, forgotten, disturbed>>

-----------------------------------------------------------------------------
(* handleConnection.                                                        *)

Connect(s) ==
    /\ s \notin online /\ phase[s] = "none"
    /\ s \notin known /\ attachedByDoc # s
    /\ \A d \in Doc : s \notin listeners[d]
    /\ \A b \in sending : b.by # s /\ s \notin b.viewers
    /\ online' = online \cup {s}
    /\ phase' = [phase EXCEPT ![s] = "lookup"]
    /\ shown' = [shown EXCEPT ![s] = {}]
    /\ UNCHANGED <<available, room, registryVars, holds, awarenessVars, sending, crossed,
                   leaks, faults, forgotten, disturbed>>

\* No such instance, or it is archived: client.disconnect.
LookupRejects(s) ==
    /\ phase[s] = "lookup"
    /\ ~available
    /\ phase' = [phase EXCEPT ![s] = "none"]
    /\ online' = online \ {s}
    /\ UNCHANGED <<available, room, registryVars, holds, awarenessVars, viewerVars,
                   leaks, faults, forgotten, disturbed>>

\* The lookup throws: the socket stays connected and gets no answer.
LookupFails(s) ==
    /\ phase[s] = "lookup"
    /\ Fault
    /\ phase' = [phase EXCEPT ![s] = IF s \in online THEN "lost" ELSE "none"]
    /\ UNCHANGED <<available, online, room, registryVars, holds, awarenessVars, viewerVars,
                   leaks, forgotten, disturbed>>

\* What follows acquire, for the sockets ss that got entry d: the awareness
\* is stored, a listener attached unless one is remembered (each of several
\* that share a load finds none, and the last is remembered), the viewers sent.
Acquired(ss, d, old) ==
    /\ phase' = [s \in Socket |->
                   IF s \in ss THEN (IF s \in online THEN "ready" ELSE "none") ELSE phase[s]]
    /\ holds' = [s \in Socket |-> IF s \in ss \cap online THEN d ELSE holds[s]]
    /\ awarenessByDoc' = IF ss = {} THEN awarenessByDoc ELSE d
    /\ IF attachedByDoc = None /\ ss # {}
       THEN /\ attachedByDoc' \in ss
            /\ listeners' = [listeners EXCEPT ![d] = old \cup ss]
       ELSE /\ UNCHANGED attachedByDoc
            /\ listeners' = [listeners EXCEPT ![d] = old]
    /\ leaks' = leaks + Cardinality(ss \ online)
    /\ Sends(ss, "connect")

\* Mutant: a socket that is gone is entered in the room.
JoinsThoughGone(s) == room' = room \cup {s}

\* client.join; it does nothing for a socket that is gone.
Joins(s) == room' = room \cup ({s} \cap online)

\* The instance is found: the socket gets its data and joins the
\* room, and the document is resident.
EnterResident(s) ==
    /\ phase[s] = "lookup"
    /\ available
    /\ docs # None
    /\ Joins(s)
    /\ refCount' = refCount + 1
    /\ Acquired({s}, docs, listeners[docs])
    /\ UNCHANGED <<available, online, docs, loading, evicting, states, known, timer, payload,
                   shown, faults, forgotten, disturbed>>

\* Or it is not: acquire awaits the load, starting it if none is in flight.
EnterLoading(s) ==
    /\ phase[s] = "lookup"
    /\ available
    /\ docs = None
    /\ Joins(s)
    /\ phase' = [phase EXCEPT ![s] = "loading"]
    /\ loading' = TRUE
    /\ UNCHANGED <<available, online, docs, refCount, evicting, holds, awarenessVars, viewerVars,
                   leaks, faults, forgotten, disturbed>>

\* onSync, validateToolInstance and compileToolInstance acquire and release:
\* nothing remains of it but the load they may start.
AcquireBriefly ==
    /\ docs = None /\ ~loading
    /\ \/ \E s \in online : Named(s)
       \/ available
    /\ loading' = TRUE
    /\ UNCHANGED <<available, online, phase, room, docs, refCount, evicting, holds, awarenessVars,
                   viewerVars, leaks, faults, forgotten, disturbed>>

Awaiting == {s \in Socket : phase[s] = "loading"}

\* Mutant: the sockets that share a load are counted once.
LoadDoneCountsOne ==
    /\ loading
    /\ loading' = FALSE
    /\ \E d \in Doc :
         /\ Fresh(d)
         /\ docs' = d
         /\ refCount' = IF Awaiting = {} THEN 0 ELSE 1
         /\ states' = [states EXCEPT ![d] = {}]
         /\ UNCHANGED room
         /\ Acquired(Awaiting, d, {})
    /\ UNCHANGED <<available, online, evicting, known, timer, payload, shown, faults, forgotten, disturbed>>

LoadDone ==
    /\ loading
    /\ loading' = FALSE
    /\ \E d \in Doc :
         /\ Fresh(d)
         /\ docs' = d
         /\ refCount' = Cardinality(Awaiting)
         /\ states' = [states EXCEPT ![d] = {}]
         /\ UNCHANGED room
         /\ Acquired(Awaiting, d, {})
    /\ UNCHANGED <<available, online, evicting, known, timer, payload, shown, faults, forgotten, disturbed>>

\* acquire throws: the sockets stay connected, in the room, with their data.
LoadFails ==
    /\ loading
    /\ Fault
    /\ loading' = FALSE
    /\ phase' = [s \in Socket |->
                   IF s \in Awaiting THEN (IF s \in online THEN "failed" ELSE "none")
                                     ELSE phase[s]]
    /\ UNCHANGED <<available, online, room, docs, refCount, evicting, holds, awarenessVars, viewerVars,
                   leaks, forgotten, disturbed>>

-----------------------------------------------------------------------------
(* handleDisconnect, onAwareness and queueAwareness.                        *)

\* A connection that goes on although its socket is gone.
Orphans == {s \in Socket : phase[s] \in {"lookup", "loading"} /\ s \notin online}

\* Mutant: the listener goes, the memory of it does not.
CleanUpForgetful(d, a) ==
    /\ UNCHANGED attachedByDoc
    /\ listeners' = [e \in Doc |-> IF e = a THEN {} ELSE listeners[e]]
    /\ awarenessByDoc' = None
    /\ timer' = FALSE /\ payload' = FALSE

\* Mutant: the timer is not cleared.
CleanUpTicking(d, a) ==
    /\ attachedByDoc' = IF docs # None THEN None ELSE attachedByDoc
    /\ listeners' = [e \in Doc |->
                       IF e = a THEN {}
                       ELSE IF e = d THEN listeners[e] \ {attachedByDoc}
                       ELSE listeners[e]]
    /\ awarenessByDoc' = None
    /\ payload' = FALSE /\ UNCHANGED timer

\* The room is empty: the remembered listener, the stored awareness and the
\* batching state go.  Awareness.destroy drops every listener.
CleanUp(d, a) ==
    /\ attachedByDoc' = IF docs # None THEN None ELSE attachedByDoc
    /\ listeners' = [e \in Doc |->
                       IF e = a THEN {}
                       ELSE IF e = d THEN listeners[e] \ {attachedByDoc}
                       ELSE listeners[e]]
    /\ awarenessByDoc' = None
    /\ timer' = FALSE /\ payload' = FALSE

\* Mutant: the id is dropped first, and so names no state to remove.
RemovePresenceLate(s) ==
    /\ known' = IF awarenessByDoc = None THEN known ELSE known \ {s}
    /\ states' = [e \in Doc |-> IF e = awarenessByDoc /\ s \in known'
                               THEN states[e] \ {s} ELSE states[e]]

\* The awareness state of a client that has sent one is removed.
RemovePresence(s) ==
    /\ known' = IF awarenessByDoc = None THEN known ELSE known \ {s}
    /\ states' = [e \in Doc |-> IF e = awarenessByDoc /\ s \in known
                               THEN states[e] \ {s} ELSE states[e]]

\* A socket without client.data.docId: handleDisconnect returns at once.
DisconnectUnnamed(s) ==
    /\ s \in online /\ ~Named(s)
    /\ phase[s] = "lookup" => leaks + Cardinality(Orphans) < MaxLeaks
    /\ online' = online \ {s}
    /\ phase' = [phase EXCEPT ![s] = IF phase[s] = "lookup" THEN "lookup" ELSE "none"]
    /\ UNCHANGED <<available, room, registryVars, holds, awarenessVars, viewerVars,
                   leaks, faults, forgotten, disturbed>>

\* handleDisconnect: the presence of the client goes, the document is
\* released whether it was acquired or not, and either the room is cleaned
\* up or those who stay get a new list.
Disconnect(s) ==
    /\ s \in online /\ Named(s)
    /\ phase[s] = "loading" => leaks + Cardinality(Orphans) < MaxLeaks
    /\ online' = online \ {s} /\ room' = room \ {s}
    /\ phase' = [phase EXCEPT ![s] = IF phase[s] = "loading" THEN "loading" ELSE "none"]
    /\ holds' = [holds EXCEPT ![s] = None]
    /\ RemovePresence(s)
    /\ refCount' = IF docs = None THEN refCount ELSE refCount - 1
    /\ IF room' = {}
       THEN CleanUp(docs, awarenessByDoc) /\ UNCHANGED <<sending, crossed>>
       ELSE Sends({s}, "disconnect")
            /\ UNCHANGED <<attachedByDoc, listeners, awarenessByDoc, timer, payload>>
    /\ UNCHANGED <<available, docs, loading, evicting, shown, leaks, faults, forgotten,
                   disturbed>>

\* A client sends its own awareness state: it is applied to the awareness the
\* gateway has stored, and queued for the others.
SendAwareness(s) ==
    /\ s \in online /\ Named(s)
    /\ awarenessByDoc # None
    /\ known' = known \cup {s}
    /\ states' = [states EXCEPT ![awarenessByDoc] = @ \cup {s}]
    /\ payload' = TRUE /\ timer' = TRUE
    /\ UNCHANGED <<available, online, phase, room, registryVars, holds, awarenessByDoc,
                   attachedByDoc, listeners, viewerVars, leaks, faults, forgotten, disturbed>>

\* The timer fires; the payload stays where it is.
FlushAwareness ==
    /\ timer
    /\ timer' = FALSE
    /\ UNCHANGED <<available, online, phase, room, registryVars, holds, awarenessByDoc,
                   attachedByDoc, listeners, states, known, payload, viewerVars, leaks,
                   faults, forgotten, disturbed>>

-----------------------------------------------------------------------------
(* What the registry and the instance's owner do meanwhile.                 *)

\* evictIdleDocs finds the entry idle and awaits its chain and its snapshot,
EvictStarts ==
    /\ docs # None /\ evicting = None
    /\ refCount <= 0
    /\ evicting' = docs
    /\ UNCHANGED <<available, online, phase, room, docs, loading, refCount, holds,
                   awarenessVars, viewerVars, leaks, faults, forgotten, disturbed>>

\* and then destroys it without looking again.
EvictEnds ==
    /\ evicting # None
    /\ evicting' = None
    /\ docs' = None /\ refCount' = 0
    /\ listeners' = [listeners EXCEPT ![evicting] = {}]
    /\ disturbed' = (disturbed \/ docs # evicting \/ refCount > 0)
    /\ UNCHANGED <<available, online, phase, room, loading, holds, awarenessByDoc,
                   attachedByDoc, states, known, timer, payload, viewerVars, leaks,
                   faults, forgotten>>

\* archive and unarchive leave the sockets that are connected alone.
ToggleArchived ==
    /\ ~forgotten
    /\ available' = ~available
    /\ UNCHANGED <<online, phase, room, registryVars, holds, awarenessVars, viewerVars,
                   leaks, faults, forgotten, disturbed>>

\* delete: DocumentRegistry.forget destroys the entry, whoever works on it.
Forget ==
    /\ ~forgotten
    /\ forgotten' = TRUE /\ available' = FALSE
    /\ docs' = None /\ refCount' = 0
    /\ listeners' = [e \in Doc |-> IF e = docs THEN {} ELSE listeners[e]]
    /\ disturbed' = TRUE
    /\ UNCHANGED <<online, phase, room, loading, evicting, holds, awarenessByDoc,
                   attachedByDoc, states, known, timer, payload, viewerVars, leaks, faults>>

-----------------------------------------------------------------------------
Lookup(s) == LookupRejects(s) \/ LookupFails(s) \/ EnterResident(s) \/ EnterLoading(s)
Load == LoadDone \/ LoadFails
Broadcast == \E b \in sending : BroadcastEnds(b) \/ BroadcastFails(b)

Next ==
    \/ \E s \in Socket :
         \/ Connect(s) \/ Lookup(s)
         \/ DisconnectUnnamed(s) \/ Disconnect(s)
         \/ SendAwareness(s)
    \/ Broadcast \/ FlushAwareness
    \/ AcquireBriefly \/ Load
    \/ EvictStarts \/ EvictEnds
    \/ ToggleArchived \/ Forget

Spec == Init /\ [][Next]_vars

\* The calls to the database return, and the eviction interval keeps firing.
FairSpec ==
    /\ Spec
    /\ \A s \in Socket : WF_vars(Lookup(s))
    /\ WF_vars(Load)
    /\ WF_vars(EvictStarts) /\ WF_vars(EvictEnds)

-----------------------------------------------------------------------------
\* No call has failed and no entry was destroyed under its users.
Calm == faults = 0 /\ ~disturbed

Ready == {s \in Socket : phase[s] = "ready"}

\* As long as no call fails and nothing is destroyed in use, every connected
\* client works on the entry the registry has, and that entry is counted once
\* for each of them and once for each socket that went away too early
\* (acquire in handleConnection against release in handleDisconnect).
RefCountIsAccounted ==
    Calm => /\ \A s \in Ready : docs # None /\ holds[s] = docs
            /\ docs # None => refCount = Cardinality(Ready) + leaks

\* Whatever fails, the awareness the gateway has stored shows no client that
\* has left, and socketIdToClientId holds no socket that is gone.
PresenceIsLive ==
    /\ known \subseteq online
    /\ awarenessByDoc # None => states[awarenessByDoc] \subseteq online

\* As long as nothing is destroyed in use, the awareness of a document
\* somebody works on has a broadcaster: the listener attachedByDoc remembers
\* is never one of an entry that is gone.
BroadcasterAttached ==
    Calm => \A s \in Ready : listeners[docs] # {} /\ attachedByDoc # None

\* When the last socket has left the room no timer, payload or awareness of
\* it is left behind, and without a failure no listener either.
RoomCleanedUp ==
    (room = {} /\ leaks = 0) =>
        /\ ~timer /\ ~payload /\ awarenessByDoc = None
        /\ Calm => attachedByDoc = None /\ \A d \in Doc : listeners[d] = {}

\* When no two lists were ever on their way at once and none failed, and
\* nobody is connecting, every viewer has been shown exactly the room.
ViewersSettle ==
    (faults = 0 /\ ~crossed /\ sending = {} /\ room = Ready)
        => \A s \in room : shown[s] = room

\* "eviction when idle" (collaboration.module.ts): a document all clients
\* have left is unloaded.
IdleUnloads == (online = {}) ~> (docs = None \/ online # {})

\* As long as no call fails and nothing is destroyed in use, the gateway is
\* one shared room: its clients work on one and the same entry, which eviction
\* takes away only when nobody works on it, and the awareness shows who has
\* announced themselves, until they leave.
Room == INSTANCE SharedRoom WITH
    Client   <- Socket,
    Document <- Doc,
    document <- docs,
    works    <- [s \in Socket |-> IF s \in Ready THEN holds[s] ELSE None],
    present  <- IF awarenessByDoc = None THEN {} ELSE states[awarenessByDoc]

RoomUnlessDisturbed == [][Calm' => [Room!Next]_(Room!vars)]_vars

=============================================================================
