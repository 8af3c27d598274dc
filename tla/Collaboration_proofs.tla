-------------------------- MODULE Collaboration_proofs --------------------------
(***************************************************************************)
(* Theorems of Collaboration, for every number of sockets, entries and     *)
(* faults: what the registry has counted, whose presence is shown, that    *)
(* the awareness is broadcast while somebody works and that nothing of a   *)
(* room is left behind, and which list of viewers is shown.                *)
(***************************************************************************)
EXTENDS Collaboration, FiniteSetTheorems, TLAPS

-----------------------------------------------------------------------------
(* The inductive invariant.                                                 *)

\* Who is in the room, and who is connected; a load is awaited only while
\* the document is not resident.
Phases ==
    /\ \A s \in Socket :
         /\ s \in room <=> s \in online /\ Named(s)
         /\ phase[s] \in {"ready", "failed", "lost"} => s \in online
         /\ phase[s] = "none" => s \notin online
         /\ phase[s] = "loading" => loading
         /\ phase[s] = "failed" => faults > 0
    /\ loading => docs = None

\* The states of the stored awareness are of clients the gateway knows, and
\* those are in the room; the resident entry has none it has not stored.
Presence ==
    /\ known \subseteq room
    /\ awarenessByDoc = None => known = {}
    /\ awarenessByDoc # None => states[awarenessByDoc] \subseteq known
    /\ docs # None => awarenessByDoc = docs \/ states[docs] = {}

\* The count, also while there is no entry.
Counted ==
    Calm => /\ \A s \in Ready : docs # None /\ holds[s] = docs
            /\ docs # None => refCount = Cardinality(Ready) + leaks
            /\ docs = None => leaks = 0

\* The remembered listener is one of the resident entry, and is remembered
\* as long as a client works on it, or was leaked.
Attached ==
    Calm => /\ Ready # {} => attachedByDoc # None /\ awarenessByDoc = docs
            /\ attachedByDoc # None => /\ docs # None /\ listeners[docs] # {}
                                       /\ Ready # {} \/ leaks > 0
            /\ \A d \in Doc : d # docs => listeners[d] = {}

\* What is left when the room is empty.
Cleaned ==
    (room = {} /\ leaks = 0) =>
        /\ ~timer /\ ~payload /\ awarenessByDoc = None
        /\ Calm => \A d \in Doc : listeners[d] = {}

\* The one list on its way, or else the one shown last, is the room.
Viewed ==
    /\ IsFiniteSet(sending)
    /\ (faults = 0 /\ ~crossed /\ room = Ready /\ room # {}) =>
         /\ \A b \in sending : b.viewers = room
         /\ sending = {} => \A s \in room : shown[s] = room

IInv ==
    /\ TypeOK /\ Phases /\ Presence /\ Counted /\ Attached /\ Cleaned /\ Viewed

-----------------------------------------------------------------------------
(* Types, and who is where.                                                 *)

\* What Acquired does, socket by socket.
AcquiredFor(ss, d, old) ==
    /\ phase' \in [Socket -> Phase] /\ holds' \in [Socket -> Doc \cup {None}]
    /\ \A s \in Socket :
         /\ s \in ss /\ s \in online => phase'[s] = "ready" /\ holds'[s] = d
         /\ s \in ss /\ s \notin online => phase'[s] = "none" /\ holds'[s] = holds[s]
         /\ s \notin ss => phase'[s] = phase[s] /\ holds'[s] = holds[s]
    /\ ss = {} => awarenessByDoc' = awarenessByDoc
    /\ ss # {} => awarenessByDoc' = d
    /\ attachedByDoc # None \/ ss = {} =>
         attachedByDoc' = attachedByDoc /\ listeners'[d] = old
    /\ attachedByDoc = None /\ ss # {} =>
         attachedByDoc' \in ss /\ listeners'[d] = old \cup ss
    /\ listeners' \in [Doc -> SUBSET Socket]
    /\ \A e \in Doc : e # d => listeners'[e] = listeners[e]
    /\ leaks' = leaks + Cardinality(ss \ online) /\ Cardinality(ss \ online) \in Nat
    /\ ss \subseteq online => leaks' = leaks
    /\ ~(ss \subseteq online) => leaks' > leaks
    /\ leaks' \in Nat
    /\ awarenessByDoc' \in Doc \cup {None} /\ attachedByDoc' \in Socket \cup {None}

LEMMA Acquiring ==
    ASSUME TypeOK, NEW ss \in SUBSET Socket, NEW d \in Doc, NEW old \in SUBSET Socket,
           Acquired(ss, d, old)
    PROVE  AcquiredFor(ss, d, old)
<1>1. /\ awarenessByDoc \in Doc \cup {None} /\ attachedByDoc \in Socket \cup {None}
      /\ phase \in [Socket -> Phase] /\ holds \in [Socket -> Doc \cup {None}]
      /\ listeners \in [Doc -> SUBSET Socket] /\ leaks \in Nat /\ IsFiniteSet(Socket)
  BY CollaborationAssumption DEF TypeOK, CollaborationAssumption
<1>2. phase' = [s \in Socket |->
                   IF s \in ss THEN (IF s \in online THEN "ready" ELSE "none") ELSE phase[s]]
  BY DEF Acquired
<1>3. holds' = [s \in Socket |-> IF s \in ss \cap online THEN d ELSE holds[s]]
  BY DEF Acquired
<1>4. phase' \in [Socket -> Phase] /\ holds' \in [Socket -> Doc \cup {None}]
  BY <1>1, <1>2, <1>3 DEF Phase
<1>5. \A s \in Socket :
        /\ s \in ss /\ s \in online => phase'[s] = "ready" /\ holds'[s] = d
        /\ s \in ss /\ s \notin online => phase'[s] = "none" /\ holds'[s] = holds[s]
        /\ s \notin ss => phase'[s] = phase[s] /\ holds'[s] = holds[s]
  BY <1>2, <1>3
<1>6. /\ ss = {} => awarenessByDoc' = awarenessByDoc
      /\ ss # {} => awarenessByDoc' = d
  BY DEF Acquired
<1>7. /\ attachedByDoc # None \/ ss = {} =>
           attachedByDoc' = attachedByDoc /\ listeners' = [listeners EXCEPT ![d] = old]
      /\ attachedByDoc = None /\ ss # {} =>
           attachedByDoc' \in ss /\ listeners' = [listeners EXCEPT ![d] = old \cup ss]
  BY DEF Acquired
<1>8. IsFiniteSet(ss \ online)
  BY <1>1, FS_Subset
<1>9. Cardinality(ss \ online) \in Nat /\ leaks' = leaks + Cardinality(ss \ online)
  BY <1>8, FS_CardinalityType DEF Acquired
<1>10. /\ ss \subseteq online => Cardinality(ss \ online) = 0
       /\ ~(ss \subseteq online) => Cardinality(ss \ online) # 0
  <2>1. ss \subseteq online <=> ss \ online = {}
    OBVIOUS
  <2> QED
    BY <1>8, <2>1, FS_EmptySet
<1>11. awarenessByDoc' \in Doc \cup {None} /\ attachedByDoc' \in Socket \cup {None}
  BY <1>1, <1>6, <1>7
<1>12. /\ listeners' \in [Doc -> SUBSET Socket]
       /\ \A e \in Doc : e # d => listeners'[e] = listeners[e]
       /\ attachedByDoc # None \/ ss = {} => listeners'[d] = old
       /\ attachedByDoc = None /\ ss # {} => listeners'[d] = old \cup ss
  BY <1>1, <1>7
<1> QED
  BY <1>1, <1>4, <1>5, <1>6, <1>7, <1>9, <1>10, <1>11, <1>12 DEF AcquiredFor

\* The lists on their way keep their type.
LEMMA Sending ==
    ASSUME TypeOK, NEW by \in SUBSET Socket, NEW kind \in Kind, Sends(by, kind),
           room' \subseteq Socket
    PROVE  /\ sending' \subseteq [by: Socket, kind: Kind, viewers: SUBSET Socket]
           /\ crossed' \in BOOLEAN
BY DEF Sends, TypeOK

LEMMA TypeStays == TypeOK /\ Phases /\ [Next]_vars => TypeOK'
<1> SUFFICES ASSUME TypeOK, Phases, [Next]_vars
             PROVE  TypeOK'
  OBVIOUS
<1>1. CASE UNCHANGED vars
  BY <1>1 DEF TypeOK, vars, registryVars, awarenessVars, viewerVars
<1>2. ASSUME NEW s \in Socket, Connect(s)
      PROVE  TypeOK'
  BY <1>2 DEF TypeOK, Connect, registryVars, awarenessVars, Phase
<1>3. ASSUME NEW s \in Socket, LookupRejects(s) \/ DisconnectUnnamed(s)
      PROVE  TypeOK'
  <2>1. phase[s] \notin {"loading", "failed", "ready"}
    BY <1>3 DEF LookupRejects, DisconnectUnnamed, Named
  <2>2. room \subseteq online \ {s}
    BY <2>1 DEF TypeOK, Phases, Named
  <2>3. phase' \in [Socket -> Phase]
    BY <1>3 DEF TypeOK, LookupRejects, DisconnectUnnamed, Phase
  <2> QED
    BY <1>3, <2>2, <2>3
       DEF TypeOK, LookupRejects, DisconnectUnnamed, registryVars, awarenessVars, viewerVars
<1>4. ASSUME NEW s \in Socket, LookupFails(s)
      PROVE  TypeOK'
  <2>1. phase' \in [Socket -> Phase]
    BY <1>4 DEF TypeOK, LookupFails, Phase
  <2> QED
    BY <1>4, <2>1 DEF TypeOK, LookupFails, Fault, registryVars, awarenessVars, viewerVars
<1>5. ASSUME NEW s \in Socket, EnterResident(s)
      PROVE  TypeOK'
  <2>1. /\ docs \in Doc /\ {s} \in SUBSET Socket /\ listeners[docs] \in SUBSET Socket
        /\ Acquired({s}, docs, listeners[docs]) /\ room' = room \cup ({s} \cap online)
    BY <1>5 DEF EnterResident, TypeOK, Joins
  <2>2. Sends({s}, "connect") /\ room' \subseteq Socket
    BY <2>1 DEF Acquired, TypeOK
  <2>3. /\ sending' \subseteq [by: Socket, kind: Kind, viewers: SUBSET Socket]
        /\ crossed' \in BOOLEAN
    BY <2>1, <2>2, Sending DEF Kind
  <2>4. /\ phase' \in [Socket -> Phase] /\ holds' \in [Socket -> Doc \cup {None}]
        /\ listeners' \in [Doc -> SUBSET Socket] /\ leaks' \in Nat
        /\ awarenessByDoc' \in Doc \cup {None} /\ attachedByDoc' \in Socket \cup {None}
    <3>1. PICK ss \in SUBSET Socket : ss = {s}
      OBVIOUS
    <3>2. PICK old \in SUBSET Socket : old = listeners[docs]
      BY <2>1
    <3>3. Acquired(ss, docs, old)
      BY <2>1, <3>1, <3>2
    <3>4. AcquiredFor(ss, docs, old)
      BY <2>1, <3>3, Acquiring
    <3> QED
      BY <3>4 DEF AcquiredFor
  <2> QED
    BY <1>5, <2>1, <2>3, <2>4 DEF TypeOK, EnterResident
<1>6. ASSUME NEW s \in Socket, EnterLoading(s)
      PROVE  TypeOK'
  <2>1. room' \subseteq online' /\ phase' \in [Socket -> Phase]
    BY <1>6 DEF TypeOK, EnterLoading, Joins, Phase
  <2> QED
    BY <1>6, <2>1 DEF TypeOK, EnterLoading, awarenessVars, viewerVars
<1>7. ASSUME NEW s \in Socket, Disconnect(s)
      PROVE  TypeOK'
  <2>1. room' \subseteq online' /\ phase' \in [Socket -> Phase]
        /\ holds' \in [Socket -> Doc \cup {None}] /\ online' \subseteq Socket
    BY <1>7 DEF TypeOK, Disconnect, Phase
  <2>2. known' \subseteq Socket /\ states' \in [Doc -> SUBSET Socket] /\ refCount' \in Int
    BY <1>7 DEF TypeOK, Disconnect, RemovePresence
  <2>3. /\ sending' \subseteq [by: Socket, kind: Kind, viewers: SUBSET Socket]
        /\ crossed' \in BOOLEAN
    <3>1. CASE room' = {}
      BY <1>7, <3>1 DEF TypeOK, Disconnect
    <3>2. CASE room' # {}
      <4>1. Sends({s}, "disconnect") /\ room' \subseteq Socket
        BY <1>7, <2>1, <3>2 DEF Disconnect
      <4> QED
        BY <4>1, Sending DEF Kind
    <3> QED
      BY <3>1, <3>2
  <2>4. /\ awarenessByDoc' \in Doc \cup {None} /\ attachedByDoc' \in Socket \cup {None}
        /\ timer' \in BOOLEAN /\ payload' \in BOOLEAN
    BY <1>7 DEF TypeOK, Disconnect, CleanUp
  <2>5. listeners' \in [Doc -> SUBSET Socket]
    BY <1>7 DEF TypeOK, Disconnect, CleanUp
  <2> QED
    BY <1>7, <2>1, <2>2, <2>3, <2>4, <2>5 DEF TypeOK, Disconnect
<1>8. ASSUME NEW s \in Socket, SendAwareness(s)
      PROVE  TypeOK'
  BY <1>8 DEF TypeOK, SendAwareness, registryVars, viewerVars
<1>9. CASE Broadcast
  <2>1. PICK b \in sending : BroadcastEnds(b) \/ BroadcastFails(b)
    BY <1>9 DEF Broadcast
  <2>2. b.viewers \subseteq Socket
    BY DEF TypeOK
  <2>3. shown' \in [Socket -> SUBSET Socket]
    BY <2>1, <2>2 DEF TypeOK, BroadcastEnds, BroadcastFails
  <2> QED
    BY <2>1, <2>3 DEF TypeOK, BroadcastEnds, BroadcastFails, Fault, registryVars, awarenessVars
<1>10. CASE FlushAwareness \/ AcquireBriefly
  BY <1>10 DEF TypeOK, FlushAwareness, AcquireBriefly, registryVars, awarenessVars, viewerVars
<1>11. CASE LoadDone
  <2>1. PICK d \in Doc : /\ Fresh(d) /\ docs' = d /\ refCount' = Cardinality(Awaiting)
                         /\ states' = [states EXCEPT ![d] = {}] /\ room' = room
                         /\ Acquired(Awaiting, d, {})
    BY <1>11 DEF LoadDone
  <2>2. PICK ss \in SUBSET Socket : ss = Awaiting
    BY DEF Awaiting
  <2>3. Cardinality(ss) \in Nat
    <3>1. IsFiniteSet(ss)
      BY CollaborationAssumption, FS_Subset DEF CollaborationAssumption
    <3> QED
      BY <3>1, FS_CardinalityType
  <2>4. Acquired(ss, d, {}) /\ {} \in SUBSET Socket
    BY <2>1, <2>2
  <2>5. Sends(ss, "connect") /\ room' \subseteq Socket
    BY <2>1, <2>4 DEF Acquired, TypeOK
  <2>6. /\ sending' \subseteq [by: Socket, kind: Kind, viewers: SUBSET Socket]
        /\ crossed' \in BOOLEAN
    BY <2>5, Sending DEF Kind
  <2>7. /\ phase' \in [Socket -> Phase] /\ holds' \in [Socket -> Doc \cup {None}]
        /\ listeners' \in [Doc -> SUBSET Socket] /\ leaks' \in Nat
        /\ awarenessByDoc' \in Doc \cup {None} /\ attachedByDoc' \in Socket \cup {None}
    <3>1. AcquiredFor(ss, d, {})
      BY <2>4, Acquiring
    <3> QED
      BY <3>1 DEF AcquiredFor
  <2>8. refCount' \in Int
    BY <2>1, <2>2, <2>3
  <2>9. states' \in [Doc -> SUBSET Socket]
    BY <2>1 DEF TypeOK
  <2> QED
    BY <1>11, <2>1, <2>6, <2>7, <2>8, <2>9 DEF TypeOK, LoadDone
<1>12. CASE LoadFails
  <2>1. phase' \in [Socket -> Phase]
    BY <1>12 DEF TypeOK, LoadFails, Phase
  <2>2. /\ faults' = faults + 1 /\ loading' = FALSE
        /\ UNCHANGED <<available, online, room, docs, refCount, evicting, holds,
                       awarenessVars, viewerVars, leaks, forgotten, disturbed>>
    BY <1>12 DEF LoadFails, Fault
  <2>3. /\ available' \in BOOLEAN /\ crossed' \in BOOLEAN /\ forgotten' \in BOOLEAN
        /\ disturbed' \in BOOLEAN /\ loading' \in BOOLEAN /\ timer' \in BOOLEAN
        /\ payload' \in BOOLEAN
    BY <2>2 DEF TypeOK, awarenessVars, viewerVars
  <2>4. /\ online' \subseteq Socket /\ room' \subseteq online'
        /\ docs' \in Doc \cup {None} /\ refCount' \in Int /\ evicting' \in Doc \cup {None}
        /\ holds' \in [Socket -> Doc \cup {None}] /\ awarenessByDoc' \in Doc \cup {None}
        /\ attachedByDoc' \in Socket \cup {None} /\ leaks' \in Nat /\ faults' \in Nat
    BY <2>2 DEF TypeOK, awarenessVars, viewerVars
  <2>5. /\ listeners' \in [Doc -> SUBSET Socket] /\ states' \in [Doc -> SUBSET Socket]
        /\ known' \subseteq Socket /\ shown' \in [Socket -> SUBSET Socket]
        /\ sending' \subseteq [by: Socket, kind: Kind, viewers: SUBSET Socket]
    BY <2>2 DEF TypeOK, awarenessVars, viewerVars
  <2> QED
    BY <2>1, <2>3, <2>4, <2>5 DEF TypeOK
<1>13. CASE EvictStarts \/ ToggleArchived
  BY <1>13 DEF TypeOK, EvictStarts, ToggleArchived, registryVars, awarenessVars, viewerVars
<1>14. CASE EvictEnds
  <2>1. listeners' \in [Doc -> SUBSET Socket]
    BY <1>14 DEF TypeOK, EvictEnds
  <2>2. disturbed' \in BOOLEAN
    BY <1>14 DEF TypeOK, EvictEnds
  <2> QED
    BY <1>14, <2>1, <2>2 DEF TypeOK, EvictEnds, viewerVars
<1>15. CASE Forget
  <2>1. listeners' \in [Doc -> SUBSET Socket]
    BY <1>15 DEF TypeOK, Forget
  <2>2. /\ forgotten' = TRUE /\ available' = FALSE /\ docs' = None /\ refCount' = 0
        /\ disturbed' = TRUE
        /\ UNCHANGED <<online, phase, room, loading, evicting, holds, awarenessByDoc,
                       attachedByDoc, states, known, timer, payload, viewerVars, leaks, faults>>
    BY <1>15 DEF Forget
  <2>3. /\ available' \in BOOLEAN /\ crossed' \in BOOLEAN /\ forgotten' \in BOOLEAN
        /\ disturbed' \in BOOLEAN /\ loading' \in BOOLEAN /\ timer' \in BOOLEAN
        /\ payload' \in BOOLEAN
    BY <2>2 DEF TypeOK, viewerVars
  <2>4. /\ online' \subseteq Socket /\ room' \subseteq online' /\ phase' \in [Socket -> Phase]
        /\ docs' \in Doc \cup {None} /\ refCount' \in Int /\ evicting' \in Doc \cup {None}
        /\ holds' \in [Socket -> Doc \cup {None}] /\ awarenessByDoc' \in Doc \cup {None}
        /\ attachedByDoc' \in Socket \cup {None} /\ leaks' \in Nat /\ faults' \in Nat
    BY <2>2 DEF TypeOK, viewerVars
  <2>5. /\ states' \in [Doc -> SUBSET Socket]
        /\ known' \subseteq Socket /\ shown' \in [Socket -> SUBSET Socket]
        /\ sending' \subseteq [by: Socket, kind: Kind, viewers: SUBSET Socket]
    BY <2>2 DEF TypeOK, viewerVars
  <2> QED
    BY <2>1, <2>3, <2>4, <2>5 DEF TypeOK
<1> QED
  BY <1>1, <1>2, <1>3, <1>4, <1>5, <1>6, <1>7, <1>8, <1>9, <1>10, <1>11, <1>12, <1>13,
     <1>14, <1>15 DEF Next, Lookup, Load

\* What EnterResident does.
LEMMA EnteringResident ==
    ASSUME TypeOK, NEW s \in Socket, EnterResident(s)
    PROVE  /\ docs \in Doc /\ phase[s] = "lookup" /\ room' = room \cup ({s} \cap online)
           /\ s \in online => /\ phase'[s] = "ready" /\ holds'[s] = docs
                              /\ leaks' = leaks
           /\ s \notin online => phase'[s] = "none" /\ leaks' = leaks + 1
           /\ \A t \in Socket \ {s} : phase'[t] = phase[t] /\ holds'[t] = holds[t]
           /\ refCount' = refCount + 1 /\ awarenessByDoc' = docs
           /\ attachedByDoc # None => attachedByDoc' = attachedByDoc /\ listeners' = listeners
           /\ attachedByDoc = None =>
                attachedByDoc' = s /\ listeners'[docs] = listeners[docs] \cup {s}
           /\ \A e \in Doc : e # docs => listeners'[e] = listeners[e]
           /\ Sends({s}, "connect")
           /\ UNCHANGED <<available, online, docs, loading, evicting, states, known, timer,
                          payload, shown, faults, forgotten, disturbed>>
<1>1. /\ docs \in Doc /\ phase[s] = "lookup" /\ room' = room \cup ({s} \cap online)
      /\ refCount' = refCount + 1 /\ Acquired({s}, docs, listeners[docs])
      /\ UNCHANGED <<available, online, docs, loading, evicting, states, known, timer,
                     payload, shown, faults, forgotten, disturbed>>
  BY DEF EnterResident, TypeOK, Joins
<1>2. PICK ss \in SUBSET Socket : ss = {s}
  OBVIOUS
<1>3. PICK old \in SUBSET Socket : old = listeners[docs]
  BY <1>1 DEF TypeOK
<1>4. Acquired(ss, docs, old)
  BY <1>1, <1>2, <1>3
<1>5. AcquiredFor(ss, docs, old)
  BY <1>1, <1>4, Acquiring
<1>6. s \notin online => leaks' = leaks + 1
  <2>1. ASSUME s \notin online PROVE ss \ online = {s}
    BY <1>2, <2>1
  <2>2. Cardinality({s}) = 1
    BY FS_Singleton
  <2> QED
    BY <1>5, <2>1, <2>2 DEF AcquiredFor
<1>7. Sends({s}, "connect")
  BY <1>1 DEF Acquired
<1>8. attachedByDoc # None => listeners' = listeners
  BY <1>1, <1>3, <1>5 DEF TypeOK, AcquiredFor
<1>9. /\ s \in online => phase'[s] = "ready" /\ holds'[s] = docs /\ leaks' = leaks
      /\ s \notin online => phase'[s] = "none"
      /\ \A t \in Socket \ {s} : phase'[t] = phase[t] /\ holds'[t] = holds[t]
  BY <1>2, <1>5 DEF AcquiredFor
<1>10. /\ awarenessByDoc' = docs
       /\ attachedByDoc # None => attachedByDoc' = attachedByDoc
       /\ attachedByDoc = None =>
            attachedByDoc' = s /\ listeners'[docs] = listeners[docs] \cup {s}
       /\ \A e \in Doc : e # docs => listeners'[e] = listeners[e]
  BY <1>2, <1>3, <1>5 DEF AcquiredFor
<1> QED
  BY <1>1, <1>6, <1>7, <1>8, <1>9, <1>10

\* What LoadDone does.
LEMMA LoadingDone ==
    ASSUME TypeOK, LoadDone
    PROVE  \E d \in Doc :
           /\ Fresh(d) /\ docs' = d /\ refCount' = Cardinality(Awaiting)
           /\ loading /\ loading' = FALSE /\ states' = [states EXCEPT ![d] = {}]
           /\ \A s \in Socket :
                /\ phase[s] = "loading" /\ s \in online => phase'[s] = "ready" /\ holds'[s] = d
                /\ phase[s] = "loading" /\ s \notin online => phase'[s] = "none"
                /\ phase[s] # "loading" => phase'[s] = phase[s] /\ holds'[s] = holds[s]
           /\ Awaiting = {} => awarenessByDoc' = awarenessByDoc
           /\ Awaiting # {} => awarenessByDoc' = d
           /\ attachedByDoc # None \/ Awaiting = {} =>
                attachedByDoc' = attachedByDoc /\ listeners'[d] = {}
           /\ attachedByDoc = None /\ Awaiting # {} =>
                attachedByDoc' \in Awaiting /\ listeners'[d] = Awaiting
           /\ \A e \in Doc : e # d => listeners'[e] = listeners[e]
           /\ leaks' = leaks + Cardinality(Awaiting \ online) /\ leaks' \in Nat
           /\ Awaiting \subseteq online => leaks' = leaks
           /\ ~(Awaiting \subseteq online) => leaks' > leaks
           /\ Sends(Awaiting, "connect") /\ room' = room
           /\ UNCHANGED <<available, online, evicting, known, timer, payload, shown, faults,
                          forgotten, disturbed>>
<1>1. PICK d \in Doc : /\ Fresh(d) /\ docs' = d /\ refCount' = Cardinality(Awaiting)
                       /\ states' = [states EXCEPT ![d] = {}] /\ room' = room
                       /\ Acquired(Awaiting, d, {})
  BY DEF LoadDone
<1>2. /\ loading /\ loading' = FALSE
      /\ UNCHANGED <<available, online, evicting, known, timer, payload, shown, faults,
                     forgotten, disturbed>>
  BY DEF LoadDone
<1>3. PICK ss \in SUBSET Socket : ss = Awaiting
  BY DEF Awaiting
<1>4. Acquired(ss, d, {}) /\ {} \in SUBSET Socket
  BY <1>1, <1>3
<1>5. AcquiredFor(ss, d, {})
  BY <1>4, Acquiring
<1>6. \A s \in Socket : s \in ss <=> phase[s] = "loading"
  BY <1>3 DEF Awaiting
<1>7. Sends(Awaiting, "connect")
  BY <1>1 DEF Acquired
<1>8. /\ \A s \in Socket :
           /\ phase[s] = "loading" /\ s \in online => phase'[s] = "ready" /\ holds'[s] = d
           /\ phase[s] = "loading" /\ s \notin online => phase'[s] = "none"
           /\ phase[s] # "loading" => phase'[s] = phase[s] /\ holds'[s] = holds[s]
  BY <1>5, <1>6 DEF AcquiredFor
<1>9. /\ Awaiting = {} => awarenessByDoc' = awarenessByDoc
      /\ Awaiting # {} => awarenessByDoc' = d
      /\ attachedByDoc # None \/ Awaiting = {} =>
           attachedByDoc' = attachedByDoc /\ listeners'[d] = {}
      /\ attachedByDoc = None /\ Awaiting # {} =>
           attachedByDoc' \in Awaiting /\ listeners'[d] = Awaiting
      /\ \A e \in Doc : e # d => listeners'[e] = listeners[e]
  BY <1>3, <1>5 DEF AcquiredFor
<1>10. /\ leaks' = leaks + Cardinality(Awaiting \ online) /\ leaks' \in Nat
       /\ Awaiting \subseteq online => leaks' = leaks
       /\ ~(Awaiting \subseteq online) => leaks' > leaks
  BY <1>3, <1>5 DEF AcquiredFor
<1> QED
  BY <1>1, <1>2, <1>7, <1>8, <1>9, <1>10

\* Where a socket is follows from how far its connection got.
LEMMA PhasesStay == TypeOK /\ Phases /\ [Next]_vars => Phases'
<1> SUFFICES ASSUME TypeOK, Phases, [Next]_vars
             PROVE  Phases'
  OBVIOUS
<1> USE DEF Phases, Named
<1>0. phase \in [Socket -> Phase] /\ faults \in Nat /\ loading \in BOOLEAN
  BY DEF TypeOK
<1>1. CASE UNCHANGED vars
  BY <1>1 DEF vars, registryVars
<1>2. ASSUME NEW s \in Socket, Connect(s)
      PROVE  Phases'
  BY <1>0, <1>2 DEF Connect, registryVars
<1>3. ASSUME NEW s \in Socket, LookupRejects(s) \/ DisconnectUnnamed(s)
      PROVE  Phases'
  BY <1>0, <1>3 DEF LookupRejects, DisconnectUnnamed, registryVars, Phase
<1>4. ASSUME NEW s \in Socket, LookupFails(s)
      PROVE  Phases'
  BY <1>0, <1>4 DEF LookupFails, Fault, registryVars
<1>5. ASSUME NEW s \in Socket, EnterResident(s)
      PROVE  Phases'
  BY <1>0, <1>5, EnteringResident
<1>6. ASSUME NEW s \in Socket, EnterLoading(s)
      PROVE  Phases'
  BY <1>0, <1>6 DEF EnterLoading, Joins
<1>7. ASSUME NEW s \in Socket, Disconnect(s)
      PROVE  Phases'
  BY <1>0, <1>7 DEF Disconnect
<1>8. ASSUME NEW s \in Socket, SendAwareness(s)
      PROVE  Phases'
  BY <1>8 DEF SendAwareness, registryVars
<1>9. CASE Broadcast
  <2>1. PICK b \in sending : BroadcastEnds(b) \/ BroadcastFails(b)
    BY <1>9 DEF Broadcast
  <2> QED
    BY <1>0, <2>1 DEF BroadcastEnds, BroadcastFails, Fault, registryVars
<1>10. CASE FlushAwareness \/ AcquireBriefly
  BY <1>10 DEF FlushAwareness, AcquireBriefly, registryVars
<1>11. CASE LoadDone
  <2>1. /\ loading' = FALSE /\ UNCHANGED <<online, room, faults>>
        /\ \A s \in Socket :
             /\ phase[s] = "loading" /\ s \in online => phase'[s] = "ready"
             /\ phase[s] = "loading" /\ s \notin online => phase'[s] = "none"
             /\ phase[s] # "loading" => phase'[s] = phase[s]
    BY <1>11, LoadingDone
  <2> QED
    BY <1>0, <2>1
<1>12. CASE LoadFails
  <2>1. /\ loading' = FALSE /\ UNCHANGED <<online, room>> /\ faults' = faults + 1
        /\ \A s \in Socket :
             /\ phase[s] = "loading" /\ s \in online => phase'[s] = "failed"
             /\ phase[s] = "loading" /\ s \notin online => phase'[s] = "none"
             /\ phase[s] # "loading" => phase'[s] = phase[s]
    BY <1>12 DEF LoadFails, Fault, Awaiting
  <2> QED
    BY <1>0, <2>1
<1>13. CASE EvictStarts \/ ToggleArchived \/ EvictEnds \/ Forget
  BY <1>13 DEF EvictStarts, ToggleArchived, EvictEnds, Forget, registryVars
<1> QED
  BY <1>1, <1>2, <1>3, <1>4, <1>5, <1>6, <1>7, <1>8, <1>9, <1>10, <1>11, <1>12, <1>13
     DEF Next, Lookup, Load

-----------------------------------------------------------------------------
(* Presence and the count.                                                  *)

LEMMA PresenceStays == TypeOK /\ Phases /\ Presence /\ [Next]_vars => Presence'
<1> SUFFICES ASSUME TypeOK, Phases, Presence, [Next]_vars
             PROVE  Presence'
  OBVIOUS
<1>0. /\ states \in [Doc -> SUBSET Socket] /\ docs \in Doc \cup {None} /\ None \notin Doc
      /\ awarenessByDoc \in Doc \cup {None} /\ known \subseteq Socket /\ room \subseteq Socket
  BY CollaborationAssumption DEF TypeOK, CollaborationAssumption
<1>1. ASSUME UNCHANGED <<room, docs, awarenessByDoc, states, known>>
      PROVE  Presence'
  BY <1>1 DEF Presence
<1>2. CASE UNCHANGED vars
  BY <1>1, <1>2 DEF vars, registryVars, awarenessVars
<1>3. ASSUME NEW s \in Socket,
             Connect(s) \/ LookupRejects(s) \/ LookupFails(s) \/ DisconnectUnnamed(s)
      PROVE  Presence'
  BY <1>1, <1>3 DEF Connect, LookupRejects, LookupFails, DisconnectUnnamed, registryVars, awarenessVars
<1>4. ASSUME NEW s \in Socket, EnterResident(s)
      PROVE  Presence'
  <2>1. /\ docs \in Doc /\ room \subseteq room' /\ awarenessByDoc' = docs
        /\ docs' = docs /\ states' = states /\ known' = known
    BY <1>4, EnteringResident
  <2>2. states[docs] \subseteq known
    BY <1>0, <2>1 DEF Presence
  <2> QED
    BY <1>0, <2>1, <2>2 DEF Presence
<1>5. ASSUME NEW s \in Socket, EnterLoading(s)
      PROVE  Presence'
  BY <1>5 DEF Presence, EnterLoading, Joins, awarenessVars
<1>6. ASSUME NEW s \in Socket, Disconnect(s)
      PROVE  Presence'
  <2>1. /\ room' = room \ {s} /\ docs' = docs
        /\ awarenessByDoc = None => known' = known
        /\ awarenessByDoc # None => known' = known \ {s}
        /\ \A e \in Doc : e # awarenessByDoc => states'[e] = states[e]
        /\ \A e \in Doc : e = awarenessByDoc /\ s \in known => states'[e] = states[e] \ {s}
        /\ \A e \in Doc : s \notin known => states'[e] = states[e]
        /\ room' = {} => awarenessByDoc' = None
        /\ room' # {} => awarenessByDoc' = awarenessByDoc
    BY <1>6 DEF Disconnect, RemovePresence, CleanUp
  <2>2. known' \subseteq room'
    BY <2>1 DEF Presence
  <2>3. awarenessByDoc # None => states'[awarenessByDoc] \subseteq known'
    BY <1>0, <2>1 DEF Presence
  <2>4. CASE room' = {}
    BY <1>0, <2>1, <2>2, <2>3, <2>4 DEF Presence
  <2>5. CASE room' # {}
    BY <1>0, <2>1, <2>2, <2>3, <2>5 DEF Presence
  <2> QED
    BY <2>4, <2>5
<1>7. ASSUME NEW s \in Socket, SendAwareness(s)
      PROVE  Presence'
  <2>1. /\ s \in room /\ awarenessByDoc \in Doc
        /\ UNCHANGED <<room, docs, awarenessByDoc>> /\ known' = known \cup {s}
        /\ states'[awarenessByDoc] = states[awarenessByDoc] \cup {s}
        /\ \A e \in Doc : e # awarenessByDoc => states'[e] = states[e]
    BY <1>0, <1>7 DEF SendAwareness, Phases, registryVars
  <2> QED
    BY <1>0, <2>1 DEF Presence
<1>8. CASE Broadcast
  <2>1. PICK b \in sending : BroadcastEnds(b) \/ BroadcastFails(b)
    BY <1>8 DEF Broadcast
  <2> QED
    BY <1>1, <2>1 DEF BroadcastEnds, BroadcastFails, registryVars, awarenessVars
<1>9. CASE FlushAwareness \/ AcquireBriefly \/ LoadFails \/ EvictStarts \/ ToggleArchived
  BY <1>1, <1>9 DEF FlushAwareness, AcquireBriefly, LoadFails, EvictStarts, ToggleArchived,
                    registryVars, awarenessVars
<1>10. CASE LoadDone
  <2>1. PICK d \in Doc : /\ Fresh(d) /\ docs' = d /\ states' = [states EXCEPT ![d] = {}]
                         /\ awarenessByDoc' = awarenessByDoc \/ awarenessByDoc' = d
                         /\ room' = room /\ known' = known
                         /\ Awaiting = {} => awarenessByDoc' = awarenessByDoc
    BY <1>10, LoadingDone
  <2>2. d # awarenessByDoc /\ states'[d] = {}
        /\ \A e \in Doc : e # d => states'[e] = states[e]
    BY <1>0, <2>1 DEF Fresh
  <2> QED
    BY <1>0, <2>1, <2>2 DEF Presence
<1>11. CASE EvictEnds \/ Forget
  BY <1>0, <1>11 DEF Presence, EvictEnds, Forget
<1> QED
  BY <1>2, <1>3, <1>4, <1>5, <1>6, <1>7, <1>8, <1>9, <1>10, <1>11 DEF Next, Lookup, Load

\* What has failed or was disturbed stays so.
LEMMA CalmBefore == TypeOK /\ [Next]_vars /\ Calm' => Calm
<1> SUFFICES ASSUME TypeOK, [Next]_vars, Calm'
             PROVE  Calm
  OBVIOUS
<1> USE DEF Calm
<1>0. faults \in Nat
  BY DEF TypeOK
<1>1. CASE UNCHANGED vars
  BY <1>1 DEF vars
<1>2. ASSUME NEW s \in Socket,
             \/ Connect(s) \/ LookupRejects(s) \/ LookupFails(s) \/ DisconnectUnnamed(s)
             \/ EnterResident(s) \/ EnterLoading(s) \/ Disconnect(s) \/ SendAwareness(s)
      PROVE  Calm
  BY <1>0, <1>2 DEF Connect, LookupRejects, LookupFails, DisconnectUnnamed, EnterResident,
                    EnterLoading, Disconnect, SendAwareness, Fault
<1>3. CASE Broadcast
  BY <1>0, <1>3 DEF Broadcast, BroadcastEnds, BroadcastFails, Fault
<1>4. CASE FlushAwareness \/ AcquireBriefly \/ LoadFails \/ EvictStarts \/ ToggleArchived
  BY <1>0, <1>4 DEF FlushAwareness, AcquireBriefly, LoadFails, EvictStarts, ToggleArchived, Fault
<1>5. CASE LoadDone \/ EvictEnds \/ Forget
  <2>1. faults' = faults
    BY <1>5 DEF LoadDone, EvictEnds, Forget
  <2>2. ~disturbed
    <3>1. CASE LoadDone
      BY <3>1 DEF LoadDone
    <3>2. CASE EvictEnds
      BY <3>2, Zenon DEF EvictEnds
    <3>3. CASE Forget
      BY <3>3 DEF Forget
    <3> QED
      BY <1>5, <3>1, <3>2, <3>3
  <2> QED
    BY <2>1, <2>2
<1> QED
  BY <1>1, <1>2, <1>3, <1>4, <1>5 DEF Next, Lookup, Load

LEMMA ReadyIsFinite == IsFiniteSet(Ready) /\ Cardinality(Ready) \in Nat
<1>1. Ready \subseteq Socket /\ IsFiniteSet(Socket)
  BY CollaborationAssumption DEF Ready, CollaborationAssumption
<1> QED
  BY <1>1, FS_Subset, FS_CardinalityType

\* A step counts the sockets it makes ready or leaks.
LEMMA CountedStays == TypeOK /\ Phases /\ Counted /\ [Next]_vars => Counted'
<1> SUFFICES ASSUME TypeOK, Phases, Counted, [Next]_vars, Calm'
             PROVE  /\ \A s \in Ready' : docs' # None /\ holds'[s] = docs'
                    /\ docs' # None => refCount' = Cardinality(Ready') + leaks'
                    /\ docs' = None => leaks' = 0
  BY DEF Counted
<1> DEFINE Goal == /\ \A s \in Ready' : docs' # None /\ holds'[s] = docs'
                   /\ docs' # None => refCount' = Cardinality(Ready') + leaks'
                   /\ docs' = None => leaks' = 0
<1>0. /\ Calm /\ faults' = 0 /\ faults = 0 /\ ~disturbed'
      /\ leaks \in Nat /\ None \notin Doc /\ docs \in Doc \cup {None}
      /\ phase \in [Socket -> Phase] /\ holds \in [Socket -> Doc \cup {None}]
      /\ refCount \in Int
  BY CalmBefore, CollaborationAssumption DEF TypeOK, Calm, CollaborationAssumption
<1>1. /\ \A s \in Ready : docs # None /\ holds[s] = docs
      /\ docs # None => refCount = Cardinality(Ready) + leaks
      /\ docs = None => leaks = 0
  BY <1>0 DEF Counted
<1>2. ASSUME UNCHANGED <<docs, refCount, leaks, holds>>,
             \A s \in Socket : phase'[s] = "ready" <=> phase[s] = "ready"
      PROVE  Goal
  <2>1. Ready' = Ready
    BY <1>2 DEF Ready
  <2> QED
    BY <1>1, <1>2, <2>1
<1>3. CASE UNCHANGED vars
  BY <1>2, <1>3 DEF vars, registryVars
<1>4. ASSUME NEW s \in Socket, Connect(s) \/ LookupRejects(s) \/ DisconnectUnnamed(s)
      PROVE  Goal
  <2>1. \A t \in Socket : phase'[t] = "ready" <=> phase[t] = "ready"
    BY <1>0, <1>4 DEF Connect, LookupRejects, DisconnectUnnamed, Named
  <2> QED
    BY <1>2, <1>4, <2>1 DEF Connect, LookupRejects, DisconnectUnnamed, registryVars
<1>5. ASSUME NEW s \in Socket, EnterResident(s)
      PROVE  Goal
  <2>1. /\ docs \in Doc /\ docs' = docs /\ refCount' = refCount + 1 /\ phase[s] = "lookup"
        /\ s \in online => phase'[s] = "ready" /\ holds'[s] = docs /\ leaks' = leaks
        /\ s \notin online => phase'[s] = "none" /\ leaks' = leaks + 1
        /\ \A t \in Socket \ {s} : phase'[t] = phase[t] /\ holds'[t] = holds[t]
    BY <1>5, EnteringResident
  <2>2. CASE s \in online
    <3>1. Ready' = Ready \cup {s} /\ s \notin Ready
      BY <2>1, <2>2 DEF Ready
    <3>2. Cardinality(Ready \cup {s}) = Cardinality(Ready) + 1
      BY <3>1, ReadyIsFinite, FS_AddElement
    <3>3. \A t \in Ready' : holds'[t] = docs
      BY <1>1, <2>1, <2>2, <3>1 DEF Ready
    <3> QED
      BY <1>0, <1>1, <2>1, <2>2, <3>1, <3>2, <3>3, ReadyIsFinite
  <2>3. CASE s \notin online
    <3>1. Ready' = Ready
      BY <2>1, <2>3 DEF Ready
    <3>2. \A t \in Ready' : holds'[t] = docs
      BY <1>1, <2>1, <2>3, <3>1 DEF Ready
    <3> QED
      BY <1>0, <1>1, <2>1, <2>3, <3>1, <3>2, ReadyIsFinite
  <2> QED
    BY <2>2, <2>3
<1>6. ASSUME NEW s \in Socket, EnterLoading(s)
      PROVE  Goal
  <2>1. \A t \in Socket : phase'[t] = "ready" <=> phase[t] = "ready"
    BY <1>0, <1>6 DEF EnterLoading
  <2> QED
    BY <1>2, <1>6, <2>1 DEF EnterLoading
<1>7. ASSUME NEW s \in Socket, Disconnect(s)
      PROVE  Goal
  <2>1. /\ docs' = docs /\ leaks' = leaks /\ phase[s] \in {"loading", "ready"}
        /\ phase' = [phase EXCEPT ![s] = IF phase[s] = "loading" THEN "loading" ELSE "none"]
        /\ holds' = [holds EXCEPT ![s] = None]
        /\ refCount' = IF docs = None THEN refCount ELSE refCount - 1
    BY <1>0, <1>7 DEF Disconnect, Named, Phases
  <2>2. CASE phase[s] = "loading"
    <3>1. Ready' = Ready /\ s \notin Ready
      BY <1>0, <2>1, <2>2 DEF Ready
    <3>2. docs = None
      BY <2>2 DEF Phases
    <3> QED
      BY <1>0, <1>1, <2>1, <3>1, <3>2
  <2>3. CASE phase[s] = "ready"
    <3>1. Ready' = Ready \ {s} /\ s \in Ready
      BY <1>0, <2>1, <2>3 DEF Ready
    <3>2. Cardinality(Ready \ {s}) = Cardinality(Ready) - 1
      BY <3>1, ReadyIsFinite, FS_RemoveElement
    <3>3. docs # None
      BY <1>1, <3>1
    <3>4. \A t \in Ready' : holds'[t] = docs
      BY <1>0, <1>1, <2>1, <3>1 DEF Ready
    <3> QED
      BY <1>0, <1>1, <2>1, <3>1, <3>2, <3>3, <3>4, ReadyIsFinite
  <2> QED
    BY <2>1, <2>2, <2>3
<1>8. ASSUME NEW s \in Socket, SendAwareness(s)
      PROVE  Goal
  BY <1>2, <1>8 DEF SendAwareness, registryVars
<1>9. CASE Broadcast
  <2>1. PICK b \in sending : BroadcastEnds(b) \/ BroadcastFails(b)
    BY <1>9 DEF Broadcast
  <2> QED
    BY <1>2, <2>1 DEF BroadcastEnds, BroadcastFails, registryVars
<1>10. CASE FlushAwareness \/ AcquireBriefly \/ EvictStarts \/ ToggleArchived
  BY <1>2, <1>10 DEF FlushAwareness, AcquireBriefly, EvictStarts, ToggleArchived, registryVars
<1>11. CASE LoadDone
  <2>1. PICK d \in Doc : /\ docs' = d /\ refCount' = Cardinality(Awaiting) /\ loading
                         /\ \A s \in Socket :
                              /\ phase[s] = "loading" /\ s \in online =>
                                   phase'[s] = "ready" /\ holds'[s] = d
                              /\ phase[s] = "loading" /\ s \notin online => phase'[s] = "none"
                              /\ phase[s] # "loading" => phase'[s] = phase[s]
                         /\ leaks' = leaks + Cardinality(Awaiting \ online)
    BY <1>11, LoadingDone
  <2>2. docs = None /\ Ready = {} /\ leaks = 0
    BY <1>1, <2>1 DEF Phases
  <2>3. Ready' = Awaiting \cap online
    BY <2>1, <2>2 DEF Ready, Awaiting
  <2>4. IsFiniteSet(Awaiting)
    <3>1. Awaiting \subseteq Socket /\ IsFiniteSet(Socket)
      BY CollaborationAssumption DEF Awaiting, CollaborationAssumption
    <3> QED
      BY <3>1, FS_Subset
  <2>5. Cardinality(Awaiting \ online) = Cardinality(Awaiting) - Cardinality(Awaiting \cap online)
    BY <2>4, FS_Difference
  <2>6. /\ Cardinality(Awaiting) \in Nat /\ Cardinality(Awaiting \cap online) \in Nat
    BY <2>4, FS_Intersection, FS_CardinalityType
  <2>7. \A s \in Ready' : holds'[s] = d
    BY <2>1, <2>3 DEF Awaiting
  <2> QED
    BY <1>0, <2>1, <2>2, <2>3, <2>5, <2>6, <2>7
<1>12. ~LoadFails /\ \A s \in Socket : ~LookupFails(s)
  BY <1>0 DEF LoadFails, LookupFails, Fault
<1>13. CASE EvictEnds
  <2>1. docs = evicting /\ docs # None /\ refCount <= 0 /\ docs' = None /\ leaks' = leaks
        /\ phase' = phase
    <3>1. docs = evicting /\ ~(refCount > 0)
      BY <1>0, <1>13, Zenon DEF EvictEnds
    <3>2. evicting # None /\ docs' = None /\ leaks' = leaks /\ phase' = phase
      BY <1>13 DEF EvictEnds
    <3> QED
      BY <1>0, <3>1, <3>2
  <2>2. leaks = 0 /\ Cardinality(Ready) = 0
    BY <1>0, <1>1, <2>1, ReadyIsFinite
  <2>3. Ready = {}
    BY <2>2, ReadyIsFinite, FS_EmptySet
  <2>4. Ready' = {}
    BY <2>1, <2>3 DEF Ready
  <2> QED
    BY <2>1, <2>2, <2>4
<1>14. ~Forget
  BY <1>0 DEF Forget
<1> QED
  BY <1>3, <1>4, <1>5, <1>6, <1>7, <1>8, <1>9, <1>10, <1>11, <1>12, <1>13, <1>14
     DEF Next, Lookup, Load

-----------------------------------------------------------------------------
(* The broadcaster, and what is left of a room.                             *)

\* Who is ready is in the room, and while all is calm and the document is
\* resident nobody else is.
LEMMA ReadyInRoom == TypeOK /\ Phases => Ready \subseteq room
BY DEF TypeOK, Phases, Ready, Named

LEMMA RoomIsReady == TypeOK /\ Phases /\ Calm /\ docs # None => room \subseteq Ready
BY DEF TypeOK, Phases, Ready, Named, Calm

LEMMA AttachedStays ==
    TypeOK /\ Phases /\ Counted /\ Attached /\ TypeOK' /\ Phases' /\ Counted' /\ [Next]_vars
        => Attached'
<1> SUFFICES ASSUME TypeOK, Phases, Counted, Attached, TypeOK', Phases', Counted', [Next]_vars,
                    Calm'
             PROVE  Attached'
  BY DEF Attached
<1> DEFINE Goal == /\ Ready' # {} => attachedByDoc' # None /\ awarenessByDoc' = docs'
                   /\ attachedByDoc' # None => /\ docs' # None /\ listeners'[docs'] # {}
                                               /\ Ready' # {} \/ leaks' > 0
                   /\ \A d \in Doc : d # docs' => listeners'[d] = {}
<1> SUFFICES Goal
  BY DEF Attached
<1>0. /\ Calm /\ faults' = 0 /\ faults = 0 /\ ~disturbed'
      /\ leaks \in Nat /\ leaks' \in Nat
      /\ None \notin Doc /\ None \notin Socket /\ docs \in Doc \cup {None}
      /\ docs' \in Doc \cup {None} /\ listeners \in [Doc -> SUBSET Socket]
      /\ phase \in [Socket -> Phase] /\ room \subseteq Socket
  BY CalmBefore, CollaborationAssumption DEF TypeOK, Calm, CollaborationAssumption
<1>1. /\ Ready # {} => attachedByDoc # None /\ awarenessByDoc = docs
      /\ attachedByDoc # None => /\ docs # None /\ listeners[docs] # {}
                                 /\ Ready # {} \/ leaks > 0
      /\ \A d \in Doc : d # docs => listeners[d] = {}
  BY <1>0 DEF Attached
<1>2. /\ \A s \in Ready : docs # None
      /\ docs = None => leaks = 0
      /\ \A s \in Ready' : docs' # None
      /\ docs' = None => leaks' = 0
  BY <1>0 DEF Counted
<1>3. Ready' \subseteq room' /\ (docs' # None => room' \subseteq Ready')
  <2>1. Ready' \subseteq room'
    BY DEF TypeOK, Phases, Ready, Named
  <2>2. docs' # None => room' \subseteq Ready'
    BY <1>0 DEF TypeOK, Phases, Ready, Named
  <2> QED
    BY <2>1, <2>2
<1>4. ASSUME UNCHANGED <<docs, attachedByDoc, awarenessByDoc, listeners, leaks>>,
             \A s \in Socket : phase'[s] = "ready" <=> phase[s] = "ready"
      PROVE  Goal
  <2>1. Ready' = Ready
    BY <1>4 DEF Ready
  <2> QED
    BY <1>1, <1>4, <2>1
<1>5. CASE UNCHANGED vars
  BY <1>4, <1>5 DEF vars, registryVars, awarenessVars
<1>6. ASSUME NEW s \in Socket, Connect(s) \/ LookupRejects(s) \/ DisconnectUnnamed(s)
      PROVE  Goal
  <2>1. \A t \in Socket : phase'[t] = "ready" <=> phase[t] = "ready"
    BY <1>0, <1>6 DEF Connect, LookupRejects, DisconnectUnnamed, Named
  <2> QED
    BY <1>4, <1>6, <2>1 DEF Connect, LookupRejects, DisconnectUnnamed, registryVars, awarenessVars
<1>7. ASSUME NEW s \in Socket, EnterResident(s)
      PROVE  Goal
  <2>1. /\ docs \in Doc /\ docs' = docs /\ phase[s] = "lookup" /\ awarenessByDoc' = docs
        /\ s \in online => phase'[s] = "ready"
        /\ s \notin online => leaks' = leaks + 1
        /\ s \in online => leaks' = leaks
        /\ \A t \in Socket \ {s} : phase'[t] = phase[t]
        /\ attachedByDoc # None => attachedByDoc' = attachedByDoc /\ listeners' = listeners
        /\ attachedByDoc = None =>
             attachedByDoc' = s /\ listeners'[docs] = listeners[docs] \cup {s}
        /\ \A e \in Doc : e # docs => listeners'[e] = listeners[e]
    BY <1>7, EnteringResident
  <2>2. attachedByDoc' # None /\ listeners'[docs] # {}
    BY <1>0, <1>1, <2>1
  <2>3. Ready \subseteq Ready'
    BY <2>1 DEF Ready
  <2>4. Ready' # {} \/ leaks' > 0
    BY <1>0, <2>1, <2>3 DEF Ready
  <2>5. docs' # None /\ awarenessByDoc' = docs'
    BY <1>0, <2>1
  <2>6. \A e \in Doc : e # docs' => listeners'[e] = {}
    BY <1>1, <2>1
  <2>7. listeners'[docs'] # {}
    BY <2>1, <2>2
  <2> QED
    BY <2>2, <2>4, <2>5, <2>6, <2>7
<1>8. ASSUME NEW s \in Socket, EnterLoading(s)
      PROVE  Goal
  <2>1. \A t \in Socket : phase'[t] = "ready" <=> phase[t] = "ready"
    BY <1>0, <1>8 DEF EnterLoading
  <2> QED
    BY <1>4, <1>8, <2>1 DEF EnterLoading, awarenessVars
<1>9. ASSUME NEW s \in Socket, Disconnect(s)
      PROVE  Goal
  <2>1. docs' = docs /\ leaks' = leaks
    BY <1>9 DEF Disconnect
  <2>2. CASE room' = {}
    <3>1. /\ attachedByDoc' = IF docs # None THEN None ELSE attachedByDoc
          /\ \A e \in Doc : listeners'[e] \subseteq listeners[e]
      BY <1>9, <2>2 DEF Disconnect, CleanUp
    <3>2. attachedByDoc' = None
      BY <1>1, <3>1
    <3> QED
      BY <1>1, <1>3, <2>1, <2>2, <3>1, <3>2
  <2>3. CASE room' # {}
    <3>1. UNCHANGED <<attachedByDoc, listeners, awarenessByDoc>>
      BY <1>9, <2>3 DEF Disconnect
    <3>2. Ready' \subseteq Ready
      BY <1>0, <1>9 DEF Disconnect, Ready
    <3> QED
      BY <1>1, <1>3, <2>1, <2>3, <3>1, <3>2
  <2> QED
    BY <2>2, <2>3
<1>10. ASSUME NEW s \in Socket, SendAwareness(s)
       PROVE  Goal
  BY <1>4, <1>10 DEF SendAwareness, registryVars
<1>11. CASE Broadcast
  <2>1. PICK b \in sending : BroadcastEnds(b) \/ BroadcastFails(b)
    BY <1>11 DEF Broadcast
  <2> QED
    BY <1>4, <2>1 DEF BroadcastEnds, BroadcastFails, registryVars, awarenessVars
<1>12. CASE FlushAwareness \/ AcquireBriefly \/ EvictStarts \/ ToggleArchived
  BY <1>4, <1>12 DEF FlushAwareness, AcquireBriefly, EvictStarts, ToggleArchived,
                     registryVars, awarenessVars
<1>13. CASE LoadDone
  <2>1. PICK d \in Doc :
           /\ docs' = d /\ loading
           /\ \A s \in Socket :
                /\ phase[s] = "loading" /\ s \in online => phase'[s] = "ready"
                /\ phase[s] = "loading" /\ s \notin online => phase'[s] = "none"
                /\ phase[s] # "loading" => phase'[s] = phase[s]
           /\ Awaiting # {} => awarenessByDoc' = d
           /\ attachedByDoc # None \/ Awaiting = {} =>
                attachedByDoc' = attachedByDoc /\ listeners'[d] = {}
           /\ attachedByDoc = None /\ Awaiting # {} =>
                attachedByDoc' \in Awaiting /\ listeners'[d] = Awaiting
           /\ \A e \in Doc : e # d => listeners'[e] = listeners[e]
           /\ ~(Awaiting \subseteq online) => leaks' > leaks
    BY <1>13, LoadingDone
  <2>2. docs = None /\ Ready = {} /\ attachedByDoc = None
    BY <1>1, <1>2, <2>1 DEF Phases
  <2>3. \A e \in Doc : listeners[e] = {}
    BY <1>1, <2>2, <1>0
  <2>4. CASE Awaiting = {}
    <3>1. Ready' = {}
      BY <2>1, <2>2, <2>4 DEF Ready, Awaiting
    <3> QED
      BY <2>1, <2>2, <2>3, <2>4, <3>1
  <2>5. CASE Awaiting # {}
    <3>1. attachedByDoc' # None /\ listeners'[d] # {} /\ awarenessByDoc' = d
      BY <1>0, <2>1, <2>2, <2>5 DEF Awaiting
    <3>2. Ready' # {} \/ leaks' > 0
      <4>1. CASE Awaiting \subseteq online
        BY <2>1, <2>5, <4>1 DEF Ready, Awaiting
      <4>2. CASE ~(Awaiting \subseteq online)
        BY <1>0, <2>1, <4>2
      <4> QED
        BY <4>1, <4>2
    <3> QED
      BY <1>0, <2>1, <2>3, <3>1, <3>2
  <2> QED
    BY <2>4, <2>5
<1>14. ~LoadFails /\ \A s \in Socket : ~LookupFails(s)
  BY <1>0 DEF LoadFails, LookupFails, Fault
<1>15. CASE EvictEnds
  <2>1. docs = evicting
    BY <1>0, <1>15, Zenon DEF EvictEnds
  <2>2. /\ docs' = None /\ leaks' = leaks /\ phase' = phase /\ attachedByDoc' = attachedByDoc
        /\ listeners' = [listeners EXCEPT ![evicting] = {}]
    BY <1>15 DEF EvictEnds
  <2>3. Ready' = Ready
    BY <2>2 DEF Ready
  <2>4. Ready = {} /\ leaks = 0
    BY <1>2, <2>2, <2>3
  <2>5. attachedByDoc = None
    BY <1>1, <2>4
  <2> QED
    BY <1>0, <1>1, <2>1, <2>2, <2>3, <2>4, <2>5
<1>16. ~Forget
  BY <1>0 DEF Forget
<1> QED
  BY <1>5, <1>6, <1>7, <1>8, <1>9, <1>10, <1>11, <1>12, <1>13, <1>14, <1>15, <1>16
     DEF Next, Lookup, Load

\* The last to leave the room cleans up behind it.
LEMMA CleanedStays ==
    TypeOK /\ Phases /\ Counted /\ Attached /\ Cleaned /\ [Next]_vars => Cleaned'
<1> SUFFICES ASSUME TypeOK, Phases, Counted, Attached, Cleaned, [Next]_vars,
                    room' = {}, leaks' = 0
             PROVE  /\ ~timer' /\ ~payload' /\ awarenessByDoc' = None
                    /\ Calm' => \A d \in Doc : listeners'[d] = {}
  BY DEF Cleaned
<1> DEFINE Goal == /\ ~timer' /\ ~payload' /\ awarenessByDoc' = None
                   /\ Calm' => \A d \in Doc : listeners'[d] = {}
<1>0. /\ Calm' => Calm
      /\ leaks \in Nat /\ None \notin Doc /\ docs \in Doc \cup {None}
      /\ listeners \in [Doc -> SUBSET Socket]
      /\ phase \in [Socket -> Phase] /\ room \subseteq Socket
      /\ timer \in BOOLEAN /\ payload \in BOOLEAN
  BY CalmBefore, CollaborationAssumption DEF TypeOK, CollaborationAssumption
<1>1. ASSUME room = {}, leaks = 0
      PROVE  /\ ~timer /\ ~payload /\ awarenessByDoc = None
             /\ Calm => \A d \in Doc : listeners[d] = {}
  BY <1>1 DEF Cleaned
<1>2. ASSUME room = {}, leaks = 0, UNCHANGED <<timer, payload, awarenessByDoc, listeners>>
      PROVE  Goal
  BY <1>0, <1>1, <1>2
<1>3. CASE UNCHANGED vars
  BY <1>2, <1>3 DEF vars, awarenessVars
<1>4. ASSUME NEW s \in Socket,
             \/ Connect(s) \/ LookupRejects(s) \/ LookupFails(s) \/ DisconnectUnnamed(s)
             \/ EnterLoading(s)
      PROVE  Goal
  BY <1>2, <1>4 DEF Connect, LookupRejects, LookupFails, DisconnectUnnamed, EnterLoading, Joins,
                    awarenessVars
<1>5. ASSUME NEW s \in Socket, EnterResident(s)
      PROVE  Goal
  <2>1. /\ room' = room \cup ({s} \cap online)
        /\ s \notin online => leaks' = leaks + 1
    BY <1>5, EnteringResident
  <2> QED
    BY <1>0, <2>1
<1>6. ASSUME NEW s \in Socket, Disconnect(s)
      PROVE  Goal
  <2>1. /\ timer' = FALSE /\ payload' = FALSE /\ awarenessByDoc' = None
        /\ listeners' = [e \in Doc |->
                       IF e = awarenessByDoc THEN {}
                       ELSE IF e = docs THEN listeners[e] \ {attachedByDoc}
                       ELSE listeners[e]]
    BY <1>6 DEF Disconnect, CleanUp
  <2>2. s \in room
    BY <1>6 DEF Disconnect, Phases
  <2>3. ASSUME Calm', NEW d \in Doc
        PROVE  listeners'[d] = {}
    <3>1. CASE d # docs
      BY <1>0, <2>1, <2>3, <3>1 DEF Attached
    <3>2. CASE d = docs
      <4>1. s \in Ready
        BY <1>0, <2>2, <2>3, <3>2, RoomIsReady
      <4>2. awarenessByDoc = docs
        BY <1>0, <2>3, <4>1 DEF Attached
      <4> QED
        BY <2>1, <3>2, <4>2
    <3> QED
      BY <3>1, <3>2
  <2> QED
    BY <2>1, <2>3
<1>7. ASSUME NEW s \in Socket, SendAwareness(s)
      PROVE  Goal
  BY <1>7 DEF SendAwareness, Phases
<1>8. CASE Broadcast
  <2>1. PICK b \in sending : BroadcastEnds(b) \/ BroadcastFails(b)
    BY <1>8 DEF Broadcast
  <2> QED
    BY <1>2, <2>1 DEF BroadcastEnds, BroadcastFails, awarenessVars
<1>9. CASE FlushAwareness
  BY <1>0, <1>1, <1>9 DEF FlushAwareness, registryVars
<1>10. CASE AcquireBriefly \/ EvictStarts \/ ToggleArchived \/ LoadFails
  BY <1>2, <1>10 DEF AcquireBriefly, EvictStarts, ToggleArchived, LoadFails, awarenessVars
<1>11. CASE LoadDone
  <2>1. PICK d \in Doc :
           /\ Awaiting = {} => awarenessByDoc' = awarenessByDoc
           /\ attachedByDoc # None \/ Awaiting = {} => listeners'[d] = {}
           /\ \A e \in Doc : e # d => listeners'[e] = listeners[e]
           /\ leaks' \in Nat
           /\ Awaiting \subseteq online => leaks' = leaks
           /\ ~(Awaiting \subseteq online) => leaks' > leaks
           /\ room' = room
           /\ UNCHANGED <<timer, payload>>
    BY <1>11, LoadingDone
  <2>2. Awaiting \subseteq online /\ leaks = 0 /\ room = {}
    BY <1>0, <2>1
  <2>3. Awaiting = {}
    BY <2>2 DEF Awaiting, Phases, Named
  <2> QED
    BY <1>0, <1>1, <2>1, <2>2, <2>3
<1>12. CASE EvictEnds \/ Forget
  <2>1. /\ UNCHANGED <<room, leaks, timer, payload, awarenessByDoc>>
        /\ \A e \in Doc : listeners'[e] \subseteq listeners[e]
    BY <1>0, <1>12 DEF EvictEnds, Forget
  <2> QED
    BY <1>0, <1>1, <2>1
<1> QED
  BY <1>3, <1>4, <1>5, <1>6, <1>7, <1>8, <1>9, <1>10, <1>11, <1>12 DEF Next, Lookup, Load

-----------------------------------------------------------------------------
(* The viewers.                                                             *)

\* One list per socket that is announced, and no second one without it being
\* noted.
LEMMA ListsSent ==
    ASSUME IsFiniteSet(sending), NEW by \in SUBSET Socket, NEW kind, Sends(by, kind)
    PROVE  /\ IsFiniteSet(sending')
           /\ crossed => crossed'
           /\ by = {} \/ room' = {} => sending' = sending
           /\ by # {} /\ room' # {} /\ ~crossed' =>
                sending' # {} /\ \A b \in sending' : b.viewers = room'
<1> DEFINE lists == [by: by, kind: {kind}, viewers: {room'}]
<1>1. /\ room' = {} => sending' = sending
      /\ room' # {} => sending' = sending \cup lists
  BY DEF Sends
<1>2. crossed \/ Cardinality(sending') > 1 => crossed'
  BY Zenon DEF Sends
<1>3. IsFiniteSet(lists)
  <2> DEFINE f == [s \in by |-> [by |-> s, kind |-> kind, viewers |-> room']]
  <2>1. \A l \in lists : l.by \in by /\ l = [by |-> l.by, kind |-> kind, viewers |-> room']
    OBVIOUS
  <2>2. f \in [by -> lists]
    OBVIOUS
  <2>3. \A l \in lists : \E s \in by : f[s] = l
    BY <2>1
  <2>4. f \in Surjection(by, lists)
    BY <2>2, <2>3 DEF Surjection
  <2>5. IsFiniteSet(by)
    BY CollaborationAssumption, FS_Subset DEF CollaborationAssumption
  <2> HIDE DEF f, lists
  <2> QED
    BY <2>4, <2>5, FS_Surjection
<1>4. IsFiniteSet(sending')
  <2> HIDE DEF lists
  <2> QED
    BY <1>1, <1>3, FS_Union
<1>5. by = {} => lists = {}
  OBVIOUS
<1>6. ASSUME by # {}, room' # {}, ~crossed'
      PROVE  sending' # {} /\ \A b \in sending' : b.viewers = room'
  <2>1. PICK s \in by : TRUE
    BY <1>6
  <2>2. PICK l : l = [by |-> s, kind |-> kind, viewers |-> room']
    OBVIOUS
  <2>3. l \in sending' /\ l.viewers = room'
    BY <1>1, <1>6, <2>2
  <2>4. ~(Cardinality(sending') > 1)
    BY <1>2, <1>6
  <2>5. Cardinality(sending') \in Nat /\ Cardinality(sending' \ {l}) \in Nat
        /\ IsFiniteSet(sending' \ {l})
    BY <1>4, FS_RemoveElement, FS_CardinalityType
  <2>6. Cardinality(sending' \ {l}) = Cardinality(sending') - 1
    BY <1>4, <2>3, FS_RemoveElement
  <2>7. Cardinality(sending' \ {l}) = 0
    BY <2>4, <2>5, <2>6
  <2>8. sending' \ {l} = {}
    BY <2>5, <2>7, FS_EmptySet
  <2> QED
    BY <2>3, <2>8
<1>7. by = {} \/ room' = {} => sending' = sending
  BY <1>1, <1>5
<1> QED
  BY <1>2, <1>4, <1>6, <1>7

LEMMA ViewedStays ==
    TypeOK /\ Phases /\ Viewed /\ TypeOK' /\ [Next]_vars => Viewed'
<1> SUFFICES ASSUME TypeOK, Phases, Viewed, TypeOK', [Next]_vars
             PROVE  Viewed'
  OBVIOUS
<1>0. /\ IsFiniteSet(sending) /\ faults \in Nat /\ phase \in [Socket -> Phase]
      /\ room \subseteq online /\ online \subseteq Socket
      /\ shown \in [Socket -> SUBSET Socket]
  BY DEF TypeOK, Viewed
<1>1. ASSUME UNCHANGED <<room, sending, crossed, faults>>,
             \A s \in room : shown'[s] = shown[s],
             \A s \in Socket : phase'[s] = "ready" <=> phase[s] = "ready"
      PROVE  Viewed'
  <2>1. Ready' = Ready
    BY <1>1 DEF Ready
  <2> QED
    BY <1>1, <2>1 DEF Viewed
<1>2. ASSUME NEW by \in SUBSET Socket, by # {}, NEW kind, Sends(by, kind)
      PROVE  Viewed'
  BY <1>0, <1>2, ListsSent DEF Viewed
<1>3. CASE UNCHANGED vars
  BY <1>1, <1>3 DEF vars, viewerVars
<1>4. ASSUME NEW s \in Socket, Connect(s)
      PROVE  Viewed'
  <2>1. \A t \in room : shown'[t] = shown[t]
    BY <1>0, <1>4 DEF Connect
  <2>2. \A t \in Socket : phase'[t] = "ready" <=> phase[t] = "ready"
    BY <1>0, <1>4 DEF Connect
  <2> QED
    BY <1>1, <1>4, <2>1, <2>2 DEF Connect
<1>5. ASSUME NEW s \in Socket, LookupRejects(s) \/ DisconnectUnnamed(s)
      PROVE  Viewed'
  <2>1. \A t \in Socket : phase'[t] = "ready" <=> phase[t] = "ready"
    BY <1>0, <1>5 DEF LookupRejects, DisconnectUnnamed, Named
  <2> QED
    BY <1>1, <1>5, <2>1 DEF LookupRejects, DisconnectUnnamed, viewerVars
<1>6. ASSUME faults' = faults + 1, UNCHANGED sending
      PROVE  Viewed'
  BY <1>0, <1>6 DEF Viewed
<1>7. ASSUME NEW s \in Socket, LookupFails(s)
      PROVE  Viewed'
  BY <1>6, <1>7 DEF LookupFails, Fault, viewerVars
<1>8. ASSUME NEW s \in Socket, EnterResident(s)
      PROVE  Viewed'
  <2>1. PICK by \in SUBSET Socket : by = {s}
    OBVIOUS
  <2>2. Sends({s}, "connect")
    BY <1>8, EnteringResident
  <2>3. Sends(by, "connect") /\ by # {}
    BY <2>1, <2>2
  <2> QED
    BY <1>2, <2>3
<1>9. ASSUME NEW s \in Socket, EnterLoading(s)
      PROVE  Viewed'
  <2>1. /\ phase' = [phase EXCEPT ![s] = "loading"] /\ phase[s] = "lookup"
        /\ room' = room \cup ({s} \cap online)
        /\ UNCHANGED <<sending, crossed, faults, shown>>
    BY <1>9 DEF EnterLoading, Joins, viewerVars
  <2>2. CASE s \in online
    <3>1. s \in room' /\ s \notin Ready'
      BY <1>0, <2>1, <2>2 DEF Ready
    <3> QED
      BY <1>0, <2>1, <3>1 DEF Viewed
  <2>3. CASE s \notin online
    <3>1. room' = room
      BY <2>1, <2>3
    <3>2. \A t \in Socket : phase'[t] = "ready" <=> phase[t] = "ready"
      BY <1>0, <2>1
    <3> QED
      BY <1>1, <2>1, <3>1, <3>2
  <2> QED
    BY <2>2, <2>3
<1>10. ASSUME NEW s \in Socket, Disconnect(s)
       PROVE  Viewed'
  <2>1. CASE room' = {}
    BY <1>0, <1>10, <2>1 DEF Disconnect, Viewed
  <2>2. CASE room' # {}
    <3>1. PICK by \in SUBSET Socket : by = {s}
      OBVIOUS
    <3>2. Sends({s}, "disconnect")
      BY <1>10, <2>2 DEF Disconnect
    <3>3. Sends(by, "disconnect") /\ by # {}
      BY <3>1, <3>2
    <3> QED
      BY <1>2, <3>3
  <2> QED
    BY <2>1, <2>2
<1>11. ASSUME NEW s \in Socket, SendAwareness(s)
       PROVE  Viewed'
  BY <1>1, <1>11 DEF SendAwareness, viewerVars
<1>12. CASE Broadcast
  <2>1. PICK b \in sending : BroadcastEnds(b) \/ BroadcastFails(b)
    BY <1>12 DEF Broadcast
  <2>2. sending' = sending \ {b} /\ IsFiniteSet(sending')
    BY <1>0, <2>1, FS_RemoveElement DEF BroadcastEnds, BroadcastFails
  <2>3. CASE BroadcastEnds(b)
    <3>1. /\ UNCHANGED <<room, phase, crossed, faults>>
          /\ \A s \in room : shown'[s] = b.viewers
      BY <1>0, <2>3 DEF BroadcastEnds
    <3>2. Ready' = Ready
      BY <3>1 DEF Ready
    <3> QED
      BY <2>2, <3>1, <3>2 DEF Viewed
  <2>4. CASE BroadcastFails(b)
    BY <1>0, <2>2, <2>4 DEF BroadcastFails, Fault, Viewed
  <2> QED
    BY <2>1, <2>3, <2>4
<1>13. CASE FlushAwareness \/ AcquireBriefly \/ EvictStarts \/ EvictEnds \/ ToggleArchived \/ Forget
  BY <1>1, <1>13 DEF FlushAwareness, AcquireBriefly, EvictStarts, EvictEnds, ToggleArchived,
                     Forget, viewerVars
<1>14. CASE LoadDone
  <2>1. /\ room' = room /\ Sends(Awaiting, "connect") /\ UNCHANGED <<shown, faults>>
        /\ \A t \in Socket : phase[t] # "loading" => phase'[t] = phase[t]
    BY <1>14, LoadingDone
  <2>2. PICK by \in SUBSET Socket : by = Awaiting
    BY DEF Awaiting
  <2>3. Sends(by, "connect")
    BY <2>1, <2>2
  <2>4. CASE by # {}
    BY <1>2, <2>3, <2>4
  <2>5. CASE by = {}
    <3>1. sending' = sending /\ (crossed => crossed')
      BY <1>0, <2>3, <2>5, ListsSent
    <3>2. Ready' = Ready
      BY <2>1, <2>2, <2>5 DEF Ready, Awaiting
    <3> QED
      BY <1>0, <2>1, <3>1, <3>2 DEF Viewed
  <2> QED
    BY <2>4, <2>5
<1>15. CASE LoadFails
  BY <1>6, <1>15 DEF LoadFails, Fault, viewerVars
<1> QED
  BY <1>3, <1>4, <1>5, <1>7, <1>8, <1>9, <1>10, <1>11, <1>12, <1>13, <1>14, <1>15
     DEF Next, Lookup, Load

-----------------------------------------------------------------------------
(* The theorems.                                                            *)

LEMMA InitHolds == Init => IInv
<1> SUFFICES ASSUME Init
             PROVE  IInv
  OBVIOUS
<1>1. None \notin Doc /\ None \notin Socket
  BY CollaborationAssumption DEF CollaborationAssumption
<1>2. TypeOK
  <2>1. /\ available \in BOOLEAN /\ crossed \in BOOLEAN
        /\ forgotten \in BOOLEAN /\ disturbed \in BOOLEAN /\ loading \in BOOLEAN
        /\ timer \in BOOLEAN /\ payload \in BOOLEAN
    BY DEF Init
  <2>2. /\ online \subseteq Socket /\ room \subseteq online /\ known \subseteq Socket
        /\ docs \in Doc \cup {None} /\ refCount \in Int /\ evicting \in Doc \cup {None}
        /\ awarenessByDoc \in Doc \cup {None} /\ attachedByDoc \in Socket \cup {None}
        /\ leaks \in Nat /\ faults \in Nat
        /\ sending \subseteq [by: Socket, kind: Kind, viewers: SUBSET Socket]
    BY DEF Init
  <2>3. phase \in [Socket -> Phase] /\ holds \in [Socket -> Doc \cup {None}]
    BY DEF Init, Phase
  <2>4. /\ listeners \in [Doc -> SUBSET Socket] /\ states \in [Doc -> SUBSET Socket]
        /\ shown \in [Socket -> SUBSET Socket]
    BY DEF Init
  <2> QED
    BY <2>1, <2>2, <2>3, <2>4 DEF TypeOK
<1>3. Ready = {} /\ Cardinality(Ready) = 0
  BY FS_EmptySet DEF Init, Ready
<1>4. Phases /\ Presence
  BY <1>1 DEF Init, Phases, Presence, Named
<1>5. Counted /\ Attached /\ Cleaned
  BY <1>1, <1>3 DEF Init, Counted, Attached, Cleaned
<1>6. Viewed
  BY FS_EmptySet DEF Init, Viewed
<1> QED
  BY <1>2, <1>4, <1>5, <1>6 DEF IInv

LEMMA NextKeeps == IInv /\ [Next]_vars => IInv'
<1> SUFFICES ASSUME IInv, [Next]_vars
             PROVE  IInv'
  OBVIOUS
<1>1. TypeOK /\ Phases /\ Presence /\ Counted /\ Attached /\ Cleaned /\ Viewed
  BY DEF IInv
<1>2. TypeOK' /\ Phases' /\ Presence' /\ Counted'
  BY <1>1, TypeStays, PhasesStay, PresenceStays, CountedStays
<1>3. Attached' /\ Cleaned' /\ Viewed'
  BY <1>1, <1>2, AttachedStays, CleanedStays, ViewedStays
<1> QED
  BY <1>2, <1>3 DEF IInv

\* IInv is an invariant of the gateway and the registry it acquires from
\* (handleConnection, handleDisconnect, DocumentRegistry.acquire and release).
THEOREM CollaborationInvariant == Spec => []IInv
<1>1. Init => IInv
  BY InitHolds
<1>2. IInv /\ [Next]_vars => IInv'
  BY NextKeeps
<1> QED
  BY <1>1, <1>2, PTL DEF Spec

\* Every variable keeps its type, and only connected sockets are in the room.
THEOREM CollaborationTypeCorrect == Spec => []TypeOK
<1>1. IInv => TypeOK
  BY DEF IInv
<1> QED
  BY <1>1, CollaborationInvariant, PTL

\* As long as no call fails and nothing is destroyed in use, the refCount of
\* the resident entry is the number of clients that work on it and of sockets
\* that went away while they connected: acquire and release balance for all
\* others, in whatever order they come.
THEOREM RefCountsAccounted == Spec => []RefCountIsAccounted
<1>1. IInv => RefCountIsAccounted
  BY DEF IInv, Counted, RefCountIsAccounted
<1> QED
  BY <1>1, CollaborationInvariant, PTL

\* Whatever fails and whenever a socket goes away, no client that has left is
\* shown by the stored awareness or remembered in socketIdToClientId.
THEOREM OnlyTheLiveAreShown == Spec => []PresenceIsLive
<1>1. IInv => PresenceIsLive
  BY DEF IInv, TypeOK, Presence, PresenceIsLive
<1> QED
  BY <1>1, CollaborationInvariant, PTL

\* As long as no call fails and nothing is destroyed in use, every client
\* works on an entry whose awareness has a listener, and attachedByDoc
\* remembers one.
THEOREM AwarenessIsBroadcast == Spec => []BroadcasterAttached
<1>1. ASSUME IInv
      PROVE  BroadcasterAttached
  <2> SUFFICES ASSUME Calm, NEW s \in Ready
               PROVE  listeners[docs] # {} /\ attachedByDoc # None
    BY DEF BroadcasterAttached
  <2>1. attachedByDoc # None
    BY <1>1 DEF IInv, Attached
  <2> QED
    BY <1>1, <2>1 DEF IInv, Attached
<1> QED
  BY <1>1, CollaborationInvariant, PTL

\* When the last socket has left the room and none was leaked, no timer,
\* payload or awareness is left of it, and without a failure no listener.
THEOREM EmptyRoomIsClean == Spec => []RoomCleanedUp
<1>1. ASSUME IInv
      PROVE  RoomCleanedUp
  <2> SUFFICES ASSUME room = {}, leaks = 0
               PROVE  /\ ~timer /\ ~payload /\ awarenessByDoc = None
                      /\ Calm => attachedByDoc = None /\ \A d \in Doc : listeners[d] = {}
    BY DEF RoomCleanedUp
  <2>1. /\ ~timer /\ ~payload /\ awarenessByDoc = None
        /\ Calm => \A d \in Doc : listeners[d] = {}
    BY <1>1 DEF IInv, Cleaned
  <2>2. Ready = {}
    BY <1>1, ReadyInRoom DEF IInv
  <2>3. Calm => attachedByDoc = None
    BY <1>1, <2>2 DEF IInv, Attached, TypeOK
  <2> QED
    BY <2>1, <2>3
<1> QED
  BY <1>1, CollaborationInvariant, PTL

\* When no two lists were on their way at once and none failed, and nobody is
\* connecting, every viewer has been shown exactly who is in the room.
THEOREM ViewersAreRight == Spec => []ViewersSettle
<1>1. IInv => ViewersSettle
  BY DEF IInv, Viewed, ViewersSettle
<1> QED
  BY <1>1, CollaborationInvariant, PTL

-----------------------------------------------------------------------------
(* The gateway as one shared room.                                          *)

\* Who works on which entry, and who is shown, as SharedRoom has them.
Working == [s \in Socket |-> IF s \in Ready THEN holds[s] ELSE None]
Shown == IF awarenessByDoc = None THEN {} ELSE states[awarenessByDoc]

\* With the document gone, the gateway has no awareness of it either.
Unstored == Calm /\ docs = None => awarenessByDoc = None

\* Eviction takes the document from nobody, or the state is no longer calm.
LEMMA EvictsIdle ==
  ASSUME IInv, Calm, Calm', EvictEnds
  PROVE  /\ docs # None /\ docs' = None /\ Ready = {} /\ leaks = 0
         /\ UNCHANGED <<phase, holds, awarenessByDoc, states>>
<1>1. TypeOK /\ Counted
  BY DEF IInv
<1>2. /\ evicting # None /\ docs' = None
      /\ UNCHANGED <<phase, holds, awarenessByDoc, states>>
  BY DEF EvictEnds
<1>3. docs = evicting /\ ~(refCount > 0)
  <2>1. disturbed' = (disturbed \/ docs # evicting \/ refCount > 0)
    BY Zenon DEF EvictEnds
  <2>2. ~disturbed'
    BY DEF Calm
  <2> QED BY <2>1, <2>2, Zenon
<1>4. refCount = Cardinality(Ready) + leaks
  BY <1>1, <1>2, <1>3 DEF Counted
<1>5. Cardinality(Ready) \in Nat /\ leaks \in Nat /\ refCount \in Int
  BY <1>1, ReadyIsFinite DEF TypeOK
<1>6. Cardinality(Ready) = 0 /\ leaks = 0
  BY <1>3, <1>4, <1>5
<1>7. Ready = {}
  BY <1>6, ReadyIsFinite, FS_EmptySet
<1> QED BY <1>2, <1>3, <1>6, <1>7

\* The gateway keeps no awareness of a document that is gone.
LEMMA UnstoredStays == IInv /\ Unstored /\ [Next]_vars => Unstored'
<1> SUFFICES ASSUME IInv, Unstored, [Next]_vars, Calm', docs' = None
             PROVE  awarenessByDoc' = None
  BY DEF Unstored
<1>1. TypeOK /\ Phases /\ Counted /\ Cleaned
  BY DEF IInv
<1>2. Calm
  BY <1>1, CalmBefore
<1>3. ASSUME docs' = docs, awarenessByDoc' = awarenessByDoc
      PROVE  awarenessByDoc' = None
  BY <1>2, <1>3 DEF Unstored
<1>4. CASE UNCHANGED vars
  BY <1>3, <1>4 DEF vars, registryVars, awarenessVars
<1>5. ASSUME NEW s \in Socket,
             \/ Connect(s) \/ LookupRejects(s) \/ LookupFails(s) \/ EnterLoading(s)
             \/ DisconnectUnnamed(s) \/ SendAwareness(s)
      PROVE  awarenessByDoc' = None
  BY <1>3, <1>5 DEF Connect, LookupRejects, LookupFails, EnterLoading, DisconnectUnnamed,
                    SendAwareness, registryVars, awarenessVars
<1>6. ASSUME NEW s \in Socket, EnterResident(s)
      PROVE  awarenessByDoc' = None
  BY <1>6 DEF EnterResident
<1>7. ASSUME NEW s \in Socket, Disconnect(s)
      PROVE  awarenessByDoc' = None
  BY <1>3, <1>7 DEF Disconnect, CleanUp
<1>8. CASE Broadcast
  BY <1>3, <1>8 DEF Broadcast, BroadcastEnds, BroadcastFails, registryVars, awarenessVars
<1>9. CASE FlushAwareness \/ AcquireBriefly \/ LoadFails \/ EvictStarts \/ ToggleArchived
  BY <1>3, <1>9 DEF FlushAwareness, AcquireBriefly, LoadFails, EvictStarts, ToggleArchived,
                    registryVars, awarenessVars
<1>10. CASE LoadDone
  BY <1>10, CollaborationAssumption DEF LoadDone, CollaborationAssumption
<1>11. CASE EvictEnds
  <2>1. docs # None /\ Ready = {} /\ leaks = 0 /\ awarenessByDoc' = awarenessByDoc
    BY <1>2, <1>11, EvictsIdle
  <2>2. room = {}
    BY <1>1, <1>2, <2>1, RoomIsReady
  <2> QED BY <1>1, <2>1, <2>2 DEF Cleaned
<1>12. CASE Forget
  BY <1>12 DEF Forget, Calm
<1> QED BY <1>4, <1>5, <1>6, <1>7, <1>8, <1>9, <1>10, <1>11, <1>12 DEF Next, Lookup, Load

\* While all is calm everybody works on the resident entry, and who is shown
\* is in the room.
LEMMA RoomFacts ==
  ASSUME IInv, Unstored, Calm
  PROVE  /\ \A s \in Ready : docs # None /\ Working[s] = docs
         /\ \A s \in Socket \ Ready : Working[s] = None
         /\ docs = None => Shown = {}
         /\ Shown \subseteq known /\ known \subseteq room
         /\ docs # None => room \subseteq Ready
<1>1. TypeOK /\ Phases /\ Presence /\ Counted
  BY DEF IInv
<1>2. \A s \in Ready : docs # None /\ holds[s] = docs
  BY <1>1 DEF Counted
<1>3. docs # None => room \subseteq Ready
  BY <1>1, RoomIsReady
<1> QED BY <1>1, <1>2, <1>3 DEF Working, Shown, Unstored, Presence, Ready

\* A step that moves nobody is not seen.
LEMMA NobodyMoves ==
  ASSUME UNCHANGED <<docs, holds, awarenessByDoc, states>>,
         \A s \in Socket : phase'[s] = "ready" <=> phase[s] = "ready"
  PROVE  UNCHANGED Room!vars
<1>1. Ready' = Ready
  BY DEF Ready
<1> QED BY <1>1 DEF Room!vars

\* A lookup that ends at the resident document.
LEMMA EnterIsEnter ==
  ASSUME IInv, Unstored, Calm, NEW s \in Socket, EnterResident(s)
  PROVE  [Room!Next]_(Room!vars)
<1>1. TypeOK /\ Phases /\ Presence /\ Attached
  BY DEF IInv
<1>2. /\ docs \in Doc /\ None \notin Doc /\ phase[s] = "lookup"
      /\ s \in online => phase'[s] = "ready" /\ holds'[s] = docs
      /\ s \notin online => phase'[s] = "none"
      /\ \A t \in Socket \ {s} : phase'[t] = phase[t] /\ holds'[t] = holds[t]
      /\ awarenessByDoc' = docs /\ docs' = docs /\ states' = states
  BY <1>1, EnteringResident, CollaborationAssumption DEF CollaborationAssumption
<1>3. Shown' = Shown
  <2>1. CASE awarenessByDoc = docs
    BY <1>2, <2>1 DEF Shown
  <2>2. CASE awarenessByDoc # docs
    <3>1. states[docs] = {}
      BY <1>1, <1>2, <2>2 DEF Presence
    <3>2. Ready = {}
      BY <1>1, <2>2 DEF Attached
    <3>3. Shown = {}
      BY <1>2, <3>2, RoomFacts
    <3> QED BY <1>2, <3>1, <3>3 DEF Shown
  <2> QED BY <2>1, <2>2
<1>4. CASE s \in online
  <2>1. Working[s] = None
    BY <1>2, RoomFacts DEF Ready
  <2>2. Working' = [Working EXCEPT ![s] = docs]
    BY <1>2, <1>4 DEF Working, Ready
  <2>3. Room!Enter(s)
    BY <1>2, <1>3, <2>1, <2>2 DEF Room!Enter, Working, Shown
  <2> QED BY <2>3 DEF Room!Next
<1>5. CASE s \notin online
  <2>1. Working' = Working
    BY <1>2, <1>5 DEF Working, Ready
  <2> QED BY <1>2, <1>3, <2>1 DEF Room!vars, Working, Shown
<1> QED BY <1>4, <1>5

\* A load that ends well lets all who wait for it in, if they are still there.
LEMMA LoadIsOpen ==
  ASSUME IInv, Unstored, Calm, LoadDone
  PROVE  [Room!Next]_(Room!vars)
<1>1. TypeOK /\ Phases
  BY DEF IInv
<1>2. PICK d \in Doc :
        /\ docs' = d /\ loading /\ states' = [states EXCEPT ![d] = {}]
        /\ \A s \in Socket :
             /\ phase[s] = "loading" /\ s \in online => phase'[s] = "ready" /\ holds'[s] = d
             /\ phase[s] = "loading" /\ s \notin online => phase'[s] = "none"
             /\ phase[s] # "loading" => phase'[s] = phase[s] /\ holds'[s] = holds[s]
        /\ awarenessByDoc' \in {awarenessByDoc, d}
  BY <1>1, LoadingDone
<1>3. docs = None /\ d # None /\ awarenessByDoc = None
  BY <1>1, <1>2, CollaborationAssumption DEF Phases, Unstored, CollaborationAssumption
<1>4. Shown = {} /\ Shown' = {}
  <2>1. states'[d] = {}
    BY <1>1, <1>2 DEF TypeOK
  <2> QED BY <1>2, <1>3, <2>1 DEF Shown
<1> DEFINE cs == Awaiting \cap online
<1>5. Working' = [c \in Socket |-> IF c \in cs THEN d ELSE Working[c]]
  BY <1>2 DEF Working, Ready, Awaiting
<1>6. cs \in SUBSET Socket
  BY DEF Awaiting
<1> HIDE DEF cs
<1>7. Room!Open
  BY <1>2, <1>3, <1>4, <1>5, <1>6 DEF Room!Open, Working, Shown
<1> QED BY <1>7 DEF Room!Next

\* Who leaves is no longer shown; who waited for the document was not.
LEMMA DisconnectIsLeave ==
  ASSUME IInv, Unstored, Calm, NEW s \in Socket, Disconnect(s)
  PROVE  [Room!Next]_(Room!vars)
<1>1. TypeOK /\ Phases /\ Presence
  BY DEF IInv
<1>2. /\ s \in online /\ phase[s] \in {"loading", "ready"}
      /\ docs' = docs /\ room' = room \ {s}
      /\ phase' = [phase EXCEPT ![s] = IF phase[s] = "loading" THEN "loading" ELSE "none"]
      /\ holds' = [holds EXCEPT ![s] = None]
      /\ RemovePresence(s)
      /\ room' = {} => awarenessByDoc' = None
      /\ room' # {} => awarenessByDoc' = awarenessByDoc
  BY <1>1 DEF Disconnect, Named, CleanUp, Phases, Calm
<1>3. /\ phase \in [Socket -> Phase] /\ holds \in [Socket -> Doc \cup {None}]
      /\ states \in [Doc -> SUBSET Socket] /\ awarenessByDoc \in Doc \cup {None}
  BY <1>1 DEF TypeOK
<1>4. Shown \subseteq known /\ known \subseteq room
  BY RoomFacts
<1>5. CASE phase[s] = "loading"
  <2>1. docs = None /\ awarenessByDoc = None /\ awarenessByDoc' = None
    BY <1>1, <1>2, <1>5 DEF Phases, Unstored
  <2>2. Shown' = Shown
    BY <2>1 DEF Shown
  <2>3. \A t \in Socket : t # s => phase'[t] = phase[t] /\ holds'[t] = holds[t]
    BY <1>2, <1>3
  <2>4. phase'[s] # "ready" /\ phase[s] # "ready"
    BY <1>2, <1>3, <1>5
  <2>5. Working' = Working
    BY <2>3, <2>4 DEF Working, Ready
  <2> QED BY <1>2, <2>2, <2>5 DEF Room!vars, Working, Shown
<1>6. CASE phase[s] = "ready"
  <2>1. docs # None /\ Working[s] = docs
    BY <1>6, RoomFacts DEF Ready
  <2>2. \A t \in Socket : t # s => phase'[t] = phase[t] /\ holds'[t] = holds[t]
    BY <1>2, <1>3
  <2>3. phase'[s] = "none"
    BY <1>2, <1>3, <1>6
  <2>4. Working' = [Working EXCEPT ![s] = None]
    BY <2>2, <2>3 DEF Working, Ready
  <2>5. Shown' = Shown \ {s}
    <3>1. CASE room' = {}
      BY <1>2, <1>4, <3>1 DEF Shown
    <3>2. CASE room' # {} /\ awarenessByDoc = None
      BY <1>2, <3>2 DEF Shown
    <3>3. CASE room' # {} /\ awarenessByDoc # None
      <4>1. states'[awarenessByDoc] =
              IF s \in known THEN states[awarenessByDoc] \ {s} ELSE states[awarenessByDoc]
        BY <1>2, <1>3, <3>3 DEF RemovePresence
      <4> QED BY <1>2, <1>4, <3>3, <4>1 DEF Shown
    <3> QED BY <3>1, <3>2, <3>3
  <2>6. Room!Leave(s)
    BY <1>2, <2>1, <2>4, <2>5 DEF Room!Leave, Working, Shown
  <2> QED BY <2>6 DEF Room!Next
<1> QED BY <1>2, <1>5, <1>6

\* An awareness state shows its client.
LEMMA SendIsAnnounce ==
  ASSUME IInv, Unstored, Calm, NEW s \in Socket, SendAwareness(s)
  PROVE  [Room!Next]_(Room!vars)
<1>1. TypeOK /\ Phases
  BY DEF IInv
<1>2. /\ s \in online /\ Named(s) /\ awarenessByDoc # None
      /\ states' = [states EXCEPT ![awarenessByDoc] = @ \cup {s}]
      /\ UNCHANGED <<docs, phase, holds, awarenessByDoc>>
  BY DEF SendAwareness, registryVars
<1>3. docs # None
  BY <1>2 DEF Unstored
<1>4. s \in Ready
  BY <1>1, <1>2, <1>3, RoomFacts DEF Phases
<1>5. Working[s] # None
  BY <1>3, <1>4, RoomFacts
<1>6. Shown' = Shown \cup {s}
  BY <1>1, <1>2 DEF Shown, TypeOK
<1>7. Working' = Working
  BY <1>2 DEF Working, Ready
<1>8. Room!Announce(s)
  BY <1>2, <1>5, <1>6, <1>7 DEF Room!Announce, Working, Shown
<1> QED BY <1>8 DEF Room!Next

\* So its end closes the room.
LEMMA EvictIsClose ==
  ASSUME IInv, Unstored, Calm, Calm', EvictEnds
  PROVE  [Room!Next]_(Room!vars)
<1>1. /\ docs # None /\ docs' = None /\ Ready = {}
      /\ UNCHANGED <<phase, holds, awarenessByDoc, states>>
  BY EvictsIdle
<1>2. \A s \in Socket : Working[s] = None
  BY <1>1, RoomFacts
<1>3. Working' = Working /\ Shown' = Shown
  BY <1>1 DEF Working, Ready, Shown
<1>4. Room!Close
  BY <1>1, <1>2, <1>3 DEF Room!Close, Working, Shown
<1> QED BY <1>4 DEF Room!Next

\* All steps, as long as the state stays calm.
LEMMA NextInRoom ==
  ASSUME IInv, Unstored, [Next]_vars, Calm'
  PROVE  [Room!Next]_(Room!vars)
<1>1. Calm
  BY CalmBefore DEF IInv
<1>2. phase \in [Socket -> Phase]
  BY DEF IInv, TypeOK
<1>3. CASE UNCHANGED vars
  BY <1>3, NobodyMoves DEF vars, registryVars, awarenessVars
<1>4. ASSUME NEW s \in Socket,
             Connect(s) \/ LookupRejects(s) \/ EnterLoading(s) \/ DisconnectUnnamed(s)
      PROVE  [Room!Next]_(Room!vars)
  <2>1. UNCHANGED <<docs, holds, awarenessByDoc, states>>
    BY <1>4 DEF Connect, LookupRejects, EnterLoading, DisconnectUnnamed, registryVars,
                awarenessVars
  <2>2. /\ phase[s] # "ready" /\ phase'[s] # "ready"
        /\ \A t \in Socket : t # s => phase'[t] = phase[t]
    BY <1>2, <1>4 DEF Connect, LookupRejects, EnterLoading, DisconnectUnnamed, Named
  <2> QED BY <2>1, <2>2, NobodyMoves
<1>5. ASSUME NEW s \in Socket, LookupFails(s)
      PROVE  [Room!Next]_(Room!vars)
  BY <1>1, <1>5 DEF LookupFails, Fault, Calm
<1>6. CASE LoadFails
  BY <1>1, <1>6 DEF LoadFails, Fault, Calm
<1>7. CASE Broadcast
  BY <1>7, NobodyMoves DEF Broadcast, BroadcastEnds, BroadcastFails, registryVars,
                           awarenessVars
<1>8. CASE FlushAwareness \/ AcquireBriefly \/ EvictStarts \/ ToggleArchived
  BY <1>8, NobodyMoves DEF FlushAwareness, AcquireBriefly, EvictStarts, ToggleArchived,
                           registryVars, awarenessVars
<1>9. CASE Forget
  BY <1>9 DEF Forget, Calm
<1> QED BY <1>1, <1>3, <1>4, <1>5, <1>6, <1>7, <1>8, <1>9, EnterIsEnter, LoadIsOpen,
           DisconnectIsLeave, SendIsAnnounce, EvictIsClose DEF Next, Lookup, Load

\* What the refinement rests on.
LEMMA RoomInvariant == Spec => [](IInv /\ Unstored)
<1>1. Init => IInv /\ Unstored
  BY InitHolds DEF Init, Unstored
<1>2. IInv /\ Unstored /\ [Next]_vars => (IInv /\ Unstored)'
  BY NextKeeps, UnstoredStays
<1> QED BY <1>1, <1>2, PTL DEF Spec

\* Until a call fails or an entry is destroyed in use, each step of the gateway
\* is one of SharedRoom's or is not seen: clients get the one entry there is,
\* keep it until they leave, and are shown from when they say so until then.
THEOREM RoomStepByStep == Spec => RoomUnlessDisturbed
<1>1. IInv /\ Unstored /\ [Next]_vars => (Calm' => [Room!Next]_(Room!vars))
  BY NextInRoom
<1> QED BY <1>1, RoomInvariant, PTL DEF Spec, RoomUnlessDisturbed

\* A gateway where nothing fails and nothing is destroyed in use, whoever goes
\* away in the middle of connecting, is one shared room.
THEOREM GatewayImplementsSharedRoom == Spec /\ []Calm => Room!Spec
<1>1. Init => Room!Init
  BY DEF Init, Room!Init, Ready
<1>2. IInv /\ Unstored /\ [Next]_vars /\ Calm' => [Room!Next]_(Room!vars)
  BY NextInRoom
<1> QED BY <1>1, <1>2, RoomInvariant, PTL DEF Spec, Room!Spec
=============================================================================
