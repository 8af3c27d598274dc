-------------------------- MODULE UpdateChain_proofs --------------------------
(***************************************************************************)
(* Proofs about UpdateChain, for every value of its constants: the         *)
(* inductive invariant IInv (the rows and the entry that writes them are   *)
(* Chained), what each action keeps of it, the bound on the rows kept, and *)
(* the refinement of DurableDoc.                                           *)
(***************************************************************************)
EXTENDS UpdateChain, ActiveDocument_proofs

\* Each update users see is held by some row, or in the chain, or its own
\* append has failed.  (Whether a restart SHOWS it depends on those it was
\* made upon: users see these too, so the same holds of each of them.)
SeenIsHeld ==
    up => Shown(entry.doc) \subseteq Recoverable(db) \cup Unsettled(entry) \cup unsaved

IInv ==
    /\ TypeOK
    /\ StoreInv(db)
    /\ up => Chained(db, entry)
    /\ SeenIsHeld

\* The rows that crashes and failures can have left uncompacted.
Leftover == MaxUpdates * crashes + faults

\* The rows the running policy does not count: those up to lastSnapshotSeq.
OldRows == {r \in db.updates : r.seq <= entry.lastSnapshotSeq}

\* What makes StorageBounded inductive: rows have different seqs, those the
\* policy does not count were left over, and a task that ends without a
\* snapshot leaves less than maxUpdates that it does count.
StorageInv ==
    /\ IsFiniteSet(db.snapshots) /\ IsFiniteSet(db.updates)
    /\ \A r, q \in db.updates : r.seq = q.seq => r = q
    /\ IF entry.phase = "compact"
       THEN Cardinality(db.snapshots) <= KeepSnapshots + faults + crashes + 1
       ELSE Cardinality(db.snapshots) <= KeepSnapshots + faults + crashes
    /\ IF up
       THEN /\ entry.lastSnapshotSeq <= entry.seq
            /\ entry.phase = "append" => entry.lastSnapshotSeq < entry.seq
            /\ Cardinality(OldRows) <= Leftover
            /\ IF entry.phase \in {"idle", "append"}
               THEN Cardinality(db.updates) < Leftover + MaxUpdates
               ELSE Cardinality(db.updates) <= Leftover + MaxUpdates
       ELSE /\ entry.phase = "idle"
            /\ Cardinality(db.updates) <= Leftover

-----------------------------------------------------------------------------
(* The steps of the write path.                                             *)

\* A task that is chained or runs is counted: IInv has PendingIsExact.
LEMMA CountedIsExact == IInv => PendingIsExact
<1> SUFFICES ASSUME IInv, up PROVE PendingIsExact
  BY DEF PendingIsExact
<1>1. Counted(entry)
  BY DEF IInv, Chained
<1>2. CASE entry.phase = "idle"
  <2>1. entry.pendingUpdates = Len(entry.queue) /\ Len(entry.queue) \in Nat
    BY <1>1, <1>2 DEF Counted, IInv, TypeOK, Entry
  <2> QED BY <1>2, <2>1 DEF PendingIsExact
<1>3. CASE entry.phase # "idle"
  <2>1. entry.pendingUpdates = Len(entry.queue) + 1
    BY <1>1, <1>3 DEF Counted
  <2> QED BY <1>3, <2>1 DEF PendingIsExact
<1> QED BY <1>2, <1>3

LEMMA ApplyUpdateKeeps ==
    ASSUME IInv, ApplyUpdate
    PROVE  IInv' /\ entry.doc \subseteq entry'.doc
<1>1. /\ up /\ up' /\ UNCHANGED <<db, unsaved, faults, crashes>>
      /\ Chained(db, entry)
  BY DEF ApplyUpdate, IInv, TypeOK
<1>2. PICK us \in SUBSET Update : entry' = Received(entry, us)
  BY DEF ApplyUpdate
<1>3. /\ Chained(db', entry')
      /\ entry'.doc = entry.doc \cup us
      /\ Unsettled(entry') = Unsettled(entry) \cup News(entry, us)
      /\ Shown(entry'.doc) = Shown(entry.doc) \cup News(entry, us)
  BY <1>1, <1>2, ReceivedKeeps
<1>4. TypeOK' /\ StoreInv(db')
  BY <1>1, <1>3 DEF IInv, TypeOK, Chained
<1>5. SeenIsHeld'
  BY <1>1, <1>3 DEF IInv, SeenIsHeld
<1> QED BY <1>3, <1>4, <1>5 DEF IInv

\* A step of the chain changes nothing users see, and only adds to what a
\* restart brings back.
LEMMA ChainStepKeeps ==
    ASSUME IInv, ChainStep
    PROVE  /\ IInv'
           /\ up /\ up' = up
           /\ entry'.doc = entry.doc
           /\ Recoverable(db) \subseteq Recoverable(db')
           /\ Recoverable(db') \subseteq entry.doc
<1> DEFINE Goal ==
      /\ up /\ up' = up /\ crashes' = crashes /\ faults' \in Nat
      /\ unsaved' \subseteq Update
      /\ Chained(db', entry')
      /\ entry'.doc = entry.doc
      /\ Recoverable(db) \subseteq Recoverable(db')
      /\ Shown(entry.doc) \subseteq Recoverable(db') \cup Unsettled(entry') \cup unsaved'
<1>1. /\ up => Chained(db, entry)
      /\ up => Shown(entry.doc) \subseteq Recoverable(db) \cup Unsettled(entry) \cup unsaved
      /\ faults \in Nat /\ unsaved \subseteq Update
  BY DEF IInv, TypeOK, SeenIsHeld
<1>2. ASSUME StartTask PROVE Goal
  <2>1. /\ up /\ entry.phase = "idle" /\ entry.queue # <<>>
        /\ UNCHANGED <<db, up, unsaved, faults, crashes>>
        /\ entry' = TaskStarted(entry)
    BY <1>2 DEF StartTask
  <2>2. Chained(db', entry') /\ entry'.doc = entry.doc /\ Unsettled(entry') = Unsettled(entry)
    BY <1>1, <2>1, StartedKeeps
  <2> QED BY <1>1, <2>1, <2>2
<1>3. ASSUME AppendReturns \/ AppendAnswerLost PROVE Goal
  <2>1. /\ up /\ entry.phase = "append" /\ UNCHANGED <<up, unsaved, crashes>>
        /\ db' = AppendUpdate(db, entry.seq, entry.writing)
        /\ entry' = TaskFailed(entry) \/ \E late \in BOOLEAN : entry' = Appended(entry, late)
        /\ faults' \in Nat
    BY <1>1, <1>3 DEF AppendReturns, AppendAnswerLost, WithRow, Fault
  <2>2. /\ Chained(db', entry') /\ entry'.doc = entry.doc
        /\ Recoverable(db') = Recoverable(db) \cup entry.writing
        /\ Unsettled(entry) = Unsettled(entry') \cup entry.writing
    BY <1>1, <2>1, AppendKeeps
  <2> QED BY <1>1, <2>1, <2>2
<1>4. ASSUME AppendFails PROVE Goal
  <2>1. /\ up /\ entry.phase = "append" /\ UNCHANGED <<db, up, crashes>>
        /\ entry' = TaskFailed(entry)
        /\ unsaved' = unsaved \cup entry.writing
        /\ faults' \in Nat
    BY <1>1, <1>4 DEF AppendFails, Fault
  <2>2. /\ Chained(db', entry') /\ entry'.doc = entry.doc
        /\ Unsettled(entry) = Unsettled(entry') \cup entry.writing
    BY <1>1, <2>1, FailedKeeps
  <2>3. entry.writing \subseteq Update
    BY <1>1, <2>1, ChainedFacts
  <2> QED BY <1>1, <2>1, <2>2, <2>3
<1>5. ASSUME EncodeSnapshot PROVE Goal
  <2>1. /\ up /\ entry.phase = "encode" /\ UNCHANGED <<db, up, unsaved, faults, crashes>>
        /\ entry' = Encoded(entry)
    BY <1>5 DEF EncodeSnapshot
  <2>2. Chained(db', entry') /\ entry'.doc = entry.doc /\ Unsettled(entry') = Unsettled(entry)
    BY <1>1, <2>1, EncodedKeeps
  <2> QED BY <1>1, <2>1, <2>2
<1>6. ASSUME SnapshotReturns \/ SnapshotAnswerLost PROVE Goal
  <2>1. /\ up /\ entry.phase = "insert" /\ UNCHANGED <<up, crashes>>
        /\ db' = InsertSnapshot(db, entry.seq, entry.encoded)
        /\ entry' \in {TaskFailed(entry), SnapshotInserted(entry)}
        /\ unsaved' = {} /\ faults' \in Nat
    BY <1>1, <1>6 DEF SnapshotReturns, SnapshotAnswerLost, Fault
  <2>2. /\ Chained(db', entry') /\ entry'.doc = entry.doc
        /\ Recoverable(db') = entry.encoded
        /\ Recoverable(db) \subseteq entry.encoded
        /\ Shown(entry.doc) \subseteq entry.encoded \cup Unsettled(entry')
    BY <1>1, <2>1, InsertedKeeps
  <2> QED BY <1>1, <2>1, <2>2
<1>7. ASSUME SnapshotFails PROVE Goal
  <2>1. /\ up /\ entry.phase = "insert" /\ UNCHANGED <<db, up, unsaved, crashes>>
        /\ entry' = TaskFailed(entry) /\ faults' \in Nat
    BY <1>1, <1>7 DEF SnapshotFails, Fault
  <2>2. entry.writing = {}
    BY <1>1, <2>1 DEF Chained, TaskInv
  <2>3. /\ Chained(db', entry') /\ entry'.doc = entry.doc
        /\ Unsettled(entry) = Unsettled(entry')
    BY <1>1, <2>1, <2>2, FailedKeeps
  <2> QED BY <1>1, <2>1, <2>3
<1>8. ASSUME CompactEnds PROVE Goal
  <2>1. /\ up /\ entry.phase = "compact" /\ UNCHANGED <<up, unsaved, crashes>>
        /\ db' \in {db, CompactAfterSnapshot(db, entry.seq)}
        /\ entry' \in {TaskFailed(entry), SnapshotDone(entry)}
        /\ faults' \in Nat
    BY <1>1, <1>8 DEF CompactEnds, CompactReturns, CompactFails, Fault
  <2>2. /\ Chained(db', entry') /\ entry'.doc = entry.doc
        /\ Unsettled(entry') = Unsettled(entry)
        /\ Recoverable(db') = Recoverable(db)
    BY <1>1, <2>1, CompactedKeeps
  <2> QED BY <1>1, <2>1, <2>2
<1>9. Goal
  BY <1>2, <1>3, <1>4, <1>5, <1>6, <1>7, <1>8 DEF ChainStep, AppendEnds, SnapshotEnds
<1>10. TypeOK'
  <2>1. crashes \in Nat /\ db' \in Store /\ entry' \in Entry /\ up' \in BOOLEAN
    BY <1>9 DEF IInv, TypeOK, Chained
  <2> QED BY <1>9, <2>1 DEF TypeOK
<1>11. IInv'
  BY <1>9, <1>10 DEF IInv, Chained, SeenIsHeld
<1>12. Recoverable(db') \subseteq entry.doc
  BY <1>9 DEF Chained, ContentInv
<1> QED BY <1>9, <1>11, <1>12

LEMMA LoadKeeps ==
    ASSUME IInv, LoadDocument
    PROVE  IInv' /\ db' = db /\ entry'.doc = Recoverable(db)
<1>1. /\ up' = TRUE /\ UNCHANGED <<db, unsaved, faults, crashes>>
      /\ db \in Store /\ StoreInv(db)
  BY DEF LoadDocument, IInv, TypeOK
<1>2. PICK base \in LatestSnapshot(db) :
        \E n : /\ IsLoadedSeq(base, UpdatesAfter(db, base.seq), n)
               /\ entry' = NewEntry(LoadedContent(base, UpdatesAfter(db, base.seq)), n)
  BY DEF LoadDocument
<1>3. PICK n : /\ IsLoadedSeq(base, UpdatesAfter(db, base.seq), n)
               /\ entry' = NewEntry(LoadedContent(base, UpdatesAfter(db, base.seq)), n)
  BY <1>2
<1>4. PICK c \in SUBSET Update :
        /\ c = Recoverable(db) /\ n \in Nat
        /\ entry' = NewEntry(c, n)
        /\ \A s \in db.snapshots : s.seq <= n
        /\ \A r \in db.updates : r.seq <= n /\ r.updates \subseteq c
  BY <1>1, <1>3, LoadedIsRecoverable DEF StoreInv
<1>5. db.row
  <2>1. base \in db.snapshots
    BY DEF LatestSnapshot
  <2> QED BY <1>1, <2>1 DEF StoreInv
<1>6. Chained(db, entry') /\ entry'.doc = Recoverable(db)
  BY <1>1, <1>4, <1>5, NewEntryKeeps
<1>7. TypeOK'
  BY <1>1, <1>6 DEF IInv, TypeOK, Chained
<1>8. Shown(entry'.doc) \subseteq Recoverable(db')
  BY <1>1, <1>6, ShownGrows
<1>9. SeenIsHeld'
  BY <1>8 DEF SeenIsHeld
<1> QED BY <1>1, <1>6, <1>7, <1>9 DEF IInv

LEMMA CreateKeeps ==
    ASSUME IInv, CreateDocument
    PROVE  /\ IInv'
           /\ Recoverable(db) = {} /\ Recoverable(db') = {} /\ entry'.doc = {}
<1>1. /\ up' = TRUE /\ UNCHANGED <<unsaved, faults, crashes>>
      /\ db' = PersistInitialSnapshot(db)
      /\ entry' = NewEntry({}, 0)
      /\ ~db.row /\ db \in Store /\ StoreInv(db)
  BY DEF CreateDocument, CanInsertDocument, IInv, TypeOK
<1>2. /\ db' \in Store /\ StoreInv(db') /\ db'.row /\ db'.updates = {}
      /\ \A s \in db'.snapshots : s.seq <= 0
      /\ Recoverable(db') = {} /\ Recoverable(db) = {}
  BY <1>1, InitialKeeps
<1>3. Chained(db', entry') /\ entry'.doc = {}
  <2> DEFINE c == {}
  <2>1. c \in SUBSET Update /\ c = Recoverable(db') /\ 0 \in Nat
        /\ \A r \in db'.updates : r.seq <= 0 /\ r.updates \subseteq c
    BY <1>2
  <2>2. entry' = NewEntry(c, 0)
    BY <1>1
  <2> HIDE DEF c
  <2>3. Chained(db', entry') /\ entry'.doc = c
    BY <1>2, <2>1, <2>2, NewEntryKeeps
  <2> QED BY <2>3 DEF c
<1>4. TypeOK'
  BY <1>1, <1>2, <1>3 DEF IInv, TypeOK, Chained
<1>5. Shown(entry'.doc) = {}
  BY <1>3 DEF Shown
<1>6. SeenIsHeld'
  BY <1>5 DEF SeenIsHeld
<1> QED BY <1>1, <1>2, <1>3, <1>4, <1>6 DEF IInv

LEMMA CreateErrorKeeps ==
    ASSUME IInv, CreateDocumentError
    PROVE  /\ IInv'
           /\ ~up /\ up' = up
           /\ Recoverable(db') = Recoverable(db)
<1>1. /\ ~up /\ up' = up /\ UNCHANGED <<entry, unsaved, crashes>>
      /\ db' = db \/ db' = PersistInitialSnapshot(db)
      /\ ~db.row /\ db \in Store /\ StoreInv(db)
      /\ faults' \in Nat
  BY DEF CreateDocumentError, CanInsertDocument, Fault, IInv, TypeOK
<1>2. db' \in Store /\ StoreInv(db') /\ Recoverable(db') = Recoverable(db)
  BY <1>1, InitialKeeps
<1>3. TypeOK'
  <2>1. /\ up \in BOOLEAN /\ entry \in Entry
        /\ unsaved \subseteq Update /\ crashes \in Nat
    BY DEF IInv, TypeOK
  <2> QED BY <1>1, <1>2, <2>1 DEF TypeOK
<1> QED BY <1>1, <1>2, <1>3 DEF IInv, SeenIsHeld

LEMMA CrashKeeps ==
    ASSUME IInv, Crash
    PROVE  IInv'
<1>1. /\ up' = FALSE /\ entry' = NewEntry({}, 0) /\ unsaved' = {}
      /\ db' = db /\ faults' = faults /\ crashes' = crashes + 1
  BY DEF Crash, NoEntry
<1>2. entry' \in Entry
  BY <1>1, NewEntryType
<1>3. TypeOK'
  <2>1. db \in Store /\ faults \in Nat /\ crashes + 1 \in Nat
    BY DEF IInv, TypeOK
  <2> QED BY <1>1, <1>2, <2>1 DEF TypeOK
<1> QED BY <1>1, <1>3 DEF IInv, SeenIsHeld

LEMMA InitInv == Init => IInv
<1> SUFFICES ASSUME Init PROVE IInv
  OBVIOUS
<1>1. db \in Store /\ db.snapshots = {} /\ db.updates = {} /\ ~db.row
  BY DEF Init, EmptyStore, Store
<1>2. entry \in Entry
  BY NewEntryType DEF Init, NoEntry
<1>3. TypeOK /\ StoreInv(db)
  BY <1>1, <1>2 DEF Init, TypeOK, StoreInv, SnapshotsCoverLog
<1> QED BY <1>3 DEF Init, IInv, SeenIsHeld

\* IInv is inductive.
LEMMA NextInv == IInv /\ [Next]_vars => IInv'
<1> SUFFICES ASSUME IInv, [Next]_vars PROVE IInv'
  OBVIOUS
<1>1. CASE Open
  BY <1>1, LoadKeeps, CreateKeeps, CreateErrorKeeps DEF Open
<1>2. CASE ApplyUpdate
  BY <1>2, ApplyUpdateKeeps
<1>3. CASE ChainStep
  BY <1>3, ChainStepKeeps
<1>4. CASE Crash
  BY <1>4, CrashKeeps
<1>5. CASE UNCHANGED vars
  BY <1>5 DEF vars, IInv, TypeOK, SeenIsHeld
<1> QED BY <1>1, <1>2, <1>3, <1>4, <1>5 DEF Next

-----------------------------------------------------------------------------
(* The rows kept.                                                           *)

\* What the counters say of Leftover.
LEMMA LeftoverCounts ==
    ASSUME TypeOK
    PROVE  /\ Leftover \in Nat /\ MaxUpdates \in Nat /\ MaxUpdates > 0
           /\ KeepSnapshots \in Nat /\ KeepSnapshots > 0
           /\ faults \in Nat /\ crashes \in Nat
           /\ UNCHANGED <<faults, crashes>> => Leftover' = Leftover
           /\ UNCHANGED crashes /\ faults' = faults + 1 => Leftover' = Leftover + 1
           /\ UNCHANGED faults /\ crashes' = crashes + 1 =>
                Leftover' = Leftover + MaxUpdates
<1>1. /\ MaxUpdates \in Nat /\ MaxUpdates > 0 /\ KeepSnapshots \in Nat /\ KeepSnapshots > 0
      /\ faults \in Nat /\ crashes \in Nat
  BY MaxUpdatesAssumption, KeepSnapshotsAssumption DEF TypeOK
<1>2. MaxUpdates * crashes \in Nat
  BY <1>1
<1>3. MaxUpdates * (crashes + 1) = MaxUpdates * crashes + MaxUpdates
  BY <1>1
<1> QED BY <1>1, <1>2, <1>3 DEF Leftover

\* What StorageInv says of finite sets, and of the resident entry.
LEMMA Stored ==
    ASSUME IInv, StorageInv
    PROVE  /\ IsFiniteSet(db.updates) /\ IsFiniteSet(db.snapshots)
           /\ Cardinality(db.updates) \in Nat /\ Cardinality(db.snapshots) \in Nat
           /\ IsFiniteSet(OldRows) /\ Cardinality(OldRows) \in Nat
           /\ db \in Store /\ entry \in Entry
           /\ entry.seq \in Nat /\ entry.lastSnapshotSeq \in Nat
<1>1. /\ IsFiniteSet(db.updates) /\ IsFiniteSet(db.snapshots)
      /\ OldRows \in SUBSET db.updates
  BY DEF StorageInv, OldRows
<1>2. IsFiniteSet(OldRows)
  BY <1>1, FS_Subset
<1> QED BY <1>1, <1>2, FS_CardinalityType DEF IInv, TypeOK, Entry

\* The store and the counters stay as they are.
LEMMA StorageKept ==
    ASSUME IInv, StorageInv, UNCHANGED <<db, up, faults, crashes>>,
           entry'.lastSnapshotSeq = entry.lastSnapshotSeq,
           entry'.seq >= entry.seq, entry'.seq \in Nat,
           \/ entry'.phase = entry.phase /\ entry'.seq = entry.seq
           \/ /\ up /\ entry.phase = "idle" /\ entry'.phase = "append"
              /\ entry'.seq > entry.seq
           \/ up /\ entry.phase = "encode" /\ entry'.phase = "insert"
    PROVE  StorageInv'
<1>1. Leftover' = Leftover /\ OldRows' = OldRows
  BY LeftoverCounts DEF IInv, OldRows
<1>2. entry.seq \in Nat /\ entry.lastSnapshotSeq \in Nat
  BY Stored
<1> QED BY <1>1, <1>2 DEF StorageInv

LEMMA AppendStored ==
    ASSUME IInv, StorageInv, AppendReturns \/ AppendAnswerLost
    PROVE  StorageInv'
<1>1. /\ up /\ up' /\ entry.phase = "append"
      /\ UNCHANGED crashes
      /\ db' = AppendUpdate(db, entry.seq, entry.writing)
      /\ Chained(db, entry)
  BY DEF AppendReturns, AppendAnswerLost, WithRow, IInv
<1> DEFINE row == [seq |-> entry.seq, updates |-> entry.writing]
<1>3. db'.snapshots = db.snapshots /\ db'.updates = db.updates \cup {row}
  BY <1>1, Stored DEF AppendUpdate, Store
<1>4. \A r \in db.updates : r.seq < entry.seq /\ r.seq \in Nat
  BY <1>1 DEF Chained, SeqInv, Store, UpdateRow
<1>5. IsFiniteSet(db'.updates) /\ Cardinality(db'.updates) = Cardinality(db.updates) + 1
  <2>1. row \notin db.updates
    BY <1>4, Stored
  <2> HIDE DEF row
  <2>2. IsFiniteSet(db.updates)
    BY Stored
  <2>3. /\ IsFiniteSet(db.updates \cup {row})
        /\ Cardinality(db.updates \cup {row}) = Cardinality(db.updates) + 1
    BY <2>1, <2>2, FS_AddElement
  <2> QED BY <1>3, <2>3
<1>6. \A r, q \in db'.updates : r.seq = q.seq => r = q
  BY <1>3, <1>4 DEF StorageInv
<1>7. /\ entry'.lastSnapshotSeq = entry.lastSnapshotSeq /\ entry'.seq = entry.seq
      /\ \/ entry'.phase = "encode"
         \/ /\ entry'.phase = "idle" /\ faults' = faults
            /\ entry.seq - entry.lastSnapshotSeq < MaxUpdates
         \/ entry'.phase = "idle" /\ faults' = faults + 1
      /\ faults' = faults \/ faults' = faults + 1
  <2>1. CASE AppendAnswerLost
    BY <2>1, Stored DEF AppendAnswerLost, Fault, TaskFailed, Entry
  <2>2. CASE AppendReturns
    <3>1. PICK late \in BOOLEAN : entry' = Appended(entry, late) /\ faults' = faults
      BY <2>2 DEF AppendReturns
    <3>2. /\ entry.seq - entry.lastSnapshotSeq \in Int /\ MaxUpdates \in Nat
      BY Stored, MaxUpdatesAssumption
    <3> QED BY <3>1, <3>2, Stored DEF Appended, TaskDone, ShouldSnapshot, Entry
  <2> QED BY <2>1, <2>2
<1>8. OldRows' = OldRows
  <2>1. /\ entry.lastSnapshotSeq < row.seq
        /\ row.seq \in Nat /\ entry.lastSnapshotSeq \in Nat
    BY <1>1, Stored DEF StorageInv
  <2>2. ~(row.seq <= entry.lastSnapshotSeq)
    BY <2>1
  <2> HIDE DEF row
  <2> QED BY <1>3, <1>7, <2>2 DEF OldRows
<1>9. /\ entry.lastSnapshotSeq < entry.seq
      /\ Cardinality(OldRows) <= Leftover
      /\ Cardinality(db.updates) < Leftover + MaxUpdates
      /\ Cardinality(db.snapshots) <= KeepSnapshots + faults + crashes
  BY <1>1 DEF StorageInv
<1>10. Leftover' = Leftover + (faults' - faults)
  BY <1>1, <1>7, LeftoverCounts DEF IInv
<1>11. entry'.phase = "idle" => Cardinality(db'.updates) < Leftover' + MaxUpdates
  <2>1. CASE entry'.phase = "idle" /\ faults' = faults /\ entry.seq - entry.lastSnapshotSeq < MaxUpdates
    <3>1. \A r \in db'.updates : r.seq \in Nat /\ r.seq <= entry.seq
      BY <1>3, <1>4, Stored
    <3>2. OldRows = {r \in db'.updates : r.seq <= entry.lastSnapshotSeq}
      BY <1>7, <1>8 DEF OldRows
    <3>3. Cardinality(db'.updates) <= Cardinality(OldRows) + (entry.seq - entry.lastSnapshotSeq)
      <4>1. /\ entry.seq \in Nat /\ entry.lastSnapshotSeq \in Nat
            /\ entry.lastSnapshotSeq <= entry.seq
        BY <1>9, Stored
      <4> HIDE DEF row
      <4> QED BY <1>5, <1>6, <3>1, <3>2, <4>1, RowsCounted
    <3> QED BY <1>5, <1>9, <1>10, <2>1, <3>3, Stored, LeftoverCounts DEF IInv
  <2>2. CASE entry'.phase = "idle" /\ faults' = faults + 1
    BY <1>5, <1>9, <1>10, <2>2, Stored, LeftoverCounts DEF IInv
  <2> QED BY <1>7, <2>1, <2>2
<1> QED BY <1>1, <1>3, <1>5, <1>6, <1>7, <1>8, <1>9, <1>10, <1>11, Stored, LeftoverCounts DEF StorageInv, IInv

\* A task that fails before it has written anything: one more failure.
LEMMA FailedStored ==
    ASSUME IInv, StorageInv, AppendFails \/ SnapshotFails
    PROVE  StorageInv'
<1>1. /\ up /\ up' /\ db' = db /\ crashes' = crashes /\ faults' = faults + 1
      /\ entry.phase \in {"append", "insert"}
      /\ entry' = TaskFailed(entry)
  BY DEF AppendFails, SnapshotFails, Fault
<1>2. /\ entry'.phase = "idle" /\ entry'.seq = entry.seq
      /\ entry'.lastSnapshotSeq = entry.lastSnapshotSeq
  BY <1>1, Stored DEF TaskFailed, Entry
<1>3. OldRows' = OldRows /\ Leftover' = Leftover + 1
  BY <1>1, <1>2, LeftoverCounts DEF IInv, OldRows
<1> QED BY <1>1, <1>2, <1>3, Stored, LeftoverCounts DEF StorageInv, IInv

LEMMA SnapshotStored ==
    ASSUME IInv, StorageInv, SnapshotReturns \/ SnapshotAnswerLost
    PROVE  StorageInv'
<1>1. /\ up /\ up' /\ crashes' = crashes /\ entry.phase = "insert"
      /\ db' = InsertSnapshot(db, entry.seq, entry.encoded)
      /\ \/ faults' = faults /\ entry' = SnapshotInserted(entry)
         \/ faults' = faults + 1 /\ entry' = TaskFailed(entry)
  BY DEF SnapshotReturns, SnapshotAnswerLost, Fault
<1> DEFINE new == [seq |-> entry.seq, content |-> entry.encoded]
<1>2. db'.updates = db.updates /\ db'.snapshots = db.snapshots \cup {new}
  BY <1>1, Stored DEF InsertSnapshot, Store
<1> HIDE DEF new
<1>3. /\ IsFiniteSet(db'.snapshots) /\ Cardinality(db'.snapshots) \in Nat
      /\ Cardinality(db'.snapshots) <= Cardinality(db.snapshots) + 1
  <2>1. /\ IsFiniteSet(db.snapshots \cup {new})
        /\ Cardinality(db.snapshots \cup {new}) =
             IF new \in db.snapshots THEN Cardinality(db.snapshots)
             ELSE Cardinality(db.snapshots) + 1
    BY Stored, FS_AddElement
  <2>2. Cardinality(db.snapshots \cup {new}) <= Cardinality(db.snapshots) + 1
    BY <2>1, Stored
  <2> QED BY <1>2, <2>1, <2>2, FS_CardinalityType
<1>4. /\ entry'.seq = entry.seq /\ entry'.lastSnapshotSeq = entry.lastSnapshotSeq
      /\ \/ faults' = faults /\ entry'.phase = "compact"
         \/ faults' = faults + 1 /\ entry'.phase = "idle"
  BY <1>1, Stored DEF SnapshotInserted, TaskFailed, Entry
<1>5. OldRows' = OldRows /\ Leftover' = Leftover + (faults' - faults)
  BY <1>1, <1>2, <1>4, LeftoverCounts DEF IInv, OldRows
<1> QED BY <1>1, <1>2, <1>3, <1>4, <1>5, Stored, LeftoverCounts DEF StorageInv, IInv

\* A compaction leaves KeepSnapshots snapshots at most, and no log.
LEMMA CompactStored ==
    ASSUME IInv, StorageInv, CompactEnds
    PROVE  StorageInv'
<1>1. /\ up /\ up' /\ crashes' = crashes /\ entry.phase = "compact"
      /\ Chained(db, entry)
      /\ \/ /\ faults' = faults /\ entry' = SnapshotDone(entry)
            /\ db' = CompactAfterSnapshot(db, entry.seq)
         \/ /\ faults' = faults + 1 /\ entry' = TaskFailed(entry)
            /\ db' \in {db, CompactAfterSnapshot(db, entry.seq)}
  BY DEF CompactEnds, CompactReturns, CompactFails, Fault, IInv
<1>2. /\ entry'.phase = "idle" /\ entry'.seq = entry.seq
      /\ \/ faults' = faults /\ entry'.lastSnapshotSeq = entry.seq
         \/ faults' = faults + 1 /\ entry'.lastSnapshotSeq = entry.lastSnapshotSeq
      /\ entry'.lastSnapshotSeq \in Nat /\ entry'.lastSnapshotSeq <= entry'.seq
  <2>1. entry.lastSnapshotSeq <= entry.seq
    BY <1>1 DEF StorageInv
  <2>2. CASE faults' = faults /\ entry' = SnapshotDone(entry)
    BY <2>1, <2>2, Stored DEF SnapshotDone, TaskDone, Entry
  <2>3. CASE faults' = faults + 1 /\ entry' = TaskFailed(entry)
    BY <2>1, <2>3, Stored DEF TaskFailed, Entry
  <2> QED BY <1>1, <2>2, <2>3
<1>3. Leftover' = Leftover + (faults' - faults)
  BY <1>1, LeftoverCounts DEF IInv
<1>4. CASE db' = CompactAfterSnapshot(db, entry.seq)
  <2>1. /\ db'.updates = UpdatesAfter(db, entry.seq)
        /\ db'.snapshots = {s \in db.snapshots :
              Cardinality({t \in db.snapshots : t.seq > s.seq}) < KeepSnapshots}
    BY <1>4, Stored DEF CompactAfterSnapshot, Store
  <2>2. db'.updates = {}
    BY <1>1, <2>1, Stored DEF UpdatesAfter, Chained, SeqInv, Store, UpdateRow
  <2>3. IsFiniteSet(db'.snapshots) /\ Cardinality(db'.snapshots) \in Nat
    <3>1. db'.snapshots \in SUBSET db.snapshots
      BY <2>1
    <3> QED BY <3>1, Stored, FS_Subset, FS_CardinalityType
  <2>4. Cardinality(db'.snapshots) <= KeepSnapshots
    <3>1. /\ \A s \in db.snapshots : s.seq \in Nat
          /\ \A s, t \in db.snapshots : s.seq = t.seq => s = t
      BY Stored DEF IInv, StoreInv, Store, SnapshotRow
    <3> QED BY <2>1, <3>1, Stored, KeptSnapshots
  <2>5. /\ IsFiniteSet(db'.updates) /\ Cardinality(db'.updates) = 0
        /\ Cardinality(OldRows') = 0
    <3>1. OldRows' = {}
      BY <2>2 DEF OldRows
    <3> QED BY <2>2, <3>1, FS_EmptySet
  <2> QED BY <1>1, <1>2, <1>3, <2>2, <2>3, <2>4, <2>5, LeftoverCounts DEF StorageInv, IInv
<1>5. CASE db' = db
  <2>1. faults' = faults + 1 \/ db' = CompactAfterSnapshot(db, entry.seq)
    BY <1>1
  <2>2. CASE faults' = faults + 1
    <3>1. OldRows' = OldRows
      BY <1>2, <1>5, <2>2, LeftoverCounts DEF OldRows, IInv
    <3> QED BY <1>1, <1>2, <1>3, <1>5, <2>2, <3>1, Stored, LeftoverCounts DEF StorageInv, IInv
  <2> QED BY <1>4, <2>1, <2>2
<1> QED BY <1>1, <1>4, <1>5

\* A fresh entry counts from the last row there is.
LEMMA OpenStored ==
    ASSUME IInv, StorageInv, Open
    PROVE  StorageInv'
<1>1. CASE LoadDocument
  <2>1. /\ ~up /\ up' /\ UNCHANGED <<db, faults, crashes>>
        /\ \E c, n : entry' = NewEntry(c, n)
    BY <1>1 DEF LoadDocument
  <2>2. Chained(db', entry') /\ entry' \in Entry
    BY <1>1, <2>1, LoadKeeps DEF IInv, TypeOK
  <2>3. entry'.phase = "idle" /\ entry'.lastSnapshotSeq = entry'.seq /\ entry'.seq \in Nat
    BY <2>1, <2>2 DEF NewEntry, Entry
  <2>4. OldRows' = db.updates
    BY <2>1, <2>2, <2>3 DEF OldRows, Chained, SeqInv
  <2>5. Leftover' = Leftover
    BY <2>1, LeftoverCounts DEF IInv
  <2> QED BY <2>1, <2>3, <2>4, <2>5, Stored, LeftoverCounts DEF StorageInv, IInv
<1>2. ASSUME NEW st, st = PersistInitialSnapshot(db), ~db.row
      PROVE  /\ st.updates = {} /\ IsFiniteSet(st.updates) /\ Cardinality(st.updates) = 0
             /\ IsFiniteSet(st.snapshots) /\ Cardinality(st.snapshots) = 1
  <2>1. db.updates = {}
    BY <1>2 DEF IInv, StoreInv
  <2> DEFINE first == [seq |-> 0, content |-> {}]
  <2>2. st.updates = {} /\ st.snapshots = {first}
    BY <1>2, <2>1 DEF PersistInitialSnapshot
  <2> HIDE DEF first
  <2> QED BY <2>2, FS_EmptySet, FS_Singleton
<1>3. CASE CreateDocument
  <2>1. /\ ~up /\ up' /\ UNCHANGED <<faults, crashes>>
        /\ db' = PersistInitialSnapshot(db) /\ ~db.row
        /\ entry' = NewEntry({}, 0)
    BY <1>3 DEF CreateDocument, CanInsertDocument
  <2>2. entry'.phase = "idle" /\ entry'.lastSnapshotSeq = 0 /\ entry'.seq = 0
    BY <2>1 DEF NewEntry
  <2>3. Leftover' = Leftover
    BY <2>1, LeftoverCounts DEF IInv
  <2>4. /\ db'.updates = {} /\ IsFiniteSet(db'.updates) /\ Cardinality(db'.updates) = 0
        /\ IsFiniteSet(db'.snapshots) /\ Cardinality(db'.snapshots) = 1
    BY <1>2, <2>1
  <2>5. Cardinality(OldRows') = 0
    <3>1. OldRows' = {}
      BY <2>4 DEF OldRows
    <3> QED BY <3>1, FS_EmptySet
  <2> QED BY <2>1, <2>2, <2>3, <2>4, <2>5, LeftoverCounts DEF StorageInv, IInv
<1>4. CASE CreateDocumentError
  <2>1. /\ ~up /\ ~up' /\ UNCHANGED <<entry, crashes>> /\ faults' = faults + 1
        /\ db' = db \/ db' = PersistInitialSnapshot(db)
        /\ ~db.row
    BY <1>4 DEF CreateDocumentError, CanInsertDocument, Fault
  <2>2. Leftover' = Leftover + 1
    BY <2>1, LeftoverCounts DEF IInv
  <2>3. CASE db' = db
    BY <2>1, <2>2, <2>3, Stored, LeftoverCounts DEF StorageInv, IInv
  <2>4. CASE db' = PersistInitialSnapshot(db)
    <3>1. /\ db'.updates = {} /\ IsFiniteSet(db'.updates) /\ Cardinality(db'.updates) = 0
          /\ IsFiniteSet(db'.snapshots) /\ Cardinality(db'.snapshots) = 1
      BY <1>2, <2>1, <2>4
    <3> QED BY <2>1, <2>2, <3>1, LeftoverCounts DEF StorageInv, IInv
  <2> QED BY <2>1, <2>3, <2>4
<1> QED BY <1>1, <1>3, <1>4 DEF Open

\* What a crash leaves uncompacted is one more run of the policy.
LEMMA CrashStored ==
    ASSUME IInv, StorageInv, Crash
    PROVE  StorageInv'
<1>1. /\ up /\ ~up' /\ UNCHANGED <<db, faults>> /\ crashes' = crashes + 1
      /\ entry' = NewEntry({}, 0)
  BY DEF Crash, NoEntry
<1>2. entry'.phase = "idle"
  BY <1>1 DEF NewEntry
<1>3. Leftover' = Leftover + MaxUpdates
  BY <1>1, LeftoverCounts DEF IInv
<1>4. Cardinality(db.updates) <= Leftover + MaxUpdates
  BY <1>1, Stored, LeftoverCounts DEF StorageInv, IInv
<1>5. Cardinality(db.snapshots) <= KeepSnapshots + faults + crashes'
  BY <1>1, Stored, LeftoverCounts DEF StorageInv, IInv
<1> QED BY <1>1, <1>2, <1>3, <1>4, <1>5 DEF StorageInv

LEMMA InitStored == Init => StorageInv
<1> SUFFICES ASSUME Init PROVE StorageInv
  OBVIOUS
<1>1. /\ db.snapshots = {} /\ db.updates = {} /\ ~up
      /\ entry.phase = "idle" /\ faults = 0 /\ crashes = 0
  BY DEF Init, EmptyStore, NoEntry, NewEntry
<1>2. Leftover \in Nat /\ KeepSnapshots \in Nat
  BY InitInv, LeftoverCounts DEF IInv
<1> QED BY <1>1, <1>2, FS_EmptySet DEF StorageInv

LEMMA NextStored == IInv /\ StorageInv /\ [Next]_vars => StorageInv'
<1> SUFFICES ASSUME IInv, StorageInv, [Next]_vars PROVE StorageInv'
  OBVIOUS
<1>1. CASE Open
  BY <1>1, OpenStored
<1>2. CASE ApplyUpdate
  <2>1. /\ UNCHANGED <<db, up, faults, crashes>>
        /\ \E us \in SUBSET Update : entry' = Received(entry, us)
    BY <1>2 DEF ApplyUpdate
  <2>2. /\ entry'.lastSnapshotSeq = entry.lastSnapshotSeq
        /\ entry'.seq = entry.seq /\ entry'.phase = entry.phase
    BY <2>1, Stored, ReceivedType
  <2> QED BY <2>1, <2>2, Stored, StorageKept
<1>3. CASE StartTask
  <2>1. /\ UNCHANGED <<db, up, faults, crashes>> /\ up /\ entry.phase = "idle"
        /\ entry' = TaskStarted(entry)
    BY <1>3 DEF StartTask
  <2>2. /\ entry'.lastSnapshotSeq = entry.lastSnapshotSeq
        /\ entry'.seq = entry.seq + 1 /\ entry'.phase = "append"
    BY <2>1, Stored DEF TaskStarted, Entry
  <2> QED BY <2>1, <2>2, Stored, StorageKept
<1>4. CASE EncodeSnapshot
  <2>1. /\ UNCHANGED <<db, up, faults, crashes>> /\ up /\ entry.phase = "encode"
        /\ entry' = Encoded(entry)
    BY <1>4 DEF EncodeSnapshot
  <2>2. /\ entry'.lastSnapshotSeq = entry.lastSnapshotSeq
        /\ entry'.seq = entry.seq /\ entry'.phase = "insert"
    BY <2>1, Stored DEF Encoded, Entry
  <2> QED BY <2>1, <2>2, Stored, StorageKept
<1>5. CASE AppendEnds
  BY <1>5, AppendStored, FailedStored DEF AppendEnds
<1>6. CASE SnapshotEnds
  BY <1>6, SnapshotStored, FailedStored DEF SnapshotEnds
<1>7. CASE CompactEnds
  BY <1>7, CompactStored
<1>8. CASE Crash
  BY <1>8, CrashStored
<1>9. CASE UNCHANGED vars
  BY <1>9, Stored, StorageKept DEF vars
<1> QED BY <1>1, <1>2, <1>3, <1>4, <1>5, <1>6, <1>7, <1>8, <1>9 DEF Next, ChainStep

-----------------------------------------------------------------------------
(* The theorems.                                                            *)

\* The inductive invariant holds in every reachable state.
THEOREM Invariant == Spec => []IInv
<1>1. Init => IInv
  BY InitInv
<1>2. IInv /\ [Next]_vars => IInv'
  BY NextInv
<1> QED BY <1>1, <1>2, PTL DEF Spec

\* Type correctness of the write path.
THEOREM TypeCorrectness == Spec => []TypeOK
BY Invariant, PTL DEF IInv

\* No insert of the chain meets a row with its key, after any failed write,
\* lost answer or restart.
THEOREM PrimaryKeysStayFree == Spec => []PrimaryKeysFree
<1>1. IInv => PrimaryKeysFree
  <2> SUFFICES ASSUME IInv, up PROVE PrimaryKeysFree
    BY DEF PrimaryKeysFree
  <2>1. Chained(db, entry)
    BY DEF IInv
  <2>2. ASSUME entry.phase = "append" PROVE CanInsertUpdate(db, entry.seq)
    BY <2>1, <2>2 DEF Chained, SeqInv, CanInsertUpdate, Entry, Store, UpdateRow
  <2>3. ASSUME entry.phase = "insert" PROVE CanInsertSnapshot(db, entry.seq)
    BY <2>1, <2>3 DEF Chained, SeqInv, CanInsertSnapshot, Entry, Store, SnapshotRow
  <2> QED BY <2>2, <2>3 DEF PrimaryKeysFree
<1> QED BY <1>1, Invariant, PTL

\* Compaction never deletes the only copy of an update.
THEOREM CompactionCovered == Spec => []CompactionIsCovered
<1>1. IInv => CompactionIsCovered
  BY DEF IInv, StoreInv, CompactionIsCovered
<1> QED BY <1>1, Invariant, PTL

\* What users see a restart shows, unless the update or one it was made upon
\* is in the chain or had its append fail: if none of them is, each is held
\* by a row, and a document that holds them all shows the update.
THEOREM AtRisk == Spec => []OnlyFailedAppendsAtRisk
<1>1. IInv => OnlyFailedAppendsAtRisk
  <2> SUFFICES ASSUME IInv, up, NEW u \in Shown(entry.doc)
               PROVE  \/ u \in Shown(Recoverable(db))
                      \/ History(u) \cap (Unsettled(entry) \cup unsaved) # {}
    BY DEF OnlyFailedAppendsAtRisk
  <2>1. History(u) \subseteq Shown(entry.doc)
    BY ShownClosed DEF IInv, TypeOK, Entry
  <2>2. History(u) \subseteq Recoverable(db) \cup (Unsettled(entry) \cup unsaved)
    BY <2>1 DEF IInv, SeenIsHeld
  <2> QED BY <2>2, ShownUnless
<1> QED BY <1>1, Invariant, PTL

\* pendingUpdates counts the chain's tasks exactly.
THEOREM PendingExact == Spec => []PendingIsExact
BY Invariant, CountedIsExact, PTL

\* The rows kept stay within what the policy, the crashes and the failures
\* account for.
THEOREM StorageStaysBounded == Spec => []StorageBounded
<1>1. IInv /\ StorageInv => StorageBounded
  <2> SUFFICES ASSUME IInv, StorageInv PROVE StorageBounded
    OBVIOUS
  <2> DEFINE rows == MaxUpdates * (1 + crashes) + faults
  <2>1. rows = Leftover + MaxUpdates
    <3>1. MaxUpdates \in Nat /\ crashes \in Nat /\ faults \in Nat
      BY LeftoverCounts DEF IInv
    <3>2. MaxUpdates * (1 + crashes) = MaxUpdates * crashes + MaxUpdates
      BY <3>1
    <3>3. MaxUpdates * crashes \in Nat
      BY <3>1
    <3> QED BY <3>1, <3>2, <3>3 DEF Leftover
  <2>2. /\ Leftover \in Nat /\ MaxUpdates \in Nat /\ KeepSnapshots \in Nat
        /\ faults \in Nat /\ crashes \in Nat
    BY LeftoverCounts DEF IInv
  <2>3. Cardinality(db.updates) \in Nat /\ Cardinality(db.snapshots) \in Nat
    BY Stored
  <2> HIDE DEF rows
  <2>4. Cardinality(db.updates) <= (IF up /\ entry.phase = "idle" THEN rows - 1 ELSE rows)
    <3>1. Cardinality(db.updates) <= rows
      BY <2>1, <2>2, <2>3 DEF StorageInv
    <3>2. up /\ entry.phase = "idle" => Cardinality(db.updates) <= rows - 1
      BY <2>1, <2>2, <2>3 DEF StorageInv
    <3> QED BY <3>1, <3>2
  <2>5. Cardinality(db.snapshots) <=
          KeepSnapshots + faults + crashes + (IF entry.phase = "compact" THEN 1 ELSE 0)
    <3>1. CASE entry.phase = "compact"
      BY <3>1 DEF StorageInv
    <3>2. CASE entry.phase # "compact"
      <4>1. Cardinality(db.snapshots) <= KeepSnapshots + faults + crashes
        BY <3>2 DEF StorageInv
      <4> QED BY <2>2, <2>3, <3>2, <4>1
    <3> QED BY <3>1, <3>2
  <2> QED BY <2>4, <2>5 DEF StorageBounded, rows
<1> QED BY <1>1, InitInv, NextInv, InitStored, NextStored, PTL DEF Spec

\* Log, snapshots and compaction implement durable storage: what a restart
\* brings back never shrinks, and is what users see after it.
THEOREM ImplementsDurableDoc == Spec => DurableSpec
<1>1. Init => Durable!Init
  <2> SUFFICES ASSUME Init PROVE Durable!Init
    OBVIOUS
  <2>1. db = EmptyStore /\ up = FALSE
    BY DEF Init
  <2>2. LatestSnapshot(db) = {}
    BY <2>1 DEF LatestSnapshot, EmptyStore
  <2>3. Recoverable(db) = {}
    BY <2>2 DEF Recoverable
  <2> QED BY <2>1, <2>3 DEF Durable!Init, Shown
<1>2. IInv /\ [Next]_vars => [Durable!Next]_Durable!vars
  <2> SUFFICES ASSUME IInv, [Next]_vars PROVE [Durable!Next]_Durable!vars
    OBVIOUS
  <2>1. CASE LoadDocument
    <3>1. up = FALSE /\ up' = TRUE /\ db' = db /\ entry'.doc = Recoverable(db)
      BY <2>1, LoadKeeps DEF LoadDocument, IInv, TypeOK
    <3> QED BY <3>1 DEF Durable!Next, Durable!Open
  <2>2. CASE CreateDocument
    <3>1. /\ up = FALSE /\ up' = TRUE
          /\ Recoverable(db) = {} /\ Recoverable(db') = {} /\ entry'.doc = {}
      BY <2>2, CreateKeeps DEF CreateDocument, IInv, TypeOK
    <3> QED BY <3>1 DEF Durable!Next, Durable!Open
  <2>3. CASE CreateDocumentError
    BY <2>3, CreateErrorKeeps DEF CreateDocumentError, Durable!vars
  <2>4. CASE ApplyUpdate
    <3>1. /\ up = TRUE /\ up' = TRUE /\ db' = db
          /\ Shown(entry.doc) \subseteq Shown(entry'.doc)
          /\ Shown(entry'.doc) \in SUBSET Update
      <4>1. up /\ Chained(db, entry) /\ IInv'
        BY <2>4, ApplyUpdateKeeps DEF ApplyUpdate, IInv
      <4>2. entry'.doc \in SUBSET Update
        BY <4>1 DEF IInv, TypeOK, Entry
      <4> QED BY <2>4, <4>1, <4>2, ApplyUpdateKeeps, ShownGrows DEF ApplyUpdate, IInv, TypeOK
    <3> QED BY <3>1 DEF Durable!Next, Durable!Edit
  <2>5. CASE ChainStep
    <3>1. /\ up = TRUE /\ up' = TRUE /\ entry'.doc = entry.doc
          /\ Shown(Recoverable(db)) \subseteq Shown(Recoverable(db'))
          /\ Shown(Recoverable(db')) \subseteq Shown(entry.doc)
      BY <2>5, ChainStepKeeps, ShownGrows DEF IInv, TypeOK
    <3> QED BY <3>1 DEF Durable!Next, Durable!Save
  <2>6. CASE Crash
    <3>1. up = TRUE /\ up' = FALSE /\ db' = db
      BY <2>6 DEF Crash, IInv, TypeOK
    <3> QED BY <3>1 DEF Durable!Next, Durable!Crash
  <2>7. CASE UNCHANGED vars
    BY <2>7 DEF vars, Durable!vars
  <2> QED BY <2>1, <2>2, <2>3, <2>4, <2>5, <2>6, <2>7 DEF Next, Open
<1> QED BY <1>1, <1>2, Invariant, PTL DEF Spec, DurableSpec, Durable!Spec

=============================================================================
