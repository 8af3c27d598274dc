----------------------------- MODULE UpdateChain -----------------------------
(***************************************************************************)
(* The write path of one collaborative document: DocumentRegistry loads it *)
(* or creates it, clients change it, and the entry's promise chain writes  *)
(* every update to the log and, now and then, a snapshot that compacts the *)
(* log.  Any database call may fail, with or without having committed, and *)
(* the server may crash between any two steps and load the document again. *)
(*                                                                         *)
(* Here one entry at a time writes: the document stays resident from its   *)
(* load to the crash.  What eviction and deletion add, several entries of  *)
(* one document among them, is module DocumentRegistry's subject.          *)
(***************************************************************************)
EXTENDS ActiveDocument

CONSTANTS
    MaxFaults,     \* bound: database calls that fail
    MaxCrashes     \* bound: crashes of the server

ASSUME BoundsAssumption == MaxFaults \in Nat /\ MaxCrashes \in Nat

VARIABLES
    db,        \* the rows of the document: all that survives a crash
    up,        \* the document is resident (it is in DocumentRegistry.docs)
    entry,     \* its ActiveDocument
    unsaved,   \* history: updates whose append failed, no snapshot written since
    faults,    \* history: database calls that have failed
    crashes    \* history: crashes

vars == <<db, up, entry, unsaved, faults, crashes>>

NoEntry == NewEntry({}, 0)

TypeOK ==
    /\ db \in Store
    /\ up \in BOOLEAN
    /\ entry \in Entry
    /\ unsaved \subseteq Update
    /\ faults \in Nat
    /\ crashes \in Nat

Init ==
    /\ db = EmptyStore
    /\ up = FALSE
    /\ entry = NoEntry
    /\ unsaved = {}
    /\ faults = 0
    /\ crashes = 0

Fault == faults < MaxFaults /\ faults' = faults + 1

-----------------------------------------------------------------------------
(* loadOrCreate.  No entry exists, so nothing writes between its SELECTs.   *)

\* The document has a snapshot: load it, with seq = lastSnapshotSeq = the
\* seq of the last row read.
LoadDocument ==
    /\ ~up
    /\ \E base \in LatestSnapshot(db) :
         LET rows == UpdatesAfter(db, base.seq)
         IN  \E n \in {base.seq} \cup {r.seq : r \in rows} :
               /\ IsLoadedSeq(base, rows, n)
               /\ entry' = NewEntry(LoadedContent(base, rows), n)
    /\ up' = TRUE
    /\ UNCHANGED <<db, unsaved, faults, crashes>>

\* It has none: initDocument, then persistInitialSnapshot in a transaction.
CreateDocument ==
    /\ ~up
    /\ LatestSnapshot(db) = {}
    /\ CanInsertDocument(db)
    /\ db' = PersistInitialSnapshot(db)
    /\ entry' = NewEntry({}, 0)
    /\ up' = TRUE
    /\ UNCHANGED <<unsaved, faults, crashes>>

\* That transaction fails, or commits and the answer is lost: acquire throws.
CreateDocumentError ==
    /\ ~up
    /\ LatestSnapshot(db) = {}
    /\ CanInsertDocument(db)
    /\ Fault
    /\ db' \in {db, PersistInitialSnapshot(db)}
    /\ UNCHANGED <<up, entry, unsaved, crashes>>

-----------------------------------------------------------------------------
(* The live document and the chain.                                         *)

\* A client sends updates, in one message or in the answer to a state vector:
\* the next ones it made, some without the earlier ones they rest on (those
\* were lost on the way), or earlier ones once more.
ApplyUpdate ==
    /\ up
    /\ \E us \in SUBSET Update :
         /\ ~(us \subseteq entry.doc)
         /\ entry' = Received(entry, us)
    /\ UNCHANGED <<db, up, unsaved, faults, crashes>>

StartTask ==
    /\ up
    /\ entry.phase = "idle"
    /\ entry.queue # <<>>
    /\ entry' = TaskStarted(entry)
    /\ UNCHANGED <<db, up, unsaved, faults, crashes>>

\* The rows with the one the running task writes.
WithRow == AppendUpdate(db, entry.seq, entry.writing)

AppendReturns ==
    /\ up
    /\ entry.phase = "append"
    /\ CanInsertUpdate(db, entry.seq)
    /\ db' = WithRow
    /\ \E tooMuchTime \in BOOLEAN : entry' = Appended(entry, tooMuchTime)
    /\ UNCHANGED <<up, unsaved, faults, crashes>>

AppendFails ==
    /\ up
    /\ entry.phase = "append"
    /\ Fault
    /\ db' = db
    /\ unsaved' = unsaved \cup entry.writing
    /\ entry' = TaskFailed(entry)
    /\ UNCHANGED <<up, crashes>>

\* The row is written, but the call rejects (the connection broke).
AppendAnswerLost ==
    /\ up
    /\ entry.phase = "append"
    /\ CanInsertUpdate(db, entry.seq)
    /\ Fault
    /\ db' = WithRow
    /\ entry' = TaskFailed(entry)
    /\ UNCHANGED <<up, unsaved, crashes>>

EncodeSnapshot ==
    /\ up
    /\ entry.phase = "encode"
    /\ entry' = Encoded(entry)
    /\ UNCHANGED <<db, up, unsaved, faults, crashes>>

SnapshotReturns ==
    /\ up
    /\ entry.phase = "insert"
    /\ CanInsertSnapshot(db, entry.seq)
    /\ db' = InsertSnapshot(db, entry.seq, entry.encoded)
    /\ unsaved' = {}
    /\ entry' = SnapshotInserted(entry)
    /\ UNCHANGED <<up, faults, crashes>>

SnapshotFails ==
    /\ up
    /\ entry.phase = "insert"
    /\ Fault
    /\ entry' = TaskFailed(entry)
    /\ UNCHANGED <<db, up, unsaved, crashes>>

SnapshotAnswerLost ==
    /\ up
    /\ entry.phase = "insert"
    /\ CanInsertSnapshot(db, entry.seq)
    /\ Fault
    /\ db' = InsertSnapshot(db, entry.seq, entry.encoded)
    /\ unsaved' = {}
    /\ entry' = TaskFailed(entry)
    /\ UNCHANGED <<up, crashes>>

CompactReturns ==
    /\ up
    /\ entry.phase = "compact"
    /\ db' = CompactAfterSnapshot(db, entry.seq)
    /\ entry' = SnapshotDone(entry)
    /\ UNCHANGED <<up, unsaved, faults, crashes>>

\* The compaction rolls back, or commits and its answer is lost.
CompactFails ==
    /\ up
    /\ entry.phase = "compact"
    /\ Fault
    /\ db' \in {db, CompactAfterSnapshot(db, entry.seq)}
    /\ entry' = TaskFailed(entry)
    /\ UNCHANGED <<up, unsaved, crashes>>

\* The process dies: what is only in memory is gone.  (SIGTERM too: no
\* shutdown hook flushes the chains.)
Crash ==
    /\ up
    /\ crashes < MaxCrashes
    /\ crashes' = crashes + 1
    /\ up' = FALSE
    /\ entry' = NoEntry
    /\ unsaved' = {}
    /\ UNCHANGED <<db, faults>>

-----------------------------------------------------------------------------
Open        == LoadDocument \/ CreateDocument \/ CreateDocumentError
AppendEnds   == AppendReturns \/ AppendFails \/ AppendAnswerLost
SnapshotEnds == SnapshotReturns \/ SnapshotFails \/ SnapshotAnswerLost
CompactEnds  == CompactReturns \/ CompactFails

\* One step of the chain.
ChainStep == StartTask \/ AppendEnds \/ EncodeSnapshot \/ SnapshotEnds \/ CompactEnds

Next == Open \/ ApplyUpdate \/ ChainStep \/ Crash

Spec == Init /\ [][Next]_vars

\* The event loop runs a task that is ready, and the database driver settles
\* every call it is given; no client has to come, and none has to write.
FairSpec == Spec /\ WF_vars(ChainStep)

-----------------------------------------------------------------------------
(* Properties.                                                              *)

\* The inserts of the chain never meet a row with their key: entry.seq, as
\* loadDocument and the chain's += 1 make it, is past every row of both
\* tables, also after failed writes, lost answers and restarts.  (A reused
\* seq would make the insert, and every later one, fail on the primary key.)
PrimaryKeysFree ==
    /\ up /\ entry.phase = "append" => CanInsertUpdate(db, entry.seq)
    /\ up /\ entry.phase = "insert" => CanInsertSnapshot(db, entry.seq)

\* A snapshot at seq S holds every row of the log up to S, whatever failed
\* before: what compactAfterSnapshot deletes, and what loadDocument never
\* reads again, is never the only copy.
CompactionIsCovered == SnapshotsCoverLog(db)

\* Whatever users see would be seen after a restart, unless the update, or
\* one it was made upon, is still in the chain, or its append has failed and
\* no snapshot has been written since.  So a failed append puts at risk the
\* update and those made upon it, whose rows are there and show nothing
\* without it; no other one, and none once a snapshot is written.
OnlyFailedAppendsAtRisk ==
    up => \A u \in Shown(entry.doc) :
            \/ u \in Shown(Recoverable(db))
            \/ History(u) \cap (Unsettled(entry) \cup unsaved) # {}

\* The rows kept stay bounded.  A failed or interrupted compaction leaves one
\* snapshot more until the next one succeeds.  A load sets lastSnapshotSeq to
\* the seq of the last row, so the policy counts anew after every restart: a
\* crash can cost another maxUpdates rows of the log, a failure one, never
\* more, and between tasks one row less.
StorageBounded ==
    /\ Cardinality(db.snapshots) <=
         KeepSnapshots + faults + crashes + (IF entry.phase = "compact" THEN 1 ELSE 0)
    /\ LET rows == MaxUpdates * (1 + crashes) + faults
       IN  Cardinality(db.updates) <=
             (IF up /\ entry.phase = "idle" THEN rows - 1 ELSE rows)

\* pendingUpdates counts the tasks that are chained or running: no path
\* through the chain, failing or not, forgets a task or counts it twice.
PendingIsExact ==
    up => entry.pendingUpdates =
            Len(entry.queue) + (IF entry.phase = "idle" THEN 0 ELSE 1)

\* Durable storage as users may understand it is implemented by log,
\* snapshots and compaction: what a restart brings back never shrinks, is
\* never more than users saw, and is exactly what they see after the restart.
Durable == INSTANCE DurableDoc WITH
    open    <- up,
    live    <- IF up THEN Shown(entry.doc) ELSE {},
    durable <- Shown(Recoverable(db))

DurableSpec == Durable!Spec

\* Every update users see is settled in the end, unless the server dies: a
\* restart would show it, or an append it rests on has failed.
UpdatesSettle ==
    \A u \in Update :
        (up /\ u \in Shown(entry.doc)) ~>
            (~up \/ u \in Shown(Recoverable(db)) \/ History(u) \cap unsaved # {})

=============================================================================
