--------------------------- MODULE ToolPersistence ---------------------------
(***************************************************************************)
(* The rows ToolPersistenceService keeps for ONE document, and what each   *)
(* of its statements does to them: the documents row, the snapshots and    *)
(* the update log (toolpersistence.service.ts, tables in schema.ts).       *)
(*                                                                         *)
(* A Yjs document is abstracted to the set of updates it holds: applying   *)
(* one twice, or in another order, gives the same document.  What it SHOWS *)
(* is less: Yjs keeps an update aside as long as one it was made upon is   *)
(* missing (pendingStructs), and encodeStateAsUpdate writes those too.     *)
(* Seqs are the integers the code writes; (docId, seq) is the primary key  *)
(* of both tables, which refer to the documents row with ON DELETE         *)
(* CASCADE.                                                                *)
(***************************************************************************)
EXTENDS Naturals, FiniteSets

CONSTANTS
    Update,          \* the updates the clients of the document make
    Needs,           \* of each update, those it was made upon: the earlier
                     \* ones of its client, and what that client had seen
    KeepSnapshots    \* SNAPSHOT_COMPACTION_THRESHOLD

ASSUME KeepSnapshotsAssumption == KeepSnapshots \in Nat \ {0}

ASSUME NeedsAssumption ==
    /\ Needs \in [Update -> SUBSET Update]
    /\ \A u \in Update : \A v \in Needs[u] : Needs[v] \subseteq Needs[u]

\* An update and all it rests on.
History(u) == {u} \cup Needs[u]

\* What a document that holds these updates shows.
Shown(held) == {u \in held : Needs[u] \subseteq held}

SnapshotRow == [seq: Nat, content: SUBSET Update]
UpdateRow   == [seq: Nat, updates: SUBSET Update]
Store       == [row: BOOLEAN,
                snapshots: SUBSET SnapshotRow,
                updates: SUBSET UpdateRow]

\* No row at all; also what the cascade of deleting the documents row leaves.
EmptyStore == [row |-> FALSE, snapshots |-> {}, updates |-> {}]

-----------------------------------------------------------------------------
(* loadDocument: two separate SELECTs, and what is made of their results.   *)

\* Its first SELECT: the snapshot of highest seq; {} when there is none.
LatestSnapshot(db) ==
    {s \in db.snapshots : \A t \in db.snapshots : t.seq <= s.seq}

\* Mutant: the log read from the snapshot's seq + 1 on.
UpdatesAfterSkippingOne(db, n) == {r \in db.updates : r.seq > n + 1}

\* Its second SELECT.
UpdatesAfter(db, n) == {r \in db.updates : r.seq > n}

\* What the document it returns holds: the snapshot, and the log applied on
\* top; a row whose predecessors are missing is held and not shown.
LoadedContent(base, rows) == base.content \cup UNION {r.updates : r \in rows}

\* Mutant: the seq of the snapshot, whatever the log holds.
IsLoadedSeqOfSnapshot(base, rows, n) == n = base.seq

\* The seq it returns: that of the last row, or of the snapshot.
IsLoadedSeq(base, rows, n) ==
    /\ n \in {base.seq} \cup {r.seq : r \in rows}
    /\ n >= base.seq
    /\ \A r \in rows : n >= r.seq

\* What a load would hold if nothing wrote between its two SELECTs.
Recoverable(db) ==
    UNION {LoadedContent(s, UpdatesAfter(db, s.seq)) : s \in LatestSnapshot(db)}

-----------------------------------------------------------------------------
(* The statements that write, and when the constraints let them through.    *)

CanInsertDocument(db)    == ~db.row
CanInsertUpdate(db, n)   == db.row /\ \A r \in db.updates : r.seq # n
CanInsertSnapshot(db, n) == db.row /\ \A s \in db.snapshots : s.seq # n

PersistInitialSnapshot(db) ==
    [row       |-> TRUE,
     snapshots |-> {[seq |-> 0, content |-> {}]},
     updates   |-> db.updates]

AppendUpdate(db, n, us) ==
    [db EXCEPT !.updates = @ \cup {[seq |-> n, updates |-> us]}]

InsertSnapshot(db, n, content) ==
    [db EXCEPT !.snapshots = @ \cup {[seq |-> n, content |-> content]}]

\* Mutant: keeps the oldest snapshots instead of the latest.
CompactKeepOldest(db, n) ==
    [db EXCEPT !.updates = UpdatesAfter(db, n),
               !.snapshots = {s \in @ :
                  Cardinality({t \in @ : t.seq < s.seq}) < KeepSnapshots}]

\* compactAfterSnapshot's transaction: the log up to the snapshot goes, and
\* so does every snapshot with KeepSnapshots newer ones.
CompactAfterSnapshot(db, n) ==
    [db EXCEPT !.updates = UpdatesAfter(db, n),
               !.snapshots = {s \in @ :
                  Cardinality({t \in @ : t.seq > s.seq}) < KeepSnapshots}]

-----------------------------------------------------------------------------
\* Every row of the log that a snapshot's seq covers is inside the snapshot,
\* so that deleting it, or never reading it again, loses nothing.
SnapshotsCoverLog(db) ==
    \A s \in db.snapshots, r \in db.updates :
        r.seq <= s.seq => r.updates \subseteq s.content
=============================================================================
