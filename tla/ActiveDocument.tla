--------------------------- MODULE ActiveDocument ----------------------------
(***************************************************************************)
(* One resident document of DocumentRegistry (the ActiveDocument record):  *)
(* the live Yjs document and its promise chain, which persists one update  *)
(* at a time.  The record adds to the code's fields what the chain's       *)
(* closure holds on its stack while it awaits the database.  The           *)
(* operators are the code between two awaits; the modules that use them    *)
(* pair each with the database statement it awaits.                        *)
(***************************************************************************)
EXTENDS ToolPersistence, Integers, Sequences

CONSTANT
    MaxUpdates    \* snapshotPolicy.maxUpdates of the document's tool

ASSUME MaxUpdatesAssumption == MaxUpdates \in Nat \ {0}

\* Where the running task of the chain is: "idle" when none is, otherwise the
\* database call it awaits ("encode" is the await inside createSnapshot that
\* precedes the encoding of the document).
Phase == {"idle", "append", "encode", "insert", "compact"}

Entry == [doc: SUBSET Update,        \* what the live document holds
          seq: Nat,
          lastSnapshotSeq: Nat,
          queue: Seq(SUBSET Update), \* what the tasks chained and not started append
          pendingUpdates: Nat,
          phase: Phase,
          writing: SUBSET Update,    \* what the running task appends
          encoded: SUBSET Update]    \* the snapshot it has encoded

\* An entry as loadOrCreate builds it.
NewEntry(content, n) ==
    [doc |-> content, seq |-> n, lastSnapshotSeq |-> n, queue |-> <<>>,
     pendingUpdates |-> 0, phase |-> "idle", writing |-> {}, encoded |-> {}]

\* Work the chain has accepted and not settled.
Unsettled(e) == (UNION {e.queue[i] : i \in DOMAIN e.queue}) \cup e.writing

\* What the document shows once it holds these updates too, and did not show
\* before: what its 'update' event carries.
News(e, us) == Shown(e.doc \cup us) \ Shown(e.doc)

Holding(e, us) == [e EXCEPT !.doc = @ \cup us]

\* The 'update' listener chains a task.
Chaining(e, us) == [e EXCEPT !.queue = Append(@, us), !.pendingUpdates = @ + 1]

\* Mutant: an update that comes in while a task runs is not chained.
ReceivedUnlessBusy(e, us) ==
    IF News(e, us) # {} /\ e.phase = "idle"
    THEN Chaining(Holding(e, us), News(e, us))
    ELSE Holding(e, us)

\* The document is given updates.  It raises an event, and the listener
\* chains a task, unless all of them have to wait for others.
Received(e, us) ==
    IF News(e, us) # {}
    THEN Chaining(Holding(e, us), News(e, us))
    ELSE Holding(e, us)

\* Mutant: the seq is not advanced before the append.
TaskStartedSameSeq(e) ==
    [e EXCEPT !.queue = Tail(@), !.phase = "append", !.writing = Head(e.queue)]

\* The next task starts: entry.seq += 1, then appendUpdate is called.
TaskStarted(e) ==
    [e EXCEPT !.queue = Tail(@),
              !.phase = "append",
              !.writing = Head(e.queue),
              !.seq = @ + 1]

\* Mutant: the task is counted off once more than it was counted.
TaskDoneTwice(e) ==
    [e EXCEPT !.phase = "idle",
              !.encoded = {},
              !.pendingUpdates = @ - 2]

\* The end of a task that went well.
TaskDone(e) ==
    [e EXCEPT !.phase = "idle",
              !.encoded = {},
              !.pendingUpdates = @ - 1]

\* Mutant: one update more than the policy allows.
ShouldSnapshotLate(e, tooMuchTime) ==
    e.seq - e.lastSnapshotSeq > MaxUpdates \/ tooMuchTime

\* shouldSnapshot; whether maxIntervalMs has passed is the clock's choice.
ShouldSnapshot(e, tooMuchTime) ==
    e.seq - e.lastSnapshotSeq >= MaxUpdates \/ tooMuchTime

\* appendUpdate has returned: go on to createSnapshot, or end the task.
Appended(e, tooMuchTime) ==
    LET written == [e EXCEPT !.writing = {}]
    IN  IF ShouldSnapshot(e, tooMuchTime)
        THEN [written EXCEPT !.phase = "encode"]
        ELSE TaskDone(written)

\* createSnapshot encodes the document as it is NOW, later updates included.
Encoded(e) == [e EXCEPT !.encoded = e.doc, !.phase = "insert"]

SnapshotInserted(e) == [e EXCEPT !.phase = "compact"]

\* createSnapshot has returned.
SnapshotDone(e) == TaskDone([e EXCEPT !.lastSnapshotSeq = e.seq])

\* Mutant: a failed task is never counted off.
TaskFailedUncounted(e) ==
    [e EXCEPT !.phase = "idle", !.writing = {}, !.encoded = {}]

\* The chain's catch: log, count the task off, carry on with the next one.
TaskFailed(e) ==
    [e EXCEPT !.phase = "idle",
              !.writing = {},
              !.encoded = {},
              !.pendingUpdates = IF @ > 0 THEN @ - 1 ELSE 0]
=============================================================================
