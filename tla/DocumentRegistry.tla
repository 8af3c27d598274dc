--------------------------- MODULE DocumentRegistry ---------------------------
(***************************************************************************)
(* DocumentRegistry for ONE document: the docs and loadingDocs maps, the   *)
(* entries it has built (the one in docs, and those removed from it that   *)
(* something still refers to), the callers of acquire and release, the     *)
(* eviction passes, which setInterval starts whether or not the previous   *)
(* pass has ended, and the deletion of the document with forget.           *)
(*                                                                         *)
(* A step is the code between two awaits.  The chain of an entry is module *)
(* ActiveDocument's; here the chains of several entries, the loader and    *)
(* the eviction passes write and read the same rows.                       *)
(***************************************************************************)
EXTENDS ActiveDocument

CONSTANTS
    EntryId,       \* bound: entries alive at once
    Caller,        \* bound: concurrent users of acquire/release
    Evictor,       \* bound: eviction passes in flight at once
    MaxFaults,     \* bound: database calls that fail
    MaxDeletes,    \* bound: deletions of the document
    Resent,        \* bound: the updates clients send again though seen before
    None,          \* no entry
    Waiting        \* a caller awaits the load

ASSUME RegistryAssumption ==
    /\ None \notin EntryId /\ Waiting \notin EntryId /\ None # Waiting
    /\ IsFiniteSet(Caller)
    /\ MaxFaults \in Nat /\ MaxDeletes \in Nat

VARIABLES
    db,         \* the rows of the document
    docs,       \* docs.get(docId): an entry, or None
    loading,    \* loadingDocs.get(docId): the load in flight and its waiters
    entry,      \* the ActiveDocument of every id
    status,     \* "free", "live", or "destroyed" once entry.destroy() has run
    refCount,   \* entry.refCount
    session,    \* what acquire has given each caller: None, Waiting, an entry
    evictor,    \* what each eviction pass holds on its stack
    deleter,    \* ToolInstanceService.delete: "none", "deleted", "forgotten"
    faults,     \* history: database calls that have failed
    applied,    \* history: the updates users have seen
    failed,     \* history: the updates whose last append failed
    raced       \* history: an entry was acquired, or taken by another pass,
                \* while an eviction pass already had it in hand

vars == <<db, docs, loading, entry, status, refCount, session, evictor, deleter,
          faults, applied, failed, raced>>

chainVars == <<docs, loading, status, refCount, session, deleter, applied, raced>>

NotLoading == [phase |-> "none", waiters |-> {}, content |-> {}, seq |-> 0]
NoPass     == [phase |-> "none", entry |-> None, behind |-> 0, seq |-> 0, encoded |-> {}]
NoEntry    == NewEntry({}, 0)

\* Mutant: only the running task counts.
BehindRunningOnly(e) == IF entry[e].phase = "idle" THEN 0 ELSE 1

\* Tasks chained or running.
Behind(e) == Len(entry[e].queue) + (IF entry[e].phase = "idle" THEN 0 ELSE 1)

TypeOK ==
    /\ db \in Store
    /\ docs \in EntryId \cup {None}
    /\ loading \in [phase: {"none", "select", "updates", "create", "built"},
                    waiters: SUBSET Caller, content: SUBSET Update, seq: Nat]
    /\ entry \in [EntryId -> Entry]
    /\ status \in [EntryId -> {"free", "live", "destroyed"}]
    /\ refCount \in [EntryId -> Int]
    /\ session \in [Caller -> EntryId \cup {None, Waiting}]
    /\ evictor \in [Evictor -> [phase: {"none", "flush", "encode", "insert", "compact"},
                                entry: EntryId \cup {None}, behind: Nat, seq: Nat,
                                encoded: SUBSET Update]]
    /\ deleter \in {"none", "deleted", "forgotten"}
    /\ faults \in Nat
    /\ applied \subseteq Update /\ failed \subseteq Update
    /\ raced \in BOOLEAN

Init ==
    /\ db = EmptyStore
    /\ docs = None
    /\ loading = NotLoading
    /\ entry = [e \in EntryId |-> NoEntry]
    /\ status = [e \in EntryId |-> "free"]
    /\ refCount = [e \in EntryId |-> 0]
    /\ session = [c \in Caller |-> None]
    /\ evictor = [p \in Evictor |-> NoPass]
    /\ deleter = "none"
    /\ faults = 0
    /\ applied = {} /\ failed = {}
    /\ raced = FALSE

Fault == faults < MaxFaults /\ faults' = faults + 1

\* A database call rejects: by a fault, or by the constraint it violates.
Rejected(allowed) == Fault \/ (~allowed /\ UNCHANGED faults)

InHand(e) == \E p \in Evictor : evictor[p].entry = e

-----------------------------------------------------------------------------
(* acquire, release, and what callers do in between.                        *)

\* acquire finds the entry in docs.
AcquireResident(c) ==
    /\ session[c] = None
    /\ docs # None
    /\ session' = [session EXCEPT ![c] = docs]
    /\ refCount' = [refCount EXCEPT ![docs] = @ + 1]
    /\ raced' = (raced \/ InHand(docs))
    /\ UNCHANGED <<db, docs, loading, entry, status, evictor, deleter, faults, applied, failed>>

\* acquire awaits the load in flight, or starts one.
AcquireLoading(c) ==
    /\ session[c] = None
    /\ docs = None
    /\ session' = [session EXCEPT ![c] = Waiting]
    /\ loading' = [loading EXCEPT !.waiters = @ \cup {c},
                                  !.phase = IF @ = "none" THEN "select" ELSE @]
    /\ UNCHANGED <<db, docs, entry, status, refCount, evictor, deleter, faults, applied, failed, raced>>

\* Mutant: the release does not reach the count.
ReleaseUncounted(c) ==
    /\ session[c] \in EntryId
    /\ session' = [session EXCEPT ![c] = None]
    /\ UNCHANGED <<db, docs, loading, entry, status, refCount, evictor, deleter, faults, applied, failed, raced>>

\* release(docId) counts down whatever entry docs holds now.
Release(c) ==
    /\ session[c] \in EntryId
    /\ session' = [session EXCEPT ![c] = None]
    /\ refCount' = IF docs = None THEN refCount ELSE [refCount EXCEPT ![docs] = @ - 1]
    /\ UNCHANGED <<db, docs, loading, entry, status, evictor, deleter, faults, applied, failed, raced>>

\* A caller gives the document of its session updates it does not hold, new
\* ones or lost ones once more.  destroy() has taken the 'update' listener
\* off a destroyed document: the change stays in memory.
ApplyUpdate(c, us) ==
    LET e == session[c]
    IN  /\ e \in EntryId
        /\ ~(us \subseteq entry[e].doc)
        /\ us \cap applied \subseteq Resent
        /\ applied' = applied \cup News(entry[e], us)
        /\ entry' = [entry EXCEPT ![e] =
                       IF status[e] = "destroyed" THEN Holding(entry[e], us)
                                                  ELSE Received(entry[e], us)]
        /\ UNCHANGED <<db, docs, loading, status, refCount, session, evictor, deleter, faults, failed, raced>>

-----------------------------------------------------------------------------
(* loadOrCreate, one step per database call.                                *)

LoadOnly == UNCHANGED <<docs, entry, status, refCount, session, evictor, deleter, faults, applied, failed, raced>>

LoadSnapshot ==
    /\ loading.phase = "select"
    /\ \/ /\ LatestSnapshot(db) = {}
          /\ loading' = [loading EXCEPT !.phase = "create"]
       \/ \E base \in LatestSnapshot(db) :
             loading' = [loading EXCEPT !.phase = "updates",
                                        !.content = base.content, !.seq = base.seq]
    /\ UNCHANGED db
    /\ LoadOnly

\* The second SELECT sees the rows as they are by now.
LoadUpdates ==
    /\ loading.phase = "updates"
    /\ LET rows == UpdatesAfter(db, loading.seq)
       IN  \E n \in {loading.seq} \cup {r.seq : r \in rows} :
             /\ IsLoadedSeq(loading, rows, n)
             /\ loading' = [loading EXCEPT !.phase = "built",
                                           !.content = LoadedContent(loading, rows),
                                           !.seq = n]
    /\ UNCHANGED db
    /\ LoadOnly

LoadCreate ==
    /\ loading.phase = "create"
    /\ CanInsertDocument(db)
    /\ db' = PersistInitialSnapshot(db)
    /\ loading' = [loading EXCEPT !.phase = "built"]
    /\ LoadOnly

\* Mutant: only one of the callers that share the load hears of it.
LoadFailsForOne ==
    /\ loading.phase \in {"select", "updates", "create"}
    /\ Fault
    /\ loading' = NotLoading
    /\ \E c \in loading.waiters : session' = [session EXCEPT ![c] = None]
    /\ UNCHANGED <<db, docs, entry, status, refCount, evictor, deleter, applied, failed, raced>>

\* A call of the load rejects: loadingDocs is cleared, every waiter throws.
LoadFails ==
    /\ loading.phase \in {"select", "updates", "create"}
    /\ Fault
    /\ db' \in {db} \cup
         (IF loading.phase = "create" /\ CanInsertDocument(db)
          THEN {PersistInitialSnapshot(db)} ELSE {})
    /\ loading' = NotLoading
    /\ session' = [c \in Caller |-> IF c \in loading.waiters THEN None ELSE session[c]]
    /\ UNCHANGED <<docs, entry, status, refCount, evictor, deleter, applied, failed, raced>>

\* Mutant: only one of the callers that share the load is counted.
LoadDoneCountsOne ==
    /\ loading.phase = "built"
    /\ \E e \in EntryId :
         /\ status[e] = "free"
         /\ entry' = [entry EXCEPT ![e] = NewEntry(loading.content, loading.seq)]
         /\ status' = [status EXCEPT ![e] = "live"]
         /\ refCount' = [refCount EXCEPT ![e] = 1]
         /\ docs' = e
         /\ session' = [c \in Caller |-> IF c \in loading.waiters THEN e ELSE session[c]]
    /\ loading' = NotLoading
    /\ UNCHANGED <<db, evictor, deleter, faults, applied, failed, raced>>

\* The promise resolves.  Its waiters run one after the other with nothing in
\* between: each puts the entry in docs, clears loadingDocs, counts itself.
LoadDone ==
    /\ loading.phase = "built"
    /\ \E e \in EntryId :
         /\ status[e] = "free"
         /\ entry' = [entry EXCEPT ![e] = NewEntry(loading.content, loading.seq)]
         /\ status' = [status EXCEPT ![e] = "live"]
         /\ refCount' = [refCount EXCEPT ![e] = Cardinality(loading.waiters)]
         /\ docs' = e
         /\ session' = [c \in Caller |-> IF c \in loading.waiters THEN e ELSE session[c]]
    /\ loading' = NotLoading
    /\ UNCHANGED <<db, evictor, deleter, faults, applied, failed, raced>>

-----------------------------------------------------------------------------
(* The chain of entry e, in docs or removed from it.  A call that fails has *)
(* not committed here; lost answers are UpdateChain's.                      *)

\* A task of e has ended: the passes that await e's chain have one less ahead.
TaskEnds(e) ==
    evictor' = [p \in Evictor |->
                  IF evictor[p].entry = e /\ evictor[p].behind > 0
                  THEN [evictor[p] EXCEPT !.behind = @ - 1]
                  ELSE evictor[p]]

Becomes(e, new) ==
    /\ entry' = [entry EXCEPT ![e] = new]
    /\ IF new.phase = "idle" THEN TaskEnds(e) ELSE UNCHANGED evictor
    /\ UNCHANGED chainVars

StartTask(e) ==
    /\ entry[e].phase = "idle"
    /\ entry[e].queue # <<>>
    /\ Becomes(e, TaskStarted(entry[e]))
    /\ UNCHANGED <<db, faults, failed>>

WithRow(e) == AppendUpdate(db, entry[e].seq, entry[e].writing)

AppendReturns(e) ==
    /\ entry[e].phase = "append"
    /\ CanInsertUpdate(db, entry[e].seq)
    /\ db' = WithRow(e)
    /\ \E tooMuchTime \in BOOLEAN : Becomes(e, Appended(entry[e], tooMuchTime))
    /\ failed' = failed \ entry[e].writing
    /\ UNCHANGED faults

AppendFails(e) ==
    /\ entry[e].phase = "append"
    /\ Rejected(CanInsertUpdate(db, entry[e].seq))
    /\ Becomes(e, TaskFailed(entry[e]))
    /\ failed' = failed \cup entry[e].writing
    /\ UNCHANGED db

EncodeSnapshot(e) ==
    /\ entry[e].phase = "encode"
    /\ Becomes(e, Encoded(entry[e]))
    /\ UNCHANGED <<db, faults, failed>>

SnapshotReturns(e) ==
    /\ entry[e].phase = "insert"
    /\ CanInsertSnapshot(db, entry[e].seq)
    /\ db' = InsertSnapshot(db, entry[e].seq, entry[e].encoded)
    /\ Becomes(e, SnapshotInserted(entry[e]))
    /\ UNCHANGED <<faults, failed>>

SnapshotFails(e) ==
    /\ entry[e].phase = "insert"
    /\ Rejected(CanInsertSnapshot(db, entry[e].seq))
    /\ Becomes(e, TaskFailed(entry[e]))
    /\ UNCHANGED <<db, failed>>

CompactReturns(e) ==
    /\ entry[e].phase = "compact"
    /\ db' = CompactAfterSnapshot(db, entry[e].seq)
    /\ Becomes(e, SnapshotDone(entry[e]))
    /\ UNCHANGED <<faults, failed>>

CompactFails(e) ==
    /\ entry[e].phase = "compact"
    /\ Fault
    /\ Becomes(e, TaskFailed(entry[e]))
    /\ UNCHANGED <<db, failed>>

ChainStep(e) ==
    \/ StartTask(e) \/ AppendReturns(e) \/ AppendFails(e) \/ EncodeSnapshot(e)
    \/ SnapshotReturns(e) \/ SnapshotFails(e) \/ CompactReturns(e) \/ CompactFails(e)

-----------------------------------------------------------------------------
(* evictIdleDocs.                                                           *)

\* Mutant: the count is not looked at.
EvictableInUse(p) ==
    /\ evictor[p].phase = "none"
    /\ docs # None
    /\ raced' = (raced \/ InHand(docs))

\* A pass that reaches the document takes it when nobody is counted and it
\* has not been accessed for EVICTION_TIMEOUT_MS (how much time has passed is
\* the clock's choice).  refCount is read here and never again.
Evictable(p) ==
    /\ evictor[p].phase = "none"
    /\ docs # None
    /\ refCount[docs] <= 0
    /\ raced' = (raced \/ InHand(docs))

\* The finally block: the pass destroys ITS entry e and deletes the KEY.
Remove(p, e) ==
    /\ status' = [status EXCEPT ![e] = "destroyed"]
    /\ docs' = None
    /\ evictor' = [evictor EXCEPT ![p] = NoPass]
    /\ UNCHANGED <<loading, refCount, session, deleter, applied, failed>>

Continue(p, new) ==
    /\ evictor' = [evictor EXCEPT ![p] = new]
    /\ UNCHANGED <<docs, loading, entry, status, refCount, session, deleter, faults, applied, failed>>

Dirty(e) == entry[e].seq > entry[e].lastSnapshotSeq

\* With the chain settled: remove a clean entry, call createSnapshot for a
\* dirty one, with the seq of now.
Decide(p, e) ==
    \/ ~Dirty(e) /\ Remove(p, e) /\ UNCHANGED <<entry, faults>>
    \/ Dirty(e) /\ Continue(p, [phase |-> "encode", entry |-> e, behind |-> 0,
                                seq |-> entry[e].seq, encoded |-> {}])

\* The chain is settled already: awaiting it lets nothing in from outside.
EvictSettled(p) ==
    /\ Evictable(p)
    /\ Behind(docs) = 0
    /\ Decide(p, docs)
    /\ UNCHANGED db

\* It is not: the pass awaits the tasks chained by now, and only those.
EvictAwait(p) ==
    /\ Evictable(p)
    /\ Behind(docs) > 0
    /\ Continue(p, [NoPass EXCEPT !.phase = "flush", !.entry = docs, !.behind = Behind(docs)])
    /\ UNCHANGED db

EvictFlushed(p) ==
    /\ evictor[p].phase = "flush"
    /\ evictor[p].behind = 0
    /\ Decide(p, evictor[p].entry)
    /\ UNCHANGED <<db, raced>>

EvictEncode(p) ==
    /\ evictor[p].phase = "encode"
    /\ Continue(p, [evictor[p] EXCEPT !.phase = "insert", !.encoded = entry[evictor[p].entry].doc])
    /\ UNCHANGED <<db, raced>>

EvictSnapshot(p) ==
    /\ evictor[p].phase = "insert"
    /\ CanInsertSnapshot(db, evictor[p].seq)
    /\ db' = InsertSnapshot(db, evictor[p].seq, evictor[p].encoded)
    /\ Continue(p, [evictor[p] EXCEPT !.phase = "compact"])
    /\ UNCHANGED raced

EvictCompact(p) ==
    /\ evictor[p].phase = "compact"
    /\ db' = CompactAfterSnapshot(db, evictor[p].seq)
    /\ LET e == evictor[p].entry
       IN  entry' = [entry EXCEPT ![e].lastSnapshotSeq = entry[e].seq]
    /\ Remove(p, evictor[p].entry)
    /\ UNCHANGED <<faults, raced>>

\* The final snapshot fails: it is logged, and the entry is removed anyway.
EvictFails(p) ==
    /\ \/ evictor[p].phase = "insert" /\ Rejected(CanInsertSnapshot(db, evictor[p].seq))
       \/ evictor[p].phase = "compact" /\ Fault
    /\ Remove(p, evictor[p].entry)
    /\ UNCHANGED <<db, entry, raced>>

EvictStep(p) ==
    \/ EvictFlushed(p) \/ EvictEncode(p) \/ EvictSnapshot(p)
    \/ EvictCompact(p) \/ EvictFails(p)

EvictStart(p) == EvictSettled(p) \/ EvictAwait(p)

-----------------------------------------------------------------------------
(* ToolInstanceService.delete, as far as the document goes.                 *)

\* The documents row is deleted, snapshots and log with it (cascade).
DeleteDocument ==
    /\ deleter = "none"
    /\ MaxDeletes > 0
    /\ db' = EmptyStore
    /\ deleter' = "deleted"
    /\ UNCHANGED <<docs, loading, entry, status, refCount, session, evictor, faults, applied, failed, raced>>

\* forget(docId): the entry in docs, if any, is destroyed and removed.
Forget ==
    /\ deleter = "deleted"
    /\ deleter' = "forgotten"
    /\ docs' = None
    /\ status' = IF docs = None THEN status ELSE [status EXCEPT ![docs] = "destroyed"]
    /\ UNCHANGED <<db, loading, entry, refCount, session, evictor, faults, applied, failed, raced>>

\* Garbage collection: nothing refers to the entry any more.
Collect(e) ==
    /\ status[e] # "free"
    /\ docs # e
    /\ Behind(e) = 0
    /\ ~InHand(e)
    /\ \A c \in Caller : session[c] # e
    /\ status' = [status EXCEPT ![e] = "free"]
    /\ entry' = [entry EXCEPT ![e] = NoEntry]
    /\ refCount' = [refCount EXCEPT ![e] = 0]
    /\ UNCHANGED <<db, docs, loading, session, evictor, deleter, faults, applied, failed, raced>>

-----------------------------------------------------------------------------
LoadStep == LoadSnapshot \/ LoadUpdates \/ LoadCreate \/ LoadFails \/ LoadDone

CallerStep(c) ==
    \/ AcquireResident(c) \/ AcquireLoading(c) \/ Release(c)
    \/ \E us \in SUBSET Update : ApplyUpdate(c, us)

Next ==
    \/ \E c \in Caller : CallerStep(c)
    \/ LoadStep
    \/ \E e \in EntryId : ChainStep(e) \/ Collect(e)
    \/ \E p \in Evictor : EvictStart(p) \/ EvictStep(p)
    \/ DeleteDocument \/ Forget

Spec == Init /\ [][Next]_vars

\* The driver settles every call, the event loop runs what is ready, and the
\* interval keeps starting passes.  No caller has to come, edit or release.
FairSpec ==
    /\ Spec
    /\ WF_vars(LoadStep)
    /\ \A e \in EntryId : WF_vars(ChainStep(e)) /\ WF_vars(Collect(e))
    /\ \A p \in Evictor : WF_vars(EvictStart(p)) /\ WF_vars(EvictStep(p))

-----------------------------------------------------------------------------
(* Properties.  Most hold as long as nothing has raced an eviction pass;    *)
(* that this is the exact condition is what the runs with a counterexample  *)
(* show.                                                                    *)

Undisturbed == ~raced /\ deleter = "none"

\* Everybody who has the document open has the SAME live document, the one
\* acquire hands out, however loads, failed loads, releases and evictions
\* interleave: two users never edit two copies.
OneLiveDocument ==
    Undisturbed =>
        \A c \in Caller : session[c] \in EntryId =>
            session[c] = docs /\ status[docs] = "live"

\* refCount is the number of callers that have acquired and not released.
RefCountIsExact ==
    Undisturbed /\ docs # None =>
        refCount[docs] = Cardinality({c \in Caller : session[c] = docs})

\* What the chain of the entry in docs has yet to settle.
Pending == IF docs = None THEN {} ELSE Unsettled(entry[docs])

\* What users have seen is never lost to eviction and reload: the next load
\* shows it, unless the update, or one it was made upon, is still in the
\* chain of the entry in docs, or its append has failed and the row was not
\* written since; and what a load that is through shows to its first user is
\* what earlier users saw, up to such failures.
NothingLost ==
    Undisturbed =>
        \A u \in applied :
            /\ \/ u \in Shown(Recoverable(db))
               \/ History(u) \cap (failed \cup Pending) # {}
            /\ loading.phase = "built" =>
                 u \in Shown(loading.content) \/ History(u) \cap failed # {}

\* Every caller that awaits a load gets the entry or an error.
LoadSettles == \A c \in Caller : session[c] = Waiting ~> session[c] # Waiting

\* A document nobody uses is unloaded in the end, or somebody comes back,
\* also when passes overlap, snapshots fail or the document is deleted.
IdleIsUnloaded ==
    (\A c \in Caller : session[c] = None)
        ~> (docs = None \/ \E c \in Caller : session[c] # None)

\* toolpersistence.service.ts:110, of the rows a snapshot's compaction
\* deletes: "they're covered by the snapshot".
CompactionIsCovered == deleter = "none" => SnapshotsCoverLog(db)

\* As long as nothing has raced an eviction pass, the registry with all its
\* entries, loads and passes is one durable document: what is durable only
\* grows, is never more than users saw, and is what the next load shows.
Durable == INSTANCE DurableDoc WITH
    open    <- docs # None,
    live    <- IF docs = None THEN {} ELSE Shown(entry[docs].doc),
    durable <- Shown(Recoverable(db))

DurableUnlessRaced == [][Undisturbed' => [Durable!Next]_(Durable!vars)]_vars

=============================================================================
