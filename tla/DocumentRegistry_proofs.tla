----------------------- MODULE DocumentRegistry_proofs -----------------------
(***************************************************************************)
(* Proofs about DocumentRegistry, for every value of its constants: type   *)
(* correctness in every state, and, as long as nothing has raced an        *)
(* eviction pass and the document is not deleted, the invariant Quiet and  *)
(* what follows from it: one live document, an exact refCount, and no      *)
(* update lost to eviction and reload.                                     *)
(***************************************************************************)
EXTENDS DocumentRegistry, ActiveDocument_proofs

\* Every task of every entry is counted, also of the entries removed, and a
\* pass holds an entry.
TypeInv ==
    /\ TypeOK
    /\ \A e \in EntryId : Counted(entry[e])
    /\ \A p \in Evictor : evictor[p].phase # "none" => evictor[p].entry \in EntryId

\* Callers share the entry in docs, which is live and counts them; nothing is
\* loaded while it is there.
Shared ==
    /\ \A c \in Caller : session[c] \in EntryId => session[c] = docs
    /\ docs # None =>
         /\ status[docs] = "live"
         /\ loading.phase = "none"
         /\ refCount[docs] = Cardinality({c \in Caller : session[c] = docs})

\* The entry in docs is the only one that writes, and its rows are chained.
OneWriter ==
    /\ StoreInv(db)
    /\ docs # None => Chained(db, entry[docs])
    /\ \A e \in EntryId : e # docs => Settled(entry[e])

\* A pass has the entry in docs in hand, alone, and nobody else has it.  It
\* awaits the tasks there are, and then nothing changes under it.
Pass(p) ==
    LET x == evictor[p]
    IN  /\ x.phase = "none" => x.entry = None
        /\ x.phase # "none" =>
             /\ x.entry = docs
             /\ \A c \in Caller : session[c] \notin EntryId
             /\ \A q \in Evictor : evictor[q].phase # "none" => p = q
        /\ x.phase = "flush" => x.behind = entry[docs].pendingUpdates
        /\ x.phase \in {"encode", "insert", "compact"} =>
             Settled(entry[docs]) /\ x.seq = entry[docs].seq
        /\ x.phase = "insert" => x.encoded = entry[docs].doc
        /\ x.phase = "compact" => \E s \in db.snapshots : s.seq = x.seq

\* What a load has read so far is what the rows still say.
LoadInv ==
    /\ loading.phase \in {"none", "select", "create"} => loading.content = {} /\ loading.seq = 0
    /\ loading.phase = "create" => db.snapshots = {}
    /\ loading.phase = "updates" =>
         \E base \in LatestSnapshot(db) :
            loading.content = base.content /\ loading.seq = base.seq
    /\ loading.phase = "built" =>
         /\ db.row
         /\ loading.content = Recoverable(db)
         /\ \A s \in db.snapshots : s.seq <= loading.seq
         /\ \A r \in db.updates : r.seq <= loading.seq /\ r.updates \subseteq loading.content

\* What users have seen is in the rows, in the chain, or its append failed.
Kept == applied \subseteq Recoverable(db) \cup failed \cup Pending

\* They have seen it with all it rests on, and whatever is to be seen: an
\* update that is kept with all of its history shows after a load.
Seen ==
    /\ \A u \in applied : Needs[u] \subseteq applied
    /\ docs # None => Shown(entry[docs].doc) \subseteq applied
    /\ Shown(Recoverable(db)) \subseteq applied

Quiet ==
    /\ Shared
    /\ OneWriter
    /\ \A p \in Evictor : Pass(p)
    /\ LoadInv
    /\ Kept
    /\ Seen

IInv == TypeInv /\ (Undisturbed => Quiet)

-----------------------------------------------------------------------------
(* Type correctness, in every state: raced and deleted ones too.            *)

\* What the statements write has the type of a store.
LEMMA AppendType ==
    ASSUME NEW st \in Store, NEW n \in Nat, NEW us \in SUBSET Update
    PROVE  AppendUpdate(st, n, us) \in Store
BY DEF AppendUpdate, Store, UpdateRow

LEMMA InsertType ==
    ASSUME NEW st \in Store, NEW n \in Nat, NEW c \in SUBSET Update
    PROVE  InsertSnapshot(st, n, c) \in Store
BY DEF InsertSnapshot, Store, SnapshotRow

LEMMA CompactType ==
    ASSUME NEW st \in Store, NEW n
    PROVE  CompactAfterSnapshot(st, n) \in Store
BY DEF CompactAfterSnapshot, UpdatesAfter, Store

LEMMA InitialType ==
    ASSUME NEW st \in Store
    PROVE  PersistInitialSnapshot(st) \in Store
BY DEF PersistInitialSnapshot, Store, SnapshotRow

LEMMA BehindType ==
    ASSUME TypeInv, NEW e \in EntryId
    PROVE  Behind(e) = entry[e].pendingUpdates /\ Behind(e) \in Nat
<1>1. /\ Counted(entry[e]) /\ entry[e].pendingUpdates \in Nat /\ Len(entry[e].queue) \in Nat
  BY DEF TypeInv, TypeOK, Entry
<1>2. CASE entry[e].phase = "idle"
  BY <1>1, <1>2 DEF Counted, Behind
<1>3. CASE entry[e].phase # "idle"
  BY <1>1, <1>3 DEF Counted, Behind
<1> QED BY <1>2, <1>3

LEMMA CallerType ==
    ASSUME TypeInv, NEW c \in Caller, CallerStep(c)
    PROVE  TypeInv'
<1>1. CASE AcquireResident(c)
  BY <1>1 DEF AcquireResident, TypeInv, TypeOK
<1>2. CASE AcquireLoading(c)
  <2>1. loading' \in [phase: {"none", "select", "updates", "create", "built"},
                      waiters: SUBSET Caller, content: SUBSET Update, seq: Nat]
    BY <1>2 DEF AcquireLoading, TypeInv, TypeOK
  <2> QED BY <1>2, <2>1 DEF AcquireLoading, TypeInv, TypeOK
<1>3. CASE Release(c)
  <2>1. refCount' \in [EntryId -> Int]
    BY <1>3 DEF Release, TypeInv, TypeOK
  <2> QED BY <1>3, <2>1 DEF Release, TypeInv, TypeOK
<1>4. ASSUME NEW us \in SUBSET Update, ApplyUpdate(c, us) PROVE TypeInv'
  <2> DEFINE e == session[c]
  <2>0. applied' \subseteq Update
    <3>1. entry[e].doc \subseteq Update /\ applied \subseteq Update
      BY <1>4 DEF ApplyUpdate, TypeInv, TypeOK, Entry
    <3>2. Shown(entry[e].doc \cup us) \subseteq Update
      BY <3>1, ShownGrows
    <3>3. applied' = applied \cup News(entry[e], us)
      BY <1>4 DEF ApplyUpdate
    <3> QED BY <3>1, <3>2, <3>3 DEF News
  <2>1. /\ e \in EntryId /\ entry[e] \in Entry /\ Counted(entry[e])
        /\ applied' \subseteq Update
        /\ UNCHANGED <<db, docs, loading, status, refCount, session, evictor, deleter,
                       faults, failed, raced>>
    BY <1>4, <2>0 DEF ApplyUpdate, TypeInv, TypeOK
  <2>2. /\ \A x \in EntryId : x # e => entry'[x] = entry[x]
        /\ entry' = [x \in EntryId |-> entry'[x]]
    BY <1>4 DEF ApplyUpdate, TypeInv, TypeOK
  <2>3. entry'[e] \in Entry /\ Counted(entry'[e])
    <3>1. CASE status[e] = "destroyed"
      <4>1. /\ entry'[e] \in Entry
            /\ entry'[e].phase = entry[e].phase
            /\ entry'[e].queue = entry[e].queue
            /\ entry'[e].pendingUpdates = entry[e].pendingUpdates
        BY <1>4, <2>1, <3>1 DEF ApplyUpdate, Holding, Entry, TypeInv, TypeOK
      <4> QED BY <2>1, <4>1 DEF Counted
    <3>2. CASE status[e] # "destroyed"
      <4>1. PICK f : f = Received(entry[e], us)
        OBVIOUS
      <4>2. entry'[e] = f
        BY <1>4, <2>1, <3>2, <4>1 DEF ApplyUpdate, TypeInv, TypeOK
      <4> QED BY <2>1, <4>1, <4>2, TypeKeeps
    <3> QED BY <3>1, <3>2
  <2> HIDE DEF e
  <2>4. entry' \in [EntryId -> Entry] /\ \A x \in EntryId : Counted(entry'[x])
    BY <2>1, <2>2, <2>3 DEF TypeInv, TypeOK
  <2> QED BY <2>1, <2>4 DEF TypeInv, TypeOK
<1> QED BY <1>1, <1>2, <1>3, <1>4 DEF CallerStep

LEMMA LoadType ==
    ASSUME TypeInv, LoadStep
    PROVE  TypeInv'
<1> DEFINE Load == [phase: {"none", "select", "updates", "create", "built"},
                    waiters: SUBSET Caller, content: SUBSET Update, seq: Nat]
<1>1. db \in Store /\ loading \in Load
  BY DEF TypeInv, TypeOK
<1>2. CASE LoadSnapshot
  <2>1. loading' \in Load
    BY <1>1, <1>2 DEF LoadSnapshot, LatestSnapshot, Store, SnapshotRow
  <2> QED BY <1>2, <2>1 DEF LoadSnapshot, LoadOnly, TypeInv, TypeOK
<1>3. CASE LoadUpdates
  <2>1. LoadedContent(loading, UpdatesAfter(db, loading.seq)) \in SUBSET Update
    BY <1>1 DEF LoadedContent, UpdatesAfter, Store, UpdateRow
  <2>2. \A r \in UpdatesAfter(db, loading.seq) : r.seq \in Nat
    BY <1>1 DEF UpdatesAfter, Store, UpdateRow
  <2>3. loading' \in Load
    <3> DEFINE rows == UpdatesAfter(db, loading.seq)
    <3>1. PICK n \in {loading.seq} \cup {r.seq : r \in rows} :
            loading' = [loading EXCEPT !.phase = "built",
                                       !.content = LoadedContent(loading, rows), !.seq = n]
      BY <1>3 DEF LoadUpdates
    <3>2. n \in Nat
      BY <1>1, <2>2
    <3>3. PICK c \in SUBSET Update : c = LoadedContent(loading, rows)
      BY <2>1
    <3> QED BY <1>1, <3>1, <3>2, <3>3
  <2> QED BY <1>3, <2>3 DEF LoadUpdates, LoadOnly, TypeInv, TypeOK
<1>4. CASE LoadCreate
  <2>1. loading' \in Load /\ db' \in Store
    BY <1>1, <1>4, InitialType DEF LoadCreate
  <2> QED BY <1>4, <2>1 DEF LoadCreate, LoadOnly, TypeInv, TypeOK
<1>5. CASE LoadFails
  <2>1. db' \in Store /\ faults' \in Nat
    BY <1>1, <1>5, InitialType DEF LoadFails, Fault, TypeInv, TypeOK
  <2>2. loading' \in Load
    BY <1>5 DEF LoadFails, NotLoading
  <2>3. session' \in [Caller -> EntryId \cup {None, Waiting}]
    BY <1>5 DEF LoadFails, TypeInv, TypeOK
  <2> QED BY <1>5, <2>1, <2>2, <2>3 DEF LoadFails, TypeInv, TypeOK
<1>6. CASE LoadDone
  <2>1. PICK e \in EntryId :
          /\ entry' = [entry EXCEPT ![e] = NewEntry(loading.content, loading.seq)]
          /\ status' = [status EXCEPT ![e] = "live"]
          /\ refCount' = [refCount EXCEPT ![e] = Cardinality(loading.waiters)]
          /\ docs' = e
          /\ session' = [c \in Caller |-> IF c \in loading.waiters THEN e ELSE session[c]]
    BY <1>6 DEF LoadDone
  <2>2. PICK f : f = NewEntry(loading.content, loading.seq)
    OBVIOUS
  <2>3. f \in Entry /\ Counted(f)
    <3>1. loading.content \in SUBSET Update /\ loading.seq \in Nat
      BY <1>1
    <3> QED BY <2>2, <3>1, FreshType
  <2>4. entry' \in [EntryId -> Entry] /\ \A x \in EntryId : Counted(entry'[x])
    BY <2>1, <2>2, <2>3 DEF TypeInv, TypeOK
  <2>5. Cardinality(loading.waiters) \in Int
    BY <1>1, RegistryAssumption, FS_Subset, FS_CardinalityType
  <2>6. refCount' \in [EntryId -> Int] /\ status' \in [EntryId -> {"free", "live", "destroyed"}]
    BY <2>1, <2>5 DEF TypeInv, TypeOK
  <2>7. session' \in [Caller -> EntryId \cup {None, Waiting}] /\ docs' \in EntryId \cup {None}
    BY <2>1 DEF TypeInv, TypeOK
  <2>8. loading' \in Load
    BY <1>6 DEF LoadDone, NotLoading
  <2> QED BY <1>6, <2>4, <2>6, <2>7, <2>8 DEF LoadDone, TypeInv, TypeOK
<1> QED BY <1>2, <1>3, <1>4, <1>5, <1>6 DEF LoadStep

\* What an entry becomes in a step of its chain, and the rows with it.
LEMMA ChainCases ==
    ASSUME TypeInv, NEW e \in EntryId, ChainStep(e)
    PROVE  \E f :
             /\ Becomes(e, f)
             /\ f \in Entry /\ Counted(f)
             /\ db' \in Store /\ faults' \in Nat
             /\ failed' \subseteq Update
             /\ entry[e].phase # "idle" \/ entry[e].queue # <<>>
<1>1. /\ db \in Store /\ faults \in Nat /\ failed \subseteq Update
      /\ entry[e] \in Entry /\ Counted(entry[e])
  BY DEF TypeInv, TypeOK
<1>2. /\ entry[e].seq \in Nat /\ entry[e].writing \in SUBSET Update
      /\ entry[e].encoded \in SUBSET Update
  BY <1>1 DEF Entry
<1>3. CASE StartTask(e)
  BY <1>1, <1>3, TypeKeeps DEF StartTask
<1>4. CASE AppendReturns(e)
  <2>1. PICK late \in BOOLEAN : Becomes(e, Appended(entry[e], late))
    BY <1>4 DEF AppendReturns
  <2>2. db' \in Store
    BY <1>1, <1>2, <1>4, AppendType DEF AppendReturns, WithRow
  <2> QED BY <1>1, <1>4, <2>1, <2>2, TypeKeeps DEF AppendReturns
<1>5. CASE AppendFails(e)
  BY <1>1, <1>2, <1>5, TypeKeeps DEF AppendFails, Rejected, Fault
<1>6. CASE EncodeSnapshot(e)
  BY <1>1, <1>6, TypeKeeps DEF EncodeSnapshot
<1>7. CASE SnapshotReturns(e)
  <2>1. /\ db' = InsertSnapshot(db, entry[e].seq, entry[e].encoded)
        /\ entry[e].phase = "insert" /\ Becomes(e, SnapshotInserted(entry[e]))
        /\ UNCHANGED <<faults, failed>>
    BY <1>7 DEF SnapshotReturns
  <2>2. SnapshotInserted(entry[e]) \in Entry /\ Counted(SnapshotInserted(entry[e]))
    BY <1>1, <2>1, TypeKeeps
  <2>3. db' \in Store
    BY <1>1, <1>2, <2>1, InsertType
  <2> QED BY <1>1, <2>1, <2>2, <2>3
<1>8. CASE SnapshotFails(e)
  BY <1>1, <1>8, TypeKeeps DEF SnapshotFails, Rejected, Fault
<1>9. CASE CompactReturns(e)
  <2>1. /\ db' = CompactAfterSnapshot(db, entry[e].seq)
        /\ entry[e].phase = "compact" /\ Becomes(e, SnapshotDone(entry[e]))
        /\ UNCHANGED <<faults, failed>>
    BY <1>9 DEF CompactReturns
  <2>2. SnapshotDone(entry[e]) \in Entry /\ Counted(SnapshotDone(entry[e]))
    BY <1>1, <2>1, TypeKeeps
  <2>3. db' \in Store
    BY <1>1, <2>1, CompactType
  <2> QED BY <1>1, <2>1, <2>2, <2>3
<1>10. CASE CompactFails(e)
  BY <1>1, <1>10, TypeKeeps DEF CompactFails, Fault
<1> QED BY <1>3, <1>4, <1>5, <1>6, <1>7, <1>8, <1>9, <1>10 DEF ChainStep

LEMMA ChainType ==
    ASSUME TypeInv, NEW e \in EntryId, ChainStep(e)
    PROVE  TypeInv'
<1>1. PICK f : /\ Becomes(e, f)
               /\ f \in Entry /\ Counted(f)
               /\ db' \in Store /\ faults' \in Nat /\ failed' \subseteq Update
  BY ChainCases
<1>2. entry' \in [EntryId -> Entry] /\ \A x \in EntryId : Counted(entry'[x])
  BY <1>1 DEF Becomes, TypeInv, TypeOK
<1> DEFINE Stack == [phase: {"none", "flush", "encode", "insert", "compact"},
                     entry: EntryId \cup {None}, behind: Nat, seq: Nat,
                     encoded: SUBSET Update]
<1>3. /\ evictor' \in [Evictor -> Stack]
      /\ \A p \in Evictor : evictor'[p].phase # "none" => evictor'[p].entry \in EntryId
  <2>1. /\ evictor \in [Evictor -> Stack]
        /\ \A p \in Evictor : evictor[p].phase # "none" => evictor[p].entry \in EntryId
    BY DEF TypeInv, TypeOK
  <2>2. CASE UNCHANGED evictor
    BY <2>1, <2>2
  <2>3. CASE TaskEnds(e)
    <3>1. \A p \in Evictor :
            \/ evictor'[p] = evictor[p]
            \/ evictor[p].behind > 0 /\ evictor'[p] = [evictor[p] EXCEPT !.behind = @ - 1]
      BY <2>3 DEF TaskEnds
    <3>2. evictor' = [p \in Evictor |-> evictor'[p]]
      BY <2>3 DEF TaskEnds
    <3>3. ASSUME NEW p \in Evictor
          PROVE  /\ evictor'[p] \in Stack
                 /\ evictor'[p].phase = evictor[p].phase /\ evictor'[p].entry = evictor[p].entry
      <4>1. evictor[p] \in Stack
        BY <2>1
      <4>2. CASE evictor'[p] = evictor[p]
        BY <4>1, <4>2
      <4>3. CASE evictor[p].behind > 0 /\ evictor'[p] = [evictor[p] EXCEPT !.behind = @ - 1]
        <5>1. evictor[p].behind - 1 \in Nat
          BY <4>1, <4>3
        <5> QED BY <4>1, <4>3, <5>1
      <4> QED BY <3>1, <4>2, <4>3
    <3> QED BY <2>1, <3>2, <3>3
  <2> QED BY <1>1, <2>2, <2>3 DEF Becomes
<1> QED BY <1>1, <1>2, <1>3 DEF Becomes, chainVars, TypeInv, TypeOK

LEMMA EvictType ==
    ASSUME TypeInv, NEW p \in Evictor, EvictStart(p) \/ EvictStep(p)
    PROVE  TypeInv'
<1> DEFINE Stack == [phase: {"none", "flush", "encode", "insert", "compact"},
                     entry: EntryId \cup {None}, behind: Nat, seq: Nat,
                     encoded: SUBSET Update]
           OnlyPass(new) == /\ new \in Stack
                            /\ new.phase # "none" => new.entry \in EntryId
                            /\ evictor' = [evictor EXCEPT ![p] = new]
                            /\ UNCHANGED <<loading, refCount, session, deleter, applied, failed>>
                            /\ faults' \in Nat /\ raced' \in BOOLEAN
                            /\ docs' \in EntryId \cup {None}
                            /\ status' \in [EntryId -> {"free", "live", "destroyed"}]
<1>1. /\ db \in Store /\ evictor[p] \in Stack /\ docs \in EntryId \cup {None}
      /\ evictor[p].phase # "none" => evictor[p].entry \in EntryId
      /\ entry \in [EntryId -> Entry] /\ faults \in Nat /\ raced \in BOOLEAN
      /\ status \in [EntryId -> {"free", "live", "destroyed"}]
  BY DEF TypeInv, TypeOK
<1>2. ASSUME NEW e \in EntryId, Remove(p, e), faults' \in Nat, raced' \in BOOLEAN
      PROVE  OnlyPass(NoPass)
  BY <1>1, <1>2 DEF Remove, NoPass
<1>3. ASSUME NEW new \in Stack, new.phase # "none" => new.entry \in EntryId,
             Continue(p, new), raced' \in BOOLEAN
      PROVE  OnlyPass(new)
  BY <1>1, <1>3 DEF Continue
<1>4. ASSUME NEW e \in EntryId, Decide(p, e), raced' \in BOOLEAN
      PROVE  (\E new : OnlyPass(new)) /\ entry' = entry
  <2>1. CASE ~Dirty(e) /\ Remove(p, e) /\ UNCHANGED <<entry, faults>>
    <3>1. faults' \in Nat /\ entry' = entry
      BY <1>1, <2>1
    <3>2. OnlyPass(NoPass)
      BY <1>2, <1>4, <2>1, <3>1
    <3> HIDE DEF OnlyPass
    <3> QED BY <3>1, <3>2
  <2>2. CASE Dirty(e)
    <3> DEFINE new == [phase |-> "encode", entry |-> e, behind |-> 0,
                       seq |-> entry[e].seq, encoded |-> {}]
    <3>1. new \in Stack /\ new.entry \in EntryId
      BY <1>1 DEF Entry
    <3>2. Continue(p, new)
      BY <1>4, <2>2 DEF Decide
    <3>3. entry' = entry
      BY <3>2 DEF Continue
    <3> HIDE DEF new
    <3>4. OnlyPass(new)
      BY <1>3, <1>4, <3>1, <3>2
    <3> HIDE DEF OnlyPass
    <3> QED BY <3>3, <3>4
  <2> QED BY <1>4, <2>1, <2>2 DEF Decide
<1>5. /\ \E new : OnlyPass(new)
      /\ db' \in Store
      /\ entry' \in [EntryId -> Entry] /\ \A x \in EntryId : Counted(entry'[x])
  <2>0. \A x \in EntryId : Counted(entry[x])
    BY DEF TypeInv
  <2>1. CASE EvictSettled(p)
    <3>1. docs \in EntryId /\ Decide(p, docs) /\ raced' \in BOOLEAN /\ db' = db
      BY <1>1, <2>1 DEF EvictSettled, Evictable
    <3>2. (\E new : OnlyPass(new)) /\ entry' = entry
      BY <1>4, <3>1
    <3> HIDE DEF OnlyPass
    <3> QED BY <1>1, <2>0, <3>1, <3>2
  <2>2. CASE EvictAwait(p)
    <3> DEFINE new == [NoPass EXCEPT !.phase = "flush", !.entry = docs, !.behind = Behind(docs)]
    <3>1. docs \in EntryId /\ Continue(p, new) /\ raced' \in BOOLEAN /\ db' = db
      BY <1>1, <2>2 DEF EvictAwait, Evictable
    <3>2. Behind(docs) \in Nat
      BY <3>1, BehindType
    <3>3. new \in Stack /\ new.entry \in EntryId
      BY <3>1, <3>2 DEF NoPass
    <3>4. entry' = entry
      BY <3>1 DEF Continue
    <3> HIDE DEF new
    <3>5. OnlyPass(new)
      BY <1>3, <3>1, <3>3
    <3> HIDE DEF OnlyPass
    <3> QED BY <1>1, <2>0, <3>1, <3>4, <3>5
  <2>3. CASE EvictFlushed(p)
    <3>1. evictor[p].entry \in EntryId /\ Decide(p, evictor[p].entry) /\ raced' \in BOOLEAN /\ db' = db
      BY <1>1, <2>3 DEF EvictFlushed
    <3>2. (\E new : OnlyPass(new)) /\ entry' = entry
      BY <1>4, <3>1
    <3> HIDE DEF OnlyPass
    <3> QED BY <1>1, <2>0, <3>1, <3>2
  <2>4. CASE EvictEncode(p)
    <3> DEFINE new == [evictor[p] EXCEPT !.phase = "insert", !.encoded = entry[evictor[p].entry].doc]
    <3>1. /\ evictor[p].entry \in EntryId /\ Continue(p, new) /\ raced' \in BOOLEAN /\ db' = db
      BY <1>1, <2>4 DEF EvictEncode
    <3>2. new \in Stack /\ new.entry \in EntryId
      BY <1>1, <3>1 DEF Entry
    <3>3. entry' = entry
      BY <3>1 DEF Continue
    <3> HIDE DEF new
    <3>4. OnlyPass(new)
      BY <1>3, <3>1, <3>2
    <3> HIDE DEF OnlyPass
    <3> QED BY <1>1, <2>0, <3>1, <3>3, <3>4
  <2>5. CASE EvictSnapshot(p)
    <3> DEFINE new == [evictor[p] EXCEPT !.phase = "compact"]
    <3>1. /\ evictor[p].entry \in EntryId /\ Continue(p, new) /\ raced' \in BOOLEAN
          /\ db' = InsertSnapshot(db, evictor[p].seq, evictor[p].encoded)
      BY <1>1, <2>5 DEF EvictSnapshot
    <3>2. new \in Stack /\ new.entry \in EntryId
      BY <1>1, <3>1
    <3>3. entry' = entry
      BY <3>1 DEF Continue
    <3>4. db' \in Store
      <4>1. evictor[p].seq \in Nat /\ evictor[p].encoded \in SUBSET Update
        BY <1>1
      <4> QED BY <1>1, <3>1, <4>1, InsertType
    <3> HIDE DEF new
    <3>5. OnlyPass(new)
      BY <1>3, <3>1, <3>2
    <3> HIDE DEF OnlyPass
    <3> QED BY <1>1, <2>0, <3>3, <3>4, <3>5
  <2>6. CASE EvictCompact(p)
    <3> DEFINE e == evictor[p].entry
    <3>1. /\ e \in EntryId /\ Remove(p, e) /\ raced' \in BOOLEAN /\ faults' \in Nat
          /\ db' = CompactAfterSnapshot(db, evictor[p].seq)
          /\ entry' = [entry EXCEPT ![e].lastSnapshotSeq = entry[e].seq]
      BY <1>1, <2>6 DEF EvictCompact
    <3>2. db' \in Store
      BY <1>1, <3>1, CompactType
    <3>3. PICK f : f = [entry[e] EXCEPT !.lastSnapshotSeq = entry[e].seq]
      OBVIOUS
    <3>4. /\ f \in Entry /\ f.phase = entry[e].phase /\ f.queue = entry[e].queue
          /\ f.pendingUpdates = entry[e].pendingUpdates
      <4>1. entry[e] \in Entry
        BY <1>1, <3>1
      <4> HIDE DEF e
      <4> QED BY <3>3, <4>1 DEF Entry
    <3>5. Counted(f)
      BY <2>0, <3>1, <3>4 DEF Counted
    <3>6. entry' \in [EntryId -> Entry] /\ \A x \in EntryId : Counted(entry'[x])
      <4>1. entry' = [entry EXCEPT ![e] = f]
        BY <3>1, <3>3
      <4> QED BY <1>1, <2>0, <3>1, <3>4, <3>5, <4>1
    <3> HIDE DEF e
    <3>7. OnlyPass(NoPass)
      BY <1>2, <3>1
    <3> HIDE DEF OnlyPass
    <3> QED BY <3>2, <3>6, <3>7
  <2>7. CASE EvictFails(p)
    <3>1. /\ evictor[p].entry \in EntryId /\ Remove(p, evictor[p].entry)
          /\ raced' \in BOOLEAN /\ db' = db /\ entry' = entry /\ faults' \in Nat
      BY <1>1, <2>7 DEF EvictFails, Rejected, Fault
    <3>2. OnlyPass(NoPass)
      BY <1>2, <3>1
    <3> HIDE DEF OnlyPass
    <3> QED BY <1>1, <2>0, <3>1, <3>2
  <2> HIDE DEF OnlyPass
  <2> QED BY <2>1, <2>2, <2>3, <2>4, <2>5, <2>6, <2>7 DEF EvictStart, EvictStep
<1>6. PICK new : OnlyPass(new)
  BY <1>5
<1>7. evictor' \in [Evictor -> Stack]
      /\ \A q \in Evictor : evictor'[q].phase # "none" => evictor'[q].entry \in EntryId
  BY <1>6 DEF TypeInv, TypeOK
<1> QED BY <1>5, <1>6, <1>7 DEF TypeInv, TypeOK

LEMMA CollectType ==
    ASSUME TypeInv, NEW e \in EntryId, Collect(e)
    PROVE  TypeInv'
<1>1. PICK f : f = NoEntry /\ entry' = [entry EXCEPT ![e] = f]
  BY DEF Collect
<1>2. f \in Entry /\ Counted(f)
  BY <1>1, FreshType DEF NoEntry
<1>3. entry' \in [EntryId -> Entry] /\ \A x \in EntryId : Counted(entry'[x])
  BY <1>1, <1>2 DEF TypeInv, TypeOK
<1> QED BY <1>3 DEF Collect, TypeInv, TypeOK

LEMMA DeleteType ==
    ASSUME TypeInv, DeleteDocument \/ Forget
    PROVE  TypeInv'
<1>1. CASE DeleteDocument
  BY <1>1 DEF DeleteDocument, EmptyStore, Store, TypeInv, TypeOK
<1>2. CASE Forget
  BY <1>2 DEF Forget, TypeInv, TypeOK
<1> QED BY <1>1, <1>2

LEMMA InitType == Init => TypeInv
<1> SUFFICES ASSUME Init PROVE TypeInv
  OBVIOUS
<1>1. PICK f : f = NoEntry /\ entry = [e \in EntryId |-> f]
  BY DEF Init
<1>2. f \in Entry /\ Counted(f)
  BY <1>1, FreshType DEF NoEntry
<1>3. entry \in [EntryId -> Entry] /\ \A x \in EntryId : Counted(entry[x])
  BY <1>1, <1>2
<1>4. /\ db \in Store
      /\ \A p \in Evictor : evictor[p] = NoPass
  BY DEF Init, EmptyStore, Store
<1>5. /\ loading \in [phase: {"none", "select", "updates", "create", "built"},
                      waiters: SUBSET Caller, content: SUBSET Update, seq: Nat]
      /\ evictor \in [Evictor -> [phase: {"none", "flush", "encode", "insert", "compact"},
                                  entry: EntryId \cup {None}, behind: Nat, seq: Nat,
                                  encoded: SUBSET Update]]
      /\ \A p \in Evictor : evictor[p].phase = "none"
  BY DEF Init, NotLoading, NoPass
<1>6. /\ status \in [EntryId -> {"free", "live", "destroyed"}]
      /\ refCount \in [EntryId -> Int]
      /\ session \in [Caller -> EntryId \cup {None, Waiting}]
  BY DEF Init
<1>7. /\ docs = None /\ deleter = "none" /\ faults = 0 /\ applied = {} /\ failed = {}
      /\ raced = FALSE
  BY DEF Init
<1> QED BY <1>3, <1>4, <1>5, <1>6, <1>7 DEF TypeInv, TypeOK

LEMMA NextType == TypeInv /\ [Next]_vars => TypeInv'
<1> SUFFICES ASSUME TypeInv, [Next]_vars PROVE TypeInv'
  OBVIOUS
<1>1. CASE UNCHANGED vars
  BY <1>1 DEF vars, TypeInv, TypeOK
<1> QED BY <1>1, CallerType, LoadType, ChainType, CollectType, EvictType, DeleteType DEF Next

-----------------------------------------------------------------------------
(* Quiet, action by action.                                                 *)

\* No pass has anything in hand while a caller has the document, or nobody
\* can have it.
LEMMA NoPassInHand ==
    ASSUME TypeInv, Quiet,
           \/ docs = None
           \/ \E c \in Caller : session[c] \in EntryId
           \/ ~InHand(docs)
    PROVE  \A p \in Evictor : evictor[p].phase = "none" /\ evictor[p].entry = None
<1> SUFFICES ASSUME NEW p \in Evictor
             PROVE  evictor[p].phase = "none" /\ evictor[p].entry = None
  OBVIOUS
<1>1. Pass(p)
  BY DEF Quiet
<1>2. evictor[p].phase = "none"
  <2> SUFFICES ASSUME evictor[p].phase # "none" PROVE FALSE
    OBVIOUS
  <2>1. /\ evictor[p].entry = docs /\ evictor[p].entry \in EntryId
        /\ \A c \in Caller : session[c] \notin EntryId
    BY <1>1 DEF Pass, TypeInv
  <2> QED BY <2>1, RegistryAssumption DEF InHand
<1> QED BY <1>1, <1>2 DEF Pass

\* Pass of the next state, when no pass has anything in hand then.
LEMMA IdlePasses ==
    ASSUME \A p \in Evictor : evictor'[p].phase = "none" /\ evictor'[p].entry = None
    PROVE  \A p \in Evictor : Pass(p)'
BY DEF Pass

LEMMA AcquireResidentQuiet ==
    ASSUME TypeInv, Quiet, Undisturbed', NEW c \in Caller, AcquireResident(c)
    PROVE  Quiet'
<1>1. /\ docs \in EntryId /\ ~InHand(docs)
      /\ session[c] = None /\ session' = [session EXCEPT ![c] = docs]
      /\ refCount' = [refCount EXCEPT ![docs] = @ + 1]
      /\ UNCHANGED <<db, docs, loading, entry, status, evictor, applied, failed>>
  BY DEF AcquireResident, Undisturbed, TypeInv, TypeOK
<1>2. \A p \in Evictor : Pass(p)'
  BY <1>1, NoPassInHand, IdlePasses
<1>3. Shared'
  <2> DEFINE Users == {d \in Caller : session[d] = docs}
  <2>1. /\ docs # None
        /\ \A d \in Caller : session[d] \in EntryId => session[d] = docs
        /\ status[docs] = "live" /\ loading.phase = "none"
        /\ refCount[docs] = Cardinality(Users)
    BY <1>1, RegistryAssumption DEF Quiet, Shared
  <2>2. IsFiniteSet(Users) /\ c \notin Users
    BY <1>1, <2>1, RegistryAssumption, FS_Subset
  <2>3. Cardinality(Users \cup {c}) = Cardinality(Users) + 1
    BY <2>2, FS_AddElement
  <2>4. {d \in Caller : session'[d] = docs'} = Users \cup {c}
    BY <1>1 DEF TypeInv, TypeOK
  <2>5. refCount'[docs'] = refCount[docs] + 1
    BY <1>1 DEF TypeInv, TypeOK
  <2>6. \A d \in Caller : session'[d] \in EntryId => session'[d] = docs'
    BY <1>1, <2>1 DEF TypeInv, TypeOK
  <2> QED BY <1>1, <2>1, <2>3, <2>4, <2>5, <2>6 DEF Shared
<1>4. OneWriter' /\ LoadInv' /\ Kept'
  BY <1>1 DEF Quiet, OneWriter, LoadInv, Kept, Pending
<1>5. Seen'
  BY <1>1 DEF Quiet, Seen
<1> QED BY <1>2, <1>3, <1>4, <1>5 DEF Quiet

LEMMA AcquireLoadingQuiet ==
    ASSUME TypeInv, Quiet, Undisturbed', NEW c \in Caller, AcquireLoading(c)
    PROVE  Quiet'
<1>1. /\ docs = None /\ session' = [session EXCEPT ![c] = Waiting]
      /\ loading' = [loading EXCEPT !.waiters = @ \cup {c},
                                    !.phase = IF @ = "none" THEN "select" ELSE @]
      /\ UNCHANGED <<db, docs, entry, status, refCount, evictor, applied, failed>>
  BY DEF AcquireLoading
<1>2. \A p \in Evictor : Pass(p)'
  BY <1>1, NoPassInHand, IdlePasses
<1>3. Shared'
  BY <1>1, RegistryAssumption DEF Quiet, Shared, TypeInv, TypeOK
<1>4. OneWriter' /\ Kept' /\ Seen'
  BY <1>1 DEF Quiet, OneWriter, Kept, Pending, Seen
<1>5. /\ loading'.content = loading.content /\ loading'.seq = loading.seq
      /\ \/ loading'.phase = loading.phase
         \/ loading.phase = "none" /\ loading'.phase = "select"
  BY <1>1 DEF TypeInv, TypeOK
<1>6. LoadInv'
  BY <1>1, <1>5 DEF Quiet, LoadInv
<1> QED BY <1>2, <1>3, <1>4, <1>6 DEF Quiet

LEMMA ReleaseQuiet ==
    ASSUME TypeInv, Quiet, Undisturbed', NEW c \in Caller, Release(c)
    PROVE  Quiet'
<1>1. /\ session[c] = docs /\ docs \in EntryId /\ docs # None
      /\ session' = [session EXCEPT ![c] = None]
      /\ refCount' = [refCount EXCEPT ![docs] = @ - 1]
      /\ UNCHANGED <<db, docs, loading, entry, status, evictor, applied, failed>>
  BY RegistryAssumption DEF Release, Quiet, Shared
<1>2. \A p \in Evictor : Pass(p)'
  BY <1>1, NoPassInHand, IdlePasses
<1>3. Shared'
  <2> DEFINE Users == {d \in Caller : session[d] = docs}
  <2>1. /\ \A d \in Caller : session[d] \in EntryId => session[d] = docs
        /\ status[docs] = "live" /\ loading.phase = "none"
        /\ refCount[docs] = Cardinality(Users)
    BY <1>1 DEF Quiet, Shared
  <2>2. IsFiniteSet(Users) /\ c \in Users
    BY <1>1, RegistryAssumption, FS_Subset
  <2>3. Cardinality(Users \ {c}) = Cardinality(Users) - 1
    BY <2>2, FS_RemoveElement
  <2>4. {d \in Caller : session'[d] = docs'} = Users \ {c}
    BY <1>1 DEF TypeInv, TypeOK
  <2>5. refCount'[docs'] = refCount[docs] - 1
    BY <1>1 DEF TypeInv, TypeOK
  <2>6. \A d \in Caller : session'[d] \in EntryId => session'[d] = docs'
    BY <1>1, <2>1, RegistryAssumption DEF TypeInv, TypeOK
  <2> QED BY <1>1, <2>1, <2>3, <2>4, <2>5, <2>6 DEF Shared
<1>4. OneWriter' /\ LoadInv' /\ Kept'
  BY <1>1 DEF Quiet, OneWriter, LoadInv, Kept, Pending
<1>5. Seen'
  BY <1>1 DEF Quiet, Seen
<1> QED BY <1>2, <1>3, <1>4, <1>5 DEF Quiet

\* The one entry callers share is live: the change reaches its chain.
LEMMA ApplyUpdateQuiet ==
    ASSUME TypeInv, Quiet, Undisturbed',
           NEW c \in Caller, NEW us \in SUBSET Update, ApplyUpdate(c, us)
    PROVE  Quiet'
<1>1. /\ session[c] = docs /\ docs \in EntryId /\ docs # None
      /\ status[docs] = "live" /\ loading.phase = "none"
      /\ applied' = applied \cup News(entry[docs], us)
      /\ UNCHANGED <<db, docs, loading, status, refCount, session, evictor, failed>>
  BY RegistryAssumption DEF ApplyUpdate, Quiet, Shared
<1>2. PICK f : f = Received(entry[docs], us)
  OBVIOUS
<1>3. entry' = [entry EXCEPT ![docs] = f]
  BY <1>1, <1>2 DEF ApplyUpdate
<1>4. entry'[docs] = f /\ \A e \in EntryId : e # docs => entry'[e] = entry[e]
  BY <1>1, <1>3 DEF TypeInv, TypeOK
<1>5. /\ Chained(db, f)
      /\ Unsettled(f) = Unsettled(entry[docs]) \cup News(entry[docs], us)
      /\ Shown(f.doc) = Shown(entry[docs].doc) \cup News(entry[docs], us)
      /\ f.doc \in SUBSET Update
  <2>1. Chained(db, entry[docs])
    BY <1>1 DEF Quiet, OneWriter
  <2>2. Chained(db, f) => f \in Entry
    BY DEF Chained
  <2> QED BY <1>2, <2>1, <2>2, ReceivedKeeps DEF Entry
<1>6. \A p \in Evictor : Pass(p)'
  BY <1>1, NoPassInHand, IdlePasses
<1>7. Shared'
  BY <1>1 DEF Quiet, Shared
<1>8. OneWriter'
  BY <1>1, <1>4, <1>5 DEF Quiet, OneWriter
<1>9. LoadInv'
  BY <1>1 DEF Quiet, LoadInv
<1>10. Kept'
  BY <1>1, <1>4, <1>5 DEF Quiet, Kept, Pending
<1>11. Seen'
  <2>1. /\ \A v \in applied : Needs[v] \subseteq applied
        /\ Shown(entry[docs].doc) \subseteq applied
        /\ Shown(Recoverable(db)) \subseteq applied
    BY <1>1 DEF Quiet, Seen
  <2>2. Shown(f.doc) \subseteq applied'
    BY <1>1, <1>5, <2>1
  <2>3. \A v \in News(entry[docs], us) : Needs[v] \subseteq applied'
    BY <1>5, <2>2, ShownClosed DEF History
  <2> QED BY <1>1, <1>4, <2>1, <2>2, <2>3 DEF Seen
<1> QED BY <1>6, <1>7, <1>8, <1>9, <1>10, <1>11 DEF Quiet

LEMMA CallerQuiet ==
    ASSUME TypeInv, Quiet, Undisturbed', NEW c \in Caller, CallerStep(c)
    PROVE  Quiet'
BY AcquireResidentQuiet, AcquireLoadingQuiet, ReleaseQuiet, ApplyUpdateQuiet DEF CallerStep

\* Nothing writes while the document is loaded: the load returns what is
\* recoverable.
LEMMA LoadQuiet ==
    ASSUME TypeInv, Quiet, Undisturbed', LoadStep
    PROVE  Quiet'
<1>0. /\ db \in Store /\ StoreInv(db)
      /\ \A e \in EntryId : e # docs => Settled(entry[e])
  BY DEF Quiet, OneWriter, TypeInv, TypeOK
<1>1. loading.phase # "none" /\ docs = None
  BY DEF LoadStep, LoadSnapshot, LoadUpdates, LoadCreate, LoadFails, LoadDone, Quiet, Shared
<1>2. /\ \A c \in Caller : session[c] \notin EntryId
      /\ applied \subseteq Recoverable(db) \cup failed
  BY <1>1, RegistryAssumption DEF Quiet, Shared, Kept, Pending
<1>3. evictor' = evictor
  BY DEF LoadStep, LoadSnapshot, LoadUpdates, LoadCreate, LoadFails, LoadDone, LoadOnly
<1>4. \A p \in Evictor : Pass(p)'
  BY <1>1, <1>3, NoPassInHand, IdlePasses
<1>5. ASSUME docs' = None, entry' = entry, applied' = applied, failed' = failed,
             \A c \in Caller : session'[c] \notin EntryId,
             StoreInv(db'), Recoverable(db') = Recoverable(db), LoadInv'
      PROVE  Quiet'
  <2>1. Shared'
    BY <1>5 DEF Shared
  <2>2. OneWriter'
    BY <1>0, <1>1, <1>5 DEF OneWriter
  <2>3. Kept'
    BY <1>2, <1>5 DEF Kept, Pending
  <2>4. Seen'
    BY <1>5 DEF Quiet, Seen
  <2> QED BY <1>4, <1>5, <2>1, <2>2, <2>3, <2>4 DEF Quiet
<1>6. CASE LoadSnapshot
  <2>1. loading.content = {} /\ loading.seq = 0
    BY <1>6 DEF LoadSnapshot, Quiet, LoadInv
  <2>2. LoadInv'
    <3>1. CASE LatestSnapshot(db) = {} /\ loading' = [loading EXCEPT !.phase = "create"]
      <4>1. db.snapshots = {}
        BY <1>0, <3>1 DEF StoreInv
      <4> QED BY <1>6, <2>1, <3>1, <4>1 DEF LoadSnapshot, LoadInv, TypeInv, TypeOK
    <3>2. ASSUME NEW base \in LatestSnapshot(db),
                 loading' = [loading EXCEPT !.phase = "updates",
                                            !.content = base.content, !.seq = base.seq]
          PROVE  LoadInv'
      <4>1. /\ loading'.phase = "updates" /\ loading'.content = base.content
            /\ loading'.seq = base.seq /\ db' = db
        BY <1>6, <3>2 DEF LoadSnapshot, TypeInv, TypeOK
      <4> QED BY <4>1 DEF LoadInv
    <3> QED BY <1>6, <3>1, <3>2 DEF LoadSnapshot
  <2> QED BY <1>0, <1>1, <1>2, <1>5, <1>6, <2>2 DEF LoadSnapshot, LoadOnly
<1>7. CASE LoadUpdates
  <2> DEFINE rows == UpdatesAfter(db, loading.seq)
  <2>1. PICK n \in {loading.seq} \cup {r.seq : r \in rows} :
          /\ IsLoadedSeq(loading, rows, n)
          /\ loading' = [loading EXCEPT !.phase = "built",
                                        !.content = LoadedContent(loading, rows), !.seq = n]
    BY <1>7 DEF LoadUpdates
  <2>2. PICK base \in LatestSnapshot(db) :
          loading.content = base.content /\ loading.seq = base.seq
    BY <1>7 DEF LoadUpdates, Quiet, LoadInv
  <2>3. /\ IsLoadedSeq(base, UpdatesAfter(db, base.seq), n)
        /\ LoadedContent(loading, rows) = LoadedContent(base, UpdatesAfter(db, base.seq))
    BY <2>1, <2>2 DEF IsLoadedSeq, LoadedContent
  <2>4. /\ LoadedContent(loading, rows) = Recoverable(db)
        /\ \A s \in db.snapshots : s.seq <= n
        /\ \A r \in db.updates : r.seq <= n /\ r.updates \subseteq Recoverable(db)
    <3>1. SnapshotsCoverLog(db) /\ \A s, t \in db.snapshots : s.seq = t.seq => s = t
      BY <1>0 DEF StoreInv
    <3> QED BY <1>0, <2>2, <2>3, <3>1, LoadedIsRecoverable
  <2>5. db.row
    BY <1>0, <2>2 DEF StoreInv, LatestSnapshot
  <2>6. PICK c : c = LoadedContent(loading, rows)
    OBVIOUS
  <2>7. /\ loading'.phase = "built" /\ loading'.content = c /\ loading'.seq = n
        /\ db' = db
    BY <1>7, <2>1, <2>6 DEF LoadUpdates, TypeInv, TypeOK
  <2>8. LoadInv'
    BY <2>4, <2>5, <2>6, <2>7 DEF LoadInv
  <2> QED BY <1>0, <1>1, <1>2, <1>5, <1>7, <2>8 DEF LoadUpdates, LoadOnly
<1>8. ASSUME db' = PersistInitialSnapshot(db), CanInsertDocument(db)
      PROVE  /\ StoreInv(db') /\ db'.row /\ db'.updates = {}
             /\ \A s \in db'.snapshots : s.seq <= 0
             /\ Recoverable(db) = {} /\ Recoverable(db') = {}
  BY <1>0, <1>8, InitialKeeps DEF CanInsertDocument
<1>9. CASE LoadCreate
  <2>1. loading.content = {} /\ loading.seq = 0
    BY <1>9 DEF LoadCreate, Quiet, LoadInv
  <2>2. /\ loading'.phase = "built" /\ loading'.content = {} /\ loading'.seq = 0
    BY <1>9, <2>1 DEF LoadCreate, TypeInv, TypeOK
  <2>3. /\ StoreInv(db') /\ db'.row /\ db'.updates = {}
        /\ \A s \in db'.snapshots : s.seq <= 0
        /\ Recoverable(db) = {} /\ Recoverable(db') = {}
    BY <1>8, <1>9 DEF LoadCreate
  <2>4. LoadInv'
    BY <2>2, <2>3 DEF LoadInv
  <2> QED BY <1>1, <1>2, <1>5, <1>9, <2>3, <2>4 DEF LoadCreate, LoadOnly
<1>10. CASE LoadFails
  <2>1. StoreInv(db') /\ Recoverable(db') = Recoverable(db)
    <3>1. CASE db' = db
      BY <1>0, <3>1
    <3>2. CASE db' = PersistInitialSnapshot(db) /\ CanInsertDocument(db)
      BY <1>8, <3>2
    <3> QED BY <1>10, <3>1, <3>2 DEF LoadFails
  <2>2. \A c \in Caller : session'[c] \notin EntryId
    BY <1>2, <1>10, RegistryAssumption DEF LoadFails
  <2>3. LoadInv'
    BY <1>10 DEF LoadFails, NotLoading, LoadInv
  <2> QED BY <1>1, <1>5, <1>10, <2>1, <2>2, <2>3 DEF LoadFails
<1>11. CASE LoadDone
  <2>1. PICK e \in EntryId :
          /\ entry' = [entry EXCEPT ![e] = NewEntry(loading.content, loading.seq)]
          /\ status' = [status EXCEPT ![e] = "live"]
          /\ refCount' = [refCount EXCEPT ![e] = Cardinality(loading.waiters)]
          /\ docs' = e
          /\ session' = [c \in Caller |-> IF c \in loading.waiters THEN e ELSE session[c]]
    BY <1>11 DEF LoadDone
  <2>2. PICK f : f = NewEntry(loading.content, loading.seq)
    OBVIOUS
  <2>3. /\ db.row /\ loading.content = Recoverable(db)
        /\ \A s \in db.snapshots : s.seq <= loading.seq
        /\ \A r \in db.updates : r.seq <= loading.seq /\ r.updates \subseteq loading.content
    BY <1>11 DEF LoadDone, Quiet, LoadInv
  <2>4. Chained(db, f) /\ Unsettled(f) = {} /\ f.doc = Recoverable(db)
    <3>1. loading.content \in SUBSET Update /\ loading.seq \in Nat
      BY DEF TypeInv, TypeOK
    <3> QED BY <1>0, <2>2, <2>3, <3>1, NewEntryKeeps
  <2>5. entry'[e] = f /\ \A x \in EntryId : x # e => entry'[x] = entry[x]
    BY <2>1, <2>2 DEF TypeInv, TypeOK
  <2>6. /\ db' = db /\ failed' = failed /\ applied' = applied /\ loading' = NotLoading
        /\ docs' = e /\ e # None
    BY <1>11, <2>1, RegistryAssumption DEF LoadDone
  <2>7. Shared'
    <3>1. {c \in Caller : session'[c] = e} = loading.waiters
      BY <1>2, <2>1 DEF TypeInv, TypeOK
    <3>2. /\ refCount'[e] = Cardinality(loading.waiters) /\ status'[e] = "live"
          /\ \A c \in Caller : session'[c] \in EntryId => session'[c] = e
      BY <1>2, <2>1 DEF TypeInv, TypeOK
    <3> QED BY <2>6, <3>1, <3>2 DEF Shared, NotLoading
  <2>8. OneWriter'
    BY <1>0, <1>1, <2>4, <2>5, <2>6, RegistryAssumption DEF OneWriter
  <2>9. LoadInv'
    BY <2>6 DEF NotLoading, LoadInv
  <2>10. Kept'
    BY <1>2, <2>6 DEF Kept, Pending
  <2>11. Seen'
    BY <2>4, <2>5, <2>6 DEF Quiet, Seen
  <2> QED BY <1>4, <2>7, <2>8, <2>9, <2>10, <2>11 DEF Quiet
<1> QED BY <1>6, <1>7, <1>9, <1>10, <1>11 DEF LoadStep

\* A step of the chain of an entry whose rows are chained keeps them so, counts
\* a task that ends off, and loses nothing but what its failed append was of.
LEMMA ChainKeeps ==
    ASSUME NEW e \in EntryId, Chained(db, entry[e]), ChainStep(e)
    PROVE  \E f :
             /\ Becomes(e, f)
             /\ Chained(db', f) /\ f.doc = entry[e].doc
             /\ IF f.phase = "idle" THEN f.pendingUpdates = entry[e].pendingUpdates - 1
                                    ELSE f.pendingUpdates = entry[e].pendingUpdates
             /\ failed \subseteq failed' \cup Recoverable(db')
             /\ Recoverable(db) \subseteq Recoverable(db')
             /\ Unsettled(entry[e]) \subseteq Unsettled(f) \cup Recoverable(db') \cup failed'
<1> DEFINE Good(f) ==
             /\ Becomes(e, f)
             /\ Chained(db', f) /\ f.doc = entry[e].doc
             /\ IF f.phase = "idle" THEN f.pendingUpdates = entry[e].pendingUpdates - 1
                                    ELSE f.pendingUpdates = entry[e].pendingUpdates
             /\ failed \subseteq failed' \cup Recoverable(db')
             /\ Recoverable(db) \subseteq Recoverable(db')
             /\ Unsettled(entry[e]) \subseteq Unsettled(f) \cup Recoverable(db') \cup failed'
<1>1. /\ entry[e] \in Entry
      /\ entry[e].phase # "idle" => entry[e].pendingUpdates > 0
      /\ entry[e].phase # "append" => entry[e].writing = {}
  BY ChainedFacts DEF Chained, TaskInv
<1> SUFFICES \E f : Good(f)
  OBVIOUS
<1>2. ASSUME entry[e].phase # "idle", Becomes(e, TaskFailed(entry[e])), db' = db,
             failed \subseteq failed', entry[e].writing \subseteq failed'
      PROVE  \E f : Good(f)
  <2>1. PICK f : f = TaskFailed(entry[e])
    OBVIOUS
  <2>2. /\ Chained(db, f) /\ f.doc = entry[e].doc
        /\ Unsettled(entry[e]) = Unsettled(f) \cup entry[e].writing
    BY <1>2, <2>1, FailedKeeps
  <2>3. f.phase = "idle" /\ f.pendingUpdates = entry[e].pendingUpdates - 1
    BY <1>1, <1>2, <2>1, TaskFailedType
  <2>4. Becomes(e, f)
    BY <1>2, <2>1
  <2> QED BY <1>2, <2>2, <2>3, <2>4
<1>3. CASE StartTask(e)
  <2>1. /\ entry[e].phase = "idle" /\ entry[e].queue # <<>>
        /\ db' = db /\ failed' = failed
    BY <1>3 DEF StartTask
  <2>2. PICK f : f = TaskStarted(entry[e])
    OBVIOUS
  <2>3. /\ Chained(db, f) /\ f.doc = entry[e].doc
        /\ f.phase = "append" /\ Unsettled(f) = Unsettled(entry[e])
    BY <2>1, <2>2, StartedKeeps
  <2>4. f.pendingUpdates = entry[e].pendingUpdates
    BY <1>1, <2>2 DEF TaskStarted, Entry
  <2>5. Becomes(e, f)
    BY <1>3, <2>2 DEF StartTask
  <2> QED BY <2>1, <2>3, <2>4, <2>5
<1>4. CASE AppendReturns(e)
  <2>1. PICK late \in BOOLEAN : Becomes(e, Appended(entry[e], late))
    BY <1>4 DEF AppendReturns
  <2>2. /\ entry[e].phase = "append" /\ failed' = failed \ entry[e].writing
        /\ db' = AppendUpdate(db, entry[e].seq, entry[e].writing)
    BY <1>4 DEF AppendReturns, WithRow
  <2>3. PICK f : f = Appended(entry[e], late)
    OBVIOUS
  <2>4. f = TaskFailed(entry[e]) \/ \E b \in BOOLEAN : f = Appended(entry[e], b)
    BY <2>3
  <2>5. /\ Chained(db', f) /\ f.doc = entry[e].doc
        /\ Recoverable(db') = Recoverable(db) \cup entry[e].writing
        /\ Unsettled(entry[e]) = Unsettled(f) \cup entry[e].writing
    BY <2>2, <2>4, AppendKeeps
  <2>6. \/ f.phase = "encode" /\ f.pendingUpdates = entry[e].pendingUpdates
        \/ f.phase = "idle" /\ f.pendingUpdates = entry[e].pendingUpdates - 1
    BY <1>1, <2>2, <2>3, AppendedType
  <2>7. Becomes(e, f)
    BY <2>1, <2>3
  <2> QED BY <2>2, <2>5, <2>6, <2>7
<1>5. CASE AppendFails(e)
  BY <1>2, <1>5 DEF AppendFails
<1>6. CASE EncodeSnapshot(e)
  <2>1. entry[e].phase = "encode" /\ db' = db /\ failed' = failed
    BY <1>6 DEF EncodeSnapshot
  <2>2. PICK f : f = Encoded(entry[e])
    OBVIOUS
  <2>3. /\ Chained(db, f) /\ f.doc = entry[e].doc
        /\ f.phase = "insert" /\ Unsettled(f) = Unsettled(entry[e])
    BY <2>1, <2>2, EncodedKeeps
  <2>4. f.pendingUpdates = entry[e].pendingUpdates
    BY <1>1, <2>2 DEF Encoded, Entry
  <2>5. Becomes(e, f)
    BY <1>6, <2>2 DEF EncodeSnapshot
  <2> QED BY <2>1, <2>3, <2>4, <2>5
<1>7. CASE SnapshotReturns(e)
  <2>1. /\ entry[e].phase = "insert" /\ failed' = failed
        /\ db' = InsertSnapshot(db, entry[e].seq, entry[e].encoded)
    BY <1>7 DEF SnapshotReturns
  <2>2. PICK f : f = SnapshotInserted(entry[e])
    OBVIOUS
  <2>3. /\ Chained(db', f) /\ f.doc = entry[e].doc /\ Unsettled(f) = Unsettled(entry[e])
        /\ Recoverable(db') = entry[e].encoded
        /\ Recoverable(db) \subseteq entry[e].encoded
    BY <2>1, <2>2, InsertedKeeps
  <2>4. f.phase = "compact" /\ f.pendingUpdates = entry[e].pendingUpdates
    BY <1>1, <2>2 DEF SnapshotInserted, Entry
  <2>5. Becomes(e, f)
    BY <1>7, <2>2 DEF SnapshotReturns
  <2> QED BY <2>1, <2>3, <2>4, <2>5
<1>8. CASE SnapshotFails(e)
  BY <1>1, <1>2, <1>8 DEF SnapshotFails
<1>9. CASE CompactReturns(e)
  <2>1. /\ entry[e].phase = "compact" /\ failed' = failed
        /\ db' = CompactAfterSnapshot(db, entry[e].seq)
    BY <1>9 DEF CompactReturns
  <2>2. PICK f : f = SnapshotDone(entry[e])
    OBVIOUS
  <2>3. /\ Chained(db', f) /\ f.doc = entry[e].doc /\ Unsettled(f) = Unsettled(entry[e])
        /\ Recoverable(db') = Recoverable(db)
    BY <2>1, <2>2, CompactedKeeps
  <2>4. f.phase = "idle" /\ f.pendingUpdates = entry[e].pendingUpdates - 1
    BY <1>1, <2>1, <2>2, SnapshotDoneType
  <2>5. Becomes(e, f)
    BY <1>9, <2>2 DEF CompactReturns
  <2> QED BY <2>1, <2>3, <2>4, <2>5
<1>10. CASE CompactFails(e)
  BY <1>1, <1>2, <1>10 DEF CompactFails
<1> HIDE DEF Good
<1> QED BY <1>3, <1>4, <1>5, <1>6, <1>7, <1>8, <1>9, <1>10 DEF ChainStep

\* Only the entry in docs has a chain to run.  A pass that awaits it has as
\* many tasks ahead as there are, and no other pass has it in hand.
LEMMA ChainQuiet ==
    ASSUME TypeInv, Quiet, Undisturbed', NEW e \in EntryId, ChainStep(e)
    PROVE  Quiet'
<1>1. ~Settled(entry[e])
  BY ChainCases DEF Settled
<1>2. e = docs /\ docs # None
  BY <1>1, RegistryAssumption DEF Quiet, OneWriter
<1>3. Chained(db, entry[e])
  BY <1>2 DEF Quiet, OneWriter
<1>4. PICK f :
        /\ Becomes(e, f)
        /\ Chained(db', f) /\ f.doc = entry[e].doc
        /\ IF f.phase = "idle" THEN f.pendingUpdates = entry[e].pendingUpdates - 1
                               ELSE f.pendingUpdates = entry[e].pendingUpdates
        /\ failed \subseteq failed' \cup Recoverable(db')
        /\ Recoverable(db) \subseteq Recoverable(db')
        /\ Unsettled(entry[e]) \subseteq Unsettled(f) \cup Recoverable(db') \cup failed'
  BY <1>3, ChainKeeps
<1>5. /\ entry'[e] = f /\ \A x \in EntryId : x # e => entry'[x] = entry[x]
      /\ UNCHANGED <<docs, loading, status, refCount, session, applied>>
      /\ IF f.phase = "idle" THEN TaskEnds(e) ELSE evictor' = evictor
  BY <1>4 DEF Becomes, chainVars, TypeInv, TypeOK
<1>6. entry[e].pendingUpdates \in Nat /\ entry[e].pendingUpdates > 0
  <2>1. Counted(entry[e]) /\ entry[e].pendingUpdates \in Nat /\ entry[e].queue \in Seq(SUBSET Update)
    BY DEF TypeInv, TypeOK, Entry
  <2>2. entry[e].queue # <<>> => Len(entry[e].queue) > 0
    BY <2>1
  <2>3. Len(entry[e].queue) \in Nat
    BY <2>1
  <2>4. CASE entry[e].phase = "idle"
    BY <1>1, <2>1, <2>2, <2>3, <2>4 DEF Counted, Settled
  <2>5. CASE entry[e].phase # "idle"
    BY <2>1, <2>3, <2>5 DEF Counted
  <2> QED BY <2>1, <2>4, <2>5
<1>7. ASSUME NEW p \in Evictor
      PROVE  Pass(p)'
  <2>1. Pass(p)
    BY DEF Quiet
  <2>2. /\ evictor'[p].phase = evictor[p].phase /\ evictor'[p].entry = evictor[p].entry
        /\ evictor[p].phase = "flush" => evictor'[p].behind = f.pendingUpdates
    <3>0. evictor[p].behind \in Nat
      BY DEF TypeInv, TypeOK
    <3>1. CASE f.phase = "idle"
      <4>1. evictor'[p] = IF evictor[p].entry = e /\ evictor[p].behind > 0
                          THEN [evictor[p] EXCEPT !.behind = @ - 1]
                          ELSE evictor[p]
        BY <1>5, <3>1 DEF TaskEnds
      <4>2. evictor'[p].phase = evictor[p].phase /\ evictor'[p].entry = evictor[p].entry
        BY <4>1 DEF TypeInv, TypeOK
      <4>3. ASSUME evictor[p].phase = "flush"
            PROVE  evictor'[p].behind = f.pendingUpdates
        <5>1. evictor[p].entry = e /\ evictor[p].behind = entry[e].pendingUpdates
          BY <1>2, <2>1, <4>3 DEF Pass
        <5>2. evictor'[p].behind = evictor[p].behind - 1
          BY <1>6, <4>1, <5>1 DEF TypeInv, TypeOK
        <5> QED BY <1>4, <3>1, <5>1, <5>2
      <4> QED BY <4>2, <4>3
    <3>2. CASE f.phase # "idle"
      BY <1>2, <1>4, <1>5, <2>1, <3>2 DEF Pass
    <3> QED BY <3>1, <3>2
  <2>3. evictor[p].phase \notin {"encode", "insert", "compact"}
    BY <1>1, <1>2, <2>1 DEF Pass
  <2>4. \A q \in Evictor : evictor'[q].phase # "none" => evictor[q].phase # "none"
    <3> SUFFICES ASSUME NEW q \in Evictor PROVE evictor'[q].phase = evictor[q].phase
      OBVIOUS
    <3>1. CASE f.phase = "idle"
      <4>1. evictor'[q] = IF evictor[q].entry = e /\ evictor[q].behind > 0
                          THEN [evictor[q] EXCEPT !.behind = @ - 1]
                          ELSE evictor[q]
        BY <1>5, <3>1 DEF TaskEnds
      <4> QED BY <4>1 DEF TypeInv, TypeOK
    <3>2. CASE f.phase # "idle"
      BY <1>5, <3>2
    <3> QED BY <3>1, <3>2
  <2> QED BY <1>2, <1>5, <2>1, <2>2, <2>3, <2>4 DEF Pass
<1>8. Shared'
  BY <1>5 DEF Quiet, Shared
<1>9. OneWriter'
  <2>1. StoreInv(db')
    BY <1>4 DEF Chained
  <2> QED BY <1>2, <1>4, <1>5, <2>1 DEF Quiet, OneWriter
<1>10. LoadInv'
  BY <1>2, <1>5 DEF Quiet, LoadInv, Shared
<1>11. Kept'
  BY <1>2, <1>4, <1>5 DEF Quiet, Kept, Pending
<1>12. Seen'
  <2>1. Recoverable(db') \subseteq entry[e].doc
    BY <1>4 DEF Chained, ContentInv
  <2>2. Shown(Recoverable(db')) \subseteq Shown(entry[e].doc)
    BY <2>1, ShownGrows
  <2> QED BY <1>2, <1>4, <1>5, <2>2 DEF Quiet, Seen
<1> QED BY <1>7, <1>8, <1>9, <1>10, <1>11, <1>12 DEF Quiet

\* A pass in hand of the entry in docs, with the chain settled, may remove it:
\* nobody has it, and all users have made is in the rows.
LEMMA RemoveQuiet ==
    ASSUME TypeInv, Quiet, NEW p \in Evictor, docs \in EntryId, Remove(p, docs),
           \A c \in Caller : session[c] \notin EntryId,
           \A q \in Evictor : q # p => evictor[q].phase = "none",
           StoreInv(db'), Recoverable(db') = Recoverable(db),
           Settled(entry[docs]), Settled(entry'[docs]),
           \A e \in EntryId : e # docs => entry'[e] = entry[e]
    PROVE  Quiet'
<1>1. /\ docs' = None /\ docs # None
      /\ evictor' = [evictor EXCEPT ![p] = NoPass]
      /\ UNCHANGED <<loading, session, applied, failed>>
  BY RegistryAssumption DEF Remove
<1>2. \A q \in Evictor : Pass(q)'
  <2> SUFFICES ASSUME NEW q \in Evictor
               PROVE  evictor'[q].phase = "none" /\ evictor'[q].entry = None
    BY IdlePasses
  <2>1. CASE q = p
    BY <1>1, <2>1 DEF TypeInv, TypeOK, NoPass
  <2>2. CASE q # p
    BY <1>1, <2>2 DEF Quiet, Pass
  <2> QED BY <2>1, <2>2
<1>3. Shared'
  BY <1>1 DEF Shared
<1>4. OneWriter'
  BY <1>1 DEF Quiet, OneWriter
<1>5. LoadInv'
  BY <1>1 DEF Quiet, LoadInv, Shared
<1>6. Kept'
  <2>1. Unsettled(entry[docs]) = {}
    <3>1. Chained(db, entry[docs])
      BY <1>1 DEF Quiet, OneWriter
    <3>2. entry[docs].writing = {} /\ entry[docs].queue = <<>>
      BY <3>1 DEF Chained, TaskInv, Settled
    <3>3. DOMAIN entry[docs].queue = {}
      BY <3>2
    <3>4. UNION {entry[docs].queue[i] : i \in DOMAIN entry[docs].queue} = {}
      BY <3>3
    <3> QED BY <3>2, <3>4 DEF Unsettled
  <2> QED BY <1>1, <2>1 DEF Quiet, Kept, Pending
<1>7. Seen'
  BY <1>1 DEF Quiet, Seen
<1> QED BY <1>2, <1>3, <1>4, <1>5, <1>6, <1>7 DEF Quiet

\* A pass that goes on keeps the entry and the counts.
LEMMA ContinueQuiet ==
    ASSUME TypeInv, Quiet, NEW p \in Evictor, NEW new, Continue(p, new), docs # None,
           \A q \in Evictor : q # p => evictor[q].phase = "none",
           Chained(db', entry[docs]), Recoverable(db) \subseteq Recoverable(db'),
           Pass(p)'
    PROVE  Quiet'
<1>1. /\ evictor' = [evictor EXCEPT ![p] = new]
      /\ UNCHANGED <<docs, loading, entry, status, refCount, session, applied, failed>>
  BY DEF Continue
<1>2. \A q \in Evictor : Pass(q)'
  <2> SUFFICES ASSUME NEW q \in Evictor, q # p
               PROVE  Pass(q)'
    OBVIOUS
  <2>1. evictor'[q] = evictor[q] /\ evictor[q].phase = "none" /\ Pass(q)
    BY <1>1 DEF Quiet, TypeInv, TypeOK
  <2> QED BY <2>1 DEF Pass
<1>3. Shared' /\ Kept'
  BY <1>1 DEF Quiet, Shared, Kept, Pending
<1>6. Seen'
  <2>1. Recoverable(db') \subseteq entry[docs].doc
    BY DEF Chained, ContentInv
  <2>2. Shown(Recoverable(db')) \subseteq Shown(entry[docs].doc)
    BY <2>1, ShownGrows
  <2> QED BY <1>1, <2>2 DEF Quiet, Seen
<1>4. OneWriter'
  BY <1>1 DEF Quiet, OneWriter, Chained
<1>5. LoadInv'
  BY <1>1 DEF Quiet, LoadInv, Shared
<1> QED BY <1>2, <1>3, <1>4, <1>5, <1>6 DEF Quiet

\* What a pass that has decided does with the settled entry in docs.
LEMMA DecideQuiet ==
    ASSUME TypeInv, Quiet, NEW p \in Evictor, docs \in EntryId, Decide(p, docs), db' = db,
           \A c \in Caller : session[c] \notin EntryId,
           \A q \in Evictor : q # p => evictor[q].phase = "none",
           Settled(entry[docs])
    PROVE  Quiet'
<1>1. docs # None /\ Chained(db, entry[docs]) /\ StoreInv(db)
  BY RegistryAssumption DEF Quiet, OneWriter
<1>2. CASE Remove(p, docs) /\ entry' = entry
  BY <1>1, <1>2, RemoveQuiet
<1>3. ASSUME NEW new, Continue(p, new),
             new = [phase |-> "encode", entry |-> docs, behind |-> 0,
                    seq |-> entry[docs].seq, encoded |-> {}]
      PROVE  Quiet'
  <2>1. /\ evictor'[p] = new /\ UNCHANGED <<docs, entry, session>>
        /\ \A q \in Evictor : q # p => evictor'[q].phase = "none"
    BY <1>3 DEF Continue, TypeInv, TypeOK
  <2>2. /\ new.phase = "encode" /\ new.entry = docs /\ new.seq = entry[docs].seq
    BY <1>3
  <2>3. Pass(p)'
    BY <2>1, <2>2 DEF Pass
  <2> QED BY <1>1, <1>3, <2>3, ContinueQuiet
<1> QED BY <1>2, <1>3 DEF Decide

\* A pass starts: nobody is counted, so nobody has the document.
LEMMA EvictStartQuiet ==
    ASSUME TypeInv, Quiet, Undisturbed', NEW p \in Evictor, EvictStart(p)
    PROVE  Quiet'
<1>1. /\ docs # None /\ docs \in EntryId /\ refCount[docs] <= 0 /\ raced' = (raced \/ InHand(docs))
      /\ db' = db
  BY DEF EvictStart, EvictSettled, EvictAwait, Evictable, TypeInv, TypeOK
<1>2. \A q \in Evictor : evictor[q].phase = "none" /\ evictor[q].entry = None
  BY <1>1, NoPassInHand DEF Undisturbed
<1>3. \A c \in Caller : session[c] \notin EntryId
  <2> DEFINE Users == {c \in Caller : session[c] = docs}
  <2>1. refCount[docs] = Cardinality(Users) /\ \A c \in Caller : session[c] \in EntryId => session[c] = docs
    BY <1>1 DEF Quiet, Shared
  <2>2. IsFiniteSet(Users)
    BY RegistryAssumption, FS_Subset
  <2>3. Cardinality(Users) = 0
    BY <1>1, <2>1, <2>2, FS_CardinalityType
  <2>4. Users = {}
    BY <2>2, <2>3, FS_EmptySet
  <2> QED BY <2>1, <2>4
<1>4. Chained(db, entry[docs])
  BY <1>1 DEF Quiet, OneWriter
<1>5. CASE EvictSettled(p)
  <2>1. Settled(entry[docs])
    <3>1. Len(entry[docs].queue) \in Nat /\ entry[docs].queue \in Seq(SUBSET Update)
      BY <1>1 DEF TypeInv, TypeOK, Entry
    <3>2. Behind(docs) = 0
      BY <1>5 DEF EvictSettled
    <3>3. entry[docs].phase = "idle"
      <4> SUFFICES ASSUME entry[docs].phase # "idle" PROVE FALSE
        OBVIOUS
      <4>1. Behind(docs) = Len(entry[docs].queue) + 1
        BY DEF Behind
      <4> QED BY <3>1, <3>2, <4>1
    <3>4. Behind(docs) = Len(entry[docs].queue) + 0
      BY <3>3 DEF Behind
    <3> QED BY <3>1, <3>2, <3>3, <3>4 DEF Settled
  <2> QED BY <1>1, <1>2, <1>3, <1>5, <2>1, DecideQuiet DEF EvictSettled
<1>6. CASE EvictAwait(p)
  <2>1. PICK new : new = [NoPass EXCEPT !.phase = "flush", !.entry = docs, !.behind = Behind(docs)]
    OBVIOUS
  <2>2. Continue(p, new)
    BY <1>6, <2>1 DEF EvictAwait
  <2>3. new.phase = "flush" /\ new.entry = docs /\ new.behind = entry[docs].pendingUpdates
    BY <1>1, <2>1, BehindType DEF NoPass
  <2>4. /\ evictor'[p] = new /\ UNCHANGED <<docs, entry, session>>
        /\ \A q \in Evictor : q # p => evictor'[q].phase = "none"
    BY <1>2, <2>2 DEF Continue, TypeInv, TypeOK
  <2>5. Pass(p)'
    BY <1>3, <2>3, <2>4 DEF Pass
  <2> QED BY <1>1, <1>2, <1>4, <2>2, <2>5, ContinueQuiet
<1> QED BY <1>5, <1>6 DEF EvictStart

\* A pass goes on: the entry it has in hand is the one in docs, nobody else
\* has it, and its chain, once settled, stays so.
LEMMA EvictStepQuiet ==
    ASSUME TypeInv, Quiet, Undisturbed', NEW p \in Evictor, EvictStep(p)
    PROVE  Quiet'
<1> DEFINE x == evictor[p]
           e == entry[docs]
<1>1. x.phase # "none"
  BY DEF EvictStep, EvictFlushed, EvictEncode, EvictSnapshot, EvictCompact, EvictFails
<1>2. /\ Pass(p) /\ x.entry = docs /\ docs \in EntryId /\ docs # None
      /\ \A c \in Caller : session[c] \notin EntryId
      /\ \A q \in Evictor : q # p => evictor[q].phase = "none"
  BY <1>1, RegistryAssumption DEF Quiet, Pass, TypeInv
<1>3. Chained(db, e) /\ StoreInv(db)
  BY <1>2 DEF Quiet, OneWriter
<1>4. x.phase \in {"encode", "insert", "compact"} => Settled(e) /\ x.seq = e.seq
  BY <1>2 DEF Pass
<1>5. ASSUME NEW new, Continue(p, new)
      PROVE  /\ evictor'[p] = new /\ UNCHANGED <<docs, entry, session>>
             /\ \A q \in Evictor : q # p => evictor'[q].phase = "none"
  BY <1>2, <1>5 DEF Continue, TypeInv, TypeOK
<1>6. CASE EvictFlushed(p)
  <2>1. x.behind = e.pendingUpdates /\ x.behind = 0
    BY <1>2, <1>6 DEF EvictFlushed, Pass
  <2>2. Settled(e)
    <3>1. Counted(e) /\ Len(e.queue) \in Nat /\ e.queue \in Seq(SUBSET Update)
      BY <1>2 DEF TypeInv, TypeOK, Entry
    <3>2. CASE e.phase = "idle"
      BY <2>1, <3>1, <3>2 DEF Counted, Settled
    <3>3. CASE e.phase # "idle"
      BY <2>1, <3>1, <3>3 DEF Counted
    <3> QED BY <3>2, <3>3
  <2> QED BY <1>2, <1>6, <2>2, DecideQuiet DEF EvictFlushed
<1>7. CASE EvictEncode(p)
  <2>1. x.phase = "encode" /\ db' = db
    BY <1>7 DEF EvictEncode
  <2>2. PICK new : new = [x EXCEPT !.phase = "insert", !.encoded = entry[x.entry].doc]
    OBVIOUS
  <2>3. Continue(p, new)
    BY <1>7, <2>2 DEF EvictEncode
  <2>4. new.phase = "insert" /\ new.entry = docs /\ new.seq = e.seq /\ new.encoded = e.doc
    BY <1>2, <1>4, <2>1, <2>2 DEF TypeInv, TypeOK
  <2>5. Pass(p)'
    BY <1>2, <1>4, <1>5, <2>1, <2>3, <2>4 DEF Pass
  <2> QED BY <1>2, <1>3, <2>1, <2>3, <2>5, ContinueQuiet
<1>8. CASE EvictSnapshot(p)
  <2>1. /\ x.phase = "insert" /\ CanInsertSnapshot(db, x.seq)
        /\ db' = InsertSnapshot(db, x.seq, x.encoded)
    BY <1>8 DEF EvictSnapshot
  <2>2. x.encoded = e.doc
    BY <1>2, <2>1 DEF Pass
  <2>3. /\ Chained(db', e) /\ Recoverable(db) \subseteq Recoverable(db')
        /\ \E s \in db'.snapshots : s.seq = e.seq
    <3>1. Settled(e) /\ CanInsertSnapshot(db, e.seq) /\ db' = InsertSnapshot(db, e.seq, e.doc)
      BY <1>4, <2>1, <2>2
    <3> HIDE DEF e
    <3> QED BY <1>3, <3>1, FinalSnapshotKeeps
  <2>4. PICK new : new = [x EXCEPT !.phase = "compact"]
    OBVIOUS
  <2>5. Continue(p, new)
    BY <1>8, <2>4 DEF EvictSnapshot
  <2>6. new.phase = "compact" /\ new.entry = docs /\ new.seq = e.seq
    BY <1>2, <1>4, <2>1, <2>4 DEF TypeInv, TypeOK
  <2>7. Pass(p)'
    BY <1>2, <1>4, <1>5, <2>1, <2>3, <2>5, <2>6 DEF Pass
  <2> QED BY <1>2, <2>3, <2>5, <2>7, ContinueQuiet
<1>9. CASE EvictCompact(p)
  <2>1. /\ x.phase = "compact" /\ Remove(p, docs)
        /\ db' = CompactAfterSnapshot(db, x.seq)
        /\ entry' = [entry EXCEPT ![docs].lastSnapshotSeq = entry[docs].seq]
    BY <1>2, <1>9 DEF EvictCompact
  <2>2. StoreInv(db') /\ Recoverable(db') = Recoverable(db)
    <3>1. db' = CompactAfterSnapshot(db, e.seq) /\ \E s \in db.snapshots : s.seq = e.seq
      BY <1>2, <1>4, <2>1 DEF Pass
    <3> HIDE DEF e
    <3> QED BY <1>3, <3>1, FinalCompactKeeps
  <2>3. /\ entry'[docs].phase = e.phase /\ entry'[docs].queue = e.queue
        /\ \A d \in EntryId : d # docs => entry'[d] = entry[d]
    BY <1>2, <2>1 DEF TypeInv, TypeOK, Entry
  <2>4. Settled(e) /\ Settled(entry'[docs])
    BY <1>4, <2>1, <2>3 DEF Settled
  <2> QED BY <1>2, <2>1, <2>2, <2>3, <2>4, RemoveQuiet
<1>10. CASE EvictFails(p)
  <2>1. /\ x.phase \in {"insert", "compact"} /\ Remove(p, docs) /\ db' = db /\ entry' = entry
    BY <1>2, <1>10 DEF EvictFails
  <2> QED BY <1>2, <1>3, <1>4, <2>1, RemoveQuiet
<1> QED BY <1>6, <1>7, <1>8, <1>9, <1>10 DEF EvictStep

\* What is collected is not the entry in docs.
LEMMA CollectQuiet ==
    ASSUME TypeInv, Quiet, Undisturbed', NEW e \in EntryId, Collect(e)
    PROVE  Quiet'
<1>1. /\ docs # e
      /\ UNCHANGED <<db, docs, loading, session, evictor, applied, failed>>
      /\ \A x \in EntryId : x # e => /\ entry'[x] = entry[x]
                                     /\ status'[x] = status[x] /\ refCount'[x] = refCount[x]
      /\ docs \in EntryId \cup {None}
      /\ entry'[e] = NoEntry
  BY DEF Collect, TypeInv, TypeOK
<1>2. Settled(entry'[e])
  BY <1>1 DEF NoEntry, NewEntry, Settled
<1>3. Shared'
  BY <1>1 DEF Quiet, Shared
<1>4. OneWriter'
  BY <1>1, <1>2 DEF Quiet, OneWriter
<1>5. LoadInv'
  BY <1>1 DEF Quiet, LoadInv
<1>6. Kept'
  BY <1>1 DEF Quiet, Kept, Pending
<1>7. ASSUME NEW p \in Evictor PROVE Pass(p)'
  <2>1. Pass(p) /\ (evictor[p].phase # "none" => docs \in EntryId)
    BY DEF Quiet, Pass, TypeInv
  <2> QED BY <1>1, <2>1 DEF Pass
<1>8. Seen'
  BY <1>1 DEF Quiet, Seen
<1> QED BY <1>3, <1>4, <1>5, <1>6, <1>7, <1>8 DEF Quiet

-----------------------------------------------------------------------------
(* The theorems.                                                            *)

\* What nothing has raced and nobody has deleted was so before the step.
LEMMA StillUndisturbed ==
    ASSUME TypeInv, [Next]_vars, Undisturbed'
    PROVE  Undisturbed
<1>1. raced \in BOOLEAN /\ deleter \in {"none", "deleted", "forgotten"}
  BY DEF TypeInv, TypeOK
<1>2. CASE UNCHANGED vars
  BY <1>2 DEF vars, Undisturbed
<1>3. ASSUME NEW c \in Caller, CallerStep(c) PROVE Undisturbed
  BY <1>1, <1>3 DEF CallerStep, AcquireResident, AcquireLoading, Release, ApplyUpdate, Undisturbed
<1>4. CASE LoadStep
  <2>1. raced' = raced /\ deleter' = deleter
    BY <1>4 DEF LoadStep, LoadSnapshot, LoadUpdates, LoadCreate, LoadFails, LoadDone, LoadOnly
  <2> QED BY <2>1 DEF Undisturbed
<1>5. ASSUME NEW e \in EntryId, ChainStep(e) PROVE Undisturbed
  <2>1. PICK f : Becomes(e, f)
    BY <1>5, ChainCases
  <2> QED BY <2>1 DEF Becomes, chainVars, Undisturbed
<1>6. ASSUME NEW e \in EntryId, Collect(e) PROVE Undisturbed
  BY <1>6 DEF Collect, Undisturbed
<1>7. ASSUME NEW p \in Evictor, EvictStart(p) PROVE Undisturbed
  BY <1>1, <1>7 DEF EvictStart, EvictSettled, EvictAwait, Evictable, Decide, Continue, Remove, Undisturbed
<1>8. ASSUME NEW p \in Evictor, EvictStep(p) PROVE Undisturbed
  BY <1>8 DEF EvictStep, EvictFlushed, EvictEncode, EvictSnapshot, EvictCompact, EvictFails,
              Decide, Continue, Remove, Undisturbed
<1>9. CASE DeleteDocument \/ Forget
  BY <1>9 DEF DeleteDocument, Forget, Undisturbed
<1> QED BY <1>2, <1>3, <1>4, <1>5, <1>6, <1>7, <1>8, <1>9 DEF Next

LEMMA InitQuiet == Init => Quiet
<1> SUFFICES ASSUME Init PROVE Quiet
  OBVIOUS
<1>1. /\ db = EmptyStore /\ docs = None /\ loading = NotLoading /\ applied = {}
      /\ \A e \in EntryId : entry[e] = NoEntry
      /\ \A c \in Caller : session[c] = None
      /\ \A p \in Evictor : evictor[p] = NoPass
  BY DEF Init
<1>2. Shared
  BY <1>1, RegistryAssumption DEF Shared
<1>3. OneWriter
  BY <1>1 DEF OneWriter, StoreInv, SnapshotsCoverLog, EmptyStore, NoEntry, NewEntry, Settled
<1>4. \A p \in Evictor : Pass(p)
  BY <1>1 DEF Pass, NoPass
<1>5. LoadInv /\ Kept
  BY <1>1 DEF LoadInv, NotLoading, Kept
<1>6. Seen
  <2>1. Recoverable(db) = {}
    BY <1>1 DEF Recoverable, LatestSnapshot, EmptyStore
  <2>2. Shown(Recoverable(db)) = {}
    BY <2>1 DEF Shown
  <2> QED BY <1>1, <2>2 DEF Seen
<1> QED BY <1>2, <1>3, <1>4, <1>5, <1>6 DEF Quiet

\* The inductive invariant, whatever callers, loads, chains, eviction passes
\* and the deletion do and in whatever order.
THEOREM RegistryInvariant == Spec => []IInv
<1>1. Init => IInv
  BY InitType, InitQuiet DEF IInv
<1>2. IInv /\ [Next]_vars => IInv'
  <2> SUFFICES ASSUME IInv, [Next]_vars PROVE IInv'
    OBVIOUS
  <2>1. TypeInv /\ TypeInv'
    BY NextType DEF IInv
  <2>2. ASSUME Undisturbed' PROVE Quiet'
    <3>1. Quiet
      BY <2>1, <2>2, StillUndisturbed DEF IInv
    <3>2. CASE UNCHANGED vars
      BY <3>1, <3>2 DEF vars, Quiet, Shared, OneWriter, Pass, LoadInv, Kept, Pending, Seen
    <3>3. CASE DeleteDocument \/ Forget
      BY <2>2, <3>3 DEF DeleteDocument, Forget, Undisturbed
    <3> QED BY <2>1, <2>2, <3>1, <3>2, <3>3, CallerQuiet, LoadQuiet, ChainQuiet,
               CollectQuiet, EvictStartQuiet, EvictStepQuiet DEF Next
  <2> QED BY <2>1, <2>2 DEF IInv
<1> QED BY <1>1, <1>2, PTL DEF Spec

\* Every variable keeps its type, in raced and deleted states too: the counts
\* of tasks a pass awaits never go below zero, for one.
THEOREM RegistryTypeCorrect == Spec => []TypeOK
<1>1. IInv => TypeOK
  BY DEF IInv, TypeInv
<1> QED BY <1>1, RegistryInvariant, PTL

\* acquire hands out the one live entry, and everybody who has the document
\* open has that one.
THEOREM OneLiveDocumentAlways == Spec => []OneLiveDocument
<1>1. IInv => OneLiveDocument
  BY RegistryAssumption DEF IInv, Quiet, Shared, OneLiveDocument
<1> QED BY <1>1, RegistryInvariant, PTL

\* refCount counts the callers that hold the entry, so that an eviction pass
\* that reads it knows whether anybody does.
THEOREM RefCountExact == Spec => []RefCountIsExact
<1>1. IInv => RefCountIsExact
  BY DEF IInv, Quiet, Shared, RefCountIsExact
<1> QED BY <1>1, RegistryInvariant, PTL

\* What users have seen is shown again after eviction and reload, unless the
\* update or one it was made upon is in the chain of the entry in docs, or its
\* append has failed: it is not enough for its own row to be there.
THEOREM NothingIsLost == Spec => []NothingLost
<1>1. IInv => NothingLost
  <2> SUFFICES ASSUME IInv, Undisturbed PROVE NothingLost
    BY DEF NothingLost
  <2>1. Kept /\ Seen /\ LoadInv /\ Shared
    BY DEF IInv, Quiet
  <2> SUFFICES ASSUME NEW u \in applied
               PROVE  /\ \/ u \in Shown(Recoverable(db))
                         \/ History(u) \cap (failed \cup Pending) # {}
                      /\ loading.phase = "built" =>
                           u \in Shown(loading.content) \/ History(u) \cap failed # {}
    BY DEF NothingLost
  <2>2. History(u) \subseteq Recoverable(db) \cup (failed \cup Pending)
    BY <2>1 DEF Kept, Seen, History
  <2>3. u \in Shown(Recoverable(db)) \/ History(u) \cap (failed \cup Pending) # {}
    BY <2>2, ShownUnless
  <2>4. ASSUME loading.phase = "built"
        PROVE  u \in Shown(loading.content) \/ History(u) \cap failed # {}
    <3>1. Pending = {} /\ loading.content = Recoverable(db)
      BY <2>1, <2>4 DEF Shared, LoadInv, Pending
    <3>2. failed \cup Pending = failed
      BY <3>1
    <3> QED BY <2>3, <3>1, <3>2
  <2> QED BY <2>3, <2>4
<1> QED BY <1>1, RegistryInvariant, PTL

\* Without a race, the rows compaction deletes are covered by the snapshot, as
\* its comment says; the run that looks at all states shows the race undoes it.
THEOREM CoveredUnlessRaced == Spec => [](Undisturbed => SnapshotsCoverLog(db))
<1>1. IInv => (Undisturbed => SnapshotsCoverLog(db))
  BY DEF IInv, Quiet, OneWriter, StoreInv
<1> QED BY <1>1, RegistryInvariant, PTL

-----------------------------------------------------------------------------
(* The registry implements DurableDoc, as long as nothing has raced.        *)

\* What callers do leaves the rows alone: only an edit shows, of the document
\* everybody sees.
LEMMA CallerDurable ==
    ASSUME TypeInv, Quiet, NEW c \in Caller, CallerStep(c)
    PROVE  [Durable!Next]_(Durable!vars)
<1>1. CASE AcquireResident(c) \/ AcquireLoading(c) \/ Release(c)
  BY <1>1 DEF AcquireResident, AcquireLoading, Release, Durable!vars
<1>2. ASSUME NEW us \in SUBSET Update, ApplyUpdate(c, us)
      PROVE  [Durable!Next]_(Durable!vars)
  <2>1. /\ session[c] = docs /\ docs \in EntryId /\ docs # None
        /\ status[docs] = "live" /\ docs' = docs /\ db' = db
    BY <1>2, RegistryAssumption DEF ApplyUpdate, Quiet, Shared
  <2>2. PICK f : f = Received(entry[docs], us)
    OBVIOUS
  <2>3. entry' = [entry EXCEPT ![docs] = f]
    BY <1>2, <2>1, <2>2 DEF ApplyUpdate
  <2>4. /\ Chained(db, f)
        /\ Shown(f.doc) = Shown(entry[docs].doc) \cup News(entry[docs], us)
    BY <2>1, <2>2, ReceivedKeeps DEF Quiet, OneWriter
  <2>5. entry'[docs'].doc = f.doc
    BY <2>1, <2>3, <2>4 DEF TypeInv, TypeOK
  <2>6. f.doc \subseteq Update
    BY <2>4 DEF Chained, Entry
  <2>7. Shown(f.doc) \in SUBSET Update
    BY <2>6, ShownGrows
  <2> QED BY <2>1, <2>4, <2>5, <2>7 DEF Durable!Next, Durable!Edit
<1> QED BY <1>1, <1>2 DEF CallerStep

\* A load that is through opens the document with what is durable; until then
\* nothing shows, nor does the row of a document that has no updates.
LEMMA LoadDurable ==
    ASSUME TypeInv, Quiet, LoadStep
    PROVE  [Durable!Next]_(Durable!vars)
<1>1. loading.phase # "none" /\ docs = None
  BY DEF LoadStep, LoadSnapshot, LoadUpdates, LoadCreate, LoadFails, LoadDone, Quiet, Shared
<1>2. ASSUME db' = PersistInitialSnapshot(db), CanInsertDocument(db)
      PROVE  Recoverable(db') = Recoverable(db)
  BY <1>2, InitialKeeps DEF CanInsertDocument, Quiet, OneWriter, TypeInv, TypeOK
<1>3. CASE LoadSnapshot \/ LoadUpdates
  BY <1>1, <1>3 DEF LoadSnapshot, LoadUpdates, LoadOnly, Durable!vars
<1>4. CASE LoadCreate
  BY <1>1, <1>2, <1>4 DEF LoadCreate, LoadOnly, Durable!vars
<1>5. CASE LoadFails
  <2>1. docs' = None /\ Recoverable(db') = Recoverable(db)
    <3>1. CASE db' = db
      BY <1>1, <1>5, <3>1 DEF LoadFails
    <3>2. CASE db' = PersistInitialSnapshot(db) /\ CanInsertDocument(db)
      BY <1>1, <1>2, <1>5, <3>2 DEF LoadFails
    <3> QED BY <1>5, <3>1, <3>2 DEF LoadFails
  <2> QED BY <1>1, <2>1 DEF Durable!vars
<1>6. CASE LoadDone
  <2>1. PICK e \in EntryId :
          /\ entry' = [entry EXCEPT ![e] = NewEntry(loading.content, loading.seq)]
          /\ docs' = e
    BY <1>6 DEF LoadDone
  <2>2. loading.content = Recoverable(db) /\ db' = db
    BY <1>6 DEF LoadDone, Quiet, LoadInv
  <2>3. entry'[e].doc = Recoverable(db)
    BY <2>1, <2>2 DEF NewEntry, TypeInv, TypeOK
  <2>4. docs' # None
    BY <2>1, RegistryAssumption
  <2> QED BY <1>1, <2>1, <2>2, <2>3, <2>4 DEF Durable!Next, Durable!Open
<1> QED BY <1>3, <1>4, <1>5, <1>6 DEF LoadStep

\* The one chain that runs makes durable what its users see, and no more.
LEMMA ChainDurable ==
    ASSUME TypeInv, Quiet, NEW e \in EntryId, ChainStep(e)
    PROVE  [Durable!Next]_(Durable!vars)
<1>1. e = docs /\ docs # None
  <2>1. ~Settled(entry[e])
    BY ChainCases DEF Settled
  <2> QED BY <2>1, RegistryAssumption DEF Quiet, OneWriter
<1>2. Chained(db, entry[e])
  BY <1>1 DEF Quiet, OneWriter
<1>3. PICK f : /\ Becomes(e, f)
               /\ Chained(db', f) /\ f.doc = entry[e].doc
               /\ Recoverable(db) \subseteq Recoverable(db')
  BY <1>2, ChainKeeps
<1>4. docs' = docs /\ entry'[e].doc = entry[e].doc
  BY <1>3 DEF Becomes, chainVars, TypeInv, TypeOK
<1>5. Recoverable(db') \subseteq entry[e].doc
  BY <1>3 DEF Chained, ContentInv
<1>6. /\ Shown(Recoverable(db)) \subseteq Shown(Recoverable(db'))
      /\ Shown(Recoverable(db')) \subseteq Shown(entry[e].doc)
  BY <1>3, <1>5, ShownGrows
<1> QED BY <1>1, <1>4, <1>6 DEF Durable!Next, Durable!Save

\* To remove the entry is, for its users, a crash: what is durable stays.
LEMMA RemoveDurable ==
    ASSUME NEW p \in Evictor, docs # None, Remove(p, docs),
           Recoverable(db') = Recoverable(db)
    PROVE  [Durable!Next]_(Durable!vars)
<1>1. docs' = None
  BY DEF Remove
<1> QED BY <1>1 DEF Durable!Next, Durable!Crash

LEMMA DecideDurable ==
    ASSUME NEW p \in Evictor, docs # None, Decide(p, docs), db' = db
    PROVE  [Durable!Next]_(Durable!vars)
<1>1. CASE Remove(p, docs)
  BY <1>1, RemoveDurable
<1>2. CASE docs' = docs /\ entry' = entry
  BY <1>2 DEF Durable!vars
<1> QED BY <1>1, <1>2 DEF Decide, Continue

\* A pass saves the document it has in hand, and removes it.
LEMMA EvictDurable ==
    ASSUME TypeInv, Quiet, NEW p \in Evictor, EvictStart(p) \/ EvictStep(p)
    PROVE  [Durable!Next]_(Durable!vars)
<1>1. CASE EvictSettled(p)
  BY <1>1, DecideDurable DEF EvictSettled, Evictable
<1>2. CASE EvictAwait(p)
  BY <1>2 DEF EvictAwait, Continue, Durable!vars
<1> DEFINE x == evictor[p]
           e == entry[docs]
<1>3. ASSUME EvictStep(p)
      PROVE  /\ Pass(p) /\ x.entry = docs /\ docs \in EntryId /\ docs # None
             /\ Chained(db, e)
             /\ x.phase \in {"insert", "compact"} => Settled(e) /\ x.seq = e.seq
  <2>1. x.phase # "none"
    BY <1>3 DEF EvictStep, EvictFlushed, EvictEncode, EvictSnapshot, EvictCompact, EvictFails
  <2>2. Pass(p) /\ x.entry = docs /\ docs \in EntryId /\ docs # None
    BY <2>1, RegistryAssumption DEF Quiet, Pass, TypeInv
  <2> QED BY <2>2 DEF Quiet, OneWriter, Pass
<1>4. CASE EvictFlushed(p)
  BY <1>3, <1>4, DecideDurable DEF EvictStep, EvictFlushed
<1>5. CASE EvictEncode(p)
  BY <1>5 DEF EvictEncode, Continue, Durable!vars
<1>6. CASE EvictSnapshot(p)
  <2>1. /\ x.phase = "insert" /\ CanInsertSnapshot(db, x.seq)
        /\ db' = InsertSnapshot(db, x.seq, x.encoded)
        /\ docs' = docs /\ entry' = entry
    BY <1>6 DEF EvictSnapshot, Continue
  <2>2. /\ Settled(e) /\ CanInsertSnapshot(db, e.seq)
        /\ db' = InsertSnapshot(db, e.seq, e.doc)
    BY <1>3, <1>6, <2>1 DEF EvictStep, Pass
  <2>3. Chained(db, e) /\ docs # None
    BY <1>3, <1>6 DEF EvictStep
  <2>4. Recoverable(db') = e.doc /\ Recoverable(db) \subseteq e.doc
    <3> HIDE DEF e
    <3> QED BY <2>2, <2>3, FinalSnapshotKeeps
  <2>5. Shown(Recoverable(db)) \subseteq Shown(Recoverable(db'))
    BY <2>4, ShownGrows
  <2> QED BY <2>1, <2>3, <2>4, <2>5 DEF Durable!Next, Durable!Save
<1>7. CASE EvictCompact(p)
  <2>1. /\ x.phase = "compact" /\ Remove(p, docs) /\ docs # None
        /\ db' = CompactAfterSnapshot(db, e.seq)
        /\ Chained(db, e) /\ \E s \in db.snapshots : s.seq = e.seq
    BY <1>3, <1>7 DEF EvictStep, EvictCompact, Pass
  <2>2. Recoverable(db') = Recoverable(db)
    <3> HIDE DEF e
    <3> QED BY <2>1, FinalCompactKeeps
  <2> QED BY <2>1, <2>2, RemoveDurable
<1>8. CASE EvictFails(p)
  BY <1>3, <1>8, RemoveDurable DEF EvictStep, EvictFails
<1> QED BY <1>1, <1>2, <1>4, <1>5, <1>6, <1>7, <1>8 DEF EvictStart, EvictStep

\* What is collected is not the entry in docs.
LEMMA CollectDurable ==
    ASSUME TypeInv, NEW e \in EntryId, Collect(e)
    PROVE  [Durable!Next]_(Durable!vars)
<1>1. docs # e /\ docs' = docs /\ db' = db /\ docs \in EntryId \cup {None}
  BY DEF Collect, TypeInv, TypeOK
<1>2. docs # None => entry'[docs] = entry[docs]
  BY <1>1 DEF Collect, TypeInv, TypeOK
<1> QED BY <1>1, <1>2 DEF Durable!vars

LEMMA NextDurable ==
    ASSUME IInv, [Next]_vars, Undisturbed'
    PROVE  [Durable!Next]_(Durable!vars)
<1>1. TypeInv /\ Quiet
  BY StillUndisturbed DEF IInv
<1>2. CASE UNCHANGED vars
  BY <1>2 DEF vars, Durable!vars
<1>3. CASE DeleteDocument \/ Forget
  BY <1>3 DEF DeleteDocument, Forget, Undisturbed
<1> QED BY <1>1, <1>2, <1>3, CallerDurable, LoadDurable, ChainDurable, EvictDurable,
           CollectDurable DEF Next

\* Until something races an eviction pass or deletes the document, each step of
\* the registry is one of DurableDoc's or is not seen: what is durable only
\* grows, is never more than users saw, and a load shows exactly that.
THEOREM DurableStepByStep == Spec => DurableUnlessRaced
<1>1. IInv /\ [Next]_vars => (Undisturbed' => [Durable!Next]_(Durable!vars))
  BY NextDurable
<1> QED BY <1>1, RegistryInvariant, PTL DEF Spec, DurableUnlessRaced

\* A registry nothing ever races implements DurableDoc.
THEOREM RegistryImplementsDurableDoc == Spec /\ []Undisturbed => Durable!Spec
<1>1. Init => Durable!Init
  <2> SUFFICES ASSUME Init PROVE Durable!Init
    OBVIOUS
  <2>1. docs = None /\ db = EmptyStore
    BY DEF Init
  <2>2. LatestSnapshot(db) = {}
    BY <2>1 DEF LatestSnapshot, EmptyStore
  <2>3. Shown(Recoverable(db)) = {}
    BY <2>2 DEF Recoverable, Shown
  <2> QED BY <2>1, <2>3 DEF Durable!Init
<1>2. IInv /\ [Next]_vars /\ Undisturbed' => [Durable!Next]_(Durable!vars)
  BY NextDurable
<1> QED BY <1>1, <1>2, RegistryInvariant, PTL DEF Spec, Durable!Spec
=============================================================================
