------------------------ MODULE ActiveDocument_proofs ------------------------
(***************************************************************************)
(* Lemmas about the store and the chain of one entry, for the proofs of    *)
(* the modules that use them: what each statement does to Recoverable, and *)
(* that each step of the chain keeps Chained, which says how the rows of a *)
(* document and the entry that writes them belong together.                *)
(***************************************************************************)
EXTENDS ActiveDocument, FiniteSetTheorems, TLAPS

\* A snapshot is determined by its seq, some snapshot is the latest as soon
\* as there is one, and snapshots cover the log.
StoreInv(st) ==
    /\ \A s, t \in st.snapshots : s.seq = t.seq => s = t
    /\ st.snapshots # {} => LatestSnapshot(st) # {}
    /\ st.row <=> st.snapshots # {}
    /\ st.updates # {} => st.row
    /\ SnapshotsCoverLog(st)

\* No row is past the seq of the entry, and the seq a task has taken is free
\* until the task itself uses it.
SeqInv(st, e) ==
    /\ \A s \in st.snapshots : s.seq <= e.seq
    /\ \A r \in st.updates : r.seq <= e.seq
    /\ e.phase \in {"append", "encode", "insert"} =>
         \A s \in st.snapshots : s.seq < e.seq
    /\ e.phase = "append" => \A r \in st.updates : r.seq < e.seq
    /\ e.phase = "compact" => \E s \in st.snapshots : s.seq = e.seq

\* Nothing is stored that the document does not hold, and the snapshot being
\* written holds all that is stored, and all that users see but for what is
\* chained.
ContentInv(st, e) ==
    /\ Recoverable(st) \subseteq e.doc
    /\ \A r \in st.updates : r.updates \subseteq e.doc
    /\ Unsettled(e) \subseteq e.doc
    /\ e.phase = "insert" =>
         /\ e.encoded \subseteq e.doc
         /\ Recoverable(st) \subseteq e.encoded
         /\ \A r \in st.updates : r.updates \subseteq e.encoded
         /\ Shown(e.doc) \subseteq e.encoded \cup Unsettled(e)

\* The running task has something to append only while it appends.
TaskInv(e) == e.phase # "append" => e.writing = {}

\* pendingUpdates is the number of tasks chained or running.
Counted(e) ==
    IF e.phase = "idle"
    THEN e.pendingUpdates = Len(e.queue)
    ELSE e.pendingUpdates = Len(e.queue) + 1

\* No task is chained or running.
Settled(e) == e.phase = "idle" /\ e.queue = <<>>

Chained(st, e) ==
    /\ st \in Store /\ e \in Entry
    /\ StoreInv(st) /\ st.row
    /\ SeqInv(st, e) /\ ContentInv(st, e) /\ TaskInv(e)
    /\ Counted(e)

-----------------------------------------------------------------------------
(* What a document shows.                                                   *)

\* A document that holds more shows more.
LEMMA ShownGrows ==
    ASSUME NEW A, NEW B, A \subseteq B
    PROVE  Shown(A) \subseteq Shown(B) /\ Shown(A) \subseteq A
BY DEF Shown

\* What is shown is shown with all it rests on.
LEMMA ShownClosed ==
    ASSUME NEW A \in SUBSET Update, NEW u \in Shown(A)
    PROVE  History(u) \subseteq Shown(A)
<1>1. u \in Update /\ u \in A /\ Needs[u] \subseteq A
  BY DEF Shown
<1>2. ASSUME NEW v \in Needs[u] PROVE v \in Shown(A)
  <2>1. Needs[v] \subseteq Needs[u]
    BY <1>1, NeedsAssumption
  <2> QED BY <1>1, <2>1 DEF Shown
<1> QED BY <1>2 DEF History

\* If all of a history is held by B, or at risk in C, then B shows the update
\* or something of its history is at risk.
LEMMA ShownUnless ==
    ASSUME NEW B, NEW C, NEW u, History(u) \subseteq B \cup C
    PROVE  u \in Shown(B) \/ History(u) \cap C # {}
<1> SUFFICES ASSUME History(u) \cap C = {} PROVE u \in Shown(B)
  OBVIOUS
<1>1. History(u) \subseteq B
  OBVIOUS
<1> QED BY <1>1 DEF History, Shown

-----------------------------------------------------------------------------
(* The statements on the store.                                             *)

\* A load brings back the content of a latest snapshot and the log after it.
LEMMA RecoverableDef ==
    ASSUME NEW st \in Store, NEW u
    PROVE  u \in Recoverable(st) <=>
             \E s \in LatestSnapshot(st) :
                \/ u \in s.content
                \/ \E r \in st.updates : r.seq > s.seq /\ u \in r.updates
BY DEF Recoverable, LoadedContent, UpdatesAfter

\* Appending a row past every snapshot makes its updates recoverable, and
\* nothing else.
LEMMA AppendRecoverable ==
    ASSUME NEW st \in Store, NEW n \in Nat, NEW us \in SUBSET Update,
           LatestSnapshot(st) # {},
           \A s \in st.snapshots : s.seq < n
    PROVE  /\ AppendUpdate(st, n, us) \in Store
           /\ LatestSnapshot(AppendUpdate(st, n, us)) = LatestSnapshot(st)
           /\ Recoverable(AppendUpdate(st, n, us)) = Recoverable(st) \cup us
<1> DEFINE st1 == AppendUpdate(st, n, us)
           r1 == [seq |-> n, updates |-> us]
<1>1. /\ st1 \in Store
      /\ st1.row = st.row
      /\ st1.snapshots = st.snapshots
      /\ st1.updates = st.updates \cup {r1}
      /\ r1.seq = n /\ r1.updates = us
  BY DEF AppendUpdate, Store, UpdateRow
<1> HIDE DEF st1, r1
<1>2. LatestSnapshot(st1) = LatestSnapshot(st)
  BY <1>1 DEF LatestSnapshot
<1>3. ASSUME NEW v PROVE v \in Recoverable(st1) <=> v \in Recoverable(st) \cup us
  <2>1. PICK s \in LatestSnapshot(st) : s \in st.snapshots /\ s.seq < n
    BY DEF LatestSnapshot
  <2>2. v \in us => v \in Recoverable(st1)
    <3>1. r1 \in st1.updates /\ r1.seq > s.seq
      BY <1>1, <2>1 DEF Store, SnapshotRow
    <3> QED BY <1>1, <1>2, <3>1, RecoverableDef
  <2>3. v \in Recoverable(st) => v \in Recoverable(st1)
    BY <1>1, <1>2, RecoverableDef
  <2>4. v \in Recoverable(st1) => v \in us \/ v \in Recoverable(st)
    BY <1>1, <1>2, RecoverableDef
  <2> QED BY <2>2, <2>3, <2>4
<1>4. Recoverable(st1) = Recoverable(st) \cup us
  BY <1>3
<1> QED BY <1>1, <1>2, <1>4 DEF st1

\* A snapshot past every other one, with no log after it, is what a load
\* returns.
LEMMA InsertRecoverable ==
    ASSUME NEW st \in Store, NEW n \in Nat, NEW c \in SUBSET Update,
           \A s \in st.snapshots : s.seq < n,
           \A r \in st.updates : r.seq <= n
    PROVE  /\ InsertSnapshot(st, n, c) \in Store
           /\ LatestSnapshot(InsertSnapshot(st, n, c)) = {[seq |-> n, content |-> c]}
           /\ Recoverable(InsertSnapshot(st, n, c)) = c
<1> DEFINE st1 == InsertSnapshot(st, n, c)
           new == [seq |-> n, content |-> c]
<1>1. /\ st1 \in Store
      /\ st1.row = st.row
      /\ st1.updates = st.updates
      /\ st1.snapshots = st.snapshots \cup {new}
  BY DEF InsertSnapshot, Store, SnapshotRow
<1> HIDE DEF st1
<1>2. LatestSnapshot(st1) = {new}
  <2>1. new \in LatestSnapshot(st1)
    BY <1>1 DEF LatestSnapshot, Store, SnapshotRow
  <2>2. ASSUME NEW s \in LatestSnapshot(st1) PROVE s = new
    <3>1. s \in st1.snapshots /\ new.seq <= s.seq
      BY <1>1 DEF LatestSnapshot
    <3>2. CASE s \in st.snapshots
      BY <3>1, <3>2 DEF Store, SnapshotRow
    <3> QED BY <1>1, <3>1, <3>2
  <2> QED BY <2>1, <2>2
<1>3. ASSUME NEW v PROVE v \in Recoverable(st1) <=> v \in c
  <2>1. \A r \in st1.updates : ~(r.seq > new.seq)
    BY <1>1 DEF Store, UpdateRow
  <2>2. v \in Recoverable(st1) <=>
          \/ v \in new.content
          \/ \E r \in st1.updates : r.seq > new.seq /\ v \in r.updates
    BY <1>1, <1>2, RecoverableDef
  <2> QED BY <2>1, <2>2
<1> QED BY <1>1, <1>2, <1>3 DEF st1

\* Compacting up to the latest snapshot changes nothing a load returns: the
\* snapshot survives (no other one is newer), and the log it drops was not
\* read.
LEMMA CompactRecoverable ==
    ASSUME NEW st \in Store, NEW n \in Nat,
           \A s \in st.snapshots : s.seq <= n,
           \E s \in st.snapshots : s.seq = n
    PROVE  /\ CompactAfterSnapshot(st, n) \in Store
           /\ CompactAfterSnapshot(st, n).row = st.row
           /\ CompactAfterSnapshot(st, n).snapshots \subseteq st.snapshots
           /\ CompactAfterSnapshot(st, n).updates \subseteq st.updates
           /\ \E s \in CompactAfterSnapshot(st, n).snapshots : s.seq = n
           /\ LatestSnapshot(CompactAfterSnapshot(st, n)) = LatestSnapshot(st)
           /\ Recoverable(CompactAfterSnapshot(st, n)) = Recoverable(st)
<1> DEFINE st1 == CompactAfterSnapshot(st, n)
<1>1. /\ st1 \in Store
      /\ st1.row = st.row
      /\ st1.updates = {r \in st.updates : r.seq > n}
      /\ st1.snapshots = {s \in st.snapshots :
            Cardinality({t \in st.snapshots : t.seq > s.seq}) < KeepSnapshots}
  BY DEF CompactAfterSnapshot, UpdatesAfter, Store
<1> HIDE DEF st1
<1>2. ASSUME NEW s \in st.snapshots, s.seq = n PROVE s \in st1.snapshots
  <2>1. {t \in st.snapshots : t.seq > s.seq} = {}
    BY <1>2 DEF Store, SnapshotRow
  <2>2. Cardinality({t \in st.snapshots : t.seq > s.seq}) = 0
    BY <2>1, FS_EmptySet
  <2> QED BY <1>1, <2>2, KeepSnapshotsAssumption
<1>3. ASSUME NEW s \in LatestSnapshot(st) PROVE s \in st.snapshots /\ s.seq = n
  BY <1>3 DEF LatestSnapshot, Store, SnapshotRow
<1>4. PICK m \in st.snapshots : m.seq = n
  OBVIOUS
<1>5. m \in st1.snapshots
  BY <1>2, <1>4
<1>6. st1.snapshots \subseteq st.snapshots /\ st1.updates \subseteq st.updates
  BY <1>1
<1>7. LatestSnapshot(st1) = LatestSnapshot(st)
  <2>1. ASSUME NEW s \in LatestSnapshot(st) PROVE s \in LatestSnapshot(st1)
    <3>1. s \in st1.snapshots
      BY <1>2, <1>3
    <3> QED BY <3>1, <1>6 DEF LatestSnapshot
  <2>2. ASSUME NEW s \in LatestSnapshot(st1) PROVE s \in LatestSnapshot(st)
    <3>1. s \in st.snapshots /\ n <= s.seq
      BY <1>4, <1>5, <1>6 DEF LatestSnapshot
    <3> QED BY <3>1 DEF LatestSnapshot, Store, SnapshotRow
  <2> QED BY <2>1, <2>2
<1>8. ASSUME NEW v PROVE v \in Recoverable(st1) <=> v \in Recoverable(st)
  <2>1. \A s \in LatestSnapshot(st), r \in st.updates :
            r.seq > s.seq <=> r \in st1.updates
    BY <1>1, <1>3 DEF Store, UpdateRow
  <2>2. \A s \in LatestSnapshot(st), r \in st1.updates : r.seq > s.seq
    BY <1>1, <1>3 DEF Store, UpdateRow
  <2> QED BY <1>1, <1>6, <1>7, <2>1, <2>2, RecoverableDef
<1> QED BY <1>1, <1>4, <1>5, <1>6, <1>7, <1>8 DEF st1

-----------------------------------------------------------------------------
(* The type of an entry through the steps of the chain.                     *)

\* What a document is given it holds; what that makes visible is chained, and
\* counted, unless it is nothing.
LEMMA ReceivedType ==
    ASSUME NEW e \in Entry, NEW us \in SUBSET Update, NEW f, f = Received(e, us)
    PROVE  /\ f \in Entry /\ News(e, us) \in SUBSET Update
           /\ f.doc = e.doc \cup us /\ f.seq = e.seq /\ f.phase = e.phase
           /\ f.lastSnapshotSeq = e.lastSnapshotSeq
           /\ f.writing = e.writing /\ f.encoded = e.encoded
           /\ \/ /\ News(e, us) # {}
                 /\ f.queue = Append(e.queue, News(e, us))
                 /\ f.pendingUpdates = e.pendingUpdates + 1
              \/ /\ News(e, us) = {}
                 /\ f.queue = e.queue
                 /\ f.pendingUpdates = e.pendingUpdates
<1> DEFINE news == News(e, us)
           h == Holding(e, us)
<1>1. news \in SUBSET Update
  BY DEF News, Shown, Entry
<1> HIDE DEF news
<1>2. /\ h \in Entry /\ h.doc = e.doc \cup us /\ h.seq = e.seq /\ h.phase = e.phase
      /\ h.lastSnapshotSeq = e.lastSnapshotSeq
      /\ h.writing = e.writing /\ h.encoded = e.encoded
      /\ h.queue = e.queue /\ h.pendingUpdates = e.pendingUpdates
  BY DEF Holding, Entry, Phase
<1> HIDE DEF h
<1>3. CASE news = {}
  <2>1. f = h
    BY <1>3 DEF Received, news, h
  <2> QED BY <1>1, <1>2, <1>3, <2>1 DEF news
<1>4. CASE news # {}
  <2>1. f = Chaining(h, news)
    BY <1>4 DEF Received, news, h
  <2>2. Append(h.queue, news) \in Seq(SUBSET Update) /\ h.pendingUpdates + 1 \in Nat
    BY <1>1, <1>2 DEF Entry
  <2> QED BY <1>1, <1>2, <1>4, <2>1, <2>2 DEF Chaining, Entry, Phase, news
<1> QED BY <1>3, <1>4

LEMMA StartedType ==
    ASSUME NEW e \in Entry, e.queue # <<>>
    PROVE  TaskStarted(e) \in Entry
<1>1. e.queue \in Seq(SUBSET Update)
  BY DEF Entry
<1>2. Head(e.queue) \in SUBSET Update /\ Tail(e.queue) \in Seq(SUBSET Update)
  BY <1>1
<1>3. e.seq + 1 \in Nat
  BY <1>2 DEF Entry
<1> QED BY <1>2, <1>3 DEF Entry, Phase, TaskStarted

\* The end of a task, done or failed: the document, the seq and the queue
\* stay, and the task is counted off.
LEMMA TaskDoneType ==
    ASSUME NEW e \in Entry, e.pendingUpdates > 0
    PROVE  /\ TaskDone(e) \in Entry
           /\ TaskDone(e).doc = e.doc /\ TaskDone(e).seq = e.seq
           /\ TaskDone(e).queue = e.queue /\ TaskDone(e).writing = e.writing
           /\ TaskDone(e).phase = "idle"
           /\ TaskDone(e).pendingUpdates = e.pendingUpdates - 1
<1>1. e.pendingUpdates - 1 \in Nat
  BY DEF Entry
<1> QED BY <1>1 DEF Entry, Phase, TaskDone

LEMMA TaskFailedType ==
    ASSUME NEW e \in Entry, e.pendingUpdates > 0
    PROVE  /\ TaskFailed(e) \in Entry
           /\ TaskFailed(e).doc = e.doc /\ TaskFailed(e).seq = e.seq
           /\ TaskFailed(e).queue = e.queue /\ TaskFailed(e).writing = {}
           /\ TaskFailed(e).phase = "idle"
           /\ TaskFailed(e).pendingUpdates = e.pendingUpdates - 1
<1>1. e.pendingUpdates - 1 \in Nat
  BY DEF Entry
<1> QED BY <1>1 DEF Entry, Phase, TaskFailed

LEMMA AppendedType ==
    ASSUME NEW e \in Entry, e.pendingUpdates > 0, e.phase = "append", NEW late \in BOOLEAN,
           NEW f, f = Appended(e, late)
    PROVE  /\ f \in Entry
           /\ f.doc = e.doc /\ f.seq = e.seq /\ f.queue = e.queue
           /\ f.writing = {}
           /\ \/ f.phase = "encode" /\ f.pendingUpdates = e.pendingUpdates
              \/ f.phase = "idle" /\ f.pendingUpdates = e.pendingUpdates - 1
<1> DEFINE w == [e EXCEPT !.writing = {}]
<1>1. /\ w \in Entry
      /\ w.doc = e.doc /\ w.seq = e.seq /\ w.queue = e.queue /\ w.writing = {}
      /\ w.pendingUpdates = e.pendingUpdates
  BY DEF Entry
<1>2. CASE f = TaskDone(w)
  BY <1>1, <1>2, TaskDoneType
<1>3. CASE f = [w EXCEPT !.phase = "encode"]
  BY <1>1, <1>3 DEF Entry, Phase
<1> QED BY <1>2, <1>3 DEF Appended

LEMMA SnapshotDoneType ==
    ASSUME NEW e \in Entry, e.pendingUpdates > 0
    PROVE  /\ SnapshotDone(e) \in Entry
           /\ SnapshotDone(e).doc = e.doc /\ SnapshotDone(e).seq = e.seq
           /\ SnapshotDone(e).queue = e.queue /\ SnapshotDone(e).writing = e.writing
           /\ SnapshotDone(e).phase = "idle"
           /\ SnapshotDone(e).pendingUpdates = e.pendingUpdates - 1
<1> DEFINE w == [e EXCEPT !.lastSnapshotSeq = e.seq]
<1>1. /\ w \in Entry
      /\ w.doc = e.doc /\ w.seq = e.seq /\ w.queue = e.queue
      /\ w.writing = e.writing /\ w.pendingUpdates = e.pendingUpdates
  BY DEF Entry
<1> QED BY <1>1, TaskDoneType DEF SnapshotDone

-----------------------------------------------------------------------------
(* What is unsettled through the steps of the chain.                        *)

\* With the same queue only what is being appended makes a difference.
LEMMA SameQueue ==
    ASSUME NEW e, NEW f, f.queue = e.queue
    PROVE  \E chained : /\ Unsettled(e) = chained \cup e.writing
                        /\ Unsettled(f) = chained \cup f.writing
<1> DEFINE chained == UNION {e.queue[i] : i \in DOMAIN e.queue}
<1>1. Unsettled(e) = chained \cup e.writing
  BY DEF Unsettled
<1>2. Unsettled(f) = chained \cup f.writing
  BY DEF Unsettled
<1> HIDE DEF chained
<1> QED BY <1>1, <1>2

LEMMA ReceivedUnsettled ==
    ASSUME NEW e \in Entry, NEW us \in SUBSET Update
    PROVE  Unsettled(Received(e, us)) = Unsettled(e) \cup News(e, us)
<1> DEFINE f == Received(e, us)
           u == News(e, us)
           q == e.queue
           q1 == Append(q, u)
<1> HIDE DEF f, u
<1>0. CASE u = {}
  <2>1. f.queue = e.queue /\ f.writing = e.writing
    BY <1>0, ReceivedType DEF f, u
  <2> QED BY <1>0, <2>1 DEF Unsettled, f, u
<1>1. q \in Seq(SUBSET Update) /\ q1 \in Seq(SUBSET Update)
  BY ReceivedType DEF Entry, u
<1>2. /\ DOMAIN q = 1 .. Len(q)
      /\ DOMAIN q1 = 1 .. (Len(q) + 1)
      /\ Len(q) \in Nat
      /\ q1[Len(q) + 1] = u
      /\ \A i \in 1 .. Len(q) : q1[i] = q[i]
  BY <1>1
<1>3. {q1[i] : i \in DOMAIN q1} = {q[i] : i \in DOMAIN q} \cup {u}
  <2> HIDE DEF q, q1
  <2>1. \A i \in 1 .. (Len(q) + 1) : i \in 1 .. Len(q) \/ i = Len(q) + 1
    BY <1>2
  <2>2. \A i \in 1 .. Len(q) : i \in 1 .. (Len(q) + 1)
    BY <1>2
  <2>3. Len(q) + 1 \in 1 .. (Len(q) + 1)
    BY <1>2
  <2> QED BY <1>2, <2>1, <2>2, <2>3
<1>4. CASE u # {}
  <2>1. f.queue = q1 /\ f.writing = e.writing
    BY <1>4, ReceivedType DEF f, u
  <2>2. UNION {q1[i] : i \in DOMAIN q1} = (UNION {q[i] : i \in DOMAIN q}) \cup u
    <3> DEFINE S == {q[i] : i \in DOMAIN q}
               S1 == {q1[i] : i \in DOMAIN q1}
    <3>1. S1 = S \cup {u}
      BY <1>3
    <3> HIDE DEF S, S1
    <3>2. UNION S1 = (UNION S) \cup u
      BY <3>1
    <3> QED BY <3>2 DEF S, S1
  <2> QED BY <2>1, <2>2 DEF Unsettled, f, u
<1> QED BY <1>0, <1>4

LEMMA StartedUnsettled ==
    ASSUME NEW e \in Entry, e.queue # <<>>, e.writing = {}
    PROVE  Unsettled(TaskStarted(e)) = Unsettled(e)
<1> DEFINE q == e.queue
           q1 == Tail(q)
<1>1. q \in Seq(SUBSET Update) /\ q # <<>>
  BY DEF Entry
<1>2. /\ Len(q) \in Nat \ {0}
      /\ DOMAIN q = 1 .. Len(q)
      /\ DOMAIN q1 = 1 .. (Len(q) - 1)
      /\ Head(q) = q[1]
      /\ \A i \in 1 .. (Len(q) - 1) : q1[i] = q[i + 1]
  BY <1>1
<1>3. {q1[i] : i \in DOMAIN q1} \cup {Head(q)} = {q[i] : i \in DOMAIN q}
  <2> HIDE DEF q, q1
  <2>1. \A i \in 1 .. (Len(q) - 1) : i + 1 \in 1 .. Len(q)
    BY <1>2
  <2>2. \A i \in 1 .. Len(q) :
            i = 1 \/ (i - 1 \in 1 .. (Len(q) - 1) /\ (i - 1) + 1 = i)
    BY <1>2
  <2>3. 1 \in 1 .. Len(q)
    BY <1>2
  <2>4. ASSUME NEW x \in {q[i] : i \in DOMAIN q}
        PROVE  x \in {q1[i] : i \in DOMAIN q1} \cup {Head(q)}
    <3>1. PICK i \in 1 .. Len(q) : x = q[i]
      BY <1>2
    <3>2. CASE i = 1
      BY <1>2, <3>1, <3>2
    <3>3. CASE i - 1 \in 1 .. (Len(q) - 1) /\ (i - 1) + 1 = i
      <4>1. x = q1[i - 1]
        BY <1>2, <3>1, <3>3
      <4> QED BY <1>2, <3>3, <4>1
    <3> QED BY <2>2, <3>2, <3>3
  <2>5. ASSUME NEW x \in {q1[i] : i \in DOMAIN q1} \cup {Head(q)}
        PROVE  x \in {q[i] : i \in DOMAIN q}
    BY <1>2, <2>1, <2>3
  <2> QED BY <2>4, <2>5
<1>4. /\ TaskStarted(e).queue = q1
      /\ TaskStarted(e).writing = Head(q)
  BY DEF TaskStarted, Entry
<1>5. (UNION {q1[i] : i \in DOMAIN q1}) \cup Head(q) = UNION {q[i] : i \in DOMAIN q}
  <2> DEFINE S == {q[i] : i \in DOMAIN q}
             S1 == {q1[i] : i \in DOMAIN q1}
  <2>1. S1 \cup {Head(q)} = S
    BY <1>3
  <2> HIDE DEF S, S1, q1
  <2>2. (UNION S1) \cup Head(q) = UNION S
    BY <2>1
  <2> QED BY <2>2 DEF S, S1
<1> QED BY <1>4, <1>5 DEF Unsettled

LEMMA NewEntryType ==
    ASSUME NEW c \in SUBSET Update, NEW n \in Nat
    PROVE  /\ NewEntry(c, n) \in Entry
           /\ NewEntry(c, n).doc = c /\ NewEntry(c, n).seq = n
           /\ NewEntry(c, n).phase = "idle" /\ NewEntry(c, n).pendingUpdates = 0
           /\ NewEntry(c, n).queue = <<>> /\ NewEntry(c, n).writing = {}
           /\ NewEntry(c, n).encoded = {}
           /\ Unsettled(NewEntry(c, n)) = {}
<1>1. <<>> \in Seq(SUBSET Update) /\ DOMAIN <<>> = {}
  OBVIOUS
<1> QED BY <1>1 DEF NewEntry, Entry, Phase, Unsettled

\* A load returns what is recoverable, and a seq no row is past.
LEMMA LoadedIsRecoverable ==
    ASSUME NEW st \in Store,
           \A s, t \in st.snapshots : s.seq = t.seq => s = t,
           SnapshotsCoverLog(st),
           NEW base \in LatestSnapshot(st), NEW n,
           IsLoadedSeq(base, UpdatesAfter(st, base.seq), n)
    PROVE  /\ n \in Nat
           /\ LoadedContent(base, UpdatesAfter(st, base.seq)) = Recoverable(st)
           /\ Recoverable(st) \in SUBSET Update
           /\ \A s \in st.snapshots : s.seq <= n
           /\ \A r \in st.updates : r.seq <= n /\ r.updates \subseteq Recoverable(st)
<1> DEFINE rows == UpdatesAfter(st, base.seq)
<1>1. /\ base \in st.snapshots /\ base.seq \in Nat /\ base.content \in SUBSET Update
      /\ \A s \in st.snapshots : s.seq <= base.seq /\ s.seq \in Nat
  BY DEF LatestSnapshot, Store, SnapshotRow
<1>2. \A r \in st.updates : r.seq \in Nat /\ r.updates \in SUBSET Update
  BY DEF Store, UpdateRow
<1>3. rows = {r \in st.updates : r.seq > base.seq}
  BY DEF UpdatesAfter
<1>4. n \in Nat /\ n >= base.seq /\ \A r \in rows : n >= r.seq
  BY <1>1, <1>2, <1>3 DEF IsLoadedSeq
<1>5. LatestSnapshot(st) = {base}
  <2>1. ASSUME NEW s \in LatestSnapshot(st) PROVE s = base
    <3>1. s \in st.snapshots /\ base.seq <= s.seq
      BY <1>1 DEF LatestSnapshot
    <3>2. s.seq = base.seq
      BY <1>1, <3>1
    <3> QED BY <1>1, <3>1, <3>2
  <2> QED BY <2>1
<1>6. Recoverable(st) = LoadedContent(base, rows)
  BY <1>5 DEF Recoverable
<1>7. Recoverable(st) \in SUBSET Update
  BY <1>1, <1>2, <1>3, <1>6 DEF LoadedContent
<1>8. ASSUME NEW s \in st.snapshots PROVE s.seq <= n
  BY <1>1, <1>4
<1>9. ASSUME NEW r \in st.updates PROVE r.seq <= n /\ r.updates \subseteq Recoverable(st)
  <2>1. CASE r.seq > base.seq
    BY <1>3, <1>4, <1>2, <1>6, <2>1 DEF LoadedContent
  <2>2. CASE r.seq <= base.seq
    <3>1. r.updates \subseteq base.content
      BY <1>1, <2>2 DEF SnapshotsCoverLog
    <3> QED BY <1>1, <1>2, <1>4, <1>6, <2>2, <3>1 DEF LoadedContent
  <2> QED BY <1>1, <1>2, <2>1, <2>2
<1> QED BY <1>4, <1>6, <1>7, <1>8, <1>9

LEMMA InitialRecoverable ==
    ASSUME NEW st \in Store, st.updates = {}
    PROVE  /\ PersistInitialSnapshot(st) \in Store
           /\ PersistInitialSnapshot(st).row
           /\ PersistInitialSnapshot(st).updates = {}
           /\ PersistInitialSnapshot(st).snapshots = {[seq |-> 0, content |-> {}]}
           /\ LatestSnapshot(PersistInitialSnapshot(st)) = {[seq |-> 0, content |-> {}]}
           /\ Recoverable(PersistInitialSnapshot(st)) = {}
<1> DEFINE st1 == PersistInitialSnapshot(st)
           s0 == [seq |-> 0, content |-> {}]
<1>1. /\ st1 \in Store /\ st1.row /\ st1.updates = {} /\ st1.snapshots = {s0}
  BY DEF PersistInitialSnapshot, Store, SnapshotRow
<1> HIDE DEF st1
<1>2. LatestSnapshot(st1) = {s0}
  <2>1. s0.seq <= s0.seq
    OBVIOUS
  <2> QED BY <1>1, <2>1 DEF LatestSnapshot
<1>3. Recoverable(st1) = {}
  BY <1>1, <1>2, RecoverableDef
<1> QED BY <1>1, <1>2, <1>3 DEF st1

-----------------------------------------------------------------------------
(* The steps of the chain keep Chained.                                     *)

\* What Chained says of a running task, in one place.
LEMMA ChainedFacts ==
    ASSUME NEW st, NEW e, Chained(st, e)
    PROVE  /\ st \in Store /\ e \in Entry /\ e.seq \in Nat
           /\ LatestSnapshot(st) # {}
           /\ Len(e.queue) \in Nat /\ e.pendingUpdates \in Nat
           /\ e.phase # "idle" => e.pendingUpdates > 0
           /\ e.encoded \in SUBSET Update /\ e.writing \in SUBSET Update
           /\ e.doc \in SUBSET Update
BY DEF Chained, StoreInv, Counted, Entry

\* What users see anew is chained.
LEMMA ReceivedKeeps ==
    ASSUME NEW st, NEW e, Chained(st, e), NEW us \in SUBSET Update
    PROVE  /\ Chained(st, Received(e, us))
           /\ Received(e, us).doc = e.doc \cup us
           /\ Unsettled(Received(e, us)) = Unsettled(e) \cup News(e, us)
           /\ Shown(Received(e, us).doc) = Shown(e.doc) \cup News(e, us)
           /\ News(e, us) \in SUBSET Update
<1> DEFINE f == Received(e, us)
<1>1. e \in Entry /\ Unsettled(f) = Unsettled(e) \cup News(e, us)
  BY ChainedFacts, ReceivedUnsettled
<1>2. /\ f \in Entry /\ News(e, us) \in SUBSET Update
      /\ f.doc = e.doc \cup us /\ f.seq = e.seq /\ f.phase = e.phase
      /\ f.writing = e.writing /\ f.encoded = e.encoded
      /\ \/ /\ f.pendingUpdates = e.pendingUpdates + 1
            /\ f.queue = Append(e.queue, News(e, us))
         \/ f.pendingUpdates = e.pendingUpdates /\ f.queue = e.queue
  BY <1>1, ReceivedType
<1> HIDE DEF f
<1>3. \/ f.pendingUpdates = e.pendingUpdates + 1 /\ Len(f.queue) = Len(e.queue) + 1
      \/ f.pendingUpdates = e.pendingUpdates /\ Len(f.queue) = Len(e.queue)
  BY <1>1, <1>2 DEF Entry
<1>4. /\ Shown(f.doc) = Shown(e.doc) \cup News(e, us)
      /\ News(e, us) \subseteq f.doc
  BY <1>2, ShownGrows DEF News
<1>5. SeqInv(st, f) /\ TaskInv(f)
  BY <1>2 DEF Chained, SeqInv, TaskInv
<1>6. ContentInv(st, f)
  BY <1>1, <1>2, <1>4 DEF Chained, ContentInv
<1>7. Counted(f)
  <2>1. Counted(e) /\ Len(e.queue) \in Nat /\ e.pendingUpdates \in Nat
    BY ChainedFacts DEF Chained
  <2> QED BY <1>2, <1>3, <2>1 DEF Counted
<1> QED BY <1>1, <1>2, <1>4, <1>5, <1>6, <1>7 DEF Chained, f

LEMMA StartedKeeps ==
    ASSUME NEW st, NEW e, Chained(st, e), e.phase = "idle", e.queue # <<>>
    PROVE  /\ Chained(st, TaskStarted(e))
           /\ TaskStarted(e).doc = e.doc
           /\ TaskStarted(e).phase = "append"
           /\ Unsettled(TaskStarted(e)) = Unsettled(e)
<1> DEFINE f == TaskStarted(e)
<1>1. e.writing = {} /\ e.queue \in Seq(SUBSET Update)
  BY DEF Chained, TaskInv, Entry
<1>2. /\ f \in Entry /\ Unsettled(f) = Unsettled(e)
  BY <1>1, ChainedFacts, StartedType, StartedUnsettled
<1>3. /\ f.doc = e.doc /\ f.seq = e.seq + 1 /\ f.phase = "append"
      /\ f.writing = Head(e.queue) /\ f.queue = Tail(e.queue)
      /\ f.pendingUpdates = e.pendingUpdates
  BY ChainedFacts DEF TaskStarted, Entry
<1> HIDE DEF f
<1>4. Len(f.queue) = Len(e.queue) - 1
  BY <1>1, <1>3
<1>5. SeqInv(st, f)
  BY <1>3, ChainedFacts DEF Chained, SeqInv, Store, SnapshotRow, UpdateRow
<1>6. ContentInv(st, f) /\ TaskInv(f)
  BY <1>2, <1>3, <1>4 DEF Chained, ContentInv, TaskInv
<1>7. Counted(f)
  BY <1>3, <1>4, ChainedFacts DEF Chained, Counted
<1> QED BY <1>2, <1>3, <1>5, <1>6, <1>7 DEF Chained, f

\* The row is there: its updates are recoverable, and settled.
LEMMA AppendKeeps ==
    ASSUME NEW st, NEW e, Chained(st, e), e.phase = "append",
           NEW st1, st1 = AppendUpdate(st, e.seq, e.writing),
           NEW f, f = TaskFailed(e) \/ \E late \in BOOLEAN : f = Appended(e, late)
    PROVE  /\ Chained(st1, f)
           /\ f.doc = e.doc
           /\ Recoverable(st1) = Recoverable(st) \cup e.writing
           /\ Unsettled(e) = Unsettled(f) \cup e.writing
<1> DEFINE us == e.writing
           r1 == [seq |-> e.seq, updates |-> us]
<1>1. us \in SUBSET Update
  BY ChainedFacts
<1>2. st1 = AppendUpdate(st, e.seq, us)
  OBVIOUS
<1>3. /\ f \in Entry
      /\ f.doc = e.doc /\ f.seq = e.seq /\ f.queue = e.queue
      /\ f.writing = {}
      /\ \/ f.phase = "encode" /\ f.pendingUpdates = e.pendingUpdates
         \/ f.phase = "idle" /\ f.pendingUpdates = e.pendingUpdates - 1
  <2>1. e \in Entry /\ e.pendingUpdates > 0
    BY ChainedFacts
  <2>2. CASE f = TaskFailed(e)
    BY <2>1, <2>2, TaskFailedType
  <2>3. CASE \E late \in BOOLEAN : f = Appended(e, late)
    BY <2>1, <2>3, AppendedType
  <2> QED BY <2>2, <2>3
<1>4. Unsettled(e) = Unsettled(f) \cup us
  BY <1>3, SameQueue
<1>5. /\ st1 \in Store
      /\ st1.row = st.row /\ st1.snapshots = st.snapshots
      /\ st1.updates = st.updates \cup {r1} /\ r1.seq = e.seq /\ r1.updates = us
      /\ LatestSnapshot(st1) = LatestSnapshot(st)
      /\ Recoverable(st1) = Recoverable(st) \cup us
  <2>1. \A s \in st.snapshots : s.seq < e.seq
    BY DEF Chained, SeqInv
  <2>2. /\ st1.snapshots = st.snapshots
        /\ st1.row = st.row
        /\ st1.updates = st.updates \cup {r1} /\ r1.seq = e.seq /\ r1.updates = us
    BY <1>2, ChainedFacts DEF AppendUpdate, Store
  <2> QED BY <1>1, <1>2, <2>1, <2>2, ChainedFacts, AppendRecoverable
<1> HIDE DEF us, r1
<1>6. us \subseteq e.doc
  BY <1>4 DEF Chained, ContentInv
<1>7. StoreInv(st1)
  <2>1. /\ \A s, t \in st1.snapshots : s.seq = t.seq => s = t
        /\ st1.snapshots # {} => LatestSnapshot(st1) # {}
        /\ st1.row <=> st1.snapshots # {}
        /\ st1.updates # {} => st1.row
    BY <1>5 DEF Chained, StoreInv
  <2>2. \A s \in st1.snapshots : s.seq < e.seq /\ s.seq \in Nat
    BY <1>5, ChainedFacts DEF Chained, SeqInv, Store, SnapshotRow
  <2>3. SnapshotsCoverLog(st1)
    <3> SUFFICES ASSUME NEW s \in st1.snapshots, NEW r \in st1.updates, r.seq <= s.seq
                 PROVE  r.updates \subseteq s.content
      BY DEF SnapshotsCoverLog
    <3>1. r \in st.updates \/ r.seq = e.seq
      BY <1>5
    <3>2. r \in st.updates
      BY <2>2, <3>1, ChainedFacts
    <3> QED BY <1>5, <3>2 DEF Chained, StoreInv, SnapshotsCoverLog
  <2> QED BY <2>1, <2>3 DEF StoreInv
<1>8. SeqInv(st1, f)
  BY <1>3, <1>5, ChainedFacts DEF Chained, SeqInv
<1>9. ContentInv(st1, f) /\ TaskInv(f)
  BY <1>3, <1>4, <1>5, <1>6 DEF Chained, ContentInv, TaskInv
<1>10. Counted(f)
  <2>1. Counted(e) /\ Len(e.queue) \in Nat /\ e.pendingUpdates \in Nat
    BY ChainedFacts DEF Chained
  <2> QED BY <1>3, <2>1 DEF Counted
<1> QED BY <1>1, <1>3, <1>4, <1>5, <1>7, <1>8, <1>9, <1>10 DEF Chained, us

\* A task that fails and leaves the store as it was.
LEMMA FailedKeeps ==
    ASSUME NEW st, NEW e, Chained(st, e), e.phase # "idle"
    PROVE  /\ Chained(st, TaskFailed(e))
           /\ TaskFailed(e).doc = e.doc
           /\ Unsettled(e) = Unsettled(TaskFailed(e)) \cup e.writing
<1> DEFINE f == TaskFailed(e)
<1>1. /\ f \in Entry /\ f.doc = e.doc /\ f.seq = e.seq /\ f.queue = e.queue
      /\ f.writing = {} /\ f.phase = "idle"
      /\ f.pendingUpdates = e.pendingUpdates - 1
  BY ChainedFacts, TaskFailedType
<1> HIDE DEF f
<1>2. Unsettled(e) = Unsettled(f) \cup e.writing
  BY <1>1, SameQueue
<1>3. SeqInv(st, f) /\ ContentInv(st, f) /\ TaskInv(f)
  BY <1>1, <1>2 DEF Chained, SeqInv, ContentInv, TaskInv
<1>4. Counted(f)
  BY <1>1, ChainedFacts DEF Chained, Counted
<1> QED BY <1>1, <1>2, <1>3, <1>4 DEF Chained, f

\* All that is stored, and all that users see but for what is chained, is
\* in the snapshot encoded now.
LEMMA EncodedKeeps ==
    ASSUME NEW st, NEW e, Chained(st, e), e.phase = "encode"
    PROVE  /\ Chained(st, Encoded(e))
           /\ Encoded(e).doc = e.doc
           /\ Encoded(e).phase = "insert"
           /\ Unsettled(Encoded(e)) = Unsettled(e)
<1> DEFINE f == Encoded(e)
<1>1. /\ f \in Entry /\ f.doc = e.doc /\ f.seq = e.seq /\ f.queue = e.queue
      /\ f.writing = e.writing /\ f.phase = "insert" /\ f.encoded = e.doc
      /\ f.pendingUpdates = e.pendingUpdates
  <2>1. e \in Entry
    BY DEF Chained
  <2> QED BY <2>1 DEF Encoded, Entry, Phase
<1> HIDE DEF f
<1>2. Unsettled(f) = Unsettled(e)
  BY <1>1, SameQueue
<1>3. SeqInv(st, f) /\ ContentInv(st, f) /\ TaskInv(f) /\ Counted(f)
  BY <1>1, <1>2, ShownGrows DEF Chained, SeqInv, ContentInv, TaskInv, Counted
<1> QED BY <1>1, <1>2, <1>3 DEF Chained, f

\* The snapshot becomes the latest one, and holds all that was recoverable.
LEMMA InsertedKeeps ==
    ASSUME NEW st, NEW e, Chained(st, e), e.phase = "insert",
           NEW f, f \in {TaskFailed(e), SnapshotInserted(e)}
    PROVE  /\ Chained(InsertSnapshot(st, e.seq, e.encoded), f)
           /\ f.doc = e.doc
           /\ Unsettled(f) = Unsettled(e)
           /\ Recoverable(InsertSnapshot(st, e.seq, e.encoded)) = e.encoded
           /\ Recoverable(st) \subseteq e.encoded
           /\ e.encoded \subseteq e.doc
           /\ Shown(e.doc) \subseteq e.encoded \cup Unsettled(f)
<1> DEFINE st1 == InsertSnapshot(st, e.seq, e.encoded)
           new == [seq |-> e.seq, content |-> e.encoded]
<1>1. /\ st \in Store /\ e \in Entry /\ e.seq \in Nat /\ e.encoded \in SUBSET Update
      /\ e.writing = {} /\ e.pendingUpdates \in Nat /\ e.pendingUpdates > 0
      /\ Len(e.queue) \in Nat
      /\ \A s \in st.snapshots : s.seq < e.seq
      /\ \A r \in st.updates : r.seq <= e.seq /\ r.updates \subseteq e.encoded
  BY ChainedFacts DEF Chained, SeqInv, ContentInv, TaskInv
<1>2. /\ f \in Entry
      /\ f.doc = e.doc /\ f.seq = e.seq /\ f.queue = e.queue /\ f.writing = {}
      /\ \/ f.phase = "compact" /\ f.pendingUpdates = e.pendingUpdates
         \/ f.phase = "idle" /\ f.pendingUpdates = e.pendingUpdates - 1
  <2>1. CASE f = TaskFailed(e)
    BY <1>1, <2>1, TaskFailedType
  <2>2. CASE f = SnapshotInserted(e)
    BY <1>1, <2>2 DEF SnapshotInserted, Entry, Phase
  <2> QED BY <2>1, <2>2
<1>3. /\ st1 \in Store /\ st1.row
      /\ st1.updates = st.updates
      /\ st1.snapshots = st.snapshots \cup {new}
      /\ LatestSnapshot(st1) = {new}
      /\ Recoverable(st1) = e.encoded
  <2>1. /\ st1.row = st.row
        /\ st1.updates = st.updates
        /\ st1.snapshots = st.snapshots \cup {new}
    BY <1>1 DEF InsertSnapshot, Store
  <2> QED BY <1>1, <2>1, InsertRecoverable DEF Chained
<1> HIDE DEF st1
<1>4. Unsettled(f) = Unsettled(e)
  BY <1>1, <1>2, SameQueue
<1>5. StoreInv(st1)
  <2>1. ASSUME NEW s \in st1.snapshots, NEW t \in st1.snapshots, s.seq = t.seq PROVE s = t
    <3>1. \A x \in st.snapshots : x.seq # new.seq
      BY <1>1 DEF Store, SnapshotRow
    <3> QED BY <1>3, <2>1, <3>1 DEF Chained, StoreInv
  <2>2. SnapshotsCoverLog(st1)
    BY <1>1, <1>3 DEF Chained, StoreInv, SnapshotsCoverLog
  <2> QED BY <1>3, <2>1, <2>2 DEF StoreInv
<1>6. SeqInv(st1, f)
  <2>1. new \in st1.snapshots /\ new.seq = e.seq
    BY <1>3
  <2>2. \A s \in st1.snapshots : s.seq <= e.seq
    BY <1>1, <1>3 DEF Store, SnapshotRow
  <2> QED BY <1>1, <1>2, <1>3, <2>1, <2>2 DEF SeqInv
<1>7. ContentInv(st1, f) /\ TaskInv(f)
  BY <1>1, <1>2, <1>3, <1>4 DEF Chained, ContentInv, TaskInv
<1>8. Counted(f)
  BY <1>1, <1>2 DEF Chained, Counted
<1> QED BY <1>2, <1>3, <1>4, <1>5, <1>6, <1>7, <1>8 DEF Chained, ContentInv, st1

\* What is compacted away was never read.
LEMMA CompactedKeeps ==
    ASSUME NEW st, NEW e, Chained(st, e), e.phase = "compact",
           NEW st1 \in {st, CompactAfterSnapshot(st, e.seq)},
           NEW f \in {TaskFailed(e), SnapshotDone(e)}
    PROVE  /\ Chained(st1, f)
           /\ f.doc = e.doc
           /\ Unsettled(f) = Unsettled(e)
           /\ Recoverable(st1) = Recoverable(st)
<1>1. /\ st \in Store /\ e \in Entry /\ e.seq \in Nat
      /\ e.writing = {} /\ e.pendingUpdates \in Nat /\ e.pendingUpdates > 0
      /\ Len(e.queue) \in Nat
      /\ \A s \in st.snapshots : s.seq <= e.seq
      /\ \A r \in st.updates : r.seq <= e.seq /\ r.updates \subseteq e.doc
      /\ \E s \in st.snapshots : s.seq = e.seq
  BY ChainedFacts DEF Chained, SeqInv, ContentInv, TaskInv
<1>2. /\ f \in Entry
      /\ f.doc = e.doc /\ f.seq = e.seq /\ f.queue = e.queue /\ f.writing = {}
      /\ f.phase = "idle" /\ f.pendingUpdates = e.pendingUpdates - 1
  BY <1>1, TaskFailedType, SnapshotDoneType
<1>3. /\ st1 \in Store /\ st1.row
      /\ st1.snapshots \subseteq st.snapshots /\ st1.updates \subseteq st.updates
      /\ \E s \in st1.snapshots : s.seq = e.seq
      /\ LatestSnapshot(st1) = LatestSnapshot(st)
      /\ Recoverable(st1) = Recoverable(st)
  <2>1. CASE st1 = st
    BY <1>1, <2>1 DEF Chained
  <2>2. CASE st1 = CompactAfterSnapshot(st, e.seq)
    BY <1>1, <2>2, CompactRecoverable DEF Chained
  <2> QED BY <2>1, <2>2
<1>4. Unsettled(f) = Unsettled(e)
  BY <1>1, <1>2, SameQueue
<1>5. StoreInv(st1)
  <2>1. \A s, t \in st1.snapshots : s.seq = t.seq => s = t
    BY <1>3 DEF Chained, StoreInv
  <2>2. SnapshotsCoverLog(st1)
    BY <1>3 DEF Chained, StoreInv, SnapshotsCoverLog
  <2>3. LatestSnapshot(st1) # {}
    BY <1>3, ChainedFacts
  <2> QED BY <1>3, <2>1, <2>2, <2>3 DEF StoreInv
<1>6. SeqInv(st1, f)
  BY <1>1, <1>2, <1>3 DEF SeqInv
<1>7. ContentInv(st1, f) /\ TaskInv(f)
  BY <1>1, <1>2, <1>3, <1>4 DEF Chained, ContentInv, TaskInv
<1>8. Counted(f)
  BY <1>1, <1>2 DEF Chained, Counted
<1> QED BY <1>2, <1>3, <1>4, <1>5, <1>6, <1>7, <1>8 DEF Chained

-----------------------------------------------------------------------------
(* Type and count, whatever the store holds.                                *)

\* Every step keeps the type of an entry and the count of its tasks.
LEMMA TypeKeeps ==
    ASSUME NEW e \in Entry, Counted(e), NEW f,
           \/ \E us \in SUBSET Update : f = Received(e, us)
           \/ e.phase = "idle" /\ e.queue # <<>> /\ f = TaskStarted(e)
           \/ e.phase = "append" /\ \E late \in BOOLEAN : f = Appended(e, late)
           \/ e.phase = "encode" /\ f = Encoded(e)
           \/ e.phase = "insert" /\ f = SnapshotInserted(e)
           \/ e.phase # "idle" /\ f \in {TaskFailed(e), SnapshotDone(e)}
    PROVE  f \in Entry /\ Counted(f)
<1>1. /\ e.queue \in Seq(SUBSET Update) /\ Len(e.queue) \in Nat /\ e.pendingUpdates \in Nat
      /\ e.phase # "idle" => e.pendingUpdates > 0
  BY DEF Entry, Counted
<1>2. ASSUME NEW us \in SUBSET Update, f = Received(e, us) PROVE f \in Entry /\ Counted(f)
  <2>1. /\ f \in Entry /\ f.phase = e.phase /\ News(e, us) \in SUBSET Update
        /\ \/ /\ f.pendingUpdates = e.pendingUpdates + 1
              /\ f.queue = Append(e.queue, News(e, us))
           \/ f.pendingUpdates = e.pendingUpdates /\ f.queue = e.queue
    BY <1>2, ReceivedType
  <2>2. \/ f.pendingUpdates = e.pendingUpdates + 1 /\ Len(f.queue) = Len(e.queue) + 1
        \/ f.pendingUpdates = e.pendingUpdates /\ Len(f.queue) = Len(e.queue)
    BY <1>1, <2>1
  <2> QED BY <1>1, <2>1, <2>2 DEF Counted
<1>3. CASE e.phase = "idle" /\ e.queue # <<>> /\ f = TaskStarted(e)
  <2>1. /\ f \in Entry /\ f.phase = "append" /\ f.pendingUpdates = e.pendingUpdates
        /\ f.queue = Tail(e.queue)
    BY <1>3, StartedType DEF TaskStarted, Entry
  <2>2. Len(f.queue) = Len(e.queue) - 1
    BY <1>1, <1>3, <2>1
  <2> QED BY <1>1, <1>3, <2>1, <2>2 DEF Counted
<1>4. CASE e.phase = "append" /\ \E late \in BOOLEAN : f = Appended(e, late)
  <2>1. /\ f \in Entry /\ f.queue = e.queue
        /\ \/ f.phase = "encode" /\ f.pendingUpdates = e.pendingUpdates
           \/ f.phase = "idle" /\ f.pendingUpdates = e.pendingUpdates - 1
    BY <1>1, <1>4, AppendedType
  <2> QED BY <1>1, <1>4, <2>1 DEF Counted
<1>5. CASE e.phase = "encode" /\ f = Encoded(e)
  <2>1. /\ f \in Entry /\ f.queue = e.queue /\ f.phase = "insert"
        /\ f.pendingUpdates = e.pendingUpdates
    BY <1>5 DEF Encoded, Entry, Phase
  <2> QED BY <1>1, <1>5, <2>1 DEF Counted
<1>6. CASE e.phase = "insert" /\ f = SnapshotInserted(e)
  <2>1. /\ f \in Entry /\ f.queue = e.queue /\ f.phase = "compact"
        /\ f.pendingUpdates = e.pendingUpdates
    BY <1>6 DEF SnapshotInserted, Entry, Phase
  <2> QED BY <1>1, <1>6, <2>1 DEF Counted
<1>7. CASE e.phase # "idle" /\ f \in {TaskFailed(e), SnapshotDone(e)}
  <2>1. /\ f \in Entry /\ f.queue = e.queue /\ f.phase = "idle"
        /\ f.pendingUpdates = e.pendingUpdates - 1
    BY <1>1, <1>7, TaskFailedType, SnapshotDoneType
  <2> QED BY <1>1, <1>7, <2>1 DEF Counted
<1> QED BY <1>2, <1>3, <1>4, <1>5, <1>6, <1>7

\* A fresh entry has nothing chained.
LEMMA FreshType ==
    ASSUME NEW c \in SUBSET Update, NEW n \in Nat, NEW f, f = NewEntry(c, n)
    PROVE  f \in Entry /\ Counted(f)
<1>1. f \in Entry /\ f.phase = "idle" /\ f.pendingUpdates = 0 /\ f.queue = <<>>
  BY NewEntryType DEF NewEntry
<1>2. Len(f.queue) = 0
  BY <1>1
<1> QED BY <1>1, <1>2 DEF Counted

-----------------------------------------------------------------------------
(* The final snapshot of an idle entry.                                     *)

\* The snapshot of a settled entry becomes the latest one.
LEMMA FinalSnapshotKeeps ==
    ASSUME NEW st, NEW e, Chained(st, e), Settled(e), CanInsertSnapshot(st, e.seq)
    PROVE  /\ Chained(InsertSnapshot(st, e.seq, e.doc), e)
           /\ Recoverable(InsertSnapshot(st, e.seq, e.doc)) = e.doc
           /\ Recoverable(st) \subseteq e.doc
           /\ \E s \in InsertSnapshot(st, e.seq, e.doc).snapshots : s.seq = e.seq
<1> DEFINE st1 == InsertSnapshot(st, e.seq, e.doc)
           new == [seq |-> e.seq, content |-> e.doc]
<1>1. /\ st \in Store /\ e \in Entry /\ e.seq \in Nat /\ e.doc \in SUBSET Update
      /\ e.phase = "idle"
      /\ \A r \in st.updates : r.seq <= e.seq /\ r.updates \subseteq e.doc
      /\ Recoverable(st) \subseteq e.doc
  BY ChainedFacts DEF Chained, SeqInv, ContentInv, Settled
<1>2. \A s \in st.snapshots : s.seq < e.seq
  BY <1>1 DEF Chained, SeqInv, CanInsertSnapshot, Store, SnapshotRow
<1>3. /\ st1 \in Store /\ st1.row
      /\ st1.updates = st.updates
      /\ st1.snapshots = st.snapshots \cup {new}
      /\ LatestSnapshot(st1) = {new}
      /\ Recoverable(st1) = e.doc
  <2>1. /\ st1.row = st.row
        /\ st1.updates = st.updates
        /\ st1.snapshots = st.snapshots \cup {new}
    BY <1>1 DEF InsertSnapshot, Store
  <2> QED BY <1>1, <1>2, <2>1, InsertRecoverable DEF Chained
<1> HIDE DEF st1
<1>4. StoreInv(st1)
  <2>1. ASSUME NEW s \in st1.snapshots, NEW t \in st1.snapshots, s.seq = t.seq PROVE s = t
    <3>1. \A x \in st.snapshots : x.seq # new.seq
      BY <1>1, <1>2 DEF Store, SnapshotRow
    <3> QED BY <1>3, <2>1, <3>1 DEF Chained, StoreInv
  <2>2. SnapshotsCoverLog(st1)
    BY <1>1, <1>3 DEF Chained, StoreInv, SnapshotsCoverLog
  <2> QED BY <1>3, <2>1, <2>2 DEF StoreInv
<1>5. SeqInv(st1, e)
  <2>1. \A s \in st1.snapshots : s.seq <= e.seq
    BY <1>1, <1>2, <1>3 DEF Store, SnapshotRow
  <2> QED BY <1>1, <1>3, <2>1 DEF SeqInv
<1>6. ContentInv(st1, e)
  BY <1>1, <1>3 DEF Chained, ContentInv
<1>7. new \in st1.snapshots /\ new.seq = e.seq
  BY <1>3
<1> QED BY <1>1, <1>3, <1>4, <1>5, <1>6, <1>7 DEF Chained, st1

\* Compacting up to it loses nothing.
LEMMA FinalCompactKeeps ==
    ASSUME NEW st, NEW e, Chained(st, e), \E s \in st.snapshots : s.seq = e.seq
    PROVE  /\ CompactAfterSnapshot(st, e.seq) \in Store
           /\ StoreInv(CompactAfterSnapshot(st, e.seq))
           /\ Recoverable(CompactAfterSnapshot(st, e.seq)) = Recoverable(st)
<1> DEFINE st1 == CompactAfterSnapshot(st, e.seq)
<1>1. /\ st1 \in Store /\ st1.row
      /\ st1.snapshots \subseteq st.snapshots /\ st1.updates \subseteq st.updates
      /\ \E s \in st1.snapshots : s.seq = e.seq
      /\ LatestSnapshot(st1) = LatestSnapshot(st)
      /\ Recoverable(st1) = Recoverable(st)
  <2>1. st \in Store /\ e.seq \in Nat /\ \A s \in st.snapshots : s.seq <= e.seq
    BY ChainedFacts DEF Chained, SeqInv
  <2> QED BY <2>1, CompactRecoverable DEF Chained
<1> HIDE DEF st1
<1>2. StoreInv(st1)
  <2>1. \A s, t \in st1.snapshots : s.seq = t.seq => s = t
    BY <1>1 DEF Chained, StoreInv
  <2>2. SnapshotsCoverLog(st1)
    BY <1>1 DEF Chained, StoreInv, SnapshotsCoverLog
  <2>3. LatestSnapshot(st1) # {}
    BY <1>1, ChainedFacts
  <2> QED BY <1>1, <2>1, <2>2, <2>3 DEF StoreInv
<1> QED BY <1>1, <1>2 DEF st1

-----------------------------------------------------------------------------
(* Fresh entries.                                                           *)

\* The entry of a document that was loaded, or created.
LEMMA NewEntryKeeps ==
    ASSUME NEW st \in Store, StoreInv(st), st.row, NEW n \in Nat,
           NEW c \in SUBSET Update, c = Recoverable(st),
           NEW e, e = NewEntry(c, n),
           \A s \in st.snapshots : s.seq <= n,
           \A r \in st.updates : r.seq <= n /\ r.updates \subseteq c
    PROVE  Chained(st, e) /\ e.doc = c /\ Unsettled(e) = {}
<1>1. /\ e \in Entry /\ e.doc = c /\ e.seq = n /\ e.phase = "idle"
      /\ e.pendingUpdates = 0 /\ e.queue = <<>> /\ e.writing = {}
      /\ Unsettled(e) = {}
  BY NewEntryType
<1>2. Len(e.queue) = 0
  BY <1>1
<1>3. SeqInv(st, e)
  BY <1>1 DEF SeqInv
<1>4. ContentInv(st, e) /\ TaskInv(e) /\ Counted(e)
  BY <1>1, <1>2 DEF ContentInv, TaskInv, Counted
<1> QED BY <1>1, <1>3, <1>4 DEF Chained

\* The rows of a document that has none become those of an empty document.
LEMMA InitialKeeps ==
    ASSUME NEW st \in Store, StoreInv(st), ~st.row
    PROVE  /\ PersistInitialSnapshot(st) \in Store
           /\ StoreInv(PersistInitialSnapshot(st))
           /\ PersistInitialSnapshot(st).row
           /\ PersistInitialSnapshot(st).updates = {}
           /\ \A s \in PersistInitialSnapshot(st).snapshots : s.seq <= 0
           /\ Recoverable(PersistInitialSnapshot(st)) = {}
           /\ Recoverable(st) = {}
<1> DEFINE st1 == PersistInitialSnapshot(st)
<1>1. st.updates = {} /\ st.snapshots = {}
  BY DEF StoreInv
<1>2. /\ st1 \in Store /\ st1.row /\ st1.updates = {}
      /\ st1.snapshots = {[seq |-> 0, content |-> {}]}
      /\ LatestSnapshot(st1) = {[seq |-> 0, content |-> {}]}
      /\ Recoverable(st1) = {}
  BY <1>1, InitialRecoverable
<1> HIDE DEF st1
<1>3. StoreInv(st1)
  BY <1>2 DEF StoreInv, SnapshotsCoverLog
<1>4. \A s \in st1.snapshots : s.seq <= 0
  BY <1>2
<1>5. Recoverable(st) = {}
  BY <1>1, RecoverableDef DEF LatestSnapshot
<1> QED BY <1>2, <1>3, <1>4, <1>5 DEF st1

-----------------------------------------------------------------------------
(* Counting rows.                                                           *)

\* Of snapshots with different seqs, compaction keeps KeepSnapshots at most:
\* how many newer ones a kept snapshot has tells it from the others.
LEMMA KeptSnapshots ==
    ASSUME NEW S, IsFiniteSet(S), \A s \in S : s.seq \in Nat,
           \A s, t \in S : s.seq = t.seq => s = t
    PROVE  Cardinality({s \in S : Cardinality({t \in S : t.seq > s.seq}) < KeepSnapshots})
             <= KeepSnapshots
<1> DEFINE newer(s) == {t \in S : t.seq > s.seq}
           kept == {s \in S : Cardinality(newer(s)) < KeepSnapshots}
           f == [s \in kept |-> Cardinality(newer(s))]
           I == 0 .. (KeepSnapshots - 1)
<1>1. KeepSnapshots \in Nat /\ KeepSnapshots > 0
  BY KeepSnapshotsAssumption
<1>2. \A s \in S : IsFiniteSet(newer(s)) /\ Cardinality(newer(s)) \in Nat
  BY FS_Subset, FS_CardinalityType
<1>3. ASSUME NEW s \in S, NEW t \in S, s.seq < t.seq
      PROVE  Cardinality(newer(t)) < Cardinality(newer(s))
  <2>1. newer(t) \subseteq newer(s)
    BY <1>3
  <2>2. t \in newer(s) /\ t \notin newer(t)
    BY <1>3
  <2>3. Cardinality(newer(t)) <= Cardinality(newer(s))
    BY <1>2, <2>1, FS_Subset
  <2>4. Cardinality(newer(t)) # Cardinality(newer(s))
    <3> HIDE DEF newer
    <3> QED BY <1>2, <2>1, <2>2, FS_Subset
  <2> HIDE DEF newer
  <2> QED BY <1>2, <2>3, <2>4
<1>4. \A s, t \in S : Cardinality(newer(s)) = Cardinality(newer(t)) => s = t
  <2> SUFFICES ASSUME NEW s \in S, NEW t \in S, s # t
               PROVE  Cardinality(newer(s)) # Cardinality(newer(t))
    OBVIOUS
  <2>1. s.seq < t.seq \/ t.seq < s.seq
    OBVIOUS
  <2> HIDE DEF newer
  <2> QED BY <1>2, <1>3, <2>1
<1>5. \A s \in kept : s \in S /\ Cardinality(newer(s)) \in I
  BY <1>1, <1>2
<1>6. IsFiniteSet(I) /\ Cardinality(I) = KeepSnapshots
  <2>1. KeepSnapshots - 1 \in Int /\ ~(0 > KeepSnapshots - 1)
    BY <1>1
  <2> QED BY <1>1, <2>1, FS_Interval
<1> HIDE DEF newer, I
<1>7. f \in Injection(kept, I)
  <2>1. f \in [kept -> I]
    BY <1>5
  <2>2. ASSUME NEW s \in kept, NEW t \in kept, f[s] = f[t] PROVE s = t
    BY <1>4, <1>5, <2>2
  <2> QED BY <2>1, <2>2 DEF Injection, IsInjective
<1>8. Cardinality(kept) <= Cardinality(I)
  BY <1>6, <1>7, FS_Injection
<1> QED BY <1>6, <1>8 DEF newer

\* Rows with different seqs past m and up to n are n - m at most.
LEMMA RowsBetween ==
    ASSUME NEW S, NEW m \in Nat, NEW n \in Nat, m <= n,
           \A r \in S : r.seq \in Nat /\ m < r.seq /\ r.seq <= n,
           \A r, q \in S : r.seq = q.seq => r = q
    PROVE  IsFiniteSet(S) /\ Cardinality(S) <= n - m
<1> DEFINE f == [r \in S |-> r.seq]
           I == (m + 1) .. n
<1>1. IsFiniteSet(I) /\ Cardinality(I) = n - m
  <2>1. /\ m + 1 \in Int /\ n \in Int
        /\ IF m + 1 > n THEN n - m = 0 ELSE n - (m + 1) + 1 = n - m
    OBVIOUS
  <2> QED BY <2>1, FS_Interval
<1>2. \A r \in S : r.seq \in I
  OBVIOUS
<1> HIDE DEF I
<1>3. f \in Injection(S, I)
  BY <1>2 DEF Injection, IsInjective
<1> QED BY <1>1, <1>3, FS_Injection

\* A log is as long as its rows up to m, and n - m more.
LEMMA RowsCounted ==
    ASSUME NEW S, IsFiniteSet(S), NEW m \in Nat, NEW n \in Nat, m <= n,
           \A r \in S : r.seq \in Nat /\ r.seq <= n,
           \A r, q \in S : r.seq = q.seq => r = q,
           NEW old, old = {r \in S : r.seq <= m}
    PROVE  Cardinality(S) <= Cardinality(old) + (n - m)
<1> DEFINE new == S \ old
<1>1. \A r \in new : r.seq \in Nat /\ m < r.seq /\ r.seq <= n
  OBVIOUS
<1>2. \A r, q \in new : r.seq = q.seq => r = q
  OBVIOUS
<1>3. old \cup new = S /\ old \cap new = {} /\ old \in SUBSET S
  OBVIOUS
<1> HIDE DEF new
<1>4. IsFiniteSet(new) /\ Cardinality(new) <= n - m
  BY <1>1, <1>2, RowsBetween
<1>5. IsFiniteSet(old)
  BY <1>3, FS_Subset
<1>6. Cardinality(old \cup new) =
        Cardinality(old) + Cardinality(new) - Cardinality(old \cap new)
  BY <1>4, <1>5, FS_Union
<1>7. Cardinality(old \cap new) = 0 /\ Cardinality(old \cup new) = Cardinality(S)
  BY <1>3, FS_EmptySet
<1>8. Cardinality(new) \in Nat /\ Cardinality(old) \in Nat
  BY <1>4, <1>5, FS_CardinalityType
<1> QED BY <1>4, <1>6, <1>7, <1>8
=============================================================================
