------------------------------ MODULE SchemaDesign ------------------------------
(***************************************************************************)
(* SchemaDesignTool: what validate reports of a document and which         *)
(* statements compile makes of it, for every document that clients can     *)
(* edit together.  The clients write the maps of the document freely, so   *)
(* any entry may be missing, malformed or point nowhere.                   *)
(*                                                                         *)
(* Ids and names are numbers in the order of localeCompare.  A Y.Map is    *)
(* iterated in an order of the replica: o below.  Of a statement only the  *)
(* tables, the name and the columns it mentions are kept.                  *)
(***************************************************************************)
EXTENDS Integers, Sequences, SequencesExt

CONSTANTS
    TableId, KeyId, ReferenceId, CompositionId,
    Lower,            \* the lower-case form of every name
    TableValue,       \* bounds: the well-formed values that clients write
    KeyValue,
    ReferenceValue,
    CompositionValue,
    Absent,           \* no entry
    Malformed,        \* an entry that is no object, or keyIds that is no array
    NoColumns         \* columns that are no array of strings

\* An absent or blank string; it sorts first.
Blank == 0

ASSUME SchemaDesignAssumption ==
    /\ TableId \cup KeyId \cup ReferenceId \subseteq Nat \ {Blank}
    /\ IsFiniteSet(TableId) /\ IsFiniteSet(KeyId) /\ IsFiniteSet(ReferenceId)
    /\ DOMAIN Lower \subseteq Nat
    /\ \A v \in TableValue : v.name \in {Blank} \cup DOMAIN Lower
    /\ \A v \in KeyValue : v.tableId \in Nat /\ v.name \in Nat
    /\ \A v \in ReferenceValue : v.fromTableId \in Nat /\ v.toTableId \in Nat
    /\ \A k \in CompositionValue : k \in Seq(Nat)

VARIABLES
    doc    \* the document, as all replicas have it

designVars == doc

Written(values) == values \cup {Absent, Malformed}

DesignTypeOK ==
    doc \in [tables: [TableId -> Written(TableValue)],
             keys: [KeyId -> Written(KeyValue)],
             references: [ReferenceId -> Written(ReferenceValue)],
             compositions: [CompositionId -> Written(CompositionValue)],
             versioned: BOOLEAN]

\* initDocument.
DesignInit ==
    doc = [tables |-> [t \in TableId |-> Absent],
           keys |-> [k \in KeyId |-> Absent],
           references |-> [r \in ReferenceId |-> Absent],
           compositions |-> [c \in CompositionId |-> Absent],
           versioned |-> TRUE]

\* The client writes or deletes an entry; nothing looks at what it writes.
PutTable(t, v) == doc' = [doc EXCEPT !.tables[t] = v]

PutKey(k, v) == doc' = [doc EXCEPT !.keys[k] = v]

PutReference(r, v) == doc' = [doc EXCEPT !.references[r] = v]

PutComposition(c, v) == doc' = [doc EXCEPT !.compositions[c] = v]

\* meta.schemaVersion becomes a number, or no longer is one.
SetVersion == doc' = [doc EXCEPT !.versioned = ~@]

DesignNext ==
    \/ \E t \in TableId, v \in Written(TableValue) : PutTable(t, v)
    \/ \E k \in KeyId, v \in Written(KeyValue) : PutKey(k, v)
    \/ \E r \in ReferenceId, v \in Written(ReferenceValue) : PutReference(r, v)
    \/ \E c \in CompositionId, v \in Written(CompositionValue) : PutComposition(c, v)
    \/ SetVersion

DesignSpec == DesignInit /\ [][DesignNext]_designVars

-----------------------------------------------------------------------------
(* What both functions see of the maps.                                     *)

Present(m) == {i \in DOMAIN m : m[i] # Absent}
Objects(m) == {i \in DOMAIN m : m[i] \notin {Absent, Malformed}}

\* S sorted by the pairs of R: at i, the element that i - 1 others precede.
Sorted(S, R) ==
    [i \in 1..Cardinality(S) |->
        CHOOSE x \in S : Cardinality({y \in S : <<y, x>> \in R}) = i - 1]

Before(o, i, j) == \E m, n \in DOMAIN o : m < n /\ o[m] = i /\ o[n] = j

\* tablesById and keysById.
NamedTables(d) == {t \in Objects(d.tables) : d.tables[t].name # Blank}
NamedKeys(d) ==
    {k \in Objects(d.keys) : d.keys[k].tableId # Blank /\ d.keys[k].name # Blank}

TableName(d, t) == IF t \in NamedTables(d) THEN d.tables[t].name ELSE Blank

\* What the sorts take for a table: its name, or else its id.
Label(d, t) == IF t \in NamedTables(d) THEN d.tables[t].name ELSE t

-----------------------------------------------------------------------------
(* compile.                                                                 *)

\* By name; the sort is stable.
TableFirst(d, o, t, u) ==
    \/ TableName(d, t) < TableName(d, u)
    \/ TableName(d, t) = TableName(d, u) /\ Before(o, t, u)

SortedTables(d, o) ==
    Sorted(NamedTables(d),
           {p \in NamedTables(d) \X NamedTables(d) : TableFirst(d, o, p[1], p[2])})

\* CREATE TABLE, in the order of the names.
CompiledTables(d, o) ==
    LET sorted == SortedTables(d, o)
    IN  [i \in DOMAIN sorted |-> [kind |-> "table", table |-> TableName(d, sorted[i])]]

Usable(columns) == columns # NoColumns /\ columns # <<>>

\* The keys that become constraints.
Constraining(d) ==
    {k \in NamedKeys(d) : d.keys[k].kind \in {"primary", "unique"} /\ Usable(d.keys[k].columns)}

KeyStatement(d, k) ==
    LET table == TableName(d, d.keys[k].tableId)
    IN  IF table = Blank THEN [kind |-> "skipped key", id |-> k]
        ELSE [kind |-> d.keys[k].kind, table |-> table,
              name |-> d.keys[k].name, columns |-> d.keys[k].columns]

\* By table and name; the sort is stable.
KeyFirst(d, o, k, l) ==
    LET label(x) == Label(d, d.keys[x].tableId)
    IN  \/ label(k) < label(l)
        \/ label(k) = label(l) /\ d.keys[k].name < d.keys[l].name
        \/ label(k) = label(l) /\ d.keys[k].name = d.keys[l].name /\ Before(o, k, l)

SortedKeys(d, o) ==
    Sorted(Constraining(d),
           {p \in Constraining(d) \X Constraining(d) : KeyFirst(d, o, p[1], p[2])})

CompiledKeys(d, o) ==
    LET sorted == SortedKeys(d, o)
    IN  [i \in DOMAIN sorted |-> KeyStatement(d, sorted[i])]

\* The columns of both sides: as written, or else those of the two keys.
ReferenceColumns(d, r) ==
    LET ref == d.references[r]
        byKeys == /\ NoColumns \in {ref.fromColumns, ref.toColumns}
                  /\ {ref.fromKeyId, ref.toKeyId} \subseteq NamedKeys(d)
                  /\ \A k \in {ref.fromKeyId, ref.toKeyId} : Usable(d.keys[k].columns)
    IN  IF byKeys THEN <<d.keys[ref.fromKeyId].columns, d.keys[ref.toKeyId].columns>>
        ELSE <<ref.fromColumns, ref.toColumns>>

ReferenceStatement(d, r) ==
    LET from == TableName(d, d.references[r].fromTableId)
        to == TableName(d, d.references[r].toTableId)
        columns == ReferenceColumns(d, r)
    IN  IF Blank \in {from, to} THEN [kind |-> "skipped reference", id |-> r]
        ELSE IF \/ ~Usable(columns[1]) \/ ~Usable(columns[2])
                \/ Len(columns[1]) # Len(columns[2])
             THEN [kind |-> "mismatched reference", id |-> r]
        ELSE [kind |-> "foreign", table |-> from, to |-> to, id |-> r, columns |-> columns]

\* Mutant: references of the same tables stay in the order of the map.
ReferenceFirstByTables(d, o, r, s) ==
    LET from(x) == Label(d, d.references[x].fromTableId)
        to(x) == Label(d, d.references[x].toTableId)
    IN  \/ from(r) < from(s)
        \/ from(r) = from(s) /\ to(r) < to(s)
        \/ from(r) = from(s) /\ to(r) = to(s) /\ Before(o, r, s)

\* The order of references: by the two tables, then by id.
ReferenceFirst(d, o, r, s) ==
    LET from(x) == Label(d, d.references[x].fromTableId)
        to(x) == Label(d, d.references[x].toTableId)
    IN  \/ from(r) < from(s)
        \/ from(r) = from(s) /\ to(r) < to(s)
        \/ from(r) = from(s) /\ to(r) = to(s) /\ r < s

SortedReferences(d, o) ==
    Sorted(Objects(d.references),
           {p \in Objects(d.references) \X Objects(d.references) :
               ReferenceFirst(d, o, p[1], p[2])})

CompiledReferences(d, o) ==
    LET sorted == SortedReferences(d, o)
    IN  [i \in DOMAIN sorted |-> ReferenceStatement(d, sorted[i])]

Compile(d, ot, ok, or) ==
    CompiledTables(d, ot) \o CompiledKeys(d, ok) \o CompiledReferences(d, or)

-----------------------------------------------------------------------------
(* validate: the errors as <<map, id, field>>.                              *)

Duplicates(d, o) ==
    {t \in NamedTables(d) : \E u \in NamedTables(d) :
        Before(o, u, t) /\ Lower[d.tables[u].name] = Lower[d.tables[t].name]}

TableErrors(d, o) ==
    {<<"tables", t, "value">> : t \in Present(d.tables) \ Objects(d.tables)}
        \cup {<<"tables", t, "name">> :
                 t \in (Objects(d.tables) \ NamedTables(d)) \cup Duplicates(d, o)}

\* Mutant: the table of a key only has to be named.
KeyErrorsUnlinked(d) ==
    {<<"keys", k, "value">> : k \in Present(d.keys) \ Objects(d.keys)}
        \cup {<<"keys", k, "tableId">> : k \in {l \in Objects(d.keys) : d.keys[l].tableId = Blank}}
        \cup {<<"keys", k, "name">> : k \in {l \in Objects(d.keys) : d.keys[l].name = Blank}}

KeyErrors(d) ==
    {<<"keys", k, "value">> : k \in Present(d.keys) \ Objects(d.keys)}
        \cup {<<"keys", k, "tableId">> :
                 k \in {l \in Objects(d.keys) : d.keys[l].tableId \notin Present(d.tables)}}
        \cup {<<"keys", k, "name">> : k \in {l \in Objects(d.keys) : d.keys[l].name = Blank}}

ReferenceErrors(d) ==
    LET ref(r) == d.references[r]
        objects == Objects(d.references)
    IN  {<<"references", r, "value">> : r \in Present(d.references) \ objects}
        \cup {<<"references", r, "fromTableId">> :
                 r \in {s \in objects : ref(s).fromTableId \notin Present(d.tables)}}
        \cup {<<"references", r, "toTableId">> :
                 r \in {s \in objects : ref(s).toTableId \notin Present(d.tables)}}
        \cup {<<"references", r, "fromKeyId">> :
                 r \in {s \in objects : ref(s).fromKeyId \notin Present(d.keys) \cup {Blank}}}
        \cup {<<"references", r, "toKeyId">> :
                 r \in {s \in objects : ref(s).toKeyId \notin Present(d.keys) \cup {Blank}}}

CompositionErrors(d) ==
    {<<"compositions", c, "value">> : c \in Present(d.compositions) \ Objects(d.compositions)}
        \cup {<<"compositions", c, "keyIds">> :
                 c \in {e \in Objects(d.compositions) :
                           ~(ToSet(d.compositions[e]) \subseteq Present(d.keys))}}

Errors(d, o) ==
    {<<"meta", Blank, "schemaVersion">> : v \in {d.versioned} \cap {FALSE}}
        \cup TableErrors(d, o) \cup KeyErrors(d) \cup ReferenceErrors(d) \cup CompositionErrors(d)

Valid(d, o) == Errors(d, o) = {}

-----------------------------------------------------------------------------
Orders(ids) == SetToSeqs(ids)

\* Everything a valid document declares is compiled: no key and no reference
\* is skipped for a table that compile, with its own rules, does not find.
\* Only a reference without fitting columns is, which validate does not see.
\* And no two of its tables have names that differ in case only.
ValidMeansCompiled ==
    \A ot \in Orders(TableId), ok \in Orders(KeyId), or \in Orders(ReferenceId) :
        Valid(doc, ot) =>
            /\ \A s \in ToSet(Compile(doc, ot, ok, or)) :
                   s.kind \notin {"skipped key", "skipped reference"}
            /\ \A t, u \in NamedTables(doc) :
                   Lower[TableName(doc, t)] = Lower[TableName(doc, u)] => t = u

\* Two keys of one table with one name: validate lets them be, and the sort
\* of the constraints ("Deterministic order by table name then key name")
\* leaves them in the order of the map.
KeysTie(d) ==
    \E k, l \in Constraining(d) :
        k # l /\ d.keys[k].name = d.keys[l].name
              /\ Label(d, d.keys[k].tableId) = Label(d, d.keys[l].tableId)

\* Replicas that hold the same document but iterate it in different orders
\* agree on whether it is valid, on its foreign keys and, if it is valid, on
\* its tables and, keys that tie aside, on its constraints.
ReplicasAgree ==
    /\ \A o, p \in Orders(TableId) :
           /\ Valid(doc, o) = Valid(doc, p)
           /\ Valid(doc, o) => CompiledTables(doc, o) = CompiledTables(doc, p)
    /\ \A ot \in Orders(TableId) : Valid(doc, ot) /\ ~KeysTie(doc) =>
           \A o, p \in Orders(KeyId) : CompiledKeys(doc, o) = CompiledKeys(doc, p)
    /\ \A o, p \in Orders(ReferenceId) : CompiledReferences(doc, o) = CompiledReferences(doc, p)

=============================================================================
