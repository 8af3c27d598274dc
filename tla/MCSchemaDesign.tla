----------------------------- MODULE MCSchemaDesign -----------------------------
(* Documents of two tables, two keys, two references and a composition, with *)
(* names that differ in case only and links that point nowhere.              *)
EXTENDS SchemaDesign

MCTableId == {1, 2}
MCKeyId == {1, 2}
MCReferenceId == {1, 2}
MCCompositionId == {1}

\* Name 12 is name 11 in upper case.
MCLower == 11 :> 11 @@ 12 :> 11 @@ 13 :> 13

MCTableValue == [name: {Blank, 11, 12, 13}]

Key(t, n, kind, columns) == [tableId |-> t, name |-> n, kind |-> kind, columns |-> columns]

MCKeyValue ==
    {Key(1, 21, "primary", <<1>>), Key(1, 21, "unique", <<1, 2>>), Key(2, 22, "unique", <<1>>),
     Key(2, Blank, "unique", <<1>>), Key(3, 21, "unique", <<1>>), Key(1, 21, "index", NoColumns)}

Reference(f, t, fk, tk, fc, tc) ==
    [fromTableId |-> f, toTableId |-> t, fromKeyId |-> fk, toKeyId |-> tk,
     fromColumns |-> fc, toColumns |-> tc]

MCReferenceValue ==
    {Reference(1, 2, 1, 2, NoColumns, NoColumns), Reference(1, 2, Blank, Blank, <<1>>, <<2>>),
     Reference(2, 3, Blank, 3, <<1>>, <<>>)}

MCCompositionValue == {<<1, 2>>}
=============================================================================
