----------------------------- MODULE MCOciClient ----------------------------
(***************************************************************************)
(* OciClient for TLC: two row structs that between them have every kind of *)
(* field, results described in the structs' order, in the other order,     *)
(* with a column missing, or not at all.                                   *)
(***************************************************************************)
EXTENDS OciClient

Field(n, k) == [name |-> n, kind |-> k]
Column(n, t) == [name |-> n, type |-> t]
MCRowTypes ==
    {<<Field("a", "int"), Field("b", "fixed")>>, <<Field("a", "lob"), Field("b", "opt")>>}
MCDescriptions ==
    {<<>>, <<Column("b", "CHR"), Column("a", "INT")>>, <<Column("a", "CLOB"), Column("b", "INT")>>,
     <<Column("c", "NUM"), Column("b", "CHR")>>}
MCBatchSizes == {1, 2}
=============================================================================
