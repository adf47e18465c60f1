--------------------------- MODULE MCBindingClient --------------------------
(***************************************************************************)
(* BindingClient for TLC: two row structs with every kind of field between *)
(* them, columns in either order, one missing, or none described; moments  *)
(* around noon, midnight and the turns of the century.                     *)
(***************************************************************************)
EXTENDS BindingClient

Field(n, k) == [name |-> n, kind |-> k]
Column(n) == [name |-> n, type |-> "INT"]
MCRowTypes ==
    {<<Field("a", "int"), Field("b", "fixed")>>, <<Field("a", "lob"), Field("b", "opt")>>}
MCDescriptions == {<<>>, <<Column("b"), Column("a")>>, <<Column("c"), Column("b")>>}
MCBatchSizes == {1, 2}
MCMoments ==
    [year : {1949, 1976, 2026, 2075}, month : {1, 12}, day : {9, 31},
     hour : {0, 11, 12, 23}, minute : {0, 59}, second : {5}]
MCFormats ==
    {<<>>,
     <<"Y", "Y", "Y", "Y", "M", "M", "D", "D", " ", "H", "H", "2", "4", ":", "M", "I", ":", "S", "S">>,
     <<"D", "D", "/", "M", "M", "/", "Y", "Y", "Y", "Y">>,
     <<"H", "H", "1", "2", ":", "M", "I", "P", "M", "D", "D", "M", "O", "N", "R", "R">>}
=============================================================================
