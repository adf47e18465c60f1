------------------------------- MODULE OciRows ------------------------------
(***************************************************************************)
(* What the clients of ideas/new and ideas/binding share: the structs they *)
(* walk as rows and the batch of rows a fetch fills.  A struct is a        *)
(* sequence of fields, a field its name, in upper case, and its kind.  The *)
(* memory of a call is a cell for each field and slot of the batch, of the *)
(* staging the batch's own storage cannot serve for, and of indicators.    *)
(***************************************************************************)
EXTENDS OciMock, FiniteSets

Kind == {"int", "opt", "fixed", "lob"}

CONSTANTS RowTypes,  \* row structs: sequences of [name, kind]
          BatchSizes \* values of fetch_batch_size and chunk_size

ASSUME RowsAssumption ==
    /\ RowTypes \subseteq Seq([name : STRING, kind : Kind])
    /\ \A row \in RowTypes : \A f, g \in DOMAIN row : row[f].name = row[g].name => f = g
    /\ BatchSizes \subseteq Nat \ {0} /\ \E b \in BatchSizes : \A c \in BatchSizes : c <= b

TypeCode(kind) ==
    CASE kind \in {"int", "opt"} -> "INT"
      [] kind = "fixed" -> "CHR"
      [] kind = "lob" -> "CLOB"

MaxBatch == CHOOSE b \in BatchSizes : \A c \in BatchSizes : c <= b
Slots == 0 .. MaxBatch - 1
FreshMem(n) ==
    [batch |-> [f \in 1 .. n |-> [s \in Slots |-> NoValue]],
     stage |-> [f \in 1 .. n |-> [s \in Slots |-> NoValue]],
     ind |-> [f \in 1 .. n |-> [s \in Slots |-> "notnull"]]]

\* The n rows a batch holds, as on_batch is handed them.
BatchRows(memory, n) == [k \in 1 .. n |-> [f \in DOMAIN memory.batch |-> memory.batch[f][k - 1]]]

\* A call's record is its arguments and where the call is.
With(f, g) == [x \in DOMAIN f \cup DOMAIN g |-> IF x \in DOMAIN g THEN g[x] ELSE f[x]]

----------------------------------------------------------------------------
IsSeq(s) == s \in Seq({s[i] : i \in DOMAIN s})

\* Every field has the memory of a whole batch.
Cells(memory, n) ==
    /\ DOMAIN memory = {"batch", "stage", "ind"}
    /\ \A a \in {"batch", "stage", "ind"} :
         DOMAIN memory[a] = 1 .. n /\ \A f \in 1 .. n : DOMAIN memory[a][f] = Slots

\* Each field's define `wants` stands at the field's position, with a stride from row
\* to row, and no other position has an address.
DefinedAs(d, want) ==
    /\ d.area = want.area /\ d.field = want.field /\ d.type = want.type /\ d.ind = want.ind
    /\ d.stride = 1
Placed(defines, wants, positions) ==
    /\ \A f \in DOMAIN wants :
         positions[f] \in DOMAIN defines /\ DefinedAs(defines[positions[f]], wants[f])
    /\ \A p \in DOMAIN defines :
         defines[p].area # "none" => \E f \in DOMAIN wants : p = positions[f]
=============================================================================
