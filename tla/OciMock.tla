------------------------------- MODULE OciMock ------------------------------
(***************************************************************************)
(* ideas/new/include/binding/oci_mock.h: the OCI entry points the library  *)
(* calls, over one set of globals shared by every statement.  An operator  *)
(* is one entry point: it takes the globals m (and the client's memory)    *)
(* and gives them back as the call leaves them.  Handles and descriptors   *)
(* are counted, which OCI does and the mock, whose handles are all the     *)
(* pointer 1, leaves out; a column's value is the pair <<row, position>>.  *)
(* What a database adds to the mock is external: it describes the columns  *)
(* of a result, and it may refuse an execute or lose the session at any    *)
(* point of a call.                                                        *)
(***************************************************************************)
EXTENDS Integers, Sequences

CONSTANTS RowCount,     \* MOCK_ROW_COUNT: the rows of a query's result
          Descriptions, \* the columns a database may describe; <<>>: the mock
          NoValue       \* storage never written, or an absent value

ASSUME RowCountAssumption == RowCount \in Nat
ASSUME DescriptionsAssumption == Descriptions \subseteq Seq([name : STRING, type : STRING])

Kinds == {"ENV", "ERROR", "SVC", "STMT", "LOB", "TEMP"}
Modes == {"None", "ExecErrorAlways", "DisconnectThenRecover"}

\* The codes the library compares call results with.
SUCCESS == 0
NO_DATA == 100
ERROR == -1

NewMock ==
    [mode |-> "None", left |-> 0, nullLast |-> FALSE, total |-> RowCount,
     defines |-> <<>>, row |-> 0, fetched |-> 0, iters |-> 0,
     inds |-> <<>>, state |-> "INITIALIZED", columns |-> <<>>,
     live |-> [k \in Kinds |-> 0], misused |-> FALSE]

SetMode(m, mode, count) == [m EXCEPT !.mode = mode, !.left = count]
SetSimulateNull(m, enabled) == [m EXCEPT !.nullLast = enabled]

----------------------------------------------------------------------------
(* Handles and descriptors: what is allocated must be freed once, before   *)
(* the environment it was allocated from.                                  *)

HandleAlloc(m, kind) == [m EXCEPT !.live[kind] = @ + 1]

HandleFree(m, kind) ==
    [m EXCEPT !.live[kind] = IF @ = 0 THEN 0 ELSE @ - 1,
              !.misused = @ \/ m.live[kind] = 0
                            \/ \E k \in Kinds \ {"ENV"} :
                                   kind = "ENV" /\ m.live[k] > 0]

EnvCreate(m) == HandleAlloc(m, "ENV")
Logon2(m) == HandleAlloc(m, "SVC")
Logoff(m) == HandleFree(m, "SVC")

DescriptorAlloc(m) == HandleAlloc(m, "LOB")
DescriptorFree(m) == HandleFree(m, "LOB")
LobCreateTemporary(m) == HandleAlloc(m, "TEMP")
LobFreeTemporary(m) == HandleFree(m, "TEMP")

----------------------------------------------------------------------------
(* Statements: one cursor, one list of defines and one state for all.      *)

StmtPrepare(m) ==
    [m EXCEPT !.defines = <<>>, !.row = 0, !.inds = <<>>,
              !.state = "INITIALIZED", !.columns = <<>>]

BindByName(m, ind) == [m EXCEPT !.inds = Append(@, ind)]

BindByPos(m, position, ind) ==
    LET n == IF Len(m.inds) < position THEN position ELSE Len(m.inds)
    IN  [m EXCEPT !.inds = [p \in 1 .. n |->
             IF p = position THEN ind
             ELSE IF p \in DOMAIN m.inds THEN m.inds[p] ELSE "notnull"]]

NoDefine == [area |-> "none", field |-> 0, type |-> "none", stride |-> 0, ind |-> FALSE]

\* The columns before a new position that nobody defined yet stay without an
\* address.
DefineByPos(m, position, d) ==
    LET n == IF Len(m.defines) < position THEN position ELSE Len(m.defines)
    IN  [m EXCEPT !.defines = [p \in 1 .. n |->
             IF p = position THEN [d EXCEPT !.stride = 0]
             ELSE IF p \in DOMAIN m.defines THEN m.defines[p] ELSE NoDefine]]

DefineArrayOfStruct(m, position, stride) ==
    IF position \in DOMAIN m.defines
    THEN [m EXCEPT !.defines[position].stride = stride] ELSE m

RowsFetched(m) == m.fetched
ParamCount(m) == Len(m.columns)
StmtState(m) == m.state

\* The types a fetched value is written for; any other column keeps what its
\* buffer held.
Written == {"INT", "UIN", "BDOUBLE", "CHR", "CLOB", "BLOB", "ODT"}

\* One row into batch slot `slot` of every defined column.  A NULL sets the
\* indicator, when there is one, and leaves the value alone.
GenerateRow(m, mem, slot) ==
    LET defined == {p \in DOMAIN m.defines : m.defines[p].area # "none"}
        null(p) == m.nullLast /\ m.row % 2 = 1 /\ p = Len(m.defines)
        at(a, f, s) == {p \in defined : /\ m.defines[p].area = a
                                        /\ m.defines[p].field = f
                                        /\ s = slot * m.defines[p].stride}
        value(a, f, s) ==
            LET ps == {p \in at(a, f, s) : ~null(p) /\ m.defines[p].type \in Written}
            IN  IF ps = {} THEN mem[a][f][s] ELSE <<m.row, CHOOSE p \in ps : TRUE>>
        indicator(f, s) ==
            LET ps == {p \in at("batch", f, s) \union at("stage", f, s) : m.defines[p].ind}
            IN  IF ps = {} THEN mem.ind[f][s]
                ELSE IF \E p \in ps : null(p) THEN "null" ELSE "notnull"
    IN  [batch |-> [f \in DOMAIN mem.batch |->
                       [s \in DOMAIN mem.batch[f] |-> value("batch", f, s)]],
         stage |-> [f \in DOMAIN mem.stage |->
                       [s \in DOMAIN mem.stage[f] |-> value("stage", f, s)]],
         ind |-> [f \in DOMAIN mem.ind |->
                       [s \in DOMAIN mem.ind[f] |-> indicator(f, s)]]]

\* Up to n more rows, one slot each, as the memory they leave.
RowsInto(m, mem, n) ==
    LET left == m.total - m.row
        rows == IF n < left THEN n ELSE left
        after[k \in 0 .. rows] ==
            IF k = 0 THEN mem
            ELSE GenerateRow([m EXCEPT !.row = m.row + k - 1], after[k - 1], k - 1)
    IN  [rows |-> rows, mem |-> after[rows]]

\* The call that returns the last row reports NO_DATA itself.
FetchRows(m, mem, n) ==
    LET got == RowsInto(m, mem, n)
        end == m.row + got.rows >= m.total
    IN  [rc |-> IF end THEN NO_DATA ELSE SUCCESS,
         m |-> [m EXCEPT !.row = m.row + got.rows, !.fetched = got.rows,
                         !.state = IF end THEN "END_OF_FETCH" ELSE "EXECUTED"],
         mem |-> got.mem]

\* A failing execute changes nothing of the statement; one that is asked for
\* rows and has defines fetches them.
StmtExecute(m, mem, iters) ==
    LET called == [m EXCEPT !.iters = iters]
        failed(mm) == [rc |-> ERROR, m |-> mm, mem |-> mem]
    IN  IF m.mode = "ExecErrorAlways" THEN failed(called)
        ELSE IF m.mode = "DisconnectThenRecover" /\ m.left > 0
        THEN failed([called EXCEPT !.left = m.left - 1])
        ELSE IF iters > 0 /\ m.defines # <<>> THEN FetchRows(called, mem, iters)
        ELSE [rc |-> SUCCESS, m |-> [called EXCEPT !.state = "EXECUTED"], mem |-> mem]

StmtFetch2(m, mem, n) == FetchRows(m, mem, n)

\* The error code OCIErrorGet reports: it follows the mode, so it is still the
\* disconnect's after the last simulated disconnect.
ErrorGet(m) ==
    CASE m.mode = "DisconnectThenRecover" -> 3113
      [] m.mode = "ExecErrorAlways" -> 1
      [] OTHER -> 0

\* A database describes the columns of an executed query, and it may have
\* fewer rows for it; the mock describes none.
Describe(m, columns) == [m EXCEPT !.columns = columns]
Answer(m, total) == [m EXCEPT !.total = total]

\* A database may refuse the next execute, or lose the session before it.
FailNext(m, mode) == SetMode(m, mode, 1)

\* It may lose the session in a fetch: nothing is written.
FetchLost(m, mem) ==
    [rc |-> ERROR, m |-> [m EXCEPT !.mode = "DisconnectThenRecover"], mem |-> mem]

----------------------------------------------------------------------------
\* The globals have their fields, whatever entry point was called.
MockOK(m) ==
    /\ DOMAIN m = DOMAIN NewMock
    /\ m.live \in [Kinds -> Nat] /\ m.misused \in BOOLEAN
    /\ m.mode \in Modes /\ m.left \in Nat /\ m.total \in 0 .. RowCount
    /\ m.row \in Int /\ m.fetched \in Int
    /\ m.columns \in Descriptions \cup {<<>>}
=============================================================================
