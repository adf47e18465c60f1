------------------------------ MODULE OciClient -----------------------------
(***************************************************************************)
(* ideas/new/include/binding/details/oci_client.h: the calls a program     *)
(* makes on a connection.  A call builds its own statement, works through  *)
(* it in the steps below, and lets every handle go when it returns or when *)
(* the caller's callback throws.  A row type is a sequence of fields; what *)
(* a field of each kind needs is decided by Bind, Define and Apply.        *)
(***************************************************************************)
EXTENDS OciStatement, OciRows

CONSTANTS MaxRows,    \* most rows of an insert
          MaxBinds,   \* bound: binds of one direct use of a statement
          MaxFailures \* bound: simulated disconnects

ASSUME ClientAssumption == MaxRows \in Nat /\ MaxBinds \in Nat /\ MaxFailures \in Nat

VARIABLES mock,      \* the globals of oci_mock.h
          conn,      \* the connection's handles
          stmt,      \* the statement of the running call
          mem,       \* the batch, its staging vectors and its indicators
          job,       \* the running call and the step it is at
          delivered, \* the rows it handed to on_batch
          table,     \* the rows the database was given by an insert
          result     \* what the last call returned, and the rows it was given

vars == <<mock, conn, stmt, mem, job, delivered, table, result>>

NoJob == [op |-> "none", pc |-> "idle"]
Idle == job = NoJob
At(pc) == job.pc = pc

Init ==
    /\ mock = NewMock /\ conn = NewConnection
    /\ stmt = NewStatement /\ mem = FreshMem(0) /\ job = NoJob
    /\ delivered = <<>> /\ table = <<>>
    /\ result = [status |-> "none", op |-> "none", rows |-> 0]

----------------------------------------------------------------------------
(* The session.                                                            *)

Open ==
    /\ Idle /\ ~conn.connected
    /\ \E login \in {SUCCESS, 1, ERROR} :
           LET c == Connect(conn, mock, login) IN mock' = c.m /\ conn' = c.conn
    /\ UNCHANGED <<stmt, mem, job, delivered, table, result>>

Close ==
    /\ Idle /\ conn.connected
    /\ LET d == Disconnect(conn, mock) IN mock' = d.m /\ conn' = d.conn
    /\ UNCHANGED <<stmt, mem, job, delivered, table, result>>

SetFailure ==
    /\ Idle
    /\ \E mode \in Modes, n \in 0 .. MaxFailures, null \in BOOLEAN :
           mock' = SetSimulateNull(SetMode(mock, mode, n), null)
    /\ UNCHANGED <<conn, stmt, mem, job, delivered, table, result>>

----------------------------------------------------------------------------
(* The running call: it begins with a fresh statement and ends by dropping *)
(* it and its locators, in the reverse order of their construction.        *)

NewCall(first) == [pc |-> first, lobs |-> <<>>, outLobs |-> 0, positions |-> <<>>]

Begin(call, first) ==
    /\ Idle /\ conn.connected
    /\ \E total \in 0 .. RowCount :
         LET m == Answer(GuardNew(mock, "STMT"), total)
             p == Prepare(NewStatement, m, call.op)
         IN  IF call.op = "direct" THEN mock' = m /\ stmt' = NewStatement
             ELSE mock' = p.m /\ stmt' = p.s
    /\ job' = With(NewCall(first), call)
    /\ mem' = FreshMem(Len(call.row))
    /\ delivered' = <<>> /\ table' = <<>>
    /\ result' = [status |-> "running", op |-> call.op, rows |-> 0]
    /\ UNCHANGED conn

\* The locators the call still holds, those of the staging first: LobDrop for
\* each.
Locators(lobs, out) == [k \in 1 .. out |-> NewLob] \o lobs
DropLobs(m, lobs) ==
    LET drop[k \in 0 .. Len(lobs)] == IF k = 0 THEN m ELSE LobDrop(lobs[k], drop[k - 1])
    IN  drop[Len(lobs)]

Finish(m, status) ==
    /\ mock' = GuardDrop(DropLobs(m, Locators(job.lobs, job.outLobs)), "STMT", TRUE)
    /\ job' = NoJob /\ stmt' = NewStatement /\ mem' = FreshMem(0)
    /\ result' = [status |-> status, op |-> job.op,
                  rows |-> IF job.op = "insert" THEN job.rows ELSE 0]

\* What can be absent: an optional, and a text, which may be empty.
MayBeAbsent(field) == field.kind \in {"opt", "fixed"}
InputsOf(row) ==
    {i \in [1 .. Len(row) -> BOOLEAN] : \A f \in 1 .. Len(row) : MayBeAbsent(row[f]) \/ i[f]}

ExecuteSql == Begin([op |-> "execute", row |-> <<>>], "execute")

ExecuteParams ==
    \E row \in RowTypes : \E inputs \in InputsOf(row) :
        Begin([op |-> "execute", row |-> row, inputs |-> inputs], "bind")

SelectRows ==
    \E row \in RowTypes, size \in BatchSizes :
        Begin([op |-> "select_rows", row |-> row, size |-> size], "setPrefetch")

SelectRowsWhere ==
    \E row \in RowTypes, size \in BatchSizes : \E inputs \in InputsOf(row) :
        Begin([op |-> "select_rows", row |-> row, size |-> size, inputs |-> inputs], "bind")

\* Positional outputs and the rows of an insert have no optional and no LOB.
Plain == {row \in RowTypes : \A f \in 1 .. Len(row) : row[f].kind \in {"int", "fixed"}}

SelectOne == \E row \in Plain : Begin([op |-> "select", row |-> row], "outputs")

SelectGeneric ==
    \E size \in BatchSizes :
        Begin([op |-> "select_generic", row |-> <<>>, size |-> size], "setPrefetch")

\* No rows return at once and are no call.
InsertRows ==
    \E row \in Plain, n \in 1 .. MaxRows, size \in BatchSizes :
        Begin([op |-> "insert", row |-> row, rows |-> n, size |-> size,
               offset |-> 0, chunk |-> 0, address |-> 0], "bindArray")

Goto(pc) == job' = [job EXCEPT !.pc = pc]

----------------------------------------------------------------------------
(* Binding a struct's fields by name.                                      *)

\* An absent optional and an empty text are bound as NULL; a LOB is first made
\* a temporary one.
BoundIndicator(field, present) ==
    IF MayBeAbsent(field) /\ ~present THEN "null" ELSE "notnull"

BindOneParam(at, field, present) ==
    LET lob == LobNew(at.m)
        temp == LobTemporary(lob.lob, lob.m)
        m == IF field.kind = "lob" THEN temp.m ELSE at.m
        b == BindName(at.s, m, field.name, BoundIndicator(field, present), TRUE)
    IN  [s |-> b.s, m |-> b.m,
         lobs |-> IF field.kind = "lob" THEN Append(at.lobs, temp.lob) ELSE at.lobs]

BindParams(s, m, row, inputs) ==
    LET after[f \in 0 .. Len(row)] ==
            IF f = 0 THEN [s |-> s, m |-> m, lobs |-> <<>>]
            ELSE BindOneParam(after[f - 1], row[f], inputs[f])
    IN  after[Len(row)]

BindStep ==
    /\ At("bind")
    /\ LET b == BindParams(stmt, mock, job.row, job.inputs)
       IN  /\ stmt' = b.s /\ mock' = b.m
           /\ job' = [job EXCEPT !.lobs = b.lobs,
                                 !.pc = IF job.op = "execute" THEN "execute" ELSE "setPrefetch"]
    /\ UNCHANGED <<conn, mem, delivered, table, result>>

SetPrefetchStep ==
    /\ At("setPrefetch") /\ Goto("execute")
    /\ UNCHANGED <<mock, conn, stmt, mem, delivered, table, result>>

\* Every chunk is bound again, at its own first row.
ChunkOf(rows, offset, size) == IF size < rows - offset THEN size ELSE rows - offset

BindArrayFieldAtStart(offset) == 0                \* mutant: always the first row
BindArrayField(offset) == offset

BindArrays(m, fields) ==
    LET bind[f \in 0 .. fields] == IF f = 0 THEN m ELSE BindNameArray(stmt, bind[f - 1]).m
    IN  bind[fields]

BindArrayStep ==
    /\ At("bindArray") /\ mock' = BindArrays(mock, Len(job.row))
    /\ job' = [job EXCEPT !.chunk = ChunkOf(job.rows, job.offset, job.size),
                          !.address = BindArrayField(job.offset), !.pc = "execute"]
    /\ UNCHANGED <<conn, stmt, mem, delivered, table, result>>

----------------------------------------------------------------------------
(* Where a field's column goes.                                            *)

NeedsStaging(kind) == kind \in {"opt", "lob"}
HasIndicator(kind) == kind \in {"opt", "lob", "fixed"}

AreaOf(kind) == IF NeedsStaging(kind) THEN "stage" ELSE "batch"

DefineOneColumn(field, kind) ==
    [area |-> AreaOf(kind), field |-> field,
     type |-> TypeCode(kind), stride |-> 1, ind |-> HasIndicator(kind)]
DefinesOf(row) == [f \in 1 .. Len(row) |-> DefineOneColumn(f, row[f].kind)]

\* One define after another.
BindOutputs(m, positions, ds) ==
    LET after[f \in 0 .. Len(ds)] ==
            IF f = 0 THEN m ELSE BindOutput(after[f - 1], positions[f], ds[f])
    IN  after[Len(ds)]

DefineColumns(m, row, positions) == BindOutputs(m, positions, DefinesOf(row))

\* A locator for each row of the batch, for each LOB column.
StagedLobs(row, size) == size * Cardinality({f \in 1 .. Len(row) : row[f].kind = "lob"})

ResolveColumnPositions(m, row) ==
    IF ParamCount(m) = 0 THEN [f \in 1 .. Len(row) |-> f]
    ELSE [f \in 1 .. Len(row) |-> DescribeColumnPosition(m, row[f].name)]

DefineStep ==
    /\ At("define") /\ job.op = "select_rows"
    /\ LET positions == ResolveColumnPositions(mock, job.row)
           defined == DefineColumns(mock, job.row, positions)
           staged == StagedLobs(job.row, job.size)
       IN  IF \E f \in DOMAIN positions : positions[f] = 0
           THEN Finish(mock, "QueryError") /\ UNCHANGED <<conn, delivered, table>>
           ELSE /\ mock' = [defined EXCEPT !.live["LOB"] = @ + staged]
                /\ job' = [job EXCEPT !.positions = positions, !.outLobs = staged, !.pc = "fetch"]
                /\ UNCHANGED <<conn, stmt, mem, delivered, table, result>>

\* select_generic() defines what is described, and refuses a LOB before any
\* fetch.
DefineGenericStep ==
    /\ At("define") /\ job.op = "select_generic"
    /\ LET columns == DescribeColumns(mock)
           positions == [p \in 1 .. Len(columns) |-> p]
           defines == [p \in 1 .. Len(columns) |->
                          [area |-> "batch", field |-> p, type |-> columns[p].type,
                           stride |-> 1, ind |-> TRUE]]
       IN  IF \E p \in DOMAIN columns : columns[p].type = "CLOB"
           THEN Finish(mock, "QueryError") /\ UNCHANGED <<conn, delivered, table>>
           ELSE /\ mock' = BindOutputs(mock, positions, defines)
                /\ mem' = FreshMem(Len(columns))
                /\ job' = [job EXCEPT !.positions = positions, !.pc = "fetch"]
                /\ UNCHANGED <<conn, stmt, delivered, table, result>>

\* The outputs of select() are the caller's own variables, without a stride.
DefineOnePositionalOutput(f, kind) ==
    [area |-> "batch", field |-> f, type |-> TypeCode(kind), stride |-> 0,
     ind |-> kind = "fixed"]

OutputsStep ==
    /\ At("outputs")
    /\ mock' = BindOutputs(mock, [f \in 1 .. Len(job.row) |-> f],
                   [f \in 1 .. Len(job.row) |-> DefineOnePositionalOutput(f, job.row[f].kind)])
    /\ Goto("execute")
    /\ UNCHANGED <<conn, stmt, mem, delivered, table, result>>

----------------------------------------------------------------------------
(* Execution.                                                              *)

Iters ==
    CASE job.op \in {"execute", "select"} -> 1
      [] job.op = "insert" -> job.chunk
      [] OTHER -> 0

\* The database stores the rows the array bind points it at.
Stored(address, n) == [k \in 1 .. n |-> IF address + k <= job.rows THEN address + k ELSE NoValue]

\* Text outputs that came back NULL are emptied, unless no row came back.
ApplyPositionalOutputs(memory, status) ==
    IF status = NO_DATA THEN memory
    ELSE [memory EXCEPT !.batch = [f \in DOMAIN memory.batch |-> [s \in Slots |->
             IF s = 0 /\ job.row[f].kind = "fixed" /\ memory.ind[f][0] = "null"
             THEN NoValue ELSE memory.batch[f][s]]]]

\* A database may fail any execute, that of a later chunk of an insert too.
DatabaseFails ==
    /\ At("execute") \/ At("direct")
    /\ \E mode \in Modes \ {"None"} : mock' = FailNext(mock, mode)
    /\ UNCHANGED <<conn, stmt, mem, job, delivered, table, result>>

\* Of a chunk that fails, the database may have stored the first rows, and all of
\* them when only the answer was lost.
ExecuteFails(e) ==
    /\ e.result.status # "Success" /\ Finish(e.m, e.result.status)
    /\ \/ UNCHANGED table
       \/ job.op = "insert" /\ \E n \in 1 .. job.chunk : table' = table \o Stored(job.address, n)
    /\ UNCHANGED <<conn, delivered>>

ExecuteStep ==
    /\ At("execute") /\ RequireState(stmt, "execute")
    /\ \E columns \in IF job.op \in {"select_rows", "select_generic"} THEN Descriptions ELSE {<<>>} :
         LET e == Execute(stmt, conn, mock, mem, Iters)
         IN  \/ ExecuteFails(e)
             \/ /\ e.result.status = "Success" /\ Iters = 0
                /\ stmt' = e.s /\ mem' = e.mem /\ mock' = Describe(e.m, columns)
                /\ Goto("define")
                /\ UNCHANGED <<conn, delivered, table, result>>
             \/ /\ e.result.status = "Success" /\ job.op \in {"execute", "select"}
                /\ Finish(e.m, "Success")
                /\ delivered' = IF job.op = "select" /\ RowsFetched(e.m) > 0
                                THEN LET out == ApplyPositionalOutputs(e.mem, e.result.call.status)
                                     IN  <<[f \in DOMAIN out.batch |-> out.batch[f][0]]>>
                                ELSE delivered
                /\ UNCHANGED <<conn, table>>

InsertChunkStep ==
    /\ At("execute") /\ job.op = "insert" /\ RequireState(stmt, "execute")
    /\ LET e == Execute(stmt, conn, mock, mem, Iters)
           next == job.offset + job.size
       IN  /\ e.result.status = "Success"
           /\ table' = table \o Stored(job.address, job.chunk)
           /\ IF next < job.rows
              THEN /\ job' = [job EXCEPT !.offset = next, !.pc = "bindArray"]
                   /\ stmt' = e.s /\ mock' = e.m
                   /\ UNCHANGED <<mem, result>>
              ELSE Finish(e.m, "Success")
    /\ UNCHANGED <<conn, delivered>>

----------------------------------------------------------------------------
(* Fetching, one batch at a time.                                          *)

\* What a field of the batch reads as once the row is applied.
ApplyOneColumnDirect(memory, f, kind, s) ==       \* mutant: indicator not read
    IF NeedsStaging(kind) THEN memory.stage[f][s] ELSE memory.batch[f][s]
ApplyOneColumn(memory, f, kind, s) ==
    CASE HasIndicator(kind) /\ memory.ind[f][s] = "null" -> NoValue
      [] kind = "opt" /\ memory.ind[f][s] # "null" -> memory.stage[f][s]
      [] kind = "lob" /\ memory.ind[f][s] # "null" -> LobRead(memory.stage[f][s])
      [] OTHER -> memory.batch[f][s]

NeedsApply(row) == \E f \in DOMAIN row : HasIndicator(row[f].kind)

\* The applied values are stored in the batch, which the next batch reuses.
ApplyColumns(memory, row, n) ==
    IF ~NeedsApply(row) THEN memory
    ELSE [memory EXCEPT !.batch = [f \in DOMAIN memory.batch |-> [s \in Slots |->
             IF s < n THEN ApplyOneColumn(memory, f, row[f].kind, s) ELSE memory.batch[f][s]]]]

FetchLostStep ==
    /\ At("fetch")
    /\ LET lost == Fetch(stmt, conn, FetchLost(mock, mem))
       IN  Finish(lost.m, lost.result.status)
    /\ UNCHANGED <<conn, delivered, table>>

\* A fetch, its rows applied and handed to on_batch; the status of the fetch
\* is what ends the loop.
LastBatch(e) == e.result.call.status = NO_DATA

Delivered(e) ==
    LET applied == IF job.op = "select_rows" THEN ApplyColumns(e.mem, job.row, RowsFetched(e.m))
                   ELSE e.mem
    IN  [mem |-> applied, rows |-> BatchRows(applied, RowsFetched(e.m))]

FetchStep ==
    /\ At("fetch") /\ RequireState(stmt, "fetch")
    /\ LET e == Fetch(stmt, conn, StmtFetch2(mock, mem, job.size))
           d == Delivered(e)
       IN  /\ delivered' = delivered \o d.rows
           /\ IF LastBatch(e) THEN Finish(e.m, e.result.status)
              ELSE /\ stmt' = e.s /\ mock' = e.m /\ mem' = d.mem
                   /\ UNCHANGED <<job, result>>
    /\ UNCHANGED <<conn, table>>

\* on_batch throws: the rows it was handed stay handed over, the call ends.
CallbackThrows ==
    /\ At("fetch") /\ delivered # <<>>
    /\ Finish(mock, "thrown")
    /\ UNCHANGED <<conn, delivered, table>>

----------------------------------------------------------------------------
(* A program may also use a statement itself, in any order of calls: the   *)
(* calls its state does not take throw and change nothing.                 *)

DirectUse == Begin([op |-> "direct", row |-> <<[name |-> "a", kind |-> "opt"]>>], "direct")

Direct(call) == job.op = "direct" /\ RequireState(stmt, call)

DirectPrepare ==
    /\ Direct("prepare")
    /\ LET p == Prepare(stmt, mock, "direct") IN stmt' = p.s /\ mock' = p.m
    /\ UNCHANGED <<conn, mem, job, delivered, table, result>>

DirectBind ==
    /\ Direct("bind") /\ Len(mock.inds) < MaxBinds
    /\ \E ind \in {"null", "notnull"} :
         LET b == BindName(stmt, mock, "a", ind, TRUE)
         IN  stmt' = b.s /\ mock' = b.m
    /\ UNCHANGED <<conn, mem, job, delivered, table, result>>

DirectOutput ==
    /\ Direct("output")
    /\ \E position \in 1 .. 2, stride \in 0 .. 1 :
         mock' = BindOutput(mock, position, [DefineOneColumn(1, "opt") EXCEPT !.stride = stride])
    /\ UNCHANGED <<conn, stmt, mem, job, delivered, table, result>>

DirectExecute ==
    /\ Direct("execute")
    /\ \E iters \in 0 .. MaxBatch :
         LET e == Execute(stmt, conn, mock, mem, iters)
         IN  stmt' = e.s /\ mock' = e.m /\ mem' = e.mem
    /\ UNCHANGED <<conn, job, delivered, table, result>>

DirectFetch ==
    /\ Direct("fetch")
    /\ \E n \in BatchSizes :
         LET e == Fetch(stmt, conn, StmtFetch2(mock, mem, n))
         IN  stmt' = e.s /\ mock' = e.m /\ mem' = e.mem
    /\ UNCHANGED <<conn, job, delivered, table, result>>

DirectEnd ==
    /\ job.op = "direct" /\ Finish(mock, "dropped")
    /\ UNCHANGED <<conn, delivered, table>>

Next ==
    \/ Open \/ Close \/ SetFailure
    \/ ExecuteSql \/ ExecuteParams \/ SelectRows \/ SelectRowsWhere \/ SelectOne
    \/ SelectGeneric \/ InsertRows \/ DirectUse
    \/ BindStep \/ SetPrefetchStep \/ BindArrayStep
    \/ DefineStep \/ DefineGenericStep \/ OutputsStep
    \/ ExecuteStep \/ InsertChunkStep \/ DatabaseFails
    \/ FetchStep \/ FetchLostStep \/ CallbackThrows
    \/ DirectPrepare \/ DirectBind \/ DirectOutput \/ DirectExecute \/ DirectFetch \/ DirectEnd

Spec == Init /\ [][Next]_vars

----------------------------------------------------------------------------
(* Properties.                                                             *)

\* The column a field is to come from, by the description of the columns.
ColumnFor(row, f) ==
    IF mock.columns = <<>> THEN f
    ELSE CHOOSE p \in DOMAIN mock.columns :
             /\ mock.columns[p].name = row[f].name
             /\ \A q \in 1 .. p - 1 : mock.columns[q].name # row[f].name

\* Every row that select_rows() hands over, those of a short last batch too, is the
\* next row of the result: each field holds its own column's value in that row, or
\* reads as absent where the column is NULL, and never what the reused batch held
\* before (run_select_fetch_loop, apply_one_column).
RowsSent ==
    job.op = "select_rows" =>
        \A k \in Len(delivered) + 1 .. Len(delivered') : \A f \in DOMAIN job.row :
            LET p == ColumnFor(job.row, f)
                null == mock.nullLast /\ (k - 1) % 2 = 1 /\ p = Len(mock.defines)
            IN  IF null THEN HasIndicator(job.row[f].kind) => delivered'[k][f] = NoValue
                ELSE delivered'[k][f] = <<k - 1, p>>
RowsAsSent == [][RowsSent]_vars

\* A call that reports success has done all of its work: a select handed over
\* every row of the result, an insert stored every row once and in order; one
\* that fails, in whichever chunk, stored rows of its own from the front and none
\* twice (insert_rows, the fetch loop's exit).
SuccessIsComplete ==
    /\ result.status = "Success" /\ result.op \in {"select_rows", "select_generic"}
           => Len(delivered) = mock.total
    /\ result.status = "Success" /\ result.op = "insert" => Len(table) = result.rows
    /\ \A k \in DOMAIN table : table[k] = k

\* Every handle, locator and temporary LOB is freed once, before the
\* environment it came from, and none is left when no call runs, whatever the
\* call returned or the callback threw (OciHandleGuard, OCILob, disconnect).
NothingOutlivesItsEnv ==
    /\ ~mock.misused
    /\ Idle => /\ \A k \in {"STMT", "LOB", "TEMP"} : mock.live[k] = 0
               /\ \A k \in {"ENV", "ERROR", "SVC"} :
                      mock.live[k] = IF conn.connected THEN 1 ELSE 0

----------------------------------------------------------------------------
\* The inductive invariant behind the last two.

\* The fields of a call that runs, and the steps of each operation.
JobFields == {"op", "pc", "row", "lobs", "outLobs", "positions"}
Steps ==
    [execute |-> {"bind", "execute"},
     select_rows |-> {"bind", "setPrefetch", "execute", "define", "fetch"},
     select |-> {"outputs", "execute"},
     select_generic |-> {"setPrefetch", "execute", "define", "fetch"},
     insert |-> {"bindArray", "execute"},
     direct |-> {"direct"}]
JobOK ==
    \/ Idle
    \/ /\ JobFields \subseteq DOMAIN job
       /\ job.op \in DOMAIN Steps /\ job.pc \in Steps[job.op]
       /\ job.row \in RowTypes \cup {<<>>, <<[name |-> "a", kind |-> "opt"]>>}
       /\ job.op \in {"select_rows", "select_generic", "insert"} =>
             "size" \in DOMAIN job /\ job.size \in BatchSizes
       /\ job.op = "insert" =>
             {"rows", "offset", "chunk", "address"} \subseteq DOMAIN job

\* Who holds which handle: the connection its three, a call its statement and
\* its locators, of which those bound each have a temporary LOB.
TempLob == [locator |-> TRUE, temporary |-> TRUE]
Session == {"ENV", "ERROR", "SVC"}
HandleInv ==
    /\ ~mock.misused
    /\ conn \in {NewConnection, [env |-> TRUE, err |-> TRUE, svc |-> TRUE, connected |-> TRUE]}
    /\ \A k \in Session : mock.live[k] = IF conn.connected THEN 1 ELSE 0
    /\ Idle => \A k \in Kinds \ Session : mock.live[k] = 0
    /\ ~Idle => /\ conn.connected
                /\ job.lobs \in Seq({TempLob}) /\ (At("bind") => job.lobs = <<>>)
                /\ job.outLobs \in Nat /\ (~At("fetch") => job.outLobs = 0)
                /\ mock.live["STMT"] = 1 /\ mock.live["TEMP"] = Len(job.lobs)
                /\ mock.live["LOB"] = Len(job.lobs) + job.outLobs

\* How far a call is: a select has handed over the rows before the cursor, an
\* insert has stored the rows before its offset.
Storing ==
    /\ job.rows \in Nat /\ job.offset \in Nat /\ job.offset < job.rows
    /\ Len(table) = job.offset
    /\ At("execute") => /\ job.address = job.offset
                        /\ job.chunk = ChunkOf(job.rows, job.offset, job.size)
Selecting == job.op \in {"select_rows", "select_generic"}
ProgressInv ==
    /\ IsSeq(delivered) /\ IsSeq(table)
    /\ ~Idle => result.status = "running"
    /\ Selecting => mock.row \in 0 .. mock.total /\ Len(delivered) = mock.row
    /\ job.op = "insert" => Storing
    /\ SuccessIsComplete

ClientInv == MockOK(mock) /\ JobOK /\ HandleInv /\ ProgressInv

\* What RowsAsSent needs beside it.  Every field of the struct has the memory of a
\* whole batch; when rows are fetched, the column of its name goes there and nothing
\* else does.
RowsInv ==
    job.op = "select_rows" =>
        /\ Cells(mem, Len(job.row))
        /\ ~At("fetch") => mock.defines = <<>>
        /\ At("fetch") => /\ Placed(mock.defines, DefinesOf(job.row), job.positions)
                          /\ \A f \in 1 .. Len(job.row) : job.positions[f] = ColumnFor(job.row, f)
=============================================================================
