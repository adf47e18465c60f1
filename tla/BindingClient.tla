---------------------------- MODULE BindingClient ---------------------------
(***************************************************************************)
(* ideas/binding: the earlier OCI client, which frees every handle by hand *)
(* and leaves a lost session to its caller, who disconnects, connects and  *)
(* makes the same call again (README, "What's deliberately not in this     *)
(* pass"; examples/main.cpp, Demo 7).  The model is that caller over the   *)
(* calls of details/oci_client.h and details/oci_connection.h, and the     *)
(* conversions of dates to and from text.                                  *)
(***************************************************************************)
EXTENDS OciRows, OciDate

CONSTANTS MaxRows,   \* rows of an insert; without any it returns at once
          MaxLosses, \* bound: how often the session is lost
          Moments,   \* values converted to text
          Formats    \* format models, <<>> for the default

ASSUME BindingAssumption == MaxRows \in Nat \ {0} /\ MaxLosses \in Nat

VARIABLES mock,      \* the globals of oci_mock.h
          conn,      \* the handles of the OciConnection
          job,       \* the caller's call and the step it is at
          mem,       \* the batch, its staging arrays and its indicators
          delivered, \* rows handed to on_batch since the caller began
          table,     \* rows the database was given since then
          losses,    \* how often the session was lost
          leaked,    \* TRUE once a callback's exception left a call
          result     \* what the last call returned, and where the rows of the
                     \* last attempt begin

vars == <<mock, conn, job, mem, delivered, table, losses, leaked, result>>

NoJob == [op |-> "none", pc |-> "idle"]
Idle == job = NoJob
At(pc) == job.pc = pc

NoConnection == [env |-> FALSE, err |-> FALSE, svc |-> FALSE]
NoResult == [status |-> "none", op |-> "none", from |-> 0]

Init ==
    /\ mock = NewMock /\ conn = NoConnection /\ job = NoJob /\ mem = FreshMem(0)
    /\ delivered = <<>> /\ table = <<>> /\ losses = 0 /\ leaked = FALSE
    /\ result = NoResult

----------------------------------------------------------------------------
(* details/oci_connection.h                                                *)

FreeIf(m, kind, held) == IF held THEN HandleFree(m, kind) ELSE m

DisconnectAll(m, c) ==
    LET off == IF c.svc /\ c.err THEN Logoff(m) ELSE m
    IN  FreeIf(FreeIf(off, "ERROR", c.err), "ENV", c.env)

\* Any login that is not a success, with or without a message, gives up what
\* was made for it.
ConnectTo(m, login) ==
    LET env == HandleAlloc(EnvCreate(m), "ERROR")
        opened == [env |-> TRUE, err |-> TRUE, svc |-> FALSE]
    IN  IF login \in {SUCCESS, 1} THEN [m |-> Logon2(env), conn |-> [opened EXCEPT !.svc = TRUE]]
        ELSE [m |-> DisconnectAll(env, opened), conn |-> NoConnection]

LostCodes == {28, 1012, 2396, 3113, 3114, 3135, 12153, 12537, 12571, 25408}

\* Without an error handle there is no session either.
IsDisconnectError(m) == ~conn.err \/ ErrorGet(m) \in LostCodes

\* Only SUCCESS and NO_DATA are successes here.
Classify(m, rc) ==
    CASE rc \in {SUCCESS, NO_DATA} -> "Success"
      [] rc \notin {SUCCESS, NO_DATA} /\ IsDisconnectError(m) -> "ConnectionLost"
      [] OTHER -> "QueryError"

----------------------------------------------------------------------------
(* Binding and defining.                                                   *)

MakeTempLob(m) == LobCreateTemporary(DescriptorAlloc(m))
FreeTempLob(m) == DescriptorFree(LobFreeTemporary(m))

\* Only an optional is ever bound as NULL: an empty text is not.
BindOneParam(m, field, present) ==
    IF field.kind = "lob" THEN BindByName(MakeTempLob(m), "notnull")
    ELSE BindByName(m, IF field.kind = "opt" /\ ~present THEN "null" ELSE "notnull")

BindParams(m, row, inputs) ==
    LET after[f \in 0 .. Len(row)] ==
            IF f = 0 THEN m ELSE BindOneParam(after[f - 1], row[f], inputs[f])
    IN  after[Len(row)]

LobFields(row) == Cardinality({f \in 1 .. Len(row) : row[f].kind = "lob"})

\* A field's column by name, the last of several with that name; without a
\* description, its place in the struct.
ResolveColumnPositions(row) ==
    LET named(f) == {p \in 1 .. ParamCount(mock) : mock.columns[p].name = row[f].name}
        last(ps) == CHOOSE p \in ps : \A q \in ps : q <= p
    IN  [f \in 1 .. Len(row) |->
            IF ParamCount(mock) = 0 THEN f ELSE IF named(f) = {} THEN 0 ELSE last(named(f))]

\* An optional and a LOB have staging of their own and an indicator; a plain
\* field has neither.
Staged(kind) == kind \in {"opt", "lob"}
ColumnDefine(f, kind) ==
    [area |-> IF Staged(kind) THEN "stage" ELSE "batch", field |-> f,
     type |-> TypeCode(kind), stride |-> 0, ind |-> Staged(kind)]
DefinesOf(row) == [f \in 1 .. Len(row) |-> ColumnDefine(f, row[f].kind)]

DefineOneColumnUnstrided(m, f, kind, position) == \* mutant: no stride
    DefineByPos(m, position, ColumnDefine(f, kind))
DefineOneColumn(m, f, kind, position) ==
    DefineArrayOfStruct(DefineByPos(m, position, ColumnDefine(f, kind)), position, 1)

DefineColumns(m, row, positions) ==
    LET after[f \in 0 .. Len(row)] ==
            IF f = 0 THEN m ELSE DefineOneColumn(after[f - 1], f, row[f].kind, positions[f])
    IN  after[Len(row)]

\* select()'s outputs: one row, no stride and no indicator.
DefinePositionalOutputs(m, row) ==
    LET after[f \in 0 .. Len(row)] ==
            IF f = 0 THEN m
            ELSE DefineByPos(after[f - 1], f, [area |-> "batch", field |-> f,
                     type |-> TypeCode(row[f].kind), stride |-> 0, ind |-> FALSE])
    IN  after[Len(row)]

ApplyOneColumn(memory, f, kind, s) ==
    IF ~Staged(kind) THEN memory.batch[f][s]
    ELSE IF memory.ind[f][s] = "null" THEN NoValue ELSE memory.stage[f][s]

ApplyColumns(memory, row, n) ==
    [memory EXCEPT !.batch = [f \in DOMAIN memory.batch |-> [s \in Slots |->
        IF s < n THEN ApplyOneColumn(memory, f, row[f].kind, s) ELSE memory.batch[f][s]]]]

----------------------------------------------------------------------------
(* The caller: it connects, begins a call, and when the call says the      *)
(* connection is lost, reconnects and makes it again.                      *)

ConnectSession ==
    /\ Idle /\ ~conn.env
    /\ \E login \in {SUCCESS, 1} : LET c == ConnectTo(mock, login) IN mock' = c.m /\ conn' = c.conn
    /\ UNCHANGED <<job, mem, delivered, table, losses, leaked, result>>

DisconnectSession ==
    /\ Idle /\ conn.env
    /\ mock' = DisconnectAll(mock, conn) /\ conn' = NoConnection
    /\ UNCHANGED <<job, mem, delivered, table, losses, leaked, result>>

\* What the demos do to the mock between two calls.
SetFailure ==
    /\ Idle /\ losses < MaxLosses
    /\ \E n \in 1 .. MaxLosses - losses, null \in BOOLEAN :
         /\ mock' = SetSimulateNull(SetMode(mock, "DisconnectThenRecover", n), null)
         /\ losses' = losses + n
    /\ UNCHANGED <<conn, job, mem, delivered, table, leaked, result>>

SetExecError ==
    /\ Idle /\ mock' = SetMode(mock, "ExecErrorAlways", 0)
    /\ UNCHANGED <<conn, job, mem, delivered, table, losses, leaked, result>>

\* OCIHandleAlloc, OCIStmtPrepare and, but for an insert, the binds.
Start(m, call) ==
    LET prepared == StmtPrepare(HandleAlloc(m, "STMT"))
    IN  CASE call.op \in {"execute", "select_rows"} -> BindParams(prepared, call.in, call.inputs)
          [] call.op = "select" -> DefinePositionalOutputs(prepared, call.row)
          [] OTHER -> prepared

Begin(call) ==
    /\ Idle /\ conn.svc
    /\ \E total \in 0 .. RowCount : mock' = Start(Answer(mock, total), call)
    /\ job' = With([pc |-> "execute", offset |-> 0, defined |-> 0], call)
    /\ mem' = FreshMem(Len(call.row))
    /\ delivered' = <<>> /\ table' = <<>>
    /\ result' = [status |-> "running", op |-> call.op, from |-> 0]
    /\ UNCHANGED <<conn, losses, leaked>>

InputsOf(row) ==
    {i \in [1 .. Len(row) -> BOOLEAN] : \A f \in 1 .. Len(row) : row[f].kind = "opt" \/ i[f]}
Plain == {row \in RowTypes : \A f \in 1 .. Len(row) : row[f].kind \in {"int", "fixed"}}

Execute ==
    \E row \in RowTypes \union {<<>>} : \E inputs \in InputsOf(row) :
        Begin([op |-> "execute", in |-> row, inputs |-> inputs, row |-> <<>>])

SelectRows ==
    \E row \in RowTypes, in \in RowTypes \union {<<>>}, size \in BatchSizes :
        Begin([op |-> "select_rows", in |-> in, inputs |-> [f \in 1 .. Len(in) |-> TRUE],
               row |-> row, size |-> size])

Select == \E row \in Plain : Begin([op |-> "select", in |-> <<>>, row |-> row])

InsertRows ==
    \E row \in Plain, size \in BatchSizes :
        Begin([op |-> "insert", in |-> <<>>, row |-> row, size |-> size])

\* Every path but a callback's exception frees the fetch's locators, then the
\* input's temporary LOBs, then the statement.
FreeLobColumnsOnSuccess(m) ==                     \* mutant: the error path forgets
    IF result.status = "running" /\ job.op = "select_rows" /\ m.mode # "None" THEN m
    ELSE [m EXCEPT !.live["LOB"] = @ - job.defined]
FreeLobColumns(m) == [m EXCEPT !.live["LOB"] = @ - job.defined]

FreeInputs(m) ==
    LET lobs == LobFields(job.in)
        after[k \in 0 .. lobs] == IF k = 0 THEN m ELSE FreeTempLob(after[k - 1])
    IN  after[lobs]

\* A lost call waits for its caller to reconnect; any other is over.
Return(m, status) ==
    /\ mock' = HandleFree(FreeInputs(FreeLobColumns(m)), "STMT")
    /\ result' = [result EXCEPT !.status = status]
    /\ job' = IF status = "ConnectionLost" THEN [job EXCEPT !.pc = "lost", !.defined = 0] ELSE NoJob
    /\ mem' = IF status = "ConnectionLost" THEN FreshMem(Len(job.row)) ELSE FreshMem(0)

\* Nothing here commits: the rows of the lost attempt stay, or the database rolls
\* them back.
Reconnect ==
    /\ At("lost")
    /\ LET c == ConnectTo(DisconnectAll(mock, conn), SUCCESS)
       IN  mock' = Start(c.m, job) /\ conn' = c.conn
    /\ job' = [job EXCEPT !.pc = "execute", !.offset = 0]
    /\ \/ table' = table
       \/ job.op = "insert" /\ table' = SubSeq(table, 1, result.from)
    /\ result' = [result EXCEPT !.status = "running",
                                !.from = Len(delivered) + Len(table')]
    /\ UNCHANGED <<mem, delivered, losses, leaked>>

----------------------------------------------------------------------------
(* The steps of a call.                                                    *)

\* A database may fail any execute, that of a later chunk of an insert too.
DatabaseFails ==
    /\ At("execute")
    /\ \/ /\ mock' = FailNext(mock, "ExecErrorAlways") /\ UNCHANGED losses
       \/ /\ losses < MaxLosses /\ losses' = losses + 1
          /\ mock' = FailNext(mock, "DisconnectThenRecover")
    /\ UNCHANGED <<conn, job, mem, delivered, table, leaked, result>>

Fails(call) ==
    /\ Classify(call.m, call.rc) # "Success"
    /\ Return(call.m, Classify(call.m, call.rc))
    /\ UNCHANGED <<conn, delivered, losses, leaked>>

ExecuteStep ==
    /\ At("execute") /\ job.op \in {"execute", "select"}
    /\ LET call == StmtExecute(mock, mem, 1)
       IN  \/ Fails(call) /\ UNCHANGED table
           \/ /\ Classify(call.m, call.rc) = "Success" /\ Return(call.m, "Success")
              /\ delivered' = IF job.op = "select" THEN BatchRows(call.mem, RowsFetched(call.m))
                              ELSE delivered
              /\ UNCHANGED <<conn, table, losses, leaked>>

\* iters = 0; the names are known only now, and a field without a column of
\* its name ends the call before anything is fetched.
SelectExecuteStep ==
    /\ At("execute") /\ job.op = "select_rows"
    /\ LET call == StmtExecute(mock, mem, 0)
       IN  \/ Fails(call) /\ UNCHANGED table
           \/ /\ Classify(call.m, call.rc) = "Success"
              /\ \E columns \in Descriptions : mock' = Describe(call.m, columns)
              /\ job' = [job EXCEPT !.pc = "define"]
              /\ UNCHANGED <<conn, mem, delivered, table, losses, leaked, result>>

DefineStep ==
    /\ At("define")
    /\ LET positions == ResolveColumnPositions(job.row)
           lobs == job.size * LobFields(job.row)
       IN  IF \E f \in DOMAIN positions : positions[f] = 0
           THEN Return(mock, "QueryError") /\ UNCHANGED <<conn, delivered, table, losses, leaked>>
           ELSE /\ mock' = [DefineColumns(mock, job.row, positions) EXCEPT !.live["LOB"] = @ + lobs]
                /\ job' = [job EXCEPT !.pc = "fetch", !.defined = lobs]
                /\ UNCHANGED <<conn, mem, delivered, table, losses, leaked, result>>

FetchStep ==
    /\ At("fetch")
    /\ LET call == StmtFetch2(mock, mem, job.size)
           applied == ApplyColumns(call.mem, job.row, RowsFetched(call.m))
       IN  /\ delivered' = delivered \o BatchRows(applied, RowsFetched(call.m))
           /\ IF call.rc = NO_DATA THEN Return(call.m, "Success")
              ELSE mock' = call.m /\ mem' = applied /\ UNCHANGED <<job, result>>
    /\ UNCHANGED <<conn, table, losses, leaked>>

FetchLostStep ==
    /\ At("fetch") /\ losses < MaxLosses
    /\ LET call == FetchLost(mock, mem) IN Return(call.m, Classify(call.m, call.rc))
    /\ losses' = losses + 1
    /\ UNCHANGED <<conn, delivered, table, leaked>>

\* on_batch throws out of the loop: nothing after it is freed.  Bound: once.
CallbackThrows ==
    /\ At("fetch") /\ Len(delivered) > result.from /\ ~leaked
    /\ leaked' = TRUE /\ job' = NoJob /\ mem' = FreshMem(0)
    /\ result' = [result EXCEPT !.status = "thrown"]
    /\ UNCHANGED <<mock, conn, delivered, table, losses>>

\* One chunk: bound at its own first row and executed for its own length.
ChunkLength == IF job.size < MaxRows - job.offset THEN job.size ELSE MaxRows - job.offset
BindArrayFieldsAtStart(offset) == 0               \* mutant: always the first row
BindArrayFields(offset) == offset

\* Of a chunk that fails, the database may have stored the first rows, and all of
\* them when only the answer was lost.
InsertChunkStep ==
    /\ At("execute") /\ job.op = "insert"
    /\ LET bound == BindParams(mock, job.row, [f \in 1 .. Len(job.row) |-> TRUE])
           call == StmtExecute([bound EXCEPT !.inds = <<>>], mem, ChunkLength)
           stored(n) == [k \in 1 .. n |-> BindArrayFields(job.offset) + k]
       IN  \/ Fails(call) /\ \E n \in 0 .. ChunkLength : table' = table \o stored(n)
           \/ /\ Classify(call.m, call.rc) = "Success" /\ table' = table \o stored(ChunkLength)
              /\ IF job.offset + job.size < MaxRows
                 THEN /\ job' = [job EXCEPT !.offset = @ + job.size]
                      /\ mock' = call.m /\ UNCHANGED <<mem, result>>
                 ELSE Return(call.m, "Success")
              /\ UNCHANGED <<conn, delivered, losses, leaked>>

----------------------------------------------------------------------------
(* Dates.                                                                  *)

DateDefault == <<"D", "D", "-", "M", "O", "N", "-", "R", "R">>
TimestampDefault ==
    DateDefault \o <<" ", "H", "H", ".", "M", "I", ".", "S", "S", " ", "A", "M">>

\* A value to its text and back, as a DATE or as a TIMESTAMP.
Convert ==
    /\ Idle /\ conn.env /\ mock.mode = "None" /\ result = NoResult
    /\ \E t \in Moments, fmt \in Formats, type \in {"date", "timestamp"} :
         LET default == IF type = "date" THEN DateDefault ELSE TimestampDefault
             text == IF type = "date" THEN OciDateToText(t, fmt, default)
                     ELSE OciTimestampToText(t, fmt, default)
             back == IF type = "date" THEN OciDateFromText(text.out, fmt, default)
                     ELSE OciTimestampFromText(text.out, fmt, default)
         IN  job' = [op |-> "convert", pc |-> "converted", moment |-> t,
                     format |-> ResolveFormat(fmt, default), text |-> text, back |-> back]
    /\ UNCHANGED <<mock, conn, mem, delivered, table, losses, leaked, result>>

Converted ==
    /\ At("converted") /\ job' = NoJob
    /\ UNCHANGED <<mock, conn, mem, delivered, table, losses, leaked, result>>

Next ==
    \/ ConnectSession \/ DisconnectSession \/ SetFailure \/ SetExecError
    \/ Execute \/ SelectRows \/ Select \/ InsertRows
    \/ Reconnect \/ ExecuteStep \/ SelectExecuteStep \/ DefineStep \/ FetchStep \/ InsertChunkStep
    \/ DatabaseFails \/ FetchLostStep \/ CallbackThrows
    \/ Convert \/ Converted

Spec == Init /\ [][Next]_vars

----------------------------------------------------------------------------
(* Properties.                                                             *)

\* The column a field is to come from: of several with one name, the last.
ColumnFor(row, f) ==
    IF mock.columns = <<>> THEN f
    ELSE CHOOSE p \in DOMAIN mock.columns :
             /\ mock.columns[p].name = row[f].name
             /\ \A q \in p + 1 .. Len(mock.columns) : mock.columns[q].name # row[f].name

\* The rows an attempt hands over, those of its last batch too, are the result's
\* rows, from the first, each field from the column of its name; an optional is
\* absent exactly where its column is NULL.  Only a plain field may show an old
\* value for a NULL (resolve_column_positions, define_one_column, apply_one_column).
RowsSent ==
    At("fetch") =>
        \A k \in Len(delivered) + 1 .. Len(delivered') : \A f \in DOMAIN job.row :
            LET p == ColumnFor(job.row, f)
                row == k - result.from - 1
                null == mock.nullLast /\ row % 2 = 1 /\ p = Len(mock.defines)
            IN  IF null THEN Staged(job.row[f].kind) => delivered'[k][f] = NoValue
                ELSE delivered'[k][f] = <<row, p>>
RowsByName == [][RowsSent]_vars

\* An insert that in the end succeeds has stored every row: its last attempt
\* stored all of them in order, after nothing but what lost attempts left behind,
\* each the first rows of the insert up to where it was lost.  A caller that
\* retries stores those twice.
RetriedInsertStores ==
    /\ result.op = "insert" /\ result.status = "Success" =>
           /\ Len(table) = result.from + MaxRows
           /\ \A k \in 1 .. MaxRows : table[result.from + k] = k
    /\ \A k \in DOMAIN table : table[k] = 1 \/ (k > 1 /\ table[k] = table[k - 1] + 1)

\* What a call allocates it has freed when it returns, however it ended; only
\* an exception of the callback leaves its handles behind.
ReturnFreesAll ==
    Idle \/ At("lost") =>
        /\ ~leaked => \A k \in {"STMT", "LOB", "TEMP"} : mock.live[k] = 0
        /\ ~leaked => ~mock.misused
        /\ \A k \in {"ENV", "ERROR", "SVC"} : mock.live[k] = IF conn.svc THEN 1 ELSE 0

\* A text holds everything its format names: reading it back gives the same
\* moment, with the fields the format leaves out at their defaults.  A year in
\* two digits comes back only from the hundred years around the current one,
\* an hour of twelve only beside AM or PM (parse_with_mock_format,
\* render_with_mock_format, OciDate, OciTimestamp).
DateRoundTrip ==
    At("converted") =>
        LET kinds == {TokenizeDateFormat(job.format)[i].kind : i \in DOMAIN TokenizeDateFormat(job.format)}
            t == job.moment
            u == job.back.out
            named == /\ kinds \intersect {"Year4", "Year2", "RRYear"} # {}
                         => (u.year = IF "Year4" \in kinds \/ RRYear(t.year % 100) = t.year
                                      THEN t.year ELSE u.year)
                     /\ u.month = IF kinds \intersect {"Month", "MonthAbbrev"} # {} THEN t.month ELSE 1
                     /\ u.day = IF "Day" \in kinds THEN t.day ELSE 1
                     /\ u.minute = IF "Minute" \in kinds THEN t.minute ELSE 0
                     /\ u.second = IF "Second" \in kinds THEN t.second ELSE 0
                     /\ u.hour = CASE "Hour24" \in kinds \/ {"Hour12", "Meridiem"} \subseteq kinds -> t.hour
                                   [] "Hour12" \in kinds -> t.hour % 12
                                   [] OTHER -> 0
        IN  job.text.ok /\ job.back.ok /\ named

----------------------------------------------------------------------------
\* The inductive invariant behind the handles and the stored rows.  JobOK: the fields
\* of a call, and the steps of each operation.
Steps ==
    [execute |-> {"execute"}, select |-> {"execute"}, insert |-> {"execute"},
     select_rows |-> {"execute", "define", "fetch"}]
Calling == job.pc \in {"execute", "define", "fetch"}
Called == Calling \/ At("lost")
JobFields == {"op", "pc", "in", "row", "offset", "defined"}
JobOK ==
    \/ Idle
    \/ job.op = "convert" /\ At("converted")
    \/ /\ JobFields \subseteq DOMAIN job
       /\ job.op \in DOMAIN Steps /\ job.pc \in Steps[job.op] \cup {"lost"}
       /\ job.in \in RowTypes \cup {<<>>} /\ job.row \in RowTypes \cup {<<>>}
       /\ job.op \in {"select_rows", "insert"} => "size" \in DOMAIN job /\ job.size \in BatchSizes
       /\ job.op \in {"select", "insert"} => job.in = <<>>
       /\ job.op = "insert" => job.row \in Plain

\* Who holds which handle: the connection its three, a call its statement, the
\* locators and temporary LOBs of its input, and the locators it defined.  What an
\* exception left behind is never freed, and may be more.
Session == {"ENV", "ERROR", "SVC"}
Owed(kind) ==
    CASE ~Calling -> 0
      [] Calling /\ kind = "STMT" -> 1
      [] Calling /\ kind = "TEMP" -> LobFields(job.in)
      [] Calling /\ kind = "LOB" -> LobFields(job.in) + job.defined
HandleInv ==
    /\ conn \in {NoConnection, [env |-> TRUE, err |-> TRUE, svc |-> TRUE]}
    /\ leaked \in BOOLEAN /\ (~leaked => ~mock.misused)
    /\ Called => conn.svc /\ job.defined \in Nat /\ (~At("fetch") => job.defined = 0)
    /\ \A k \in Session : mock.live[k] = IF conn.svc THEN 1 ELSE 0
    /\ \A k \in Kinds \ Session : mock.live[k] >= Owed(k) /\ (~leaked => mock.live[k] = Owed(k))

\* How far an attempt is: an insert has stored the rows before its offset, a select
\* has handed over the rows before the cursor, both after what lost attempts left.
Storing ==
    /\ delivered = <<>> /\ result.from <= Len(table)
    /\ Calling => /\ job.offset \in Nat /\ job.offset < MaxRows
                  /\ Len(table) = result.from + job.offset
                  /\ \A k \in 1 .. job.offset : table[result.from + k] = k
Selecting ==
    Calling => mock.row \in 0 .. mock.total /\ Len(delivered) = result.from + mock.row
ProgressInv ==
    /\ IsSeq(delivered) /\ IsSeq(table)
    /\ DOMAIN result = DOMAIN NoResult /\ result.from \in Nat
    /\ Called => result.op = job.op /\ result.status # "Success"
    /\ Called /\ job.op = "insert" => Storing
    /\ Called /\ job.op = "select_rows" => table = <<>> /\ Selecting
    /\ RetriedInsertStores

ClientInv == MockOK(mock) /\ JobOK /\ HandleInv /\ ProgressInv

\* What RowsByName needs beside it: every field has the memory of a whole batch, and
\* when rows are fetched the column of its name goes there and nothing else does.
ColumnsFor(row) == [f \in 1 .. Len(row) |-> ColumnFor(row, f)]
RowsInv ==
    job.op = "select_rows" =>
        /\ Cells(mem, Len(job.row))
        /\ job.pc \in {"execute", "define"} => mock.defines = <<>>
        /\ At("fetch") => Placed(mock.defines, DefinesOf(job.row), ColumnsFor(job.row))
=============================================================================
