---------------------------- MODULE OciStatement ----------------------------
(***************************************************************************)
(* ideas/new/include/binding/oci_statement.h: one prepared statement and   *)
(* the state that says which calls it takes.  Unprepared and Prepared are  *)
(* the class's own; Executed and EndOfFetch are read back from OCI after   *)
(* every execute and fetch.  A call in another state throws: Throws.       *)
(***************************************************************************)
EXTENDS OciConnection

States == {"Unprepared", "Prepared", "Executed", "EndOfFetch"}

NewStatement == [state |-> "Unprepared", sql |-> NoValue, log |-> <<>>]

\* The states each call requires.
Allowed ==
    [prepare     |-> {"Unprepared"},
     bind        |-> {"Prepared", "Executed"},
     output      |-> {"Prepared", "Executed", "EndOfFetch"},
     setPrefetch |-> {"Prepared"},
     describe    |-> {"Executed", "EndOfFetch"},
     execute     |-> {"Prepared", "Executed"},
     fetch       |-> {"Executed", "EndOfFetch"}]

RequireState(s, call) == s.state \in Allowed[call]
Throws(s, call) == ~RequireState(s, call)

Prepare(s, m, sql) ==
    [s |-> [state |-> "Prepared", sql |-> sql, log |-> <<>>], m |-> StmtPrepare(m)]

\* The rendered parameters grow with every bind: nothing but prepare() clears
\* them.
BindName(s, m, name, ind, logging) ==
    [s |-> IF logging THEN [s EXCEPT !.log = Append(@, <<name, ind>>)] ELSE s,
     m |-> BindByName(m, ind)]

BindNameArray(s, m) == [s |-> s, m |-> BindByName(m, "notnull")]

\* A stride makes the define an array of structs.
BindOutput(m, position, d) ==
    LET defined == DefineByPos(m, position, d)
    IN  IF d.stride > 0 THEN DefineArrayOfStruct(defined, position, d.stride) ELSE defined

\* The first column of that name, 0 when there is none.
DescribeColumnPosition(m, name) ==
    LET ps == {p \in 1 .. ParamCount(m) : m.columns[p].name = name}
    IN  IF ps = {} THEN 0 ELSE CHOOSE p \in ps : \A q \in ps : p <= q

DescribeColumns(m) ==
    [p \in 1 .. ParamCount(m) |-> [position |-> p, type |-> m.columns[p].type]]

\* OCI's INITIALIZED leaves the state alone.
SyncStateFromOci(s, m) ==
    CASE StmtState(m) = "EXECUTED" -> [s EXCEPT !.state = "Executed"]
      [] StmtState(m) = "END_OF_FETCH" -> [s EXCEPT !.state = "EndOfFetch"]
      [] OTHER -> s

Execute(s, conn, m, mem, iters) ==
    LET call == StmtExecute(m, mem, iters)
    IN  [s |-> SyncStateFromOci(s, call.m), m |-> call.m, mem |-> call.mem,
         result |-> ExecResult(CallOci(conn, call.m, call.rc))]

\* What OCI returned is `call`: the mock's own fetch or a lost session.
Fetch(s, conn, call) ==
    [s |-> SyncStateFromOci(s, call.m), m |-> call.m, mem |-> call.mem,
     result |-> ExecResult(CallOci(conn, call.m, call.rc))]
=============================================================================
