---------------------------- MODULE OciConnection ---------------------------
(***************************************************************************)
(* ideas/new/include/binding/oci_connection.h with oci_call.h,             *)
(* oci_handle_guard.h and oci_lob.h: a session's handles, who frees them,  *)
(* and how the outcome of an OCI call is classified.  A connection is the  *)
(* record of the handles it holds; m is the state of OCI (OciMock).        *)
(***************************************************************************)
EXTENDS OciMock

NewConnection == [env |-> FALSE, err |-> FALSE, svc |-> FALSE, connected |-> FALSE]

\* A guard frees the handle it still holds.
GuardNew(m, kind) == HandleAlloc(m, kind)
GuardDrop(m, kind, held) == IF held THEN HandleFree(m, kind) ELSE m

\* The error code is read only when the call has an error handle among its
\* arguments.
HasErrorHandle(conn) == conn.err
CallOci(conn, m, rc) ==
    [status |-> rc,
     code |-> IF rc # SUCCESS /\ HasErrorHandle(conn) THEN ErrorGet(m) ELSE 0]

DisconnectCodes == {28, 1012, 2396, 3113, 3114, 3135, 12153, 12537, 12571, 25408}

Classify(call) ==
    CASE call.status >= 0 -> "Success"
      [] call.status < 0 /\ call.code \in DisconnectCodes -> "ConnectionLost"
      [] OTHER -> "QueryError"

ExecResult(call) == [status |-> Classify(call), call |-> call]

\* The error handle goes before the environment it came from.
DisconnectEnvFirst(conn, m) ==                    \* mutant: order swapped
    LET loggedOff == IF conn.svc /\ conn.err THEN Logoff(m) ELSE m
        noEnv == GuardDrop(loggedOff, "ENV", conn.env)
    IN  [conn |-> NewConnection, m |-> GuardDrop(noEnv, "ERROR", conn.err)]
Disconnect(conn, m) ==
    LET loggedOff == IF conn.svc /\ conn.err THEN Logoff(m) ELSE m
        noError == GuardDrop(loggedOff, "ERROR", conn.err)
    IN  [conn |-> NewConnection, m |-> GuardDrop(noError, "ENV", conn.env)]

\* A session of an earlier connect() is not given up here: the new handles
\* replace the old ones.  A login that fails gives everything up again.
Connect(conn, m, login) ==
    LET env == EnvCreate(m)
        err == GuardNew(GuardDrop(env, "ERROR", conn.err), "ERROR")
        opened == [env |-> TRUE, err |-> TRUE, svc |-> conn.svc, connected |-> conn.connected]
    IN  IF login < 0 THEN Disconnect(opened, err)
        ELSE [conn |-> [opened EXCEPT !.svc = TRUE, !.connected = TRUE], m |-> Logon2(err)]

----------------------------------------------------------------------------
(* A locator and, on the bind side, the temporary LOB behind it: its data  *)
(* is in the cell the caller names.                                        *)

NewLob == [locator |-> TRUE, temporary |-> FALSE]
LobNew(m) == [lob |-> NewLob, m |-> DescriptorAlloc(m)]

\* Marked temporary whatever the call returns.
LobTemporary(lob, m) ==
    [lob |-> [lob EXCEPT !.temporary = TRUE], m |-> LobCreateTemporary(m)]

LobDrop(lob, m) ==
    LET storage == IF lob.temporary THEN LobFreeTemporary(m) ELSE m
    IN  IF lob.locator THEN DescriptorFree(storage) ELSE m

\* The buffer asked for holds the value whole: four bytes for each character,
\* and some, of a CLOB.  A value without a length reads as nothing.
LobRead(data) == IF data = NoValue THEN NoValue ELSE data
=============================================================================
