--------------------------- MODULE OciRowsProofs --------------------------
(***************************************************************************)
(* What the proofs about both OCI clients share: what an entry point of    *)
(* OCI leaves as it was, how defines come to stand at their positions, and *)
(* what a fetch writes through them, for every number of rows, fields and  *)
(* columns.                                                                *)
(***************************************************************************)
EXTENDS OciRows, SequenceTheorems, FiniteSetTheorems, WellFoundedInduction, TLAPS

(* ---- numbers and sequences --------------------------------------------- *)

\* Counting up reaches every number.
LEMMA Upwards ==
    ASSUME NEW n \in Nat, NEW I, 0 \in I, \A k \in 1 .. n : k - 1 \in I => k \in I
    PROVE  \A k \in 0 .. n : k \in I
<1> DEFINE Out == {k \in 0 .. n : k \notin I}
<1> SUFFICES ASSUME Out # {} PROVE FALSE
  OBVIOUS
<1>1. \E m \in Out : \A k \in Out : ~ (<<k, m>> \in OpToRel(<, Nat))
  <2>1. Out \subseteq Nat
    OBVIOUS
  <2> HIDE DEF Out
  <2> QED
    BY <2>1, NatLessThanWellFounded, WFMin
<1>2. PICK m \in Out : \A k \in Out : ~ (<<k, m>> \in OpToRel(<, Nat))
  BY <1>1
<1>3. m \in 1 .. n /\ m - 1 \in 0 .. n /\ m - 1 \in Nat /\ m \in Nat /\ m - 1 < m
  OBVIOUS
<1>4. m - 1 \in Out
  BY <1>3
<1>5. <<m - 1, m>> \in OpToRel(<, Nat)
  <2>1. <<m - 1, m>> \in Nat \X Nat /\ <<m - 1, m>>[1] < <<m - 1, m>>[2]
    BY <1>3
  <2> QED
    BY <2>1, Zenon DEF OpToRel
<1> QED
  BY <1>2, <1>4, <1>5

LEMMA LeastOf ==
    ASSUME NEW S, S \subseteq Nat, S # {}
    PROVE  \E p \in S : \A q \in S : p <= q
<1>1. \E p \in S : \A q \in S : ~ (<<q, p>> \in OpToRel(<, Nat))
  BY NatLessThanWellFounded, WFMin
<1>2. PICK p \in S : \A q \in S : ~ (<<q, p>> \in OpToRel(<, Nat))
  BY <1>1
<1>3. ASSUME NEW q \in S, q < p PROVE FALSE
  <2>1. <<q, p>> \in Nat \X Nat /\ <<q, p>>[1] < <<q, p>>[2]
    BY <1>3
  <2>2. <<q, p>> \in OpToRel(<, Nat)
    BY <2>1, Zenon DEF OpToRel
  <2> QED
    BY <1>2, <2>2
<1> QED
  BY <1>3

\* A set of numbers up to n has a greatest one.
LEMMA GreatestOf ==
    ASSUME NEW n \in Nat, NEW S, S \subseteq 1 .. n, S # {}
    PROVE  \E p \in S : \A q \in S : q <= p
<1> DEFINE T == {n - p : p \in S}
<1>1. T \subseteq Nat /\ T # {}
  <2>1. \A p \in S : p \in 1 .. n /\ n - p \in Nat
    OBVIOUS
  <2> QED
    BY <2>1
<1>2. PICK t \in T : \A u \in T : t <= u
  <2>1. \E t \in T : \A u \in T : t <= u
    <3> HIDE DEF T
    <3> QED
      BY <1>1, LeastOf
  <2> QED
    BY <2>1
<1>3. PICK p \in S : t = n - p
  OBVIOUS
<1>4. \A q \in S : q <= p
  <2> SUFFICES ASSUME NEW q \in S PROVE q <= p
    OBVIOUS
  <2>2. n - q \in T
    OBVIOUS
  <2>3. n - p <= n - q
    BY <1>2, <1>3, <2>2
  <2>4. p \in 1 .. n /\ q \in 1 .. n
    OBVIOUS
  <2>1. n - p <= n - q /\ p \in Int /\ q \in Int
    BY <2>3, <2>4
  <2> QED
    BY <2>1
<1> QED
  BY <1>4

\* Rows handed over one after another.
LEMMA MoreRows ==
    ASSUME NEW s, NEW t, IsSeq(s), IsSeq(t)
    PROVE  /\ IsSeq(s \o t) /\ Len(s \o t) = Len(s) + Len(t) /\ Len(s) \in Nat /\ Len(t) \in Nat
           /\ \A i \in 1 .. Len(s) + Len(t) : (s \o t)[i] = IF i <= Len(s) THEN s[i] ELSE t[i - Len(s)]
<1> DEFINE Set(u) == {u[i] : i \in DOMAIN u}
           S == Set(s) \cup Set(t)
<1>1. s \in Seq(S) /\ t \in Seq(S)
  <2>1. s \in Seq(Set(s)) /\ t \in Seq(Set(t)) /\ Set(s) \subseteq S /\ Set(t) \subseteq S
    BY DEF IsSeq
  <2> HIDE DEF Set
  <2> QED
    BY <2>1, SeqMonotonic
<1>2. /\ s \o t \in Seq(S) /\ Len(s \o t) = Len(s) + Len(t) /\ Len(s) \in Nat /\ Len(t) \in Nat
      /\ \A i \in 1 .. Len(s) + Len(t) : (s \o t)[i] = IF i <= Len(s) THEN s[i] ELSE t[i - Len(s)]
  <2> HIDE DEF S
  <2> QED
    BY <1>1, ConcatProperties, LenProperties
<1>3. ASSUME NEW u, u \in Seq(S) PROVE IsSeq(u)
  <2> HIDE DEF S
  <2>1. Len(u) \in Nat /\ u \in [1 .. Len(u) -> S]
    BY <1>3, LenProperties
  <2> DEFINE T == {u[i] : i \in DOMAIN u}
  <2>2. u \in [1 .. Len(u) -> T]
    BY <2>1
  <2>3. IsSeq(u) <=> u \in Seq(T)
    BY DEF IsSeq
  <2> HIDE DEF T
  <2> QED
    BY <2>1, <2>2, <2>3, SeqDef
<1> QED
  BY <1>2, <1>3

LEMMA RowsIsSeq ==
    ASSUME NEW memory, NEW n \in Nat
    PROVE  IsSeq(BatchRows(memory, n)) /\ Len(BatchRows(memory, n)) = n
<1> DEFINE rows == BatchRows(memory, n)
<1>1. DOMAIN rows = 1 .. n /\ rows = [k \in 1 .. n |-> rows[k]]
  BY DEF BatchRows
<1> HIDE DEF rows
<1>2. rows \in [1 .. n -> {rows[i] : i \in DOMAIN rows}]
  BY <1>1
<1> QED
  BY <1>1, <1>2, SeqDef DEF IsSeq, rows

(* ---- the entry points of OCI ------------------------------------------- *)

\* What a call leaves as it was: the handles, and the cursor of the result.
SameHandles(m, n) == n.live = m.live /\ n.misused = m.misused
SameCursor(m, n) == n.row = m.row /\ n.total = m.total

\* One handle more or less of a kind.
OneMore(m, n, kind) ==
    n.live[kind] = m.live[kind] + 1 /\ \A k \in Kinds \ {kind} : n.live[k] = m.live[k]
OneLess(m, n, kind) ==
    n.live[kind] = m.live[kind] - 1 /\ \A k \in Kinds \ {kind} : n.live[k] = m.live[k]

LEMMA MockFields ==
    DOMAIN NewMock = {"mode", "left", "nullLast", "total", "defines", "row", "fetched", "iters",
                      "inds", "state", "columns", "live", "misused"}
  BY DEF NewMock

LEMMA NewMockOK == MockOK(NewMock) /\ \A k \in Kinds : NewMock.live[k] = 0
  BY RowCountAssumption DEF MockOK, NewMock, Modes, Kinds

LEMMA AllocOne ==
    ASSUME NEW m, MockOK(m), NEW kind \in Kinds
    PROVE  /\ MockOK(HandleAlloc(m, kind)) /\ OneMore(m, HandleAlloc(m, kind), kind)
           /\ SameCursor(m, HandleAlloc(m, kind)) /\ HandleAlloc(m, kind).misused = m.misused
           /\ HandleAlloc(m, kind).defines = m.defines
  BY MockFields DEF MockOK, HandleAlloc, OneMore, SameCursor

LEMMA FreeSome ==
    ASSUME NEW m, MockOK(m), NEW kind \in Kinds, m.live[kind] > 0
    PROVE  /\ MockOK(HandleFree(m, kind)) /\ OneLess(m, HandleFree(m, kind), kind)
           /\ SameCursor(m, HandleFree(m, kind)) /\ HandleFree(m, kind).columns = m.columns
           /\ ~m.misused /\ (kind = "ENV" => \A k \in Kinds \ {"ENV"} : m.live[k] = 0)
                => ~HandleFree(m, kind).misused
  BY MockFields DEF MockOK, HandleFree, OneLess, SameCursor

LEMMA FreeOne ==
    ASSUME NEW m, MockOK(m), NEW kind \in Kinds, m.live[kind] > 0, ~m.misused,
           kind = "ENV" => \A k \in Kinds \ {"ENV"} : m.live[k] = 0
    PROVE  /\ MockOK(HandleFree(m, kind)) /\ OneLess(m, HandleFree(m, kind), kind)
           /\ SameCursor(m, HandleFree(m, kind)) /\ ~HandleFree(m, kind).misused
  BY MockFields DEF MockOK, HandleFree, OneLess, SameCursor

LEMMA PrepareKeeps ==
    ASSUME NEW m, MockOK(m)
    PROVE  /\ MockOK(StmtPrepare(m)) /\ SameHandles(m, StmtPrepare(m))
           /\ StmtPrepare(m).row = 0 /\ StmtPrepare(m).total = m.total /\ StmtPrepare(m).defines = <<>>
  BY MockFields DEF MockOK, StmtPrepare, SameHandles

LEMMA BindKeeps ==
    ASSUME NEW m, MockOK(m), NEW ind
    PROVE  /\ MockOK(BindByName(m, ind)) /\ SameHandles(m, BindByName(m, ind))
           /\ SameCursor(m, BindByName(m, ind)) /\ BindByName(m, ind).defines = m.defines
  BY MockFields DEF MockOK, BindByName, SameHandles, SameCursor

LEMMA DefinedKeeps ==
    ASSUME NEW m, MockOK(m), NEW position, NEW d
    PROVE  LET n == DefineByPos(m, position, d)
           IN  MockOK(n) /\ SameHandles(m, n) /\ SameCursor(m, n) /\ n.columns = m.columns
  BY MockFields DEF MockOK, DefineByPos, SameHandles, SameCursor

LEMMA StrideKeeps ==
    ASSUME NEW m, MockOK(m), NEW position, NEW stride
    PROVE  LET n == DefineArrayOfStruct(m, position, stride)
           IN  MockOK(n) /\ SameHandles(m, n) /\ SameCursor(m, n) /\ n.columns = m.columns
  BY MockFields DEF MockOK, DefineArrayOfStruct, SameHandles, SameCursor

LEMMA FetchKeeps ==
    ASSUME NEW m, MockOK(m), NEW memory, NEW size \in Nat \ {0}
    PROVE  LET f == FetchRows(m, memory, size)
           IN  /\ MockOK(f.m) /\ SameHandles(m, f.m) /\ f.m.total = m.total
               /\ f.rc \in {SUCCESS, NO_DATA}
               /\ m.row <= m.total =>
                    /\ f.m.fetched \in Nat /\ f.m.row = m.row + f.m.fetched /\ f.m.row <= m.total
                    /\ f.rc = NO_DATA => f.m.row = m.total
<1> DEFINE f == FetchRows(m, memory, size)
           left == m.total - m.row
           rows == IF size < left THEN size ELSE left
<1>1. RowsInto(m, memory, size).rows = rows
  BY DEF RowsInto
<1>2. f.m = [m EXCEPT !.row = m.row + rows, !.fetched = rows,
                      !.state = IF m.row + rows >= m.total THEN "END_OF_FETCH" ELSE "EXECUTED"]
      /\ f.rc = IF m.row + rows >= m.total THEN NO_DATA ELSE SUCCESS
  BY <1>1 DEF FetchRows
<1>3. rows \in Int /\ m.row \in Int /\ m.total \in Nat /\ m.row + rows <= m.total
      /\ (m.row <= m.total => rows \in Nat)
  BY RowCountAssumption DEF MockOK
<1> HIDE DEF rows, f
<1>4. MockOK(f.m) /\ SameHandles(m, f.m) /\ f.m.total = m.total
      /\ f.m.row = m.row + rows /\ f.m.fetched = rows
  BY <1>2, <1>3, MockFields DEF MockOK, SameHandles
<1> QED
  BY <1>2, <1>3, <1>4 DEF f, SUCCESS, NO_DATA

\* An execute that is asked for no rows moves no cursor, nor does one that fails.
LEMMA ExecuteKeeps ==
    ASSUME NEW m, MockOK(m), NEW memory, NEW iters \in Nat
    PROVE  LET e == StmtExecute(m, memory, iters)
           IN  /\ MockOK(e.m) /\ SameHandles(m, e.m) /\ e.m.total = m.total
               /\ iters = 0 => SameCursor(m, e.m)
               /\ e.rc \in {SUCCESS, NO_DATA, ERROR}
               /\ iters = 0 => e.rc # NO_DATA
<1> DEFINE e == StmtExecute(m, memory, iters)
           called == [m EXCEPT !.iters = iters]
<1>1. MockOK(called) /\ SameHandles(m, called) /\ SameCursor(m, called)
  BY MockFields DEF MockOK, SameHandles, SameCursor
<1>2. called.mode = m.mode /\ called.left = m.left
  BY MockFields DEF MockOK
<1> HIDE DEF called
<1>3. CASE m.mode = "ExecErrorAlways"
  <2>1. e.m = called /\ e.rc = ERROR
    BY <1>3 DEF StmtExecute, called
  <2> QED
    BY <1>1, <2>1 DEF SameHandles, SameCursor, NO_DATA, ERROR
<1>4. CASE m.mode = "DisconnectThenRecover" /\ m.left > 0
  <2> DEFINE fewer == [called EXCEPT !.left = m.left - 1]
  <2>1. e.m = fewer /\ e.rc = ERROR
    BY <1>4 DEF StmtExecute, called
  <2>2. MockOK(fewer) /\ SameHandles(m, fewer) /\ SameCursor(m, fewer)
    <3>1. m.left - 1 \in Nat
      BY <1>4 DEF MockOK
    <3> QED
      BY <3>1, <1>1, MockFields DEF MockOK, SameHandles, SameCursor
  <2> QED
    BY <2>1, <2>2 DEF SameHandles, SameCursor, NO_DATA, ERROR
<1>5. CASE /\ m.mode # "ExecErrorAlways" /\ ~ (m.mode = "DisconnectThenRecover" /\ m.left > 0)
           /\ iters > 0 /\ m.defines # <<>>
  <2>1. e = FetchRows(called, memory, iters)
    BY <1>5 DEF StmtExecute, called
  <2> HIDE DEF e
  <2>2. /\ MockOK(e.m) /\ SameHandles(called, e.m) /\ e.m.total = called.total
        /\ e.rc \in {SUCCESS, NO_DATA}
    BY <1>1, <1>5, <2>1, FetchKeeps
  <2> QED
    BY <1>1, <1>5, <2>2 DEF SameHandles, SameCursor, e
<1>6. CASE /\ m.mode # "ExecErrorAlways" /\ ~ (m.mode = "DisconnectThenRecover" /\ m.left > 0)
           /\ ~ (iters > 0 /\ m.defines # <<>>)
  <2> DEFINE done == [called EXCEPT !.state = "EXECUTED"]
  <2>1. e.m = done /\ e.rc = SUCCESS
    BY <1>6 DEF StmtExecute, called
  <2>2. MockOK(done) /\ SameHandles(m, done) /\ SameCursor(m, done)
    BY <1>1, MockFields DEF MockOK, SameHandles, SameCursor
  <2> QED
    BY <2>1, <2>2 DEF SameHandles, SameCursor, NO_DATA, SUCCESS
<1> QED
  BY <1>3, <1>4, <1>5, <1>6

\* An execute that asks for no rows writes nothing.
LEMMA ExecuteNone ==
    ASSUME NEW m, MockOK(m), NEW memory
    PROVE  LET e == StmtExecute(m, memory, 0) IN e.mem = memory /\ e.m.defines = m.defines
<1> DEFINE e == StmtExecute(m, memory, 0)
           called == [m EXCEPT !.iters = 0]
           fewer == [called EXCEPT !.left = m.left - 1]
           done == [called EXCEPT !.state = "EXECUTED"]
<1>1. e.mem = memory /\ e.m \in {called, fewer, done}
  BY DEF StmtExecute
<1>2. DOMAIN called = DOMAIN m /\ called.defines = m.defines
  BY MockFields DEF MockOK
<1> HIDE DEF called
<1>3. fewer.defines = m.defines /\ done.defines = m.defines
  BY <1>2, MockFields DEF MockOK
<1> HIDE DEF fewer, done, e
<1> QED
  BY <1>1, <1>2, <1>3 DEF e

(* ---- structs, columns and memory --------------------------------------- *)

\* What is known of a struct: its length, its kinds, and that no two of its fields
\* have one name.
StructOK(row) ==
    /\ Len(row) \in Nat /\ DOMAIN row = 1 .. Len(row)
    /\ \A f \in 1 .. Len(row) : row[f].kind \in Kind
    /\ \A f, g \in 1 .. Len(row) : row[f].name = row[g].name => f = g

LEMMA RowTypeOK == ASSUME NEW row \in RowTypes PROVE StructOK(row)
<1> DEFINE T == [name : STRING, kind : Kind]
<1>1. row \in Seq(T) /\ \A f, g \in DOMAIN row : row[f].name = row[g].name => f = g
  BY RowsAssumption DEF RowsAssumption
<1>2. \A t \in T : t.kind \in Kind
  OBVIOUS
<1> HIDE DEF T
<1>3. Len(row) \in Nat /\ DOMAIN row = 1 .. Len(row) /\ \A f \in 1 .. Len(row) : row[f] \in T
  BY <1>1, LenProperties, ElementOfSeq
<1> QED
  BY <1>1, <1>2, <1>3 DEF StructOK

LEMMA NoFieldsOK == StructOK(<<>>)
  BY DEF StructOK

\* The description of the columns is a sequence, empty when its length is zero.
LEMMA ColumnsOK ==
    ASSUME NEW m, MockOK(m)
    PROVE  /\ Len(m.columns) \in Nat /\ DOMAIN m.columns = 1 .. Len(m.columns)
           /\ Len(m.columns) = 0 <=> m.columns = <<>>
<1> DEFINE T == [name : STRING, type : STRING]
           s == m.columns
<1>1. s \in Seq(T)
  BY DescriptionsAssumption, EmptySeq DEF MockOK, DescriptionsAssumption
<1> HIDE DEF T, s
<1>2. Len(s) \in Nat /\ DOMAIN s = 1 .. Len(s) /\ (Len(s) = 0 <=> s = <<>>)
  BY <1>1, LenProperties, EmptySeq
<1> QED
  BY <1>2 DEF s

LEMMA MaxBatchOK == MaxBatch \in Nat /\ \A size \in BatchSizes : size \in Nat /\ size <= MaxBatch
<1> DEFINE Greatest(b) == b \in BatchSizes /\ \A c \in BatchSizes : c <= b
<1>1. \E b : Greatest(b)
  BY RowsAssumption DEF RowsAssumption
<1>2. MaxBatch = CHOOSE b : Greatest(b)
  BY DEF MaxBatch
<1>3. Greatest(MaxBatch)
  <2> HIDE DEF Greatest
  <2> QED
    BY <1>1, <1>2
<1> QED
  BY <1>3, RowsAssumption DEF RowsAssumption

LEMMA FreshCells == \A n : Cells(FreshMem(n), n)
<1> SUFFICES ASSUME NEW n PROVE Cells(FreshMem(n), n)
  OBVIOUS
<1> DEFINE memory == FreshMem(n)
<1>1. DOMAIN memory = {"batch", "stage", "ind"}
  BY DEF FreshMem
<1> DEFINE cells(v) == [f \in 1 .. n |-> [s \in Slots |-> v]]
<1>3. memory.batch = cells(NoValue) /\ memory.stage = cells(NoValue) /\ memory.ind = cells("notnull")
  BY DEF FreshMem
<1>4. \A v : DOMAIN cells(v) = 1 .. n /\ \A f \in 1 .. n : DOMAIN cells(v)[f] = Slots
  OBVIOUS
<1> HIDE DEF cells, memory
<1>2. \A a \in {"batch", "stage", "ind"} :
        DOMAIN memory[a] = 1 .. n /\ \A f \in 1 .. n : DOMAIN memory[a][f] = Slots
  BY <1>3, <1>4
<1>5. Cells(memory, n)
  BY <1>1, <1>2 DEF Cells
<1> QED
  BY <1>5 DEF memory

(* ---- defines ------------------------------------------------------------ *)

\* What a client wants defined: for each field its own cells, with a type OCI writes.
WantsOK(wants, n) ==
    /\ n \in Nat /\ DOMAIN wants = 1 .. n
    /\ \A f \in 1 .. n : /\ DOMAIN wants[f] = {"area", "field", "type", "stride", "ind"}
                         /\ wants[f].area \in {"batch", "stage"} /\ wants[f].field = f
                         /\ wants[f].type \in Written /\ wants[f].ind \in BOOLEAN

\* A define of a batch: its address, then its stride.
Strided(m, position, want) == DefineArrayOfStruct(DefineByPos(m, position, want), position, 1)

\* One define: its own position is what it says, the others stay, and a position
\* nobody defined has no address.
DefinedNext(D, E, position, want) ==
    /\ Len(E) \in Nat /\ DOMAIN E = 1 .. Len(E) /\ DOMAIN D \subseteq DOMAIN E
    /\ position \in DOMAIN E /\ DefinedAs(E[position], want)
    /\ \A p \in DOMAIN D \ {position} : E[p] = D[p]
    /\ \A p \in DOMAIN E \ DOMAIN D : p # position => E[p].area = "none"
LEMMA DefineOneAt ==
    ASSUME NEW m, MockOK(m), NEW D, D = m.defines, NEW n \in Nat, Len(D) = n, DOMAIN D = 1 .. n,
           NEW position \in Nat \ {0}, NEW d, DOMAIN d = {"area", "field", "type", "stride", "ind"},
           NEW E, E = Strided(m, position, d).defines
    PROVE  DefinedNext(D, E, position, d)
<1> DEFINE z == [d EXCEPT !.stride = 0]
           k == IF n < position THEN position ELSE n
           C == [p \in 1 .. k |-> IF p = position THEN z ELSE IF p \in DOMAIN D THEN D[p] ELSE NoDefine]
           b == DefineByPos(m, position, d)
<1>2. b = [m EXCEPT !.defines = C]
  BY DEF DefineByPos
<1>3. b.defines = C
  BY <1>2, MockFields DEF MockOK
<1>4. k \in Nat /\ position \in 1 .. k /\ DOMAIN C = 1 .. k /\ 1 .. n \subseteq 1 .. k
  OBVIOUS
<1>5. /\ C[position] = z /\ \A p \in DOMAIN D \ {position} : C[p] = D[p]
      /\ \A p \in 1 .. k \ DOMAIN D : p # position => C[p] = NoDefine
  BY <1>4
<1>6. /\ z.area = d.area /\ z.field = d.field /\ z.type = d.type /\ z.ind = d.ind
      /\ DOMAIN z = {"area", "field", "type", "stride", "ind"}
  OBVIOUS
<1> HIDE DEF z
<1>7. MockOK(b)
  BY <1>2, MockFields DEF MockOK
<1>8. E = [C EXCEPT ![position].stride = 1]
  <2>1. E = DefineArrayOfStruct(b, position, 1).defines
    BY DEF Strided
  <2> HIDE DEF b, C
  <2>2. position \in DOMAIN b.defines
    BY <1>3, <1>4
  <2>3. E = [b EXCEPT !.defines[position].stride = 1].defines
    BY <2>1, <2>2 DEF DefineArrayOfStruct
  <2> QED
    BY <1>3, <1>7, <2>3, MockFields DEF MockOK
<1> HIDE DEF C, b, k
<1>9. DOMAIN E = 1 .. k /\ \A p \in 1 .. k \ {position} : E[p] = C[p]
  BY <1>4, <1>8
<1>10. E[position] = [z EXCEPT !.stride = 1]
  BY <1>4, <1>5, <1>8
<1>11. DefinedAs(E[position], d)
  BY <1>6, <1>10 DEF DefinedAs
<1>12. Len(E) = k
  BY <1>4, <1>8 DEF C
<1>13. NoDefine.area = "none"
  BY DEF NoDefine
<1>14. \A p \in DOMAIN D \ {position} : E[p] = D[p]
  BY <1>4, <1>5, <1>9
<1>15. \A p \in DOMAIN E \ DOMAIN D : p # position => E[p].area = "none"
  BY <1>4, <1>5, <1>9, <1>13
<1> QED
  BY <1>4, <1>9, <1>11, <1>12, <1>14, <1>15 DEF DefinedNext

\* The defines of a whole struct, one after another: each field's column goes where
\* the field is.
DefinedOneByOne(g, m, wants, positions, n) ==
    g[0] = m /\ \A i \in 1 .. n : g[i] = Strided(g[i - 1], positions[i], wants[i])

LEMMA DefinesPlaced ==
    ASSUME NEW m, MockOK(m), m.defines = <<>>, NEW wants, NEW n, WantsOK(wants, n), NEW positions,
           \A f \in 1 .. n : positions[f] \in Nat \ {0},
           \A f, g \in 1 .. n : positions[f] = positions[g] => f = g,
           NEW g, DefinedOneByOne(g, m, wants, positions, n)
    PROVE  Placed(g[n].defines, wants, positions)
<1>1. n \in Nat /\ DOMAIN wants = 1 .. n
  BY DEF WantsOK
<1>2. g[0] = m /\ \A i \in 1 .. n : g[i] = Strided(g[i - 1], positions[i], wants[i])
  BY DEF DefinedOneByOne
<1> DEFINE D(k) == g[k].defines
           Good(k) == /\ MockOK(g[k])
                      /\ Len(D(k)) \in Nat /\ DOMAIN D(k) = 1 .. Len(D(k))
                      /\ \A f \in 1 .. k : /\ positions[f] \in DOMAIN D(k)
                                           /\ DefinedAs(D(k)[positions[f]], wants[f])
                      /\ \A p \in DOMAIN D(k) :
                           D(k)[p].area # "none" => \E f \in 1 .. k : p = positions[f]
           I == {k \in Nat : Good(k)}
<1>4. 0 \in I
  <2>1. D(0) = <<>> /\ MockOK(g[0])
    BY <1>2
  <2>2. Len(D(0)) = 0 /\ DOMAIN D(0) = {}
    BY <2>1
  <2> HIDE DEF D
  <2>3. Good(0)
    BY <2>1, <2>2
  <2> QED
    BY <2>3
<1>5. \A k \in 1 .. n : k - 1 \in I => k \in I
  <2> HIDE DEF Good
  <2> SUFFICES ASSUME NEW k \in 1 .. n, k - 1 \in I PROVE Good(k)
    BY <1>1
  <2> USE DEF Good
  <2>1. Good(k - 1) /\ k \in Nat /\ k - 1 \in Nat /\ k \in 1 .. n
    BY <1>1
  <2> DEFINE old == D(k - 1)
             new == D(k)
             len == Len(old)
  <2>2. MockOK(g[k])
    <3> DEFINE m0 == g[k - 1]
               m1 == DefineByPos(m0, positions[k], wants[k])
    <3>1. MockOK(m0) /\ g[k] = DefineArrayOfStruct(m1, positions[k], 1)
      BY <1>2, <2>1 DEF Strided
    <3>2. MockOK(m1)
      <4> HIDE DEF m0
      <4> QED
        BY <3>1, DefinedKeeps
    <3> HIDE DEF m1
    <3> QED
      BY <3>1, <3>2, StrideKeeps
  <2>3. /\ Len(new) \in Nat /\ DOMAIN new = 1 .. Len(new) /\ DOMAIN old \subseteq DOMAIN new
        /\ positions[k] \in DOMAIN new /\ DefinedAs(new[positions[k]], wants[k])
        /\ \A p \in DOMAIN old \ {positions[k]} : new[p] = old[p]
        /\ \A p \in DOMAIN new \ DOMAIN old : p # positions[k] => new[p].area = "none"
    <3> DEFINE m0 == g[k - 1]
               want == wants[k]
               position == positions[k]
    <3>1. /\ MockOK(m0) /\ old = m0.defines /\ len \in Nat /\ Len(old) = len /\ DOMAIN old = 1 .. len
          /\ position \in Nat \ {0}
          /\ DOMAIN want = {"area", "field", "type", "stride", "ind"}
          /\ new = Strided(m0, position, want).defines
      BY <1>2, <2>1 DEF WantsOK
    <3> HIDE DEF m0, want, position, old, new, len
    <3>2. DefinedNext(old, new, position, want)
      BY ONLY <3>1, DefineOneAt
    <3> QED
      BY <3>2 DEF DefinedNext, want, position
  <2>4. /\ \A f \in 1 .. k - 1 : positions[f] \in DOMAIN old /\ DefinedAs(old[positions[f]], wants[f])
        /\ \A p \in DOMAIN old : old[p].area # "none" => \E f \in 1 .. k - 1 : p = positions[f]
    BY <2>1
  <2> HIDE DEF old
  <2>5. ASSUME NEW f \in 1 .. k
        PROVE  positions[f] \in DOMAIN new /\ DefinedAs(new[positions[f]], wants[f])
    <3>1. CASE f = k
      BY <2>3, <3>1
    <3>2. CASE f # k
      <4>1. f \in 1 .. k - 1 /\ f \in 1 .. n /\ k \in 1 .. n
        BY <1>1, <2>1, <3>2
      <4>2. positions[f] # positions[k]
        BY <3>2, <4>1
      <4>3. positions[f] \in DOMAIN old \ {positions[k]}
        BY <2>4, <4>1, <4>2
      <4> QED
        BY <2>3, <2>4, <4>1, <4>3
    <3> QED
      BY <3>1, <3>2
  <2>6. ASSUME NEW p \in DOMAIN new, new[p].area # "none"
        PROVE  \E f \in 1 .. k : p = positions[f]
    <3>1. CASE p = positions[k]
      BY <2>1, <3>1
    <3>2. CASE p # positions[k]
      <4>1. p \in DOMAIN old
        BY <2>3, <2>6, <3>2
      <4>2. new[p] = old[p]
        BY <2>3, <3>2, <4>1
      <4>3. PICK f \in 1 .. k - 1 : p = positions[f]
        BY <2>4, <2>6, <4>1, <4>2
      <4>4. f \in 1 .. k
        BY <2>1
      <4> QED
        BY <4>3, <4>4
    <3> QED
      BY <3>1, <3>2
  <2> QED
    BY <2>2, <2>3, <2>5, <2>6
<1>6. Good(n)
  <2> HIDE DEF I
  <2>1. \A k \in 0 .. n : k \in I
    BY <1>1, <1>4, <1>5, Upwards
  <2>2. n \in I
    BY <1>1, <2>1
  <2> HIDE DEF Good
  <2> QED
    BY <2>2 DEF I
<1>7. Placed(D(n), wants, positions)
  <2>1. /\ \A f \in 1 .. n : positions[f] \in DOMAIN D(n) /\ DefinedAs(D(n)[positions[f]], wants[f])
        /\ \A p \in DOMAIN D(n) : D(n)[p].area # "none" => \E f \in 1 .. n : p = positions[f]
    BY <1>6
  <2> HIDE DEF D
  <2> QED
    BY <1>1, <2>1 DEF Placed
<1> QED
  BY <1>7

(* ---- a fetch ------------------------------------------------------------ *)

\* The loop that fills a batch, as long as there are slots and rows.
BatchLength(m, size) == IF size < m.total - m.row THEN size ELSE m.total - m.row
NextRow(m, memory, k) == GenerateRow([m EXCEPT !.row = m.row + k - 1], memory, k - 1)

LEMMA RowsLoop ==
    ASSUME NEW m, NEW memory, NEW size, NEW n \in Nat, n = BatchLength(m, size)
    PROVE  \E g : /\ RowsInto(m, memory, size).mem = g[n]
                  /\ g[0] = memory
                  /\ \A i \in 1 .. n : g[i] = NextRow(m, g[i - 1], i)
<1> DEFINE Loop(g, k) == g = [i \in 0 .. k |-> IF i = 0 THEN memory ELSE NextRow(m, g[i - 1], i)]
           I == {k \in Nat : \E g : Loop(g, k)}
<1>1. 0 \in I
  <2> DEFINE g == [i \in 0 .. 0 |-> memory]
  <2>1. Loop(g, 0)
    OBVIOUS
  <2> QED
    BY <2>1
<1>2. ASSUME NEW k \in 1 .. n, k - 1 \in I PROVE k \in I
  <2>1. PICK g : Loop(g, k - 1)
    BY <1>2
  <2> DEFINE h == [i \in 0 .. k |-> IF i = k THEN NextRow(m, g[k - 1], k) ELSE g[i]]
  <2>2. \A i \in 0 .. k : h[i] = IF i = 0 THEN memory ELSE NextRow(m, h[i - 1], i)
    <3> SUFFICES ASSUME NEW i \in 0 .. k PROVE h[i] = IF i = 0 THEN memory ELSE NextRow(m, h[i - 1], i)
      OBVIOUS
    <3>1. CASE i = k
      BY <3>1
    <3>2. CASE i # k
      BY <2>1, <3>2
    <3> QED
      BY <3>1, <3>2
  <2>3. Loop(h, k)
    BY <2>2
  <2>4. k \in Nat
    OBVIOUS
  <2> HIDE DEF h, Loop
  <2> QED
    BY <2>3, <2>4
<1>3. \E g : Loop(g, n)
  <2> HIDE DEF I
  <2>1. n \in I
    BY <1>1, <1>2, Upwards
  <2> QED
    BY <2>1 DEF I
<1> DEFINE f == CHOOSE g : Loop(g, n)
<1>4. RowsInto(m, memory, size).mem = f[n]
  BY DEF RowsInto, NextRow, BatchLength
<1>5. Loop(f, n)
  <2> HIDE DEF Loop
  <2> QED
    BY <1>3
<1>6. \A i \in 0 .. n : f[i] = IF i = 0 THEN memory ELSE NextRow(m, f[i - 1], i)
  <2> HIDE DEF f
  <2> QED
    BY <1>5
<1>7. f[0] = memory
      /\ \A i \in 1 .. n : f[i] = NextRow(m, f[i - 1], i)
  <2> HIDE DEF f
  <2>1. 0 \in 0 .. n /\ \A i \in 1 .. n : i \in 0 .. n /\ i # 0
    OBVIOUS
  <2> QED
    BY <1>6, <2>1, Zenon
<1> HIDE DEF f
<1> QED
  BY <1>4, <1>7

\* What a fetched row leaves in a field's cells: the value and its indicator.
IsNull(m, p, k) == m.nullLast /\ k % 2 = 1 /\ p = Len(m.defines)

Filled(m, memory, wants, positions, f, slot, k) ==
    /\ ~IsNull(m, positions[f], k) => memory[wants[f].area][f][slot] = <<k, positions[f]>>
    /\ wants[f].ind => (memory.ind[f][slot] = "null" <=> IsNull(m, positions[f], k))

\* The cells of other rows are left alone.
SameCells(memory, after, n, slot) ==
    \A f \in 1 .. n : \A s \in Slots \ {slot} :
        /\ after.batch[f][s] = memory.batch[f][s] /\ after.stage[f][s] = memory.stage[f][s]
        /\ after.ind[f][s] = memory.ind[f][s]

LEMMA GenerateOne ==
    ASSUME NEW m, NEW memory, NEW wants, NEW n, WantsOK(wants, n), NEW positions,
           Placed(m.defines, wants, positions), Cells(memory, n), NEW slot \in Slots,
           NEW after, after = GenerateRow(m, memory, slot)
    PROVE  /\ Cells(after, n) /\ SameCells(memory, after, n, slot)
           /\ \A f \in 1 .. n : Filled(m, after, wants, positions, f, slot, m.row)
<1> DEFINE D == m.defines
           defined == {p \in DOMAIN D : D[p].area # "none"}
           null(p) == m.nullLast /\ m.row % 2 = 1 /\ p = Len(D)
           at(a, f, s) == {p \in defined : /\ D[p].area = a /\ D[p].field = f
                                           /\ s = slot * D[p].stride}
           sent(a, f, s) == {p \in at(a, f, s) : ~null(p) /\ D[p].type \in Written}
           value(a, f, s) == IF sent(a, f, s) = {} THEN memory[a][f][s]
                             ELSE <<m.row, CHOOSE p \in sent(a, f, s) : TRUE>>
           told(f, s) == {p \in at("batch", f, s) \union at("stage", f, s) : D[p].ind}
           indicator(f, s) == IF told(f, s) = {} THEN memory.ind[f][s]
                              ELSE IF \E p \in told(f, s) : null(p) THEN "null" ELSE "notnull"
<1>1. after = [batch |-> [f \in DOMAIN memory.batch |->
                            [s \in DOMAIN memory.batch[f] |-> value("batch", f, s)]],
               stage |-> [f \in DOMAIN memory.stage |->
                            [s \in DOMAIN memory.stage[f] |-> value("stage", f, s)]],
               ind |-> [f \in DOMAIN memory.ind |->
                            [s \in DOMAIN memory.ind[f] |-> indicator(f, s)]]]
  BY DEF GenerateRow
<1> HIDE DEF at, sent, value, told, indicator, null, D, defined
<1>2. /\ DOMAIN memory.batch = 1 .. n /\ DOMAIN memory.stage = 1 .. n /\ DOMAIN memory.ind = 1 .. n
      /\ \A f \in 1 .. n : /\ DOMAIN memory.batch[f] = Slots /\ DOMAIN memory.stage[f] = Slots
                           /\ DOMAIN memory.ind[f] = Slots
  BY DEF Cells
<1>3. /\ DOMAIN after.batch = 1 .. n /\ DOMAIN after.stage = 1 .. n /\ DOMAIN after.ind = 1 .. n
      /\ \A f \in 1 .. n :
           /\ DOMAIN after.batch[f] = Slots /\ DOMAIN after.stage[f] = Slots
           /\ DOMAIN after.ind[f] = Slots
           /\ \A s \in Slots : /\ after.batch[f][s] = value("batch", f, s)
                               /\ after.stage[f][s] = value("stage", f, s)
                               /\ after.ind[f][s] = indicator(f, s)
  BY <1>1, <1>2
<1>4. slot \in Int /\ n \in Nat
  BY DEF Slots, WantsOK
\* The defines are those of the fields, each at the slot's place.
<1>5. ASSUME NEW p \in defined
      PROVE  \E f \in 1 .. n : /\ p = positions[f] /\ D[p].area = wants[f].area
                               /\ D[p].field = f /\ slot * D[p].stride = slot
  <2>1. PICK f \in 1 .. n : p = positions[f]
    BY <1>5 DEF Placed, defined, D, WantsOK
  <2>2. DefinedAs(D[p], wants[f]) /\ wants[f].field = f
    BY <2>1 DEF Placed, D, WantsOK
  <2> QED
    BY <1>4, <2>1, <2>2 DEF DefinedAs
<1>6. ASSUME NEW f \in 1 .. n
      PROVE  /\ positions[f] \in defined /\ D[positions[f]].area = wants[f].area
             /\ D[positions[f]].field = f /\ slot * D[positions[f]].stride = slot
             /\ D[positions[f]].type \in Written
             /\ D[positions[f]].ind = wants[f].ind
  <2>1. positions[f] \in DOMAIN D /\ DefinedAs(D[positions[f]], wants[f])
    BY DEF Placed, D, WantsOK
  <2>3. wants[f].area # "none" /\ wants[f].type \in Written /\ wants[f].field = f
    BY DEF WantsOK
  <2> QED
    BY <1>4, <2>1, <2>3 DEF DefinedAs, defined
<1>7. ASSUME NEW a, NEW f \in 1 .. n, NEW s \in Slots \ {slot} PROVE at(a, f, s) = {}
  BY <1>5 DEF at
<1>8. ASSUME NEW a, NEW f \in 1 .. n
      PROVE  /\ at(a, f, slot) \subseteq {positions[f]}
             /\ at(a, f, slot) = {positions[f]} <=> a = wants[f].area
  <2>1. ASSUME NEW p \in at(a, f, slot) PROVE p = positions[f] /\ a = wants[f].area
    BY <1>5, <2>1 DEF at
  <2>2. a = wants[f].area => positions[f] \in at(a, f, slot)
    BY <1>6 DEF at
  <2> QED
    BY <2>1, <2>2
<1>9. Cells(after, n)
  <2>1. DOMAIN after = {"batch", "stage", "ind"}
    BY <1>1
  <2>2. \A a \in {"batch", "stage", "ind"} :
          DOMAIN after[a] = 1 .. n /\ \A f \in 1 .. n : DOMAIN after[a][f] = Slots
    BY <1>3
  <2> QED
    BY <2>1, <2>2 DEF Cells
<1>10. SameCells(memory, after, n, slot)
  <2> SUFFICES ASSUME NEW f \in 1 .. n, NEW s \in Slots \ {slot}
               PROVE  /\ after.batch[f][s] = memory.batch[f][s]
                      /\ after.stage[f][s] = memory.stage[f][s]
                      /\ after.ind[f][s] = memory.ind[f][s]
    BY DEF SameCells
  <2>1. \A a : sent(a, f, s) = {}
    BY <1>7 DEF sent
  <2>2. \A a : value(a, f, s) = memory[a][f][s]
    BY <2>1 DEF value
  <2>3. told(f, s) = {}
    BY <1>7 DEF told
  <2> QED
    BY <1>3, <2>2, <2>3 DEF indicator
<1>11. ASSUME NEW f \in 1 .. n PROVE Filled(m, after, wants, positions, f, slot, m.row)
  <2> DEFINE p == positions[f]
             a == wants[f].area
  <2>1. null(p) <=> IsNull(m, p, m.row)
    BY DEF null, IsNull, D
  <2>2. at(a, f, slot) = {p} /\ a \in {"batch", "stage"}
        /\ at("batch", f, slot) \union at("stage", f, slot) = {p}
    <3>1. at(a, f, slot) = {p} /\ a \in {"batch", "stage"}
      BY <1>8 DEF WantsOK
    <3>2. at("batch", f, slot) \subseteq {p} /\ at("stage", f, slot) \subseteq {p}
      BY <1>8
    <3> HIDE DEF a, p
    <3> QED
      BY <3>1, <3>2
  <2>3. ~null(p) => after[a][f][slot] = <<m.row, p>>
    <3> SUFFICES ASSUME ~null(p) PROVE after[a][f][slot] = <<m.row, p>>
      OBVIOUS
    <3>1. sent(a, f, slot) = {p}
      BY <1>6, <2>2 DEF sent
    <3>2. value(a, f, slot) = <<m.row, p>>
      <4> HIDE DEF p, a
      <4> QED
        BY <3>1 DEF value
    <3>3. after[a][f][slot] = value(a, f, slot)
      BY <1>3, <2>2
    <3> QED
      BY <3>2, <3>3
  <2>4. wants[f].ind => (after.ind[f][slot] = "null" <=> null(p))
    <3> SUFFICES ASSUME wants[f].ind PROVE after.ind[f][slot] = "null" <=> null(p)
      OBVIOUS
    <3>1. told(f, slot) = {p}
      BY <1>6, <2>2 DEF told
    <3>2. indicator(f, slot) = IF null(p) THEN "null" ELSE "notnull"
      <4> HIDE DEF p
      <4> QED
        BY <3>1 DEF indicator
    <3> QED
      BY <1>3, <3>2
  <2> QED
    BY <2>1, <2>3, <2>4 DEF Filled
<1> QED
  BY <1>9, <1>10, <1>11

\* A cell keeps what its row left there while the batch's other rows arrive.
LEMMA FilledStays ==
    ASSUME NEW m, NEW memory, NEW after, NEW wants, NEW positions, NEW n, NEW slot, NEW k,
           WantsOK(wants, n), SameCells(memory, after, n, slot), NEW f \in 1 .. n, NEW s \in Slots \ {slot},
           Filled(m, memory, wants, positions, f, s, k)
    PROVE  Filled(m, after, wants, positions, f, s, k)
<1>1. /\ after.batch[f][s] = memory.batch[f][s] /\ after.stage[f][s] = memory.stage[f][s]
      /\ after.ind[f][s] = memory.ind[f][s]
  BY DEF SameCells
<1>2. wants[f].area \in {"batch", "stage"}
  BY DEF WantsOK
<1>3. after[wants[f].area][f][s] = memory[wants[f].area][f][s]
  BY <1>1, <1>2
<1> QED
  BY <1>1, <1>3 DEF Filled

\* A fetch fills one slot after another, from the cursor on.
LEMMA BatchFilled ==
    ASSUME NEW m, MockOK(m), m.row \in 0 .. m.total, NEW memory, NEW wants, NEW len, WantsOK(wants, len), NEW positions,
           Placed(m.defines, wants, positions), Cells(memory, len), NEW size \in BatchSizes
    PROVE  LET f == FetchRows(m, memory, size)
           IN  /\ f.m.defines = m.defines /\ f.m.columns = m.columns
               /\ f.m.fetched \in Nat /\ f.m.fetched <= MaxBatch
               /\ Cells(f.mem, len)
               /\ \A j \in 0 .. f.m.fetched - 1 : \A g \in 1 .. len :
                    Filled(m, f.mem, wants, positions, g, j, m.row + j)
<1> DEFINE fetch == FetchRows(m, memory, size)
           n == BatchLength(m, size)
<1>1. /\ size \in Nat /\ size <= MaxBatch /\ MaxBatch \in Nat /\ m.total \in Nat /\ m.row \in Nat
      /\ n \in Nat /\ n <= MaxBatch
  BY MaxBatchOK, RowCountAssumption DEF MockOK, BatchLength
<1>2. /\ RowsInto(m, memory, size).rows = n
      /\ fetch.mem = RowsInto(m, memory, size).mem
      /\ fetch.m = [m EXCEPT !.row = m.row + n, !.fetched = n,
                             !.state = IF m.row + n >= m.total THEN "END_OF_FETCH" ELSE "EXECUTED"]
  BY DEF FetchRows, RowsInto, BatchLength
<1>3. fetch.m.defines = m.defines /\ fetch.m.columns = m.columns /\ fetch.m.fetched = n
  <2> HIDE DEF fetch, n
  <2> QED
    BY <1>2, MockFields DEF MockOK
<1>9. \E g : /\ RowsInto(m, memory, size).mem = g[n] /\ g[0] = memory
              /\ \A i \in 1 .. n : g[i] = NextRow(m, g[i - 1], i)
  <2>1. n \in Nat /\ n = BatchLength(m, size)
    BY <1>1
  <2> HIDE DEF n
  <2> QED
    BY ONLY <2>1, RowsLoop
<1> HIDE DEF n
<1>4. PICK g : /\ RowsInto(m, memory, size).mem = g[n] /\ g[0] = memory
               /\ \A i \in 1 .. n : g[i] = NextRow(m, g[i - 1], i)
  BY ONLY <1>9
<1>5. fetch.mem = g[n]
  BY <1>2, <1>4
<1> HIDE DEF fetch, n
<1> DEFINE Good(k) == /\ Cells(g[k], len)
                      /\ \A j \in 0 .. k - 1 : \A f \in 1 .. len :
                           Filled(m, g[k], wants, positions, f, j, m.row + j)
           I == {k \in Nat : Good(k)}
<1>6. 0 \in I
  BY <1>4
<1>7. \A k \in 1 .. n : k - 1 \in I => k \in I
  <2> HIDE DEF Good
  <2> SUFFICES ASSUME NEW k \in 1 .. n, k - 1 \in I PROVE Good(k)
    BY <1>1
  <2> DEFINE at == [m EXCEPT !.row = m.row + k - 1]
             old == g[k - 1]
             new == g[k]
             slot == k - 1
  <2>1. Good(k - 1) /\ k \in Nat /\ slot \in Nat /\ slot \in Slots
    BY <1>1 DEF Slots
  <2>2. at.row = m.row + slot /\ at.defines = m.defines /\ at.nullLast = m.nullLast
    BY <1>1, <2>1, MockFields DEF MockOK
  <2>3. new = GenerateRow(at, old, slot)
    BY <1>4 DEF NextRow
  <2>4. Cells(old, len) /\ \A j \in 0 .. slot - 1 : \A f \in 1 .. len :
                                   Filled(m, old, wants, positions, f, j, m.row + j)
    BY <2>1 DEF Good
  <2> HIDE DEF at, old, new, slot
  <2>5. Placed(at.defines, wants, positions)
    BY <2>2
  <2>6. /\ Cells(new, len) /\ SameCells(old, new, len, slot)
        /\ \A f \in 1 .. len : Filled(at, new, wants, positions, f, slot, at.row)
    BY ONLY WantsOK(wants, len), <2>1, <2>3, <2>4, <2>5, GenerateOne
  <2>7. \A f \in 1 .. len : Filled(m, new, wants, positions, f, slot, m.row + slot)
    BY <2>2, <2>6 DEF Filled, IsNull
  <2>8. ASSUME NEW j \in 0 .. slot, NEW f \in 1 .. len
        PROVE  Filled(m, new, wants, positions, f, j, m.row + j)
    <3>1. CASE j = slot
      BY <2>7, <3>1
    <3>2. CASE j # slot
      <4>1. j \in 0 .. slot - 1 /\ j \in Slots \ {slot}
        BY <1>1, <2>1, <3>2 DEF Slots, slot
      <4> QED
        BY <2>4, <2>6, <4>1, FilledStays
    <3> QED
      BY <3>1, <3>2
  <2> QED
    BY <2>6, <2>8 DEF Good, new, slot
<1>8. Good(n)
  <2> HIDE DEF I
  <2>1. \A k \in 0 .. n : k \in I
    BY <1>1, <1>6, <1>7, Upwards
  <2>2. n \in I
    BY <1>1, <2>1
  <2> HIDE DEF Good
  <2> QED
    BY <2>2 DEF I
<1> QED
  BY <1>1, <1>3, <1>5, <1>8 DEF fetch
=============================================================================
