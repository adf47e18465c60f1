------------------------- MODULE BindingClientProofs ------------------------
(***************************************************************************)
(* The client of ideas/binding and the caller that retries, for every row  *)
(* type, description of the columns, batch size and number of rows and     *)
(* lost sessions.                                                          *)
(***************************************************************************)
EXTENDS BindingClient, OciRowsProofs

(* ---- loops ------------------------------------------------------------- *)

\* The loop that binds the fields of a struct.
ParamsLoop(g, m, row, inputs, n) ==
    /\ BindParams(m, row, inputs) = g[n] /\ g[0] = m
    /\ \A i \in 1 .. n : g[i] = BindOneParam(g[i - 1], row[i], inputs[i])
LEMMA ParamsLoopRuns ==
    ASSUME NEW m, NEW row, NEW inputs, NEW n \in Nat, Len(row) = n
    PROVE  \E g : ParamsLoop(g, m, row, inputs, n)
<1> DEFINE Loop(g, k) == g = [i \in 0 .. k |-> IF i = 0 THEN m ELSE BindOneParam(g[i - 1], row[i], inputs[i])]
           I == {k \in Nat : \E g : Loop(g, k)}
<1>1. 0 \in I
  <2> DEFINE g == [i \in 0 .. 0 |-> m]
  <2>1. Loop(g, 0)
    OBVIOUS
  <2> QED
    BY <2>1
<1>2. ASSUME NEW k \in 1 .. n, k - 1 \in I PROVE k \in I
  <2>1. PICK g : Loop(g, k - 1)
    BY <1>2
  <2> DEFINE h == [i \in 0 .. k |-> IF i = k THEN BindOneParam(g[k - 1], row[k], inputs[k]) ELSE g[i]]
  <2>2. \A i \in 0 .. k : h[i] = IF i = 0 THEN m ELSE BindOneParam(h[i - 1], row[i], inputs[i])
    <3> SUFFICES ASSUME NEW i \in 0 .. k PROVE h[i] = IF i = 0 THEN m ELSE BindOneParam(h[i - 1], row[i], inputs[i])
      OBVIOUS
    <3>1. CASE i = k
      BY <3>1
    <3>2. CASE i # k
      BY <2>1, <3>2
    <3> QED
      BY <3>1, <3>2
  <2>3. Loop(h, k)
    BY <2>2
  <2>4. k \in Nat
    OBVIOUS
  <2> HIDE DEF h, Loop
  <2> QED
    BY <2>3, <2>4
<1>3. \E g : Loop(g, n)
  <2> HIDE DEF I
  <2>1. n \in I
    BY <1>1, <1>2, Upwards
  <2> QED
    BY <2>1 DEF I
<1> DEFINE f == CHOOSE g : Loop(g, n)
<1>4. BindParams(m, row, inputs) = f[n]
  BY DEF BindParams
<1>5. Loop(f, n)
  <2> HIDE DEF Loop
  <2> QED
    BY <1>3
<1>6. \A i \in 0 .. n : f[i] = IF i = 0 THEN m ELSE BindOneParam(f[i - 1], row[i], inputs[i])
  <2> HIDE DEF f
  <2> QED
    BY <1>5
<1>7. f[0] = m /\ \A i \in 1 .. n : f[i] = BindOneParam(f[i - 1], row[i], inputs[i])
  <2> HIDE DEF f
  <2> QED
    BY <1>6
<1> HIDE DEF f
<1>8. ParamsLoop(f, m, row, inputs, n)
  BY <1>4, <1>7 DEF ParamsLoop
<1> QED
  BY <1>8

\* The loop that defines the columns of a struct.
ColumnsLoop(g, m, row, positions, n) ==
    /\ DefineColumns(m, row, positions) = g[n] /\ g[0] = m
    /\ \A i \in 1 .. n : g[i] = DefineOneColumn(g[i - 1], i, row[i].kind, positions[i])
LEMMA ColumnsLoopRuns ==
    ASSUME NEW m, NEW row, NEW positions, NEW n \in Nat, Len(row) = n
    PROVE  \E g : ColumnsLoop(g, m, row, positions, n)
<1> DEFINE Loop(g, k) == g = [i \in 0 .. k |-> IF i = 0 THEN m ELSE DefineOneColumn(g[i - 1], i, row[i].kind, positions[i])]
           I == {k \in Nat : \E g : Loop(g, k)}
<1>1. 0 \in I
  <2> DEFINE g == [i \in 0 .. 0 |-> m]
  <2>1. Loop(g, 0)
    OBVIOUS
  <2> QED
    BY <2>1
<1>2. ASSUME NEW k \in 1 .. n, k - 1 \in I PROVE k \in I
  <2>1. PICK g : Loop(g, k - 1)
    BY <1>2
  <2> DEFINE h == [i \in 0 .. k |-> IF i = k THEN DefineOneColumn(g[k - 1], k, row[k].kind, positions[k]) ELSE g[i]]
  <2>2. \A i \in 0 .. k : h[i] = IF i = 0 THEN m ELSE DefineOneColumn(h[i - 1], i, row[i].kind, positions[i])
    <3> SUFFICES ASSUME NEW i \in 0 .. k PROVE h[i] = IF i = 0 THEN m ELSE DefineOneColumn(h[i - 1], i, row[i].kind, positions[i])
      OBVIOUS
    <3>1. CASE i = k
      BY <3>1
    <3>2. CASE i # k
      BY <2>1, <3>2
    <3> QED
      BY <3>1, <3>2
  <2>3. Loop(h, k)
    BY <2>2
  <2>4. k \in Nat
    OBVIOUS
  <2> HIDE DEF h, Loop
  <2> QED
    BY <2>3, <2>4
<1>3. \E g : Loop(g, n)
  <2> HIDE DEF I
  <2>1. n \in I
    BY <1>1, <1>2, Upwards
  <2> QED
    BY <2>1 DEF I
<1> DEFINE f == CHOOSE g : Loop(g, n)
<1>4. DefineColumns(m, row, positions) = f[n]
  BY DEF DefineColumns
<1>5. Loop(f, n)
  <2> HIDE DEF Loop
  <2> QED
    BY <1>3
<1>6. \A i \in 0 .. n : f[i] = IF i = 0 THEN m ELSE DefineOneColumn(f[i - 1], i, row[i].kind, positions[i])
  <2> HIDE DEF f
  <2> QED
    BY <1>5
<1>7. f[0] = m /\ \A i \in 1 .. n : f[i] = DefineOneColumn(f[i - 1], i, row[i].kind, positions[i])
  <2> HIDE DEF f
  <2> QED
    BY <1>6
<1> HIDE DEF f
<1>8. ColumnsLoop(f, m, row, positions, n)
  BY <1>4, <1>7 DEF ColumnsLoop
<1> QED
  BY <1>8

\* The loop that defines the outputs of select().
OneOutput(m, f, kind) ==
    DefineByPos(m, f, [area |-> "batch", field |-> f, type |-> TypeCode(kind), stride |-> 0, ind |-> FALSE])
OutputsLoop(g, m, row, n) ==
    /\ DefinePositionalOutputs(m, row) = g[n] /\ g[0] = m
    /\ \A i \in 1 .. n : g[i] = OneOutput(g[i - 1], i, row[i].kind)
LEMMA OutputsLoopRuns ==
    ASSUME NEW m, NEW row, NEW n \in Nat, Len(row) = n
    PROVE  \E g : OutputsLoop(g, m, row, n)
<1> DEFINE Loop(g, k) == g = [i \in 0 .. k |-> IF i = 0 THEN m ELSE OneOutput(g[i - 1], i, row[i].kind)]
           I == {k \in Nat : \E g : Loop(g, k)}
<1>1. 0 \in I
  <2> DEFINE g == [i \in 0 .. 0 |-> m]
  <2>1. Loop(g, 0)
    OBVIOUS
  <2> QED
    BY <2>1
<1>2. ASSUME NEW k \in 1 .. n, k - 1 \in I PROVE k \in I
  <2>1. PICK g : Loop(g, k - 1)
    BY <1>2
  <2> DEFINE h == [i \in 0 .. k |-> IF i = k THEN OneOutput(g[k - 1], k, row[k].kind) ELSE g[i]]
  <2>2. \A i \in 0 .. k : h[i] = IF i = 0 THEN m ELSE OneOutput(h[i - 1], i, row[i].kind)
    <3> SUFFICES ASSUME NEW i \in 0 .. k PROVE h[i] = IF i = 0 THEN m ELSE OneOutput(h[i - 1], i, row[i].kind)
      OBVIOUS
    <3>1. CASE i = k
      BY <3>1
    <3>2. CASE i # k
      BY <2>1, <3>2
    <3> QED
      BY <3>1, <3>2
  <2>3. Loop(h, k)
    BY <2>2
  <2>4. k \in Nat
    OBVIOUS
  <2> HIDE DEF h, Loop
  <2> QED
    BY <2>3, <2>4
<1>3. \E g : Loop(g, n)
  <2> HIDE DEF I
  <2>1. n \in I
    BY <1>1, <1>2, Upwards
  <2> QED
    BY <2>1 DEF I
<1> DEFINE f == CHOOSE g : Loop(g, n)
<1>4. DefinePositionalOutputs(m, row) = f[n]
  BY DEF DefinePositionalOutputs, OneOutput
<1>5. Loop(f, n)
  <2> HIDE DEF Loop
  <2> QED
    BY <1>3
<1>6. \A i \in 0 .. n : f[i] = IF i = 0 THEN m ELSE OneOutput(f[i - 1], i, row[i].kind)
  <2> HIDE DEF f
  <2> QED
    BY <1>5
<1>7. f[0] = m /\ \A i \in 1 .. n : f[i] = OneOutput(f[i - 1], i, row[i].kind)
  <2> HIDE DEF f
  <2> QED
    BY <1>6
<1> HIDE DEF f
<1>8. OutputsLoop(f, m, row, n)
  BY <1>4, <1>7 DEF OutputsLoop
<1> QED
  BY <1>8

\* The loop that frees the temporary LOBs of a call's input.
FreeLoop(g, m, n) ==
    /\ FreeInputs(m) = g[n] /\ g[0] = m
    /\ \A i \in 1 .. n : g[i] = FreeTempLob(g[i - 1])
LEMMA FreeLoopRuns ==
    ASSUME NEW m, NEW n \in Nat, LobFields(job.in) = n
    PROVE  \E g : FreeLoop(g, m, n)
<1> DEFINE Loop(g, k) == g = [i \in 0 .. k |-> IF i = 0 THEN m ELSE FreeTempLob(g[i - 1])]
           I == {k \in Nat : \E g : Loop(g, k)}
<1>1. 0 \in I
  <2> DEFINE g == [i \in 0 .. 0 |-> m]
  <2>1. Loop(g, 0)
    OBVIOUS
  <2> QED
    BY <2>1
<1>2. ASSUME NEW k \in 1 .. n, k - 1 \in I PROVE k \in I
  <2>1. PICK g : Loop(g, k - 1)
    BY <1>2
  <2> DEFINE h == [i \in 0 .. k |-> IF i = k THEN FreeTempLob(g[k - 1]) ELSE g[i]]
  <2>2. \A i \in 0 .. k : h[i] = IF i = 0 THEN m ELSE FreeTempLob(h[i - 1])
    <3> SUFFICES ASSUME NEW i \in 0 .. k PROVE h[i] = IF i = 0 THEN m ELSE FreeTempLob(h[i - 1])
      OBVIOUS
    <3>1. CASE i = k
      BY <3>1
    <3>2. CASE i # k
      BY <2>1, <3>2
    <3> QED
      BY <3>1, <3>2
  <2>3. Loop(h, k)
    BY <2>2
  <2>4. k \in Nat
    OBVIOUS
  <2> HIDE DEF h, Loop
  <2> QED
    BY <2>3, <2>4
<1>3. \E g : Loop(g, n)
  <2> HIDE DEF I
  <2>1. n \in I
    BY <1>1, <1>2, Upwards
  <2> QED
    BY <2>1 DEF I
<1> DEFINE f == CHOOSE g : Loop(g, n)
<1>4. FreeInputs(m) = f[n]
  BY DEF FreeInputs
<1>5. Loop(f, n)
  <2> HIDE DEF Loop
  <2> QED
    BY <1>3
<1>6. \A i \in 0 .. n : f[i] = IF i = 0 THEN m ELSE FreeTempLob(f[i - 1])
  <2> HIDE DEF f
  <2> QED
    BY <1>5
<1>7. f[0] = m /\ \A i \in 1 .. n : f[i] = FreeTempLob(f[i - 1])
  <2> HIDE DEF f
  <2> QED
    BY <1>6
<1> HIDE DEF f
<1>8. FreeLoop(f, m, n)
  BY <1>4, <1>7 DEF FreeLoop
<1> QED
  BY <1>8

(* ---- counting ---------------------------------------------------------- *)

\* The LOB fields among the first k of a struct.
LobsTo(row, k) == {f \in 1 .. k : row[f].kind = "lob"}
LobsCounted(row, n) ==
    /\ LobFields(row) = Cardinality(LobsTo(row, n)) /\ LobFields(row) \in Nat
    /\ Cardinality(LobsTo(row, 0)) = 0
    /\ \A k \in 0 .. n : Cardinality(LobsTo(row, k)) \in Nat
    /\ \A k \in 1 .. n : Cardinality(LobsTo(row, k)) =
                         Cardinality(LobsTo(row, k - 1)) + IF row[k].kind = "lob" THEN 1 ELSE 0
LEMMA Lobs == ASSUME NEW row, NEW n \in Nat, Len(row) = n PROVE LobsCounted(row, n)
<1>1. \A k \in Nat : IsFiniteSet(LobsTo(row, k))
  <2> SUFFICES ASSUME NEW k \in Nat PROVE IsFiniteSet(LobsTo(row, k))
    OBVIOUS
  <2>1. IsFiniteSet(1 .. k)
    BY FS_Interval
  <2>2. LobsTo(row, k) \subseteq 1 .. k
    BY DEF LobsTo
  <2> QED
    BY <2>1, <2>2, FS_Subset
<1>2. \A k \in Nat : Cardinality(LobsTo(row, k)) \in Nat
  BY <1>1, FS_CardinalityType
<1>3. LobFields(row) = Cardinality(LobsTo(row, n))
  BY DEF LobFields, LobsTo
<1>4. Cardinality(LobsTo(row, 0)) = 0
  <2>1. LobsTo(row, 0) = {}
    BY DEF LobsTo
  <2> QED
    BY <2>1, FS_EmptySet
<1>5. ASSUME NEW k \in 1 .. n
      PROVE  Cardinality(LobsTo(row, k)) =
             Cardinality(LobsTo(row, k - 1)) + IF row[k].kind = "lob" THEN 1 ELSE 0
  <2>1. k - 1 \in Nat /\ IsFiniteSet(LobsTo(row, k - 1)) /\ Cardinality(LobsTo(row, k - 1)) \in Nat
    BY <1>1, <1>2
  <2>2. CASE row[k].kind = "lob"
    <3>1. LobsTo(row, k) = LobsTo(row, k - 1) \cup {k} /\ k \notin LobsTo(row, k - 1)
      BY <2>2 DEF LobsTo
    <3>2. Cardinality(LobsTo(row, k - 1) \cup {k}) = Cardinality(LobsTo(row, k - 1)) + 1
      BY <2>1, <3>1, FS_AddElement
    <3> QED
      BY <2>2, <3>1, <3>2
  <2>3. CASE row[k].kind # "lob"
    <3>1. LobsTo(row, k) = LobsTo(row, k - 1)
      BY <2>3 DEF LobsTo
    <3> QED
      BY <2>1, <2>3, <3>1
  <2> QED
    BY <2>2, <2>3
<1> QED
  BY <1>2, <1>3, <1>4, <1>5 DEF LobsCounted

(* ---- binding and defining ---------------------------------------------- *)

\* Binding makes n temporary LOBs with their locators, and leaves the rest.
Bound(m, b, n) ==
    /\ MockOK(b) /\ SameCursor(m, b) /\ b.misused = m.misused /\ b.defines = m.defines
    /\ b.live["LOB"] = m.live["LOB"] + n /\ b.live["TEMP"] = m.live["TEMP"] + n
    /\ \A k \in Kinds \ {"LOB", "TEMP"} : b.live[k] = m.live[k]

LEMMA BindOneKeeps ==
    ASSUME NEW m, MockOK(m), NEW b, NEW n \in Nat, Bound(m, b, n), NEW field, NEW present
    PROVE  Bound(m, BindOneParam(b, field, present), IF field.kind = "lob" THEN n + 1 ELSE n)
<1> DEFINE one == DescriptorAlloc(b)
           two == LobCreateTemporary(one)
           after == BindOneParam(b, field, present)
<1>1. MockOK(b)
  BY DEF Bound
<1>2. CASE field.kind = "lob"
  <2>1. /\ MockOK(one) /\ OneMore(b, one, "LOB") /\ SameCursor(b, one) /\ one.misused = b.misused
        /\ one.defines = b.defines
    BY <1>1, AllocOne DEF DescriptorAlloc, Kinds
  <2>2. after = BindByName(two, "notnull")
    BY <1>2 DEF BindOneParam, MakeTempLob
  <2> HIDE DEF one
  <2>3. /\ MockOK(two) /\ OneMore(one, two, "TEMP") /\ SameCursor(one, two) /\ two.misused = one.misused
        /\ two.defines = one.defines
    BY <2>1, AllocOne DEF LobCreateTemporary, Kinds
  <2> HIDE DEF two
  <2>4. MockOK(after) /\ SameHandles(two, after) /\ SameCursor(two, after) /\ after.defines = two.defines
    BY <2>2, <2>3, BindKeeps
  <2> HIDE DEF after
  <2>5. /\ SameCursor(m, after) /\ after.misused = m.misused /\ after.defines = m.defines
    BY <2>1, <2>3, <2>4 DEF SameHandles, SameCursor, Bound
  <2>6. /\ after.live["LOB"] = b.live["LOB"] + 1 /\ after.live["TEMP"] = b.live["TEMP"] + 1
        /\ \A k \in Kinds \ {"LOB", "TEMP"} : after.live[k] = b.live[k]
    BY <2>1, <2>3, <2>4 DEF SameHandles, OneMore, Kinds
  <2>7. /\ b.live["LOB"] = m.live["LOB"] + n /\ b.live["TEMP"] = m.live["TEMP"] + n
        /\ \A k \in Kinds \ {"LOB", "TEMP"} : b.live[k] = m.live[k]
    BY DEF Bound
  <2>8. m.live["LOB"] \in Nat /\ m.live["TEMP"] \in Nat
    BY DEF MockOK, Kinds
  <2>9. /\ after.live["LOB"] = m.live["LOB"] + (n + 1) /\ after.live["TEMP"] = m.live["TEMP"] + (n + 1)
    BY ONLY n \in Nat, <2>6, <2>7, <2>8
  <2>10. \A k \in Kinds \ {"LOB", "TEMP"} : after.live[k] = m.live[k]
    BY <2>6, <2>7
  <2>11. Bound(m, after, n + 1)
    BY <2>4, <2>5, <2>9, <2>10 DEF Bound
  <2> QED
    BY <1>2, <2>11 DEF after
<1>3. CASE field.kind # "lob"
  <2> DEFINE ind == IF field.kind = "opt" /\ ~present THEN "null" ELSE "notnull"
  <2>1. after = BindByName(b, ind)
    BY <1>3 DEF BindOneParam
  <2> HIDE DEF ind, after
  <2>2. MockOK(after) /\ SameHandles(b, after) /\ SameCursor(b, after) /\ after.defines = b.defines
    BY <1>1, <2>1, BindKeeps
  <2>3. Bound(m, after, n)
    BY <2>2 DEF Bound, SameHandles, SameCursor
  <2> QED
    BY <1>3, <2>3 DEF after
<1> QED
  BY <1>2, <1>3

LEMMA ParamsKeep ==
    ASSUME NEW m, MockOK(m), NEW row, NEW inputs, Len(row) \in Nat
    PROVE  Bound(m, BindParams(m, row, inputs), LobFields(row)) /\ LobFields(row) \in Nat
<1> DEFINE n == Len(row)
<1>1. n \in Nat /\ Len(row) = n
  OBVIOUS
<1> HIDE DEF n
<1>2. \E g : ParamsLoop(g, m, row, inputs, n)
  BY <1>1, ParamsLoopRuns
<1>3. PICK g : ParamsLoop(g, m, row, inputs, n)
  BY ONLY <1>2
<1>4. /\ BindParams(m, row, inputs) = g[n] /\ g[0] = m
      /\ \A i \in 1 .. n : g[i] = BindOneParam(g[i - 1], row[i], inputs[i])
  BY <1>3 DEF ParamsLoop
<1> DEFINE count(k) == Cardinality(LobsTo(row, k))
<1>5. /\ LobFields(row) = count(n) /\ LobFields(row) \in Nat /\ count(0) = 0
      /\ \A k \in 0 .. n : count(k) \in Nat
      /\ \A k \in 1 .. n : count(k) = count(k - 1) + IF row[k].kind = "lob" THEN 1 ELSE 0
  BY <1>1, Lobs DEF LobsCounted
<1> HIDE DEF count
<1> DEFINE I == {k \in Nat : Bound(m, g[k], count(k))}
<1>6. 0 \in I
  <2>1. m.live["LOB"] \in Nat /\ m.live["TEMP"] \in Nat
    BY DEF MockOK, Kinds
  <2>2. Bound(m, g[0], count(0))
    BY <1>4, <1>5, <2>1 DEF Bound, SameCursor
  <2> QED
    BY <2>2
<1>7. \A k \in 1 .. n : k - 1 \in I => k \in I
  <2> SUFFICES ASSUME NEW k \in 1 .. n, k - 1 \in I PROVE Bound(m, g[k], count(k))
    BY <1>1
  <2>1. Bound(m, g[k - 1], count(k - 1)) /\ count(k - 1) \in Nat
    BY <1>1, <1>5
  <2>2. Bound(m, g[k], IF row[k].kind = "lob" THEN count(k - 1) + 1 ELSE count(k - 1))
    BY <1>4, <2>1, BindOneKeeps
  <2>3. count(k) = IF row[k].kind = "lob" THEN count(k - 1) + 1 ELSE count(k - 1)
    BY <1>5, <2>1
  <2> QED
    BY <2>2, <2>3
<1>8. n \in I
  <2> HIDE DEF I
  <2>1. \A k \in 0 .. n : k \in I
    BY <1>1, <1>6, <1>7, Upwards
  <2> QED
    BY <1>1, <2>1
<1> QED
  BY <1>4, <1>5, <1>8

\* A struct without LOBs makes none.
LEMMA PlainHasNoLob == ASSUME NEW row \in Plain PROVE LobFields(row) = 0 /\ StructOK(row)
<1>1. row \in RowTypes /\ \A f \in 1 .. Len(row) : row[f].kind \in {"int", "fixed"}
  BY DEF Plain
<1>2. {f \in 1 .. Len(row) : row[f].kind = "lob"} = {}
  BY <1>1
<1> QED
  BY <1>1, <1>2, RowTypeOK, FS_EmptySet DEF LobFields

LEMMA NoneHasNoLob == LobFields(<<>>) = 0 /\ Len(<<>>) = 0
<1>1. {f \in 1 .. Len(<<>>) : <<>>[f].kind = "lob"} = {}
  OBVIOUS
<1> QED
  BY <1>1, FS_EmptySet DEF LobFields

\* Defining leaves handles and cursor.
Kept(m, n) == MockOK(n) /\ SameHandles(m, n) /\ SameCursor(m, n) /\ n.columns = m.columns

LEMMA OutputsKeep ==
    ASSUME NEW m, MockOK(m), NEW row, Len(row) \in Nat
    PROVE  Kept(m, DefinePositionalOutputs(m, row))
<1> DEFINE n == Len(row)
<1>1. n \in Nat /\ Len(row) = n
  OBVIOUS
<1> HIDE DEF n
<1>2. \E g : OutputsLoop(g, m, row, n)
  BY <1>1, OutputsLoopRuns
<1>3. PICK g : OutputsLoop(g, m, row, n)
  BY ONLY <1>2
<1>4. /\ DefinePositionalOutputs(m, row) = g[n] /\ g[0] = m
      /\ \A i \in 1 .. n : g[i] = OneOutput(g[i - 1], i, row[i].kind)
  BY <1>3 DEF OutputsLoop
<1> DEFINE I == {k \in Nat : Kept(m, g[k])}
<1>5. 0 \in I
  BY <1>4 DEF Kept, SameHandles, SameCursor
<1>6. \A k \in 1 .. n : k - 1 \in I => k \in I
  <2> SUFFICES ASSUME NEW k \in 1 .. n, Kept(m, g[k - 1]) PROVE Kept(m, g[k])
    BY <1>1
  <2> DEFINE d == [area |-> "batch", field |-> k, type |-> TypeCode(row[k].kind), stride |-> 0, ind |-> FALSE]
  <2>1. g[k] = DefineByPos(g[k - 1], k, d) /\ MockOK(g[k - 1])
    BY <1>4 DEF OneOutput, Kept
  <2> HIDE DEF d
  <2>2. Kept(g[k - 1], g[k])
    BY <2>1, DefinedKeeps DEF Kept
  <2> QED
    BY <2>2 DEF Kept, SameHandles, SameCursor
<1>7. n \in I
  <2> HIDE DEF I
  <2>1. \A k \in 0 .. n : k \in I
    BY <1>1, <1>5, <1>6, Upwards
  <2> QED
    BY <1>1, <2>1
<1> QED
  BY <1>4, <1>7

LEMMA ColumnKeeps ==
    ASSUME NEW m, MockOK(m), NEW f, NEW kind, NEW position
    PROVE  /\ Kept(m, DefineOneColumn(m, f, kind, position))
           /\ DefineOneColumn(m, f, kind, position) = Strided(m, position, ColumnDefine(f, kind))
<1> DEFINE n == DefineByPos(m, position, ColumnDefine(f, kind))
           o == DefineArrayOfStruct(n, position, 1)
<1>1. Kept(m, n)
  BY DefinedKeeps DEF Kept
<1> HIDE DEF n
<1>2. Kept(n, o)
  BY <1>1, StrideKeeps DEF Kept
<1> HIDE DEF o
<1>3. Kept(m, o)
  BY <1>1, <1>2 DEF Kept, SameHandles, SameCursor
<1> QED
  BY <1>3 DEF DefineOneColumn, Strided, o, n

\* What each field wants defined.
LEMMA WantsFit == ASSUME NEW row, StructOK(row) PROVE WantsOK(DefinesOf(row), Len(row))
<1>1. Len(row) \in Nat /\ DOMAIN DefinesOf(row) = 1 .. Len(row)
  BY DEF StructOK, DefinesOf
<1>2. ASSUME NEW f \in 1 .. Len(row)
      PROVE  LET d == DefinesOf(row)[f]
             IN  /\ DOMAIN d = {"area", "field", "type", "stride", "ind"}
                 /\ d.area \in {"batch", "stage"} /\ d.field = f
                 /\ d.type \in Written /\ d.ind \in BOOLEAN
  <2> DEFINE kind == row[f].kind
             d == ColumnDefine(f, kind)
  <2>1. kind \in Kind /\ DefinesOf(row)[f] = d
    BY DEF StructOK, DefinesOf
  <2> HIDE DEF kind
  <2>2. /\ DOMAIN d = {"area", "field", "type", "stride", "ind"}
        /\ d.area = (IF Staged(kind) THEN "stage" ELSE "batch") /\ d.field = f
        /\ d.type = TypeCode(kind) /\ d.ind = Staged(kind)
    BY DEF ColumnDefine
  <2>3. TypeCode(kind) \in Written /\ Staged(kind) \in BOOLEAN
    BY <2>1 DEF TypeCode, Written, Kind, Staged
  <2> HIDE DEF d
  <2> QED
    BY <2>1, <2>2, <2>3
<1> QED
  BY <1>1, <1>2 DEF WantsOK

LEMMA ColumnsKeep ==
    ASSUME NEW m, MockOK(m), NEW row, Len(row) \in Nat, NEW positions
    PROVE  Kept(m, DefineColumns(m, row, positions))
<1> DEFINE n == Len(row)
<1>1. n \in Nat /\ Len(row) = n
  OBVIOUS
<1> HIDE DEF n
<1>2. \E g : ColumnsLoop(g, m, row, positions, n)
  BY <1>1, ColumnsLoopRuns
<1>3. PICK g : ColumnsLoop(g, m, row, positions, n)
  BY ONLY <1>2
<1>4. /\ DefineColumns(m, row, positions) = g[n] /\ g[0] = m
      /\ \A i \in 1 .. n : g[i] = DefineOneColumn(g[i - 1], i, row[i].kind, positions[i])
  BY <1>3 DEF ColumnsLoop
<1> DEFINE I == {k \in Nat : Kept(m, g[k])}
<1>5. 0 \in I
  BY <1>4 DEF Kept, SameHandles, SameCursor
<1>6. \A k \in 1 .. n : k - 1 \in I => k \in I
  <2> SUFFICES ASSUME NEW k \in 1 .. n, Kept(m, g[k - 1]) PROVE Kept(m, g[k])
    BY <1>1
  <2>1. Kept(g[k - 1], g[k])
    BY <1>4, ColumnKeeps DEF Kept
  <2> QED
    BY <2>1 DEF Kept, SameHandles, SameCursor
<1>7. n \in I
  <2> HIDE DEF I
  <2>1. \A k \in 0 .. n : k \in I
    BY <1>1, <1>5, <1>6, Upwards
  <2> QED
    BY <1>1, <2>1
<1> QED
  BY <1>4, <1>7

LEMMA ColumnsPlaced ==
    ASSUME NEW m, MockOK(m), m.defines = <<>>, NEW row, StructOK(row), NEW positions,
           \A f \in 1 .. Len(row) : positions[f] \in Nat \ {0},
           \A f, g \in 1 .. Len(row) : positions[f] = positions[g] => f = g
    PROVE  Placed(DefineColumns(m, row, positions).defines, DefinesOf(row), positions)
<1> DEFINE n == Len(row)
           ds == DefinesOf(row)
<1>1. n \in Nat /\ Len(row) = n /\ WantsOK(ds, n)
  BY WantsFit DEF StructOK
<1>2. \A f \in 1 .. n : ds[f] = ColumnDefine(f, row[f].kind)
  BY DEF DefinesOf
<1>3. /\ \A f \in 1 .. n : positions[f] \in Nat \ {0}
      /\ \A f, h \in 1 .. n : positions[f] = positions[h] => f = h
  BY DEF n
<1> HIDE DEF n, ds
<1>4. \E g : ColumnsLoop(g, m, row, positions, n)
  BY <1>1, ColumnsLoopRuns
<1>5. PICK g : ColumnsLoop(g, m, row, positions, n)
  BY ONLY <1>4
<1>6. /\ DefineColumns(m, row, positions) = g[n] /\ g[0] = m
      /\ \A i \in 1 .. n : g[i] = DefineOneColumn(g[i - 1], i, row[i].kind, positions[i])
  BY <1>5 DEF ColumnsLoop
<1>7. DefinedOneByOne(g, m, ds, positions, n)
  BY <1>2, <1>6 DEF DefinedOneByOne, DefineOneColumn, Strided
<1>8. Placed(g[n].defines, ds, positions)
  BY ONLY MockOK(m), m.defines = <<>>, <1>1, <1>3, <1>7, DefinesPlaced
<1> QED
  BY <1>6, <1>8 DEF ds

\* The position a field is given is the last column of its name, and no two fields get
\* one position.
LEMMA Resolved ==
    ASSUME MockOK(mock), NEW row, StructOK(row),
           NEW positions, positions = ResolveColumnPositions(row),
           \A f \in DOMAIN positions : positions[f] # 0
    PROVE  /\ \A f \in 1 .. Len(row) : positions[f] \in Nat \ {0} /\ positions[f] = ColumnFor(row, f)
           /\ \A f, g \in 1 .. Len(row) : positions[f] = positions[g] => f = g
<1> DEFINE n == Len(mock.columns)
<1>1. n \in Nat /\ DOMAIN mock.columns = 1 .. n /\ (n = 0 <=> mock.columns = <<>>) /\ ParamCount(mock) = n
  BY ColumnsOK DEF ParamCount
<1>0. Len(mock.columns) = n
  OBVIOUS
<1> HIDE DEF n
<1>2. CASE n = 0
  <2>1. \A f \in 1 .. Len(row) : positions[f] = f /\ ColumnFor(row, f) = f
    BY <1>1, <1>2 DEF ResolveColumnPositions, ColumnFor
  <2> QED
    BY <2>1 DEF StructOK
<1>3. CASE n # 0
  <2> DEFINE named(f) == {p \in 1 .. n : mock.columns[p].name = row[f].name}
             Last(f, p) == p \in named(f) /\ \A q \in named(f) : q <= p
             Column(f, p) == /\ p \in 1 .. n /\ mock.columns[p].name = row[f].name
                             /\ \A q \in p + 1 .. n : mock.columns[q].name # row[f].name
  <2>1. /\ DOMAIN positions = 1 .. Len(row)
        /\ \A f \in 1 .. Len(row) : positions[f] = IF named(f) = {} THEN 0 ELSE CHOOSE p : Last(f, p)
    BY <1>1, <1>3 DEF ResolveColumnPositions
  <2>2. ASSUME NEW f \in 1 .. Len(row)
        PROVE  /\ positions[f] \in 1 .. n /\ positions[f] = ColumnFor(row, f)
               /\ mock.columns[positions[f]].name = row[f].name
    <3> DEFINE p0 == positions[f]
    <3>1. named(f) # {} /\ named(f) \subseteq 1 .. n /\ p0 = CHOOSE p : Last(f, p)
      BY <2>1
    <3>2. \E p : Last(f, p)
      <4> DEFINE S == named(f)
      <4>1. S # {} /\ S \subseteq 1 .. n
        BY <3>1
      <4> HIDE DEF S
      <4>2. \E p \in S : \A q \in S : q <= p
        BY <1>1, <4>1, GreatestOf
      <4> QED
        BY <4>2 DEF S
    <3>3. Last(f, p0)
      <4> HIDE DEF Last
      <4> QED
        BY <3>1, <3>2
    <3> HIDE DEF p0
    <3>4. Column(f, p0)
      <4>1. p0 \in 1 .. n /\ mock.columns[p0].name = row[f].name
        BY <3>3
      <4>2. ASSUME NEW q \in p0 + 1 .. n, mock.columns[q].name = row[f].name PROVE FALSE
        <5>1. q \in 1 .. n /\ q > p0
          BY <1>1, <4>1
        <5>2. q <= p0
          BY <3>3, <4>2, <5>1
        <5> QED
          BY <4>1, <5>1, <5>2
      <4> QED
        BY <4>1, <4>2
    <3>5. \A p : Column(f, p) => p = p0
      <4> SUFFICES ASSUME NEW p, Column(f, p) PROVE p = p0
        OBVIOUS
      <4>1. p \in named(f) /\ p <= p0 /\ p \in 1 .. n /\ p0 \in 1 .. n
        BY <3>3
      <4>2. ~ (p0 \in p + 1 .. n)
        BY <3>3
      <4> QED
        BY <1>1, <4>1, <4>2
    <3>6. ColumnFor(row, f) = CHOOSE p : Column(f, p)
      BY <1>0, <1>1, <1>3 DEF ColumnFor
    <3>7. ColumnFor(row, f) = p0
      <4> HIDE DEF Column
      <4> QED
        BY <3>4, <3>5, <3>6
    <3> QED
      BY <3>4, <3>7 DEF p0
  <2>3. \A f, g \in 1 .. Len(row) : positions[f] = positions[g] => f = g
    BY <2>2 DEF StructOK
  <2> QED
    BY <2>2, <2>3
<1> QED
  BY <1>1, <1>2, <1>3

(* ---- handles ----------------------------------------------------------- *)

\* The connection's handles, `open` of each, and a call's statements, locators and
\* temporary LOBs: no fewer, and no more unless an exception left some behind.
Held(m, lax, open, stmts, lobs, temps) ==
    /\ MockOK(m) /\ (~lax => ~m.misused)
    /\ \A k \in Session : m.live[k] = open
    /\ m.live["STMT"] >= stmts /\ m.live["LOB"] >= lobs /\ m.live["TEMP"] >= temps
    /\ ~lax => m.live["STMT"] = stmts /\ m.live["LOB"] = lobs /\ m.live["TEMP"] = temps

LEMMA KindsAre == /\ Session = {"ENV", "ERROR", "SVC"} /\ Session \subseteq Kinds
                  /\ Kinds \ Session = {"STMT", "LOB", "TEMP"}
  BY DEF Session, Kinds

LEMMA LiveIsNat == ASSUME NEW m, MockOK(m) PROVE \A k \in Kinds : m.live[k] \in Nat
  BY DEF MockOK

LEMMA HeldSame ==
    ASSUME NEW m, NEW lax, NEW open, NEW s, NEW l, NEW t, Held(m, lax, open, s, l, t),
           NEW n, MockOK(n), SameHandles(m, n)
    PROVE  Held(n, lax, open, s, l, t)
  BY DEF Held, SameHandles

LEMMA HeldStmt ==
    ASSUME NEW m, NEW lax, NEW open, NEW l, NEW t, Held(m, lax, open, 0, l, t)
    PROVE  Held(HandleAlloc(m, "STMT"), lax, open, 1, l, t)
<1> DEFINE n == HandleAlloc(m, "STMT")
<1>1. MockOK(n) /\ OneMore(m, n, "STMT") /\ n.misused = m.misused /\ \A k \in Kinds : m.live[k] \in Nat
  BY AllocOne, LiveIsNat DEF Held, Kinds
<1> HIDE DEF n
<1>2. Held(n, lax, open, 1, l, t)
  BY <1>1, KindsAre DEF Held, OneMore, Session, Kinds
<1> QED
  BY <1>2 DEF n

LEMMA HeldBound ==
    ASSUME NEW m, NEW lax, NEW open, NEW s, Held(m, lax, open, s, 0, 0),
           NEW n \in Nat, NEW b, Bound(m, b, n)
    PROVE  Held(b, lax, open, s, n, n)
<1>1. \A k \in Kinds : m.live[k] \in Nat
  BY LiveIsNat DEF Held
<1> QED
  BY <1>1, KindsAre DEF Held, Bound, Session, Kinds

LEMMA HeldFreed ==
    ASSUME NEW m, NEW lax, NEW open, NEW s \in Nat, NEW l \in Nat, NEW t \in Nat, Held(m, lax, open, s, l, t)
    PROVE  /\ s > 0 => Held(HandleFree(m, "STMT"), lax, open, s - 1, l, t)
           /\ l > 0 => Held(HandleFree(m, "LOB"), lax, open, s, l - 1, t)
           /\ t > 0 => Held(HandleFree(m, "TEMP"), lax, open, s, l, t - 1)
<1>1. MockOK(m) /\ \A k \in Kinds : m.live[k] \in Nat
  BY LiveIsNat DEF Held
<1>2. ASSUME NEW kind \in {"STMT", "LOB", "TEMP"}, m.live[kind] > 0,
             NEW n, n = HandleFree(m, kind)
      PROVE  MockOK(n) /\ OneLess(m, n, kind) /\ (~m.misused => ~n.misused)
  <2>1. kind \in Kinds /\ kind # "ENV"
    BY DEF Kinds
  <2>2. /\ MockOK(HandleFree(m, kind)) /\ OneLess(m, HandleFree(m, kind), kind)
        /\ ~m.misused /\ (kind = "ENV" => \A k \in Kinds \ {"ENV"} : m.live[k] = 0)
             => ~HandleFree(m, kind).misused
    BY ONLY <1>1, <1>2, <2>1, FreeSome
  <2> QED
    BY <1>2, <2>1, <2>2
<1>3. ASSUME s > 0 PROVE Held(HandleFree(m, "STMT"), lax, open, s - 1, l, t)
  <2> DEFINE n == HandleFree(m, "STMT")
  <2>1. m.live["STMT"] > 0
    BY <1>1, <1>3 DEF Held, Kinds
  <2>2. MockOK(n) /\ OneLess(m, n, "STMT") /\ (~m.misused => ~n.misused)
    BY <1>2, <2>1
  <2> HIDE DEF n
  <2>3. Held(n, lax, open, s - 1, l, t)
    BY <1>1, <2>2, KindsAre DEF Held, OneLess, Session, Kinds
  <2> QED
    BY <2>3 DEF n
<1>4. ASSUME l > 0 PROVE Held(HandleFree(m, "LOB"), lax, open, s, l - 1, t)
  <2> DEFINE n == HandleFree(m, "LOB")
  <2>1. m.live["LOB"] > 0
    BY <1>1, <1>4 DEF Held, Kinds
  <2>2. MockOK(n) /\ OneLess(m, n, "LOB") /\ (~m.misused => ~n.misused)
    BY <1>2, <2>1
  <2> HIDE DEF n
  <2>3. Held(n, lax, open, s, l - 1, t)
    BY <1>1, <2>2, KindsAre DEF Held, OneLess, Session, Kinds
  <2> QED
    BY <2>3 DEF n
<1>5. ASSUME t > 0 PROVE Held(HandleFree(m, "TEMP"), lax, open, s, l, t - 1)
  <2> DEFINE n == HandleFree(m, "TEMP")
  <2>1. m.live["TEMP"] > 0
    BY <1>1, <1>5 DEF Held, Kinds
  <2>2. MockOK(n) /\ OneLess(m, n, "TEMP") /\ (~m.misused => ~n.misused)
    BY <1>2, <2>1
  <2> HIDE DEF n
  <2>3. Held(n, lax, open, s, l, t - 1)
    BY <1>1, <2>2, KindsAre DEF Held, OneLess, Session, Kinds
  <2> QED
    BY <2>3 DEF n
<1> QED
  BY <1>3, <1>4, <1>5

\* The loop over the input's temporary LOBs frees each with its locator.
LEMMA InputsFreed ==
    ASSUME NEW m, NEW lax, NEW open, NEW n \in Nat, LobFields(job.in) = n,
           Held(m, lax, open, 1, n, n)
    PROVE  Held(FreeInputs(m), lax, open, 1, 0, 0)
<1>1. \E g : FreeLoop(g, m, n)
  BY FreeLoopRuns
<1>2. PICK g : FreeLoop(g, m, n)
  BY ONLY <1>1
<1>3. FreeInputs(m) = g[n] /\ g[0] = m /\ \A i \in 1 .. n : g[i] = FreeTempLob(g[i - 1])
  BY <1>2 DEF FreeLoop
<1> DEFINE I == {k \in Nat : k <= n => Held(g[k], lax, open, 1, n - k, n - k)}
<1>4. 0 \in I
  BY <1>3
<1>5. \A k \in 1 .. n : k - 1 \in I => k \in I
  <2> SUFFICES ASSUME NEW k \in 1 .. n, k - 1 \in I PROVE Held(g[k], lax, open, 1, n - k, n - k)
    BY DEF I
  <2> DEFINE c == n - (k - 1)
             one == HandleFree(g[k - 1], "TEMP")
  <2>1. c \in Nat /\ c > 0 /\ c - 1 \in Nat /\ c - 1 = n - k
    OBVIOUS
  <2>2. Held(g[k - 1], lax, open, 1, c, c)
    BY DEF c
  <2>3. g[k] = HandleFree(one, "LOB")
    BY <1>3 DEF FreeTempLob, LobFreeTemporary, DescriptorFree
  <2> HIDE DEF c
  <2>4. Held(one, lax, open, 1, c, c - 1)
    BY <2>1, <2>2, HeldFreed
  <2> HIDE DEF one
  <2>5. Held(g[k], lax, open, 1, c - 1, c - 1)
    BY <2>1, <2>3, <2>4, HeldFreed
  <2> QED
    BY <2>1, <2>5
<1>6. n \in I
  <2> HIDE DEF I
  <2>1. \A k \in 0 .. n : k \in I
    BY <1>4, <1>5, Upwards
  <2> QED
    BY <2>1
<1>7. Held(g[n], lax, open, 1, 0, 0)
  BY <1>6
<1> QED
  BY <1>3, <1>7

\* A call that returns frees what it holds.
LEMMA AllFreed ==
    ASSUME NEW m, NEW lax, NEW n \in Nat, LobFields(job.in) = n, NEW d \in Nat, job.defined = d,
           Held(m, lax, 1, 1, n + d, n)
    PROVE  Held(HandleFree(FreeInputs(FreeLobColumns(m)), "STMT"), lax, 1, 0, 0, 0)
<1> DEFINE one == FreeLobColumns(m)
           two == FreeInputs(one)
<1>1. MockOK(m) /\ \A k \in Kinds : m.live[k] \in Nat
  BY LiveIsNat DEF Held
<1>2. m.live["LOB"] >= n + d
  BY DEF Held
<1>3. /\ DOMAIN one = DOMAIN m /\ \A x \in DOMAIN m \ {"live"} : one[x] = m[x]
      /\ DOMAIN one.live = Kinds /\ one.live["LOB"] = m.live["LOB"] - d
      /\ \A k \in Kinds \ {"LOB"} : one.live[k] = m.live[k]
  BY <1>1 DEF FreeLobColumns, MockOK, Kinds, NewMock
<1>4. /\ one.misused = m.misused /\ one.mode = m.mode /\ one.left = m.left /\ one.total = m.total
      /\ one.row = m.row /\ one.fetched = m.fetched /\ one.columns = m.columns
  BY <1>1, <1>3, MockFields DEF MockOK
<1>5. one.live = [k \in Kinds |-> one.live[k]]
  BY <1>1 DEF FreeLobColumns, MockOK, NewMock
<1> HIDE DEF one
<1>6. one.live \in [Kinds -> Nat]
  <2>1. \A k \in Kinds : one.live[k] \in Nat
    BY <1>1, <1>2, <1>3
  <2> QED
    BY <1>5, <2>1
<1>7. MockOK(one)
  BY <1>1, <1>3, <1>4, <1>6 DEF MockOK
<1>8. Held(one, lax, 1, 1, n, n)
  BY <1>1, <1>2, <1>3, <1>4, <1>7 DEF Held, Session, Kinds
<1>9. Held(two, lax, 1, 1, 0, 0)
  BY <1>8, InputsFreed
<1> HIDE DEF two
<1>10. Held(HandleFree(two, "STMT"), lax, 1, 0, 0, 0)
  <2>1. 1 > 0 /\ 1 - 1 = 0 /\ 1 \in Nat /\ 0 \in Nat
    OBVIOUS
  <2> QED
    BY <1>9, <2>1, HeldFreed
<1> QED
  BY <1>10 DEF two, one

\* A call that starts holds its statement and what it bound.
LEMMA Started ==
    ASSUME NEW m, NEW lax, Held(m, lax, 1, 0, 0, 0), NEW call, call.op \in DOMAIN Steps,
           StructOK(call.in), StructOK(call.row),
           call.op \in {"select", "insert"} => call.in = <<>>
    PROVE  LET s == Start(m, call)
               n == LobFields(call.in)
           IN  /\ n \in Nat /\ Held(s, lax, 1, 1, n, n)
               /\ s.row = 0 /\ s.total = m.total
               /\ call.op # "select" => s.defines = <<>>
<1> DEFINE alloc == HandleAlloc(m, "STMT")
           prepared == StmtPrepare(alloc)
           s == Start(m, call)
           n == LobFields(call.in)
<1>1. Held(alloc, lax, 1, 1, 0, 0) /\ MockOK(alloc) /\ SameCursor(m, alloc)
  <2>1. Held(alloc, lax, 1, 1, 0, 0)
    BY HeldStmt
  <2>2. MockOK(m) /\ "STMT" \in Kinds
    BY DEF Held, Kinds
  <2>3. MockOK(alloc) /\ SameCursor(m, alloc)
    BY <2>2, AllocOne
  <2> QED
    BY <2>1, <2>3
<1>2. CASE call.op \in {"execute", "select_rows"}
  <2>1. s = BindParams(prepared, call.in, call.inputs)
    BY <1>2 DEF Start
  <2> HIDE DEF s, alloc
  <2>2. /\ MockOK(prepared) /\ SameHandles(alloc, prepared) /\ prepared.row = 0
        /\ prepared.total = alloc.total /\ prepared.defines = <<>>
    BY <1>1, PrepareKeeps
  <2> HIDE DEF prepared
  <2>3. Held(prepared, lax, 1, 1, 0, 0)
    BY <1>1, <2>2, HeldSame
  <2>4. Len(call.in) \in Nat
    BY DEF StructOK
  <2>5. Bound(prepared, BindParams(prepared, call.in, call.inputs), n) /\ n \in Nat
    BY <2>2, <2>4, ParamsKeep
  <2> HIDE DEF n
  <2>6. Bound(prepared, s, n)
    BY <2>1, <2>5
  <2>7. Held(s, lax, 1, 1, n, n)
    BY <2>3, <2>5, <2>6, HeldBound
  <2>8. s.row = 0 /\ s.total = m.total /\ s.defines = <<>>
    BY <1>1, <2>2, <2>6 DEF Bound, SameCursor
  <2> QED
    BY <2>5, <2>7, <2>8 DEF s, n
<1>3. CASE call.op \notin {"execute", "select_rows"}
  <2>1. call.op \in {"select", "insert"}
    BY <1>3 DEF Steps
  <2>2. n = 0
    BY <2>1, NoneHasNoLob
  <2>3. s = IF call.op = "select" THEN DefinePositionalOutputs(prepared, call.row) ELSE prepared
    BY <1>3, <2>1 DEF Start
  <2> HIDE DEF s, alloc, n
  <2>4. /\ MockOK(prepared) /\ SameHandles(alloc, prepared) /\ prepared.row = 0
        /\ prepared.total = alloc.total /\ prepared.defines = <<>>
    BY <1>1, PrepareKeeps
  <2> HIDE DEF prepared
  <2>5. /\ MockOK(s) /\ SameHandles(prepared, s) /\ SameCursor(prepared, s)
        /\ call.op # "select" => s.defines = <<>>
    <3>1. CASE call.op = "select"
      <4>1. Kept(prepared, DefinePositionalOutputs(prepared, call.row))
        BY <2>4, OutputsKeep DEF StructOK
      <4> QED
        BY <2>3, <3>1, <4>1 DEF Kept
    <3>2. CASE call.op # "select"
      BY <2>3, <2>4, <3>2 DEF SameHandles, SameCursor
    <3> QED
      BY <3>1, <3>2
  <2>6. SameHandles(alloc, s)
    BY <2>4, <2>5 DEF SameHandles
  <2>7. Held(s, lax, 1, 1, 0, 0)
    BY <1>1, <2>5, <2>6, HeldSame
  <2>8. s.row = 0 /\ s.total = m.total
    BY <1>1, <2>4, <2>5 DEF SameCursor
  <2> QED
    BY <2>2, <2>5, <2>7, <2>8 DEF s, n
<1> QED
  BY <1>2, <1>3

\* Connecting makes one of each of the connection's handles, and disconnecting frees them.
LEMMA Opened ==
    ASSUME NEW m, NEW lax, NEW s, NEW l, NEW t, Held(m, lax, 0, s, l, t), NEW login \in {SUCCESS, 1}
    PROVE  LET c == ConnectTo(m, login)
           IN  /\ Held(c.m, lax, 1, s, l, t) /\ SameCursor(m, c.m)
               /\ c.conn = [env |-> TRUE, err |-> TRUE, svc |-> TRUE]
<1> DEFINE one == HandleAlloc(m, "ENV")
           two == HandleAlloc(one, "ERROR")
           three == HandleAlloc(two, "SVC")
           c == ConnectTo(m, login)
<1>1. c.m = three /\ c.conn = [env |-> TRUE, err |-> TRUE, svc |-> TRUE]
  BY DEF ConnectTo, EnvCreate, Logon2
<1>2. MockOK(m) /\ {"ENV", "ERROR", "SVC"} \subseteq Kinds
  BY DEF Held, Kinds
<1>3. MockOK(one) /\ OneMore(m, one, "ENV") /\ SameCursor(m, one) /\ one.misused = m.misused
  BY <1>2, AllocOne
<1> HIDE DEF c, one
<1>4. MockOK(two) /\ OneMore(one, two, "ERROR") /\ SameCursor(one, two) /\ two.misused = one.misused
  BY <1>2, <1>3, AllocOne
<1> HIDE DEF two
<1>5. MockOK(three) /\ OneMore(two, three, "SVC") /\ SameCursor(two, three) /\ three.misused = two.misused
  BY <1>2, <1>4, AllocOne
<1> HIDE DEF three
<1>6. /\ \A k \in {"STMT", "LOB", "TEMP"} : three.live[k] = m.live[k]
      /\ \A k \in Session : three.live[k] = m.live[k] + 1
  BY <1>3, <1>4, <1>5 DEF OneMore, Session, Kinds
<1>7. \A k \in Session : three.live[k] = 1
  BY <1>6 DEF Held
<1>8. Held(three, lax, 1, s, l, t)
  BY <1>3, <1>4, <1>5, <1>6, <1>7 DEF Held
<1>9. SameCursor(m, three)
  BY <1>3, <1>4, <1>5 DEF SameCursor
<1> QED
  BY <1>1, <1>8, <1>9 DEF c

LEMMA Closed ==
    ASSUME NEW m, NEW lax, Held(m, lax, 1, 0, 0, 0)
    PROVE  LET d == DisconnectAll(m, [env |-> TRUE, err |-> TRUE, svc |-> TRUE])
           IN  Held(d, lax, 0, 0, 0, 0) /\ SameCursor(m, d)
<1> DEFINE one == HandleFree(m, "SVC")
           two == HandleFree(one, "ERROR")
           three == HandleFree(two, "ENV")
           d == DisconnectAll(m, [env |-> TRUE, err |-> TRUE, svc |-> TRUE])
<1>1. d = three
  BY DEF DisconnectAll, FreeIf, Logoff
<1>2. MockOK(m) /\ {"ENV", "ERROR", "SVC"} \subseteq Kinds /\ \A k \in Session : m.live[k] = 1
  BY DEF Held, Kinds
<1>3. MockOK(one) /\ OneLess(m, one, "SVC") /\ SameCursor(m, one) /\ (~m.misused => ~one.misused)
  <2>1. m.live["SVC"] > 0
    BY <1>2 DEF Session
  <2> QED
    BY <1>2, <2>1, FreeSome
<1> HIDE DEF d, one
<1>4. one.live["ERROR"] = 1 /\ one.live["ENV"] = 1 /\ one.live["SVC"] = 0
  BY <1>2, <1>3 DEF OneLess, Session, Kinds
<1>5. MockOK(two) /\ OneLess(one, two, "ERROR") /\ SameCursor(one, two) /\ (~one.misused => ~two.misused)
  <2>1. one.live["ERROR"] > 0
    BY <1>4
  <2> QED
    BY <1>2, <1>3, <2>1, FreeSome
<1> HIDE DEF two
<1>6. two.live["ERROR"] = 0 /\ two.live["ENV"] = 1 /\ two.live["SVC"] = 0
  BY <1>4, <1>5 DEF OneLess, Kinds
<1>7. \A k \in {"STMT", "LOB", "TEMP"} : two.live[k] = m.live[k]
  BY <1>3, <1>5 DEF OneLess, Kinds
<1>8. /\ MockOK(three) /\ OneLess(two, three, "ENV") /\ SameCursor(two, three)
      /\ ~two.misused /\ (\A k \in Kinds \ {"ENV"} : two.live[k] = 0) => ~three.misused
  <2>1. two.live["ENV"] > 0
    BY <1>6
  <2> QED
    BY <1>2, <1>5, <2>1, FreeSome
<1> HIDE DEF three
<1>9. /\ \A k \in Session : three.live[k] = 0
      /\ \A k \in {"STMT", "LOB", "TEMP"} : three.live[k] = m.live[k]
  BY <1>6, <1>7, <1>8 DEF OneLess, Session, Kinds
<1>10. ~lax => ~three.misused
  <2> SUFFICES ASSUME ~lax PROVE ~three.misused
    OBVIOUS
  <2>1. /\ ~m.misused /\ \A k \in {"STMT", "LOB", "TEMP"} : m.live[k] = 0
    BY DEF Held
  <2>2. \A k \in Kinds \ {"ENV"} : two.live[k] = 0
    BY <1>6, <1>7, <2>1 DEF Kinds
  <2> QED
    BY <1>3, <1>5, <1>8, <2>1, <2>2
<1>11. Held(three, lax, 0, 0, 0, 0)
  <2>1. m.live["STMT"] >= 0 /\ m.live["LOB"] >= 0 /\ m.live["TEMP"] >= 0
    BY DEF Held
  <2>2. ~lax => m.live["STMT"] = 0 /\ m.live["LOB"] = 0 /\ m.live["TEMP"] = 0
    BY DEF Held
  <2> QED
    BY <1>8, <1>9, <1>10, <2>1, <2>2 DEF Held
<1>12. SameCursor(m, three)
  BY <1>3, <1>5, <1>8 DEF SameCursor
<1> QED
  BY <1>1, <1>11, <1>12 DEF d

(* ---- the invariant of handles and stored rows -------------------------- *)

LEMMA NoJobOp == NoJob.op = "none" /\ NoJob.op \notin DOMAIN Steps /\ NoJob.pc = "idle"
  BY DEF NoJob, Steps

LEMMA NoRows == Len(<<>>) = 0 /\ IsSeq(<<>>)
<1>1. IsSeq(<<>>)
  BY EmptySeq DEF IsSeq
<1> QED
  BY <1>1, EmptySeq

Connected == [env |-> TRUE, err |-> TRUE, svc |-> TRUE]
LEMMA ConnectionIs ==
    ASSUME ClientInv
    PROVE  /\ conn = NoConnection \/ conn = Connected
           /\ (conn = NoConnection <=> ~conn.svc) /\ (conn = NoConnection <=> ~conn.env)
  BY DEF ClientInv, HandleInv, Connected, NoConnection

\* What is known while a call runs or waits for its caller.
LEMMA CallIs ==
    ASSUME ClientInv, Called
    PROVE  /\ JobFields \subseteq DOMAIN job /\ job.op \in DOMAIN Steps
           /\ StructOK(job.in) /\ StructOK(job.row) /\ LobFields(job.in) \in Nat
           /\ conn = Connected /\ job.defined \in Nat /\ (~At("fetch") => job.defined = 0)
           /\ job.op \in {"select", "insert"} => job.in = <<>>
           /\ result.op = job.op /\ ~Idle
<1>1. ~Idle /\ ~At("converted")
  BY NoJobOp DEF Called, Calling, At, Idle
<1>2. /\ JobFields \subseteq DOMAIN job /\ job.op \in DOMAIN Steps
      /\ job.in \in RowTypes \cup {<<>>} /\ job.row \in RowTypes \cup {<<>>}
      /\ job.op \in {"select", "insert"} => job.in = <<>>
  BY <1>1 DEF ClientInv, JobOK
<1>3. StructOK(job.in) /\ StructOK(job.row)
  BY <1>2, RowTypeOK, NoFieldsOK
<1>4. LobFields(job.in) \in Nat
  <2> DEFINE in == job.in
             n == Len(in)
  <2>1. n \in Nat /\ Len(in) = n
    BY <1>3 DEF StructOK
  <2> HIDE DEF in, n
  <2>2. LobFields(in) \in Nat
    BY <2>1, Lobs DEF LobsCounted
  <2> QED
    BY <2>2 DEF in
<1>5. conn.svc /\ job.defined \in Nat /\ (~At("fetch") => job.defined = 0)
  BY DEF ClientInv, HandleInv
<1>6. conn = Connected
  BY <1>5, ConnectionIs DEF NoConnection
<1>7. result.op = job.op
  BY DEF ClientInv, ProgressInv
<1> QED
  BY <1>1, <1>2, <1>3, <1>4, <1>5, <1>6, <1>7

\* The steps a call may be at.
LEMMA StepIs ==
    ASSUME ClientInv, Calling
    PROVE  /\ job.pc \in Steps[job.op] /\ Called /\ ~At("lost")
           /\ job.op \in {"select_rows", "insert"} => "size" \in DOMAIN job /\ job.size \in BatchSizes
           /\ job.op = "insert" => job.row \in Plain
           /\ At("define") \/ At("fetch") => job.op = "select_rows"
<1>1. ~Idle /\ ~At("converted") /\ ~At("lost") /\ Called
  BY NoJobOp DEF Called, Calling, At, Idle
<1>2. /\ job.op \in DOMAIN Steps /\ job.pc \in Steps[job.op]
      /\ job.op \in {"select_rows", "insert"} => "size" \in DOMAIN job /\ job.size \in BatchSizes
      /\ job.op = "insert" => job.row \in Plain
  BY <1>1 DEF ClientInv, JobOK, At
<1>3. At("define") \/ At("fetch") => job.op = "select_rows"
  BY <1>2 DEF Steps, At
<1> QED
  BY <1>1, <1>2, <1>3

LEMMA HoldsNow ==
    ASSUME ClientInv, Calling
    PROVE  Held(mock, leaked, 1, 1, LobFields(job.in) + job.defined, LobFields(job.in))
<1>1. /\ Owed("STMT") = 1 /\ Owed("TEMP") = LobFields(job.in)
      /\ Owed("LOB") = LobFields(job.in) + job.defined
  BY DEF Owed
<1>2. conn.svc
  BY CallIs DEF Calling, Called, Connected
<1> QED
  BY <1>1, <1>2, KindsAre DEF ClientInv, HandleInv, Held

LEMMA HoldsNothing ==
    ASSUME ClientInv, ~Calling
    PROVE  Held(mock, leaked, IF conn.svc THEN 1 ELSE 0, 0, 0, 0)
<1>1. Owed("STMT") = 0 /\ Owed("TEMP") = 0 /\ Owed("LOB") = 0
  BY DEF Owed
<1> QED
  BY <1>1, KindsAre DEF ClientInv, HandleInv, Held

\* And the other way round, after a step.
LEMMA NowCalling ==
    ASSUME Calling', conn' = Connected, leaked' \in BOOLEAN, job'.defined \in Nat,
           ~At("fetch")' => job'.defined = 0,
           NEW n, LobFields(job'.in) = n, Held(mock', leaked', 1, 1, n + job'.defined, n)
    PROVE  HandleInv' /\ MockOK(mock')
<1>1. /\ Owed("STMT")' = 1 /\ Owed("TEMP")' = n /\ Owed("LOB")' = n + job'.defined
  BY DEF Owed
<1>2. conn'.svc /\ conn' \in {NoConnection, Connected}
  BY DEF Connected
<1>3. HandleInv'
  BY <1>1, <1>2, KindsAre DEF HandleInv, Held, Connected
<1> QED
  BY <1>3 DEF Held

LEMMA NowAtRest ==
    ASSUME ~Calling', conn' \in {NoConnection, Connected}, leaked' \in BOOLEAN,
           Called' => conn'.svc /\ job'.defined = 0,
           Held(mock', leaked', IF conn'.svc THEN 1 ELSE 0, 0, 0, 0)
    PROVE  HandleInv' /\ MockOK(mock')
<1>1. Owed("STMT")' = 0 /\ Owed("TEMP")' = 0 /\ Owed("LOB")' = 0
  BY DEF Owed
<1>2. HandleInv'
  BY <1>1, KindsAre DEF HandleInv, Held, Connected
<1> QED
  BY <1>2 DEF Held

Statuses == {"Success", "ConnectionLost", "QueryError"}
LEMMA ClassifyIs == \A m, rc : Classify(m, rc) \in Statuses
  BY DEF Classify, Statuses

\* A call returns: its handles are freed, and it is over or waits for its caller.
LEMMA Returned ==
    ASSUME ClientInv, Calling, NEW m, NEW status \in Statuses, Return(m, status),
           Held(m, leaked, 1, 1, LobFields(job.in) + job.defined, LobFields(job.in)),
           UNCHANGED <<conn, leaked>>
    PROVE  /\ MockOK(mock') /\ JobOK' /\ HandleInv' /\ ~Calling'
           /\ Called' => status = "ConnectionLost" /\ job'.op = job.op
           /\ DOMAIN result' = DOMAIN NoResult /\ result'.status = status
           /\ result'.op = job.op /\ result'.from = result.from
<1>1. Called
  BY DEF Called
<1>2. /\ JobFields \subseteq DOMAIN job /\ job.op \in DOMAIN Steps /\ LobFields(job.in) \in Nat
      /\ conn = Connected /\ job.defined \in Nat /\ result.op = job.op
  BY <1>1, CallIs
<1> DEFINE n == LobFields(job.in)
           d == job.defined
<1>3. Held(mock', leaked, 1, 0, 0, 0)
  <2>1. n \in Nat /\ d \in Nat /\ LobFields(job.in) = n /\ job.defined = d
    BY <1>2
  <2>2. Held(m, leaked, 1, 1, n + d, n)
    OBVIOUS
  <2> HIDE DEF n, d
  <2>3. Held(HandleFree(FreeInputs(FreeLobColumns(m)), "STMT"), leaked, 1, 0, 0, 0)
    BY <2>1, <2>2, AllFreed
  <2> QED
    BY <2>3 DEF Return
<1>4. /\ DOMAIN result' = DOMAIN NoResult /\ result'.status = status
      /\ result'.op = job.op /\ result'.from = result.from
  BY <1>2 DEF Return, ClientInv, ProgressInv, NoResult
<1>5. CASE status = "ConnectionLost"
  <2>1. job' = [job EXCEPT !.pc = "lost", !.defined = 0]
    BY <1>5 DEF Return
  <2>2. /\ DOMAIN job' = DOMAIN job /\ job'.pc = "lost" /\ job'.defined = 0
        /\ \A x \in DOMAIN job \ {"pc", "defined"} : job'[x] = job[x]
    BY <1>2, <2>1 DEF JobFields
  <2>3. job'.op = job.op /\ job'.in = job.in /\ job'.row = job.row
    BY <1>2, <2>2 DEF JobFields
  <2>4. ~Calling' /\ Called'
    BY <2>2 DEF Calling, Called, At
  <2>5. JobOK'
    <3>1. /\ job.in \in RowTypes \cup {<<>>} /\ job.row \in RowTypes \cup {<<>>}
          /\ job.op \in {"select_rows", "insert"} => "size" \in DOMAIN job /\ job.size \in BatchSizes
          /\ job.op \in {"select", "insert"} => job.in = <<>>
          /\ job.op = "insert" => job.row \in Plain
      BY <1>1, <1>2, CallIs, NoJobOp DEF ClientInv, JobOK, Called, Calling, At
    <3>2. job.op \in {"select_rows", "insert"} => "size" \in DOMAIN job' /\ job'.size \in BatchSizes
      BY <2>2, <3>1
    <3> QED
      BY <1>2, <2>2, <2>3, <3>1, <3>2 DEF JobOK
  <2>6. HandleInv' /\ MockOK(mock')
    BY <1>2, <1>3, <2>2, <2>4, NowAtRest DEF ClientInv, HandleInv, Connected
  <2> QED
    BY <1>4, <1>5, <2>3, <2>4, <2>5, <2>6
<1>6. CASE status # "ConnectionLost"
  <2>1. job' = NoJob
    BY <1>6 DEF Return
  <2>2. ~Calling' /\ ~Called' /\ JobOK'
    BY <2>1, NoJobOp DEF Calling, Called, At, JobOK, Idle
  <2>3. HandleInv' /\ MockOK(mock')
    BY <1>2, <1>3, <2>2, NowAtRest DEF ClientInv, HandleInv, Connected
  <2> QED
    BY <1>4, <2>2, <2>3
<1> QED
  BY <1>5, <1>6

\* An operation that ended leaves its rows in order.
LEMMA Ended ==
    ASSUME ClientInv, Calling, NEW m, NEW status \in Statuses, Return(m, status),
           Held(m, leaked, 1, 1, LobFields(job.in) + job.defined, LobFields(job.in)),
           UNCHANGED <<conn, leaked>>, IsSeq(delivered'), IsSeq(table'),
           job.op = "insert" => delivered' = delivered /\ result.from <= Len(table'),
           job.op = "select_rows" => table' = table,
           (table' = table /\ ~(job.op = "insert" /\ status = "Success")) \/ RetriedInsertStores'
    PROVE  ClientInv'
<1>1. /\ MockOK(mock') /\ JobOK' /\ HandleInv' /\ ~Calling'
      /\ Called' => status = "ConnectionLost" /\ job'.op = job.op
      /\ DOMAIN result' = DOMAIN NoResult /\ result'.status = status
      /\ result'.op = job.op /\ result'.from = result.from
  BY Returned
<1>2. Called
  BY DEF Called
<1>3. job.op = "insert" => delivered = <<>>
  BY <1>2 DEF ClientInv, ProgressInv, Storing
<1>4. job.op = "select_rows" => table = <<>>
  BY <1>2 DEF ClientInv, ProgressInv
<1>5. RetriedInsertStores'
  BY <1>1 DEF ClientInv, ProgressInv, RetriedInsertStores
<1>6. Called' /\ job'.op = "insert" => Storing'
  BY <1>1, <1>3 DEF Storing
<1>7. Called' /\ job'.op = "select_rows" => table' = <<>> /\ Selecting'
  BY <1>1, <1>4 DEF Selecting
<1>8. Called' => result'.op = job'.op /\ result'.status # "Success"
  BY <1>1
<1>9. result'.from \in Nat
  BY <1>1 DEF ClientInv, ProgressInv
<1>10. ProgressInv'
  BY <1>1, <1>5, <1>6, <1>7, <1>8, <1>9 DEF ProgressInv
<1> QED
  BY <1>1, <1>10 DEF ClientInv

\* Rows of an insert, each the first one or the next of the one before it.
Chunk(offset, n) == [k \in 1 .. n |-> offset + k]
InOrder(t) == \A k \in DOMAIN t : t[k] = 1 \/ (k > 1 /\ t[k] = t[k - 1] + 1)
StoredFrom(t, from, n) == Len(t) = from + n /\ \A k \in 1 .. n : t[from + k] = k

\* A call fails, an insert with any of its rows stored.
LEMMA FailsEnds ==
    ASSUME ClientInv, Calling, NEW call, Fails(call),
           Held(call.m, leaked, 1, 1, LobFields(job.in) + job.defined, LobFields(job.in)),
           IsSeq(table'), InOrder(table'), job.op = "select_rows" => table' = table,
           job.op = "insert" => result.from <= Len(table')
    PROVE  ClientInv'
<1> DEFINE status == Classify(call.m, call.rc)
           m == call.m
<1>1. status \in Statuses /\ status # "Success"
  BY ClassifyIs DEF Fails
<1>2. /\ Return(m, status) /\ UNCHANGED <<conn, leaked>> /\ delivered' = delivered
      /\ Held(m, leaked, 1, 1, LobFields(job.in) + job.defined, LobFields(job.in))
  BY DEF Fails
<1>3. IsSeq(delivered')
  BY <1>2 DEF ClientInv, ProgressInv
<1> HIDE DEF status, m
<1>4. result'.status = status
  BY <1>1, <1>2, Returned
<1>5. RetriedInsertStores'
  BY <1>1, <1>4 DEF RetriedInsertStores, InOrder
<1> QED
  BY <1>1, <1>2, <1>3, <1>5, Ended

LEMMA FailsKeeping ==
    ASSUME ClientInv, Calling, NEW call, Fails(call), job.op # "insert", UNCHANGED table,
           Held(call.m, leaked, 1, 1, LobFields(job.in) + job.defined, LobFields(job.in))
    PROVE  ClientInv'
<1>1. IsSeq(table') /\ InOrder(table')
  BY DEF ClientInv, ProgressInv, RetriedInsertStores, InOrder
<1> QED
  BY <1>1, FailsEnds

(* ---- the steps of the caller ------------------------------------------- *)

LEMMA InitClient == Init => ClientInv
<1> SUFFICES ASSUME Init PROVE ClientInv
  OBVIOUS
<1>1. MockOK(mock) /\ ~mock.misused /\ \A k \in Kinds : mock.live[k] = 0
  BY NewMockOK DEF Init, NewMock
<1>2. JobOK /\ ~Calling /\ ~Called
  BY NoJobOp DEF Init, JobOK, Idle, Calling, Called, At
<1>3. Owed("STMT") = 0 /\ Owed("TEMP") = 0 /\ Owed("LOB") = 0
  BY <1>2 DEF Owed
<1>4. conn = NoConnection /\ ~conn.svc /\ leaked = FALSE
  BY DEF Init, NoConnection
<1>5. HandleInv
  <2>1. conn \in {NoConnection, Connected} /\ leaked \in BOOLEAN /\ ~mock.misused
    BY <1>1, <1>4
  <2>2. \A k \in Session : mock.live[k] = IF conn.svc THEN 1 ELSE 0
    BY <1>1, <1>4, KindsAre
  <2>3. \A k \in Kinds \ Session : mock.live[k] = Owed(k) /\ mock.live[k] >= Owed(k)
    BY <1>1, <1>3, KindsAre
  <2> QED
    BY <1>2, <2>1, <2>2, <2>3 DEF HandleInv, Connected
<1>6. ProgressInv
  <2>1. /\ delivered = <<>> /\ table = <<>> /\ DOMAIN result = DOMAIN NoResult
        /\ result.from = 0 /\ result.op = "none" /\ DOMAIN table = {}
    BY DEF Init, NoResult
  <2> QED
    BY <1>2, <2>1, NoRows DEF ProgressInv, RetriedInsertStores
<1> QED
  BY <1>1, <1>2, <1>5, <1>6 DEF ClientInv

\* Nothing of a call is disturbed while none runs.
LEMMA NoCallSteps ==
    ASSUME ClientInv, ~Called', JobOK', HandleInv', MockOK(mock'),
           UNCHANGED <<delivered, table, result>>
    PROVE  ClientInv'
  BY DEF ClientInv, ProgressInv, RetriedInsertStores

LEMMA IdleIs == Idle => ~Calling /\ ~Called /\ JobOK
  BY NoJobOp DEF Idle, Calling, Called, At, JobOK

LEMMA ConnectStep == ASSUME ClientInv, ConnectSession PROVE ClientInv'
<1>1. Idle /\ ~conn.env /\ ~Calling /\ ~Called /\ job' = job /\ leaked' = leaked
      /\ UNCHANGED <<delivered, table, result>>
  BY IdleIs DEF ConnectSession
<1>2. PICK login \in {SUCCESS, 1} : LET c == ConnectTo(mock, login) IN mock' = c.m /\ conn' = c.conn
  BY DEF ConnectSession
<1>3. ~conn.svc /\ Held(mock, leaked, 0, 0, 0, 0)
  BY <1>1, ConnectionIs, HoldsNothing
<1>4. Held(mock', leaked', 1, 0, 0, 0) /\ conn' = Connected
  BY <1>1, <1>2, <1>3, Opened DEF Connected
<1>5. ~Calling' /\ ~Called' /\ JobOK'
  BY <1>1, IdleIs DEF JobOK, Idle, Calling, Called, At
<1>6. conn'.svc /\ leaked' \in BOOLEAN
  BY <1>1, <1>4 DEF Connected, ClientInv, HandleInv
<1>7. HandleInv' /\ MockOK(mock')
  BY <1>4, <1>5, <1>6, NowAtRest
<1> QED
  BY <1>1, <1>5, <1>7, NoCallSteps

LEMMA DisconnectStep == ASSUME ClientInv, DisconnectSession PROVE ClientInv'
<1>1. Idle /\ conn.env /\ ~Calling /\ ~Called /\ job' = job /\ leaked' = leaked
      /\ UNCHANGED <<delivered, table, result>>
  BY IdleIs DEF DisconnectSession
<1>2. conn = Connected /\ Held(mock, leaked, 1, 0, 0, 0)
  <2>1. conn = Connected /\ conn.svc
    BY <1>1, ConnectionIs DEF NoConnection
  <2> QED
    BY <1>1, <2>1, HoldsNothing
<1>3. mock' = DisconnectAll(mock, Connected) /\ conn' = NoConnection
  BY <1>2 DEF DisconnectSession
<1>4. Held(mock', leaked', 0, 0, 0, 0)
  BY <1>1, <1>2, <1>3, Closed DEF Connected
<1>5. ~Calling' /\ ~Called' /\ JobOK'
  BY <1>1, IdleIs DEF JobOK, Idle, Calling, Called, At
<1>6. ~conn'.svc /\ leaked' \in BOOLEAN
  BY <1>1, <1>3 DEF NoConnection, ClientInv, HandleInv
<1>7. HandleInv' /\ MockOK(mock')
  BY <1>3, <1>4, <1>5, <1>6, NowAtRest
<1> QED
  BY <1>1, <1>5, <1>7, NoCallSteps

LEMMA FailureSteps == ASSUME ClientInv, SetFailure \/ SetExecError PROVE ClientInv'
<1>1. Idle /\ ~Calling /\ ~Called /\ job' = job /\ leaked' = leaked /\ conn' = conn
      /\ UNCHANGED <<delivered, table, result>>
  BY IdleIs DEF SetFailure, SetExecError
<1>2. MockOK(mock) /\ Held(mock, leaked, IF conn.svc THEN 1 ELSE 0, 0, 0, 0)
  BY <1>1, HoldsNothing DEF ClientInv
<1>3. MockOK(mock') /\ SameHandles(mock, mock')
  <2>1. ASSUME NEW mode \in Modes, NEW n \in Nat
        PROVE  MockOK(SetMode(mock, mode, n)) /\ SameHandles(mock, SetMode(mock, mode, n))
    BY <1>2, MockFields DEF MockOK, SetMode, SameHandles
  <2>2. CASE SetFailure
    <3>1. PICK n \in 1 .. MaxLosses - losses, null \in BOOLEAN :
            mock' = SetSimulateNull(SetMode(mock, "DisconnectThenRecover", n), null)
      BY <2>2 DEF SetFailure
    <3> DEFINE m == SetMode(mock, "DisconnectThenRecover", n)
    <3>2. MockOK(m) /\ SameHandles(mock, m)
      BY <2>1 DEF Modes
    <3> HIDE DEF m
    <3>3. MockOK(SetSimulateNull(m, null)) /\ SameHandles(m, SetSimulateNull(m, null))
      BY <3>2, MockFields DEF MockOK, SetSimulateNull, SameHandles
    <3> QED
      BY <3>1, <3>2, <3>3 DEF SameHandles, m
  <2>3. CASE SetExecError
    BY <2>1, <2>3 DEF SetExecError, Modes
  <2> QED
    BY <2>2, <2>3
<1>4. Held(mock', leaked', IF conn'.svc THEN 1 ELSE 0, 0, 0, 0)
  BY <1>1, <1>2, <1>3, HeldSame
<1>5. ~Calling' /\ ~Called' /\ JobOK'
  BY <1>1, IdleIs DEF JobOK, Idle, Calling, Called, At
<1>6. conn' \in {NoConnection, Connected} /\ leaked' \in BOOLEAN
  BY <1>1, ConnectionIs DEF ClientInv, HandleInv
<1>7. HandleInv' /\ MockOK(mock')
  BY <1>4, <1>5, <1>6, NowAtRest
<1> QED
  BY <1>1, <1>5, <1>7, NoCallSteps

LEMMA ConvertSteps == ASSUME ClientInv, Convert \/ Converted PROVE ClientInv'
<1>1. ~Calling /\ ~Called /\ UNCHANGED <<mock, conn, leaked, delivered, table, result>>
  BY IdleIs DEF Convert, Converted, Calling, Called, At
<1>2. ~Calling' /\ ~Called' /\ JobOK'
  <2>1. CASE Convert
    <3>1. job'.op = "convert" /\ job'.pc = "converted"
      BY <2>1 DEF Convert
    <3> QED
      BY <3>1 DEF JobOK, Calling, Called, At
  <2>2. CASE Converted
    <3>1. job' = NoJob
      BY <2>2 DEF Converted
    <3> QED
      BY <3>1, NoJobOp DEF JobOK, Calling, Called, At, Idle
  <2> QED
    BY <2>1, <2>2
<1>3. Held(mock', leaked', IF conn'.svc THEN 1 ELSE 0, 0, 0, 0)
  BY <1>1, HoldsNothing
<1>4. conn' \in {NoConnection, Connected} /\ leaked' \in BOOLEAN
  BY <1>1, ConnectionIs DEF ClientInv, HandleInv
<1>5. HandleInv' /\ MockOK(mock')
  BY <1>2, <1>3, <1>4, NowAtRest
<1> QED
  BY <1>1, <1>2, <1>5, NoCallSteps

(* ---- a call begins, once or again -------------------------------------- *)

\* A call's arguments, and the record they make.
CallOK(call) ==
    /\ {"op", "in", "row"} \subseteq DOMAIN call /\ call.op \in DOMAIN Steps
    /\ {"pc", "offset", "defined"} \cap DOMAIN call = {}
    /\ call.in \in RowTypes \cup {<<>>} /\ call.row \in RowTypes \cup {<<>>}
    /\ call.op \in {"select_rows", "insert"} => "size" \in DOMAIN call /\ call.size \in BatchSizes
    /\ call.op \in {"select", "insert"} => call.in = <<>>
    /\ call.op = "insert" => call.row \in Plain
RecordOf(r, call) ==
    /\ DOMAIN r = DOMAIN call \cup JobFields
    /\ r.pc = "execute" /\ r.offset = 0 /\ r.defined = 0
    /\ \A x \in DOMAIN call : r[x] = call[x]

LEMMA JobBegun ==
    ASSUME NEW call, CallOK(call)
    PROVE  RecordOf(With([pc |-> "execute", offset |-> 0, defined |-> 0], call), call)
<1> DEFINE f == [pc |-> "execute", offset |-> 0, defined |-> 0]
<1>1. /\ DOMAIN f = {"pc", "offset", "defined"}
      /\ f["pc"] = "execute" /\ f["offset"] = 0 /\ f["defined"] = 0
  OBVIOUS
<1> HIDE DEF f
<1>2. /\ DOMAIN With(f, call) = DOMAIN call \cup JobFields
      /\ \A x \in DOMAIN call : With(f, call)[x] = call[x]
      /\ \A x \in DOMAIN f : With(f, call)[x] = f[x]
  BY <1>1 DEF With, JobFields, CallOK
<1>3. With(f, call).pc = "execute" /\ With(f, call).offset = 0 /\ With(f, call).defined = 0
  BY <1>1, <1>2
<1> QED
  BY <1>2, <1>3 DEF f, RecordOf

\* An attempt starts with its cursor, or its offset, at the first row.
LEMMA Attempt ==
    ASSUME NEW m, NEW call, Held(m, leaked, 1, 0, 0, 0), m.total \in 0 .. RowCount, leaked \in BOOLEAN,
           mock' = Start(m, call), conn' = Connected, leaked' = leaked,
           JobOK', job'.pc = "execute", job'.offset = 0, job'.defined = 0,
           job'.op = call.op, job'.in = call.in, job'.row = call.row, call.op \in DOMAIN Steps,
           call.in \in RowTypes \cup {<<>>}, call.row \in RowTypes \cup {<<>>},
           call.op \in {"select", "insert"} => call.in = <<>>,
           IsSeq(delivered'), IsSeq(table'), DOMAIN result' = DOMAIN NoResult,
           result'.status = "running", result'.op = call.op,
           result'.from = Len(delivered') + Len(table'),
           call.op = "insert" => delivered' = <<>>, call.op = "select_rows" => table' = <<>>,
           \A k \in DOMAIN table' : table'[k] = 1 \/ (k > 1 /\ table'[k] = table'[k - 1] + 1)
    PROVE  ClientInv'
<1> DEFINE n == LobFields(call.in)
<1>1. StructOK(call.in) /\ StructOK(call.row)
  BY RowTypeOK, NoFieldsOK
<1>2. n \in Nat /\ Held(mock', leaked', 1, 1, n, n) /\ mock'.row = 0 /\ mock'.total = m.total
  BY <1>1, Started
<1>3. Calling' /\ Called' /\ ~At("fetch")'
  BY DEF Calling, Called, At
<1>4. HandleInv' /\ MockOK(mock')
  <2>1. LobFields(job'.in) = n /\ job'.defined \in Nat /\ n + job'.defined = n
    BY <1>2
  <2> HIDE DEF n
  <2>2. Held(mock', leaked', 1, 1, n + job'.defined, n)
    BY <1>2, <2>1
  <2> QED
    BY <1>3, <2>1, <2>2, NowCalling
<1>5. /\ Len(delivered') \in Nat /\ Len(table') \in Nat
  BY MoreRows
<1>6. call.op = "insert" => Storing'
  <2> SUFFICES ASSUME call.op = "insert" PROVE Storing'
    OBVIOUS
  <2>1. delivered' = <<>> /\ result'.from = Len(table')
    BY <1>5, NoRows
  <2>2. job'.offset = 0 /\ 0 < MaxRows /\ Len(table') = result'.from + job'.offset
    BY <1>5, <2>1, BindingAssumption
  <2> QED
    BY <2>1, <2>2 DEF Storing
<1>7. call.op = "select_rows" => Selecting'
  <2> SUFFICES ASSUME call.op = "select_rows" PROVE Selecting'
    OBVIOUS
  <2>1. result'.from = Len(delivered')
    BY <1>5, NoRows
  <2>2. mock'.row = 0 /\ mock'.total \in Nat
    BY <1>2, RowCountAssumption
  <2> QED
    BY <1>5, <2>1, <2>2 DEF Selecting
<1>8. RetriedInsertStores'
  BY DEF RetriedInsertStores
<1>9. ProgressInv'
  BY <1>5, <1>6, <1>7, <1>8 DEF ProgressInv
<1> QED
  BY <1>4, <1>9 DEF ClientInv

LEMMA Answered ==
    ASSUME ClientInv, Idle, conn.svc, NEW total \in 0 .. RowCount
    PROVE  Held(Answer(mock, total), leaked, 1, 0, 0, 0) /\ Answer(mock, total).total = total
<1> DEFINE m == Answer(mock, total)
<1>1. Held(mock, leaked, 1, 0, 0, 0) /\ MockOK(mock)
  BY IdleIs, HoldsNothing DEF ClientInv
<1>2. MockOK(m) /\ SameHandles(mock, m) /\ m.total = total
  BY <1>1, MockFields DEF MockOK, Answer, SameHandles
<1> HIDE DEF m
<1>3. Held(m, leaked, 1, 0, 0, 0)
  BY <1>1, <1>2, HeldSame
<1> QED
  BY <1>2, <1>3 DEF m

LEMMA Begun == ASSUME ClientInv, NEW call, Begin(call), CallOK(call) PROVE ClientInv'
<1>1. Idle /\ conn.svc /\ UNCHANGED <<conn, leaked>> /\ delivered' = <<>> /\ table' = <<>>
      /\ job' = With([pc |-> "execute", offset |-> 0, defined |-> 0], call)
      /\ result' = [status |-> "running", op |-> call.op, from |-> 0]
  BY DEF Begin
<1>2. PICK total \in 0 .. RowCount : mock' = Start(Answer(mock, total), call)
  BY DEF Begin
<1>3. RecordOf(job', call)
  BY <1>1, JobBegun
<1>4. /\ job'.op = call.op /\ job'.in = call.in /\ job'.row = call.row
      /\ job'.pc = "execute" /\ job'.offset = 0 /\ job'.defined = 0
  BY <1>3 DEF RecordOf, CallOK
<1>5. JobOK'
  <2>1. call.op \in {"select_rows", "insert"} => "size" \in DOMAIN job' /\ job'.size \in BatchSizes
    BY <1>3 DEF RecordOf, CallOK
  <2>2. job'.pc \in Steps[call.op]
    BY <1>4 DEF Steps, CallOK
  <2>3. JobFields \subseteq DOMAIN job'
    BY <1>3 DEF RecordOf
  <2> QED
    BY <1>4, <2>1, <2>2, <2>3 DEF JobOK, CallOK
<1> DEFINE m == Answer(mock, total)
<1>6. Held(m, leaked, 1, 0, 0, 0) /\ m.total = total
  BY <1>1, Answered
<1>7. mock' = Start(m, call)
  BY <1>2
<1> HIDE DEF m
<1>8. conn' = Connected /\ leaked' = leaked /\ leaked \in BOOLEAN
  <2>1. conn = Connected
    BY <1>1, ConnectionIs DEF NoConnection
  <2> QED
    BY <1>1, <2>1 DEF ClientInv, HandleInv
<1>9. /\ IsSeq(delivered') /\ IsSeq(table') /\ DOMAIN table' = {}
      /\ result'.from = Len(delivered') + Len(table')
  <2>1. Len(delivered') = 0 /\ Len(table') = 0 /\ result'.from = 0
    BY <1>1, NoRows
  <2>2. IsSeq(delivered') /\ IsSeq(table') /\ DOMAIN table' = {}
    BY <1>1, NoRows
  <2> QED
    BY <2>1, <2>2
<1>10. DOMAIN result' = DOMAIN NoResult /\ result'.status = "running" /\ result'.op = call.op
  BY <1>1 DEF NoResult
<1>11. /\ call.op \in DOMAIN Steps /\ call.in \in RowTypes \cup {<<>>} /\ call.row \in RowTypes \cup {<<>>}
       /\ call.op \in {"select", "insert"} => call.in = <<>>
  BY DEF CallOK
<1>12. m.total \in 0 .. RowCount /\ delivered' = <<>> /\ table' = <<>>
  BY <1>1, <1>6
<1> QED
  BY <1>4, <1>5, <1>6, <1>7, <1>8, <1>9, <1>10, <1>11, <1>12, Attempt

LEMMA CallSteps == ASSUME ClientInv, Execute \/ SelectRows \/ Select \/ InsertRows PROVE ClientInv'
<1>1. CASE Execute
  <2>0. PICK row \in RowTypes \union {<<>>} : \E inputs \in InputsOf(row) :
          Begin([op |-> "execute", in |-> row, inputs |-> inputs, row |-> <<>>])
    BY <1>1 DEF Execute
  <2>1. PICK inputs \in InputsOf(row) :
          Begin([op |-> "execute", in |-> row, inputs |-> inputs, row |-> <<>>])
    BY <2>0
  <2> DEFINE call == [op |-> "execute", in |-> row, inputs |-> inputs, row |-> <<>>]
  <2>2. CallOK(call)
    BY DEF CallOK, Steps
  <2> HIDE DEF call
  <2>3. Begin(call)
    BY <2>1 DEF call
  <2> QED
    BY <2>2, <2>3, Begun
<1>2. CASE SelectRows
  <2>1. PICK row \in RowTypes, in \in RowTypes \union {<<>>}, size \in BatchSizes :
          Begin([op |-> "select_rows", in |-> in, inputs |-> [f \in 1 .. Len(in) |-> TRUE],
                 row |-> row, size |-> size])
    BY <1>2 DEF SelectRows
  <2> DEFINE inputs == [f \in 1 .. Len(in) |-> TRUE]
             call == [op |-> "select_rows", in |-> in, inputs |-> inputs, row |-> row, size |-> size]
  <2>2. Begin(call)
    BY <2>1
  <2> HIDE DEF inputs
  <2>3. CallOK(call)
    BY DEF CallOK, Steps
  <2> HIDE DEF call
  <2> QED
    BY <2>2, <2>3, Begun
<1>3. CASE Select
  <2>1. PICK row \in Plain : Begin([op |-> "select", in |-> <<>>, row |-> row])
    BY <1>3 DEF Select
  <2> DEFINE call == [op |-> "select", in |-> <<>>, row |-> row]
  <2>2. row \in RowTypes
    BY DEF Plain
  <2>3. CallOK(call)
    BY <2>2 DEF CallOK, Steps
  <2> HIDE DEF call
  <2>4. Begin(call)
    BY <2>1 DEF call
  <2> QED
    BY <2>3, <2>4, Begun
<1>4. CASE InsertRows
  <2>1. PICK row \in Plain, size \in BatchSizes :
          Begin([op |-> "insert", in |-> <<>>, row |-> row, size |-> size])
    BY <1>4 DEF InsertRows
  <2> DEFINE call == [op |-> "insert", in |-> <<>>, row |-> row, size |-> size]
  <2>2. row \in RowTypes
    BY DEF Plain
  <2>3. CallOK(call)
    BY <2>2 DEF CallOK, Steps
  <2> HIDE DEF call
  <2>4. Begin(call)
    BY <2>1 DEF call
  <2> QED
    BY <2>3, <2>4, Begun
<1> QED
  BY <1>1, <1>2, <1>3, <1>4

\* Disconnecting and connecting again leaves one connection and nothing of the call.
LEMMA Reopened ==
    ASSUME ClientInv, At("lost")
    PROVE  LET c == ConnectTo(DisconnectAll(mock, conn), SUCCESS)
           IN  Held(c.m, leaked, 1, 0, 0, 0) /\ c.m.total \in 0 .. RowCount /\ c.conn = Connected
<1>1. Called /\ ~Calling
  BY DEF Called, Calling, At
<1>2. conn = Connected
  BY <1>1, CallIs
<1>3. Held(mock, leaked, 1, 0, 0, 0) /\ MockOK(mock)
  <2>1. conn.svc
    BY <1>2 DEF Connected
  <2> QED
    BY <1>1, <2>1, HoldsNothing DEF ClientInv
<1> DEFINE d == DisconnectAll(mock, Connected)
           c == ConnectTo(d, SUCCESS)
<1>4. Held(d, leaked, 0, 0, 0, 0) /\ SameCursor(mock, d)
  BY <1>3, Closed DEF Connected
<1> HIDE DEF d
<1>5. Held(c.m, leaked, 1, 0, 0, 0) /\ SameCursor(d, c.m) /\ c.conn = Connected
  BY <1>4, Opened DEF Connected
<1>6. c.m.total \in 0 .. RowCount
  BY <1>3, <1>4, <1>5 DEF SameCursor, MockOK
<1> QED
  BY <1>2, <1>5, <1>6 DEF d

\* The caller's retry begins after what the lost attempts left.
\* What a rollback leaves of the rows is the first of them.
LEMMA RolledBack ==
    ASSUME NEW t, IsSeq(t), InOrder(t), NEW from \in Nat, from <= Len(t), NEW u, u = SubSeq(t, 1, from)
    PROVE  IsSeq(u) /\ InOrder(u)
<1> DEFINE S == {t[i] : i \in DOMAIN t}
           n == Len(t)
<1>1. t \in Seq(S)
  BY DEF IsSeq
<1> HIDE DEF S
<1>2. n \in Nat /\ DOMAIN t = 1 .. n /\ from <= n
  BY <1>1, LenProperties
<1> HIDE DEF n
<1>3. /\ u \in Seq(S) /\ Len(u) = from
      /\ \A i \in 1 .. from : u[i] = t[i]
  BY <1>1, <1>2, SubSeqProperties DEF n
<1>4. DOMAIN u = 1 .. from
  BY <1>3, LenProperties
<1>5. IsSeq(u)
  <2> DEFINE T == {u[i] : i \in DOMAIN u}
  <2>1. u = [i \in 1 .. from |-> u[i]]
    BY <1>3, <1>4, LenProperties
  <2>2. u \in [1 .. from -> T]
    BY <1>4, <2>1
  <2>3. u \in Seq(T)
    BY <2>2, SeqDef
  <2> QED
    BY <2>3 DEF IsSeq
<1>6. ASSUME NEW k \in 1 .. from PROVE u[k] = 1 \/ (k > 1 /\ u[k] = u[k - 1] + 1)
  <2>1. k \in DOMAIN t /\ u[k] = t[k] /\ (k > 1 => u[k - 1] = t[k - 1])
    BY <1>2, <1>3
  <2> QED
    BY <2>1 DEF InOrder
<1> QED
  BY <1>4, <1>5, <1>6 DEF InOrder

LEMMA ReconnectStep == ASSUME ClientInv, Reconnect PROVE ClientInv'
<1>1. /\ job.pc = "lost" /\ UNCHANGED <<mem, delivered, losses, leaked>>
      /\ job' = [job EXCEPT !.pc = "execute", !.offset = 0]
      /\ table' = table \/ (job.op = "insert" /\ table' = SubSeq(table, 1, result.from))
      /\ result' = [result EXCEPT !.status = "running", !.from = Len(delivered) + Len(table')]
      /\ LET c == ConnectTo(DisconnectAll(mock, conn), SUCCESS) IN mock' = Start(c.m, job) /\ conn' = c.conn
  BY DEF Reconnect, At
<1>2. Called /\ ~Calling /\ ~At("fetch")
  BY <1>1 DEF Called, Calling, At
<1>3. /\ JobFields \subseteq DOMAIN job /\ job.op \in DOMAIN Steps /\ conn = Connected /\ job.defined = 0
      /\ result.op = job.op /\ ~Idle /\ (job.op \in {"select", "insert"} => job.in = <<>>)
  BY <1>2, CallIs
<1> DEFINE c == ConnectTo(DisconnectAll(mock, conn), SUCCESS)
           m == c.m
<1>5. mock' = Start(m, job) /\ conn' = c.conn
  BY <1>1
<1>7. Held(m, leaked, 1, 0, 0, 0) /\ m.total \in 0 .. RowCount /\ c.conn = Connected
  BY <1>1, Reopened DEF At
<1> HIDE DEF m, c
<1>9. /\ DOMAIN job' = DOMAIN job /\ job'.pc = "execute" /\ job'.offset = 0
      /\ \A x \in DOMAIN job \ {"pc", "offset"} : job'[x] = job[x]
  BY <1>1, <1>3 DEF JobFields
<1>10. job'.op = job.op /\ job'.in = job.in /\ job'.row = job.row /\ job'.defined = 0
  BY <1>3, <1>9 DEF JobFields
<1>11. /\ job.in \in RowTypes \cup {<<>>} /\ job.row \in RowTypes \cup {<<>>}
       /\ job.op \in {"select_rows", "insert"} => "size" \in DOMAIN job /\ job.size \in BatchSizes
       /\ job.op = "insert" => job.row \in Plain
  BY <1>1, <1>3 DEF ClientInv, JobOK, At
<1>12. JobOK'
  <2>1. job.op \in {"select_rows", "insert"} => "size" \in DOMAIN job' /\ job'.size \in BatchSizes
    BY <1>9, <1>11
  <2>2. job'.pc \in Steps[job.op]
    BY <1>3, <1>9 DEF Steps
  <2> QED
    BY <1>3, <1>9, <1>10, <1>11, <2>1, <2>2 DEF JobOK
<1>13. /\ DOMAIN result' = DOMAIN NoResult /\ result'.status = "running" /\ result'.op = job.op
       /\ result'.from = Len(delivered') + Len(table')
  BY <1>1, <1>3 DEF ClientInv, ProgressInv, NoResult
<1>14. /\ IsSeq(delivered') /\ IsSeq(table')
       /\ \A k \in DOMAIN table' : table'[k] = 1 \/ (k > 1 /\ table'[k] = table'[k - 1] + 1)
       /\ job.op = "insert" => delivered' = <<>>
       /\ job.op = "select_rows" => table' = <<>>
  <2>1. /\ IsSeq(delivered) /\ IsSeq(table) /\ InOrder(table) /\ result.from \in Nat
        /\ job.op = "insert" => delivered = <<>> /\ result.from <= Len(table)
        /\ job.op = "select_rows" => table = <<>>
    BY <1>2 DEF ClientInv, ProgressInv, RetriedInsertStores, Storing, InOrder
  <2>2. IsSeq(table') /\ InOrder(table')
    BY <1>1, <2>1, RolledBack
  <2> QED
    BY <1>1, <2>1, <2>2 DEF InOrder
<1>15. leaked' = leaked /\ leaked \in BOOLEAN /\ conn' = Connected
  BY <1>1, <1>5, <1>7 DEF ClientInv, HandleInv
<1> QED
  BY <1>3, <1>5, <1>7, <1>9, <1>10, <1>11, <1>12, <1>13, <1>14, <1>15, Attempt

(* ---- the steps of a call ----------------------------------------------- *)

\* A step to another place of the same call.
LEMMA Goes ==
    ASSUME ClientInv, Calling, UNCHANGED <<conn, leaked, result>>, Calling',
           DOMAIN job' = DOMAIN job, job'.pc \in Steps[job.op],
           \A x \in DOMAIN job \ {"pc", "offset", "defined"} : job'[x] = job[x],
           job'.defined \in Nat, ~At("fetch")' => job'.defined = 0,
           Held(mock', leaked, 1, 1, LobFields(job.in) + job'.defined, LobFields(job.in)),
           IsSeq(delivered'), IsSeq(table'),
           job.op = "insert" => Storing',
           job.op = "select_rows" => table' = table /\ Selecting',
           \A k \in DOMAIN table' : table'[k] = 1 \/ (k > 1 /\ table'[k] = table'[k - 1] + 1)
    PROVE  ClientInv'
<1>1. Called /\ Called'
  BY DEF Called
<1>2. /\ JobFields \subseteq DOMAIN job /\ job.op \in DOMAIN Steps /\ conn = Connected
      /\ result.op = job.op /\ (job.op \in {"select", "insert"} => job.in = <<>>)
  BY <1>1, CallIs
<1>3. /\ job.in \in RowTypes \cup {<<>>} /\ job.row \in RowTypes \cup {<<>>}
      /\ job.op \in {"select_rows", "insert"} => "size" \in DOMAIN job /\ job.size \in BatchSizes
      /\ job.op = "insert" => job.row \in Plain
  BY <1>1, NoJobOp DEF ClientInv, JobOK, Called, Calling, At, Idle
<1>4. job'.op = job.op /\ job'.in = job.in /\ job'.row = job.row
  BY <1>2 DEF JobFields
<1>5. JobOK'
  <2>1. job.op \in {"select_rows", "insert"} => "size" \in DOMAIN job' /\ job'.size \in BatchSizes
    BY <1>3
  <2> QED
    BY <1>2, <1>3, <1>4, <2>1 DEF JobOK
<1>6. HandleInv' /\ MockOK(mock')
  <2> DEFINE n == LobFields(job.in)
  <2>1. LobFields(job'.in) = n /\ Held(mock', leaked', 1, 1, n + job'.defined, n)
    BY <1>4
  <2>2. conn' = Connected /\ leaked' \in BOOLEAN
    BY <1>2 DEF ClientInv, HandleInv
  <2> HIDE DEF n
  <2> QED
    BY <2>1, <2>2, NowCalling
<1>7. /\ DOMAIN result' = DOMAIN NoResult /\ result'.from \in Nat /\ result'.op = job.op
      /\ result'.status # "Success" /\ (job.op = "select_rows" => table = <<>>)
  BY <1>1, <1>2 DEF ClientInv, ProgressInv
<1>8. RetriedInsertStores'
  BY <1>7 DEF RetriedInsertStores
<1>9. ProgressInv'
  BY <1>4, <1>7, <1>8 DEF ProgressInv
<1> QED
  BY <1>5, <1>6, <1>9 DEF ClientInv

LEMMA TableSteps ==
    ASSUME ClientInv
    PROVE  /\ \A k \in DOMAIN table : table[k] = 1 \/ (k > 1 /\ table[k] = table[k - 1] + 1)
           /\ IsSeq(delivered) /\ IsSeq(table)
  BY DEF ClientInv, ProgressInv, RetriedInsertStores

LEMMA AnyRowsIsSeq == ASSUME NEW memory, NEW n \in Int PROVE IsSeq(BatchRows(memory, n))
<1>1. CASE n \in Nat
  BY <1>1, RowsIsSeq
<1>2. CASE n \notin Nat
  <2>1. 1 .. n = 1 .. 0
    BY <1>2
  <2>2. BatchRows(memory, n) = BatchRows(memory, 0)
    BY <2>1 DEF BatchRows
  <2> QED
    BY <2>2, RowsIsSeq
<1> QED
  BY <1>1, <1>2

LEMMA ExecuteGoes == ASSUME ClientInv, ExecuteStep PROVE ClientInv'
<1> DEFINE call == StmtExecute(mock, mem, 1)
           rows == BatchRows(call.mem, RowsFetched(call.m))
<1>1. Calling /\ job.op \in {"execute", "select"} /\ MockOK(mock)
  BY DEF ExecuteStep, Calling, At, ClientInv
<1>2. \/ Fails(call) /\ UNCHANGED table
      \/ /\ Return(call.m, "Success")
         /\ delivered' = IF job.op = "select" THEN rows ELSE delivered
         /\ UNCHANGED <<conn, table, losses, leaked>>
  BY DEF ExecuteStep
<1>3. MockOK(call.m) /\ SameHandles(mock, call.m)
  BY <1>1, ExecuteKeeps
<1> HIDE DEF call
<1>4. Held(call.m, leaked, 1, 1, LobFields(job.in) + job.defined, LobFields(job.in))
  BY <1>1, <1>3, HoldsNow, HeldSame
<1>5. CASE Fails(call) /\ UNCHANGED table
  BY <1>1, <1>4, <1>5, FailsKeeping
<1>6. CASE ~(Fails(call) /\ UNCHANGED table)
  <2>1. /\ Return(call.m, "Success") /\ table' = table /\ UNCHANGED <<conn, leaked>>
        /\ delivered' = IF job.op = "select" THEN rows ELSE delivered
    BY <1>2, <1>6
  <2>2. IsSeq(rows)
    BY <1>3, AnyRowsIsSeq DEF MockOK, RowsFetched
  <2> HIDE DEF rows
  <2>3. IsSeq(delivered') /\ IsSeq(table')
    BY <2>1, <2>2, TableSteps
  <2>4. "Success" \in Statuses /\ job.op # "insert" /\ job.op # "select_rows"
    BY <1>1 DEF Statuses
  <2> QED
    BY <1>1, <1>4, <2>1, <2>3, <2>4, Ended
<1> QED
  BY <1>5, <1>6

LEMMA SelectExecuteGoes == ASSUME ClientInv, SelectExecuteStep PROVE ClientInv'
<1> DEFINE call == StmtExecute(mock, mem, 0)
<1>1. Calling /\ At("execute") /\ job.op = "select_rows" /\ MockOK(mock)
  BY DEF SelectExecuteStep, Calling, At, ClientInv
<1>2. \/ Fails(call) /\ UNCHANGED table
      \/ /\ \E columns \in Descriptions : mock' = Describe(call.m, columns)
         /\ job' = [job EXCEPT !.pc = "define"]
         /\ UNCHANGED <<conn, mem, delivered, table, losses, leaked, result>>
  BY DEF SelectExecuteStep
<1>3. MockOK(call.m) /\ SameHandles(mock, call.m) /\ SameCursor(mock, call.m)
  BY <1>1, ExecuteKeeps
<1> HIDE DEF call
<1>4. Held(call.m, leaked, 1, 1, LobFields(job.in) + job.defined, LobFields(job.in))
  BY <1>1, <1>3, HoldsNow, HeldSame
<1>5. CASE Fails(call) /\ UNCHANGED table
  BY <1>1, <1>4, <1>5, FailsKeeping
<1>6. CASE ~(Fails(call) /\ UNCHANGED table)
  <2>1. /\ job' = [job EXCEPT !.pc = "define"]
        /\ UNCHANGED <<conn, mem, delivered, table, losses, leaked, result>>
    BY <1>2, <1>6
  <2>2. PICK columns \in Descriptions : mock' = Describe(call.m, columns)
    BY <1>2, <1>6
  <2>3. MockOK(mock') /\ SameHandles(call.m, mock') /\ SameCursor(call.m, mock')
    BY <1>3, <2>2, MockFields DEF MockOK, Describe, SameHandles, SameCursor
  <2>4. JobFields \subseteq DOMAIN job /\ job.defined = 0
    BY <1>1, CallIs DEF Called, At
  <2>5. /\ DOMAIN job' = DOMAIN job /\ job'.pc = "define"
        /\ \A x \in DOMAIN job \ {"pc"} : job'[x] = job[x]
    BY <2>1, <2>4 DEF JobFields
  <2>6. job'.defined = 0 /\ Calling' /\ ~At("fetch")' /\ job'.pc \in Steps[job.op]
    BY <1>1, <2>4, <2>5 DEF JobFields, Calling, At, Steps
  <2>7. Held(mock', leaked, 1, 1, LobFields(job.in) + job'.defined, LobFields(job.in))
    BY <1>4, <2>3, <2>4, <2>6, HeldSame
  <2>8. Selecting'
    <3>1. Selecting
      BY <1>1 DEF ClientInv, ProgressInv, Called
    <3> QED
      BY <1>1, <1>3, <2>1, <2>3, <3>1 DEF Selecting, SameCursor
  <2>9. /\ IsSeq(delivered') /\ IsSeq(table')
        /\ \A k \in DOMAIN table' : table'[k] = 1 \/ (k > 1 /\ table'[k] = table'[k - 1] + 1)
    BY <2>1, TableSteps
  <2> QED
    BY <1>1, <2>1, <2>5, <2>6, <2>7, <2>8, <2>9, Goes
<1> QED
  BY <1>5, <1>6

LEMMA DefineGoes == ASSUME ClientInv, DefineStep PROVE ClientInv'
<1> DEFINE positions == ResolveColumnPositions(job.row)
           lobs == job.size * LobFields(job.row)
           bad == \E f \in DOMAIN positions : positions[f] = 0
           m == DefineColumns(mock, job.row, positions)
<1>1. Calling /\ At("define") /\ MockOK(mock) /\ Called
  BY DEF DefineStep, Calling, At, ClientInv, Called
<1>2. IF bad THEN Return(mock, "QueryError") /\ UNCHANGED <<conn, delivered, table, losses, leaked>>
      ELSE /\ mock' = [m EXCEPT !.live["LOB"] = @ + lobs]
           /\ job' = [job EXCEPT !.pc = "fetch", !.defined = lobs]
           /\ UNCHANGED <<conn, mem, delivered, table, losses, leaked, result>>
  BY DEF DefineStep
<1> HIDE DEF bad
<1>3. Held(mock, leaked, 1, 1, LobFields(job.in) + job.defined, LobFields(job.in))
  BY <1>1, HoldsNow
<1>4. CASE bad
  <2>1. /\ Return(mock, "QueryError") /\ UNCHANGED <<conn, leaked>>
        /\ delivered' = delivered /\ table' = table /\ "QueryError" \in Statuses
    BY <1>2, <1>4 DEF Statuses
  <2>2. IsSeq(delivered') /\ IsSeq(table') /\ job.op # "insert"
    BY <1>1, <2>1, TableSteps, StepIs
  <2> QED
    BY <1>1, <1>3, <2>1, <2>2, Ended
<1>5. CASE ~bad
  <2>1. /\ mock' = [m EXCEPT !.live["LOB"] = @ + lobs]
        /\ job' = [job EXCEPT !.pc = "fetch", !.defined = lobs]
        /\ UNCHANGED <<conn, mem, delivered, table, losses, leaked, result>>
    BY <1>2, <1>5
  <2>2. /\ JobFields \subseteq DOMAIN job /\ job.defined = 0 /\ StructOK(job.row)
        /\ LobFields(job.in) \in Nat
    BY <1>1, CallIs DEF At
  <2>3. job.op = "select_rows" /\ job.size \in BatchSizes
    BY <1>1, StepIs
  <2>4. lobs \in Nat
    <3>1. job.size \in Nat
      BY <2>3, MaxBatchOK
    <3>2. LobFields(job.row) \in Nat
      <4> DEFINE row == job.row
                 n == Len(row)
      <4>1. n \in Nat /\ Len(row) = n
        BY <2>2 DEF StructOK
      <4> HIDE DEF row, n
      <4>2. LobFields(row) \in Nat
        BY <4>1, Lobs DEF LobsCounted
      <4> QED
        BY <4>2 DEF row
    <3> QED
      BY <3>1, <3>2
  <2>5. MockOK(m) /\ SameHandles(mock, m) /\ SameCursor(mock, m)
    BY <1>1, <2>2, ColumnsKeep DEF Kept, StructOK
  <2> HIDE DEF lobs, m
  <2>6. /\ DOMAIN job' = DOMAIN job /\ job'.pc = "fetch" /\ job'.defined = lobs
        /\ \A x \in DOMAIN job \ {"pc", "defined"} : job'[x] = job[x]
    BY <2>1, <2>2 DEF JobFields
  <2>7. /\ DOMAIN mock' = DOMAIN m /\ \A x \in DOMAIN m \ {"live"} : mock'[x] = m[x]
        /\ mock'.live = [m.live EXCEPT !["LOB"] = @ + lobs]
    BY <2>1, <2>5, MockFields DEF MockOK
  <2>8. /\ mock'.misused = m.misused /\ mock'.mode = m.mode /\ mock'.left = m.left
        /\ mock'.total = m.total /\ mock'.row = m.row /\ mock'.fetched = m.fetched
        /\ mock'.columns = m.columns
    BY <2>5, <2>7, MockFields DEF MockOK
  <2>9. /\ mock'.live \in [Kinds -> Nat] /\ mock'.live["LOB"] = m.live["LOB"] + lobs
        /\ \A k \in Kinds \ {"LOB"} : mock'.live[k] = m.live[k]
    BY <2>4, <2>5, <2>7 DEF MockOK, Kinds
  <2>10. MockOK(mock')
    BY <2>5, <2>7, <2>8, <2>9 DEF MockOK
  <2>11. Held(mock', leaked, 1, 1, LobFields(job.in) + job'.defined, LobFields(job.in))
    <3> DEFINE n == LobFields(job.in)
    <3>1. Held(m, leaked, 1, 1, n, n) /\ n \in Nat
      BY <1>3, <2>2, <2>5, HeldSame
    <3>2. m.live["LOB"] \in Nat
      BY <2>5, LiveIsNat DEF Kinds
    <3> HIDE DEF n
    <3>3. Held(mock', leaked, 1, 1, n + lobs, n)
      BY <2>4, <2>8, <2>9, <2>10, <3>1, <3>2 DEF Held, Session, Kinds
    <3> QED
      BY <2>6, <3>3 DEF n
  <2>12. Selecting'
    <3>1. Selecting
      BY <1>1, <2>3 DEF ClientInv, ProgressInv
    <3> QED
      BY <1>1, <2>1, <2>5, <2>8, <3>1 DEF Selecting, SameCursor
  <2>13. Calling' /\ At("fetch")' /\ job'.pc \in Steps[job.op] /\ job'.defined \in Nat
    BY <2>3, <2>4, <2>6 DEF Calling, At, Steps
  <2>14. /\ IsSeq(delivered') /\ IsSeq(table')
         /\ \A k \in DOMAIN table' : table'[k] = 1 \/ (k > 1 /\ table'[k] = table'[k - 1] + 1)
    BY <2>1, TableSteps
  <2> QED
    BY <1>1, <2>1, <2>3, <2>6, <2>11, <2>12, <2>13, <2>14, Goes
<1> QED
  BY <1>4, <1>5

\* A batch moves the cursor by the rows it hands over.
LEMMA FetchGoes == ASSUME ClientInv, FetchStep PROVE ClientInv'
<1> DEFINE call == StmtFetch2(mock, mem, job.size)
           n == RowsFetched(call.m)
           applied == ApplyColumns(call.mem, job.row, n)
           rows == BatchRows(applied, n)
<1>1. Calling /\ At("fetch") /\ MockOK(mock) /\ Called
  BY DEF FetchStep, Calling, At, ClientInv, Called
<1>2. /\ delivered' = delivered \o rows
      /\ IF call.rc = NO_DATA THEN Return(call.m, "Success")
         ELSE mock' = call.m /\ mem' = applied /\ UNCHANGED <<job, result>>
      /\ UNCHANGED <<conn, table, losses, leaked>>
  BY DEF FetchStep
<1>3. job.op = "select_rows" /\ job.size \in Nat \ {0}
  BY <1>1, StepIs, RowsAssumption
<1>4. mock.row \in 0 .. mock.total /\ Len(delivered) = result.from + mock.row /\ result.from \in Nat
  BY <1>1, <1>3 DEF ClientInv, ProgressInv, Selecting
<1>5. /\ MockOK(call.m) /\ SameHandles(mock, call.m) /\ call.m.total = mock.total
      /\ n \in Nat /\ call.m.row = mock.row + n /\ call.m.row <= mock.total
  <2>1. mock.row <= mock.total
    BY <1>4
  <2> QED
    BY <1>1, <1>3, <2>1, FetchKeeps DEF StmtFetch2, RowsFetched
<1> HIDE DEF call, n, applied
<1>6. IsSeq(rows) /\ Len(rows) = n
  BY <1>5, RowsIsSeq
<1> HIDE DEF rows
<1>7. IsSeq(delivered') /\ Len(delivered') = Len(delivered) + n
  BY <1>2, <1>6, TableSteps, MoreRows
<1>8. table' = table /\ IsSeq(table') /\ UNCHANGED <<conn, leaked>>
      /\ \A k \in DOMAIN table' : table'[k] = 1 \/ (k > 1 /\ table'[k] = table'[k - 1] + 1)
  BY <1>2, TableSteps
<1>9. Held(call.m, leaked, 1, 1, LobFields(job.in) + job.defined, LobFields(job.in))
  BY <1>1, <1>5, HoldsNow, HeldSame
<1>10. CASE call.rc = NO_DATA
  <2>1. Return(call.m, "Success") /\ "Success" \in Statuses
    BY <1>2, <1>10 DEF Statuses
  <2>2. job.op # "insert"
    BY <1>3
  <2> HIDE DEF call
  <2> QED
    BY <1>1, <1>7, <1>8, <1>9, <2>1, <2>2, Ended
<1>11. CASE call.rc # NO_DATA
  <2>1. mock' = call.m /\ UNCHANGED <<job, result>>
    BY <1>2, <1>11
  <2>2. Selecting'
    <3>1. mock'.row = mock.row + n /\ mock'.total = mock.total /\ mock'.row <= mock.total
      BY <1>5, <2>1
    <3>2. mock'.row \in 0 .. mock'.total
      BY <1>4, <1>5, <3>1
    <3>3. Len(delivered') = result'.from + mock'.row
      BY <1>4, <1>5, <1>7, <2>1, <3>1
    <3> QED
      BY <3>2, <3>3 DEF Selecting
  <2>3. Calling' /\ job'.pc \in Steps[job.op] /\ job'.defined \in Nat /\ ~(~At("fetch")')
    BY <1>1, <2>1, StepIs, CallIs DEF Calling, At
  <2>4. Held(mock', leaked, 1, 1, LobFields(job.in) + job'.defined, LobFields(job.in))
    BY <1>9, <2>1
  <2>5. job.op # "insert"
    BY <1>3
  <2> QED
    BY <1>1, <1>7, <1>8, <2>1, <2>2, <2>3, <2>4, <2>5, Goes
<1> QED
  BY <1>10, <1>11

LEMMA FetchLostGoes == ASSUME ClientInv, FetchLostStep PROVE ClientInv'
<1> DEFINE call == FetchLost(mock, mem)
           m == call.m
           status == Classify(m, call.rc)
<1>1. Calling /\ At("fetch") /\ MockOK(mock) /\ job.op = "select_rows"
  BY StepIs DEF FetchLostStep, Calling, At, ClientInv
<1>2. /\ Return(m, status) /\ delivered' = delivered /\ table' = table
      /\ UNCHANGED <<conn, leaked>>
  BY DEF FetchLostStep
<1>3. MockOK(m) /\ SameHandles(mock, m)
  BY <1>1, MockFields DEF MockOK, FetchLost, SameHandles, Modes
<1>4. status \in Statuses
  BY ClassifyIs
<1> HIDE DEF m, status
<1>5. Held(m, leaked, 1, 1, LobFields(job.in) + job.defined, LobFields(job.in))
  BY <1>1, <1>3, HoldsNow, HeldSame
<1>6. IsSeq(delivered') /\ IsSeq(table') /\ job.op # "insert"
  BY <1>1, <1>2, TableSteps
<1> QED
  BY <1>1, <1>2, <1>4, <1>5, <1>6, Ended

\* What the exception leaves behind stays; nothing is owed any more.
LEMMA CallbackGoes == ASSUME ClientInv, CallbackThrows PROVE ClientInv'
<1>1. /\ Calling /\ Called /\ leaked' = TRUE /\ job' = NoJob /\ job.op = "select_rows"
      /\ result' = [result EXCEPT !.status = "thrown"]
      /\ UNCHANGED <<mock, conn, delivered, table, losses>>
  BY StepIs DEF CallbackThrows, Calling, At, Called
<1>2. ~Calling' /\ ~Called' /\ JobOK'
  BY <1>1, NoJobOp DEF Calling, Called, At, JobOK, Idle
<1>3. conn = Connected /\ LobFields(job.in) \in Nat /\ job.defined \in Nat
  BY <1>1, CallIs
<1>4. Held(mock', leaked', 1, 0, 0, 0)
  <2>1. Held(mock, leaked, 1, 1, LobFields(job.in) + job.defined, LobFields(job.in))
    BY <1>1, HoldsNow
  <2>2. \A k \in Kinds : mock.live[k] \in Nat
    BY <2>1, LiveIsNat DEF Held
  <2> QED
    BY <1>1, <2>1, <2>2 DEF Held, Kinds
<1>5. conn' = Connected /\ conn'.svc /\ leaked' \in BOOLEAN
  BY <1>1, <1>3 DEF Connected
<1>6. HandleInv' /\ MockOK(mock')
  BY <1>2, <1>4, <1>5, NowAtRest
<1>7. /\ DOMAIN result' = DOMAIN NoResult /\ result'.status = "thrown" /\ result'.from = result.from
  BY <1>1 DEF ClientInv, ProgressInv, NoResult
<1>8. ProgressInv'
  BY <1>1, <1>2, <1>7 DEF ClientInv, ProgressInv, RetriedInsertStores
<1> QED
  BY <1>2, <1>6, <1>8 DEF ClientInv

\* The rows of a chunk, or its first ones, follow those before them.
LEMMA ChunkAppended ==
    ASSUME NEW from \in Nat, NEW offset \in Nat, NEW n \in Nat,
           IsSeq(table), StoredFrom(table, from, offset), InOrder(table),
           NEW more, more = table \o Chunk(offset, n)
    PROVE  IsSeq(more) /\ StoredFrom(more, from, offset + n) /\ InOrder(more)
<1> DEFINE rows == Chunk(offset, n)
           len == Len(table)
<1>1. DOMAIN rows = 1 .. n /\ rows = [k \in 1 .. n |-> rows[k]] /\ \A k \in 1 .. n : rows[k] = offset + k
  BY DEF Chunk
<1>2. len \in Nat /\ DOMAIN table = 1 .. len /\ len = from + offset /\ Len(table) = len
  <2>1. table \in Seq({table[i] : i \in DOMAIN table})
    BY DEF IsSeq
  <2>2. Len(table) = from + offset
    BY DEF StoredFrom
  <2> QED
    BY <2>1, <2>2, LenProperties
<1>0. \A k \in DOMAIN table : table[k] = 1 \/ (k > 1 /\ table[k] = table[k - 1] + 1)
  BY DEF InOrder
<1>3. more = table \o rows
  OBVIOUS
<1> HIDE DEF rows, len
<1>4. IsSeq(rows) /\ Len(rows) = n
  <2> DEFINE S == {rows[i] : i \in DOMAIN rows}
  <2>1. rows \in [1 .. n -> S]
    BY <1>1
  <2>2. IsSeq(rows) <=> rows \in Seq(S)
    BY DEF IsSeq
  <2> HIDE DEF S
  <2>3. rows \in Seq(S)
    BY <2>1, SeqDef
  <2>4. Len(rows) \in Nat /\ DOMAIN rows = 1 .. Len(rows)
    BY <2>3, LenProperties
  <2>5. Len(rows) = n
    BY ONLY <2>4, <1>1
  <2> QED
    BY <2>2, <2>3, <2>5
<1>5. /\ IsSeq(more) /\ Len(more) = len + n
      /\ \A i \in 1 .. len + n : more[i] = IF i <= len THEN table[i] ELSE rows[i - len]
  <2>1. /\ IsSeq(table \o rows) /\ Len(table \o rows) = Len(table) + Len(rows)
        /\ \A i \in 1 .. Len(table) + Len(rows) :
             (table \o rows)[i] = IF i <= Len(table) THEN table[i] ELSE rows[i - Len(table)]
    BY ONLY IsSeq(table), <1>4, MoreRows
  <2> QED
    BY ONLY <2>1, <1>2, <1>3, <1>4
<1>6. DOMAIN more = 1 .. len + n
  <2>1. more \in Seq({more[i] : i \in DOMAIN more})
    BY <1>5 DEF IsSeq
  <2> QED
    BY <1>5, <2>1, LenProperties
<1>7. \A k \in 1 .. offset + n : more[from + k] = k
  <2> SUFFICES ASSUME NEW k \in 1 .. offset + n PROVE more[from + k] = k
    OBVIOUS
  <2>1. CASE k <= offset
    <3>1. from + k \in 1 .. len + n /\ from + k <= len /\ k \in 1 .. offset
      BY <1>2, <2>1
    <3>2. table[from + k] = k
      BY <3>1 DEF StoredFrom
    <3> QED
      BY <1>5, <3>1, <3>2
  <2>2. CASE ~ (k <= offset)
    <3>1. from + k \in 1 .. len + n /\ ~ (from + k <= len) /\ k - offset \in 1 .. n
          /\ (from + k) - len = k - offset /\ offset + (k - offset) = k
      BY <1>2, <2>2
    <3> QED
      BY <1>1, <1>5, <3>1
  <2> QED
    BY <2>1, <2>2
<1>8. ASSUME NEW k \in 1 .. len + n PROVE more[k] = 1 \/ (k > 1 /\ more[k] = more[k - 1] + 1)
  <2>1. CASE k <= len
    <3>1. k \in 1 .. len /\ more[k] = table[k]
      BY <1>2, <1>5, <2>1
    <3>2. k > 1 => k - 1 \in 1 .. len + n /\ k - 1 <= len
      BY <1>2, <2>1
    <3>3. k > 1 => more[k - 1] = table[k - 1]
      BY <1>5, <3>2
    <3>4. table[k] = 1 \/ (k > 1 /\ table[k] = table[k - 1] + 1)
      BY <1>0, <1>2, <3>1
    <3> QED
      BY ONLY <3>1, <3>3, <3>4
  <2>2. CASE ~ (k <= len)
    <3> DEFINE j == k - from
    <3>1. /\ j \in 1 .. offset + n /\ from + j = k /\ k > from
          /\ (j # 1 => j - 1 \in 1 .. offset + n /\ from + (j - 1) = k - 1 /\ k > 1)
      BY <1>2, <2>2
    <3>2. more[k] = j
      BY <1>7, <3>1
    <3>3. j # 1 => more[k - 1] = j - 1
      BY <1>7, <3>1
    <3> HIDE DEF j
    <3>4. j = 1 \/ (k > 1 /\ more[k - 1] + 1 = j)
      <4>1. CASE j = 1
        BY <4>1
      <4>2. CASE j # 1
        <5>1. more[k - 1] = j - 1 /\ k > 1
          BY ONLY <3>1, <3>3, <4>2
        <5>2. j \in Int
          BY <3>1
        <5> QED
          BY ONLY <5>1, <5>2
      <4> QED
        BY <4>1, <4>2
    <3> QED
      BY ONLY <3>2, <3>4
  <2> QED
    BY ONLY <2>1, <2>2
<1>9. Len(more) = from + (offset + n)
  BY <1>2, <1>5
<1> QED
  BY <1>5, <1>6, <1>7, <1>8, <1>9 DEF StoredFrom, InOrder

LEMMA InsertGoes == ASSUME ClientInv, InsertChunkStep PROVE ClientInv'
<1> DEFINE n == ChunkLength
           inputs == [f \in 1 .. Len(job.row) |-> TRUE]
           bound == BindParams(mock, job.row, inputs)
           b == [bound EXCEPT !.inds = <<>>]
           call == StmtExecute(b, mem, n)
           stored(k) == Chunk(job.offset, k)
           next == job.offset + job.size
<1>1. Calling /\ Called /\ At("execute") /\ job.op = "insert" /\ MockOK(mock)
  BY DEF InsertChunkStep, Calling, At, ClientInv, Called
<1>2. \/ Fails(call) /\ \E k \in 0 .. n : table' = table \o stored(k)
      \/ /\ table' = table \o stored(n)
         /\ IF next < MaxRows
            THEN job' = [job EXCEPT !.offset = @ + job.size] /\ mock' = call.m /\ UNCHANGED <<mem, result>>
            ELSE Return(call.m, "Success")
         /\ UNCHANGED <<conn, delivered, losses, leaked>>
  BY DEF InsertChunkStep, Chunk, BindArrayFields
<1>3. /\ JobFields \subseteq DOMAIN job /\ job.defined = 0 /\ job.in = <<>> /\ job.size \in Nat \ {0}
      /\ job.row \in Plain /\ result.op = "insert"
  BY <1>1, CallIs, StepIs, RowsAssumption DEF At
<1>4. /\ delivered = <<>> /\ job.offset \in Nat /\ job.offset < MaxRows
      /\ Len(table) = result.from + job.offset /\ result.from \in Nat
      /\ \A k \in 1 .. job.offset : table[result.from + k] = k
  BY <1>1 DEF ClientInv, ProgressInv, Storing
<1>5. /\ n \in Nat \ {0}
      /\ next < MaxRows => n = job.size
      /\ ~ (next < MaxRows) => job.offset + n = MaxRows
  BY <1>3, <1>4, BindingAssumption DEF ChunkLength
<1>7. MockOK(call.m) /\ SameHandles(mock, call.m)
  <2>1. LobFields(job.row) = 0 /\ Len(job.row) \in Nat
    BY <1>3, PlainHasNoLob DEF StructOK
  <2> HIDE DEF n, call, b, inputs
  <2>2. Bound(mock, bound, 0)
    BY <1>1, <2>1, ParamsKeep
  <2> HIDE DEF bound
  <2>3. /\ MockOK(bound) /\ bound.misused = mock.misused /\ bound.live = mock.live
    <3>1. MockOK(bound) /\ bound.misused = mock.misused
      BY <2>2 DEF Bound
    <3>2. \A k \in Kinds : bound.live[k] = mock.live[k]
      <4>1. mock.live["LOB"] \in Nat /\ mock.live["TEMP"] \in Nat
        BY <1>1, LiveIsNat DEF Kinds
      <4> QED
        BY <2>2, <4>1 DEF Bound
    <3>3. bound.live \in [Kinds -> Nat] /\ mock.live \in [Kinds -> Nat]
      BY <1>1, <3>1 DEF MockOK
    <3> QED
      BY <3>1, <3>2, <3>3
  <2>4. MockOK(b) /\ SameHandles(bound, b)
    BY <2>3, MockFields DEF MockOK, SameHandles, b
  <2>5. MockOK(call.m) /\ SameHandles(b, call.m)
    BY <1>5, <2>4, ExecuteKeeps DEF call
  <2> QED
    BY <2>3, <2>4, <2>5 DEF SameHandles
<1>6. ASSUME NEW k \in Nat, table' = table \o Chunk(job.offset, k)
      PROVE  /\ IsSeq(table') /\ Len(table') = result.from + (job.offset + k) /\ InOrder(table')
             /\ \A i \in 1 .. job.offset + k : table'[result.from + i] = i
  <2>1. IsSeq(table) /\ InOrder(table)
    BY TableSteps DEF InOrder
  <2> DEFINE from == result.from
             offset == job.offset
             more == table'
  <2>2. /\ from \in Nat /\ offset \in Nat /\ StoredFrom(table, from, offset)
        /\ more = table \o Chunk(offset, k) /\ k \in Nat
    BY <1>4, <1>6 DEF StoredFrom
  <2> HIDE DEF from, offset, more
  <2>3. IsSeq(more) /\ StoredFrom(more, from, offset + k) /\ InOrder(more)
    BY ONLY <2>1, <2>2, ChunkAppended
  <2> QED
    BY <2>3 DEF from, offset, more, StoredFrom
<1> HIDE DEF call, n
<1>8. Held(call.m, leaked, 1, 1, LobFields(job.in) + job.defined, LobFields(job.in))
  BY <1>1, <1>7, HoldsNow, HeldSame
<1>9. CASE Fails(call) /\ \E k \in 0 .. n : table' = table \o stored(k)
  <2>1. PICK k \in 0 .. n : table' = table \o Chunk(job.offset, k)
    BY <1>9
  <2>2. k \in Nat
    BY <1>5
  <2>3. /\ IsSeq(table') /\ Len(table') = result.from + (job.offset + k) /\ InOrder(table')
    BY <1>6, <2>1, <2>2
  <2>4. result.from <= Len(table')
    BY <1>4, <2>2, <2>3
  <2>5. job.op # "select_rows"
    BY <1>1
  <2> QED
    BY <1>1, <1>8, <1>9, <2>3, <2>4, <2>5, FailsEnds
<1>10. CASE ~(Fails(call) /\ \E k \in 0 .. n : table' = table \o stored(k))
  <2>1. /\ table' = table \o Chunk(job.offset, n) /\ UNCHANGED <<conn, delivered, leaked>>
        /\ IF next < MaxRows
           THEN job' = [job EXCEPT !.offset = @ + job.size] /\ mock' = call.m /\ UNCHANGED <<mem, result>>
           ELSE Return(call.m, "Success")
    BY <1>2, <1>10
  <2>2. /\ IsSeq(table') /\ Len(table') = result.from + (job.offset + n)
        /\ \A k \in 1 .. job.offset + n : table'[result.from + k] = k
        /\ \A k \in DOMAIN table' : table'[k] = 1 \/ (k > 1 /\ table'[k] = table'[k - 1] + 1)
    <3>1. n \in Nat
      BY <1>5
    <3> QED
      BY <1>6, <2>1, <3>1 DEF InOrder
  <2>3. IsSeq(delivered') /\ delivered' = delivered /\ delivered' = <<>>
    BY <1>4, <2>1, TableSteps
  <2>4. CASE next < MaxRows
    <3>1. job' = [job EXCEPT !.offset = @ + job.size] /\ mock' = call.m /\ UNCHANGED <<mem, result>>
      BY <2>1, <2>4
    <3>2. /\ DOMAIN job' = DOMAIN job /\ job'.offset = next
          /\ \A x \in DOMAIN job \ {"offset"} : job'[x] = job[x]
      BY <1>3, <3>1 DEF JobFields
    <3>3. job'.defined = job.defined /\ job'.pc = job.pc /\ job'.pc \in Steps[job.op] /\ Calling'
          /\ ~At("fetch")' /\ job'.defined = 0 /\ job'.defined \in Nat
      BY <1>1, <1>3, <3>2, StepIs DEF JobFields, Calling, At
    <3>4. Held(mock', leaked, 1, 1, LobFields(job.in) + job'.defined, LobFields(job.in))
      BY <1>8, <3>1, <3>3
    <3>5. Storing'
      <4>1. job'.offset = job.offset + n /\ job'.offset \in Nat /\ job'.offset < MaxRows
        BY <1>3, <1>4, <1>5, <2>4, <3>2
      <4>2. result' = result
        BY <3>1
      <4>3. Len(table') = result'.from + job'.offset /\ \A k \in 1 .. job'.offset : table'[result'.from + k] = k
        BY <2>2, <4>1, <4>2
      <4>4. result'.from <= Len(table')
        BY <1>4, <4>1, <4>2, <4>3
      <4> QED
        BY <2>3, <4>1, <4>3, <4>4 DEF Storing
    <3>6. /\ UNCHANGED <<conn, leaked, result>> /\ job.op # "select_rows"
          /\ \A x \in DOMAIN job \ {"pc", "offset", "defined"} : job'[x] = job[x]
      BY <1>1, <2>1, <3>1, <3>2
    <3> QED
      BY ONLY ClientInv, <1>1, <2>2, <2>3, <3>2, <3>3, <3>4, <3>5, <3>6, Goes
  <2>5. CASE ~ (next < MaxRows)
    <3>1. Return(call.m, "Success") /\ "Success" \in Statuses /\ UNCHANGED <<conn, leaked>>
      BY <2>1, <2>5 DEF Statuses
    <3>2. job.offset + n = MaxRows
      BY <1>5, <2>5
    <3> DEFINE m == call.m
               status == "Success"
    <3>3. /\ Return(m, status) /\ status \in Statuses
          /\ Held(m, leaked, 1, 1, LobFields(job.in) + job.defined, LobFields(job.in))
      BY <1>8, <3>1
    <3> HIDE DEF m, status
    <3>4. result'.from = result.from
      BY <1>1, <3>1, <3>3, Returned
    <3>5. RetriedInsertStores'
      BY <2>2, <3>2, <3>4 DEF RetriedInsertStores
    <3>6. job.op # "select_rows" /\ result.from <= Len(table')
      BY <1>1, <1>4, <2>2, <3>2, BindingAssumption
    <3> QED
      BY <1>1, <2>2, <2>3, <3>1, <3>3, <3>5, <3>6, Ended
  <2> QED
    BY <2>4, <2>5
<1> QED
  BY <1>9, <1>10

(* ---- the database, while a call runs ----------------------------------- *)

\* What it will do to the next execute touches neither the handles nor the cursor.
LEMMA FailNextKeeps ==
    ASSUME DatabaseFails, MockOK(mock)
    PROVE  /\ MockOK(mock') /\ SameHandles(mock, mock') /\ SameCursor(mock, mock')
           /\ mock'.defines = mock.defines
<1>1. PICK mode \in Modes : mock' = [mock EXCEPT !.mode = mode, !.left = 1]
  BY DEF DatabaseFails, FailNext, SetMode, Modes
<1> QED
  BY <1>1, MockFields DEF MockOK, SameHandles, SameCursor

LEMMA DatabaseFailsStep == ASSUME ClientInv, DatabaseFails PROVE ClientInv'
<1>1. /\ MockOK(mock') /\ SameHandles(mock, mock') /\ SameCursor(mock, mock')
      /\ UNCHANGED <<conn, job, delivered, table, leaked, result>> /\ job.pc = "execute"
  BY FailNextKeeps DEF DatabaseFails, At, ClientInv
<1>2. Calling /\ Calling' /\ Called /\ ~At("fetch")'
  BY <1>1 DEF Calling, Called, At
<1>3. /\ job.defined \in Nat /\ (~At("fetch") => job.defined = 0) /\ job'.pc \in Steps[job.op]
  BY <1>1, <1>2, CallIs, StepIs
<1>4. Held(mock', leaked, 1, 1, LobFields(job.in) + job.defined, LobFields(job.in))
  BY <1>1, <1>2, HoldsNow, HeldSame
<1>5. job.op = "insert" => Storing'
  BY <1>1, <1>2 DEF ClientInv, ProgressInv, Storing, Calling
<1>6. job.op = "select_rows" => Selecting'
  BY <1>1, <1>2 DEF ClientInv, ProgressInv, Selecting, Calling, SameCursor
<1>7. /\ IsSeq(delivered') /\ IsSeq(table') /\ table' = table
      /\ \A k \in DOMAIN table' : table'[k] = 1 \/ (k > 1 /\ table'[k] = table'[k - 1] + 1)
  BY <1>1, TableSteps
<1>8. /\ job'.defined \in Nat /\ (~At("fetch")' => job'.defined = 0) /\ DOMAIN job' = DOMAIN job
      /\ \A x \in DOMAIN job \ {"pc", "offset", "defined"} : job'[x] = job[x]
      /\ Held(mock', leaked, 1, 1, LobFields(job.in) + job'.defined, LobFields(job.in))
      /\ UNCHANGED <<conn, leaked, result>>
  BY <1>1, <1>3, <1>4 DEF At
<1> QED
  BY ONLY ClientInv, <1>2, <1>3, <1>5, <1>6, <1>7, <1>8, Goes

LEMMA NextStep == ASSUME ClientInv, Next PROVE ClientInv'
  BY ConnectStep, DisconnectStep, FailureSteps, CallSteps, ReconnectStep, ExecuteGoes,
     SelectExecuteGoes, DefineGoes, FetchGoes, InsertGoes, FetchLostGoes, CallbackGoes,
     ConvertSteps, DatabaseFailsStep, Zenon DEF Next

LEMMA ClientStutters == ASSUME ClientInv, UNCHANGED vars PROVE ClientInv'
<1> USE DEF vars
<1>1. MockOK(mock') /\ JobOK'
  BY DEF ClientInv, JobOK, Idle, At
<1>2. HandleInv'
  BY DEF ClientInv, HandleInv, Owed, Calling, Called, At
<1>3. ProgressInv'
  BY DEF ClientInv, ProgressInv, RetriedInsertStores, Storing, Selecting, Calling, Called, At
<1> QED
  BY <1>1, <1>2, <1>3 DEF ClientInv

\* The caller and its client at every moment: the globals of OCI are well formed, a
\* call is at one of its operation's steps or waits for its caller, it owes exactly
\* the handles it has made, and what an attempt has handed over or stored is what its
\* cursor or its offset says, after what lost attempts left (details/oci_client.h,
\* details/oci_connection.h and the demos that retry).
THEOREM ClientInvariant == Spec => []ClientInv
<1>1. ClientInv /\ [Next]_vars => ClientInv'
  BY NextStep, ClientStutters
<1> QED
  BY InitClient, <1>1, PTL DEF Spec

\* At whichever chunk and however often the session is lost, an insert that its caller
\* repeats until it succeeds has stored all rows in order, after nothing but what the
\* lost attempts left behind, each the first rows of the insert up to where it was lost
\* or rolled back (insert_rows), for any number of rows and any chunk size.
THEOREM RetriedInsertsStore == Spec => []RetriedInsertStores
<1>1. ClientInv => RetriedInsertStores
  BY DEF ClientInv, ProgressInv
<1> QED
  BY <1>1, ClientInvariant, PTL

\* However a call ends, its statement, its input's temporary LOBs and the locators of
\* its fetch are freed, each once and before the environment; only an exception of the
\* callback leaves them behind.  For any row types and batch sizes (the frees at the
\* returns of details/oci_client.h).
THEOREM ReturnsFreeAll == Spec => []ReturnFreesAll
<1>1. ASSUME ClientInv PROVE ReturnFreesAll
  <2> SUFFICES ASSUME Idle \/ At("lost") PROVE ReturnFreesAll
    BY DEF ReturnFreesAll
  <2>1. ~Calling
    BY IdleIs DEF Calling, At
  <2>2. Held(mock, leaked, IF conn.svc THEN 1 ELSE 0, 0, 0, 0)
    BY <1>1, <2>1, HoldsNothing
  <2> QED
    BY <2>2, KindsAre DEF Held, ReturnFreesAll
<1>2. ClientInv => ReturnFreesAll
  BY <1>1
<1> QED
  BY <1>2, ClientInvariant, PTL

(* ---- the rows of a batch ----------------------------------------------- *)

\* The applied values stand in the batch.
LEMMA ApplyOK ==
    ASSUME NEW memory, NEW row, StructOK(row), Cells(memory, Len(row)), NEW n \in Nat
    PROVE  /\ Cells(ApplyColumns(memory, row, n), Len(row))
           /\ \A f \in 1 .. Len(row), s \in Slots :
                s < n => ApplyColumns(memory, row, n).batch[f][s] = ApplyOneColumn(memory, f, row[f].kind, s)
<1> DEFINE after == ApplyColumns(memory, row, n)
           cell(f, s) == IF s < n THEN ApplyOneColumn(memory, f, row[f].kind, s) ELSE memory.batch[f][s]
           cells == [f \in DOMAIN memory.batch |-> [s \in Slots |-> cell(f, s)]]
<1>1. /\ DOMAIN memory = {"batch", "stage", "ind"}
      /\ DOMAIN memory.batch = 1 .. Len(row)
  BY DEF Cells
<1>2. after = [memory EXCEPT !.batch = cells]
  BY DEF ApplyColumns
<1> HIDE DEF cell, after
<1>3. DOMAIN cells = 1 .. Len(row)
      /\ \A f \in 1 .. Len(row) : DOMAIN cells[f] = Slots /\ \A s \in Slots : cells[f][s] = cell(f, s)
  BY <1>1
<1> HIDE DEF cells
<1>4. DOMAIN after = DOMAIN memory /\ after.batch = cells /\ after.stage = memory.stage
      /\ after.ind = memory.ind
  BY <1>1, <1>2
<1>5. Cells(after, Len(row))
  BY <1>3, <1>4 DEF Cells
<1>6. \A f \in 1 .. Len(row), s \in Slots : s < n => after.batch[f][s] = ApplyOneColumn(memory, f, row[f].kind, s)
  BY <1>3, <1>4 DEF cell
<1> QED
  BY <1>5, <1>6 DEF after

\* What a field that was filled reads as: its column's value, or nothing at all.
LEMMA ReadsAsSent ==
    ASSUME NEW m, NEW memory, NEW row, NEW positions, NEW f, NEW s, NEW k, f \in 1 .. Len(row),
           Filled(m, memory, DefinesOf(row), positions, f, s, k)
    PROVE  LET v == ApplyOneColumn(memory, f, row[f].kind, s)
           IN  /\ IsNull(m, positions[f], k) /\ Staged(row[f].kind) => v = NoValue
               /\ ~IsNull(m, positions[f], k) => v = <<k, positions[f]>>
<1> DEFINE kind == row[f].kind
           v == ApplyOneColumn(memory, f, kind, s)
           w == <<k, positions[f]>>
           area == IF Staged(kind) THEN "stage" ELSE "batch"
<1>1. DefinesOf(row)[f].area = area /\ DefinesOf(row)[f].ind = Staged(kind)
  BY DEF DefinesOf, ColumnDefine
<1> HIDE DEF kind, w, area
<1>2. /\ ~IsNull(m, positions[f], k) => memory[area][f][s] = w
      /\ Staged(kind) => (memory.ind[f][s] = "null" <=> IsNull(m, positions[f], k))
  BY <1>1 DEF Filled, w
<1>3. CASE Staged(kind)
  <2>1. area = "stage"
    BY <1>3 DEF area
  <2>2. v = IF memory.ind[f][s] = "null" THEN NoValue ELSE memory.stage[f][s]
    BY <1>3 DEF ApplyOneColumn
  <2>3. IsNull(m, positions[f], k) => v = NoValue
    BY <1>2, <1>3, <2>2
  <2>4. ~IsNull(m, positions[f], k) => v = w
    BY <1>2, <1>3, <2>1, <2>2
  <2> QED
    BY <2>3, <2>4 DEF kind, w
<1>4. CASE ~Staged(kind)
  <2>1. area = "batch"
    BY <1>4 DEF area
  <2>2. v = memory.batch[f][s]
    BY <1>4 DEF ApplyOneColumn
  <2>3. ~IsNull(m, positions[f], k) => v = w
    BY <1>2, <2>1, <2>2
  <2> QED
    BY <1>4, <2>3 DEF kind, w
<1> QED
  BY <1>3, <1>4

(* ---- what is handed over ----------------------------------------------- *)

LEMMA OtherRows == ASSUME job'.op # "select_rows" PROVE RowsInv'
  BY DEF RowsInv

LEMMA ReturnedRows == ASSUME ClientInv, Called, NEW m, NEW status, Return(m, status) PROVE RowsInv'
<1>1. CASE status = "ConnectionLost"
  <2>1. job' = [job EXCEPT !.pc = "lost", !.defined = 0] /\ mem' = FreshMem(Len(job.row))
    BY <1>1 DEF Return
  <2>2. JobFields \subseteq DOMAIN job
    BY CallIs
  <2>3. job'.pc = "lost" /\ job'.row = job.row
    BY <2>1, <2>2 DEF JobFields
  <2>4. Cells(mem', Len(job'.row))
    BY <2>1, <2>3, FreshCells
  <2> QED
    BY <2>3, <2>4 DEF RowsInv, At
<1>2. CASE status # "ConnectionLost"
  <2>1. job' = NoJob
    BY <1>2 DEF Return
  <2> QED
    BY <2>1, NoJobOp, OtherRows
<1> QED
  BY <1>1, <1>2

\* An attempt starts with no column defined.
LEMMA BegunRows == ASSUME ClientInv, NEW call, Begin(call), CallOK(call) PROVE RowsInv'
<1>1. Idle /\ conn.svc /\ mem' = FreshMem(Len(call.row))
  BY DEF Begin
<1>2. PICK total \in 0 .. RowCount : mock' = Start(Answer(mock, total), call)
  BY DEF Begin
<1>3. RecordOf(job', call)
  BY JobBegun DEF Begin
<1>4. job'.op = call.op /\ job'.row = call.row /\ job'.pc = "execute"
  BY <1>3 DEF RecordOf, CallOK
<1>5. CASE call.op = "select_rows"
  <2> DEFINE m == Answer(mock, total)
  <2>1. Held(m, leaked, 1, 0, 0, 0)
    BY <1>1, Answered
  <2>2. mock' = Start(m, call)
    BY <1>2
  <2> HIDE DEF m
  <2>3. /\ StructOK(call.in) /\ StructOK(call.row) /\ call.op \in DOMAIN Steps
        /\ call.op \in {"select", "insert"} => call.in = <<>>
    BY RowTypeOK, NoFieldsOK DEF CallOK
  <2>4. mock'.defines = <<>>
    BY <1>5, <2>1, <2>2, <2>3, Started
  <2>5. Cells(mem', Len(job'.row))
    BY <1>1, <1>4, FreshCells
  <2> QED
    BY <1>4, <2>4, <2>5 DEF RowsInv, At
<1>6. CASE call.op # "select_rows"
  BY <1>4, <1>6, OtherRows
<1> QED
  BY <1>5, <1>6

LEMMA CallRows == ASSUME ClientInv, Execute \/ SelectRows \/ Select \/ InsertRows PROVE RowsInv'
<1>1. ASSUME NEW call, Begin(call), "op" \in DOMAIN call, call.op # "select_rows" PROVE RowsInv'
  <2>1. job' = With([pc |-> "execute", offset |-> 0, defined |-> 0], call)
    BY <1>1 DEF Begin
  <2>2. job'.op = call.op
    BY <1>1, <2>1 DEF With
  <2> QED
    BY <1>1, <2>2, OtherRows
<1>2. CASE SelectRows
  <2>1. PICK row \in RowTypes, in \in RowTypes \union {<<>>}, size \in BatchSizes :
          Begin([op |-> "select_rows", in |-> in, inputs |-> [f \in 1 .. Len(in) |-> TRUE],
                 row |-> row, size |-> size])
    BY <1>2 DEF SelectRows
  <2> DEFINE inputs == [f \in 1 .. Len(in) |-> TRUE]
             call == [op |-> "select_rows", in |-> in, inputs |-> inputs, row |-> row, size |-> size]
  <2>2. Begin(call)
    BY <2>1
  <2> HIDE DEF inputs
  <2>3. CallOK(call)
    BY DEF CallOK, Steps
  <2> HIDE DEF call
  <2> QED
    BY <2>2, <2>3, BegunRows
<1>3. CASE Execute
  BY <1>1, <1>3 DEF Execute
<1>4. CASE Select
  BY <1>1, <1>4 DEF Select
<1>5. CASE InsertRows
  BY <1>1, <1>5 DEF InsertRows
<1> QED
  BY <1>2, <1>3, <1>4, <1>5

LEMMA ReconnectRows == ASSUME ClientInv, RowsInv, Reconnect PROVE RowsInv'
<1>1. /\ At("lost") /\ mem' = mem /\ job' = [job EXCEPT !.pc = "execute", !.offset = 0]
      /\ mock' = Start(ConnectTo(DisconnectAll(mock, conn), SUCCESS).m, job)
  BY DEF Reconnect
<1>2. /\ JobFields \subseteq DOMAIN job /\ job.op \in DOMAIN Steps
      /\ StructOK(job.in) /\ StructOK(job.row)
      /\ job.op \in {"select", "insert"} => job.in = <<>>
  BY <1>1, CallIs DEF Called
<1>3. job'.op = job.op /\ job'.row = job.row /\ job'.pc = "execute"
  BY <1>1, <1>2 DEF JobFields
<1>4. CASE job.op = "select_rows"
  <2> DEFINE m == ConnectTo(DisconnectAll(mock, conn), SUCCESS).m
  <2>1. Held(m, leaked, 1, 0, 0, 0) /\ mock' = Start(m, job)
    BY <1>1, Reopened
  <2> HIDE DEF m
  <2>2. mock'.defines = <<>>
    BY <1>2, <1>4, <2>1, Started
  <2>3. Cells(mem', Len(job'.row))
    BY <1>1, <1>3, <1>4 DEF RowsInv
  <2> QED
    BY <1>3, <2>2, <2>3 DEF RowsInv, At
<1>5. CASE job.op # "select_rows"
  BY <1>3, <1>5, OtherRows
<1> QED
  BY <1>4, <1>5

\* The steps of the other calls.
LEMMA OtherCallRows ==
    ASSUME ClientInv, ExecuteStep \/ InsertChunkStep
    PROVE  RowsInv' /\ job.op # "select_rows"
<1>1. Called /\ job.op # "select_rows"
  BY DEF ExecuteStep, InsertChunkStep, Called, Calling, At
<1>2. JobFields \subseteq DOMAIN job
  BY <1>1, CallIs
<1>3. \/ \E m, status : Return(m, status)
      \/ job' = [job EXCEPT !.offset = @ + job.size]
  BY DEF ExecuteStep, InsertChunkStep, Fails
<1>4. ASSUME job' = [job EXCEPT !.offset = @ + job.size] PROVE RowsInv'
  <2>1. job'.op = job.op
    BY <1>2, <1>4 DEF JobFields
  <2> QED
    BY <1>1, <2>1, OtherRows
<1>5. RowsInv'
  BY <1>1, <1>3, <1>4, ReturnedRows
<1> QED
  BY <1>1, <1>5

LEMMA SelectExecuteRows == ASSUME ClientInv, RowsInv, SelectExecuteStep PROVE RowsInv'
<1> DEFINE call == StmtExecute(mock, mem, 0)
<1>1. Called /\ job.pc = "execute" /\ job.op = "select_rows" /\ MockOK(mock)
  BY DEF SelectExecuteStep, Called, Calling, At, ClientInv
<1>2. \/ Fails(call)
      \/ /\ \E columns \in Descriptions : mock' = Describe(call.m, columns)
         /\ job' = [job EXCEPT !.pc = "define"] /\ mem' = mem
  BY DEF SelectExecuteStep
<1>3. MockOK(call.m) /\ call.m.defines = mock.defines
  BY <1>1, ExecuteKeeps, ExecuteNone
<1> HIDE DEF call
<1>4. CASE Fails(call)
  BY <1>1, <1>4, ReturnedRows DEF Fails
<1>5. CASE ~Fails(call)
  <2>1. PICK columns \in Descriptions : mock' = Describe(call.m, columns)
    BY <1>2, <1>5
  <2>2. job' = [job EXCEPT !.pc = "define"] /\ mem' = mem
    BY <1>2, <1>5
  <2>3. mock'.defines = mock.defines
    BY <1>3, <2>1, MockFields DEF MockOK, Describe
  <2>4. JobFields \subseteq DOMAIN job
    BY <1>1, CallIs
  <2>5. job'.op = job.op /\ job'.row = job.row /\ job'.pc = "define"
    BY <2>2, <2>4 DEF JobFields
  <2>6. mock.defines = <<>> /\ Cells(mem, Len(job.row))
    BY <1>1 DEF RowsInv, At
  <2> QED
    BY <2>2, <2>3, <2>5, <2>6 DEF RowsInv, At
<1> QED
  BY <1>4, <1>5

\* Defining the columns by name.
LEMMA DefineRows == ASSUME ClientInv, RowsInv, DefineStep PROVE RowsInv'
<1> DEFINE row == job.row
           positions == ResolveColumnPositions(row)
           defined == DefineColumns(mock, row, positions)
           lobs == job.size * LobFields(row)
           bad == \E f \in DOMAIN positions : positions[f] = 0
<1>1. /\ Called /\ job.pc = "define" /\ MockOK(mock) /\ job.op = "select_rows"
      /\ JobFields \subseteq DOMAIN job /\ StructOK(row)
  <2>1. Calling /\ Called /\ At("define") /\ MockOK(mock)
    BY DEF DefineStep, Calling, Called, At, ClientInv
  <2> QED
    BY <2>1, CallIs, StepIs DEF At
<1>2. IF bad THEN Return(mock, "QueryError")
      ELSE /\ mock' = [defined EXCEPT !.live["LOB"] = @ + lobs] /\ mem' = mem
           /\ job' = [job EXCEPT !.pc = "fetch", !.defined = lobs]
  BY DEF DefineStep
<1>3. CASE bad
  BY <1>1, <1>2, <1>3, ReturnedRows
<1>4. CASE ~bad
  <2>1. /\ mock' = [defined EXCEPT !.live["LOB"] = @ + lobs] /\ mem' = mem
        /\ job' = [job EXCEPT !.pc = "fetch", !.defined = lobs]
    BY <1>2, <1>4
  <2>2. MockOK(defined) /\ defined.columns = mock.columns
    BY <1>1, ColumnsKeep DEF Kept, StructOK
  <2>3. \A f \in DOMAIN positions : positions[f] # 0
    BY <1>4
  <2>4. mock.defines = <<>> /\ Cells(mem, Len(row))
    BY <1>1 DEF RowsInv, At
  <2>5. positions = ResolveColumnPositions(row) /\ DOMAIN positions = 1 .. Len(row)
        /\ positions = [f \in 1 .. Len(row) |-> positions[f]]
    BY DEF ResolveColumnPositions
  <2> HIDE DEF defined, lobs, positions
  <2>6. /\ \A f \in 1 .. Len(row) : positions[f] \in Nat \ {0} /\ positions[f] = ColumnFor(row, f)
        /\ \A f, g \in 1 .. Len(row) : positions[f] = positions[g] => f = g
    <3> HIDE DEF row
    <3> QED
      BY <1>1, <2>3, <2>5, Resolved
  <2>7. positions = ColumnsFor(row)
    BY <2>5, <2>6 DEF ColumnsFor
  <2>8. Placed(defined.defines, DefinesOf(row), positions)
    <3>1. defined = DefineColumns(mock, row, positions)
      BY DEF defined
    <3> HIDE DEF row
    <3> QED
      BY <1>1, <2>4, <2>6, <3>1, ColumnsPlaced
  <2>9. mock'.defines = defined.defines /\ mock'.columns = mock.columns
    BY <2>1, <2>2, MockFields DEF MockOK
  <2>10. job'.op = job.op /\ job'.row = row /\ job'.pc = "fetch"
    BY <1>1, <2>1 DEF JobFields
  <2>11. ColumnsFor(job.row)' = ColumnsFor(row)
    <3>1. \A f : ColumnFor(job.row, f)' = ColumnFor(row, f)
      BY <2>9, <2>10 DEF ColumnFor
    <3> QED
      BY <2>10, <3>1 DEF ColumnsFor
  <2>12. DefinesOf(job.row)' = DefinesOf(row)
    BY <2>10 DEF DefinesOf
  <2>13. Cells(mem', Len(job'.row))
    BY <2>1, <2>4, <2>10
  <2>14. Placed(mock'.defines, DefinesOf(job.row)', ColumnsFor(job.row)')
    BY <2>7, <2>8, <2>9, <2>11, <2>12
  <2> QED
    BY <2>10, <2>13, <2>14 DEF RowsInv, At
<1> QED
  BY <1>3, <1>4

\* The rows a fetch hands over: each field from its own column, in the row the cursor
\* was at.
LEMMA FetchRowsGo == ASSUME ClientInv, RowsInv, FetchStep PROVE RowsInv' /\ RowsSent
<1> DEFINE row == job.row
           positions == ColumnsFor(row)
           base == result.from
           call == StmtFetch2(mock, mem, job.size)
           n == call.m.fetched
           memory == call.mem
           after == ApplyColumns(memory, row, n)
           rows == BatchRows(after, n)
<1>1. /\ Calling /\ Called /\ job.pc = "fetch" /\ MockOK(mock) /\ job.op = "select_rows"
      /\ job.size \in BatchSizes /\ StructOK(row)
  <2>1. Calling /\ Called /\ At("fetch") /\ MockOK(mock)
    BY DEF FetchStep, Calling, Called, At, ClientInv
  <2> QED
    BY <2>1, CallIs, StepIs DEF At
<1>2. /\ mock.row \in 0 .. mock.total /\ Len(delivered) = base + mock.row /\ base \in Nat
      /\ IsSeq(delivered) /\ mock.row \in Nat
  BY <1>1 DEF ClientInv, ProgressInv, Selecting
<1>3. /\ delivered' = delivered \o rows
      /\ \/ Return(call.m, "Success")
         \/ mock' = call.m /\ mem' = after /\ job' = job
  BY DEF FetchStep, RowsFetched
<1>4. /\ Cells(mem, Len(row)) /\ Placed(mock.defines, DefinesOf(row), positions)
      /\ WantsOK(DefinesOf(row), Len(row))
      /\ \A f \in 1 .. Len(row) : positions[f] = ColumnFor(row, f)
  BY <1>1, WantsFit DEF RowsInv, At, ColumnsFor
<1> HIDE DEF row, positions, base
<1>5. /\ call.m.defines = mock.defines /\ call.m.columns = mock.columns
      /\ n \in Nat /\ n <= MaxBatch /\ Cells(memory, Len(row))
      /\ \A j \in 0 .. n - 1 : \A g \in 1 .. Len(row) :
           Filled(mock, memory, DefinesOf(row), positions, g, j, mock.row + j)
  <2> DEFINE wants == DefinesOf(row)
             len == Len(row)
  <2>1. WantsOK(wants, len) /\ Placed(mock.defines, wants, positions) /\ Cells(mem, len)
    BY <1>4
  <2> HIDE DEF wants, len
  <2>2. LET f == FetchRows(mock, mem, job.size)
        IN  /\ f.m.defines = mock.defines /\ f.m.columns = mock.columns
            /\ f.m.fetched \in Nat /\ f.m.fetched <= MaxBatch
            /\ Cells(f.mem, len)
            /\ \A j \in 0 .. f.m.fetched - 1 : \A g \in 1 .. len :
                 Filled(mock, f.mem, wants, positions, g, j, mock.row + j)
    BY ONLY <1>1, <1>2, <2>1, BatchFilled
  <2> QED
    BY <2>2 DEF wants, len, StmtFetch2
<1> HIDE DEF call, n, memory
<1>6. /\ Cells(after, Len(row))
      /\ \A f \in 1 .. Len(row), s \in Slots :
           s < n => after.batch[f][s] = ApplyOneColumn(memory, f, row[f].kind, s)
  BY <1>1, <1>5, ApplyOK
<1>7. rows = BatchRows(after, n)
  OBVIOUS
<1> HIDE DEF after, rows
<1>8. RowsInv'
  <2>1. CASE Return(call.m, "Success")
    BY <1>1, <2>1, ReturnedRows
  <2>2. ASSUME mock' = call.m, mem' = after, job' = job PROVE RowsInv'
    <3>1. mock'.defines = mock.defines /\ mock'.columns = mock.columns
      BY <1>5, <2>2
    <3>2. job'.row = row /\ job'.pc = "fetch" /\ mem' = after
      BY <1>1, <2>2 DEF row
    <3>3. ColumnsFor(job.row)' = positions
      <4>1. \A f : ColumnFor(job.row, f)' = ColumnFor(job.row, f)
        BY <2>2, <3>1 DEF ColumnFor
      <4> QED
        BY <2>2, <4>1 DEF ColumnsFor, positions, row
    <3>4. DefinesOf(job.row)' = DefinesOf(row)
      BY <3>2 DEF DefinesOf
    <3>5. Cells(mem', Len(job'.row)) /\ Placed(mock'.defines, DefinesOf(job.row)', ColumnsFor(job.row)')
      BY <1>4, <1>6, <3>1, <3>2, <3>3, <3>4
    <3> QED
      BY <3>2, <3>5 DEF RowsInv, At
  <2> QED
    BY <1>3, <2>1, <2>2
<1>9. IsSeq(rows) /\ Len(rows) = n
  BY <1>5, <1>7, RowsIsSeq
<1> DEFINE len == Len(delivered)
<1>10. /\ len \in Nat /\ len = base + mock.row /\ Len(delivered') = len + n
       /\ \A i \in 1 .. len + n : delivered'[i] = IF i <= len THEN delivered[i] ELSE rows[i - len]
  BY <1>2, <1>3, <1>9, MoreRows
<1> HIDE DEF len
<1>11. DOMAIN after.batch = 1 .. Len(row) /\ DOMAIN row = 1 .. Len(row)
  BY <1>1, <1>6 DEF Cells, StructOK
<1>12. ASSUME NEW k \in len + 1 .. len + n, NEW f \in 1 .. Len(row)
       PROVE  LET r == k - base - 1
              IN  /\ IsNull(mock, ColumnFor(row, f), r) =>
                       (Staged(row[f].kind) => delivered'[k][f] = NoValue)
                  /\ ~IsNull(mock, ColumnFor(row, f), r) =>
                       delivered'[k][f] = <<r, ColumnFor(row, f)>>
  <2> DEFINE j == k - len - 1
             r == k - base - 1
             cursor == mock.row
  <2>0. /\ n \in Nat /\ n <= MaxBatch /\ MaxBatch \in Nat /\ len \in Nat /\ base \in Nat
        /\ cursor \in Nat /\ len = base + cursor /\ k \in len + 1 .. len + n
    BY <1>2, <1>5, <1>10, MaxBatchOK
  <2> HIDE DEF cursor
  <2>1. /\ j \in 0 .. n - 1 /\ j \in 0 .. MaxBatch - 1 /\ j < n /\ cursor + j = r
        /\ k - len \in 1 .. n /\ k \in 1 .. len + n /\ ~ (k <= len)
        /\ (k - len) - 1 = j
    BY ONLY <2>0
  <2>2. j \in Slots
    BY <2>1 DEF Slots
  <2>3. delivered'[k] = rows[k - len]
    BY <1>10, <2>1
  <2>4. rows[k - len][f] = after.batch[f][j]
    BY <1>7, <1>11, <2>1 DEF BatchRows
  <2> HIDE DEF j, r
  <2>5. delivered'[k][f] = ApplyOneColumn(memory, f, row[f].kind, j)
    BY <1>6, <2>1, <2>2, <2>3, <2>4
  <2>6. Filled(mock, memory, DefinesOf(row), positions, f, j, r)
    BY <1>5, <2>1 DEF cursor
  <2>7. positions[f] = ColumnFor(row, f) /\ f \in 1 .. Len(row)
    BY <1>4
  <2> DEFINE v == ApplyOneColumn(memory, f, row[f].kind, j)
  <2>8. /\ IsNull(mock, positions[f], r) /\ Staged(row[f].kind) => v = NoValue
        /\ ~IsNull(mock, positions[f], r) => v = <<r, positions[f]>>
    BY <2>6, <2>7, ReadsAsSent
  <2> HIDE DEF v
  <2> QED
    BY <2>5, <2>7, <2>8 DEF v, r
<1>13. RowsSent
  <2>1. SUFFICES ASSUME NEW k \in Len(delivered) + 1 .. Len(delivered'), NEW f \in DOMAIN job.row
                 PROVE  LET p == ColumnFor(job.row, f)
                            r == k - result.from - 1
                            null == mock.nullLast /\ r % 2 = 1 /\ p = Len(mock.defines)
                        IN  IF null THEN Staged(job.row[f].kind) => delivered'[k][f] = NoValue
                            ELSE delivered'[k][f] = <<r, p>>
    BY DEF RowsSent
  <2>2. k \in len + 1 .. len + n /\ f \in 1 .. Len(row)
    BY <1>10, <1>11 DEF row, len
  <2> QED
    BY <1>12, <2>2 DEF IsNull, row, base
<1> QED
  BY <1>8, <1>13

(* ---- every step, once more --------------------------------------------- *)

LEMMA NothingSent == ASSUME ClientInv, job.pc # "fetch" \/ delivered' = delivered PROVE RowsSent
<1>1. Len(delivered) \in Nat
  BY MoreRows DEF ClientInv, ProgressInv
<1> QED
  BY <1>1 DEF RowsSent, At

\* Steps that are no part of a call.
LEMMA RestRows ==
    ASSUME ConnectSession \/ DisconnectSession \/ SetFailure \/ SetExecError \/ Convert \/ Converted
    PROVE  RowsInv' /\ delivered' = delivered
<1>1. CASE ConnectSession \/ DisconnectSession \/ SetFailure \/ SetExecError
  <2>1. job = NoJob /\ job' = job /\ delivered' = delivered
    BY <1>1 DEF ConnectSession, DisconnectSession, SetFailure, SetExecError, Idle
  <2> QED
    BY <2>1, NoJobOp, OtherRows
<1>2. CASE Convert
  <2>1. job'.op = "convert" /\ delivered' = delivered
    BY <1>2 DEF Convert
  <2> QED
    BY <2>1, OtherRows
<1>3. CASE Converted
  <2>1. job' = NoJob /\ delivered' = delivered
    BY <1>3 DEF Converted
  <2> QED
    BY <2>1, NoJobOp, OtherRows
<1> QED
  BY <1>1, <1>2, <1>3

LEMMA NextRows == ASSUME ClientInv, RowsInv, Next PROVE RowsInv' /\ RowsSent
<1>1. CASE ConnectSession \/ DisconnectSession \/ SetFailure \/ SetExecError \/ Convert \/ Converted
  BY <1>1, RestRows, NothingSent, Zenon
<1>2. CASE Execute \/ SelectRows \/ Select \/ InsertRows
  <2>1. Idle
    BY <1>2 DEF Execute, SelectRows, Select, InsertRows, Begin
  <2>2. job.pc # "fetch"
    BY <2>1, NoJobOp DEF Idle
  <2> QED
    BY <1>2, <2>2, CallRows, NothingSent, Zenon
<1>3. CASE Reconnect
  <2>1. delivered' = delivered
    BY <1>3 DEF Reconnect
  <2> QED
    BY <1>3, <2>1, ReconnectRows, NothingSent
<1>4. CASE ExecuteStep \/ InsertChunkStep
  <2>1. job.pc # "fetch"
    BY <1>4 DEF ExecuteStep, InsertChunkStep, At
  <2> QED
    BY <1>4, <2>1, OtherCallRows, NothingSent, Zenon
<1>5. CASE SelectExecuteStep
  <2>1. job.pc # "fetch"
    BY <1>5 DEF SelectExecuteStep, At
  <2> QED
    BY <1>5, <2>1, SelectExecuteRows, NothingSent
<1>6. CASE DefineStep
  <2>1. job.pc # "fetch"
    BY <1>6 DEF DefineStep, At
  <2> QED
    BY <1>6, <2>1, DefineRows, NothingSent
<1>7. CASE FetchStep
  BY <1>7, FetchRowsGo
<1>8. CASE FetchLostStep
  <2>1. Called /\ delivered' = delivered
    BY <1>8 DEF FetchLostStep, Called, Calling, At
  <2>2. \E m, status : Return(m, status)
    BY <1>8 DEF FetchLostStep
  <2> QED
    BY <2>1, <2>2, ReturnedRows, NothingSent
<1>9. CASE CallbackThrows
  <2>1. job' = NoJob /\ delivered' = delivered
    BY <1>9 DEF CallbackThrows
  <2> QED
    BY <2>1, NoJobOp, OtherRows, NothingSent
<1>10. CASE DatabaseFails
  <2>1. /\ mock'.defines = mock.defines /\ job.pc = "execute" /\ UNCHANGED <<job, mem, delivered>>
    BY <1>10, FailNextKeeps DEF DatabaseFails, At, ClientInv
  <2>2. RowsInv'
    BY <2>1 DEF RowsInv, At
  <2> QED
    BY <2>1, <2>2, NothingSent
<1> QED
  BY <1>1, <1>2, <1>3, <1>4, <1>5, <1>6, <1>7, <1>8, <1>9, <1>10, Zenon DEF Next

LEMMA RowsStutter == ASSUME RowsInv, UNCHANGED vars PROVE RowsInv'
  BY DEF vars, RowsInv, At, ColumnsFor, ColumnFor, DefinesOf

\* While a select runs, or waits for its caller to reconnect, every field has the
\* memory of a whole batch, no column is defined before the names are known, and while
\* it fetches, the last column of each field's name is defined there with the field's
\* type, stride and indicator (resolve_column_positions, define_columns).
THEOREM RowsInvariant == Spec => []RowsInv
<1>1. Init => RowsInv
  BY NoJobOp DEF Init, RowsInv
<1>2. ClientInv /\ RowsInv /\ [Next]_vars => RowsInv'
  BY NextRows, RowsStutter
<1> QED
  BY <1>1, <1>2, ClientInvariant, PTL DEF Spec

\* Whatever the row type, the columns described and their order, the batch size and the
\* sessions lost before, each row an attempt hands over is the next of the result, each
\* of its fields from the column of its name in that very row, and an optional or a LOB
\* is absent exactly where that is NULL (define_one_column, apply_one_column).
THEOREM RowsAreByName == Spec => RowsByName
<1>1. ClientInv /\ RowsInv /\ [Next]_vars => [RowsSent]_vars
  BY NextRows
<1> QED
  BY <1>1, ClientInvariant, RowsInvariant, PTL DEF Spec, RowsByName
=============================================================================
