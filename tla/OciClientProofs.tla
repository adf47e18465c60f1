--------------------------- MODULE OciClientProofs --------------------------
(***************************************************************************)
(* The client of ideas/new for every row type, description of the columns, *)
(* batch size and number of rows and failures.                             *)
(***************************************************************************)
EXTENDS OciClient, OciRowsProofs

(* ---- loops ------------------------------------------------------------- *)
\* The loop that drops the locators one by one.
LEMMA DropLoop ==
    ASSUME NEW m, NEW lobs, NEW n \in Nat, Len(lobs) = n
    PROVE  \E g : /\ DropLobs(m, lobs) = g[n]
                  /\ g[0] = m
                  /\ \A i \in 1 .. n : g[i] = LobDrop(lobs[i], g[i - 1])
<1> DEFINE Loop(g, k) == g = [i \in 0 .. k |-> IF i = 0 THEN m ELSE LobDrop(lobs[i], g[i - 1])]
           I == {k \in Nat : \E g : Loop(g, k)}
<1>1. 0 \in I
  <2> DEFINE g == [i \in 0 .. 0 |-> m]
  <2>1. Loop(g, 0)
    OBVIOUS
  <2> QED
    BY <2>1
<1>2. ASSUME NEW k \in 1 .. n, k - 1 \in I PROVE k \in I
  <2>1. PICK g : Loop(g, k - 1)
    BY <1>2
  <2> DEFINE h == [i \in 0 .. k |-> IF i = k THEN LobDrop(lobs[k], g[k - 1]) ELSE g[i]]
  <2>2. \A i \in 0 .. k : h[i] = IF i = 0 THEN m ELSE LobDrop(lobs[i], h[i - 1])
    <3> SUFFICES ASSUME NEW i \in 0 .. k PROVE h[i] = IF i = 0 THEN m ELSE LobDrop(lobs[i], h[i - 1])
      OBVIOUS
    <3>1. CASE i = k
      BY <3>1
    <3>2. CASE i # k
      BY <2>1, <3>2
    <3> QED
      BY <3>1, <3>2
  <2>3. Loop(h, k)
    BY <2>2
  <2>4. k \in Nat
    OBVIOUS
  <2> HIDE DEF h, Loop
  <2> QED
    BY <2>3, <2>4
<1>3. \E g : Loop(g, n)
  <2> HIDE DEF I
  <2>1. n \in I
    BY <1>1, <1>2, Upwards
  <2> QED
    BY <2>1 DEF I
<1> DEFINE f == CHOOSE g : Loop(g, n)
<1>4. DropLobs(m, lobs) = f[n]
  BY DEF DropLobs
<1>5. Loop(f, n)
  <2> HIDE DEF Loop
  <2> QED
    BY <1>3
<1>6. \A i \in 0 .. n : f[i] = IF i = 0 THEN m ELSE LobDrop(lobs[i], f[i - 1])
  <2> HIDE DEF f
  <2> QED
    BY <1>5
<1>7. f[0] = m /\ \A i \in 1 .. n : f[i] = LobDrop(lobs[i], f[i - 1])
  <2> HIDE DEF f
  <2> QED
    BY <1>6
<1> HIDE DEF f
<1> QED
  BY <1>4, <1>7
\* The loop that binds the fields of a struct.
ParamsLoop(g, s, m, row, inputs, n) ==
    /\ BindParams(s, m, row, inputs) = g[n]
    /\ g[0] = [s |-> s, m |-> m, lobs |-> <<>>]
    /\ \A i \in 1 .. n : g[i] = BindOneParam(g[i - 1], row[i], inputs[i])
LEMMA BindLoop ==
    ASSUME NEW s, NEW m, NEW row, NEW inputs, NEW n \in Nat, Len(row) = n
    PROVE  \E g : ParamsLoop(g, s, m, row, inputs, n)
<1> DEFINE Loop(g, k) == g = [i \in 0 .. k |-> IF i = 0 THEN [s |-> s, m |-> m, lobs |-> <<>>] ELSE BindOneParam(g[i - 1], row[i], inputs[i])]
           I == {k \in Nat : \E g : Loop(g, k)}
<1>1. 0 \in I
  <2> DEFINE g == [i \in 0 .. 0 |-> [s |-> s, m |-> m, lobs |-> <<>>]]
  <2>1. Loop(g, 0)
    OBVIOUS
  <2> QED
    BY <2>1
<1>2. ASSUME NEW k \in 1 .. n, k - 1 \in I PROVE k \in I
  <2>1. PICK g : Loop(g, k - 1)
    BY <1>2
  <2> DEFINE h == [i \in 0 .. k |-> IF i = k THEN BindOneParam(g[k - 1], row[k], inputs[k]) ELSE g[i]]
  <2>2. \A i \in 0 .. k : h[i] = IF i = 0 THEN [s |-> s, m |-> m, lobs |-> <<>>] ELSE BindOneParam(h[i - 1], row[i], inputs[i])
    <3> SUFFICES ASSUME NEW i \in 0 .. k PROVE h[i] = IF i = 0 THEN [s |-> s, m |-> m, lobs |-> <<>>] ELSE BindOneParam(h[i - 1], row[i], inputs[i])
      OBVIOUS
    <3>1. CASE i = k
      BY <3>1
    <3>2. CASE i # k
      BY <2>1, <3>2
    <3> QED
      BY <3>1, <3>2
  <2>3. Loop(h, k)
    BY <2>2
  <2>4. k \in Nat
    OBVIOUS
  <2> HIDE DEF h, Loop
  <2> QED
    BY <2>3, <2>4
<1>3. \E g : Loop(g, n)
  <2> HIDE DEF I
  <2>1. n \in I
    BY <1>1, <1>2, Upwards
  <2> QED
    BY <2>1 DEF I
<1> DEFINE f == CHOOSE g : Loop(g, n)
<1>4. BindParams(s, m, row, inputs) = f[n]
  BY DEF BindParams
<1>5. Loop(f, n)
  <2> HIDE DEF Loop
  <2> QED
    BY <1>3
<1>6. \A i \in 0 .. n : f[i] = IF i = 0 THEN [s |-> s, m |-> m, lobs |-> <<>>] ELSE BindOneParam(f[i - 1], row[i], inputs[i])
  <2> HIDE DEF f
  <2> QED
    BY <1>5
<1>7. f[0] = [s |-> s, m |-> m, lobs |-> <<>>] /\ \A i \in 1 .. n : f[i] = BindOneParam(f[i - 1], row[i], inputs[i])
  <2> HIDE DEF f
  <2> QED
    BY <1>6
<1> HIDE DEF f
<1>8. ParamsLoop(f, s, m, row, inputs, n)
  BY <1>4, <1>7 DEF ParamsLoop
<1> QED
  BY <1>8
\* The loop that binds the arrays of an insert.
LEMMA BindArrayLoop ==
    ASSUME NEW m, NEW n \in Nat
    PROVE  \E g : /\ BindArrays(m, n) = g[n]
                  /\ g[0] = m
                  /\ \A i \in 1 .. n : g[i] = BindNameArray(stmt, g[i - 1]).m
<1> DEFINE Loop(g, k) == g = [i \in 0 .. k |-> IF i = 0 THEN m ELSE BindNameArray(stmt, g[i - 1]).m]
           I == {k \in Nat : \E g : Loop(g, k)}
<1>1. 0 \in I
  <2> DEFINE g == [i \in 0 .. 0 |-> m]
  <2>1. Loop(g, 0)
    OBVIOUS
  <2> QED
    BY <2>1
<1>2. ASSUME NEW k \in 1 .. n, k - 1 \in I PROVE k \in I
  <2>1. PICK g : Loop(g, k - 1)
    BY <1>2
  <2> DEFINE h == [i \in 0 .. k |-> IF i = k THEN BindNameArray(stmt, g[k - 1]).m ELSE g[i]]
  <2>2. \A i \in 0 .. k : h[i] = IF i = 0 THEN m ELSE BindNameArray(stmt, h[i - 1]).m
    <3> SUFFICES ASSUME NEW i \in 0 .. k PROVE h[i] = IF i = 0 THEN m ELSE BindNameArray(stmt, h[i - 1]).m
      OBVIOUS
    <3>1. CASE i = k
      BY <3>1
    <3>2. CASE i # k
      BY <2>1, <3>2
    <3> QED
      BY <3>1, <3>2
  <2>3. Loop(h, k)
    BY <2>2
  <2>4. k \in Nat
    OBVIOUS
  <2> HIDE DEF h, Loop
  <2> QED
    BY <2>3, <2>4
<1>3. \E g : Loop(g, n)
  <2> HIDE DEF I
  <2>1. n \in I
    BY <1>1, <1>2, Upwards
  <2> QED
    BY <2>1 DEF I
<1> DEFINE f == CHOOSE g : Loop(g, n)
<1>4. BindArrays(m, n) = f[n]
  BY DEF BindArrays
<1>5. Loop(f, n)
  <2> HIDE DEF Loop
  <2> QED
    BY <1>3
<1>6. \A i \in 0 .. n : f[i] = IF i = 0 THEN m ELSE BindNameArray(stmt, f[i - 1]).m
  <2> HIDE DEF f
  <2> QED
    BY <1>5
<1>7. f[0] = m /\ \A i \in 1 .. n : f[i] = BindNameArray(stmt, f[i - 1]).m
  <2> HIDE DEF f
  <2> QED
    BY <1>6
<1> HIDE DEF f
<1> QED
  BY <1>4, <1>7
\* The loop that defines the outputs.
LEMMA OutputLoop ==
    ASSUME NEW m, NEW positions, NEW ds, NEW n \in Nat, Len(ds) = n
    PROVE  \E g : /\ BindOutputs(m, positions, ds) = g[n]
                  /\ g[0] = m
                  /\ \A i \in 1 .. n : g[i] = BindOutput(g[i - 1], positions[i], ds[i])
<1> DEFINE Loop(g, k) == g = [i \in 0 .. k |-> IF i = 0 THEN m ELSE BindOutput(g[i - 1], positions[i], ds[i])]
           I == {k \in Nat : \E g : Loop(g, k)}
<1>1. 0 \in I
  <2> DEFINE g == [i \in 0 .. 0 |-> m]
  <2>1. Loop(g, 0)
    OBVIOUS
  <2> QED
    BY <2>1
<1>2. ASSUME NEW k \in 1 .. n, k - 1 \in I PROVE k \in I
  <2>1. PICK g : Loop(g, k - 1)
    BY <1>2
  <2> DEFINE h == [i \in 0 .. k |-> IF i = k THEN BindOutput(g[k - 1], positions[k], ds[k]) ELSE g[i]]
  <2>2. \A i \in 0 .. k : h[i] = IF i = 0 THEN m ELSE BindOutput(h[i - 1], positions[i], ds[i])
    <3> SUFFICES ASSUME NEW i \in 0 .. k PROVE h[i] = IF i = 0 THEN m ELSE BindOutput(h[i - 1], positions[i], ds[i])
      OBVIOUS
    <3>1. CASE i = k
      BY <3>1
    <3>2. CASE i # k
      BY <2>1, <3>2
    <3> QED
      BY <3>1, <3>2
  <2>3. Loop(h, k)
    BY <2>2
  <2>4. k \in Nat
    OBVIOUS
  <2> HIDE DEF h, Loop
  <2> QED
    BY <2>3, <2>4
<1>3. \E g : Loop(g, n)
  <2> HIDE DEF I
  <2>1. n \in I
    BY <1>1, <1>2, Upwards
  <2> QED
    BY <2>1 DEF I
<1> DEFINE f == CHOOSE g : Loop(g, n)
<1>4. BindOutputs(m, positions, ds) = f[n]
  BY DEF BindOutputs
<1>5. Loop(f, n)
  <2> HIDE DEF Loop
  <2> QED
    BY <1>3
<1>6. \A i \in 0 .. n : f[i] = IF i = 0 THEN m ELSE BindOutput(f[i - 1], positions[i], ds[i])
  <2> HIDE DEF f
  <2> QED
    BY <1>5
<1>7. f[0] = m /\ \A i \in 1 .. n : f[i] = BindOutput(f[i - 1], positions[i], ds[i])
  <2> HIDE DEF f
  <2> QED
    BY <1>6
<1> HIDE DEF f
<1> QED
  BY <1>4, <1>7
(* ---- the entry points of OCI ------------------------------------------- *)
LEMMA DefineKeeps ==
    ASSUME NEW m, MockOK(m), NEW position, NEW d
    PROVE  /\ MockOK(BindOutput(m, position, d)) /\ SameHandles(m, BindOutput(m, position, d))
           /\ SameCursor(m, BindOutput(m, position, d))
           /\ BindOutput(m, position, d).columns = m.columns
<1> DEFINE n == DefineByPos(m, position, d)
<1>1. MockOK(n) /\ SameHandles(m, n) /\ SameCursor(m, n) /\ n.columns = m.columns
  BY DefinedKeeps
<1>2. \A stride : LET o == DefineArrayOfStruct(n, position, stride)
                 IN  MockOK(o) /\ SameHandles(m, o) /\ SameCursor(m, o) /\ o.columns = m.columns
  <2> HIDE DEF n
  <2> QED
    BY <1>1, StrideKeeps DEF SameHandles, SameCursor
<1> QED
  BY <1>1, <1>2 DEF BindOutput

(* ---- loops over the entry points --------------------------------------- *)
LEMMA BindArraysKeep ==
    ASSUME NEW m, MockOK(m), NEW n \in Nat
    PROVE  /\ MockOK(BindArrays(m, n)) /\ SameHandles(m, BindArrays(m, n))
           /\ SameCursor(m, BindArrays(m, n))
<1>1. PICK g : /\ BindArrays(m, n) = g[n] /\ g[0] = m
               /\ \A i \in 1 .. n : g[i] = BindNameArray(stmt, g[i - 1]).m
  BY BindArrayLoop
<1> DEFINE Good(x) == MockOK(x) /\ SameHandles(m, x) /\ SameCursor(m, x)
           I == {k \in Nat : Good(g[k])}
<1>2. 0 \in I
  BY <1>1 DEF SameHandles, SameCursor
<1>3. \A k \in 1 .. n : k - 1 \in I => k \in I
  <2> SUFFICES ASSUME NEW k \in 1 .. n, k - 1 \in I PROVE Good(g[k])
    OBVIOUS
  <2>1. Good(g[k - 1]) /\ g[k] = BindByName(g[k - 1], "notnull")
    BY <1>1 DEF BindNameArray
  <2> QED
    BY <2>1, BindKeeps DEF SameHandles, SameCursor
<1>4. n \in I
  <2> HIDE DEF I
  <2> QED
    BY <1>2, <1>3, Upwards
<1> QED
  BY <1>1, <1>4
LEMMA OutputsKeep ==
    ASSUME NEW m, MockOK(m), NEW positions, NEW ds, Len(ds) \in Nat
    PROVE  LET n == BindOutputs(m, positions, ds)
           IN  MockOK(n) /\ SameHandles(m, n) /\ SameCursor(m, n) /\ n.columns = m.columns
<1>1. PICK g : /\ BindOutputs(m, positions, ds) = g[Len(ds)] /\ g[0] = m
               /\ \A i \in 1 .. Len(ds) : g[i] = BindOutput(g[i - 1], positions[i], ds[i])
  BY OutputLoop
<1> DEFINE Good(x) == MockOK(x) /\ SameHandles(m, x) /\ SameCursor(m, x) /\ x.columns = m.columns
           I == {k \in Nat : Good(g[k])}
<1>2. 0 \in I
  BY <1>1 DEF SameHandles, SameCursor
<1>3. \A k \in 1 .. Len(ds) : k - 1 \in I => k \in I
  <2> SUFFICES ASSUME NEW k \in 1 .. Len(ds), k - 1 \in I PROVE Good(g[k])
    OBVIOUS
  <2>1. Good(g[k - 1]) /\ g[k] = BindOutput(g[k - 1], positions[k], ds[k])
    BY <1>1
  <2> QED
    BY <2>1, DefineKeeps DEF SameHandles, SameCursor
<1>4. Len(ds) \in I
  <2> HIDE DEF I
  <2> DEFINE n == Len(ds)
  <2>1. n \in Nat /\ \A k \in 1 .. n : k - 1 \in I => k \in I
    BY <1>3
  <2> HIDE DEF n
  <2>2. \A k \in 0 .. n : k \in I
    BY <1>2, <2>1, Upwards
  <2>3. n \in I
    BY <2>1, <2>2
  <2> QED
    BY <2>3 DEF n
<1> QED
  BY <1>1, <1>4
\* Binding a struct makes a temporary LOB for some of its fields.
Bound(m, b) ==
    /\ MockOK(b.m) /\ SameCursor(m, b.m) /\ b.m.misused = m.misused /\ b.m.defines = m.defines
    /\ b.lobs \in Seq({TempLob})
    /\ b.m.live["LOB"] = m.live["LOB"] + Len(b.lobs)
    /\ b.m.live["TEMP"] = m.live["TEMP"] + Len(b.lobs)
    /\ \A k \in Kinds \ {"LOB", "TEMP"} : b.m.live[k] = m.live[k]
LEMMA BindOneKeeps ==
    ASSUME NEW m, NEW b, MockOK(m), Bound(m, b), NEW field, NEW present
    PROVE  Bound(m, BindOneParam(b, field, present))
<1> DEFINE after == BindOneParam(b, field, present)
           one == DescriptorAlloc(b.m)
           two == LobCreateTemporary(one)
           ind == BoundIndicator(field, present)
<1>1. CASE field.kind = "lob"
  <2>1. after.m = BindByName(two, ind) /\ after.lobs = Append(b.lobs, TempLob)
    BY <1>1 DEF BindOneParam, BindName, LobTemporary, LobNew, NewLob, TempLob
  <2>2. /\ MockOK(one) /\ OneMore(b.m, one, "LOB") /\ SameCursor(b.m, one) /\ one.misused = b.m.misused
        /\ one.defines = b.m.defines
    BY AllocOne DEF Bound, DescriptorAlloc, Kinds
  <2> HIDE DEF one
  <2>3. /\ MockOK(two) /\ OneMore(one, two, "TEMP") /\ SameCursor(one, two) /\ two.misused = one.misused
        /\ two.defines = one.defines
    BY <2>2, AllocOne DEF LobCreateTemporary, Kinds
  <2> HIDE DEF two, ind
  <2>4. MockOK(after.m) /\ SameHandles(two, after.m) /\ SameCursor(two, after.m) /\ after.m.defines = two.defines
    BY <2>1, <2>3, BindKeeps
  <2>5. after.lobs \in Seq({TempLob}) /\ Len(after.lobs) = Len(b.lobs) + 1 /\ Len(b.lobs) \in Nat
    <3>1. b.lobs \in Seq({TempLob}) /\ TempLob \in {TempLob}
      BY DEF Bound
    <3> QED
      BY <2>1, <3>1, AppendProperties, LenProperties
  <2>9. /\ b.m.live["LOB"] = m.live["LOB"] + Len(b.lobs)
        /\ b.m.live["TEMP"] = m.live["TEMP"] + Len(b.lobs)
        /\ \A k \in Kinds \ {"LOB", "TEMP"} : b.m.live[k] = m.live[k]
    BY DEF Bound
  <2> HIDE DEF after
  <2>6. /\ SameCursor(m, after.m) /\ after.m.misused = m.misused /\ after.m.defines = m.defines
    BY <2>2, <2>3, <2>4 DEF SameHandles, SameCursor, Bound
  <2>7. /\ after.m.live["LOB"] = b.m.live["LOB"] + 1
        /\ after.m.live["TEMP"] = b.m.live["TEMP"] + 1
        /\ \A k \in Kinds \ {"LOB", "TEMP"} : after.m.live[k] = b.m.live[k]
    BY <2>2, <2>3, <2>4 DEF SameHandles, OneMore, Kinds
  <2>8. m.live["LOB"] \in Nat /\ m.live["TEMP"] \in Nat
    BY DEF MockOK, Kinds
  <2>10. /\ after.m.live["LOB"] = m.live["LOB"] + Len(after.lobs)
         /\ after.m.live["TEMP"] = m.live["TEMP"] + Len(after.lobs)
         /\ \A k \in Kinds \ {"LOB", "TEMP"} : after.m.live[k] = m.live[k]
    <3>1. /\ after.m.live["LOB"] = m.live["LOB"] + Len(after.lobs)
          /\ after.m.live["TEMP"] = m.live["TEMP"] + Len(after.lobs)
      BY ONLY <2>5, <2>7, <2>8, <2>9
    <3>2. \A k \in Kinds \ {"LOB", "TEMP"} : after.m.live[k] = m.live[k]
      BY <2>7, <2>9
    <3> QED
      BY <3>1, <3>2
  <2>11. Bound(m, after)
    BY <2>4, <2>5, <2>6, <2>10 DEF Bound
  <2> QED
    BY <2>11 DEF after
<1>2. CASE field.kind # "lob"
  <2>1. after.m = BindByName(b.m, ind) /\ after.lobs = b.lobs
    BY <1>2 DEF BindOneParam, BindName
  <2> HIDE DEF ind, after
  <2>2. MockOK(after.m) /\ SameHandles(b.m, after.m) /\ SameCursor(b.m, after.m)
        /\ after.m.defines = b.m.defines
    BY <2>1, BindKeeps DEF Bound
  <2> QED
    BY <2>1, <2>2 DEF Bound, SameHandles, SameCursor, after
<1> QED
  BY <1>1, <1>2
LEMMA ParamsKeep ==
    ASSUME NEW m, MockOK(m), NEW s, NEW row, NEW inputs, Len(row) \in Nat
    PROVE  Bound(m, BindParams(s, m, row, inputs))
<1>1. PICK g : /\ BindParams(s, m, row, inputs) = g[Len(row)]
               /\ g[0] = [s |-> s, m |-> m, lobs |-> <<>>]
               /\ \A i \in 1 .. Len(row) : g[i] = BindOneParam(g[i - 1], row[i], inputs[i])
  <2>1. \E g : ParamsLoop(g, s, m, row, inputs, Len(row))
    BY BindLoop
  <2> QED
    BY <2>1 DEF ParamsLoop
<1> DEFINE I == {k \in Nat : Bound(m, g[k])}
<1>2. 0 \in I
  <2>1. g[0].m = m /\ g[0].lobs = <<>>
    BY <1>1
  <2>2. m.live["LOB"] \in Nat /\ m.live["TEMP"] \in Nat
    BY DEF MockOK, Kinds
  <2>3. <<>> \in Seq({TempLob}) /\ Len(<<>>) = 0
    BY EmptySeq
  <2>4. Bound(m, g[0])
    BY ONLY MockOK(m), <2>1, <2>2, <2>3 DEF Bound, SameCursor
  <2> QED
    BY <2>4
<1>3. \A k \in 1 .. Len(row) : k - 1 \in I => k \in I
  BY <1>1, BindOneKeeps
<1>4. Len(row) \in I
  <2> HIDE DEF I
  <2> DEFINE n == Len(row)
  <2>1. n \in Nat /\ \A k \in 1 .. n : k - 1 \in I => k \in I
    BY <1>3
  <2> HIDE DEF n
  <2>2. \A k \in 0 .. n : k \in I
    BY <1>2, <2>1, Upwards
  <2>3. n \in I
    BY <2>1, <2>2
  <2> QED
    BY <2>3 DEF n
<1> QED
  BY <1>1, <1>4
(* ---- letting go -------------------------------------------------------- *)
\* What a call holds of the globals m: its statement, its locators and those of
\* them that are temporary LOBs, beside the session it runs on.
Holds(m, n, temps) ==
    /\ MockOK(m) /\ ~m.misused
    /\ m.live["LOB"] = n /\ m.live["TEMP"] = temps /\ m.live["STMT"] = 1
    /\ \A k \in Session : m.live[k] = 1
LEMMA DropOne ==
    ASSUME NEW m, NEW n \in Nat \ {0}, NEW temps \in Nat, NEW lob, lob \in {NewLob, TempLob},
           lob = TempLob => temps > 0, Holds(m, n, temps)
    PROVE  /\ SameCursor(m, LobDrop(lob, m))
           /\ Holds(LobDrop(lob, m), n - 1, IF lob = TempLob THEN temps - 1 ELSE temps)
<1>1. NewLob.locator /\ ~NewLob.temporary /\ TempLob.locator /\ TempLob.temporary /\ NewLob # TempLob
  BY DEF NewLob, TempLob
<1>2. ASSUME NEW x, Holds(x, n, temps), temps > 0
      PROVE  Holds(LobFreeTemporary(x), n, temps - 1) /\ SameCursor(x, LobFreeTemporary(x))
  <2>1. "TEMP" \in Kinds /\ MockOK(x) /\ x.live["TEMP"] > 0 /\ ~x.misused
    BY <1>2 DEF Holds, Kinds
  <2>2. /\ MockOK(LobFreeTemporary(x)) /\ OneLess(x, LobFreeTemporary(x), "TEMP")
        /\ SameCursor(x, LobFreeTemporary(x)) /\ ~LobFreeTemporary(x).misused
    BY <2>1, FreeOne DEF LobFreeTemporary
  <2> QED
    BY <1>2, <2>2 DEF Holds, OneLess, Kinds, Session
<1>3. ASSUME NEW x, NEW t \in Nat, Holds(x, n, t)
      PROVE  Holds(DescriptorFree(x), n - 1, t) /\ SameCursor(x, DescriptorFree(x))
  <2>1. "LOB" \in Kinds /\ MockOK(x) /\ x.live["LOB"] > 0 /\ ~x.misused
    BY <1>3 DEF Holds, Kinds
  <2>2. /\ MockOK(DescriptorFree(x)) /\ OneLess(x, DescriptorFree(x), "LOB")
        /\ SameCursor(x, DescriptorFree(x)) /\ ~DescriptorFree(x).misused
    BY <2>1, FreeOne DEF DescriptorFree
  <2> QED
    BY <1>3, <2>2 DEF Holds, OneLess, Kinds, Session
<1>4. CASE lob = TempLob
  <2>1. LobDrop(lob, m) = DescriptorFree(LobFreeTemporary(m))
    BY <1>1, <1>4 DEF LobDrop
  <2>2. Holds(LobFreeTemporary(m), n, temps - 1) /\ SameCursor(m, LobFreeTemporary(m)) /\ temps - 1 \in Nat
    BY <1>2, <1>4
  <2> QED
    BY <1>3, <1>4, <2>1, <2>2 DEF SameCursor
<1>5. CASE lob = NewLob
  <2>1. LobDrop(lob, m) = DescriptorFree(m) /\ lob # TempLob
    BY <1>1, <1>5 DEF LobDrop
  <2> QED
    BY <1>3, <2>1
<1> QED
  BY <1>4, <1>5
\* However many locators there are, all of them and all their temporary LOBs go.
LEMMA DropAll ==
    ASSUME NEW m, NEW lobs \in Seq({TempLob}), NEW out \in Nat, Holds(m, Len(lobs) + out, Len(lobs))
    PROVE  LET n == DropLobs(m, Locators(lobs, out))
           IN  Holds(n, 0, 0) /\ SameCursor(m, n)
<1> DEFINE all == Locators(lobs, out)
           size == Len(lobs) + out
<1>1. /\ Len(lobs) \in Nat /\ Len(all) = size /\ size \in Nat
      /\ \A i \in 1 .. out : all[i] = NewLob
      /\ \A i \in out + 1 .. size : all[i] = TempLob
  <2> DEFINE S == {NewLob, TempLob}
             news == [k \in 1 .. out |-> NewLob]
  <2>1. news \in Seq(S) /\ Len(news) = out /\ \A i \in 1 .. out : news[i] = NewLob
    OBVIOUS
  <2>2. lobs \in Seq(S) /\ Len(lobs) \in Nat /\ \A i \in 1 .. Len(lobs) : lobs[i] = TempLob
    <3>1. {TempLob} \subseteq S
      OBVIOUS
    <3>2. \A i \in 1 .. Len(lobs) : lobs[i] \in {TempLob}
      BY ElementOfSeq
    <3> HIDE DEF S
    <3> QED
      BY <3>1, <3>2, SeqMonotonic, LenProperties
  <2> HIDE DEF S, news
  <2>3. /\ Len(news \o lobs) = Len(news) + Len(lobs)
        /\ \A i \in 1 .. Len(news) + Len(lobs) :
             (news \o lobs)[i] = IF i <= Len(news) THEN news[i] ELSE lobs[i - Len(news)]
    BY <2>1, <2>2, ConcatProperties
  <2>4. all = news \o lobs
    BY DEF Locators, news
  <2> HIDE DEF all
  <2>5. /\ Len(all) = out + Len(lobs)
        /\ \A i \in 1 .. out + Len(lobs) : all[i] = IF i <= out THEN news[i] ELSE lobs[i - out]
    BY <2>1, <2>3, <2>4
  <2> QED
    BY <2>1, <2>2, <2>5
<1>2. PICK g : /\ DropLobs(m, all) = g[size] /\ g[0] = m
               /\ \A i \in 1 .. size : g[i] = LobDrop(all[i], g[i - 1])
  <2>1. size \in Nat /\ Len(all) = size
    BY <1>1
  <2> HIDE DEF all, size
  <2>2. \E g : /\ DropLobs(m, all) = g[Len(all)] /\ g[0] = m
               /\ \A i \in 1 .. Len(all) : g[i] = LobDrop(all[i], g[i - 1])
    BY <2>1, DropLoop
  <2> QED
    BY ONLY <2>1, <2>2
<1> HIDE DEF all
<1> DEFINE temps(k) == IF k <= out THEN Len(lobs) ELSE size - k
           I == {k \in Nat : Holds(g[k], size - k, temps(k)) /\ SameCursor(m, g[k])}
<1>3. 0 \in I
  BY <1>1, <1>2 DEF SameCursor
<1>4. \A k \in 1 .. size : k - 1 \in I => k \in I
  <2> SUFFICES ASSUME NEW k \in 1 .. size, k - 1 \in I
               PROVE  Holds(g[k], size - k, temps(k)) /\ SameCursor(m, g[k])
    OBVIOUS
  <2> DEFINE left == size - (k - 1)
             t == temps(k - 1)
             lob == all[k]
  <2>1. /\ left \in Nat \ {0} /\ t \in Nat /\ left - 1 = size - k
        /\ lob = (IF k <= out THEN NewLob ELSE TempLob)
        /\ k > out => t > 0 /\ temps(k) = t - 1
        /\ k <= out => temps(k) = t
    BY <1>1
  <2>2. lob \in {NewLob, TempLob} /\ NewLob # TempLob
    BY <2>1 DEF NewLob, TempLob
  <2>3. lob = TempLob => k > out
    BY <2>1, <2>2
  <2>4. Holds(g[k - 1], left, t) /\ SameCursor(m, g[k - 1]) /\ g[k] = LobDrop(lob, g[k - 1])
    BY <1>2
  <2>5. temps(k) = IF lob = TempLob THEN t - 1 ELSE t
    BY <2>1, <2>2
  <2> HIDE DEF left, t, lob, temps
  <2>6. /\ SameCursor(g[k - 1], g[k])
        /\ Holds(g[k], left - 1, IF lob = TempLob THEN t - 1 ELSE t)
    BY <2>1, <2>2, <2>3, <2>4, DropOne
  <2> QED
    BY <2>1, <2>4, <2>5, <2>6 DEF SameCursor
<1>5. size \in I
  <2> HIDE DEF I, size
  <2>1. \A k \in 0 .. size : k \in I
    BY <1>1, <1>3, <1>4, Upwards
  <2> QED
    BY <1>1, <2>1
<1>6. temps(size) = 0 /\ size - size = 0
  BY <1>1
<1> QED
  BY <1>2, <1>5, <1>6 DEF all
(* ---- the state of the client ------------------------------------------- *)
\* A call is none of the fields of NoJob's operation.
LEMMA NoJobOp == NoJob.op = "none" /\ NoJob.op \notin DOMAIN Steps /\ NoJob.pc = "idle"
  BY DEF NoJob, Steps
LEMMA InitClient == Init => ClientInv
<1> SUFFICES ASSUME Init PROVE ClientInv
  OBVIOUS
<1>1. MockOK(mock) /\ \A k \in Kinds : mock.live[k] = 0
  BY NewMockOK DEF Init
<1>2. JobOK /\ Idle
  BY DEF Init, JobOK, Idle
<1>3. HandleInv
  <2>1. ~mock.misused /\ ~conn.connected /\ conn = NewConnection
    BY DEF Init, NewMock, NewConnection
  <2> QED
    BY <1>1, <1>2, <2>1 DEF HandleInv, Session, Kinds
<1>4. IsSeq(delivered) /\ IsSeq(table) /\ result.status = "none" /\ table = <<>>
  BY EmptySeq DEF Init, IsSeq
<1>5. ~Selecting /\ job.op # "insert"
  BY <1>2, NoJobOp DEF Idle, Selecting
<1>6. ProgressInv
  BY <1>2, <1>4, <1>5 DEF ProgressInv, SuccessIsComplete
<1> QED
  BY <1>1, <1>2, <1>3, <1>6 DEF ClientInv
\* What a call that runs holds, and who is connected.
LEMMA Running ==
    ASSUME ClientInv, ~Idle
    PROVE  /\ Holds(mock, Len(job.lobs) + job.outLobs, Len(job.lobs))
           /\ job.lobs \in Seq({TempLob}) /\ job.outLobs \in Nat /\ Len(job.lobs) \in Nat
           /\ conn.connected /\ conn.err /\ JobFields \subseteq DOMAIN job
           /\ job.op \in DOMAIN Steps /\ job.pc \in Steps[job.op]
<1>1. conn.connected /\ conn \in {NewConnection, [env |-> TRUE, err |-> TRUE, svc |-> TRUE, connected |-> TRUE]}
  BY DEF ClientInv, HandleInv
<1>2. conn.err
  BY <1>1 DEF NewConnection
<1> QED
  BY <1>1, <1>2, LenProperties DEF ClientInv, HandleInv, JobOK, Holds
\* The end of a call, whatever it returns: its handles are gone, and what it has
\* handed over or stored is all there is left of it.
LEMMA Finished ==
    ASSUME ClientInv, ~Idle, UNCHANGED conn, NEW m, NEW status, Finish(m, status),
           Holds(m, Len(job.lobs) + job.outLobs, Len(job.lobs)),
           IsSeq(delivered'), IsSeq(table'), \A k \in DOMAIN table' : table'[k] = k,
           status = "Success" /\ Selecting => Len(delivered') = m.total,
           status = "Success" /\ job.op = "insert" => Len(table') = job.rows
    PROVE  ClientInv'
<1> DEFINE n == DropLobs(m, Locators(job.lobs, job.outLobs))
           n2 == HandleFree(n, "STMT")
<1>1. mock' = n2 /\ job' = NoJob
  BY DEF Finish, GuardDrop
<1>2. Holds(n, 0, 0) /\ SameCursor(m, n)
  BY Running, DropAll
<1> HIDE DEF n
<1>3. /\ MockOK(n2) /\ OneLess(n, n2, "STMT") /\ SameCursor(n, n2) /\ ~n2.misused
  BY <1>2, FreeOne DEF Holds, Kinds
<1> HIDE DEF n2
<1>4. Idle' /\ job'.op = "none" /\ JobOK'
  BY <1>1, NoJobOp DEF Idle, JobOK
<1>5. HandleInv'
  BY <1>1, <1>2, <1>3, <1>4, Running DEF HandleInv, ClientInv, Holds, OneLess, Kinds, Session
<1>6. mock'.total = m.total
  BY <1>1, <1>2, <1>3 DEF SameCursor
<1>7. /\ result'.status = status /\ result'.op = job.op
      /\ job.op = "insert" => result'.rows = job.rows
  BY DEF Finish
<1>8. SuccessIsComplete'
  BY <1>6, <1>7 DEF SuccessIsComplete, Selecting
<1>9. ProgressInv'
  BY <1>4, <1>8 DEF ProgressInv, Selecting
<1> QED
  BY <1>1, <1>3, <1>4, <1>5, <1>9 DEF ClientInv
(* ---- a call begins ----------------------------------------------------- *)
\* A call names its operation and its struct, and its own fields are none of the
\* running ones.
CallOK(call) ==
    /\ {"op", "row"} \subseteq DOMAIN call
    /\ DOMAIN call \cap {"pc", "lobs", "outLobs", "positions"} = {}
\* What every call's record has, whatever the operation's own fields are.
RecordOf(j, call, first) ==
    /\ DOMAIN j = DOMAIN call \cup JobFields
    /\ j.pc = first /\ j.lobs = <<>> /\ j.outLobs = 0
    /\ \A x \in DOMAIN call : j[x] = call[x]
LEMMA JobBegun ==
    ASSUME NEW call, NEW first, CallOK(call)
    PROVE  RecordOf(With(NewCall(first), call), call, first)
<1> DEFINE f == NewCall(first)
<1>1. /\ DOMAIN f = {"pc", "lobs", "outLobs", "positions"}
      /\ f["pc"] = first /\ f["lobs"] = <<>> /\ f["outLobs"] = 0
  BY DEF NewCall
<1> HIDE DEF f
<1>2. /\ DOMAIN With(f, call) = DOMAIN call \cup JobFields
      /\ \A x \in DOMAIN call : With(f, call)[x] = call[x]
      /\ \A x \in DOMAIN f : With(f, call)[x] = f[x]
  BY <1>1 DEF With, JobFields, CallOK
<1>3. With(f, call).pc = first /\ With(f, call).lobs = <<>> /\ With(f, call).outLobs = 0
  BY <1>1, <1>2
<1> QED
  BY <1>2, <1>3 DEF f, RecordOf
\* It takes a statement and nothing else, and has handed over and stored nothing.
LEMMA Begun ==
    ASSUME ClientInv, NEW call, NEW first, Begin(call, first), CallOK(call),
           call.op \in DOMAIN Steps, first \in Steps[call.op],
           call.row \in RowTypes \cup {<<>>, <<[name |-> "a", kind |-> "opt"]>>},
           call.op \in {"select_rows", "select_generic", "insert"} =>
               "size" \in DOMAIN call /\ call.size \in BatchSizes,
           call.op = "insert" =>
               /\ {"rows", "offset", "chunk", "address"} \subseteq DOMAIN call
               /\ call.rows \in Nat /\ call.offset = 0 /\ 0 < call.rows /\ first # "execute"
    PROVE  ClientInv'
<1>1. /\ DOMAIN job' = DOMAIN call \cup JobFields
      /\ job'.pc = first /\ job'.lobs = <<>> /\ job'.outLobs = 0
      /\ \A x \in DOMAIN call : job'[x] = call[x]
  <2>1. job' = With(NewCall(first), call)
    BY DEF Begin
  <2>2. RecordOf(job', call, first)
    BY <2>1, JobBegun
  <2> QED
    BY <2>2 DEF RecordOf
<1>2. job'.op = call.op /\ job'.row = call.row
  BY <1>1 DEF CallOK
<1>3. ~Idle'
  BY <1>2, NoJobOp DEF Idle
<1>4. JobOK'
  <2>1. call.op \in {"select_rows", "select_generic", "insert"} =>
            "size" \in DOMAIN job' /\ job'.size \in BatchSizes
    BY <1>1
  <2>2. call.op = "insert" => {"rows", "offset", "chunk", "address"} \subseteq DOMAIN job'
    BY <1>1
  <2> QED
    BY <1>1, <1>2, <2>1, <2>2 DEF JobOK
<1>5. PICK total \in 0 .. RowCount :
        LET m == Answer(HandleAlloc(mock, "STMT"), total)
        IN  IF call.op = "direct" THEN mock' = m ELSE mock' = StmtPrepare(m)
  BY DEF Begin, GuardNew, Prepare
<1> DEFINE got == HandleAlloc(mock, "STMT")
           m == Answer(got, total)
<1>6. MockOK(got) /\ OneMore(mock, got, "STMT") /\ got.misused = mock.misused
  BY AllocOne DEF ClientInv, Kinds
<1> HIDE DEF got
<1>7. MockOK(m) /\ SameHandles(got, m) /\ m.total = total
  BY <1>6, MockFields DEF MockOK, Answer, SameHandles
<1> HIDE DEF m
<1>8. /\ MockOK(mock') /\ SameHandles(m, mock') /\ mock'.total = total
      /\ call.op # "direct" => mock'.row = 0
  BY <1>5, <1>7, PrepareKeeps DEF got, m, SameHandles
<1>9. Idle /\ conn.connected /\ conn' = conn /\ ~mock.misused
  BY DEF Begin, ClientInv, HandleInv
<1>10. /\ \A k \in Session : mock'.live[k] = 1
       /\ mock'.live["STMT"] = 1 /\ mock'.live["LOB"] = 0 /\ mock'.live["TEMP"] = 0
       /\ ~mock'.misused
  <2>1. /\ \A k \in Session : mock.live[k] = 1
        /\ mock.live["STMT"] = 0 /\ mock.live["LOB"] = 0 /\ mock.live["TEMP"] = 0
    BY <1>9 DEF ClientInv, HandleInv, Session, Kinds
  <2> QED
    BY <1>6, <1>7, <1>8, <1>9, <2>1 DEF OneMore, SameHandles, Session, Kinds
<1>11. job'.lobs \in Seq({TempLob}) /\ Len(job'.lobs) = 0 /\ job'.outLobs = 0
  BY <1>1, EmptySeq
<1>12. HandleInv'
  BY <1>1, <1>3, <1>9, <1>10, <1>11 DEF HandleInv, ClientInv, At
<1>13. /\ delivered' = <<>> /\ table' = <<>> /\ result'.status = "running"
       /\ IsSeq(<<>>) /\ Len(<<>>) = 0
  BY EmptySeq DEF Begin, IsSeq
<1>14. call.op = "insert" =>
          /\ job'.rows \in Nat /\ job'.offset = 0 /\ job'.offset < job'.rows /\ job'.pc # "execute"
  BY <1>1
<1>15. call.op = "insert" => Storing'
  BY <1>13, <1>14 DEF Storing, At
<1>16. ProgressInv'
  BY <1>2, <1>8, <1>13, <1>15 DEF ProgressInv, SuccessIsComplete, Selecting
<1> QED
  BY <1>4, <1>8, <1>12, <1>16 DEF ClientInv
\* Every call a program may make.
LEMMA CallStep ==
    ASSUME ClientInv,
           \/ ExecuteSql \/ ExecuteParams \/ SelectRows \/ SelectRowsWhere \/ SelectOne
           \/ SelectGeneric \/ InsertRows \/ DirectUse
    PROVE  ClientInv'
<1> USE DEF Steps, CallOK
<1>1. CASE ExecuteSql
  BY <1>1, Begun DEF ExecuteSql
<1>2. CASE ExecuteParams
  BY <1>2, Begun DEF ExecuteParams
<1>3. CASE SelectRows
  BY <1>3, Begun DEF SelectRows
<1>4. CASE SelectRowsWhere
  BY <1>4, Begun DEF SelectRowsWhere
<1>5. CASE SelectOne
  BY <1>5, Begun DEF SelectOne, Plain
<1>6. CASE SelectGeneric
  BY <1>6, Begun DEF SelectGeneric
<1>7. CASE InsertRows
  BY <1>7, Begun DEF InsertRows, Plain
<1>8. CASE DirectUse
  BY <1>8, Begun DEF DirectUse
<1> QED
  BY <1>1, <1>2, <1>3, <1>4, <1>5, <1>6, <1>7, <1>8
(* ---- the session ------------------------------------------------------- *)
\* A state without a call, whose handles are the session's or none.
LEMMA Rests ==
    ASSUME ClientInv, Idle, UNCHANGED <<job, delivered, table, result>>, MockOK(mock'), ~mock'.misused,
           mock'.total = mock.total,
           conn' \in {NewConnection, [env |-> TRUE, err |-> TRUE, svc |-> TRUE, connected |-> TRUE]},
           \A k \in Session : mock'.live[k] = IF conn'.connected THEN 1 ELSE 0,
           \A k \in Kinds \ Session : mock'.live[k] = 0
    PROVE  ClientInv'
<1>1. Idle' /\ job'.op = "none" /\ job.op = "none" /\ JobOK'
  BY NoJobOp DEF Idle, JobOK
<1>2. HandleInv'
  BY <1>1 DEF HandleInv
<1>3. ProgressInv'
  BY <1>1 DEF ClientInv, ProgressInv, SuccessIsComplete, Selecting
<1> QED
  BY <1>1, <1>2, <1>3 DEF ClientInv
LEMMA SessionKinds ==
    /\ Kinds = Session \cup {"STMT", "LOB", "TEMP"} /\ "ENV" \in Kinds /\ "ERROR" \in Kinds /\ "SVC" \in Kinds
    /\ NewConnection.connected = FALSE /\ NewConnection.svc = FALSE /\ NewConnection.err = FALSE
  BY DEF Kinds, Session, NewConnection
\* What is freed of a session, error handle first, and then nothing is left.
LEMMA GivenUp ==
    ASSUME NEW m, MockOK(m), ~m.misused, m.live["ERROR"] = 1, m.live["ENV"] = 1,
           \A k \in Kinds \ {"ERROR", "ENV"} : m.live[k] = 0
    PROVE  LET n == HandleFree(HandleFree(m, "ERROR"), "ENV")
           IN  MockOK(n) /\ ~n.misused /\ n.total = m.total /\ \A k \in Kinds : n.live[k] = 0
<1> DEFINE one == HandleFree(m, "ERROR")
           n == HandleFree(one, "ENV")
<1>1. MockOK(one) /\ OneLess(m, one, "ERROR") /\ ~one.misused /\ one.total = m.total
  BY FreeOne, SessionKinds DEF SameCursor
<1> HIDE DEF one
<1>2. one.live["ENV"] = 1 /\ \A k \in Kinds \ {"ENV"} : one.live[k] = 0
  BY <1>1, SessionKinds DEF OneLess
<1>3. MockOK(n) /\ OneLess(one, n, "ENV") /\ ~n.misused /\ n.total = one.total
  BY <1>1, <1>2, FreeOne, SessionKinds DEF SameCursor
<1> HIDE DEF n
<1>4. \A k \in Kinds : n.live[k] = 0
  BY <1>2, <1>3 DEF OneLess
<1> QED
  BY <1>1, <1>3, <1>4 DEF n, one
LEMMA OpenStep == ASSUME ClientInv, Open PROVE ClientInv'
<1>1. PICK login \in {SUCCESS, 1, ERROR} :
        LET c == Connect(conn, mock, login) IN mock' = c.m /\ conn' = c.conn
  BY DEF Open
<1>2. /\ MockOK(mock) /\ ~mock.misused /\ \A k \in Kinds : mock.live[k] = 0
      /\ conn = NewConnection /\ Idle
  BY SessionKinds DEF Open, ClientInv, HandleInv
<1> DEFINE env == HandleAlloc(mock, "ENV")
           err == HandleAlloc(env, "ERROR")
           svc == HandleAlloc(err, "SVC")
           all == [env |-> TRUE, err |-> TRUE, svc |-> TRUE, connected |-> TRUE]
<1>3. MockOK(env) /\ OneMore(mock, env, "ENV") /\ env.misused = mock.misused /\ env.total = mock.total
  BY <1>2, AllocOne, SessionKinds DEF SameCursor
<1>4. MockOK(err) /\ OneMore(env, err, "ERROR") /\ err.misused = env.misused /\ err.total = env.total
  <2> HIDE DEF env
  <2> QED
    BY <1>3, AllocOne, SessionKinds DEF SameCursor
<1>5. MockOK(svc) /\ OneMore(err, svc, "SVC") /\ svc.misused = err.misused /\ svc.total = err.total
  <2> HIDE DEF err
  <2> QED
    BY <1>4, AllocOne, SessionKinds DEF SameCursor
<1>6. ~conn.err /\ ~conn.svc /\ ~conn.connected
  BY <1>2 DEF NewConnection
<1>7. CASE login < 0
  <2>1. mock' = HandleFree(HandleFree(err, "ERROR"), "ENV") /\ conn' = NewConnection
    BY <1>1, <1>6, <1>7 DEF Connect, Disconnect, GuardDrop, GuardNew, EnvCreate
  <2> HIDE DEF err, env
  <2>2. /\ ~err.misused /\ err.live["ERROR"] = 1 /\ err.live["ENV"] = 1
        /\ \A k \in Kinds \ {"ERROR", "ENV"} : err.live[k] = 0
    BY <1>2, <1>3, <1>4, SessionKinds DEF OneMore
  <2>3. MockOK(mock') /\ ~mock'.misused /\ mock'.total = err.total /\ \A k \in Kinds : mock'.live[k] = 0
    BY <1>4, <2>1, <2>2, GivenUp
  <2> QED
    BY <1>2, <1>3, <1>4, <2>1, <2>3, SessionKinds, Rests DEF Open
<1>8. CASE ~ (login < 0)
  <2>1. mock' = svc /\ conn' = all
    BY <1>1, <1>6, <1>8 DEF Connect, GuardDrop, GuardNew, EnvCreate, Logon2
  <2>2. all.connected
    OBVIOUS
  <2> HIDE DEF svc, err, env, all
  <2>3. ~svc.misused /\ svc.total = mock.total
    BY <1>2, <1>3, <1>4, <1>5
  <2>4. /\ \A k \in Session : svc.live[k] = 1
        /\ \A k \in Kinds \ Session : svc.live[k] = 0
    BY <1>2, <1>3, <1>4, <1>5 DEF OneMore, Kinds, Session
  <2> QED
    BY <1>2, <1>5, <2>1, <2>2, <2>3, <2>4, Rests DEF Open, all
<1> QED
  BY <1>7, <1>8
LEMMA CloseStep == ASSUME ClientInv, Close PROVE ClientInv'
<1>1. Idle /\ conn.connected /\ LET d == Disconnect(conn, mock) IN mock' = d.m /\ conn' = d.conn
  BY DEF Close
<1>2. /\ MockOK(mock) /\ ~mock.misused /\ conn.env /\ conn.err /\ conn.svc
      /\ \A k \in Session : mock.live[k] = 1
      /\ \A k \in Kinds \ Session : mock.live[k] = 0
  BY <1>1, SessionKinds DEF ClientInv, HandleInv
<1> DEFINE off == HandleFree(mock, "SVC")
<1>3. MockOK(off) /\ OneLess(mock, off, "SVC") /\ ~off.misused /\ off.total = mock.total
  BY <1>2, FreeOne DEF SameCursor, Kinds, Session
<1>4. mock' = HandleFree(HandleFree(off, "ERROR"), "ENV") /\ conn' = NewConnection
  BY <1>1, <1>2 DEF Disconnect, Logoff, GuardDrop
<1> HIDE DEF off
<1>5. /\ off.live["ERROR"] = 1 /\ off.live["ENV"] = 1
      /\ \A k \in Kinds \ {"ERROR", "ENV"} : off.live[k] = 0
  BY <1>2, <1>3 DEF OneLess, Kinds, Session
<1>6. MockOK(mock') /\ ~mock'.misused /\ mock'.total = off.total /\ \A k \in Kinds : mock'.live[k] = 0
  BY <1>3, <1>4, <1>5, GivenUp
<1> QED
  BY <1>1, <1>3, <1>4, <1>6, SessionKinds, Rests DEF Close
LEMMA SetFailureStep == ASSUME ClientInv, SetFailure PROVE ClientInv'
<1>1. PICK mode \in Modes, n \in 0 .. MaxFailures, null \in BOOLEAN :
        mock' = SetSimulateNull(SetMode(mock, mode, n), null)
  BY DEF SetFailure
<1>2. MockOK(mock) /\ Idle /\ ~mock.misused
  BY DEF ClientInv, HandleInv, SetFailure
<1> DEFINE one == [mock EXCEPT !.mode = mode, !.left = n]
<1>3. MockOK(one) /\ SameHandles(mock, one) /\ one.total = mock.total
  BY <1>2, ClientAssumption, MockFields DEF MockOK, SameHandles, ClientAssumption
<1>4. mock' = [one EXCEPT !.nullLast = null]
  BY <1>1 DEF SetSimulateNull, SetMode
<1> HIDE DEF one
<1>5. MockOK(mock') /\ SameHandles(one, mock') /\ mock'.total = one.total
  BY <1>3, <1>4, MockFields DEF MockOK, SameHandles
<1>6. mock'.live = mock.live /\ ~mock'.misused /\ conn' = conn
  BY <1>2, <1>3, <1>5 DEF SameHandles, SetFailure
<1>7. /\ conn' \in {NewConnection, [env |-> TRUE, err |-> TRUE, svc |-> TRUE, connected |-> TRUE]}
      /\ \A k \in Session : mock'.live[k] = IF conn'.connected THEN 1 ELSE 0
      /\ \A k \in Kinds \ Session : mock'.live[k] = 0
  BY <1>2, <1>6 DEF ClientInv, HandleInv
<1> QED
  BY <1>2, <1>3, <1>5, <1>6, <1>7, Rests DEF SetFailure
(* ---- the steps of a call ----------------------------------------------- *)
\* A step within a call, which keeps its connection and comes to hold what it says.
LEMMA Goes ==
    ASSUME ClientInv, ~Idle, UNCHANGED <<conn, result>>, JobOK', ~Idle', job'.op = job.op,
           Holds(mock', Len(job'.lobs) + job'.outLobs, Len(job'.lobs)),
           job'.lobs \in Seq({TempLob}), job'.pc # "bind", job'.outLobs \in Nat,
           job'.pc = "fetch" \/ job'.outLobs = 0,
           IsSeq(delivered'), IsSeq(table'), \A k \in DOMAIN table' : table'[k] = k,
           Selecting => mock'.row \in 0 .. mock'.total /\ Len(delivered') = mock'.row,
           job.op = "insert" => Storing'
    PROVE  ClientInv'
<1>1. conn.connected /\ conn' = conn /\ result'.status = "running"
      /\ conn \in {NewConnection, [env |-> TRUE, err |-> TRUE, svc |-> TRUE, connected |-> TRUE]}
  BY DEF ClientInv, HandleInv, ProgressInv
<1>2. HandleInv'
  BY <1>1 DEF HandleInv, Holds, Session, Kinds, At
<1>3. ProgressInv'
  BY <1>1 DEF ProgressInv, SuccessIsComplete, Selecting
<1>4. MockOK(mock')
  BY DEF Holds
<1> QED
  BY <1>2, <1>3, <1>4 DEF ClientInv
\* The record of a call after a step that changes some of its fields.
LEMMA JobGoes ==
    ASSUME JobOK, ~Idle, DOMAIN job' = DOMAIN job, job'.op = job.op, job'.row = job.row,
           job'.pc \in Steps[job.op], "size" \in DOMAIN job => job'.size = job.size
    PROVE  JobOK' /\ ~Idle'
<1>1. job.op \in DOMAIN Steps /\ ~Idle'
  BY NoJobOp DEF JobOK, Idle
<1> QED
  BY <1>1 DEF JobOK
LEMMA StillHolds ==
    ASSUME NEW m, NEW o, NEW n, NEW temps, Holds(m, n, temps), MockOK(o), SameHandles(m, o)
    PROVE  Holds(o, n, temps)
  BY DEF Holds, SameHandles
\* What a step that only moves on leaves.
LEMMA Moves ==
    ASSUME ClientInv, ~Idle, UNCHANGED <<conn, delivered, table, result>>,
           NEW pc, job' = [job EXCEPT !.pc = pc], pc \in Steps[job.op], pc # "bind", pc # "fetch",
           job.pc # "fetch",
           job.op # "insert", MockOK(mock'), SameHandles(mock, mock'), SameCursor(mock, mock')
    PROVE  ClientInv'
<1>1. /\ JobFields \subseteq DOMAIN job /\ JobOK
      /\ Holds(mock, Len(job.lobs) + job.outLobs, Len(job.lobs))
      /\ job.lobs \in Seq({TempLob}) /\ job.outLobs = 0
  BY Running DEF ClientInv, HandleInv, At
<1>2. /\ DOMAIN job' = DOMAIN job /\ job'.op = job.op /\ job'.row = job.row /\ job'.pc = pc
      /\ job'.lobs = job.lobs /\ job'.outLobs = job.outLobs
      /\ "size" \in DOMAIN job => job'.size = job.size
  BY <1>1 DEF JobFields
<1>3. JobOK' /\ ~Idle'
  BY <1>1, <1>2, JobGoes
<1>4. Holds(mock', Len(job'.lobs) + job'.outLobs, Len(job'.lobs))
  BY <1>1, <1>2, StillHolds
<1>5. /\ IsSeq(delivered') /\ IsSeq(table') /\ \A k \in DOMAIN table' : table'[k] = k
      /\ Selecting => mock'.row \in 0 .. mock'.total /\ Len(delivered') = mock'.row
  BY DEF ClientInv, ProgressInv, SuccessIsComplete, SameCursor
<1>6. job'.lobs \in Seq({TempLob}) /\ job'.outLobs = 0 /\ job'.outLobs \in Nat /\ job'.pc # "bind"
  BY <1>1, <1>2
<1> QED
  BY <1>2, <1>3, <1>4, <1>5, <1>6, Goes
\* Which operations are at a step.
LEMMA AtStep ==
    ASSUME ClientInv, NEW pc, At(pc), pc # "idle"
    PROVE  ~Idle /\ job.op \in DOMAIN Steps /\ pc \in Steps[job.op] /\ JobFields \subseteq DOMAIN job
<1>1. ~Idle
  BY NoJobOp DEF Idle, At
<1> QED
  BY <1>1, Running DEF At
LEMMA SetPrefetchGoes == ASSUME ClientInv, SetPrefetchStep PROVE ClientInv'
<1>1. /\ ~Idle /\ job.op \in {"select_rows", "select_generic"} /\ job.pc = "setPrefetch"
  BY AtStep DEF SetPrefetchStep, Steps, At
<1>2. MockOK(mock) /\ mock' = mock
  BY DEF ClientInv, SetPrefetchStep
<1> QED
  BY <1>1, <1>2, Moves DEF SetPrefetchStep, Goto, Steps, SameHandles, SameCursor
\* The fields of a struct are a sequence of some length.
LEMMA RowIsSeq == ASSUME ClientInv, ~Idle PROVE Len(job.row) \in Nat /\ DOMAIN job.row = 1 .. Len(job.row)
<1>1. job.row \in RowTypes \cup {<<>>, <<[name |-> "a", kind |-> "opt"]>>}
  BY DEF ClientInv, JobOK
<1>2. CASE job.row \in RowTypes
  BY <1>2, RowTypeOK DEF StructOK
<1>3. CASE job.row = <<>>
  BY <1>3
<1>4. CASE job.row = <<[name |-> "a", kind |-> "opt"]>>
  BY <1>4
<1> QED
  BY <1>1, <1>2, <1>3, <1>4
LEMMA OutputsGoes == ASSUME ClientInv, OutputsStep PROVE ClientInv'
<1>1. ~Idle /\ job.op = "select" /\ job.pc = "outputs" /\ MockOK(mock)
  BY AtStep DEF OutputsStep, Steps, At, ClientInv
<1> DEFINE positions == [f \in 1 .. Len(job.row) |-> f]
           ds == [f \in 1 .. Len(job.row) |-> DefineOnePositionalOutput(f, job.row[f].kind)]
<1>2. mock' = BindOutputs(mock, positions, ds) /\ Len(ds) \in Nat
  BY <1>1, RowIsSeq DEF OutputsStep
<1> HIDE DEF positions, ds
<1>3. MockOK(mock') /\ SameHandles(mock, mock') /\ SameCursor(mock, mock')
  BY <1>1, <1>2, OutputsKeep
<1>4. /\ job' = [job EXCEPT !.pc = "execute"] /\ "execute" \in Steps[job.op]
      /\ UNCHANGED <<conn, delivered, table, result>>
  BY <1>1 DEF OutputsStep, Goto, Steps
<1> QED
  BY <1>1, <1>3, <1>4, Moves
LEMMA BindGoes == ASSUME ClientInv, BindStep PROVE ClientInv'
<1>1. ~Idle /\ job.op \in {"execute", "select_rows"} /\ job.pc = "bind" /\ MockOK(mock)
  BY AtStep DEF BindStep, Steps, At, ClientInv
<1>2. /\ JobFields \subseteq DOMAIN job /\ JobOK /\ Holds(mock, Len(job.lobs) + job.outLobs, Len(job.lobs))
      /\ Len(job.lobs) = 0 /\ job.outLobs = 0
  BY <1>1, Running DEF ClientInv, HandleInv, At
<1> DEFINE b == BindParams(stmt, mock, job.row, job.inputs)
           next == IF job.op = "execute" THEN "execute" ELSE "setPrefetch"
<1>3. Bound(mock, b)
  BY <1>1, RowIsSeq, ParamsKeep
<1>4. /\ mock' = b.m /\ job' = [job EXCEPT !.lobs = b.lobs, !.pc = next]
      /\ UNCHANGED <<conn, delivered, table, result>>
  BY DEF BindStep
<1> HIDE DEF b
<1>5. /\ DOMAIN job' = DOMAIN job /\ job'.op = job.op /\ job'.row = job.row /\ job'.pc = next
      /\ job'.lobs = b.lobs /\ job'.outLobs = 0
      /\ "size" \in DOMAIN job => job'.size = job.size
  BY <1>2, <1>4 DEF JobFields
<1>6. next \in Steps[job.op] /\ next # "bind"
  BY <1>1 DEF Steps
<1> HIDE DEF next
<1>7. JobOK' /\ ~Idle'
  BY <1>1, <1>2, <1>5, <1>6, JobGoes
<1>8. /\ Len(b.lobs) \in Nat /\ b.lobs \in Seq({TempLob})
      /\ Holds(mock', Len(b.lobs), Len(b.lobs))
  BY <1>2, <1>3, <1>4, LenProperties DEF Bound, Holds, Kinds, Session
<1>9. /\ IsSeq(delivered') /\ IsSeq(table') /\ \A k \in DOMAIN table' : table'[k] = k
      /\ Selecting => mock'.row \in 0 .. mock'.total /\ Len(delivered') = mock'.row
  BY <1>3, <1>4 DEF ClientInv, ProgressInv, SuccessIsComplete, SameCursor, Bound
<1>10. Holds(mock', Len(job'.lobs) + job'.outLobs, Len(job'.lobs)) /\ job'.lobs \in Seq({TempLob})
  BY <1>5, <1>8
<1>11. job.op # "insert" /\ job'.outLobs \in Nat /\ job'.pc # "bind"
  BY <1>1, <1>5, <1>6
<1> QED
  BY <1>1, <1>4, <1>5, <1>7, <1>9, <1>10, <1>11, Goes
LEMMA BindArrayGoes == ASSUME ClientInv, BindArrayStep PROVE ClientInv'
<1>1. ~Idle /\ job.op = "insert" /\ job.pc = "bindArray" /\ MockOK(mock)
  BY AtStep DEF BindArrayStep, Steps, At, ClientInv
<1>2. /\ JobFields \subseteq DOMAIN job /\ JobOK /\ Holds(mock, Len(job.lobs) + job.outLobs, Len(job.lobs))
      /\ job.lobs \in Seq({TempLob}) /\ job.outLobs = 0
      /\ {"rows", "offset", "chunk", "address", "size"} \subseteq DOMAIN job
  BY <1>1, Running DEF ClientInv, HandleInv, At, JobOK
<1>3. MockOK(mock') /\ SameHandles(mock, mock') /\ SameCursor(mock, mock')
  BY <1>1, RowIsSeq, BindArraysKeep DEF BindArrayStep
<1>4. /\ job' = [job EXCEPT !.chunk = ChunkOf(job.rows, job.offset, job.size),
                            !.address = BindArrayField(job.offset), !.pc = "execute"]
      /\ UNCHANGED <<conn, delivered, table, result>>
  BY DEF BindArrayStep
<1>5. /\ DOMAIN job' = DOMAIN job /\ job'.op = job.op /\ job'.row = job.row /\ job'.pc = "execute"
      /\ job'.lobs = job.lobs /\ job'.outLobs = job.outLobs /\ job'.size = job.size
      /\ job'.rows = job.rows /\ job'.offset = job.offset
      /\ job'.chunk = ChunkOf(job.rows, job.offset, job.size) /\ job'.address = job.offset
  BY <1>2, <1>4 DEF JobFields, BindArrayField
<1>6. JobOK' /\ ~Idle'
  <2>1. job'.pc \in Steps[job.op]
    BY <1>1, <1>5 DEF Steps
  <2> QED
    BY <1>1, <1>2, <1>5, <2>1, JobGoes
<1>7. Holds(mock', Len(job'.lobs) + job'.outLobs, Len(job'.lobs))
  BY <1>2, <1>3, <1>5, StillHolds
<1>8. /\ IsSeq(delivered') /\ IsSeq(table') /\ \A k \in DOMAIN table' : table'[k] = k
      /\ ~Selecting /\ Storing
  BY <1>1, <1>4 DEF ClientInv, ProgressInv, SuccessIsComplete, Selecting
<1>9. job'.lobs \in Seq({TempLob}) /\ job'.outLobs = 0 /\ job'.outLobs \in Nat
  BY <1>2, <1>5
<1>10. UNCHANGED <<conn, result>> /\ job'.op = job.op /\ job'.pc # "bind"
  BY <1>4, <1>5
<1>11. Storing'
  <2>1. job'.rows \in Nat /\ job'.offset \in Nat /\ job'.offset < job'.rows /\ Len(table') = job'.offset
    BY <1>4, <1>5, <1>8 DEF Storing
  <2>2. job'.address = job'.offset /\ job'.chunk = ChunkOf(job'.rows, job'.offset, job'.size)
    BY <1>5
  <2> QED
    BY <2>1, <2>2 DEF Storing
<1>12. ~Selecting /\ (job'.pc = "fetch" \/ job'.outLobs = 0)
  BY <1>8, <1>9
<1>13. ~Idle /\ IsSeq(delivered') /\ IsSeq(table') /\ \A k \in DOMAIN table' : table'[k] = k
  BY <1>1, <1>8
<1> QED
  BY ONLY ClientInv, <1>6, <1>7, <1>9, <1>10, <1>11, <1>12, <1>13, Goes
(* ---- how a call fails -------------------------------------------------- *)
\* A call that ends without success may have done any part of its work.
LEMMA Fails ==
    ASSUME ClientInv, ~Idle, UNCHANGED <<conn, delivered, table>>, NEW m, NEW status,
           Finish(m, status), status # "Success", MockOK(m), SameHandles(mock, m)
    PROVE  ClientInv'
<1>1. Holds(m, Len(job.lobs) + job.outLobs, Len(job.lobs))
  BY Running, StillHolds
<1>2. IsSeq(delivered') /\ IsSeq(table')
  BY DEF ClientInv, ProgressInv
<1>3. \A k \in DOMAIN table' : table'[k] = k
  BY DEF ClientInv, ProgressInv, SuccessIsComplete
<1> QED
  BY <1>1, <1>2, <1>3, Finished
LEMMA FetchLostFails == ASSUME ClientInv, FetchLostStep PROVE ClientInv'
<1> DEFINE lost == Fetch(stmt, conn, FetchLost(mock, mem))
<1>1. ~Idle /\ MockOK(mock) /\ UNCHANGED <<conn, delivered, table>> /\ Finish(lost.m, lost.result.status)
  BY AtStep DEF FetchLostStep, ClientInv
<1>2. lost.m = [mock EXCEPT !.mode = "DisconnectThenRecover"]
  BY DEF Fetch, FetchLost
<1>3. lost.result.status # "Success"
  <2> DEFINE call == CallOci(conn, lost.m, ERROR)
  <2>1. lost.result.status = Classify(call) /\ call.status = -1
    BY DEF Fetch, FetchLost, ExecResult, CallOci, ERROR
  <2> HIDE DEF call
  <2> QED
    BY <2>1 DEF Classify
<1> HIDE DEF lost
<1>4. MockOK(lost.m) /\ SameHandles(mock, lost.m)
  BY <1>1, <1>2, MockFields DEF MockOK, SameHandles, Modes
<1> QED
  BY <1>1, <1>3, <1>4, Fails
LEMMA CallbackFails == ASSUME ClientInv, CallbackThrows PROVE ClientInv'
<1>1. ~Idle /\ MockOK(mock) /\ UNCHANGED <<conn, delivered, table>> /\ Finish(mock, "thrown")
  BY AtStep DEF CallbackThrows, ClientInv
<1> QED
  BY <1>1, Fails DEF SameHandles
(* ---- the columns of a result ------------------------------------------- *)
LEMMA StagedIsNat ==
    ASSUME NEW row, NEW n \in Nat, Len(row) = n, NEW size \in Nat
    PROVE  StagedLobs(row, size) \in Nat
<1> DEFINE lobs == {f \in 1 .. n : row[f].kind = "lob"}
<1>1. IsFiniteSet(lobs)
  <2>1. IsFiniteSet(1 .. n) /\ lobs \subseteq 1 .. n
    BY FS_Interval
  <2> QED
    BY <2>1, FS_Subset
<1>2. Cardinality(lobs) \in Nat
  BY <1>1, FS_CardinalityType
<1>3. StagedLobs(row, size) = size * Cardinality(lobs)
  BY DEF StagedLobs
<1> HIDE DEF lobs
<1> QED
  BY <1>2, <1>3
LEMMA DefineGoes == ASSUME ClientInv, DefineStep PROVE ClientInv'
<1>1. /\ ~Idle /\ job.op = "select_rows" /\ job.pc = "define" /\ MockOK(mock)
      /\ "size" \in DOMAIN job /\ job.size \in Nat
  BY AtStep, RowsAssumption DEF DefineStep, At, ClientInv, JobOK, RowsAssumption
<1> DEFINE positions == ResolveColumnPositions(mock, job.row)
           defined == DefineColumns(mock, job.row, positions)
           staged == StagedLobs(job.row, job.size)
<1>2. CASE \E f \in DOMAIN positions : positions[f] = 0
  <2>1. Finish(mock, "QueryError") /\ UNCHANGED <<conn, delivered, table>>
    BY <1>2 DEF DefineStep
  <2> QED
    BY <1>1, <2>1, Fails DEF SameHandles
<1>3. CASE ~ \E f \in DOMAIN positions : positions[f] = 0
  <2>1. /\ mock' = [defined EXCEPT !.live["LOB"] = @ + staged]
        /\ job' = [job EXCEPT !.positions = positions, !.outLobs = staged, !.pc = "fetch"]
        /\ UNCHANGED <<conn, delivered, table, result>>
    BY <1>3 DEF DefineStep
  <2>2. MockOK(defined) /\ SameHandles(mock, defined) /\ SameCursor(mock, defined)
    <3>1. Len(DefinesOf(job.row)) \in Nat
      BY <1>1, RowIsSeq DEF DefinesOf
    <3> QED
      BY <1>1, <3>1, OutputsKeep DEF DefineColumns
  <2>3. staged \in Nat
    BY <1>1, RowIsSeq, StagedIsNat
  <2> HIDE DEF positions, defined, staged
  <2>4. /\ MockOK(mock') /\ SameCursor(defined, mock') /\ mock'.misused = defined.misused
        /\ mock'.live["LOB"] = defined.live["LOB"] + staged
        /\ \A k \in Kinds \ {"LOB"} : mock'.live[k] = defined.live[k]
    BY <2>1, <2>2, <2>3, MockFields DEF MockOK, SameCursor, Kinds
  <2>5. /\ JobFields \subseteq DOMAIN job /\ JobOK
        /\ Holds(mock, Len(job.lobs), Len(job.lobs))
        /\ job.lobs \in Seq({TempLob}) /\ Len(job.lobs) \in Nat
    BY <1>1, Running DEF ClientInv, HandleInv, At
  <2>6. /\ DOMAIN job' = DOMAIN job /\ job'.op = job.op /\ job'.row = job.row /\ job'.pc = "fetch"
        /\ job'.lobs = job.lobs /\ job'.outLobs = staged /\ job'.size = job.size
    BY <1>1, <2>1, <2>5 DEF JobFields
  <2>7. JobOK' /\ ~Idle'
    <3>1. job'.pc \in Steps[job.op]
      BY <1>1, <2>6 DEF Steps
    <3> QED
      BY <1>1, <2>5, <2>6, <3>1, JobGoes
  <2>8. Holds(mock', Len(job'.lobs) + job'.outLobs, Len(job'.lobs))
    BY <2>2, <2>3, <2>4, <2>5, <2>6 DEF Holds, SameHandles, Kinds, Session
  <2>9. Selecting => mock'.row \in 0 .. mock'.total /\ Len(delivered') = mock'.row
    BY <2>1, <2>2, <2>4 DEF ClientInv, ProgressInv, SameCursor
  <2>10. IsSeq(delivered') /\ IsSeq(table')
    BY <2>1 DEF ClientInv, ProgressInv
  <2>11. \A k \in DOMAIN table' : table'[k] = k
    BY <2>1 DEF ClientInv, ProgressInv, SuccessIsComplete
  <2>12. job'.lobs \in Seq({TempLob}) /\ job'.outLobs \in Nat /\ UNCHANGED <<conn, result>>
    BY <2>1, <2>3, <2>5, <2>6
  <2>13. job'.pc # "bind" /\ (job'.pc = "fetch" \/ job'.outLobs = 0) /\ job.op # "insert"
    BY <1>1, <2>6
  <2> QED
    BY <1>1, <2>6, <2>7, <2>8, <2>9, <2>10, <2>11, <2>12, <2>13, Goes
<1> QED
  BY <1>2, <1>3
LEMMA DefineGenericGoes == ASSUME ClientInv, DefineGenericStep PROVE ClientInv'
<1>1. ~Idle /\ job.op = "select_generic" /\ job.pc = "define" /\ MockOK(mock)
  BY AtStep DEF DefineGenericStep, At, ClientInv
<1> DEFINE columns == DescribeColumns(mock)
           positions == [p \in 1 .. Len(columns) |-> p]
           defines == [p \in 1 .. Len(columns) |->
                          [area |-> "batch", field |-> p, type |-> columns[p].type,
                           stride |-> 1, ind |-> TRUE]]
<1>2. CASE \E p \in DOMAIN columns : columns[p].type = "CLOB"
  <2>1. Finish(mock, "QueryError") /\ UNCHANGED <<conn, delivered, table>>
    BY <1>2 DEF DefineGenericStep
  <2> QED
    BY <1>1, <2>1, Fails DEF SameHandles
<1>3. CASE ~ \E p \in DOMAIN columns : columns[p].type = "CLOB"
  <2>1. /\ mock' = BindOutputs(mock, positions, defines)
        /\ job' = [job EXCEPT !.positions = positions, !.pc = "fetch"]
        /\ UNCHANGED <<conn, delivered, table, result>>
    BY <1>3 DEF DefineGenericStep
  <2>2. Len(mock.columns) \in Nat
    BY <1>1, ColumnsOK
  <2>3. Len(defines) \in Nat
    BY <2>2 DEF DescribeColumns, ParamCount
  <2> HIDE DEF positions, defines
  <2>4. MockOK(mock') /\ SameHandles(mock, mock') /\ SameCursor(mock, mock')
    BY <1>1, <2>1, <2>3, OutputsKeep
  <2>5. /\ JobFields \subseteq DOMAIN job /\ JobOK
        /\ Holds(mock, Len(job.lobs) + job.outLobs, Len(job.lobs))
        /\ job.lobs \in Seq({TempLob}) /\ job.outLobs \in Nat
    BY <1>1, Running DEF ClientInv
  <2>6. /\ DOMAIN job' = DOMAIN job /\ job'.op = job.op /\ job'.row = job.row /\ job'.pc = "fetch"
        /\ job'.lobs = job.lobs /\ job'.outLobs = job.outLobs
        /\ "size" \in DOMAIN job => job'.size = job.size
    BY <2>1, <2>5 DEF JobFields
  <2>7. JobOK' /\ ~Idle'
    <3>1. job'.pc \in Steps[job.op]
      BY <1>1, <2>6 DEF Steps
    <3> QED
      BY <1>1, <2>5, <2>6, <3>1, JobGoes
  <2>8. Holds(mock', Len(job'.lobs) + job'.outLobs, Len(job'.lobs))
    BY <2>4, <2>5, <2>6, StillHolds
  <2>9. Selecting => mock'.row \in 0 .. mock'.total /\ Len(delivered') = mock'.row
    BY <2>1, <2>4 DEF ClientInv, ProgressInv, SameCursor
  <2>10. IsSeq(delivered') /\ IsSeq(table')
    BY <2>1 DEF ClientInv, ProgressInv
  <2>11. \A k \in DOMAIN table' : table'[k] = k
    BY <2>1 DEF ClientInv, ProgressInv, SuccessIsComplete
  <2>12. job'.lobs \in Seq({TempLob}) /\ job'.outLobs \in Nat /\ UNCHANGED <<conn, result>>
    BY <2>1, <2>5, <2>6
  <2>13. job'.pc # "bind" /\ (job'.pc = "fetch" \/ job'.outLobs = 0) /\ job.op # "insert"
    BY <1>1, <2>6
  <2> QED
    BY <1>1, <2>6, <2>7, <2>8, <2>9, <2>10, <2>11, <2>12, <2>13, Goes
<1> QED
  BY <1>2, <1>3
(* ---- execution --------------------------------------------------------- *)
\* A chunk is what is left of the rows, and never nothing.
LEMMA ChunkIsSome ==
    ASSUME NEW rows \in Nat, NEW offset \in Nat, NEW size \in Nat \ {0}, offset < rows
    PROVE  LET n == ChunkOf(rows, offset, size)
           IN  /\ n \in Nat \ {0} /\ offset + n <= rows
               /\ offset + size < rows => n = size
               /\ ~ (offset + size < rows) => offset + n = rows
  BY DEF ChunkOf
\* An insert that executes is at the chunk it has bound.
LEMMA Chunked ==
    ASSUME ClientInv, job.op = "insert", At("execute")
    PROVE  /\ job.rows \in Nat /\ job.offset \in Nat /\ job.address = job.offset /\ job.size \in Nat
           /\ job.chunk \in Nat \ {0} /\ job.offset + job.chunk <= job.rows
           /\ job.offset + job.size < job.rows => job.chunk = job.size
           /\ ~ (job.offset + job.size < job.rows) => job.offset + job.chunk = job.rows
           /\ Len(table) = job.offset /\ IsSeq(table)
<1>1. Storing /\ ~Idle /\ IsSeq(table)
  BY NoJobOp DEF ClientInv, ProgressInv, Idle
<1>2. job.size \in BatchSizes
  BY <1>1 DEF ClientInv, JobOK
<1>3. job.size \in Nat \ {0}
  BY <1>2, RowsAssumption DEF RowsAssumption
<1>4. /\ job.rows \in Nat /\ job.offset \in Nat /\ job.offset < job.rows /\ job.address = job.offset
      /\ job.chunk = ChunkOf(job.rows, job.offset, job.size) /\ Len(table) = job.offset
  BY <1>1 DEF Storing
<1> QED
  BY <1>1, <1>3, <1>4, ChunkIsSome
LEMMA ItersIsNat == ASSUME ClientInv, At("execute") PROVE Iters \in Nat
<1>1. CASE job.op = "insert"
  BY <1>1, Chunked DEF Iters
<1>2. CASE job.op # "insert"
  BY <1>2 DEF Iters
<1> QED
  BY <1>1, <1>2
\* The rows of a chunk, appended to those before it, are the next ones.
LEMMA StoredNext ==
    ASSUME IsSeq(table), \A k \in DOMAIN table : table[k] = k, NEW n \in Nat, job.rows \in Nat,
           Len(table) + n <= job.rows
    PROVE  LET more == table \o Stored(Len(table), n)
           IN  /\ IsSeq(more) /\ Len(more) = Len(table) + n
               /\ \A k \in DOMAIN more : more[k] = k
<1> DEFINE rows == Stored(Len(table), n)
           more == table \o rows
<1>1. DOMAIN rows = 1 .. n /\ rows = [k \in 1 .. n |-> rows[k]]
  BY DEF Stored
<1>2. Len(table) \in Nat /\ DOMAIN table = 1 .. Len(table)
  <2>1. table \in Seq({table[i] : i \in DOMAIN table})
    BY DEF IsSeq
  <2> QED
    BY <2>1, LenProperties
<1>3. \A k \in 1 .. n : rows[k] = Len(table) + k
  BY <1>2 DEF Stored
<1> HIDE DEF rows
<1>4. IsSeq(rows) /\ Len(rows) = n
  <2> DEFINE S == {rows[i] : i \in DOMAIN rows}
  <2>1. rows \in [1 .. n -> S]
    BY <1>1
  <2>2. IsSeq(rows) <=> rows \in Seq(S)
    BY DEF IsSeq
  <2> HIDE DEF S
  <2>3. rows \in Seq(S)
    BY <2>1, SeqDef
  <2>4. Len(rows) \in Nat /\ DOMAIN rows = 1 .. Len(rows)
    BY <2>3, LenProperties
  <2>5. Len(rows) = n
    BY ONLY <2>4, <1>1
  <2> QED
    BY <2>2, <2>3, <2>5
<1>5. /\ IsSeq(more) /\ Len(more) = Len(table) + n
      /\ \A i \in 1 .. Len(table) + n : more[i] = IF i <= Len(table) THEN table[i] ELSE rows[i - Len(table)]
  BY <1>4, MoreRows
<1> HIDE DEF more
<1>6. DOMAIN more = 1 .. Len(table) + n
  <2>1. more \in Seq({more[i] : i \in DOMAIN more})
    BY <1>5 DEF IsSeq
  <2> QED
    BY <1>5, <2>1, LenProperties
<1>7. \A k \in DOMAIN more : more[k] = k
  BY <1>2, <1>3, <1>5, <1>6
<1> QED
  BY <1>5, <1>7 DEF more, rows
\* What a chunk that fails has left in the table: its first rows, or none.
LEMMA PartStored ==
    ASSUME ClientInv, job.op = "insert", At("execute"), NEW n \in 1 .. job.chunk,
           table' = table \o Stored(job.address, n)
    PROVE  IsSeq(table') /\ \A k \in DOMAIN table' : table'[k] = k
<1>1. /\ n \in Nat /\ job.rows \in Nat /\ Len(table) + n <= job.rows /\ job.address = Len(table)
      /\ IsSeq(table)
  BY Chunked
<1>2. \A k \in DOMAIN table : table[k] = k
  BY DEF ClientInv, ProgressInv, SuccessIsComplete
<1>3. LET more == table \o Stored(Len(table), n)
      IN  IsSeq(more) /\ \A k \in DOMAIN more : more[k] = k
  BY <1>1, <1>2, StoredNext
<1> QED
  BY <1>1, <1>3
LEMMA ExecuteGoes == ASSUME ClientInv, ExecuteStep PROVE ClientInv'
<1>1. ~Idle /\ At("execute") /\ MockOK(mock) /\ Iters \in Nat /\ job.pc = "execute"
      /\ "execute" \in Steps[job.op] /\ job.op \in DOMAIN Steps
  BY AtStep, ItersIsNat DEF ExecuteStep, ClientInv, At
<1> DEFINE e == Execute(stmt, conn, mock, mem, Iters)
<1>2. MockOK(e.m) /\ SameHandles(mock, e.m) /\ e.m.total = mock.total
      /\ (Iters = 0 => SameCursor(mock, e.m))
  BY <1>1, ExecuteKeeps DEF Execute
<1>3. PICK columns \in IF job.op \in {"select_rows", "select_generic"} THEN Descriptions ELSE {<<>>} :
         \/ ExecuteFails(e)
         \/ /\ Iters = 0
            /\ mock' = Describe(e.m, columns) /\ Goto("define")
            /\ UNCHANGED <<conn, delivered, table, result>>
         \/ /\ job.op \in {"execute", "select"}
            /\ Finish(e.m, "Success")
            /\ delivered' = IF job.op = "select" /\ RowsFetched(e.m) > 0
                            THEN LET out == ApplyPositionalOutputs(e.mem, e.result.call.status)
                                 IN  <<[f \in DOMAIN out.batch |-> out.batch[f][0]]>>
                            ELSE delivered
            /\ UNCHANGED <<conn, table>>
  BY DEF ExecuteStep
<1> HIDE DEF e
<1>4. CASE ExecuteFails(e)
  <2>1. /\ Finish(e.m, e.result.status) /\ e.result.status # "Success"
        /\ UNCHANGED <<conn, delivered>>
    BY <1>4 DEF ExecuteFails
  <2>2. CASE UNCHANGED table
    BY <1>1, <1>2, <2>1, <2>2, Fails
  <2>3. CASE job.op = "insert" /\ \E n \in 1 .. job.chunk : table' = table \o Stored(job.address, n)
    <3>1. IsSeq(table') /\ \A k \in DOMAIN table' : table'[k] = k
      BY <1>1, <2>3, PartStored
    <3>2. Holds(e.m, Len(job.lobs) + job.outLobs, Len(job.lobs))
      BY <1>1, <1>2, Running, StillHolds
    <3>3. IsSeq(delivered')
      BY <2>1 DEF ClientInv, ProgressInv
    <3> QED
      BY <1>1, <2>1, <3>1, <3>2, <3>3, Finished
  <2> QED
    BY <1>4, <2>2, <2>3 DEF ExecuteFails
<1>5. CASE /\ Iters = 0
           /\ mock' = Describe(e.m, columns) /\ Goto("define")
           /\ UNCHANGED <<conn, delivered, table, result>>
  <2>1. job.op \in {"select_rows", "select_generic"}
    <3>1. job.op # "insert"
      BY <1>1, <1>5, Chunked DEF Iters
    <3> QED
      BY <1>1, <1>5, <3>1 DEF Steps, Iters
  <2>2. columns \in Descriptions
    BY <1>3, <2>1
  <2>3. MockOK(mock') /\ SameHandles(e.m, mock') /\ SameCursor(e.m, mock')
    BY <1>2, <1>5, <2>2, MockFields DEF Describe, MockOK, SameHandles, SameCursor
  <2>4. MockOK(mock') /\ SameHandles(mock, mock') /\ SameCursor(mock, mock')
    BY <1>2, <1>5, <2>3 DEF SameHandles, SameCursor
  <2>5. /\ job' = [job EXCEPT !.pc = "define"] /\ "define" \in Steps[job.op]
        /\ job.pc # "fetch" /\ job.op # "insert"
    BY <1>1, <1>5, <2>1 DEF Goto, Steps
  <2> QED
    BY <1>1, <1>5, <2>4, <2>5, Moves
<1>6. CASE /\ job.op \in {"execute", "select"}
           /\ Finish(e.m, "Success")
           /\ delivered' = IF job.op = "select" /\ RowsFetched(e.m) > 0
                           THEN LET out == ApplyPositionalOutputs(e.mem, e.result.call.status)
                                IN  <<[f \in DOMAIN out.batch |-> out.batch[f][0]]>>
                           ELSE delivered
           /\ UNCHANGED <<conn, table>>
  <2>1. Holds(e.m, Len(job.lobs) + job.outLobs, Len(job.lobs))
    BY <1>1, <1>2, Running, StillHolds
  <2>2. \A x : IsSeq(<<x>>)
    <3> TAKE x
    <3>1. <<x>> \in Seq({x}) /\ DOMAIN <<x>> = {1} /\ <<x>>[1] = x
      OBVIOUS
    <3>2. {<<x>>[i] : i \in DOMAIN <<x>>} = {x}
      BY <3>1
    <3> QED
      BY <3>1, <3>2 DEF IsSeq
  <2>3. IsSeq(delivered') /\ IsSeq(table')
    BY <1>6, <2>2 DEF ClientInv, ProgressInv
  <2>4. \A k \in DOMAIN table' : table'[k] = k
    BY <1>6 DEF ClientInv, ProgressInv, SuccessIsComplete
  <2>5. ~Selecting
    BY <1>6 DEF Selecting
  <2> QED
    BY <1>1, <1>6, <2>1, <2>3, <2>4, <2>5, Finished
<1> QED
  BY <1>3, <1>4, <1>5, <1>6
LEMMA InsertGoes == ASSUME ClientInv, InsertChunkStep PROVE ClientInv'
<1> DEFINE e == Execute(stmt, conn, mock, mem, Iters)
           next == job.offset + job.size
<1>1. /\ ~Idle /\ job.op = "insert" /\ At("execute") /\ MockOK(mock) /\ Iters \in Nat
  BY AtStep, ItersIsNat DEF InsertChunkStep, ClientInv
<1>2. /\ job.rows \in Nat /\ job.offset \in Nat /\ job.address = job.offset /\ job.size \in Nat
      /\ job.chunk \in Nat \ {0} /\ job.offset + job.chunk <= job.rows
      /\ next < job.rows => job.chunk = job.size
      /\ ~ (next < job.rows) => job.offset + job.chunk = job.rows
      /\ Len(table) = job.offset /\ IsSeq(table)
  BY <1>1, Chunked
<1>3. /\ table' = table \o Stored(job.address, job.chunk)
      /\ UNCHANGED <<conn, delivered>>
      /\ IF next < job.rows
         THEN /\ job' = [job EXCEPT !.offset = next, !.pc = "bindArray"]
              /\ mock' = e.m /\ UNCHANGED result
         ELSE Finish(e.m, "Success")
  BY DEF InsertChunkStep
<1>4. MockOK(e.m) /\ SameHandles(mock, e.m)
  BY <1>1, ExecuteKeeps DEF Execute
<1> HIDE DEF e
<1>5. /\ IsSeq(table') /\ Len(table') = job.offset + job.chunk
      /\ \A k \in DOMAIN table' : table'[k] = k
  <2>1. \A k \in DOMAIN table : table[k] = k
    BY DEF ClientInv, ProgressInv, SuccessIsComplete
  <2>2. job.chunk \in Nat /\ Len(table) + job.chunk <= job.rows
        /\ table' = table \o Stored(Len(table), job.chunk)
    BY <1>2, <1>3
  <2>3. LET more == table \o Stored(Len(table), job.chunk)
        IN  /\ IsSeq(more) /\ Len(more) = Len(table) + job.chunk
            /\ \A k \in DOMAIN more : more[k] = k
    BY <1>2, <2>1, <2>2, StoredNext
  <2> QED
    BY <1>2, <2>2, <2>3
<1>6. ~Selecting /\ IsSeq(delivered')
  BY <1>1, <1>3 DEF Selecting, ClientInv, ProgressInv
<1>7. Holds(e.m, Len(job.lobs) + job.outLobs, Len(job.lobs))
  BY <1>1, <1>4, Running, StillHolds
<1>8. CASE next < job.rows
  <2>1. /\ job' = [job EXCEPT !.offset = next, !.pc = "bindArray"]
        /\ mock' = e.m /\ UNCHANGED <<conn, result>>
    BY <1>3, <1>8
  <2>2. /\ JobFields \subseteq DOMAIN job /\ JobOK /\ job.outLobs = 0
        /\ {"rows", "offset", "chunk", "address", "size"} \subseteq DOMAIN job
        /\ job.lobs \in Seq({TempLob})
    BY <1>1, Running DEF ClientInv, HandleInv, JobOK, At
  <2>3. /\ DOMAIN job' = DOMAIN job /\ job'.op = job.op /\ job'.row = job.row /\ job'.pc = "bindArray"
        /\ job'.lobs = job.lobs /\ job'.outLobs = job.outLobs /\ job'.size = job.size
        /\ job'.rows = job.rows /\ job'.offset = next
    BY <2>1, <2>2 DEF JobFields
  <2>4. JobOK' /\ ~Idle'
    <3>1. job'.pc \in Steps[job.op]
      BY <1>1, <2>3 DEF Steps
    <3> QED
      BY <1>1, <2>2, <2>3, <3>1, JobGoes
  <2>5. Storing'
    <3>1. job'.rows \in Nat /\ job'.offset \in Nat /\ job'.offset < job'.rows /\ Len(table') = job'.offset
      BY <1>2, <1>5, <1>8, <2>3
    <3>2. job'.pc # "execute"
      BY <2>3
    <3> QED
      BY <3>1, <3>2 DEF Storing, At
  <2>6. Holds(mock', Len(job'.lobs) + job'.outLobs, Len(job'.lobs))
    BY <1>7, <2>1, <2>3
  <2>7. job'.lobs \in Seq({TempLob}) /\ job'.outLobs = 0 /\ job'.outLobs \in Nat
    BY <2>2, <2>3
  <2>8. job'.op = job.op /\ job'.pc # "bind"
    BY <2>3
  <2> QED
    BY <1>1, <1>5, <1>6, <2>1, <2>4, <2>5, <2>6, <2>7, <2>8, Goes
<1>9. CASE ~ (next < job.rows)
  <2>1. Finish(e.m, "Success") /\ UNCHANGED conn /\ Len(table') = job.rows
    BY <1>2, <1>3, <1>5, <1>9
  <2> QED
    BY <1>1, <1>5, <1>6, <1>7, <2>1, Finished
<1> QED
  BY <1>8, <1>9
(* ---- fetching ---------------------------------------------------------- *)
LEMMA FetchGoes == ASSUME ClientInv, FetchStep PROVE ClientInv'
<1> DEFINE e == Fetch(stmt, conn, StmtFetch2(mock, mem, job.size))
           d == Delivered(e)
<1>1. /\ ~Idle /\ Selecting /\ job.pc = "fetch" /\ MockOK(mock) /\ job.op # "insert"
      /\ job.size \in Nat \ {0}
  <2>1. ~Idle /\ job.op \in {"select_rows", "select_generic"} /\ job.pc = "fetch"
    BY AtStep DEF FetchStep, At, Steps
  <2>2. job.size \in BatchSizes
    BY <2>1 DEF ClientInv, JobOK
  <2>3. job.size \in Nat \ {0}
    BY <2>2, RowsAssumption DEF RowsAssumption
  <2> QED
    BY <2>1, <2>3 DEF Selecting, ClientInv
<1>2. /\ delivered' = delivered \o d.rows
      /\ UNCHANGED <<conn, table>>
      /\ IF e.result.call.status = NO_DATA THEN Finish(e.m, e.result.status)
         ELSE mock' = e.m /\ UNCHANGED <<job, result>>
  BY DEF FetchStep, LastBatch
<1>3. /\ mock.row \in 0 .. mock.total /\ Len(delivered) = mock.row /\ IsSeq(delivered)
      /\ mock.total \in Nat
  BY <1>1, RowCountAssumption DEF ClientInv, ProgressInv, MockOK
<1>4. /\ MockOK(e.m) /\ SameHandles(mock, e.m) /\ e.m.total = mock.total
      /\ e.m.fetched \in Nat /\ e.m.row = mock.row + e.m.fetched /\ e.m.row <= mock.total
      /\ e.result.call.status = NO_DATA => e.m.row = mock.total
  <2> DEFINE f == FetchRows(mock, mem, job.size)
  <2>1. e.m = f.m /\ e.result.call.status = f.rc
    BY DEF Fetch, StmtFetch2, ExecResult, CallOci
  <2> HIDE DEF e
  <2>2. /\ MockOK(f.m) /\ SameHandles(mock, f.m) /\ f.m.total = mock.total
        /\ f.m.fetched \in Nat /\ f.m.row = mock.row + f.m.fetched /\ f.m.row <= mock.total
        /\ f.rc = NO_DATA => f.m.row = mock.total
    BY <1>1, <1>3, FetchKeeps
  <2> HIDE DEF f
  <2> QED
    BY <2>1, <2>2
<1>5. IsSeq(d.rows) /\ Len(d.rows) = e.m.fetched
  <2> DEFINE memory == d.mem
  <2>1. d.rows = BatchRows(memory, e.m.fetched)
    BY DEF Delivered, RowsFetched
  <2> HIDE DEF memory, d, e
  <2> QED
    BY <1>4, <2>1, RowsIsSeq
<1> HIDE DEF d, e
<1>6. IsSeq(delivered') /\ Len(delivered') = e.m.row
  BY <1>2, <1>3, <1>4, <1>5, MoreRows
<1>7. Holds(e.m, Len(job.lobs) + job.outLobs, Len(job.lobs))
  BY <1>1, <1>4, Running, StillHolds
<1>8. IsSeq(table')
  BY <1>2 DEF ClientInv, ProgressInv
<1>9. \A k \in DOMAIN table' : table'[k] = k
  BY <1>2 DEF ClientInv, ProgressInv, SuccessIsComplete
<1>10. CASE e.result.call.status = NO_DATA
  <2>1. Finish(e.m, e.result.status) /\ UNCHANGED conn
    BY <1>2, <1>10
  <2>2. Len(delivered') = e.m.total
    BY <1>4, <1>6, <1>10
  <2> QED
    BY <1>1, <1>6, <1>7, <1>8, <1>9, <2>1, <2>2, Finished
<1>11. CASE e.result.call.status # NO_DATA
  <2>1. mock' = e.m /\ UNCHANGED <<conn, job, result>>
    BY <1>2, <1>11
  <2>2. JobOK' /\ ~Idle' /\ job'.op = job.op /\ job'.pc # "bind" /\ job'.pc = "fetch"
    BY <1>1, <2>1 DEF ClientInv, JobOK, Idle
  <2>3. job'.lobs \in Seq({TempLob}) /\ job'.outLobs \in Nat
    BY <1>1, <2>1, Running
  <2>4. Holds(mock', Len(job'.lobs) + job'.outLobs, Len(job'.lobs))
    BY <1>7, <2>1
  <2>5. mock'.row \in 0 .. mock'.total /\ Len(delivered') = mock'.row
    BY <1>3, <1>4, <1>6, <2>1
  <2> QED
    BY <1>1, <1>6, <1>8, <1>9, <2>1, <2>2, <2>3, <2>4, <2>5, Goes
<1> QED
  BY <1>10, <1>11
(* ---- a program that uses a statement itself ---------------------------- *)
LEMMA DirectGoes ==
    ASSUME ClientInv, job.op = "direct", UNCHANGED <<conn, job, delivered, table, result>>,
           MockOK(mock'), SameHandles(mock, mock')
    PROVE  ClientInv'
<1>1. ~Idle
  BY NoJobOp DEF Idle
<1>2. job.pc = "direct"
  BY <1>1 DEF ClientInv, JobOK, Steps
<1>3. JobOK' /\ ~Idle' /\ job'.op = job.op /\ job'.pc # "bind"
  BY <1>1, <1>2 DEF ClientInv, JobOK, Idle
<1>4. job'.lobs \in Seq({TempLob}) /\ job'.outLobs \in Nat /\ job'.outLobs = 0
  BY <1>1, <1>2, Running DEF ClientInv, HandleInv, At
<1>5. Holds(mock', Len(job'.lobs) + job'.outLobs, Len(job'.lobs))
  BY <1>1, Running, StillHolds
<1>6. IsSeq(delivered') /\ IsSeq(table')
  BY DEF ClientInv, ProgressInv
<1>7. \A k \in DOMAIN table' : table'[k] = k
  BY DEF ClientInv, ProgressInv, SuccessIsComplete
<1>8. ~Selecting /\ job.op # "insert"
  BY DEF Selecting
<1> QED
  BY <1>1, <1>3, <1>4, <1>5, <1>6, <1>7, <1>8, Goes
LEMMA DirectStep ==
    ASSUME ClientInv,
           \/ DirectPrepare \/ DirectBind \/ DirectOutput \/ DirectExecute \/ DirectFetch
           \/ DirectEnd
    PROVE  ClientInv'
<1>1. MockOK(mock)
  BY DEF ClientInv
<1>2. CASE DirectPrepare
  <2>1. MockOK(mock') /\ SameHandles(mock, mock')
    BY <1>1, <1>2, PrepareKeeps DEF DirectPrepare, Prepare
  <2> QED
    BY <1>2, <2>1, DirectGoes DEF DirectPrepare, Direct
<1>3. CASE DirectBind
  <2>1. MockOK(mock') /\ SameHandles(mock, mock')
    BY <1>1, <1>3, BindKeeps DEF DirectBind, BindName
  <2> QED
    BY <1>3, <2>1, DirectGoes DEF DirectBind, Direct
<1>4. CASE DirectOutput
  <2>1. MockOK(mock') /\ SameHandles(mock, mock')
    BY <1>1, <1>4, DefineKeeps DEF DirectOutput
  <2> QED
    BY <1>4, <2>1, DirectGoes DEF DirectOutput, Direct
<1>5. CASE DirectExecute
  <2>1. PICK iters \in 0 .. MaxBatch : mock' = StmtExecute(mock, mem, iters).m
    BY <1>5 DEF DirectExecute, Execute
  <2>2. MockOK(mock') /\ SameHandles(mock, mock')
    BY <1>1, <2>1, ExecuteKeeps
  <2> QED
    BY <1>5, <2>2, DirectGoes DEF DirectExecute, Direct
<1>6. CASE DirectFetch
  <2>1. PICK n \in BatchSizes : mock' = FetchRows(mock, mem, n).m
    BY <1>6 DEF DirectFetch, Fetch, StmtFetch2
  <2>2. n \in Nat \ {0}
    BY RowsAssumption DEF RowsAssumption
  <2>3. MockOK(mock') /\ SameHandles(mock, mock')
    BY <1>1, <2>1, <2>2, FetchKeeps
  <2> QED
    BY <1>6, <2>3, DirectGoes DEF DirectFetch, Direct
<1>7. CASE DirectEnd
  <2>1. ~Idle
    BY <1>7, NoJobOp DEF DirectEnd, Idle
  <2> QED
    BY <1>1, <1>7, <2>1, Fails DEF DirectEnd, SameHandles
<1> QED
  BY <1>2, <1>3, <1>4, <1>5, <1>6, <1>7
(* ---- the database, while a call runs ----------------------------------- *)
\* What it will do to a later execute touches neither the handles nor the cursor.
LEMMA FailNextKeeps ==
    ASSUME DatabaseFails, MockOK(mock)
    PROVE  /\ MockOK(mock') /\ SameHandles(mock, mock') /\ SameCursor(mock, mock')
           /\ mock'.defines = mock.defines
<1>1. PICK mode \in Modes : mock' = [mock EXCEPT !.mode = mode, !.left = 1]
  BY DEF DatabaseFails, FailNext, SetMode
<1> QED
  BY <1>1, MockFields DEF MockOK, SameHandles, SameCursor
LEMMA DatabaseFailsStep == ASSUME ClientInv, DatabaseFails PROVE ClientInv'
<1>1. /\ MockOK(mock') /\ SameHandles(mock, mock') /\ SameCursor(mock, mock')
      /\ UNCHANGED <<conn, job, delivered, table, result>> /\ job.pc \in {"execute", "direct"}
  BY FailNextKeeps DEF DatabaseFails, At, ClientInv
<1>2. ~Idle
  BY <1>1, NoJobOp DEF Idle
<1>3. JobOK' /\ ~Idle' /\ job'.op = job.op /\ job'.pc \notin {"bind", "fetch"}
  BY <1>1, <1>2 DEF ClientInv, JobOK, Idle
<1>4. job'.lobs \in Seq({TempLob}) /\ job'.outLobs \in Nat /\ job'.outLobs = 0
  BY <1>1, <1>2, Running DEF ClientInv, HandleInv, At
<1>5. Holds(mock', Len(job'.lobs) + job'.outLobs, Len(job'.lobs))
  BY <1>1, <1>2, Running, StillHolds
<1>6. IsSeq(delivered') /\ IsSeq(table') /\ \A k \in DOMAIN table' : table'[k] = k
  BY <1>1 DEF ClientInv, ProgressInv, SuccessIsComplete
<1>7. Selecting => mock'.row \in 0 .. mock'.total /\ Len(delivered') = mock'.row
  BY <1>1 DEF ClientInv, ProgressInv, SameCursor
<1>8. job.op = "insert" => Storing'
  BY <1>1 DEF ClientInv, ProgressInv, Storing, At
<1> QED
  BY <1>1, <1>2, <1>3, <1>4, <1>5, <1>6, <1>7, <1>8, Goes
(* ---- every step -------------------------------------------------------- *)
LEMMA NextStep == ASSUME ClientInv, Next PROVE ClientInv'
  BY OpenStep, CloseStep, SetFailureStep, CallStep, BindGoes, SetPrefetchGoes, BindArrayGoes,
     DefineGoes, DefineGenericGoes, OutputsGoes, ExecuteGoes, InsertGoes, FetchGoes,
     FetchLostFails, CallbackFails, DirectStep, DatabaseFailsStep, Zenon DEF Next
LEMMA ClientStutters == ASSUME ClientInv, UNCHANGED vars PROVE ClientInv'
<1> USE DEF vars
<1>1. MockOK(mock') /\ JobOK' /\ HandleInv'
  BY DEF ClientInv, JobOK, HandleInv, Idle, At
<1>2. ProgressInv'
  BY DEF ClientInv, ProgressInv, SuccessIsComplete, Storing, Selecting, Idle, At
<1> QED
  BY <1>1, <1>2 DEF ClientInv
\* The client at every moment: the globals of OCI are well formed, a running call
\* is at one of its operation's steps, it holds its statement and its locators and
\* the session holds its three handles, and what the call has handed over or stored
\* is what its cursor or its offset says (oci_client.h, all calls).
THEOREM ClientInvariant == Spec => []ClientInv
<1>1. ClientInv /\ [Next]_vars => ClientInv'
  BY NextStep, ClientStutters
<1> QED
  BY InitClient, <1>1, PTL DEF Spec
\* Whatever a call returns, and also when its callback throws, its statement and
\* locators are freed exactly once and nothing outlives the environment
\* (OciHandleGuard, OCILob, disconnect), for any row type, description of columns,
\* batch size and number of failures.
THEOREM HandlesFreed == Spec => []NothingOutlivesItsEnv
<1>1. ClientInv => NothingOutlivesItsEnv
  BY SessionKinds DEF ClientInv, HandleInv, NothingOutlivesItsEnv, Kinds, Session
<1> QED
  BY <1>1, ClientInvariant, PTL
\* A select that reports success has handed over as many rows as the result has,
\* however they fall into batches; the rows an insert has stored are its first ones,
\* each once and in order, however they fall into chunks, and all of them when it
\* reports success (insert_rows, the exit of the fetch loop).
THEOREM SuccessMeansDone == Spec => []SuccessIsComplete
<1>1. ClientInv => SuccessIsComplete
  BY DEF ClientInv, ProgressInv
<1> QED
  BY <1>1, ClientInvariant, PTL
(* ---- the rows ---------------------------------------------------------- *)

\* The fields of a running call's struct.
LEMMA JobRowOK == ASSUME ClientInv, ~Idle PROVE StructOK(job.row)
<1>1. job.row \in RowTypes \cup {<<>>, <<[name |-> "a", kind |-> "opt"]>>}
  BY DEF ClientInv, JobOK
<1>2. CASE job.row = <<[name |-> "a", kind |-> "opt"]>>
  BY <1>2 DEF StructOK, Kind
<1> QED
  BY <1>1, <1>2, RowTypeOK, NoFieldsOK
\* The position a field is given is the first column of its name, and no two fields
\* get one position.
LEMMA Resolved ==
    ASSUME MockOK(mock), NEW row, StructOK(row),
           NEW positions, positions = ResolveColumnPositions(mock, row),
           \A f \in DOMAIN positions : positions[f] # 0
    PROVE  /\ \A f \in 1 .. Len(row) : positions[f] \in Nat \ {0} /\ positions[f] = ColumnFor(row, f)
           /\ \A f, g \in 1 .. Len(row) : positions[f] = positions[g] => f = g
<1> DEFINE n == Len(mock.columns)
<1>1. n \in Nat /\ DOMAIN mock.columns = 1 .. n /\ (n = 0 <=> mock.columns = <<>>) /\ ParamCount(mock) = n
  BY ColumnsOK DEF ParamCount
<1> HIDE DEF n
<1>2. CASE n = 0
  <2>1. positions = [f \in 1 .. Len(row) |-> f]
    BY <1>1, <1>2 DEF ResolveColumnPositions
  <2>2. \A f \in 1 .. Len(row) : positions[f] = f /\ ColumnFor(row, f) = f
    BY <1>1, <1>2, <2>1 DEF ColumnFor
  <2> QED
    BY <2>2 DEF StructOK
<1>3. CASE n # 0
  <2>1. /\ DOMAIN positions = 1 .. Len(row)
        /\ \A f \in 1 .. Len(row) : positions[f] = DescribeColumnPosition(mock, row[f].name)
    BY <1>1, <1>3 DEF ResolveColumnPositions
  <2>2. ASSUME NEW f \in 1 .. Len(row)
        PROVE  /\ positions[f] \in 1 .. n /\ positions[f] = ColumnFor(row, f)
               /\ mock.columns[positions[f]].name = row[f].name
    <3> DEFINE ps == {p \in 1 .. n : mock.columns[p].name = row[f].name}
               First(p) == p \in ps /\ \A q \in ps : p <= q
               Column(p) == /\ p \in 1 .. n /\ mock.columns[p].name = row[f].name
                            /\ \A q \in 1 .. p - 1 : mock.columns[q].name # row[f].name
    <3>1. positions[f] = IF ps = {} THEN 0 ELSE CHOOSE p \in ps : \A q \in ps : p <= q
      BY <1>1, <2>1 DEF DescribeColumnPosition
    <3>2. ps # {} /\ ps \subseteq Nat
      BY <2>1, <3>1
    <3>3. \E p : First(p)
      <4> HIDE DEF ps
      <4> QED
        BY <3>2, LeastOf
    <3>4. positions[f] = CHOOSE p : First(p)
      BY <3>1, <3>2
    <3>5. First(positions[f])
      <4> HIDE DEF First
      <4> QED
        BY <3>3, <3>4
    <3>6. Column(positions[f])
      <4>1. positions[f] \in 1 .. n /\ mock.columns[positions[f]].name = row[f].name
        BY <3>5
      <4>2. ASSUME NEW q \in 1 .. positions[f] - 1, mock.columns[q].name = row[f].name PROVE FALSE
        <5>1. q \in 1 .. n /\ q < positions[f]
          BY <1>1, <4>1
        <5>2. q \in ps
          BY <4>2, <5>1
        <5>3. positions[f] <= q
          BY <3>5, <5>2
        <5> QED
          BY <1>1, <4>1, <5>1, <5>3
      <4> QED
        BY <4>1, <4>2
    <3>7. \A p : Column(p) => p = positions[f]
      <4> SUFFICES ASSUME NEW p, Column(p) PROVE p = positions[f]
        OBVIOUS
      <4>1. p \in ps /\ positions[f] <= p /\ positions[f] \in 1 .. n
        BY <3>5
      <4> QED
        BY <3>5, <4>1
    <3>8. ColumnFor(row, f) = CHOOSE p : Column(p)
      BY <1>1, <1>3 DEF ColumnFor
    <3>9. ColumnFor(row, f) = positions[f]
      <4> HIDE DEF Column
      <4> QED
        BY <3>6, <3>7, <3>8
    <3> QED
      BY <3>6, <3>9
  <2>3. \A f, g \in 1 .. Len(row) : positions[f] = positions[g] => f = g
    BY <2>2 DEF StructOK
  <2> QED
    BY <2>2, <2>3
<1> QED
  BY <1>1, <1>2, <1>3

\* What each field wants defined, and the loop that defines it.
LEMMA WantsFit == ASSUME NEW row, StructOK(row) PROVE WantsOK(DefinesOf(row), Len(row))
<1>1. Len(row) \in Nat /\ DOMAIN DefinesOf(row) = 1 .. Len(row)
  BY DEF StructOK, DefinesOf
<1>2. ASSUME NEW f \in 1 .. Len(row)
      PROVE  LET d == DefinesOf(row)[f]
             IN  /\ DOMAIN d = {"area", "field", "type", "stride", "ind"}
                 /\ d.area \in {"batch", "stage"} /\ d.field = f
                 /\ d.type \in Written /\ d.ind \in BOOLEAN
  <2> DEFINE kind == row[f].kind
             d == DefineOneColumn(f, kind)
  <2>1. kind \in Kind /\ DefinesOf(row)[f] = d
    BY DEF StructOK, DefinesOf
  <2> HIDE DEF kind
  <2>2. /\ DOMAIN d = {"area", "field", "type", "stride", "ind"}
        /\ d.area = AreaOf(kind) /\ d.field = f /\ d.type = TypeCode(kind)
        /\ d.ind = HasIndicator(kind)
    BY DEF DefineOneColumn
  <2>3. /\ AreaOf(kind) \in {"batch", "stage"} /\ TypeCode(kind) \in Written
        /\ HasIndicator(kind) \in BOOLEAN
    BY <2>1 DEF AreaOf, TypeCode, Written, Kind, HasIndicator
  <2> HIDE DEF d
  <2> QED
    BY <2>1, <2>2, <2>3
<1> QED
  BY <1>1, <1>2 DEF WantsOK

LEMMA ColumnsPlaced ==
    ASSUME NEW m, MockOK(m), m.defines = <<>>, NEW row, StructOK(row), NEW positions,
           \A f \in 1 .. Len(row) : positions[f] \in Nat \ {0},
           \A f, g \in 1 .. Len(row) : positions[f] = positions[g] => f = g
    PROVE  Placed(DefineColumns(m, row, positions).defines, DefinesOf(row), positions)
<1> DEFINE n == Len(row)
           ds == DefinesOf(row)
<1>1. n \in Nat /\ Len(ds) = n /\ DefineColumns(m, row, positions) = BindOutputs(m, positions, ds)
  BY DEF StructOK, DefineColumns, DefinesOf
<1>2. WantsOK(ds, n)
  BY WantsFit
<1>3. \A x, i : i \in 1 .. n => BindOutput(x, positions[i], ds[i]) = Strided(x, positions[i], ds[i])
  BY DEF BindOutput, Strided, DefinesOf, DefineOneColumn
<1>4. \E g : /\ BindOutputs(m, positions, ds) = g[n] /\ g[0] = m
             /\ \A i \in 1 .. n : g[i] = BindOutput(g[i - 1], positions[i], ds[i])
  <2> HIDE DEF n, ds
  <2> QED
    BY <1>1, OutputLoop
<1> HIDE DEF n, ds
<1>5. PICK g : /\ BindOutputs(m, positions, ds) = g[n] /\ g[0] = m
               /\ \A i \in 1 .. n : g[i] = BindOutput(g[i - 1], positions[i], ds[i])
  BY ONLY <1>4
<1>6. DefinedOneByOne(g, m, ds, positions, n)
  BY <1>3, <1>5 DEF DefinedOneByOne
<1>7. /\ \A f \in 1 .. n : positions[f] \in Nat \ {0}
      /\ \A f, h \in 1 .. n : positions[f] = positions[h] => f = h
  BY DEF n
<1>8. Placed(g[n].defines, ds, positions)
  BY ONLY MockOK(m), m.defines = <<>>, <1>2, <1>6, <1>7, DefinesPlaced
<1> QED
  BY <1>1, <1>5, <1>8 DEF ds

\* The applied values stand in the batch.
LEMMA ApplyOK ==
    ASSUME NEW memory, NEW row, StructOK(row), Cells(memory, Len(row)), NEW n \in Nat
    PROVE  /\ Cells(ApplyColumns(memory, row, n), Len(row))
           /\ \A f \in 1 .. Len(row), s \in Slots :
                s < n => ApplyColumns(memory, row, n).batch[f][s] = ApplyOneColumn(memory, f, row[f].kind, s)
<1> DEFINE after == ApplyColumns(memory, row, n)
<1>1. /\ DOMAIN memory = {"batch", "stage", "ind"} /\ DOMAIN row = 1 .. Len(row)
      /\ DOMAIN memory.batch = 1 .. Len(row) /\ \A f \in 1 .. Len(row) : DOMAIN memory.batch[f] = Slots
      /\ \A f \in 1 .. Len(row) : row[f].kind \in Kind
  BY DEF Cells, StructOK
<1>2. CASE ~NeedsApply(row)
  <2>1. after = memory
    BY <1>2 DEF ApplyColumns
  <2>2. ASSUME NEW f \in 1 .. Len(row), NEW s \in Slots
        PROVE  ApplyOneColumn(memory, f, row[f].kind, s) = memory.batch[f][s]
    <3>1. ~HasIndicator(row[f].kind)
      BY <1>1, <1>2 DEF NeedsApply
    <3>2. row[f].kind # "opt" /\ row[f].kind # "lob"
      BY <3>1 DEF HasIndicator
    <3> QED
      BY <3>1, <3>2 DEF ApplyOneColumn
  <2> HIDE DEF after
  <2> QED
    BY <2>1, <2>2 DEF after
<1>3. CASE NeedsApply(row)
  <2> DEFINE cell(f, s) == IF s < n THEN ApplyOneColumn(memory, f, row[f].kind, s) ELSE memory.batch[f][s]
             cells == [f \in DOMAIN memory.batch |-> [s \in Slots |-> cell(f, s)]]
  <2>1. after = [memory EXCEPT !.batch = cells]
    BY <1>3 DEF ApplyColumns
  <2> HIDE DEF cell, after
  <2>2. DOMAIN cells = 1 .. Len(row)
        /\ \A f \in 1 .. Len(row) : DOMAIN cells[f] = Slots /\ \A s \in Slots : cells[f][s] = cell(f, s)
    BY <1>1
  <2> HIDE DEF cells
  <2>3. DOMAIN after = DOMAIN memory /\ after.batch = cells /\ after.stage = memory.stage
        /\ after.ind = memory.ind
    BY <1>1, <2>1
  <2>4. Cells(after, Len(row))
    BY <2>2, <2>3 DEF Cells
  <2>5. \A f \in 1 .. Len(row), s \in Slots : s < n => after.batch[f][s] = ApplyOneColumn(memory, f, row[f].kind, s)
    BY <2>2, <2>3 DEF cell
  <2> QED
    BY <2>4, <2>5 DEF after
<1> QED
  BY <1>2, <1>3
\* What a field that was filled reads as: its column's value, or nothing at all.
LEMMA ReadsAsSent ==
    ASSUME NEW m, NEW memory, NEW row, NEW positions, NEW f, NEW s, NEW k, StructOK(row), f \in 1 .. Len(row),
           Filled(m, memory, DefinesOf(row), positions, f, s, k)
    PROVE  LET v == ApplyOneColumn(memory, f, row[f].kind, s)
           IN  /\ IsNull(m, positions[f], k) /\ HasIndicator(row[f].kind) => v = NoValue
               /\ ~IsNull(m, positions[f], k) => v = <<k, positions[f]>>
<1> DEFINE kind == row[f].kind
           v == ApplyOneColumn(memory, f, kind, s)
<1>0. /\ kind \in Kind
      /\ ~IsNull(m, positions[f], k) => memory[AreaOf(kind)][f][s] = <<k, positions[f]>>
      /\ HasIndicator(kind) => (memory.ind[f][s] = "null" <=> IsNull(m, positions[f], k))
  <2>1. DefinesOf(row)[f].area = AreaOf(kind) /\ DefinesOf(row)[f].ind = HasIndicator(kind)
    BY DEF DefinesOf, DefineOneColumn
  <2> QED
    BY <2>1 DEF Filled, StructOK
<1> HIDE DEF kind
<1>1. ASSUME IsNull(m, positions[f], k), HasIndicator(kind) PROVE v = NoValue
  <2>1. memory.ind[f][s] = "null"
    BY <1>0, <1>1
  <2> QED
    BY <1>1, <2>1 DEF ApplyOneColumn
<1>2. ASSUME ~IsNull(m, positions[f], k) PROVE v = <<k, positions[f]>>
  <2>1. memory[AreaOf(kind)][f][s] = <<k, positions[f]>> /\ (HasIndicator(kind) => memory.ind[f][s] # "null")
    BY <1>0, <1>2
  <2> DEFINE w == <<k, positions[f]>>
  <2>2. memory[AreaOf(kind)][f][s] = w
    BY <2>1
  <2> HIDE DEF w
  <2>3. CASE kind = "int"
    <3>1. ~HasIndicator(kind) /\ AreaOf(kind) = "batch" /\ kind # "opt" /\ kind # "lob"
      BY <2>3 DEF HasIndicator, AreaOf, NeedsStaging
    <3>2. v = memory.batch[f][s]
      BY <3>1 DEF ApplyOneColumn
    <3> QED
      BY <2>1, <3>1, <3>2
  <2>4. CASE kind = "fixed"
    BY <2>1, <2>2, <2>4 DEF ApplyOneColumn, HasIndicator, AreaOf, NeedsStaging
  <2>5. CASE kind = "opt"
    BY <2>1, <2>2, <2>5 DEF ApplyOneColumn, HasIndicator, AreaOf, NeedsStaging
  <2>6. CASE kind = "lob"
    BY <2>1, <2>2, <2>6 DEF ApplyOneColumn, HasIndicator, AreaOf, NeedsStaging, LobRead
  <2> QED
    BY <1>0, <2>3, <2>4, <2>5, <2>6 DEF Kind, w
<1> QED
  BY <1>1, <1>2 DEF kind
(* ---- what is handed over ----------------------------------------------- *)
LEMMA OtherRows == ASSUME job'.op # "select_rows" PROVE RowsInv'
  BY DEF RowsInv
LEMMA FinishedRows == ASSUME NEW m, NEW status, Finish(m, status) PROVE RowsInv'
<1>1. job' = NoJob
  BY DEF Finish
<1> QED
  BY <1>1, NoJobOp, OtherRows
\* A step before the first fetch that leaves the batch and the defines.
LEMMA RowsStay ==
    ASSUME RowsInv, job'.op = job.op, job'.row = job.row, job.pc # "fetch", job'.pc # "fetch",
           job.op = "select_rows" => mem' = mem /\ mock'.defines = mock.defines
    PROVE  RowsInv'
<1>1. CASE job.op = "select_rows"
  BY <1>1 DEF RowsInv, At
<1>2. CASE job.op # "select_rows"
  BY <1>2 DEF RowsInv
<1> QED
  BY <1>1, <1>2
LEMMA BegunRows ==
    ASSUME NEW call, NEW first, Begin(call, first), CallOK(call), first # "fetch", MockOK(mock)
    PROVE  RowsInv'
<1>1. RecordOf(job', call, first)
  BY JobBegun DEF Begin
<1>2. job'.op = call.op /\ job'.row = call.row /\ job'.pc = first
  BY <1>1 DEF RecordOf, CallOK
<1>3. mem' = FreshMem(Len(job'.row))
  BY <1>2 DEF Begin
<1>4. CASE call.op = "select_rows"
  <2>1. PICK total \in 0 .. RowCount : mock' = StmtPrepare(Answer(HandleAlloc(mock, "STMT"), total))
    BY <1>4 DEF Begin, GuardNew, Prepare
  <2> DEFINE got == HandleAlloc(mock, "STMT")
             m == Answer(got, total)
  <2>2. MockOK(got)
    BY AllocOne DEF Kinds
  <2> HIDE DEF got
  <2>3. MockOK(m)
    BY <2>2, MockFields DEF MockOK, Answer
  <2> HIDE DEF m
  <2>4. mock'.defines = <<>>
    BY <2>1, <2>3, PrepareKeeps DEF m, got
  <2>5. Cells(mem', Len(job'.row))
    BY <1>3, FreshCells
  <2> QED
    BY <1>2, <2>4, <2>5 DEF RowsInv, At
<1>5. CASE call.op # "select_rows"
  BY <1>2, <1>5, OtherRows
<1> QED
  BY <1>4, <1>5
LEMMA CallRows ==
    ASSUME ClientInv,
           \/ ExecuteSql \/ ExecuteParams \/ SelectRows \/ SelectRowsWhere \/ SelectOne
           \/ SelectGeneric \/ InsertRows \/ DirectUse
    PROVE  RowsInv'
<1> USE DEF CallOK
<1>0. MockOK(mock)
  BY DEF ClientInv
<1>1. CASE ExecuteSql
  BY <1>0, <1>1, BegunRows DEF ExecuteSql
<1>2. CASE ExecuteParams
  BY <1>0, <1>2, BegunRows DEF ExecuteParams
<1>3. CASE SelectRows
  BY <1>0, <1>3, BegunRows DEF SelectRows
<1>4. CASE SelectRowsWhere
  BY <1>0, <1>4, BegunRows DEF SelectRowsWhere
<1>5. CASE SelectOne
  BY <1>0, <1>5, BegunRows DEF SelectOne
<1>6. CASE SelectGeneric
  BY <1>0, <1>6, BegunRows DEF SelectGeneric
<1>7. CASE InsertRows
  BY <1>0, <1>7, BegunRows DEF InsertRows
<1>8. CASE DirectUse
  BY <1>0, <1>8, BegunRows DEF DirectUse
<1> QED
  BY <1>1, <1>2, <1>3, <1>4, <1>5, <1>6, <1>7, <1>8
\* The steps of a select before its columns are defined, and those of other calls.
LEMMA BindRows == ASSUME ClientInv, RowsInv, BindStep PROVE RowsInv'
<1>1. ~Idle /\ job.op \in {"execute", "select_rows"} /\ job.pc = "bind" /\ MockOK(mock) /\ JobFields \subseteq DOMAIN job
  BY AtStep DEF BindStep, Steps, At, ClientInv
<1> DEFINE b == BindParams(stmt, mock, job.row, job.inputs)
           next == IF job.op = "execute" THEN "execute" ELSE "setPrefetch"
<1>2. Bound(mock, b)
  BY <1>1, RowIsSeq, ParamsKeep
<1>3. mock' = b.m /\ job' = [job EXCEPT !.lobs = b.lobs, !.pc = next] /\ mem' = mem
  BY DEF BindStep
<1>4. next # "fetch"
  OBVIOUS
<1> HIDE DEF b, next
<1>5. job'.op = job.op /\ job'.row = job.row /\ job'.pc = next
  BY <1>1, <1>3 DEF JobFields
<1>6. mock'.defines = mock.defines
  BY <1>2, <1>3 DEF Bound
<1> QED
  BY <1>1, <1>3, <1>4, <1>5, <1>6, RowsStay
LEMMA SetPrefetchRows == ASSUME ClientInv, RowsInv, SetPrefetchStep PROVE RowsInv'
<1>1. job.pc = "setPrefetch" /\ JobFields \subseteq DOMAIN job
  BY AtStep DEF SetPrefetchStep, At
<1>2. job'.op = job.op /\ job'.row = job.row /\ job'.pc = "execute" /\ mem' = mem /\ mock' = mock
  BY <1>1 DEF SetPrefetchStep, Goto, JobFields
<1> QED
  BY <1>1, <1>2, RowsStay
LEMMA OtherCallRows ==
    ASSUME ClientInv, BindArrayStep \/ OutputsStep \/ InsertChunkStep \/ DefineGenericStep
    PROVE  RowsInv' /\ job.op # "select_rows"
<1>1. ~Idle /\ job.op # "select_rows" /\ JobFields \subseteq DOMAIN job
  <2>1. job.pc # "idle"
    BY DEF BindArrayStep, OutputsStep, InsertChunkStep, DefineGenericStep, At
  <2>2. ~Idle
    BY <2>1, NoJobOp DEF Idle
  <2>3. JobFields \subseteq DOMAIN job /\ job.op \in DOMAIN Steps /\ job.pc \in Steps[job.op]
    BY <2>2, Running
  <2>4. job.pc \in {"bindArray", "outputs"} \/ job.op \in {"insert", "select_generic"}
    BY DEF BindArrayStep, OutputsStep, InsertChunkStep, DefineGenericStep, At
  <2> QED
    BY <2>2, <2>3, <2>4 DEF Steps
<1>2. CASE BindArrayStep
  <2>1. job'.op = job.op
    BY <1>1, <1>2 DEF BindArrayStep, JobFields
  <2> QED
    BY <1>1, <2>1, OtherRows
<1>3. CASE OutputsStep
  <2>1. job'.op = job.op
    BY <1>1, <1>3 DEF OutputsStep, Goto, JobFields
  <2> QED
    BY <1>1, <2>1, OtherRows
<1>4. CASE InsertChunkStep
  <2>1. job'.op = job.op \/ job'.op = "none"
    BY <1>1, <1>4, NoJobOp DEF InsertChunkStep, Finish, JobFields
  <2> QED
    BY <1>1, <2>1, OtherRows
<1>5. CASE DefineGenericStep
  <2>1. job'.op = job.op \/ job'.op = "none"
    BY <1>1, <1>5, NoJobOp DEF DefineGenericStep, Finish, JobFields
  <2> QED
    BY <1>1, <2>1, OtherRows
<1> QED
  BY <1>1, <1>2, <1>3, <1>4, <1>5
LEMMA ExecuteRows == ASSUME ClientInv, RowsInv, ExecuteStep PROVE RowsInv'
<1>1. ~Idle /\ job.pc = "execute" /\ MockOK(mock) /\ JobFields \subseteq DOMAIN job
  BY AtStep DEF ExecuteStep, ClientInv, At
<1> DEFINE e == Execute(stmt, conn, mock, mem, Iters)
<1>2. PICK columns :
         \/ ExecuteFails(e)
         \/ mem' = e.mem /\ mock' = Describe(e.m, columns) /\ Goto("define")
         \/ Finish(e.m, "Success")
  BY DEF ExecuteStep
<1>3. CASE ExecuteFails(e)
  BY <1>3, FinishedRows DEF ExecuteFails
<1>4. CASE Finish(e.m, "Success")
  BY <1>4, FinishedRows
<1>5. CASE mem' = e.mem /\ mock' = Describe(e.m, columns) /\ Goto("define")
  <2>1. job'.op = job.op /\ job'.row = job.row /\ job'.pc = "define"
    BY <1>1, <1>5 DEF Goto, JobFields
  <2>2. ASSUME job.op = "select_rows" PROVE mem' = mem /\ mock'.defines = mock.defines
    <3>1. Iters = 0
      BY <2>2 DEF Iters
    <3> DEFINE c == StmtExecute(mock, mem, 0)
    <3>2. e.mem = c.mem /\ e.m = c.m
      BY <3>1 DEF Execute
    <3> HIDE DEF e
    <3>3. c.mem = mem /\ c.m.defines = mock.defines /\ MockOK(c.m)
      BY <1>1, ExecuteNone, ExecuteKeeps
    <3> HIDE DEF c
    <3> QED
      BY <1>5, <3>2, <3>3, MockFields DEF Describe, MockOK
  <2> QED
    BY <1>1, <2>1, <2>2, RowsStay
<1> QED
  BY <1>2, <1>3, <1>4, <1>5
\* Defining the columns by name.
LEMMA DefineRows == ASSUME ClientInv, RowsInv, DefineStep PROVE RowsInv'
<1>1. /\ ~Idle /\ job.op = "select_rows" /\ job.pc = "define" /\ MockOK(mock)
      /\ JobFields \subseteq DOMAIN job /\ StructOK(job.row)
  BY AtStep, JobRowOK DEF DefineStep, At, ClientInv
<1> DEFINE row == job.row
           positions == ResolveColumnPositions(mock, row)
           defined == DefineColumns(mock, row, positions)
           staged == StagedLobs(row, job.size)
<1>2. CASE \E f \in DOMAIN positions : positions[f] = 0
  BY <1>2, FinishedRows DEF DefineStep
<1>3. CASE ~ \E f \in DOMAIN positions : positions[f] = 0
  <2>1. /\ mock' = [defined EXCEPT !.live["LOB"] = @ + staged] /\ mem' = mem
        /\ job' = [job EXCEPT !.positions = positions, !.outLobs = staged, !.pc = "fetch"]
    BY <1>3 DEF DefineStep
  <2>2. MockOK(defined) /\ defined.columns = mock.columns
    <3>1. Len(DefinesOf(row)) \in Nat
      BY <1>1, RowIsSeq DEF DefinesOf
    <3> QED
      BY <1>1, <3>1, OutputsKeep DEF DefineColumns
  <2>3. \A f \in DOMAIN positions : positions[f] # 0
    BY <1>3
  <2>4. mock.defines = <<>> /\ Cells(mem, Len(row))
    BY <1>1 DEF RowsInv, At
  <2> HIDE DEF defined, staged, positions
  <2>5. /\ \A f \in 1 .. Len(row) : positions[f] \in Nat \ {0} /\ positions[f] = ColumnFor(row, f)
        /\ \A f, g \in 1 .. Len(row) : positions[f] = positions[g] => f = g
    <3>1. positions = ResolveColumnPositions(mock, row) /\ StructOK(row)
      BY <1>1 DEF positions
    <3> HIDE DEF row
    <3> QED
      BY <1>1, <2>3, <3>1, Resolved
  <2>6. Placed(defined.defines, DefinesOf(row), positions)
    <3>1. StructOK(row) /\ defined = DefineColumns(mock, row, positions)
      BY <1>1 DEF defined
    <3> HIDE DEF row
    <3> QED
      BY <1>1, <2>4, <2>5, <3>1, ColumnsPlaced
  <2>7. mock'.defines = defined.defines /\ mock'.columns = mock.columns
    BY <2>1, <2>2, MockFields DEF MockOK
  <2>8. job'.op = job.op /\ job'.row = row /\ job'.pc = "fetch" /\ job'.positions = positions
    BY <1>1, <2>1 DEF JobFields
  <2>9. \A f : ColumnFor(row, f)' = ColumnFor(row, f)
    BY <2>7, <2>8 DEF ColumnFor
  <2>10. Cells(mem', Len(job'.row)) /\ Placed(mock'.defines, DefinesOf(row), job'.positions)
    BY <2>1, <2>4, <2>6, <2>7, <2>8
  <2>11. \A f \in 1 .. Len(job'.row) : job'.positions[f] = ColumnFor(job.row, f)'
    BY <2>5, <2>8, <2>9
  <2>12. DefinesOf(job.row)' = DefinesOf(row)
    BY <2>8 DEF DefinesOf
  <2> QED
    BY <2>8, <2>10, <2>11, <2>12 DEF RowsInv, At
<1> QED
  BY <1>2, <1>3
\* The rows a fetch hands over: each field from its own column, in the row the cursor
\* was at.
LEMMA FetchRowsGo == ASSUME ClientInv, RowsInv, FetchStep PROVE RowsInv' /\ RowsSent
<1>1. /\ ~Idle /\ Selecting /\ job.pc = "fetch" /\ MockOK(mock) /\ job.size \in BatchSizes
      /\ mock.row \in 0 .. mock.total /\ Len(delivered) = mock.row /\ IsSeq(delivered)
      /\ mock.row \in Nat
  <2>1. ~Idle /\ job.op \in {"select_rows", "select_generic"} /\ job.pc = "fetch"
    BY AtStep DEF FetchStep, At, Steps
  <2> QED
    BY <2>1 DEF Selecting, ClientInv, JobOK, ProgressInv
<1>2. CASE job.op # "select_rows"
  <2>1. job'.op # "select_rows"
    BY <1>2, NoJobOp DEF FetchStep, Finish
  <2> QED
    BY <1>2, <2>1, OtherRows DEF RowsSent
<1>3. CASE job.op = "select_rows"
  <2> DEFINE e == Fetch(stmt, conn, StmtFetch2(mock, mem, job.size))
             d == Delivered(e)
             row == job.row
             positions == job.positions
             fetch == FetchRows(mock, mem, job.size)
  <2>1. e.m = fetch.m /\ e.mem = fetch.mem
    BY DEF Fetch, StmtFetch2
  <2>2. /\ d.mem = ApplyColumns(e.mem, row, e.m.fetched)
        /\ d.rows = BatchRows(d.mem, e.m.fetched)
    BY <1>3 DEF Delivered, RowsFetched
  <2>3. /\ delivered' = delivered \o d.rows
        /\ \/ \E status : Finish(e.m, status)
           \/ mock' = e.m /\ mem' = d.mem /\ job' = job
    BY DEF FetchStep
  <2>4. /\ StructOK(row) /\ Cells(mem, Len(row)) /\ Placed(mock.defines, DefinesOf(row), positions)
        /\ \A f \in 1 .. Len(row) : positions[f] = ColumnFor(row, f)
    BY <1>1, <1>3, JobRowOK DEF RowsInv, At
  <2>5. /\ fetch.m.defines = mock.defines /\ fetch.m.columns = mock.columns
        /\ fetch.m.fetched \in Nat /\ fetch.m.fetched <= MaxBatch
        /\ Cells(fetch.mem, Len(row))
        /\ \A j \in 0 .. fetch.m.fetched - 1 : \A g \in 1 .. Len(row) :
             Filled(mock, fetch.mem, DefinesOf(row), positions, g, j, mock.row + j)
    <3> HIDE DEF row, positions, e, d
    <3>1. WantsOK(DefinesOf(row), Len(row))
      BY <2>4, WantsFit
    <3> DEFINE wants == DefinesOf(row)
               len == Len(row)
    <3>2. WantsOK(wants, len) /\ Placed(mock.defines, wants, positions) /\ Cells(mem, len)
      BY <2>4, <3>1
    <3> HIDE DEF wants, len
    <3>3. LET f == FetchRows(mock, mem, job.size)
          IN  /\ f.m.defines = mock.defines /\ f.m.columns = mock.columns
              /\ f.m.fetched \in Nat /\ f.m.fetched <= MaxBatch
              /\ Cells(f.mem, len)
              /\ \A j \in 0 .. f.m.fetched - 1 : \A g \in 1 .. len :
                   Filled(mock, f.mem, wants, positions, g, j, mock.row + j)
      BY ONLY <1>1, <3>2, BatchFilled
    <3> QED
      BY <3>3 DEF wants, len
  <2> DEFINE n == e.m.fetched
             memory == e.mem
             after == d.mem
  <2>6. /\ e.m.defines = mock.defines /\ e.m.columns = mock.columns /\ n \in Nat /\ n <= MaxBatch
        /\ Cells(memory, Len(row))
        /\ \A j \in 0 .. n - 1 : \A g \in 1 .. Len(row) :
             Filled(mock, memory, DefinesOf(row), positions, g, j, mock.row + j)
    BY <2>1, <2>5
  <2> HIDE DEF fetch, e, d, row, positions, n, memory, after
  <2>7. after = ApplyColumns(memory, row, n) /\ d.rows = BatchRows(after, n)
    BY <2>2 DEF after, n, memory
  <2>8. /\ Cells(after, Len(row))
        /\ \A f \in 1 .. Len(row), s \in Slots :
             s < n => after.batch[f][s] = ApplyOneColumn(memory, f, row[f].kind, s)
    BY <2>4, <2>6, <2>7, ApplyOK
  <2>9. RowsInv'
    <3>1. ASSUME NEW status, Finish(e.m, status) PROVE RowsInv'
      BY <3>1, FinishedRows
    <3>2. ASSUME mock' = e.m, mem' = d.mem, job' = job PROVE RowsInv'
      <4>1. mock'.defines = mock.defines /\ mock'.columns = mock.columns
        BY <2>6, <3>2
      <4>2. job'.row = row /\ job'.positions = positions /\ job'.pc = "fetch" /\ mem' = after
        BY <1>1, <3>2 DEF row, positions, after
      <4>3. \A f : ColumnFor(row, f)' = ColumnFor(row, f)
        BY <3>2, <4>1 DEF ColumnFor, row
      <4>4. Cells(mem', Len(job'.row)) /\ Placed(mock'.defines, DefinesOf(row), job'.positions)
        BY <2>4, <2>8, <4>1, <4>2
      <4>5. \A f \in 1 .. Len(job'.row) : job'.positions[f] = ColumnFor(job.row, f)'
        BY <2>4, <4>2, <4>3 DEF row
      <4>6. DefinesOf(job.row)' = DefinesOf(row)
        BY <4>2 DEF DefinesOf
      <4> QED
        BY <4>2, <4>4, <4>5, <4>6 DEF RowsInv, At
    <3> QED
      BY <2>3, <3>1, <3>2
  <2>10. IsSeq(d.rows) /\ Len(d.rows) = n
    BY <2>6, <2>7, RowsIsSeq
  <2>11. /\ Len(delivered') = mock.row + n
         /\ \A i \in 1 .. mock.row + n :
              delivered'[i] = IF i <= mock.row THEN delivered[i] ELSE d.rows[i - mock.row]
    BY <1>1, <2>3, <2>10, MoreRows
  <2>12. DOMAIN after.batch = 1 .. Len(row) /\ DOMAIN row = 1 .. Len(row)
         /\ \A f \in 1 .. Len(row) : row[f].kind \in Kind
    BY <2>4, <2>8 DEF Cells, StructOK
  <2>13. ASSUME NEW k \in mock.row + 1 .. mock.row + n, NEW f \in 1 .. Len(row)
         PROVE  /\ IsNull(mock, ColumnFor(row, f), k - 1) =>
                     (HasIndicator(row[f].kind) => delivered'[k][f] = NoValue)
                /\ ~IsNull(mock, ColumnFor(row, f), k - 1) =>
                     delivered'[k][f] = <<k - 1, ColumnFor(row, f)>>
    <3> DEFINE j == k - mock.row - 1
    <3>1. j \in 0 .. n - 1 /\ j \in Slots /\ j < n /\ mock.row + j = k - 1
          /\ k - mock.row \in 1 .. n /\ k \in 1 .. mock.row + n /\ ~ (k <= mock.row)
          /\ (k - mock.row) - 1 = j
      <4>1. n \in Nat /\ n <= MaxBatch /\ MaxBatch \in Nat /\ mock.row \in Nat /\ k \in Int
        BY <1>1, <2>6, MaxBatchOK
      <4>2. mock.row + 1 <= k /\ k <= mock.row + n
        BY <4>1
      <4>3. Slots = 0 .. MaxBatch - 1
        BY DEF Slots
      <4> QED
        <5> DEFINE r == mock.row
        <5>1. r \in Nat /\ r + 1 <= k /\ k <= r + n
          BY <4>1, <4>2
        <5> HIDE DEF r
        <5>2. /\ k - r - 1 \in 0 .. n - 1 /\ k - r - 1 \in 0 .. MaxBatch - 1 /\ k - r - 1 < n
              /\ r + (k - r - 1) = k - 1
          BY ONLY <4>1, <5>1
        <5>3. k - r \in 1 .. n /\ k \in 1 .. r + n /\ ~ (k <= r)
          BY ONLY <4>1, <5>1
        <5> QED
          BY <4>3, <5>2, <5>3 DEF j, r
    <3>2. delivered'[k] = d.rows[k - mock.row]
      BY <2>11, <3>1
    <3>3. d.rows[k - mock.row][f] = after.batch[f][j]
      BY <2>7, <2>12, <3>1 DEF BatchRows
    <3> HIDE DEF j
    <3>4. delivered'[k][f] = ApplyOneColumn(memory, f, row[f].kind, j)
      BY <2>8, <3>1, <3>2, <3>3
    <3>5. Filled(mock, memory, DefinesOf(row), positions, f, j, k - 1)
      BY <2>6, <3>1
    <3>6. row[f].kind \in Kind /\ positions[f] = ColumnFor(row, f)
      BY <2>4, <2>12
    <3> DEFINE v == ApplyOneColumn(memory, f, row[f].kind, j)
    <3>8. StructOK(row) /\ f \in 1 .. Len(row)
      BY <2>4
    <3>7. /\ IsNull(mock, positions[f], k - 1) /\ HasIndicator(row[f].kind) => v = NoValue
          /\ ~IsNull(mock, positions[f], k - 1) => v = <<k - 1, positions[f]>>
      BY <3>5, <3>8, ReadsAsSent
    <3> HIDE DEF v
    <3> QED
      BY <3>4, <3>6, <3>7 DEF v
  <2>14. RowsSent
    <3>1. SUFFICES ASSUME NEW k \in Len(delivered) + 1 .. Len(delivered'), NEW f \in DOMAIN job.row
                   PROVE  LET p == ColumnFor(job.row, f)
                              null == mock.nullLast /\ (k - 1) % 2 = 1 /\ p = Len(mock.defines)
                          IN  IF null THEN HasIndicator(job.row[f].kind) => delivered'[k][f] = NoValue
                              ELSE delivered'[k][f] = <<k - 1, p>>
      BY DEF RowsSent
    <3>2. k \in mock.row + 1 .. mock.row + n /\ f \in 1 .. Len(row)
      BY <1>1, <2>11, <2>12 DEF row
    <3> QED
      BY <2>13, <3>2 DEF IsNull, row
  <2> QED
    BY <2>9, <2>14
<1> QED
  BY <1>2, <1>3
(* ---- every step, once more --------------------------------------------- *)
LEMMA NothingSent == ASSUME ClientInv, job.op # "select_rows" \/ delivered' = delivered PROVE RowsSent
<1>1. Len(delivered) \in Nat
  <2> DEFINE S == {delivered[i] : i \in DOMAIN delivered}
  <2>1. delivered \in Seq(S)
    BY DEF ClientInv, ProgressInv, IsSeq
  <2> HIDE DEF S
  <2> QED
    BY <2>1, LenProperties
<1> QED
  BY <1>1 DEF RowsSent
\* Steps that are no part of a call to select_rows().
LEMMA IdleRows ==
    ASSUME \/ Open \/ Close \/ SetFailure
           \/ DirectPrepare \/ DirectBind \/ DirectOutput \/ DirectExecute \/ DirectFetch
           \/ DirectEnd
    PROVE  RowsInv' /\ job.op # "select_rows"
<1>1. CASE Open \/ Close \/ SetFailure
  <2>1. job = NoJob /\ job' = job
    BY <1>1 DEF Open, Close, SetFailure, Idle
  <2> QED
    BY <2>1, NoJobOp, OtherRows
<1>2. CASE DirectPrepare \/ DirectBind \/ DirectOutput \/ DirectExecute \/ DirectFetch
  <2>1. job.op = "direct" /\ job' = job
    BY <1>2 DEF DirectPrepare, DirectBind, DirectOutput, DirectExecute, DirectFetch, Direct
  <2> QED
    BY <2>1, OtherRows
<1>3. CASE DirectEnd
  BY <1>3, FinishedRows DEF DirectEnd
<1> QED
  BY <1>1, <1>2, <1>3
LEMMA NextRows == ASSUME ClientInv, RowsInv, Next PROVE RowsInv' /\ RowsSent
<1>1. CASE \/ Open \/ Close \/ SetFailure
           \/ DirectPrepare \/ DirectBind \/ DirectOutput \/ DirectExecute \/ DirectFetch
           \/ DirectEnd
  BY <1>1, IdleRows, NothingSent, Zenon
<1>2. CASE \/ ExecuteSql \/ ExecuteParams \/ SelectRows \/ SelectRowsWhere \/ SelectOne
           \/ SelectGeneric \/ InsertRows \/ DirectUse
  <2>1. Idle
    BY <1>2 DEF ExecuteSql, ExecuteParams, SelectRows, SelectRowsWhere, SelectOne,
                SelectGeneric, InsertRows, DirectUse, Begin
  <2>2. job.op # "select_rows"
    BY <2>1, NoJobOp DEF Idle
  <2> QED
    BY <1>2, <2>2, CallRows, NothingSent, Zenon
<1>3. CASE BindStep
  BY <1>3, BindRows, NothingSent DEF BindStep
<1>4. CASE SetPrefetchStep
  BY <1>4, SetPrefetchRows, NothingSent DEF SetPrefetchStep
<1>5. CASE BindArrayStep \/ OutputsStep \/ InsertChunkStep \/ DefineGenericStep
  BY <1>5, OtherCallRows, NothingSent, Zenon
<1>6. CASE DefineStep
  <2>1. delivered' = delivered
    BY <1>6 DEF DefineStep
  <2> QED
    BY <1>6, <2>1, DefineRows, NothingSent
<1>7. CASE ExecuteStep
  <2>1. job.op # "select_rows" \/ delivered' = delivered
    BY <1>7 DEF ExecuteStep, ExecuteFails
  <2> QED
    BY <1>7, <2>1, ExecuteRows, NothingSent
<1>8. CASE FetchStep
  BY <1>8, FetchRowsGo
<1>9. CASE FetchLostStep \/ CallbackThrows
  <2>1. RowsInv'
    BY <1>9, FinishedRows DEF FetchLostStep, CallbackThrows
  <2> QED
    BY <1>9, <2>1, NothingSent DEF FetchLostStep, CallbackThrows
<1>10. CASE DatabaseFails
  <2>1. /\ mock'.defines = mock.defines /\ job.pc # "fetch"
        /\ UNCHANGED <<job, mem, delivered>>
    BY <1>10, FailNextKeeps DEF DatabaseFails, At, ClientInv
  <2>2. RowsInv'
    BY <2>1, RowsStay
  <2> QED
    BY <2>1, <2>2, NothingSent
<1> QED
  BY <1>1, <1>2, <1>3, <1>4, <1>5, <1>6, <1>7, <1>8, <1>9, <1>10, Zenon DEF Next
LEMMA RowsStutter == ASSUME RowsInv, UNCHANGED vars PROVE RowsInv'
  BY DEF vars, RowsInv, At, ColumnFor, DefinesOf
\* While select_rows() runs, every field of the struct has the memory of a whole batch,
\* and from its first fetch on each field's own column, found by name, is defined
\* there with the field's type, stride and indicator (resolve_column_positions,
\* define_columns).
THEOREM RowsInvariant == Spec => []RowsInv
<1>1. Init => RowsInv
  BY NoJobOp DEF Init, RowsInv
<1>2. ClientInv /\ RowsInv /\ [Next]_vars => RowsInv'
  BY NextRows, RowsStutter
<1> QED
  BY <1>1, <1>2, ClientInvariant, PTL DEF Spec
\* Whatever the row type, the columns the database describes and in which order, and
\* the batch size, each row select_rows() hands over is the next of the result, each of
\* its fields from the column of its name in that very row, or absent where that is
\* NULL: nothing of the batch before it shows (run_select_fetch_loop,
\* apply_one_column).
THEOREM RowsFaithful == Spec => RowsAsSent
<1>1. ClientInv /\ RowsInv /\ [Next]_vars => [RowsSent]_vars
  BY NextRows
<1> QED
  BY <1>1, ClientInvariant, RowsInvariant, PTL DEF Spec, RowsAsSent
=============================================================================
