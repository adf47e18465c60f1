----------------------------- MODULE ConfigBind -----------------------------
(***************************************************************************)
(* Binding a FieldList onto a struct (config_bind.h, reflect.h).           *)
(*                                                                         *)
(* A type is [is |-> "int" | "bool" | "string"], [is |-> "optional" or     *)
(* "vector", of], or [is |-> "struct", fields], fields a sequence of       *)
(* [name, type, default].  A scalar's value is a text, an optional's a     *)
(* sequence of at most one, a struct's the sequence of its fields.  What   *)
(* binds returns [ok, out]: out is what was written, ok FALSE a throw.     *)
(***************************************************************************)
EXTENDS ConfigTree, TLC

CONSTANTS Numbers,                  \* numerals to what from_chars makes of them:
                                    \* [value, whole, fits], value also the
                                    \* cast, and shown, what to_string writes
          kLinearScanFieldThreshold \* fields from which a struct is indexed

Leaves == {"int", "bool", "string"}
IsBindableLeaf(type) == type.is \in Leaves \/ (type.is = "optional" /\ type.of.is \in Leaves)
BindableType(type) == IF type.is = "optional" THEN type.of ELSE type
ConfigField(type) ==
    LET inner == BindableType(type)
    IN  (IF inner.is = "vector" THEN inner.of ELSE inner).is \in Leaves \cup {"struct"}
ConfigSchema(type) ==
    type.is = "struct" /\ \A i \in DOMAIN type.fields : ConfigField(type.fields[i].type)
FlatSchema(type) ==
    type.is = "struct" /\ \A i \in DOMAIN type.fields : IsBindableLeaf(type.fields[i].type)
Gettable(type) == IsBindableLeaf(type) \/ ConfigSchema(BindableType(type))

\* Value{}: a struct's members have their default initialisers.
Fresh(type) ==
    CASE type.is = "int" -> Text("0")
      [] type.is = "bool" -> Text("false")
      [] type.is = "string" -> Text("")
      [] type.is \in {"optional", "vector"} -> <<>>
      [] type.is = "struct" -> [i \in DOMAIN type.fields |-> type.fields[i].default]

Ok(out) == [ok |-> TRUE, out |-> out]
Throw(out) == [ok |-> FALSE, out |-> out]

----------------------------------------------------------------------------
(* Leaves.                                                                 *)

Yes == {"true", "y", "1"}
No == {"false", "n", "0"}

\* from_chars leaves a number it stops short after, or cannot hold none of.
ParseLeafText(text, type, out) ==
    LET body == text.body
        written == IF Numbers[body].fits THEN Text(Numbers[body].value) ELSE out
    IN  CASE type.is = "string" -> Ok(text)
          [] type.is = "bool" -> IF Fold(body) \in Yes THEN Ok(Text("true"))
                                 ELSE IF Fold(body) \in No THEN Ok(Text("false")) ELSE Throw(out)
          [] type.is = "int" -> IF body \notin DOMAIN Numbers THEN Throw(out)
                                ELSE IF Numbers[body].whole /\ Numbers[body].fits THEN Ok(written)
                                ELSE Throw(written)

\* static_cast: a number is narrowed, a fraction cut, anything but 0 true.
AssignTypedLeaf(leaf, type) ==
    LET body == leaf.text.body
    IN  CASE type.is = "string" ->
                Ok(Text(IF leaf.type = "boolean" THEN body ELSE Numbers[body].shown))
          [] type.is = "bool" -> Ok(Text(IF body \in {"0", "false"} THEN "false" ELSE "true"))
          [] type.is = "int" -> Ok(Text(IF leaf.type # "boolean" THEN Numbers[body].value
                                        ELSE IF body = "true" THEN "1" ELSE "0"))

ParseLeafValue(leaf, type, out) ==
    IF leaf.type = "string" THEN ParseLeafText(leaf.text, type, out) ELSE AssignTypedLeaf(leaf, type)

BindLeaf(field, type, out) ==
    IF field.value.is # "leaf" THEN Throw(out) ELSE ParseLeafValue(field.value, type, out)

----------------------------------------------------------------------------
(* Looking a name up: all the fields of that name, in order.               *)

ScanAll(fields, name) == SelectSeq(fields, LAMBDA f : IEquals(f.name, name))

FieldIndex(fields) ==
    [key \in {Fold(fields[i].name) : i \in DOMAIN fields} |->
        SelectSeq(fields, LAMBDA f : Fold(f.name) = key)]
IndexAll(fields, name) ==
    IF Fold(name) \in DOMAIN FieldIndex(fields) THEN FieldIndex(fields)[Fold(name)] ELSE <<>>

Scanner(type, fields, name) ==
    IF Len(type.fields) < kLinearScanFieldThreshold THEN ScanAll(fields, name)
    ELSE IndexAll(fields, name)

CheckNoUnknownFields(type, fields) ==
    \A i \in DOMAIN fields : \E j \in DOMAIN type.fields : IEquals(fields[i].name, type.fields[j].name)

----------------------------------------------------------------------------
(* Structs.  A name that repeats is an error but for a vector.             *)

RECURSIVE BindFromFieldsImpl(_, _, _, _)
RECURSIVE BindNamedValue(_, _, _, _, _)

BindOneValue(field, type, out, strict) ==
    IF IsBindableLeaf(type) THEN BindLeaf(field, type, out)
    ELSE IF field.value.is # "struct" THEN Throw(out)
    ELSE BindFromFieldsImpl(field.value.fields, type, out, strict)

\* The elements up to the first that throws; the throw loses none of those.
BindElements(matches, elem, strict) ==
    FoldLeft(LAMBDA done, f :
                IF ~done.ok THEN done
                ELSE LET one == BindOneValue(f, elem, Fresh(elem), strict)
                     IN  IF one.ok THEN Ok(Append(done.out, one.out)) ELSE Throw(done.out),
             Ok(<<>>), matches)

\* [ok, out, present]
BindNamedValue(matches, type, out, strict, required) ==
    LET present(r, p) == [ok |-> r.ok, out |-> r.out, present |-> p]
    IN  CASE type.is = "optional" ->
                LET inner == BindNamedValue(matches, type.of, Fresh(type.of), strict, FALSE)
                IN  IF ~inner.ok THEN present(Throw(out), FALSE)
                    ELSE present(Ok(IF inner.present THEN <<inner.out>> ELSE out), inner.present)
          [] type.is = "vector" -> present(BindElements(matches, type.of, strict), matches # <<>>)
          [] OTHER ->
                IF Len(matches) > 1 THEN present(Throw(out), TRUE)
                ELSE IF matches = <<>> THEN present(IF required THEN Throw(out) ELSE Ok(out), FALSE)
                ELSE present(BindOneValue(matches[1], type, out, strict), TRUE)

BindOneField(type, i, fields, out, strict) ==
    LET f == type.fields[i]
        bound == BindNamedValue(Scanner(type, fields, f.name), f.type, out[i], strict, TRUE)
    IN  [ok |-> bound.ok, out |-> [out EXCEPT ![i] = bound.out]]

\* One field after the other: those before a throw keep what they were given.
BindAllFields(type, fields, out, strict) ==
    FoldLeft(LAMBDA done, i :
                IF done.ok THEN BindOneField(type, i, fields, done.out, strict) ELSE done,
             Ok(out), [i \in DOMAIN type.fields |-> i])

BindFromFieldsTopStrict(fields, type, out, strict) == \* mutant: not in a vector
    IF strict /\ ~CheckNoUnknownFields(type, fields) THEN Throw(out)
    ELSE BindAllFields(type, fields, out, FALSE)
BindFromFieldsImpl(fields, type, out, strict) ==
    IF strict /\ ~CheckNoUnknownFields(type, fields) THEN Throw(out)
    ELSE BindAllFields(type, fields, out, strict)

----------------------------------------------------------------------------
(* A node found by its path, or <<>>; absent or wrong-shaped is no value   *)
(* to an optional leaf and an error to a plain one.                        *)

BindResolvedNodeInPlace(node, type, out, strict) == \* mutant: no value of its own
    LET value == ToValue(node[1])
    IN  IF node # <<>> /\ type.is = "struct" /\ value.is = "struct"
        THEN BindFromFieldsImpl(value.fields, type, out, strict)
        ELSE IF type.is = "optional" THEN Ok(out) ELSE Throw(out)

BindResolvedNode(node, type, out, strict) ==
    LET inner == BindableType(type)
        wrap(v) == IF type.is = "optional" THEN <<v>> ELSE v
        value == ToValue(node[1])
        bound == IF inner.is # "struct" THEN ParseLeafValue(value, inner, Fresh(inner))
                 ELSE BindFromFieldsImpl(value.fields, inner, Fresh(inner), strict)
        shape == IF inner.is = "struct" THEN "struct" ELSE "leaf"
    IN  IF node = <<>> THEN IF type.is = "optional" THEN Ok(out) ELSE Throw(out)
        ELSE IF value.is # shape
        THEN IF type.is = "optional" /\ shape = "leaf" THEN Ok(out) ELSE Throw(out)
        ELSE IF bound.ok THEN Ok(wrap(bound.out)) ELSE Throw(out)

\* bind_from_fields(), into a struct the caller holds.
BindFromFields(fields, type, out, strict) == BindFromFieldsImpl(fields, type, out, strict)
BindFlatFields(fields, type, out, strict) == BindFromFields(fields, type, out, strict)
=============================================================================
