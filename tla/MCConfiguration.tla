-------------------------- MODULE MCConfiguration ---------------------------
(***************************************************************************)
(* Configuration for TLC: a struct with every kind of field, wide enough   *)
(* to be indexed, over settings that have each of them once, several       *)
(* times, in another spelling, malformed, of the wrong shape or not.       *)
(***************************************************************************)
EXTENDS Configuration

MCLower == [s \in {"HOST", "Pool", ".XML", "Y"} |->
    CASE s = "HOST" -> "host" [] s = "Pool" -> "pool" [] s = ".XML" -> ".xml" [] s = "Y" -> "y"]

Numeral(value, whole, fits, shown) == [value |-> value, whole |-> whole, fits |-> fits, shown |-> shown]
MCNumbers == [b \in {"0", "1", "8", "80", "10abc", "1.5", "4294967297"} |->
    CASE b = "10abc" -> Numeral("10", FALSE, TRUE, "10abc")
      [] b = "1.5" -> Numeral("1", FALSE, TRUE, "1.500000")
      [] b = "4294967297" -> Numeral("1", TRUE, FALSE, "4294967297")
      [] OTHER -> Numeral(b, TRUE, TRUE, b)]

IntT == [is |-> "int"]
BoolT == [is |-> "bool"]
StrT == [is |-> "string"]
Optional(t) == [is |-> "optional", of |-> t]
Vector(t) == [is |-> "vector", of |-> t]
Struct(fields) == [is |-> "struct", fields |-> fields]
Member(name, type) == [name |-> name, type |-> type, default |-> Fresh(type)]
Pool == Struct(<<Member("size", IntT),
                 [name |-> "name", type |-> Optional(StrT), default |-> <<Text("main")>>]>>)
PoolOfApp == [name |-> "pool", type |-> Pool, default |-> <<Text("1"), <<Text("app")>>>>]
App == Struct(<<Member("host", StrT), PoolOfApp, Member("ports", Vector(IntT)),
                Member("replicas", Optional(Vector(Pool))), Member("on", Optional(BoolT))>>)
Event == Struct(<<Member("when", StrT), Member("on", Optional(BoolT))>>)
Hosts == Struct(<<Member("host", Vector(StrT)), Member("pool", Optional(Pool))>>)
MCTargets == {Optional(BoolT), Pool, App}
MCTypes == {IntT, StrT, Optional(BoolT), Pool, Optional(Pool), App, Event, Hosts}

Leaf(type, body) == [is |-> "leaf", type |-> type, text |-> Text(body)]
Padded(body) == [is |-> "leaf", type |-> "string", text |-> [pad |-> TRUE, body |-> body]]
Of(fields) == [is |-> "struct", own |-> "", fields |-> fields]
List(items) == [is |-> "list", items |-> items]
Has(name, setting) == [name |-> name, setting |-> setting, attribute |-> FALSE]
Attr(name, setting) == [name |-> name, setting |-> setting, attribute |-> TRUE]

Complete ==
    Of(<<Has("HOST", Padded("db")), Has("on", Leaf("boolean", "true")),
         Has("pool", Of(<<Attr("size", Leaf("integer", "8"))>>)),
         Has("ports", List(<<Leaf("integer", "80"), Leaf("integer", "8")>>)),
         Has("replicas", List(<<Of(<<Has("name", Leaf("string", "r")), Has("size", Leaf("integer", "1"))>>)>>))>>)
UnknownInside ==
    Of(<<Has("Pool", Of(<<Has("size", Leaf("integer", "0")), Has("ports", List(<<>>))>>)), Has("host", Leaf("string", "Y")),
         Has("ports", Leaf("string", "80")),
         Has("replicas", List(<<Of(<<Has("size", Leaf("integer", "1")), Has("sise", Leaf("integer", "8"))>>)>>))>>)
Malformed ==
    Of(<<Has("host", Leaf("string", "a")), Has("pool", Of(<<Has("size", Leaf("string", "10abc"))>>)),
         Has("ports", List(<<Leaf("integer", "4294967297"), Leaf("float", "1.5")>>)),
         Has("when", Leaf("date", "today"))>>)
Repeated ==
    Of(<<Has("HOST", Leaf("string", "a")), Has("host", Leaf("string", "b")),
         Has("pool", [Of(<<Attr("size", Leaf("string", "8")), Has("when", Leaf("date", "today"))>>)
                        EXCEPT !.own = "text"])>>)
Wrong ==
    Of(<<Has("host", Of(<<Has("on", Leaf("boolean", "false"))>>)), Has("pool", Leaf("string", "8"))>>)
Today == Leaf("date", "today")
Reversed ==
    Of(<<Has("host", Leaf("string", "a")), Has("HOST", Leaf("float", "1.5")), Has("when", Today),
         Has("pool", List(<<Today, Of(<<Has("size", Leaf("integer", "8"))>>)>>))>>)
Empty ==
    Of(<<Has("host", Leaf("float", "1.5")), Has("ports", List(<<>>)), Has("on", Leaf("boolean", "true")),
         Has("pool", Of(<<Has("size", Leaf("integer", "8")), Has("when", List(<<Today>>)),
                          Has("grid", List(<<List(<<Leaf("integer", "8")>>)>>))>>)),
         Has("replicas", List(<<Of(<<Has("name", Of(<<>>)), Has("size", Leaf("integer", "1"))>>)>>))>>)
MCSettings == {Complete, UnknownInside, Malformed, Repeated, Wrong, Reversed, Empty}
MCKeyOrder == <<"HOST", "Pool", "grid", "host", "name", "on", "pool", "ports", "replicas", "sise", "size", "when">>
MCAttachable == {[setting |-> Wrong, ext |-> e] : e \in {".toml", ".ini"}}
MCAttachedNames == {"pool", "more"}
MCPaths == {<<>>, <<"host">>, <<"pool">>, <<"Pool", "size">>, <<"replicas">>, <<"ports">>,
            <<"when">>, <<"pool", "when">>,
            <<"more">>, <<"more", "host">>, <<"config", "pool">>}
=============================================================================
