--------------------------- MODULE Configuration ----------------------------
(***************************************************************************)
(* Reading a configuration (ideas/binding: configuration.h, and            *)
(* config_parser.h below it).  A caller loads a file, as a Configuration   *)
(* or as a bare ConfigParser, and from then on narrows its view, attaches  *)
(* further documents, and binds what it sees into a variable of its own.   *)
(*                                                                         *)
(* What is in a file is a setting: a leaf, a struct of named settings or a *)
(* list, independent of the format it is written in; the files of three    *)
(* formats that say the same are the input.                                *)
(***************************************************************************)
EXTENDS ConfigBind

CONSTANTS Settings,     \* settings files hold: structs
          KeyOrder,     \* their keys, in the order of their bytes
          Attachable,   \* files attached to a parser, as [setting, ext], and
          AttachedNames, \* the names they are given
          MaxAttached,  \* bound: documents attached to one parser
          Paths,        \* sequences of segments
          Types,        \* what is bound
          Targets       \* those the caller has a variable of

ASSUME ConfigurationAssumption ==
    MaxAttached \in Nat /\ Targets \subseteq Types /\ \A t \in Types : Gettable(t)

VARIABLES view,   \* the Configuration or ConfigParser, and a node of it
          from,   \* ghost: the file behind a Configuration, the path walked since
          out,    \* the caller's variable
          outcome \* how the last call ended: "returned", "threw", "absent"

vars == <<view, from, out, outcome>>

----------------------------------------------------------------------------
(* Files, as the parsers' libraries hand them over.                        *)

Kid(key, node) == [key |-> key, node |-> node]
PtreeNode(data, kids) == [data |-> data, kids |-> kids]
TomlNode(type, text, kids) == [type |-> type, text |-> text, kids |-> kids]
Items(setting) == IF setting.is = "list" THEN setting.items ELSE <<setting>>

\* An element's attributes come before the elements in it; a toml::table is a
\* map, ordered by its keys.
Attributes(fields) == SelectSeq(fields, LAMBDA f : f.attribute)
Elements(fields) == SelectSeq(fields, LAMBDA f : ~f.attribute)
Rank(key) == CHOOSE i \in DOMAIN KeyOrder : KeyOrder[i] = key
InKeyOrder(fields) == SortSeq(fields, LAMBDA f, g : Rank(f.name) < Rank(g.name))

\* XML has no lists: an element for each item, and those of a list within a list in
\* an element of their own.
RECURSIVE XmlOf(_), JsonOf(_), TomlOf(_, _)
XmlOf(s) ==
    LET kids(f) == [i \in DOMAIN Items(f.setting) |-> Kid(f.name, XmlOf(Items(f.setting)[i]))]
        all(fields) == FlattenSeq([i \in DOMAIN fields |-> kids(fields[i])])
        attributes == all(Attributes(s.fields))
    IN  CASE s.is = "leaf" -> PtreeNode(s.text, <<>>)
          [] s.is = "list" -> PtreeNode(Text(""), [i \in DOMAIN s.items |->
                                        Kid("item", XmlOf(s.items[i]))])
          [] OTHER -> PtreeNode(Text(s.own),
                (IF attributes = <<>> THEN <<>>
                 ELSE <<Kid("<xmlattr>", PtreeNode(Text(""), attributes))>>)
                \o all(Elements(s.fields)))
JsonOf(s) ==
    CASE s.is = "leaf" -> PtreeNode(IF s.type = "string" THEN s.text ELSE Trim(s.text), <<>>)
      [] s.is = "list" -> PtreeNode(Text(""), [i \in DOMAIN s.items |-> Kid("", JsonOf(s.items[i]))])
      [] OTHER -> PtreeNode(Text(""), [i \in DOMAIN s.fields |->
                                        Kid(s.fields[i].name, JsonOf(s.fields[i].setting))])
TomlOf(s, keepPad) ==
    CASE s.is = "leaf" -> TomlNode(s.type, IF keepPad THEN s.text ELSE Trim(s.text), <<>>)
      [] s.is = "list" -> TomlNode("array", Text(""), [i \in DOMAIN s.items |->
                                        Kid("", TomlOf(s.items[i], keepPad))])
      [] OTHER -> LET fields == InKeyOrder(s.fields)
                  IN  TomlNode("table", Text(""), [i \in DOMAIN fields |->
                                        Kid(fields[i].name, TomlOf(fields[i].setting, keepPad))])

FileOf(s, ext, state) ==
    [ext |-> ext, state |-> state, parsed |->
        CASE Fold(ext) = ".xml" ->
                PtreeNode(Text(""),
                    (IF state = "commented" THEN <<Kid("<xmlcomment>", PtreeNode(Text("note"), <<>>))>>
                     ELSE <<>>) \o <<Kid("config", XmlOf(s))>>)
          [] Fold(ext) = ".json" -> JsonOf(s)
          [] OTHER -> TomlOf(s, TRUE)]

Extensions == {".XML", ".json", ".toml", ".ini"}
States == {"plain", "commented", "malformed", "missing"}

----------------------------------------------------------------------------
(* The calls.                                                              *)

NoView == [is |-> "none"]
ViewOf(kind, doc, strict) ==
    [is |-> kind, parser |-> doc, node |-> RootNode(doc), strict |-> strict]
Found(path) == Resolve(view.parser, view.node, path)
Returned == outcome' = "returned"
Fails(how) == outcome' = how /\ UNCHANGED <<view, from, out>>

Init == view = NoView /\ from = NoView /\ outcome = "none"
        /\ \E t \in Targets : out = [type |-> t, value |-> Fresh(t)]

Load(kind, strict) ==
    \E s \in Settings, ext \in Extensions, state \in States :
        LET doc == Read(FileOf(s, ext, state), 1)
        IN  /\ state = "commented" => Fold(ext) = ".xml"
            /\ IF doc = <<>> THEN Fails("threw")
               ELSE /\ view' = ViewOf(kind, doc[1], strict)
                    /\ from' = IF kind = "parser" THEN from
                               ELSE [setting |-> s, ext |-> Fold(ext), state |-> state, at |-> <<>>]
                    /\ Returned /\ UNCHANGED out
LoadConfig == view = NoView /\ \E strict \in BOOLEAN : Load("configuration", strict)
LoadParser == view = NoView /\ Load("parser", FALSE)

\* A new parser; a node of the one before stays what it was.
LoadInto ==
    /\ view.is = "parser" /\ Len(view.parser.attached) < MaxAttached
    /\ \E f \in Attachable, name \in AttachedNames :
        LET other == Read(FileOf(f.setting, f.ext, "plain"), 0)
        IN  IF other = <<>> THEN Fails("threw")
            ELSE /\ view' = [view EXCEPT !.parser = Attach(@, @.id + 1, name, other[1])]
                 /\ Returned /\ UNCHANGED <<from, out>>

Root ==
    /\ view.is = "parser" /\ view' = [view EXCEPT !.node = RootNode(view.parser)]
    /\ Returned /\ UNCHANGED <<from, out>>

Narrow(path, absent) ==
    IF Found(path) = <<>> THEN Fails(absent)
    ELSE /\ view' = [view EXCEPT !.node = Found(path)[1]]
         /\ from' = IF view.is = "parser" THEN from ELSE [from EXCEPT !.at = @ \o path]
         /\ Returned /\ UNCHANGED out
ResolvePath == view.is = "parser" /\ \E path \in Paths : Narrow(path, "absent")
Section == view.is = "configuration" /\ \E path \in Paths : Narrow(path, "threw")

\* get(path, out), and get<T>(path), which starts from a value of its own.
Bound(v, path, type, value) ==
    BindResolvedNode(Resolve(v.parser, v.node, path), type, value, v.strict)
Get(v, path, type) == Bound(v, path, type, Fresh(type))
GetInto ==
    /\ view.is = "configuration"
    /\ \E path \in Paths :
        LET bound == Bound(view, path, out.type, out.value)
        IN  out' = [out EXCEPT !.value = bound.out]
            /\ outcome' = IF bound.ok THEN "returned" ELSE "threw"
    /\ UNCHANGED <<view, from>>

\* What a caller of the parser does with a node: to_value() and bind.
BindNode ==
    /\ view.is = "parser" /\ ConfigSchema(out.type)
    /\ \E strict \in BOOLEAN :
        LET value == ToValue(view.node)
            Bind(f, t, o, s) == IF FlatSchema(t) THEN BindFlatFields(f, t, o, s)
                                ELSE BindFromFields(f, t, o, s)
            bound == Bind(value.fields, out.type, out.value, strict)
        IN  /\ value.is = "struct"
            /\ out' = [out EXCEPT !.value = bound.out]
            /\ outcome' = IF bound.ok THEN "returned" ELSE "threw"
    /\ UNCHANGED <<view, from>>

Next == LoadConfig \/ LoadParser \/ LoadInto \/ Root \/ ResolvePath \/ Section \/ GetInto \/ BindNode
Spec == Init /\ [][Next]_vars

----------------------------------------------------------------------------
(* Properties.                                                             *)

Formatted == view.is = "configuration" /\ from.state = "plain"

\* The fields of a setting in the order in which the file of the view has them.
FieldsOf(s) ==
    CASE from.ext = ".xml" -> Attributes(s.fields) \o Elements(s.fields)
      [] from.ext = ".toml" -> InKeyOrder(s.fields)
      [] OTHER -> s.fields

\* The setting at a path, <<>> where there is none; a path goes on in the first item
\* of a list.
FirstOf(s) == IF s.is = "list" /\ s.items # <<>> THEN s.items[1] ELSE s
RECURSIVE SettingAt(_, _)
SettingAt(s, path) ==
    LET named == SelectSeq(FieldsOf(FirstOf(s)), LAMBDA f : IEquals(f.name, path[1]))
    IN  IF path = <<>> THEN <<s>>
        ELSE IF FirstOf(s).is # "struct" \/ named = <<>> THEN <<>>
        ELSE SettingAt(named[1].setting, Tail(path))

\* What binding a setting to a type looks at: the settings at and below it that the
\* type has a member for, each with what it is bound to.
RECURSIVE Reads(_, _)
Reads(s, type) ==
    LET inner == BindableType(type)
        elem == IF inner.is = "vector" THEN inner.of ELSE inner
        members(f) == SelectSeq(elem.fields, LAMBDA m : IEquals(m.name, f.name))
        below(f) == FlattenSeq([j \in DOMAIN members(f) |-> Reads(f.setting, members(f)[j].type)])
    IN  <<[setting |-> s, type |-> elem]>> \o
        (CASE s.is = "list" -> FlattenSeq([i \in DOMAIN s.items |-> Reads(s.items[i], elem)])
           [] s.is = "struct" /\ elem.is = "struct" ->
                 FlattenSeq([i \in DOMAIN s.fields |-> below(s.fields[i])])
           [] OTHER -> <<>>)

\* What the formats write alike.  They differ in a date, which TOML has as a value of
\* no type here; in nothing, which XML and JSON have as an empty text for a struct and
\* JSON for a list; in lists within lists; and in keys equal but for their case when
\* the file does not have them in the order of their bytes.
WrittenAlike(s) ==
    CASE s.is = "leaf" -> s.type # "date"
      [] s.is = "list" -> /\ s.items # <<>> \/ from.ext = ".xml"
                          /\ \A i \in DOMAIN s.items : s.items[i].is # "list"
      [] s.is = "struct" ->
            /\ s.fields # <<>>
            /\ \A i, j \in DOMAIN s.fields :
                  LET f == FieldsOf(s)[i]
                      g == FieldsOf(s)[j]
                  IN  i < j /\ IEquals(f.name, g.name) => Rank(f.name) < Rank(g.name)

\* What binds from a file of text, XML or JSON, binds from the TOML file that says
\* the same to the same value, at every path below every section (config_field.h:44-55:
\* two bridges, one form), as long as what is passed on the way and read there is
\* written alike, has no blanks around its strings, and no fraction is read as a
\* string: TOML's is printed, with six digits.
FormatsAgree ==
    Formatted /\ from.ext # ".toml" =>
    LET toml == ViewOf("configuration",
                       Read([FileOf(from.setting, ".toml", "plain") EXCEPT
                                !.parsed = TomlOf(from.setting, FALSE)], 1)[1], view.strict)
        at(path) == SettingAt(from.setting, path)
        alike(path) == \A k \in 0 .. Len(path) : LET s == at(SubSeq(path, 1, k)) IN
                           s # <<>> => WrittenAlike(s[1]) /\ WrittenAlike(FirstOf(s[1]))
        same(r) == /\ WrittenAlike(r.setting)
                   /\ ~(r.type.is = "string" /\ r.setting.is = "leaf" /\ r.setting.type = "float")
    IN  \A path \in Paths, type \in Types :
            LET here == Get(view, path, type)
                there == Get(toml, from.at \o path, type)
                s == at(from.at \o path)
                reads == IF s = <<>> THEN <<>> ELSE Reads(FirstOf(s[1]), type)
            IN  here.ok /\ alike(from.at \o path) /\ (\A i \in DOMAIN reads : same(reads[i])) =>
                    there.ok /\ there.out = here.out

\* A member of a struct that was bound reads the same by its own path: the walk and
\* the conversion see one document, and attached ones hide nothing of it
\* (ptree_bridge.h:14-20, config_parser.h:58-66).  A struct within is bound over what
\* its parent's initialiser says, and by its own path over its own (config_bind.h:446,
\* :523): the two agree where those do, so where they do not it is bound by path over
\* the parent's.  Left out are a value of TOML's that makes no field, a date say, and a
\* member the document has nothing for but an attached one answers to.
NoField(node) == node.form = "toml" /\ node.tree.type # "table" /\ TomlLeaf(node.tree) = <<>>
ByPath(node, member) ==
    IF member.type.is # "struct" \/ member.default = Fresh(member.type)
    THEN BindResolvedNode(node, member.type, member.default, view.strict)
    ELSE IF node # <<>> /\ ToValue(node[1]).is = "struct"
    THEN BindFromFields(ToValue(node[1]).fields, member.type, member.default, view.strict)
    ELSE Throw(member.default)
PathReadsField ==
    view.is # "none" =>
    \A path \in Paths, type \in {t \in Types : t.is = "struct"} :
        Get(view, path, type).ok =>
        \A i \in DOMAIN type.fields :
            LET member == type.fields[i]
                node == Found(path \o <<member.name>>)
                attached == node # <<>> /\ FindChild(Found(path)[1], member.name) = <<>>
            IN  Gettable(member.type) /\ ~attached /\ (node = <<>> \/ ~NoField(node[1])) =>
                    ByPath(node, member) = Ok(Get(view, path, type).out[i])

\* Every key of the structs that are read is a member of what it is bound to, but
\* those the file makes no field of: in TOML a date and a list of nothing but dates and
\* lists, in XML an empty list.
MakesNoField(s) ==
    CASE from.ext = ".toml" ->
            \/ s.is = "leaf" /\ s.type = "date"
            \/ s.is = "list" /\ \A i \in DOMAIN s.items :
                   s.items[i].is = "list" \/ (s.items[i].is = "leaf" /\ s.items[i].type = "date")
      [] from.ext = ".xml" -> s.is = "list" /\ s.items = <<>>
      [] OTHER -> FALSE
Recognised(s, type) ==
    s.is = "struct" /\ type.is = "struct" =>
    \A i \in DOMAIN s.fields :
        \/ MakesNoField(s.fields[i].setting)
        \/ \E j \in DOMAIN type.fields : IEquals(s.fields[i].name, type.fields[j].name)

\* A strict Configuration binds no struct while a key in it, at any depth, is a field
\* of nothing (configuration.h:159-171 says any key: those that make no field never
\* reach the check).
StrictMeansEveryKey ==
    Formatted /\ view.strict =>
    \A path \in Paths, type \in {t \in Types : BindableType(t).is = "struct"} :
        LET s == SettingAt(from.setting, from.at \o path)
            reads == Reads(FirstOf(s[1]), type)
        IN  Get(view, path, type).ok /\ s # <<>> =>
                \A i \in DOMAIN reads : Recognised(reads[i].setting, reads[i].type)

\* A get() that throws leaves the caller's variable as it was, however far the
\* binding had come (config_bind.h:396-450).
FailedGetKeepsOut == [][view.is = "configuration" /\ outcome' = "threw" => out' = out]_vars

=============================================================================
