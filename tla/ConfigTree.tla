----------------------------- MODULE ConfigTree -----------------------------
(***************************************************************************)
(* Documents of ideas/binding and the two readings of them: the conversion *)
(* of a subtree to a FieldList (ptree_bridge.h, toml_bridge.h) and the     *)
(* walk along a path (config_parser.cpp).                                  *)
(*                                                                         *)
(* A text is [pad, body], pad standing for blanks around it.  A ptree node *)
(* is [data, kids], a TOML node [type, text, kids]; kids are [key, node].  *)
(* A Field is [name, value], a value a leaf or a struct.                   *)
(***************************************************************************)
EXTENDS Integers, Sequences, SequencesExt

CONSTANTS Lower \* spellings to their lower case, where that differs

ASSUME ConfigTreeAssumption == \A s \in DOMAIN Lower : Lower[s] \notin DOMAIN Lower

Fold(s) == IF s \in DOMAIN Lower THEN Lower[s] ELSE s
IEquals(a, b) == Fold(a) = Fold(b)

Text(body) == [pad |-> FALSE, body |-> body]
Trim(text) == [text EXCEPT !.pad = FALSE]

LeafOf(type, text) == [is |-> "leaf", type |-> type, text |-> text]
StructOf(fields) == [is |-> "struct", fields |-> fields]
Field(name, value) == [name |-> name, value |-> value]
kTextFieldKey == "#text"

----------------------------------------------------------------------------
(* One level of a ptree as a config sees it: attributes lifted into it and *)
(* the elements of a JSON array, whose keys are empty, named by the array. *)

IsPtreeArray(node) == node.kids # <<>> /\ \A i \in DOMAIN node.kids : node.kids[i].key = ""

PtreeEntries(kid) ==
    CASE kid.key = "<xmlattr>" -> kid.node.kids
      [] kid.key # "<xmlattr>" /\ IsPtreeArray(kid.node) ->
            [i \in DOMAIN kid.node.kids |-> [kid.node.kids[i] EXCEPT !.key = kid.key]]
      [] OTHER -> <<kid>>
ForEachPtreeChild(node) == FlattenSeq([i \in DOMAIN node.kids |-> PtreeEntries(node.kids[i])])

\* The first of several of one name; <<>> where there is none.
FirstNamed(kids, name) ==
    LET at == {i \in DOMAIN kids : IEquals(kids[i].key, name)}
    IN  IF at = {} THEN <<>> ELSE <<kids[CHOOSE i \in at : \A j \in at : i <= j].node>>
FindPtreeChildRaw(node, name) == FirstNamed(node.kids, name) \* mutant: get_child_optional
FindPtreeChild(node, name) == FirstNamed(ForEachPtreeChild(node), name)

\* An element with children keeps its own text beside them.
RECURSIVE FromPtree(_)
FromPtree(node) ==
    LET value(child) ==
            IF child.kids = <<>> THEN LeafOf("string", Trim(child.data))
            ELSE StructOf(FromPtree(child) \o
                    (IF child.data.body = "" THEN <<>>
                     ELSE <<Field(kTextFieldKey, LeafOf("string", Trim(child.data)))>>))
        level == ForEachPtreeChild(node)
    IN  [i \in DOMAIN level |-> Field(level[i].key, value(level[i].node))]

----------------------------------------------------------------------------
(* One level of a TOML table.                                              *)

TomlEntriesWhole(kid) == <<kid>> \* mutant: an array as one entry
TomlEntries(kid) ==
    IF kid.node.type = "array"
    THEN [i \in DOMAIN kid.node.kids |-> [kid.node.kids[i] EXCEPT !.key = kid.key]] ELSE <<kid>>
ForEachTomlChild(node) == FlattenSeq([i \in DOMAIN node.kids |-> TomlEntries(node.kids[i])])
FindTomlChild(node, name) == FirstNamed(ForEachTomlChild(node), name)

Scalars == {"string", "integer", "float", "boolean"}
TomlLeaf(node) == IF node.type \in Scalars THEN <<LeafOf(node.type, node.text)>> ELSE <<>>

\* Dates, and arrays within arrays, are left out.
RECURSIVE FromToml(_)
FromToml(table) ==
    LET fields(kid) ==
            IF kid.node.type = "table" THEN <<Field(kid.key, StructOf(FromToml(kid.node)))>>
            ELSE [i \in DOMAIN TomlLeaf(kid.node) |-> Field(kid.key, TomlLeaf(kid.node)[i])]
        level == ForEachTomlChild(table)
    IN  FlattenSeq([i \in DOMAIN level |-> fields(level[i])])

----------------------------------------------------------------------------
(* ConfigParser: a document [id, form, tree, attached]; id is its address. *)
(* A Node is [form, tree, of], of being the id of the document it is the   *)
(* root of, 0 for a node inside one.                                       *)

Node(form, tree, of) == [form |-> form, tree |-> tree, of |-> of]
RootNode(doc) == Node(doc.form, doc.tree, doc.id)

FindChild(node, segment) ==
    LET found == IF node.form = "ptree" THEN FindPtreeChild(node.tree, segment)
                 ELSE IF node.tree.type = "table" THEN FindTomlChild(node.tree, segment) ELSE <<>>
    IN  IF found = <<>> THEN <<>> ELSE <<Node(node.form, found[1], 0)>>

Unreadable == {"malformed", "missing"}

\* A file is [ext, state, parsed]: an XML document's one root element is
\* the top of it.  <<>> where load() throws.
Read(file, id) ==
    LET doc(form, tree) == <<[id |-> id, form |-> form, tree |-> tree, attached |-> <<>>]>>
        ext == Fold(file.ext)
    IN  CASE file.state \in Unreadable \/ ext \notin {".xml", ".json", ".toml"} -> <<>>
          [] file.state \notin Unreadable /\ ext = ".toml" -> doc("toml", file.parsed)
          [] file.state \notin Unreadable /\ ext = ".xml" /\ Len(file.parsed.kids) = 1 ->
                doc("ptree", file.parsed.kids[1].node)
          [] OTHER -> doc("ptree", file.parsed)

\* A copy of the document with one more attached: another address.
Attach(doc, id, name, other) ==
    [doc EXCEPT !.id = id, !.attached = Append(@, [name |-> name, doc |-> other])]

\* An attached document answers to its name at the top, where the document
\* itself has nothing of that name.
AttachedRoot(doc, node, segment) ==
    LET named == SelectSeq(doc.attached, LAMBDA a : IEquals(a.name, segment))
    IN  IF node.of # doc.id \/ named = <<>> THEN <<>> ELSE <<RootNode(named[1].doc)>>
Step(doc, node, segment) ==
    IF FindChild(node, segment) # <<>> THEN FindChild(node, segment)
    ELSE AttachedRoot(doc, node, segment)

Resolve(doc, base, path) ==
    FoldLeft(LAMBDA at, segment : IF at = <<>> THEN <<>> ELSE Step(doc, at[1], segment),
             <<base>>, path)

ToValue(node) ==
    IF node.form = "ptree"
    THEN IF node.tree.kids = <<>> THEN LeafOf("string", Trim(node.tree.data))
         ELSE StructOf(FromPtree(node.tree))
    ELSE IF node.tree.type = "table" THEN StructOf(FromToml(node.tree))
         ELSE IF TomlLeaf(node.tree) # <<>> THEN TomlLeaf(node.tree)[1] ELSE StructOf(<<>>)
=============================================================================
