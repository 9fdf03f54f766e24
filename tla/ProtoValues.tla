---------------------------- MODULE ProtoValues -----------------------------
(***************************************************************************)
(* The protocol buffers hosts exchange with an Archival: what each value   *)
(* becomes on the wire and what is made of it.  proto3 has no null, so an  *)
(* absent text is the empty one; a message another host leaves out is      *)
(* <<>> here, and has a default.                                           *)
(***************************************************************************)
EXTENDS ObjectValues

CONSTANT U32            \* 2^32, the indexes the wire can hold

First(option, default) == IF option = <<>> THEN default ELSE Head(option)
Texted(option) == First(option, "")
Optional(text) == IF text = "" THEN <<>> ELSE <<text>>

-----------------------------------------------------------------------------
(* Files and meta values.                                                  *)

ProtoFile(f) == [f EXCEPT !.name = Texted(@), !.description = Texted(@)]

\* A display type the wire does not name is a download.
FileOf(p) ==
    [p EXCEPT !.name = Optional(@), !.description = Optional(@),
              !.display_type = IF @ \in DisplayTypes THEN @ ELSE "upload"]

\* A date travels as its spelling.
RECURSIVE ProtoMeta(_)
ProtoMeta(m) ==
    CASE m.meta = "date"  -> [meta |-> "date_string", raw |-> m.date.raw]
      [] m.meta = "array" -> [m EXCEPT !.items = Each(ProtoMeta, @)]
      [] m.meta = "map"   -> [m EXCEPT !.entries = Each(ProtoMeta, @)]
      [] OTHER            -> m

\* A spelling that is no date is read as the present moment.
Now == [at |-> Today, sub |-> 0, offset |-> 0]
DateOf(raw) ==
    IF DateFrom(raw) # Err THEN DateFrom(raw).date
    ELSE [raw |-> [at |-> Today, sub |-> 0, offset |-> 0, dated |-> TRUE], inner |-> <<Now>>]

RECURSIVE MetaOf(_)
MetaOf(p) ==
    CASE p.meta = "date_string" -> [meta |-> "date", date |-> DateOf(p.raw)]
      [] p.meta = "array"       -> [p EXCEPT !.items = Each(MetaOf, @)]
      [] p.meta = "map"         -> [p EXCEPT !.entries = Each(MetaOf, @)]
      [] OTHER                  -> p

-----------------------------------------------------------------------------
(* Field values.                                                           *)

\* The message for objects holds one of them: the first.
RECURSIVE ProtoValue(_)
ProtoValue(v) ==
    CASE v.kind = "date"    -> [kind |-> "date_string", raw |-> v.date.raw]
      [] v.kind = "file"    -> [kind |-> "file", file |-> ProtoFile(v.file)]
      [] v.kind = "meta"    -> [kind |-> "meta", meta |-> ProtoMeta(v.meta)]
      [] v.kind = "oneof"   -> [v EXCEPT !.value = Each(ProtoValue, @)]
      [] v.kind = "objects" -> [kind   |-> "objects",
                                fields |-> IF v.children = <<>> THEN NoEntries
                                           ELSE Each(ProtoValue, Head(v.children))]
      [] OTHER              -> v

RECURSIVE ValueOf(_)
ValueOf(p) ==
    CASE p.kind = "date_string" -> [kind |-> "date", date |-> DateOf(p.raw)]
      [] p.kind = "file"        -> [kind |-> "file", file |-> FileOf(p.file)]
      [] p.kind = "meta"        -> [kind |-> "meta", meta |-> MetaOf(p.meta)]
      [] p.kind = "oneof"       -> [p EXCEPT !.value = Each(ValueOf, @)]
      [] p.kind = "objects"     -> [kind |-> "objects", children |-> <<Each(ValueOf, p.fields)>>]
      [] OTHER                  -> p

-----------------------------------------------------------------------------
(* Objects, and the objects of a type: a list or a root object.            *)

ProtoObject(o) == [o EXCEPT !.values = Each(ProtoValue, @)]
ObjectOf(p)    == [p EXCEPT !.values = Each(ValueOf, @)]

ProtoEntry(e) ==
    IF e.entry = "list" THEN [e EXCEPT !.list = Each(ProtoObject, @)]
    ELSE [e EXCEPT !.object = ProtoObject(@)]
EntryOf(p) ==
    IF p.entry = "list" THEN [p EXCEPT !.list = Each(ObjectOf, @)]
    ELSE [p EXCEPT !.object = ObjectOf(@)]

-----------------------------------------------------------------------------
(* Paths, types and definitions.                                           *)

\* A component is a key or an index, which is cut to 32 bits.
ProtoPath(path) ==
    [i \in DOMAIN path |->
        IF path[i].at = "index" THEN [path[i] EXCEPT !.index = @ % U32] ELSE path[i]]
PathOf(p) == p

RECURSIVE ProtoType(_)
ProtoType(t) ==
    CASE t.kind = "oneof" ->
            [t EXCEPT !.options = [i \in DOMAIN @ |->
                [name |-> @[i].name, type |-> <<ProtoType(@[i].type)>>]]]
      [] t.kind = "alias" -> [t EXCEPT !.of = <<ProtoType(@)>>]
      [] OTHER            -> t

\* An alias of nothing is a string; an option without a type is a panic.
RECURSIVE TypeOf(_)
TypeOf(p) ==
    CASE p.kind = "oneof" ->
            IF \E i \in DOMAIN p.options : p.options[i].type = <<>> THEN Panic
            ELSE [p EXCEPT !.options = [i \in DOMAIN @ |->
                     [name |-> @[i].name, type |-> TypeOf(Head(@[i].type))]]]
      [] p.kind = "alias" ->
            IF p.of = <<>> THEN [kind |-> "string"] ELSE [p EXCEPT !.of = TypeOf(Head(@))]
      [] OTHER -> p

\* Fields and children that are none are left out of the message.
RECURSIVE ProtoDefinition(_)
ProtoDefinition(d) ==
    [d EXCEPT !.fields   = IF @ = NoEntries THEN <<>> ELSE <<Each(ProtoType, @)>>,
              !.children = IF @ = NoEntries THEN <<>> ELSE <<Each(ProtoDefinition, @)>>]

SlipChildrenForgotten(p) ==
    [p EXCEPT !.fields = Each(TypeOf, First(@, NoEntries)), !.children = NoEntries]

RECURSIVE DefinitionOf(_)
DefinitionOf(p) ==
    [p EXCEPT !.fields   = Each(TypeOf, First(@, NoEntries)),
              !.children = Each(DefinitionOf, First(@, NoEntries))]

-----------------------------------------------------------------------------
(* Events.  Each field of an event is converted by its name: the kinds of  *)
(* events differ only in which they have.                                  *)

ProtoField(name, x) ==
    CASE name \in {"order", "index"} -> x
      [] name = "path"   -> <<ProtoPath(x)>>
      [] name = "value"  -> Each(ProtoValue, x)
      [] name = "values" -> [i \in DOMAIN x |-> [path  |-> <<ProtoPath(x[i].path)>>,
                                                 value |-> <<ProtoValue(x[i].value)>>]]
      [] name = "source" -> Texted(x)
      [] OTHER           -> x
ProtoEvent(e) == [name \in DOMAIN e |-> ProtoField(name, e[name])]

SlipZeroIsNone(name, p) ==
    CASE name \in {"order", "index"} -> IF p = <<0>> THEN <<>> ELSE p
      [] name = "path"   -> PathOf(First(p, <<>>))
      [] name = "value"  -> Each(ValueOf, p)
      [] name = "values" -> [i \in DOMAIN p |-> [path  |-> PathOf(First(p[i].path, <<>>)),
                                                 value |-> ValueOf(First(p[i].value, Null))]]
      [] name = "source" -> Optional(p)
      [] OTHER           -> p

\* A path left out is the empty path, an initial value left out is null, and
\* an edit without a value removes one.
EventField(name, p) ==
    CASE name \in {"order", "index"} -> p
      [] name = "path"   -> PathOf(First(p, <<>>))
      [] name = "value"  -> Each(ValueOf, p)
      [] name = "values" -> [i \in DOMAIN p |-> [path  |-> PathOf(First(p[i].path, <<>>)),
                                                 value |-> ValueOf(First(p[i].value, Null))]]
      [] name = "source" -> Optional(p)
      [] OTHER           -> p
EventOf(p) == [name \in DOMAIN p |-> EventField(name, p[name])]
=============================================================================
