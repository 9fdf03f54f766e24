---------------------------- MODULE ValuePaths -----------------------------
(***************************************************************************)
(* Paths into an object's values.  A component is a key or an index, from  *)
(* 0; values are a function from keys to a text or to a list of children,  *)
(* each of which has values of its own.  A definition has fields (a set of *)
(* names) and children (a name |-> a definition).                          *)
(***************************************************************************)
EXTENDS Integers, Sequences, SequencesExt

Key(k)   == [at |-> "key", key |-> k]
Index(i) == [at |-> "index", index |-> i]
IsKey(path, i)   == i \in DOMAIN path /\ path[i].at = "key"
IsIndex(path, i) == i \in DOMAIN path /\ path[i].at = "index"
From(path, i)    == SubSeq(path, i, Len(path))

Ok(values)  == [result |-> "ok", values |-> values]
NotFound    == [result |-> "error"]
PanicResult == [result |-> "panic"]

IsList(values, k) == k \in DOMAIN values /\ values[k].kind = "objects"
HasChild(values, k, i) == IsList(values, k) /\ i < Len(values[k].children)
NoValues == [k \in {} |-> k]

\* A value is <<text>>, or <<>> to take it away.
Put(values, k, value) ==
    IF value = <<>> THEN [x \in DOMAIN values \ {k} |-> values[x]]
    ELSE [x \in DOMAIN values \cup {k} |-> IF x = k THEN Head(value) ELSE values[x]]

-----------------------------------------------------------------------------
(* Definitions.                                                            *)

\* get_field_definition: indexes are skipped, the first field met is it.
RECURSIVE HasFieldDefinition(_, _)
HasFieldDefinition(path, def) ==
    /\ path # <<>>
    /\ IF ~IsKey(path, 1) THEN HasFieldDefinition(Tail(path), def)
       ELSE \/ path[1].key \in def.fields
            \/ /\ path[1].key \in DOMAIN def.children
               /\ HasFieldDefinition(Tail(path), def.children[path[1].key])

\* get_definition
RECURSIVE DefinitionBelow(_, _)
DefinitionBelow(path, def) ==
    IF path = <<>> THEN <<def>>
    ELSE IF IsIndex(path, 1) THEN DefinitionBelow(Tail(path), def)
    ELSE IF path[1].key \in DOMAIN def.children
    THEN DefinitionBelow(Tail(path), def.children[path[1].key])
    ELSE <<>>
DefinitionAt(path, def) == IF path = <<>> THEN <<>> ELSE DefinitionBelow(path, def)

\* ObjectDefinition::empty_object
EmptyValues(def) == [c \in DOMAIN def.children |-> [kind |-> "objects", children |-> <<>>]]

-----------------------------------------------------------------------------
(* Setting one value.                                                      *)

\* set_in_tree: every child on the way must be there.
RECURSIVE SetInTree(_, _, _)
SetInTree(path, values, value) ==
    IF path = <<>> THEN PanicResult
    ELSE IF ~IsKey(path, 1) THEN NotFound
    ELSE IF Len(path) = 1 THEN Ok(Put(values, path[1].key, value))
    ELSE IF ~(IsIndex(path, 2) /\ HasChild(values, path[1].key, path[2].index)) THEN NotFound
    ELSE LET k == path[1].key
             i == path[2].index + 1
             r == SetInTree(From(path, 3), values[k].children[i], value)
         IN  IF r.result = "ok" THEN Ok([values EXCEPT ![k].children[i] = r.values]) ELSE r

Padded(children, n) ==
    children \o [i \in 1 .. (IF n > Len(children) THEN n - Len(children) ELSE 0) |-> NoValues]

SlipSetFirstChild(path, values, value) ==
    IF Len(path) < 2 THEN Ok(Put(values, path[1].key, value))
    ELSE IF ~(IsIndex(path, 2) /\ HasChild(values, path[1].key, 0)) THEN Ok(values)
    ELSE LET r == SetInTree(From(path, 3), values[path[1].key].children[1], value)
         IN  IF r.result = "ok" THEN Ok([values EXCEPT ![path[1].key].children[1] = r.values]) ELSE r

\* set_in_object: a key that has no value is passed over, as if what follows
\* it stood at the root; what leads nowhere is silently not set; children of
\* the first list that are not there yet are added.
RECURSIVE SetInObject(_, _, _)
SetInObject(path, values, value) ==
    IF ~IsKey(path, 1) THEN Ok(values)
    ELSE LET k == path[1].key
         IN  IF Len(path) = 1 THEN Ok(Put(values, k, value))
             ELSE IF k \notin DOMAIN values THEN SetInObject(Tail(path), values, value)
             ELSE IF ~(IsList(values, k) /\ IsIndex(path, 2)) THEN Ok(values)
             ELSE LET i == path[2].index + 1
                      children == Padded(values[k].children, i)
                      r == SetInTree(From(path, 3), children[i], value)
                  IN  IF r.result # "ok" THEN r
                      ELSE Ok([values EXCEPT ![k].children = [children EXCEPT ![i] = r.values]])

-----------------------------------------------------------------------------
(* Changing a list of children.                                            *)

\* The two changes: a child inserted before an index, or at the end for <<>>;
\* the child at an index removed.
Inserting(index, child) == [change |-> "insert", index |-> index, child |-> child]
Removing(index)          == [change |-> "remove", index |-> index]

Changed(children, c) ==
    IF c.change = "remove"
    THEN IF c.index < Len(children) THEN <<RemoveAt(children, c.index + 1)>> ELSE <<>>
    ELSE IF c.index = <<>> THEN <<Append(children, c.child)>>
    ELSE IF Head(c.index) > Len(children) THEN <<>>
    ELSE <<InsertAt(children, Head(c.index) + 1, c.child)>>

\* modify_children, below a key that has a value.
RECURSIVE ModifyBelow(_, _, _)
ModifyBelow(path, values, c) ==
    LET k == path[1].key
    IN  IF ~IsKey(path, 1) \/ ~IsList(values, k) THEN NotFound
        ELSE IF Len(path) = 1
        THEN LET new == Changed(values[k].children, c)
             IN  IF new = <<>> THEN NotFound ELSE Ok([values EXCEPT ![k].children = Head(new)])
        ELSE IF ~(IsIndex(path, 2) /\ HasChild(values, k, path[2].index) /\ IsKey(path, 3))
        THEN NotFound
        ELSE LET i == path[2].index + 1
                 r == ModifyBelow(From(path, 3), values[k].children[i], c)
             IN  IF r.result = "ok" THEN Ok([values EXCEPT ![k].children[i] = r.values]) ELSE r

SlipRootOnly(path, values, c) ==
    ModifyBelow(IF IsKey(path, 1) THEN <<path[1]>> ELSE path, values, c)

\* modify_children: as in set_in_object, a key without a value is passed over.
RECURSIVE ModifyChildren(_, _, _)
ModifyChildren(path, values, c) ==
    IF ~IsKey(path, 1) THEN NotFound
    ELSE IF path[1].key \notin DOMAIN values THEN ModifyChildren(Tail(path), values, c)
    ELSE ModifyBelow(path, values, c)

\* remove_child: the path ends in the index.
RemoveChildAt(path, values) ==
    IF path = <<>> \/ ~IsIndex(path, Len(path)) THEN NotFound
    ELSE ModifyChildren(Front(path), values, Removing(Last(path).index))

-----------------------------------------------------------------------------
(* Reading.                                                                *)

\* get_in_object: what cannot be followed further is what is found, and a key
\* a child does not have is passed over, too: what follows it is at the root.
RECURSIVE GetInObject(_, _)
RECURSIVE GetBelow(_, _, _)
GetBelow(path, value, root) ==
    IF ~ /\ value.kind = "objects" /\ IsIndex(path, 1) /\ IsKey(path, 2)
         /\ path[1].index < Len(value.children)
    THEN <<value>>
    ELSE LET child == value.children[path[1].index + 1]
         IN  IF path[2].key \in DOMAIN child THEN GetBelow(From(path, 3), child[path[2].key], root)
             ELSE GetInObject(From(path, 3), root)

GetInObject(path, root) ==
    IF ~IsKey(path, 1) THEN <<>>
    ELSE IF path[1].key \notin DOMAIN root THEN GetInObject(Tail(path), root)
    ELSE GetBelow(Tail(path), root[path[1].key], root)

\* get_children
RECURSIVE GetChildren(_, _)
GetChildren(path, values) ==
    IF ~IsKey(path, 1) \/ ~IsList(values, path[1].key) THEN <<>>
    ELSE LET children == values[path[1].key].children
         IN  IF Len(path) = 1 THEN <<children>>
             ELSE IF IsIndex(path, 2) /\ path[2].index < Len(children)
             THEN GetChildren(From(path, 3), children[path[2].index + 1])
             ELSE <<>>

-----------------------------------------------------------------------------
(* What values hold, stated without walking a path: every text and every   *)
(* list with the address it is at.  An address is keys and indexes in turn. *)

RECURSIVE Texts(_, _)
Texts(values, at) ==
    {<<Append(at, Key(k)), values[k].text>> : k \in {k \in DOMAIN values : values[k].kind = "text"}}
    \cup UNION {UNION {Texts(values[k].children[i], at \o <<Key(k), Index(i - 1)>>) :
                         i \in DOMAIN values[k].children} :
                   k \in {k \in DOMAIN values : values[k].kind = "objects"}}

RECURSIVE Lists(_, _)
Lists(values, at) ==
    UNION {{<<Append(at, Key(k)), Len(values[k].children)>>}
           \cup UNION {Lists(values[k].children[i], at \o <<Key(k), Index(i - 1)>>) :
                         i \in DOMAIN values[k].children} :
              k \in {k \in DOMAIN values : values[k].kind = "objects"}}

\* A path whose children are all there and whose last key is a field's.
Leads(path, def, values) ==
    /\ Len(path) % 2 = 1
    /\ \A i \in DOMAIN path : path[i].at = (IF i % 2 = 1 THEN "key" ELSE "index")
    /\ \A i \in DOMAIN path : i % 2 = 0 =>
          \E l \in Lists(values, <<>>) : l[1] = SubSeq(path, 1, i - 1) /\ path[i].index < l[2]
    /\ LET d == IF Len(path) = 1 THEN <<def>> ELSE DefinitionAt(Front(path), def)
       IN  d # <<>> /\ Last(path).key \in Head(d).fields

\* The address something has once a child is inserted at index i of a list (by
\* 1), or was before the child there was removed.
Shifted(address, list, i) ==
    IF IsPrefix(list, address) /\ IsIndex(address, Len(list) + 1)
       /\ address[Len(list) + 1].index >= i
    THEN [address EXCEPT ![Len(list) + 1].index = @ + 1]
    ELSE address
=============================================================================
