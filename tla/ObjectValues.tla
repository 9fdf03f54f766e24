---------------------------- MODULE ObjectValues ----------------------------
(***************************************************************************)
(* Object definitions, and the objects of a definition as they are read    *)
(* from TOML tables and written back.  A definition has fields (a name |-> *)
(* its type) and children (a name |-> a definition); an object has an      *)
(* order, <<>> or <<number>>, and values (a name |-> a field value).       *)
(***************************************************************************)
EXTENDS FieldValues

Reserved == {"template", "order", "path", "objects", "object_name", "page", "page_name"}

NoDefinition == [kind |-> "error"]

-----------------------------------------------------------------------------
(* ObjectDefinition::new, from a table of the definitions file.            *)

\* An array of tables is a oneof; an array of anything else is an enum.
ArrayType(items, editors) ==
    IF AllTables(items)
    THEN LET Name(i) == items[i].entries["name"]
             Type(i) == items[i].entries["type"]
             Good(i) == /\ {"name", "type"} \subseteq DOMAIN items[i].entries
                        /\ Name(i).doc = "string" /\ Type(i).doc = "string"
                        /\ TypeFromStr(Type(i).text, editors) # Err
         IN  IF \E i \in DOMAIN items : ~Good(i) THEN Err
             ELSE [kind |-> "oneof",
                   options |-> [i \in DOMAIN items |->
                       [name |-> Name(i).text, type |-> TypeFromStr(Type(i).text, editors)]]]
    ELSE IF AllStrings(items)
    THEN [kind |-> "enum", values |-> {items[i].text : i \in DOMAIN items}]
    ELSE Err

FieldTypeOf(d, editors) ==
    IF d.doc = "array" THEN ArrayType(d.items, editors) ELSE TypeFromStr(d.text, editors)

RECURSIVE DefinitionFrom(_, _, _)
DefinitionFrom(name, entries, editors) ==
    LET Is(doc) == {k \in DOMAIN entries : entries[k].doc = doc}
        template == Is("string") \cap {"template"}
        fields == (Is("string") \cup Is("array")) \ template
        Type(k) == FieldTypeOf(entries[k], editors)
        Child(k) == DefinitionFrom(k, entries[k].entries, editors)
    IN  IF \/ name \in Reserved
           \/ (DOMAIN entries \ template) \cap Reserved # {}
           \/ \E k \in fields : Type(k) = Err
           \/ \E k \in Is("table") : Child(k) = NoDefinition
        THEN NoDefinition
        ELSE [kind     |-> "definition",
              fields   |-> [k \in fields |-> Type(k)],
              children |-> [k \in Is("table") |-> Child(k)],
              template |-> IF template = {} THEN "" ELSE entries["template"].text]

-----------------------------------------------------------------------------
(* Reading.                                                                *)

\* A key that is the name of an editor type stands for what that type aliases.
KeyOf(key, editors) == IF key \in DOMAIN editors THEN editors[key].aliasOf ELSE key

EmptyObject(def) == [c \in DOMAIN def.children |-> [kind |-> "objects", children |-> <<>>]]

\* Object::values_from_table.  Every field and child collection is read, and
\* the first that cannot be fails the object; a value custom validation
\* refuses fails it too, unless validation is skipped.
RECURSIVE ValuesFromTable(_, _, _, _)
ChildrenFrom(d, def, editors, skip) ==
    IF d.doc # "array" THEN Err
    ELSE IF ~AllTables(d.items) THEN Err
    ELSE LET read == [i \in DOMAIN d.items |->
                         ValuesFromTable(d.items[i].entries, def, editors, skip)]
             bad  == {i \in DOMAIN read : ~IsValue(read[i])}
         IN  IF bad # {} THEN read[CHOOSE i \in bad : TRUE]
             ELSE [kind |-> "objects", children |-> [i \in DOMAIN read |-> read[i].values]]

ValuesFromTable(entries, def, editors, skip) ==
    LET Sources(k) == {key \in DOMAIN entries : KeyOf(key, editors) = k}
        Source(k)  == entries[CHOOSE key \in Sources(k) : TRUE]
        fields     == {k \in DOMAIN def.fields : Sources(k) # {}}
        lists      == {k \in DOMAIN def.children : Sources(k) # {}} \ fields
        Read(k) == IF k \in fields THEN FromToml(def.fields[k], Source(k))
                   ELSE ChildrenFrom(Source(k), def.children[k], editors, skip)
        bad == {k \in fields \cup lists : ~IsValue(Read(k))}
    IN  IF bad # {} THEN Read(CHOOSE k \in bad : TRUE)
        ELSE IF ~skip /\ \E k \in fields : ~Validates(Read(k), def.fields[k], editors) THEN Err
        ELSE [kind   |-> "values",
              values |-> [k \in fields \cup DOMAIN def.children |->
                              IF k \in fields \cup lists THEN Read(k)
                              ELSE EmptyObject(def)[k]]]

SlipTableWithoutOrder(entries, def, editors, skip) == ValuesFromTable(entries, def, editors, skip)

\* Object::from_table: an order that is no number is left out.
FromTable(entries, def, editors, skip) ==
    LET read == ValuesFromTable(entries, def, editors, skip)
    IN  IF ~IsValue(read) THEN read
        ELSE [kind   |-> "object",
              order  |-> IF "order" \in DOMAIN entries
                            /\ entries["order"].doc \in {"integer", "float"}
                         THEN <<entries["order"].n>> ELSE <<>>,
              values |-> read.values]

-----------------------------------------------------------------------------
(* Writing.                                                                *)

SlipOneChildIsATable(object, def) ==
    LET keys == (DOMAIN def.fields \cup DOMAIN def.children) \cap DOMAIN object.values
        docs == Table(Restrict(object.values, keys)).entries
    IN  [k \in DOMAIN docs |-> IF docs[k].doc = "array" /\ Len(docs[k].items) = 1
                               THEN Head(docs[k].items) ELSE docs[k]]

\* Object::to_toml writes the fields and children of the definition, in its
\* order, and nothing else the file may have had.
ToTable(object, def) ==
    LET keys == (DOMAIN def.fields \cup DOMAIN def.children) \cap DOMAIN object.values
        docs == Table([k \in keys |-> object.values[k]]).entries
    IN  [k \in DOMAIN docs \cup (IF object.order = <<>> THEN {} ELSE {"order"}) |->
            IF k = "order" THEN [doc |-> "integer", n |-> Head(object.order)] ELSE docs[k]]

-----------------------------------------------------------------------------
(* What templates see.                                                     *)

\* object_to_liquid_with: fields of secret types are left out; a field without
\* a value is nil; meta values are there even when nothing defines them.
RECURSIVE ObjectToLiquid(_, _)
ObjectToLiquid(values, def) ==
    LET shown == {k \in DOMAIN def.fields : ~IsSecret(def.fields[k])}
        metas == {k \in DOMAIN values : values[k].kind = "meta"}
        Children(k) ==
            [liquid |-> "array",
             items  |-> IF k \notin DOMAIN values THEN <<>>
                        ELSE [i \in DOMAIN values[k].children |->
                                 ObjectToLiquid(values[k].children[i], def.children[k])]]
    IN  [k \in shown \cup metas \cup DOMAIN def.children |->
            CASE k \in DOMAIN def.children -> Children(k)
              [] k \in DOMAIN values       -> ToLiquid(values[k])
              [] OTHER                     -> Nil]

-----------------------------------------------------------------------------
(* The JSON an editor may send, as the generated schema describes it.      *)

\* FieldType::to_json_schema_property.
RECURSIVE SchemaAdmits(_, _)
SchemaAdmits(type, d) ==
    LET t == BaseType(type)
        IsText(k) == k \in DOMAIN d.entries /\ d.entries[k].doc = "string"
    IN  CASE t.kind \in {"string", "secret", "markdown"} -> d.doc = "string"
          [] t.kind = "date"    -> d.doc = "string" /\ d.text \in DOMAIN Dates
          [] t.kind = "enum"    -> d.doc = "string" /\ d.text \in t.values
          [] t.kind = "number"  -> d.doc = "float"
          [] t.kind = "boolean" -> d.doc = "boolean"
          [] t.kind = "meta"    -> d.doc = "table" /\ d.entries = NoEntries
          [] t.kind \in FileTypes ->
                /\ d.doc = "table"
                /\ DOMAIN d.entries \subseteq FileKeys
                /\ \A k \in {"sha", "filename", "mime", "display_type"} : IsText(k)
                /\ \A k \in DOMAIN d.entries : IsText(k)
                /\ d.entries["display_type"].text = t.kind
          [] t.kind = "oneof" ->
                /\ d.doc = "table"
                /\ DOMAIN d.entries = {"type", "value"}
                /\ IsText("type")
                /\ d.entries["type"].text \in OptionNames(t)
                /\ SchemaAdmits(Option(t, d.entries["type"].text), d.entries["value"])
=============================================================================
