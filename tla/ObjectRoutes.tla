---------------------------- MODULE ObjectRoutes ----------------------------
(***************************************************************************)
(* One object through its life: written by its author or added by an       *)
(* editor, loaded, edited field by field over the wire or from JSON, saved, *)
(* sent to hosts and back.  Its definition has a field "f" and a list of   *)
(* children "c", each with a field "g", both of one of the types a         *)
(* definitions file may give them.  Which event reaches the object when,   *)
(* and the caches between, are ArchivalBuild's; here every conversion on   *)
(* the way is.                                                             *)
(***************************************************************************)
EXTENDS ProtoValues

CONSTANTS FieldDocs,    \* what the definitions file may say of "f" and "g"
          Editors,      \* the manifest's editor types
          Tomls,        \* what an author may write for "f"
          Jsons,        \* what editors may send for it as JSON
          Values,       \* what hosts may send
          Orders,       \* the orders objects are given
          MaxEdits

VARIABLES def,          \* the definition of the object
          file,         \* the object's file: the entries of its table
          checked,      \* every value in it was written by its author or passes validation
          saved,        \* the file was last written by Archival
          object,       \* what the file was last read as
          meant,        \* what the values written to the file mean
          held,         \* a host's copy of the object
          edits

vars == <<def, file, checked, saved, object, meant, held, edits>>

type == def.fields["f"]

DefinitionsFile(d) ==
    [k \in {"f", "c", "template"} |->
        CASE k = "f" -> d
          [] k = "c" -> [doc |-> "table", entries |-> [g \in {"g"} |-> d]]
          [] OTHER   -> [doc |-> "string", text |-> "page"]]

NoObject == [kind |-> "none"]
Missing  == [k \in {"missing"} |-> Nothing]

-----------------------------------------------------------------------------
(* What a value means, apart from how it is spelled: the wall clock of a    *)
(* date, the texts of a file, a null as no value.                           *)

RECURSIVE MetaMeans(_)
MetaMeans(m) ==
    CASE m.meta = "date"  -> [meta |-> "date", at |-> Moment(m.date).at]
      [] m.meta = "array" -> [m EXCEPT !.items = Each(MetaMeans, @)]
      [] m.meta = "map"   -> [m EXCEPT !.entries = Each(MetaMeans, @)]
      [] OTHER            -> m

RECURSIVE Means(_)
AllMean(values) == [k \in {k \in DOMAIN values : values[k] # Null} |-> Means(values[k])]
Means(v) ==
    CASE v.kind = "date"    -> [kind |-> "date", at |-> Moment(v.date).at]
      [] v.kind = "file"    -> [kind |-> "file", file |-> ProtoFile(v.file)]
      [] v.kind = "meta"    -> [kind |-> "meta", meta |-> MetaMeans(v.meta)]
      [] v.kind = "oneof"   -> [v EXCEPT !.value = Each(Means, SelectSeq(@, LAMBDA x : x # Null))]
      [] v.kind = "objects" -> [v EXCEPT !.children = Each(AllMean, @)]
      [] OTHER              -> v

-----------------------------------------------------------------------------
Init ==
    /\ def \in {DefinitionFrom("o", DefinitionsFile(d), Editors) : d \in FieldDocs} \ {NoDefinition}
    /\ file \in {Missing, NoEntries} \cup {[k \in {"f"} |-> d] : d \in Tomls}
    /\ checked = TRUE
    /\ saved = FALSE
    /\ object = NoObject
    /\ meant = NoObject
    /\ held = NoObject
    /\ edits = 0

\* Site::object_for_path: validation is skipped when the cache is filled.
Load ==
    /\ object = NoObject /\ file # Missing
    /\ object' = FromTable(file, def, Editors, TRUE)
    /\ meant' = IF saved \/ ~IsValue(object') THEN meant ELSE AllMean(object'.values)
    /\ UNCHANGED <<def, file, checked, saved, held, edits>>

Loaded == object # NoObject /\ IsValue(object)

\* write_object: the object is changed, written whole, and forgotten.
Save(new, valid, meaning) ==
    /\ edits < MaxEdits
    /\ edits' = edits + 1
    /\ file' = ToTable(new, def)
    /\ saved' = TRUE
    /\ checked' = (checked /\ valid)
    /\ meant' = meaning
    /\ object' = NoObject
    /\ held' = NoObject
    /\ UNCHANGED def

\* Archival::add_object: the values given to a new object are not validated.
AddObject ==
    /\ file = Missing
    /\ \E v \in Values, order \in Orders :
          LET new == [kind   |-> "object", order |-> order,
                      values |-> [k \in {"f", "c"} |-> IF k = "f" THEN v ELSE EmptyObject(def)[k]]]
          IN  Save(new, Validates(v, type, Editors), AllMean(new.values))

With(values, k, v) == [x \in DOMAIN values \cup {k} |-> IF x = k THEN v ELSE values[x]]

\* Archival::edit_field, of a value that was validated.
SetField(v) ==
    /\ Loaded
    /\ Validates(v, type, Editors)
    /\ LET new == [object EXCEPT !.values = With(@, "f", v)]
       IN  Save(new, TRUE, AllMean(new.values))

EventTo(field, value) ==
    [object |-> "o", filename |-> "o", path |-> <<>>, field |-> field,
     value |-> value, source |-> <<>>]

\* The event comes over the wire, ...
EditOverWire ==
    \E v \in Values : SetField(Head(EventOf(ProtoEvent(EventTo("f", <<v>>))).value))

\* ... or is made from JSON, ...
EditFromJson ==
    \E d \in Jsons : IsValue(FromJson(type, d)) /\ SetField(FromJson(type, d))

\* ... or from what was typed into a form, ...
EditFromString ==
    \E text \in DOMAIN Numerals \cup DOMAIN Truths \cup DOMAIN Dates \cup Blank :
        IsValue(FromString(type, text)) /\ SetField(FromString(type, text))

\* ... or takes the value away.
ClearField ==
    /\ Loaded
    /\ LET new == [object EXCEPT !.values = [k \in DOMAIN @ \ {"f"} |-> @[k]]]
       IN  Save(new, TRUE, AllMean(new.values))

\* Archival::add_child, with a validated initial value.
AddChild ==
    /\ Loaded
    /\ \E v \in Values :
          LET new == [object EXCEPT !.values["c"].children = Append(@, [k \in {"g"} |-> v])]
          IN  /\ Validates(v, type, Editors)
              /\ Save(new, TRUE, AllMean(new.values))

EditOrder ==
    /\ Loaded
    /\ \E order \in Orders :
          LET new == [object EXCEPT !.order = order]
          IN  order # object.order /\ Save(new, TRUE, meant)

\* A host is sent the object, ...
Exchange ==
    /\ Loaded
    /\ held' \in {EntryOf(ProtoEntry([entry |-> "object", object |-> object])).object,
                  Head(EntryOf(ProtoEntry([entry |-> "list", list |-> <<object>>])).list)}
    /\ UNCHANGED <<def, file, checked, saved, object, meant, edits>>

\* ... or takes it through serde, which leaves the moments of dates out.
RECURSIVE Unread(_)
Unread(v) ==
    CASE v.kind = "date"    -> [v EXCEPT !.date.inner = <<>>]
      [] v.kind = "oneof"   -> [v EXCEPT !.value = Each(Unread, @)]
      [] v.kind = "objects" -> [v EXCEPT !.children = [i \in DOMAIN @ |-> Each(Unread, @[i])]]
      [] OTHER              -> v
Serialize ==
    /\ Loaded
    /\ held' = [object EXCEPT !.values = Each(Unread, @)]
    /\ UNCHANGED <<def, file, checked, saved, object, meant, edits>>

Next == \/ Load \/ AddObject
        \/ EditOverWire \/ EditFromJson \/ EditFromString \/ ClearField
        \/ AddChild \/ EditOrder
        \/ Exchange \/ Serialize

Spec == Init /\ [][Next]_vars

-----------------------------------------------------------------------------
TypeOK ==
    /\ DOMAIN def.fields = {"f"} /\ DOMAIN def.children = {"c"}
    /\ checked \in BOOLEAN /\ saved \in BOOLEAN
    /\ object.kind \in {"none", "error", "panic", "object"}
    /\ held.kind \in {"none", "object"}
    /\ edits \in 0 .. MaxEdits

\* A file Archival has written from values that were validated can be read
\* again, and what is read can be rendered: no sequence of edits that were
\* accepted makes an object disappear from the site.  The code breaks this with
\* a list of objects for a field's value (README, Known departures).
SavedIsReadable ==
    saved /\ checked =>
        LET read == FromTable(file, def, Editors, TRUE)
        IN  read.kind = "object" /\ \A k \in DOMAIN read.values : Renders(read.values[k])

\* The file has a list where the definition has a field.  validate holds what is
\* in a list against the field's type, and never the list (field_value.rs:643),
\* while no field's value is read from a list.
HasListForField ==
    LET Listed(entries, k) == k \in DOMAIN entries /\ entries[k].doc = "array"
    IN  \/ Listed(file, "f")
        \/ /\ Listed(file, "c")
           /\ \E i \in DOMAIN file["c"].items : Listed(file["c"].items[i].entries, "g")

\* An object means what was written to its file, whichever edits came by the
\* wire, JSON or a form, and however often the rest of it was rewritten.
MeaningIsKept == checked /\ Loaded => AllMean(object.values) = meant

\* An event rewrites the whole file; after the first time this changes
\* nothing but what the event is about, in any later file.
SavingSettles ==
    saved /\ checked /\ ~HasListForField => ToTable(FromTable(file, def, Editors, TRUE), def) = file

\* A host's copy of an object's fields means what the object does.
HostsSeeFields ==
    held # NoObject /\ "f" \in DOMAIN object.values =>
        Means(held.values["f"]) = Means(object.values["f"])

\* A secret is in no template's context, under any alias, and an option of a
\* oneof that is secret shows as nothing.
SecretsStayOut ==
    Loaded /\ checked /\ "f" \in DOMAIN object.values =>
        LET seen == ObjectToLiquid(object.values, def)
            v == object.values["f"]
        IN  /\ BaseType(type).kind = "secret" => "f" \notin DOMAIN seen
            /\ v.kind = "oneof" /\ v.value # <<>> /\ BaseType(Option(BaseType(type), v.name)).kind = "secret" =>
                  seen["f"].value = Nil

\* "Aliases are just their underlying type as far as values go"
\* (field_value.rs:904): JSON is read alike for both.  The code follows one
\* alias and breaks this for an alias of an alias (README, Known departures).
AliasesAreTheirBase == \A d \in Jsons : FromJson(type, d) = FromJson(BaseType(type), d)

AliasOfAlias(t) == t.kind = "alias" /\ t.of.kind = "alias"

\* JSON that keeps to the schema generated for the definition is accepted, for
\* every type but an alias of an alias (AliasesAreTheirBase).
SchemaJsonIsAccepted ==
    \A d \in Jsons :
        SchemaAdmits(type, d) /\ ~AliasOfAlias(type) =>
            IsValue(FromJson(type, d)) /\ Validates(FromJson(type, d), type, NoEntries)

\* What proto_tests asserts of its objects: decoding what was encoded gives
\* the same object.
ExchangeKeepsObject ==
    held # NoObject => AllMean(held.values) = AllMean(object.values)

\* The events a host may send, without lists of objects, which do not survive
\* the wire (ExchangeKeepsObject).
Events ==
    LET FieldValue == {v \in Values : v.kind # "objects"}
        at == <<[at |-> "key", key |-> "c"], [at |-> "index", index |-> 1]>>
    IN  {[object |-> "o", filename |-> "o", order |-> o,
          values |-> <<[path |-> at, value |-> v]>>] : o \in Orders, v \in FieldValue}
        \cup {[object |-> "o", filename |-> "o", path |-> at, index |-> i,
                values |-> <<[path |-> at, value |-> v]>>] : i \in Orders, v \in FieldValue}
        \cup {[object |-> "o", filename |-> "o", path |-> at, source |-> s, field |-> "f",
                value |-> v] : s \in {<<>>, <<"editor">>}, v \in {<<>>} \cup {<<v>> : v \in FieldValue}}

\* An event is received as it was sent: an order of 0 is not no order, an edit
\* without a value is not an edit to null, a value means the same.
EventMeans(e) ==
    [k \in DOMAIN e |->
        CASE k = "value"  -> Each(Means, e[k])
          [] k = "values" -> [i \in DOMAIN e[k] |-> [e[k][i] EXCEPT !.value = Means(@)]]
          [] OTHER        -> e[k]]
EventsArrive == \A e \in Events : EventMeans(EventOf(ProtoEvent(e))) = EventMeans(e)

\* Definitions reach hosts whole.
DefinitionsArrive == DefinitionOf(ProtoDefinition(def)) = def

\* Every accepted edit leaves an object that loads, renders and saves as it is,
\* but for a list of objects accepted as the value of a field (HasListForField);
\* what the schema allows is accepted, but for aliases of aliases.
EditedObjectsLoad ==
    /\ TypeOK
    /\ ~HasListForField => SavedIsReadable
    /\ SavingSettles
    /\ SchemaJsonIsAccepted

\* A value means the same in the file, on the wire, in JSON, in a form and to a
\* host, and so do events and definitions.
MeaningTravels == MeaningIsKept /\ HostsSeeFields /\ EventsArrive /\ DefinitionsArrive
=============================================================================
