---------------------------- MODULE FieldValues ----------------------------
(***************************************************************************)
(* Field types and field values, and the conversions a value goes through: *)
(* from and to TOML, from JSON, from a string, to what a template reads.   *)
(* A document is TOML or JSON: [doc |-> "string", text |-> ...] and so on, *)
(* a TOML table or a JSON object being a function from keys.  Texts are    *)
(* told apart only by what the parsers make of them, which the constants   *)
(* give: the numbers, truths and dates some of them spell.                 *)
(***************************************************************************)
EXTENDS TomlDocs

CONSTANTS Numerals,     \* a text that spells a number |-> the number
          Truths,       \* a text that spells a truth |-> the truth
          Dates,        \* a text that spells a date |-> its spelling
          Blank,        \* the texts that trim to nothing, "" among them
          LocalOffset,  \* what the machine adds to a date without an offset
          NoOffset,     \* the offset of a spelling that has none
          Today         \* the day a time without a date is given

ASSUME BlankAssumption == "" \in Blank /\ Blank \cap DOMAIN Numerals = {}

-----------------------------------------------------------------------------
Panic == [kind |-> "panic"]
Null  == [kind |-> "null"]
IsValue(v) == v.kind \notin {"error", "panic"}

AllStrings(items) == \A i \in DOMAIN items : items[i].doc = "string"
AllTables(items)  == \A i \in DOMAIN items : items[i].doc = "table"

\* FieldType::base_type: aliases may themselves alias other editor types.
RECURSIVE BaseType(_)
BaseType(t) == IF t.kind = "alias" THEN BaseType(t.of) ELSE t

SlipSecretByName(t) == t.kind = "secret"

IsSecret(t) == BaseType(t).kind = "secret"

\* FieldType::from_str, for a name of a built-in type or of an editor type.
BuiltIn == {"string", "secret", "number", "date", "markdown", "boolean",
            "image", "video", "audio", "upload", "meta"}
RECURSIVE TypeFromStr(_, _)
TypeFromStr(name, editors) ==
    IF name \in BuiltIn THEN [kind |-> name]
    ELSE IF name \notin DOMAIN editors THEN Err
    ELSE LET of == TypeFromStr(editors[name].aliasOf, editors)
         IN  IF of = Err THEN Err ELSE [kind |-> "alias", of |-> of, name |-> name]

-----------------------------------------------------------------------------
(* Dates: the spelling is kept beside the moment it was read as.           *)

Offset(s) == IF s.offset = NoOffset THEN LocalOffset ELSE s.offset

\* DateTime::from drops fractions of a second; a time alone is no date.
DateFrom(s) ==
    IF ~s.dated THEN Err
    ELSE [kind |-> "date",
          date |-> [raw   |-> s,
                    inner |-> <<[at |-> s.at, sub |-> 0, offset |-> Offset(s)]>>]]

SlipReadInLocalTime(s) ==
    [kind |-> "date",
     date |-> [raw |-> s, inner |-> <<[at |-> s.at + LocalOffset, sub |-> s.sub, offset |-> 0]>>]]

\* DateTime::from_toml reads date and time and leaves the offset out.
DateFromToml(s) ==
    [kind |-> "date",
     date |-> [raw   |-> s,
               inner |-> <<[at     |-> IF s.dated THEN s.at ELSE Today + s.at,
                            sub    |-> s.sub,
                            offset |-> 0]>>]]

\* DateTime::parse_date_string writes the local offset into the spelling.
Localised(s) == [s EXCEPT !.offset = Offset(s)]

SlipForgottenIsToday(d) ==
    IF d.inner # <<>> THEN Head(d.inner) ELSE [at |-> Today, sub |-> 0, offset |-> 0]

\* DateTime::as_liquid_datetime; the moment is skipped by serde.
Moment(d) ==
    IF d.inner # <<>> THEN Head(d.inner)
    ELSE [at |-> d.raw.at, sub |-> d.raw.sub, offset |-> Offset(d.raw)]

SlipSpellInUtc(m, offset) ==
    [doc |-> "datetime",
     spelling |-> [at |-> m.at - m.offset, sub |-> m.sub, offset |-> offset, dated |-> TRUE]]

Spelled(m, offset) ==
    [doc |-> "datetime",
     spelling |-> [at |-> m.at, sub |-> m.sub, offset |-> offset, dated |-> TRUE]]

-----------------------------------------------------------------------------
(* Files.                                                                  *)

DisplayTypes == {"image", "video", "audio", "upload"}
EmptyFile(display) ==
    [display_type |-> display, sha |-> "", filename |-> "", mime |-> "*",
     name |-> <<>>, description |-> <<>>]

FileKeys == {"display_type", "sha", "filename", "mime", "name", "description"}

\* File::fill_field: keys the file does not have are left out with a warning,
\* and DisplayType::from panics on a name it does not know.
Filled(file, entries) ==
    LET set == DOMAIN entries \cap FileKeys
        V(k) == IF k \in {"name", "description"} THEN <<entries[k].text>>
                ELSE entries[k].text
    IN  IF \E k \in set : entries[k].doc # "string" THEN Err
        ELSE IF "display_type" \in set /\ entries["display_type"].text \notin DisplayTypes
        THEN Panic
        ELSE [kind |-> "file",
              file |-> [k \in FileKeys |-> IF k \in set THEN V(k) ELSE file[k]]]

\* File::into_map: name and description only where there are any.
FileMap(f) ==
    LET Opt(k) == k \notin {"name", "description"} \/ f[k] # <<>>
    IN  [k \in {k \in FileKeys : Opt(k)} |->
            [doc |-> "string",
             text |-> IF k \in {"name", "description"} THEN Head(f[k]) ELSE f[k]]]

\* File::url, empty until there is content to point to.
FileUrl(f) == IF f.sha = "" THEN <<>>
              ELSE IF f.filename = "" THEN <<f.sha>> ELSE <<f.sha, f.filename>>

-----------------------------------------------------------------------------
(* Meta fields: any document.                                              *)

RECURSIVE MetaFromDoc(_)
MetaFromDoc(d) ==
    CASE d.doc = "string"   -> [meta |-> "string", text |-> d.text]
      [] d.doc \in {"integer", "float"} -> [meta |-> "number", n |-> d.n]
      [] d.doc = "boolean"  -> [meta |-> "boolean", b |-> d.b]
      [] d.doc = "datetime" -> [meta |-> "date", date |-> DateFromToml(d.spelling).date]
      [] d.doc = "array"    -> [meta |-> "array", items |-> Each(MetaFromDoc, d.items)]
      [] d.doc = "table"    -> [meta |-> "map", entries |-> Each(MetaFromDoc, d.entries)]

\* A JSON null inside a meta field is a todo!().
RECURSIVE HasNull(_)
HasNull(d) ==
    CASE d.doc = "null"  -> TRUE
      [] d.doc = "array" -> \E i \in DOMAIN d.items : HasNull(d.items[i])
      [] d.doc = "table" -> \E k \in DOMAIN d.entries : HasNull(d.entries[k])
      [] OTHER           -> FALSE

RECURSIVE MetaToDoc(_)
MetaToDoc(m) ==
    CASE m.meta = "string"  -> [doc |-> "string", text |-> m.text]
      [] m.meta = "number"  -> [doc |-> "float", n |-> m.n]
      [] m.meta = "boolean" -> [doc |-> "boolean", b |-> m.b]
      [] m.meta = "date"    -> Spelled(Moment(m.date), Moment(m.date).offset)
      [] m.meta = "array"   -> [doc |-> "array", items |-> Each(MetaToDoc, m.items)]
      [] m.meta = "map"     -> [doc |-> "table", entries |-> Each(MetaToDoc, m.entries)]

MetaField(d) == IF HasNull(d) THEN Panic ELSE [kind |-> "meta", meta |-> MetaFromDoc(d)]

-----------------------------------------------------------------------------
(* TOML.                                                                   *)

Text(kind, text) == [kind |-> kind, text |-> text]
Option(t, name)  == t.options[CHOOSE i \in DOMAIN t.options : t.options[i].name = name].type
OptionNames(t)   == {t.options[i].name : i \in DOMAIN t.options}

FileTypes == {"image", "video", "audio", "upload"}

\* FieldValue::from_toml for the types whose value is one scalar.
ScalarFromToml(t, d) ==
    CASE t.kind \in {"string", "secret", "markdown"} /\ d.doc = "string" ->
            Text(t.kind, d.text)
      [] t.kind = "enum" /\ d.doc = "string" /\ d.text \in t.values -> Text("enum", d.text)
      [] t.kind = "number" /\ d.doc \in {"integer", "float"} -> [kind |-> "number", n |-> d.n]
      [] t.kind = "boolean" /\ d.doc = "boolean" -> [kind |-> "boolean", b |-> d.b]
      [] t.kind = "date" /\ d.doc = "datetime" -> DateFromToml(d.spelling)
      [] t.kind = "date" /\ d.doc = "string" /\ d.text \in DOMAIN Dates ->
            DateFrom(Localised(Dates[d.text]))
      [] OTHER -> Err

RECURSIVE FromToml(_, _)
OneofFromToml(t, d) ==
    IF ~ /\ d.doc = "table" /\ "type" \in DOMAIN d.entries
         /\ d.entries["type"].doc = "string"
         /\ d.entries["type"].text \in OptionNames(t)
    THEN Err
    ELSE LET name  == d.entries["type"].text
             inner == FromToml(Option(t, name), d.entries["value"])
         IN  IF "value" \notin DOMAIN d.entries
             THEN [kind |-> "oneof", name |-> name, value |-> <<>>]
             ELSE IF ~IsValue(inner) THEN inner
             ELSE [kind |-> "oneof", name |-> name, value |-> <<inner>>]

FromToml(t, d) ==
    CASE t.kind = "alias"       -> FromToml(t.of, d)
      [] t.kind = "oneof"       -> OneofFromToml(t, d)
      [] t.kind \in FileTypes   -> IF d.doc = "table" THEN Filled(EmptyFile(t.kind), d.entries)
                                   ELSE Err
      [] t.kind = "meta"        -> IF d.doc = "table" THEN MetaField(d) ELSE Err
      [] OTHER                  -> ScalarFromToml(t, d)

\* What to_toml gives for a null, and what an object leaves out.
Nothing == [doc |-> "nothing"]

RECURSIVE ToToml(_)
Table(values) ==
    LET docs == Each(ToToml, values)
    IN  [doc |-> "table",
         entries |-> [k \in {k \in DOMAIN docs : docs[k] # Nothing} |-> docs[k]]]
ToToml(v) ==
    CASE v.kind \in {"string", "secret", "enum", "markdown"} -> [doc |-> "string", text |-> v.text]
      [] v.kind = "number"  -> [doc |-> "float", n |-> v.n]
      [] v.kind = "boolean" -> [doc |-> "boolean", b |-> v.b]
      [] v.kind = "date"    -> Spelled(Moment(v.date), NoOffset)
      [] v.kind = "objects" -> [doc |-> "array", items |-> Each(Table, v.children)]
      [] v.kind = "oneof"   ->
            LET type  == [k \in {"type"} |-> [doc |-> "string", text |-> v.name]]
                inner == IF v.value = <<>> THEN Nothing ELSE ToToml(Head(v.value))
            IN  [doc |-> "table",
                 entries |-> IF inner = Nothing THEN type
                             ELSE [k \in {"type", "value"} |->
                                      IF k = "type" THEN type[k] ELSE inner]]
      [] v.kind = "file"    -> [doc |-> "table", entries |-> FileMap(v.file)]
      [] v.kind = "meta"    -> MetaToDoc(v.meta)
      [] v.kind = "null"    -> Nothing

-----------------------------------------------------------------------------
(* Strings and JSON, as editors send them.                                 *)

\* FieldValue::from_string.
FromString(type, text) ==
    LET t == BaseType(type)
    IN  CASE t.kind \in {"string", "secret", "markdown"} -> Text(t.kind, text)
          [] t.kind = "number" /\ text = ""   -> [kind |-> "number", n |-> 0]
          [] t.kind = "boolean" /\ text = ""  -> [kind |-> "boolean", b |-> FALSE]
          [] t.kind = "number" /\ text \in DOMAIN Numerals ->
                [kind |-> "number", n |-> Numerals[text]]
          [] t.kind = "boolean" /\ text \in DOMAIN Truths ->
                [kind |-> "boolean", b |-> Truths[text]]
          [] t.kind = "enum" /\ text \in t.values -> Text("enum", text)
          [] t.kind = "date" /\ text \in DOMAIN Dates -> DateFrom(Localised(Dates[text]))
          [] OTHER -> Err

\* FieldValue::field_from_json follows one alias only.
RECURSIVE FromJson(_, _)

SlipOneofItselfFromJson(t, d) ==
    LET inner == FromJson(t, d.entries["value"])
    IN  IF IsValue(inner) THEN [kind |-> "oneof", name |-> d.entries["type"].text, value |-> <<inner>>]
        ELSE Err

\* The items of an array are read as children whose every key has the type of
\* the field itself, since their path is still the field's.
ArrayFromJson(type, d) ==
    IF ~AllTables(d.items) THEN Panic
    ELSE LET read == [i \in DOMAIN d.items |->
                         [k \in DOMAIN d.items[i].entries |-> FromJson(type, d.items[i].entries[k])]]
         IN  IF \E i \in DOMAIN read : \E k \in DOMAIN read[i] : ~IsValue(read[i][k]) THEN Err
             ELSE [kind |-> "objects", children |-> read]

OneofFromJson(t, d) ==
    IF "type" \notin DOMAIN d.entries \/ d.entries["type"].doc # "string" THEN Err
    ELSE LET name  == d.entries["type"].text
             inner == FromJson(Option(t, name), d.entries["value"])
         IN  IF name \notin OptionNames(t) THEN Err
             ELSE IF "value" \notin DOMAIN d.entries
             THEN [kind |-> "oneof", name |-> name, value |-> <<>>]
             ELSE IF ~IsValue(inner) THEN inner
             ELSE [kind |-> "oneof", name |-> name, value |-> <<inner>>]

FromJson(type, d) ==
    LET t == IF type.kind = "alias" THEN type.of ELSE type
    IN  CASE d.doc = "string" ->
                IF t.kind \in {"date", "enum", "number", "boolean"} THEN FromString(t, d.text)
                ELSE Text(IF t.kind \in {"markdown", "secret"} THEN t.kind ELSE "string", d.text)
          [] d.doc = "boolean" -> [kind |-> "boolean", b |-> d.b]
          [] d.doc = "float"   -> [kind |-> "number", n |-> d.n]
          [] d.doc = "null"    -> Text(IF t.kind = "secret" THEN "secret" ELSE "string", "")
          [] d.doc = "array"   -> ArrayFromJson(type, d)
          [] d.doc = "table"   ->
                CASE t.kind = "oneof"      -> OneofFromJson(t, d)
                  [] t.kind \in FileTypes  -> Filled(EmptyFile("upload"), d.entries)
                  [] t.kind = "meta"       -> MetaField(d)
                  [] OTHER                 -> Err

-----------------------------------------------------------------------------
(* What templates and editors see.                                         *)

\* FieldValue::rendered: a null is a todo!().
RECURSIVE Renders(_)
Renders(v) ==
    CASE v.kind = "null"    -> FALSE
      [] v.kind = "oneof"   -> v.value = <<>> \/ Renders(Head(v.value))
      [] v.kind = "objects" -> \A i \in DOMAIN v.children :
                                  \A k \in DOMAIN v.children[i] : Renders(v.children[i][k])
      [] OTHER              -> TRUE

Nil == [liquid |-> "nil"]

\* FieldValue::to_liquid: markdown as its html, a secret as nothing at all.
RECURSIVE ToLiquid(_)
ToLiquid(v) ==
    CASE v.kind \in {"secret", "null"}   -> Nil
      [] v.kind \in {"string", "enum"}   -> [liquid |-> "text", text |-> v.text]
      [] v.kind = "markdown"             -> [liquid |-> "html", text |-> v.text]
      [] v.kind = "number"               -> [liquid |-> "number", n |-> v.n]
      [] v.kind = "boolean"              -> [liquid |-> "boolean", b |-> v.b]
      [] v.kind = "date"                 -> [liquid |-> "date", moment |-> Moment(v.date)]
      [] v.kind = "file"                 -> [liquid |-> "file", map |-> FileMap(v.file),
                                             url |-> FileUrl(v.file)]
      [] v.kind = "meta"                 -> [liquid |-> "meta", map |-> v.meta]
      [] v.kind = "oneof"                ->
            IF v.value = <<>> THEN Nil
            ELSE [liquid |-> "oneof", name |-> v.name, value |-> ToLiquid(Head(v.value))]
      [] v.kind = "objects"              ->
            [liquid |-> "array", items |-> [i \in DOMAIN v.children |-> Each(ToLiquid, v.children[i])]]

-----------------------------------------------------------------------------
(* Validation.                                                             *)

\* FieldValue::as_secret and as_string: what a validator is given.
TextOf(v) ==
    CASE v.kind \in {"string", "secret", "enum", "markdown"} -> v.text
      [] v.kind = "number"  -> CHOOSE s \in DOMAIN Numerals : Numerals[s] = v.n
      [] v.kind = "boolean" -> CHOOSE s \in DOMAIN Truths : Truths[s] = v.b
      [] OTHER              -> v.kind

\* ValuePath::get_value of the paths a validator may have: a key of a file.
ValueAt(v, key) ==
    IF v.kind = "file" /\ key \in FileKeys
    THEN IF key \in {"name", "description"}
         THEN IF v.file[key] = <<>> THEN "" ELSE Head(v.file[key])
         ELSE v.file[key]
    ELSE ""

\* FieldValue::run_custom_validation: only the outermost alias is asked; a
\* value that is not there must satisfy the validator as an empty text would.
PassesCustom(v, t, editors) ==
    t.kind = "alias" /\ t.name \in DOMAIN editors =>
        \A check \in editors[t.name].validate :
            (IF check.path = "" THEN TextOf(v) ELSE ValueAt(v, check.path)) \in check.accepts

SlipAnyEnumValue(v, t) ==
    CASE v.kind = "null" -> TRUE
      [] v.kind = "file" -> t.kind \in FileTypes /\ v.file.display_type = t.kind
      [] OTHER -> v.kind \notin {"oneof", "objects"} /\ v.kind = t.kind

\* FieldValue::validate_type.
PassesType(v, t) ==
    CASE v.kind = "null" -> TRUE
      [] v.kind = "enum" -> t.kind = "enum" /\ v.text \in t.values
      [] v.kind = "file" -> t.kind \in FileTypes /\ v.file.display_type = t.kind
      [] OTHER -> v.kind \notin {"oneof", "objects"} /\ v.kind = t.kind

\* FieldValue::validate for a value at the path of a field of type t.  The
\* fields of objects are looked up below that path and found at its first key,
\* so each is held against t, and a list of nothing passes for any field.
RECURSIVE Validates(_, _, _)
Validates(v, t, editors) ==
    LET base == BaseType(t)
    IN  /\ PassesCustom(v, t, editors)
        /\ CASE v.kind = "oneof" ->
                    /\ base.kind = "oneof"
                    /\ v.name \in OptionNames(base)
                    /\ v.value # <<>> =>
                         LET inner == Option(base, v.name)
                         IN  /\ PassesCustom(Head(v.value), inner, editors)
                             /\ PassesType(Head(v.value), BaseType(inner))
             [] v.kind = "objects" ->
                    \A i \in DOMAIN v.children : \A k \in DOMAIN v.children[i] :
                        Validates(v.children[i][k], t, editors)
             [] OTHER -> PassesType(v, base)
=============================================================================
