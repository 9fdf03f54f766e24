------------------------------ MODULE Manifests ------------------------------
(***************************************************************************)
(* A site's manifest (src/src/manifest.rs): read from the entries of its   *)
(* table, checked, changed field by field, and written back without what   *)
(* is the default.  A site is loaded through a filesystem rooted at it, so *)
(* the paths of a manifest are as they were written.                       *)
(***************************************************************************)
EXTENDS TomlDocs

CONSTANTS Parts,      \* a path |-> its components, "." and ".." among them
          Patterns,   \* a text that is a regular expression |-> what matches it
          Compatible  \* the versions this archival accepts

Canonical         == "archival.toml"
Legacy            == "manifest.toml"
Definitions       == "archival_objects.toml"
LegacyDefinitions == "objects.toml"

TextFields == {"archival_version", "uploads_url", "site_url", "site_name"}
DirFields  == {"pages", "objects", "build_dir", "static_dir", "schemas_dir", "layout_dir"}
PathFields == DirFields \cup {"object_file"}

DefaultManifest(prefix) ==
    [upload_prefix |-> prefix, archival_version |-> <<>>, uploads_url |-> <<>>,
     site_url |-> <<>>, site_name |-> <<>>, prebuild |-> <<>>,
     object_file |-> Definitions, pages |-> "pages", objects |-> "objects",
     schemas_dir |-> "schemas", build_dir |-> "dist", static_dir |-> "public",
     layout_dir |-> "layout", scripts_dir |-> <<"scripts">>, scripts_build_dir |-> "js",
     editor_types |-> NoEntries, metadata |-> <<>>, sitemap |-> TRUE]

-----------------------------------------------------------------------------
(* Editor types.                                                           *)

Nested == {"meta", "upload", "video", "audio", "image"}

HasText(entries, k) == k \in DOMAIN entries /\ entries[k].doc = "string"

\* One validator: a pattern, or a table of a path and a pattern for the types
\* whose values have parts.
ValidatorFrom(d, alias) ==
    IF d.doc = "string" /\ d.text \in DOMAIN Patterns THEN [path |-> "", pattern |-> d.text]
    ELSE IF /\ d.doc = "table" /\ alias \in Nested
            /\ HasText(d.entries, "path") /\ HasText(d.entries, "validate")
            /\ d.entries["validate"].text \in DOMAIN Patterns
    THEN [path |-> d.entries["path"].text, pattern |-> d.entries["validate"].text]
    ELSE Err

EditorTypeFrom(d) ==
    IF d.doc # "table" THEN Err
    ELSE LET e    == d.entries
             has  == "validate" \in DOMAIN e
             read == [i \in DOMAIN e["validate"].items |->
                         ValidatorFrom(e["validate"].items[i], e["type"].text)]
         IN  IF \/ ~HasText(e, "type")
                \/ "editor_url" \in DOMAIN e /\ ~HasText(e, "editor_url")
                \/ has /\ e["validate"].doc # "array"
                \/ has /\ \E i \in DOMAIN read : read[i] = Err
             THEN Err
             ELSE [aliasOf    |-> e["type"].text,
                   validate   |-> IF has THEN read ELSE <<>>,
                   editor_url |-> IF "editor_url" \in DOMAIN e THEN e["editor_url"].text ELSE ""]

\* Manifest::parse_editor_types.
EditorTypesFrom(d) ==
    IF d.doc # "table" THEN Err
    ELSE LET read == Each(EditorTypeFrom, d.entries)
         IN  IF \E k \in DOMAIN read : read[k] = Err THEN Err
             ELSE [kind |-> "types", types |-> read]

\* What the object parsers use of them.
Editing(types) ==
    [k \in DOMAIN types |->
        [aliasOf  |-> types[k].aliasOf,
         validate |-> {[path |-> v.path, accepts |-> Patterns[v.pattern]] : v \in Range(types[k].validate)}]]

SlipFlatValidators(t) ==
    [doc |-> "table",
     entries |-> [k \in {"type", "validate"} |->
         IF k = "type" THEN String(t.aliasOf)
         ELSE [doc |-> "array", items |-> [i \in DOMAIN t.validate |-> String(t.validate[i].pattern)]]]]

ValidatorDoc(v) ==
    IF v.path = "" THEN String(v.pattern)
    ELSE [doc |-> "table", entries |->
             [k \in {"path", "validate"} |-> String(IF k = "path" THEN v.path ELSE v.pattern)]]

EditorTypeDoc(t) ==
    LET keys == {"type", "validate"} \cup (IF t.editor_url = "" THEN {} ELSE {"editor_url"})
    IN  [doc |-> "table",
         entries |-> [k \in keys |->
             CASE k = "type"     -> String(t.aliasOf)
               [] k = "validate" -> [doc |-> "array", items |-> Each(ValidatorDoc, t.validate)]
               [] OTHER          -> String(t.editor_url)]]

-----------------------------------------------------------------------------
(* Reading.                                                                *)

\* The manifest's directories that a build reads.
Sources(m) == {m.objects, m.pages, m.layout_dir, m.static_dir} \cup Range(m.scripts_dir)

Beneath(p, dir) == IsPrefix(Parts[dir], Parts[p])

\* Manifest::validate_build_dir and scripts_build_path.
BuildDirIsApart(m) == \A dir \in Sources(m) : ~Beneath(m.build_dir, dir) /\ ~Beneath(dir, m.build_dir)
ScriptsStayInside(m) == ".." \notin Range(Parts[m.scripts_build_dir])

Refused(k, d, prefix) ==
    CASE k \in PathFields \cup {"scripts_build_dir"} -> d.doc # "string"
      [] k = "scripts_dir"   -> d.doc # "string" /\ d # Boolean(FALSE)
      [] k = "editor_types"  -> EditorTypesFrom(d) = Err
      [] k = "metadata"      -> d.doc # "table" \/ \E e \in Range(d.entries) : e.doc # "string"
      [] k = "sitemap"       -> d.doc # "boolean"
      [] k = "upload_prefix" -> prefix = <<>> /\ d.doc # "string"
      [] OTHER               -> FALSE

TextOrNone(d) == IF d.doc = "string" THEN d.text ELSE ""

ReadField(k, d) ==
    CASE k \in TextFields    -> IF d.doc = "string" THEN <<d.text>> ELSE <<>>
      [] k = "scripts_dir"   -> IF d.doc = "string" THEN <<d.text>> ELSE <<>>
      [] k = "prebuild"      -> IF d.doc = "array" THEN Each(TextOrNone, d.items) ELSE <<>>
      [] k = "editor_types"  -> EditorTypesFrom(d).types
      [] k = "metadata"      -> <<[e \in DOMAIN d.entries |-> d.entries[e].text]>>
      [] k = "sitemap"       -> d.b
      [] OTHER               -> d.text

\* Manifest::from_string: a prefix given by whoever loads the site is used
\* instead of the manifest's; a key that is no field is left alone.
ManifestFrom(entries, prefix) ==
    LET default == DefaultManifest(IF prefix = <<>> THEN "" ELSE Head(prefix))
        set == (DOMAIN entries \cap DOMAIN default)
                 \ (IF prefix = <<>> THEN {} ELSE {"upload_prefix"})
        m   == [k \in DOMAIN default |-> IF k \in set THEN ReadField(k, entries[k]) ELSE default[k]]
    IN  IF \/ \E k \in set : Refused(k, entries[k], prefix)
           \/ ~BuildDirIsApart(m) \/ ~ScriptsStayInside(m)
        THEN Err
        ELSE [kind |-> "manifest", manifest |-> m]

-----------------------------------------------------------------------------
(* Changing and writing.                                                   *)

\* The fields Manifest::set takes; it panics on the others.
Settable == TextFields \cup PathFields \cup {"scripts_dir", "scripts_build_dir", "sitemap"}

SlipAddText(m, k, text) ==
    [m EXCEPT ![k] = IF k \in TextFields \cup {"scripts_dir"} THEN Append(@, text) ELSE text]

SetField(m, k, text) ==
    [m EXCEPT ![k] = CASE k \in TextFields  -> <<text>>
                       [] k = "scripts_dir" -> IF text = "false" THEN <<>> ELSE <<text>>
                       [] k = "sitemap"     -> text # "false"
                       [] OTHER             -> text]

SlipScriptsOffIsDefault(m, k) ==
    m[k] \in {DefaultManifest("")[k]} \cup (IF k = "scripts_dir" THEN {<<>>} ELSE {})

\* Manifest::is_default: the legacy name of the definitions counts as one, and
\* so does what is there and empty.
SaysNothing(m, k) ==
    \/ k \in TextFields /\ m[k] = <<"">>
    \/ k = "metadata" /\ m[k] # <<>> /\ DOMAIN Head(m[k]) = {}

IsDefault(m, k) ==
    \/ m[k] = DefaultManifest("")[k]
    \/ k = "object_file" /\ m[k] = LegacyDefinitions
    \/ SaysNothing(m, k)

FieldDoc(m, k) ==
    CASE k \in TextFields   -> String(Head(m[k]))
      [] k = "scripts_dir"  -> IF m[k] = <<>> THEN Boolean(FALSE) ELSE String(Head(m[k]))
      [] k = "sitemap"      -> Boolean(m[k])
      [] k = "prebuild"     -> [doc |-> "array", items |-> Each(String, m[k])]
      [] k = "metadata"     -> [doc |-> "table", entries |-> Each(String, Head(m[k]))]
      [] k = "editor_types" -> [doc |-> "table", entries |-> Each(EditorTypeDoc, m[k])]
      [] OTHER              -> String(m[k])

\* Manifest::to_toml.
ManifestTable(m) == [k \in {k \in DOMAIN m : ~IsDefault(m, k)} |-> FieldDoc(m, k)]
=============================================================================
