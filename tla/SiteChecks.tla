----------------------------- MODULE SiteChecks -----------------------------
(***************************************************************************)
(* What Archival makes of a site's files: how definitions and objects are  *)
(* read, what `archival validate` reports of them (src/src/validate.rs), and     *)
(* what the language server reports of one file (src/src/lsp/builtin.rs    *)
(* and objects.rs), which is written apart from the former.                *)
(***************************************************************************)
EXTENDS SiteLoading, ObjectValues

-----------------------------------------------------------------------------
(* Loading.                                                                *)

\* ObjectDefinition::from_source: whatever is not a table is no definition.
DefinitionsFrom(d, editors) ==
    IF d.doc # "table" THEN Err
    ELSE LET types == {k \in DOMAIN d.entries : d.entries[k].doc = "table"}
             defs  == [k \in types |-> DefinitionFrom(k, d.entries[k].entries, editors)]
         IN  IF \E k \in types : defs[k] = NoDefinition THEN Err
             ELSE [kind |-> "definitions", defs |-> defs]

\* `archival format` of one object's entries; Err when they cannot be read.
FormattedFrom(entries, def, editors) ==
    LET object == FromTable(entries, def, editors, TRUE)
    IN  IF IsValue(object) THEN ToTable(object, def) ELSE Err

-----------------------------------------------------------------------------
(* Diagnostics.                                                            *)

\* value_error.
ValueFault(object) == Fault("value", object, "")

Alone(entries, k) == [e \in {k} |-> entries[k]]

SlipFirstFaultOf(name, entries, editors) ==
    LET wrong == {k \in DOMAIN entries :
                     DefinitionFrom(name, Alone(entries, k), editors) = NoDefinition}
    IN  IF wrong = {} THEN {} ELSE DefinitionFault(name, CHOOSE k \in wrong : TRUE)

\* The mistakes in one definition: each key on its own, unless its name is
\* reserved or only the whole is wrong.
FaultsOf(name, entries, editors) ==
    LET wrong == {k \in DOMAIN entries :
                     DefinitionFrom(name, Alone(entries, k), editors) = NoDefinition}
    IN  IF DefinitionFrom(name, entries, editors) # NoDefinition THEN {}
        ELSE IF name \in Reserved \/ wrong = {} THEN DefinitionFault(name, "")
        ELSE UNION {DefinitionFault(name, k) : k \in wrong}

\* validate::definitions.
DefinitionFaults(d, editors) ==
    IF d = Broken THEN Fault("toml_syntax", "", "")
    ELSE UNION {FaultsOf(k, d.entries[k].entries, editors) :
                    k \in {k \in DOMAIN d.entries : d.entries[k].doc = "table"}}

ChildTables(d) ==
    CASE d.doc = "table" -> {d.entries}
      [] d.doc = "array" -> {item.entries : item \in {i \in Range(d.items) : i.doc = "table"}}
      [] OTHER           -> {}

\* walk: keys that are neither fields nor children, at any depth.
RECURSIVE UnknownKeys(_, _, _, _)
UnknownKeys(name, entries, def, editors) ==
    LET children == {k \in DOMAIN entries : KeyOf(k, editors) \in DOMAIN def.children}
        unknown  == {k \in DOMAIN entries \ children :
                        KeyOf(k, editors) \notin DOMAIN def.fields \cup Reserved}
        Below(k) == LET c == KeyOf(k, editors)
                    IN  UNION {UnknownKeys(c, e, def.children[c], editors) : e \in ChildTables(entries[k])}
    IN  UNION {Fault("unknown_field", name, k) : k \in unknown} \cup UNION {Below(k) : k \in children}

OrderFaults(entries) ==
    IF "order" \in DOMAIN entries /\ entries["order"].doc \notin {"integer", "float"}
    THEN Fault("non_numeric_order", "", "order") ELSE {}

SlipKeysOnly(d, name, def, editors) ==
    IF d = Broken THEN Fault("toml_syntax", "", "") ELSE UnknownKeys(name, d.entries, def, editors)

\* validate::object, and the server's objects::validate: here values are
\* validated, where Site::load skips that.
ObjectFaults(d, name, def, editors) ==
    IF d = Broken THEN Fault("toml_syntax", "", "")
    ELSE UnknownKeys(name, d.entries, def, editors)
         \cup OrderFaults(d.entries)
         \cup (IF IsValue(FromTable(d.entries, def, editors, FALSE)) THEN {}
               ELSE ValueFault(name))

IsError(fault) == fault.code \notin {"unknown_field", "non_numeric_order"}

-----------------------------------------------------------------------------
(* validate::site.  Object files are named by their directory, their type  *)
(* and their place: the type's own file, its directory, or beneath that.   *)

ObjectFile(dir, type, place) == [dir |-> dir, type |-> type, place |-> place]

ObjectsChecked(files, objects, m, defs) ==
    {o \in DOMAIN objects :
        /\ objects[o] # NoFile
        /\ o.dir = m.objects /\ o.type \in DOMAIN defs /\ o.place \in {"own", "listed"}}

Report(files, objects) ==
    LET d      == At(files, Canonical)
        read   == IF d = NoFile THEN [kind |-> "manifest", manifest |-> DefaultManifest("")]
                  ELSE IF d = Broken THEN Err ELSE ManifestFrom(d.entries, <<"">>)
        types  == Editing(read.manifest.editor_types)
        source == At(files, read.manifest.object_file)
        defs   == DefinitionsFrom(source, types)
    IN  IF read = Err THEN ManifestFaults(d)
        ELSE IF source = NoFile THEN {}
        ELSE IF defs = Err THEN DefinitionFaults(source, types)
        ELSE UNION {ObjectFaults(objects[o], o.type, defs.defs[o.type], types) :
                        o \in ObjectsChecked(files, objects, read.manifest, defs.defs)}
=============================================================================
