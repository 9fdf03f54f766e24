----------------------------- MODULE SiteLoading -----------------------------
(***************************************************************************)
(* How a site is loaded from the files of its directory (Site::load): which *)
(* files are read, under which names, and what the language server says of  *)
(* the manifest and the definitions among them.  Reading definitions is an  *)
(* operator, Read(d, editors): of a document and the editor types.          *)
(***************************************************************************)
EXTENDS Manifests

NoFile == [doc |-> "missing"]
Broken == [doc |-> "broken"]      \* text that is not TOML

At(files, name) == IF name \in DOMAIN files THEN files[name] ELSE NoFile
Exists(files, name) == At(files, name) # NoFile

\* Manifest::path_in.
ManifestName(files) ==
    IF Exists(files, Legacy) /\ ~Exists(files, Canonical) THEN Legacy ELSE Canonical

\* Manifest::resolve_object_definition_file.
DefinitionsName(m, files) ==
    IF m.object_file = Definitions /\ ~Exists(files, Definitions) /\ Exists(files, LegacyDefinitions)
    THEN LegacyDefinitions ELSE m.object_file

\* The manifest a site is loaded with, which may be none at all.
ManifestOf(files, prefix) ==
    LET d == At(files, ManifestName(files))
    IN  IF d.doc = "table" THEN ManifestFrom(d.entries, prefix)
        ELSE IF d = NoFile /\ prefix # <<>>
        THEN [kind |-> "manifest", manifest |-> DefaultManifest(Head(prefix))]
        ELSE Err

\* Site::load.
SiteOf(files, prefix, Read(_, _)) ==
    LET read  == ManifestOf(files, prefix)
        m     == read.manifest
        named == DefinitionsName(m, files)
        defs  == Read(At(files, named), Editing(m.editor_types))
    IN  IF \/ read = Err \/ ~Range(m.archival_version) \subseteq Compatible
           \/ ~Exists(files, named) \/ defs = Err
        THEN Err
        ELSE [kind |-> "site", manifest |-> [m EXCEPT !.object_file = named], defs |-> defs.defs]

-----------------------------------------------------------------------------
(* Diagnostics: a code, the type and the key it is about.                  *)

Fault(code, object, field) == {[code |-> code, object |-> object, field |-> field]}

\* definition_error; which rule was broken is left out.
DefinitionFault(object, field) == Fault("definition", object, field)

\* validate::manifest, and the server's validate_manifest.
ManifestFaults(d) ==
    CASE d = Broken -> Fault("toml_syntax", "", "")
      [] d.doc = "table" /\ ManifestFrom(d.entries, <<"">>) = Err -> Fault("invalid_manifest", "", "")
      [] OTHER -> {}

SlipSyntaxOnly(d, read) == IF d = Broken THEN Fault("toml_syntax", "", "") ELSE {}

\* The server's validate_definitions, of a document and what it was read as:
\* the first mistake, whichever it is.
ServerDefinitionFaults(d, read) ==
    IF d = Broken THEN Fault("toml_syntax", "", "")
    ELSE IF read = Err THEN DefinitionFault("", "") ELSE {}
=============================================================================
