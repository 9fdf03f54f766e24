------------------------------ MODULE SiteFiles ------------------------------
(***************************************************************************)
(* The files that make a directory a site: its manifest and its object     *)
(* definitions, each under a canonical and a legacy name, and its objects. *)
(* Authors write them; a host opens the site, with or without an upload    *)
(* prefix of its own, and modifies its manifest; and `archival format`     *)
(* rewrites them all.                                                      *)
(***************************************************************************)
EXTENDS SiteLoading

CONSTANTS ReadDefinitions(_, _), \* a document, editor types |-> definitions, or Err
          Rewritten(_, _, _),    \* an object's entries, its definition, editor types
                                 \* |-> the entries it is written back with, or Err
          Written,      \* a file's name |-> what authors write there
          ObjectDocs,   \* an object file |-> what authors write there
          Settings,     \* a field of the manifest |-> the texts hosts set it to
          Overrides,    \* the upload prefixes hosts open a site with: <<>> or <<text>>
          MaxSteps      \* bound: what authors and hosts do

Docs == {"missing", "broken", "table"}

\* Authors write a file or leave none; hosts set what Manifest::set takes.
ASSUME SiteFilesAssumption ==
    /\ Canonical \in DOMAIN Written
    /\ \A f \in DOMAIN Written : \A d \in Written[f] : d.doc \in Docs
    /\ \A o \in DOMAIN ObjectDocs : \A d \in ObjectDocs[o] : d.doc \in Docs
    /\ DOMAIN Settings \subseteq Settable
    /\ \A prefix \in Overrides : prefix # <<>> => prefix = <<Head(prefix)>>
    /\ MaxSteps \in Nat

VARIABLES files,    \* the manifests and definitions files
          objects,  \* the object files
          site,     \* what the host opened, and the prefix it gave
          current,  \* history: the manifest's files are as the host last saw them
          steps

vars == <<files, objects, site, current, steps>>

Closed == [kind |-> "closed"]

Init ==
    /\ files = [f \in DOMAIN Written |-> NoFile]
    /\ objects = [o \in DOMAIN ObjectDocs |-> NoFile]
    /\ site = Closed
    /\ current = FALSE
    /\ steps = 0

Step == steps < MaxSteps /\ steps' = steps + 1

-----------------------------------------------------------------------------
WriteFile(f, d) ==
    /\ Step
    /\ files[f] # d
    /\ files' = [files EXCEPT ![f] = d]
    /\ current' = FALSE
    /\ UNCHANGED <<objects, site>>

WriteObject(o, d) ==
    /\ Step
    /\ objects[o] # d
    /\ objects' = [objects EXCEPT ![o] = d]
    /\ UNCHANGED <<files, site, current>>

\* Site::load.
LoadSite(disk, prefix) == SiteOf(disk, prefix, ReadDefinitions)

\* Archival::new and new_with_upload_prefix.
Open(prefix) ==
    /\ Step
    /\ LET read == LoadSite(files, prefix)
       IN  /\ read # Err
           /\ site' = [kind |-> "open", prefix |-> prefix, manifest |-> read.manifest, defs |-> read.defs]
    /\ current' = TRUE
    /\ UNCHANGED <<files, objects>>

\* The manifest is written whole, over whatever the file holds by now.
WriteManifest(m, disk) ==
    [disk EXCEPT ![ManifestName(disk)] = [doc |-> "table", entries |-> ManifestTable(m)]]

\* Archival::modify_manifest: what it sets is checked at the next load only.
Modify(k, text) ==
    /\ Step
    /\ site # Closed
    /\ LET m == SetField(site.manifest, k, text)
       IN  /\ site' = [site EXCEPT !.manifest = m]
           /\ files' = WriteManifest(m, files)
    /\ UNCHANGED <<objects, current>>

\* `archival format`, a process of its own: an object that cannot be read
\* stops it before the manifest is written.
Known(o, read) == o.dir = read.manifest.objects /\ o.type \in DOMAIN read.defs

Formatted(o, read) ==
    Rewritten(objects[o].entries, read.defs[o.type], Editing(read.manifest.editor_types))

Readable(o, read) == objects[o].doc = "table" /\ Formatted(o, read) # Err

Format ==
    /\ Step
    /\ LET read == LoadSite(files, <<>>)
           mine == {o \in DOMAIN objects : objects[o] # NoFile /\ Known(o, read)}
       IN  /\ read # Err
           /\ \A o \in mine : Readable(o, read)
           /\ objects' = [o \in DOMAIN objects |->
                             IF o \in mine THEN [doc |-> "table", entries |-> Formatted(o, read)] ELSE objects[o]]
           /\ files' = WriteManifest(read.manifest, files)
    /\ current' = FALSE
    /\ UNCHANGED site

Next ==
    \/ \E f \in DOMAIN Written : \E d \in Written[f] : WriteFile(f, d)
    \/ \E o \in DOMAIN ObjectDocs : \E d \in ObjectDocs[o] : WriteObject(o, d)
    \/ \E prefix \in Overrides : Open(prefix)
    \/ \E k \in DOMAIN Settings : \E text \in Settings[k] : Modify(k, text)
    \/ Format

Spec == Init /\ [][Next]_vars

-----------------------------------------------------------------------------
(* Properties.                                                             *)

\* Files hold documents, and the host's site is a manifest with definitions.
TypeOK ==
    /\ \A f \in DOMAIN files : files[f].doc \in Docs
    /\ DOMAIN files = DOMAIN Written
    /\ \A o \in DOMAIN objects : objects[o].doc \in Docs
    /\ site # Closed => \A k \in TextFields \cup {"scripts_dir"} : Len(site.manifest[k]) \in {0, 1}
    /\ current \in BOOLEAN
    /\ steps \in 0 .. MaxSteps

\* What an open site holds is what a restart would read, however the site was
\* opened and modified: to_toml leaves out what from_string puts back, and
\* modify_manifest writes the file that path_in finds again.  A manifest that
\* a load refuses is not held against it, nor one that names the legacy file of
\* definitions where the canonical one is there too: to_toml takes that name
\* for a default and leaves it out.
Unnamed(m) == m.object_file = LegacyDefinitions /\ Exists(files, Definitions)
Meant(m) == [k \in DOMAIN m |-> IF SaysNothing(m, k) THEN <<>> ELSE m[k]]
ManifestIsReadBack ==
    site # Closed /\ current /\ ~Unnamed(site.manifest) =>
        LET again == LoadSite(files, site.prefix)
            Kept(m) == Meant([m EXCEPT !.object_file = DefinitionsName(m, files)])
        IN  /\ /\ BuildDirIsApart(site.manifest) /\ ScriptsStayInside(site.manifest)
               /\ Range(site.manifest.archival_version) \subseteq Compatible
               => ManifestOf(files, site.prefix) # Err
            /\ again # Err => Kept(again.manifest) = Kept(site.manifest)

\* A host that sets a field changes that field and, for whoever loads the site
\* next, no other -- but for the upload prefix of a host that brought its own,
\* which from_string puts in the manifest and to_toml then writes out.
Means(m, k, disk) == IF k = "object_file" THEN DefinitionsName(m, disk) ELSE Meant(m)[k]
Leaks == (IF site.prefix = <<>> THEN {} ELSE {"upload_prefix"})
         \cup (IF Unnamed(site.manifest) THEN {"object_file"} ELSE {})
OnlyTheFieldChanges ==
    \A k \in DOMAIN Settings : \A text \in Settings[k] :
      LET before == ManifestOf(files, <<>>)
          after  == ManifestOf(files', <<>>)
      IN  Modify(k, text) /\ current /\ before # Err /\ after # Err =>
            \A other \in DOMAIN site.manifest \ ({k} \cup Leaks) :
              Means(after.manifest, other, files') = Means(before.manifest, other, files)

\* Formatting changes how a manifest is written, not what it means: the site
\* loads as it did.  A manifest that names itself as the file of definitions is
\* not meant.
Apart(m) == m.object_file \notin {Canonical, Legacy}
FormattingKeepsTheSite ==
    LET before == LoadSite(files, <<>>)
        after  == LoadSite(files', <<>>)
    IN  Format /\ ~Unnamed(before.manifest) /\ Apart(before.manifest) =>
          /\ after # Err
          /\ Meant(after.manifest) = Meant(before.manifest)
          /\ after.defs = before.defs

\* A manifest survives its own file.
ManifestSurvives == TypeOK /\ ManifestIsReadBack

\* What is rewritten keeps all that was not to change.
RewritesKeepTheRest == [][OnlyTheFieldChanges /\ FormattingKeepsTheSite]_vars
=============================================================================
