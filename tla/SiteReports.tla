----------------------------- MODULE SiteReports -----------------------------
(***************************************************************************)
(* What `archival validate` and the language server say of the files of    *)
(* SiteFiles, which authors, hosts and `archival format` write.            *)
(***************************************************************************)
EXTENDS SiteFiles, SiteChecks

\* The run gives SiteFiles the readers and writers of SiteChecks.
ASSUME ReadersAssumption ==
    \A f \in DOMAIN Written : \A d \in Written[f] :
        ReadDefinitions(d, NoEntries) = DefinitionsFrom(d, NoEntries)

\* validate.rs reports what a load of the same files would stop at, as long as
\* the site has its files under their canonical names (validate.rs:1-16).
Named ==
    /\ Exists(files, Canonical) \/ ~Exists(files, Legacy)
    /\ LET m == ManifestOf(files, <<"">>) IN m # Err => Exists(files, m.manifest.object_file)
Versioned ==
    LET m == ManifestOf(files, <<"">>)
    IN  m # Err => Range(m.manifest.archival_version) \subseteq Compatible
ReportIsTheLoadersWord ==
    Named /\ Versioned =>
        LET read    == LoadSite(files, <<"">>)
            errors  == {e \in Report(files, objects) : IsError(e)}
        IN  /\ read = Err => errors # {}
            /\ errors = {} => \A o \in {o \in DOMAIN objects : objects[o] # NoFile /\ Known(o, read)} :
                                 Readable(o, read)

\* Without those exemptions: a directory with a manifest that does not load as
\* a site has errors (validate.rs:3-5).  A missing definitions file and a version
\* it cannot read break it (README, Known departures).
UnloadableIsReported ==
    Exists(files, Canonical) /\ LoadSite(files, <<"">>) = Err =>
        \E e \in Report(files, objects) : IsError(e)

\* The narrowing of validate::definitions finds every mistake of a file at
\* once: without the keys and types it names, the file is accepted.
Mend(entries, found) ==
    LET dropped == {e.object : e \in {e \in found : e.field = ""}}
    IN  [t \in DOMAIN entries \ dropped |->
            IF entries[t].doc # "table" THEN entries[t]
            ELSE [doc |-> "table",
                  entries |-> [k \in {k \in DOMAIN entries[t].entries :
                                        \A e \in found : ~(e.object = t /\ e.field = k)} |->
                                   entries[t].entries[k]]]]
NarrowingFindsEveryMistake ==
    LET m == ManifestOf(files, <<"">>)
    IN  m # Err =>
          LET d     == At(files, m.manifest.object_file)
              types == Editing(m.manifest.editor_types)
              found == DefinitionFaults(d, types)
          IN  d.doc = "table" =>
                /\ found = {} <=> ServerDefinitionFaults(d, DefinitionsFrom(d, types)) = {}
                /\ DefinitionsFrom([d EXCEPT !.entries = Mend(d.entries, found)], types) # Err

\* validate and the language server say of the files what the loader makes of them.
ChecksAgree == ReportIsTheLoadersWord /\ NarrowingFindsEveryMistake

\* Formatting changes how objects are written, not what they mean: nothing is
\* reported of them that was not.
FormattingAddsNoFault ==
    [][Format /\ ~Unnamed(LoadSite(files, <<>>).manifest)
         => Report(files', objects') \subseteq Report(files, objects)]_vars

\* Reports are the loader's word, and stay so when a site is formatted.
ReportsAreSound == []ChecksAgree /\ FormattingAddsNoFault
=============================================================================
