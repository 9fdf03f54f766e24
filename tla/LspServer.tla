------------------------------ MODULE LspServer ------------------------------
(***************************************************************************)
(* The language server (src/src/lsp/): one thread that takes the client's  *)
(* notifications in order.  It keeps the texts of the open buffers and the *)
(* sites it has loaded from disk, and publishes what is wrong with a       *)
(* buffer whenever that, or a site, may have changed.                      *)
(* The client edits and saves its buffers, other programs write the disk,  *)
(* and the client tells of changed files at some later time.               *)
(***************************************************************************)
EXTENDS SiteLoading, Documents

CONSTANTS Files,             \* records of a directory, a name and an object, if it is one
          Above,             \* a directory |-> itself and its ancestors, nearest first
          Parsed(_),         \* a text |-> what it is as TOML
          KeySpan(_, _),     \* a text, a fault |-> the offsets of the key it is about
          TemplateFaults(_), \* a text |-> what the liquid parser rejects
          ReadDefinitions(_, _),     \* a document, editor types |-> definitions, or Err
          FaultsOfObject(_, _, _, _), \* a document, a type, its definition, editor types
          Initially,         \* the disks to begin with
          OnDisk,            \* a file |-> the texts other programs write there
          Typed,             \* a file |-> what is typed into its buffer
          MaxSteps,          \* bound: what the client and the other programs do
          MaxInbox           \* bound: notifications on their way

Markers == {Canonical, Definitions}

\* A file has one name, those of a site's own files are TOML, and a directory
\* is the nearest of its ancestors.
ASSUME FilesAssumption ==
    /\ \A f, g \in Files : f.dir = g.dir /\ f.name = g.name => f = g
    /\ \A f \in Files : f.toml \in BOOLEAN /\ (f.name \in Markers => f.toml)
    /\ \A f \in Files : f.dir \in DOMAIN Above
    /\ \A dir \in DOMAIN Above :
          Above[dir] \in Seq(Range(Above[dir])) /\ Above[dir] # <<>> /\ Head(Above[dir]) = dir

\* What is written to files is text.
ASSUME TextsAssumption ==
    /\ \A first \in Initially : DOMAIN first \subseteq Files /\ first \in [DOMAIN first -> Texts]
    /\ \A f \in Files : OnDisk[f] \subseteq Texts /\ Typed[f] \subseteq Texts
    /\ MaxSteps \in Nat

VARIABLES disk,       \* the texts of the files that exist
          buffers,    \* the client's open buffers
          inbox,      \* notifications the server has yet to take
          events,     \* changed files the client has yet to tell of
          documents,  \* the server's open buffers
          sites,      \* what the server has loaded, by the root of the site
          sources,    \* history: a site |-> the files it was loaded from
          resolved,   \* a directory |-> the roots found for it: one or none
          shown,      \* a file |-> the diagnostics last published for it
          steps

server == <<documents, sites, sources, resolved, shown>>
vars   == <<disk, buffers, inbox, events, server, steps>>

Empty == [x \in {} |-> x]
Put(f, k, v) == [x \in DOMAIN f \cup {k} |-> IF x = k THEN v ELSE f[x]]
Without(f, k) == [x \in DOMAIN f \ {k} |-> f[x]]

Init ==
    /\ disk \in Initially
    /\ buffers = Empty
    /\ inbox = <<>>
    /\ events = {}
    /\ documents = Empty
    /\ sites = Empty
    /\ sources = Empty
    /\ resolved = Empty
    /\ shown = [f \in Files |-> {}]
    /\ steps = 0

Step == steps < MaxSteps /\ steps' = steps + 1

-----------------------------------------------------------------------------
(* The client and the other programs.                                      *)

Notify(m) == Len(inbox) < MaxInbox /\ inbox' = Append(inbox, m)

Open(f) ==
    /\ Step
    /\ f \in DOMAIN disk \ DOMAIN buffers
    /\ buffers' = Put(buffers, f, disk[f])
    /\ Notify([kind |-> "open", file |-> f, text |-> disk[f]])
    /\ UNCHANGED <<disk, events, server>>

\* What was typed is sent as a change of its own, or with the one before.
Sent(f, change) ==
    \/ Notify([kind |-> "change", file |-> f, changes |-> <<change>>])
    \/ /\ inbox # <<>>
       /\ Last(inbox).kind = "change"
       /\ Last(inbox).file = f
       /\ inbox' = [inbox EXCEPT ![Len(inbox)].changes = Append(@, change)]

Type(f, from, to, new) ==
    /\ Step
    /\ LET text == buffers[f]
       IN  /\ buffers' = [buffers EXCEPT ![f] = Spliced(text, from, to, new)]
           /\ Sent(f, [whole |-> FALSE, from |-> Cursor(text, from), to |-> Cursor(text, to), text |-> new])
    /\ UNCHANGED <<disk, events, server>>

Replace(f, text) ==
    /\ Step
    /\ buffers[f] # text
    /\ buffers' = [buffers EXCEPT ![f] = text]
    /\ Sent(f, [whole |-> TRUE, text |-> text])
    /\ UNCHANGED <<disk, events, server>>

Close(f) ==
    /\ Step
    /\ buffers' = Without(buffers, f)
    /\ Notify([kind |-> "close", file |-> f])
    /\ UNCHANGED <<disk, events, server>>

Changes(f, after) == disk' = after /\ after # disk /\ events' = events \cup {f}

Save(f) ==
    /\ Step
    /\ Changes(f, Put(disk, f, buffers[f]))
    /\ UNCHANGED <<buffers, inbox, server>>

Write(f, text) ==
    /\ Step
    /\ Changes(f, Put(disk, f, text))
    /\ UNCHANGED <<buffers, inbox, server>>

Delete(f) ==
    /\ Step
    /\ f \in DOMAIN disk
    /\ Changes(f, Without(disk, f))
    /\ UNCHANGED <<buffers, inbox, server>>

Tell ==
    /\ events # {}
    /\ Notify([kind |-> "watched", files |-> events])
    /\ events' = {}
    /\ UNCHANGED <<disk, buffers, server, steps>>

-----------------------------------------------------------------------------
(* Sites.                                                                  *)

\* site_root: the nearest directory with a marker.
IsRoot(dir) == \E f \in DOMAIN disk : f.dir = dir /\ f.name \in Markers

RootsOf(dir) ==
    LET up == Above[dir]
    IN  {up[i] : i \in {i \in DOMAIN up : IsRoot(up[i]) /\ \A j \in 1 .. i - 1 : ~IsRoot(up[j])}}

FilesOf(texts, root) ==
    [name \in {f.name : f \in {f \in DOMAIN texts : f.dir = root}} |->
        Parsed(texts[CHOOSE f \in DOMAIN texts : f.dir = root /\ f.name = name])]

\* The names a load looks for: the standard ones and the one the manifest gives.
LoadNames(files) ==
    LET read == ManifestOf(files, <<"">>)
    IN  {Canonical, Legacy, Definitions, LegacyDefinitions}
            \cup (IF read = Err THEN {} ELSE {read.manifest.object_file})

SourcesOf(files) == Restrict(files, LoadNames(files) \cap DOMAIN files)

\* SiteState::load.
Loaded(files) == SiteOf(files, <<"">>, ReadDefinitions)

\* Workspace::site_for, for files of these directories: a directory is looked
\* up once, a site loaded once.
Located(dirs, s) ==
    LET known == [d \in DOMAIN s.resolved \cup dirs |->
                     IF d \in DOMAIN s.resolved THEN s.resolved[d] ELSE RootsOf(d)]
        roots == DOMAIN s.sites \cup UNION {known[d] : d \in dirs}
    IN  [s EXCEPT !.resolved = known,
                  !.sites    = [r \in roots |-> IF r \in DOMAIN s.sites THEN s.sites[r]
                                                ELSE Loaded(FilesOf(disk, r))],
                  !.sources  = [r \in roots |-> IF r \in DOMAIN s.sites THEN s.sources[r]
                                                ELSE SourcesOf(FilesOf(disk, r))]]

\* SiteState::is_definitions.
DefinitionsOf(site) == IF site = Err THEN Definitions ELSE site.manifest.object_file

EditorsOf(site) == IF site = Err THEN NoEntries ELSE Editing(site.manifest.editor_types)

\* SiteState::definition_for: an object at any depth beneath its type's directory.
Defined(object, site) == object.dir = site.manifest.objects /\ object.type \in DOMAIN site.defs

\* Server::toml_errors, given the site of the file.
TomlFaults(f, text, root, site) ==
    LET d == Parsed(text)
    IN  IF f.dir = root /\ f.name = Canonical THEN ManifestFaults(d)
        ELSE IF f.dir = root /\ f.name = DefinitionsOf(site)
        THEN ServerDefinitionFaults(d, ReadDefinitions(d, EditorsOf(site)))
        ELSE IF site # Err /\ Defined(f.object, site)
        THEN FaultsOfObject(d, f.object.type, site.defs[f.object.type], EditorsOf(site))
        ELSE {}

FaultsIn(f, text, known, loaded) ==
    IF ~f.toml THEN TemplateFaults(text)
    ELSE UNION {TomlFaults(f, text, r, loaded[r]) : r \in known[f.dir]}

\* Document::range.
Placed(text, faults, at(_, _)) ==
    {[fault |-> e, from |-> at(text, KeySpan(text, e).from), to |-> at(text, KeySpan(text, e).to)] : e \in faults}

-----------------------------------------------------------------------------
(* The server.                                                             *)

\* What is shown of a text, by what is known (w) of the sites.
Diagnosed(f, text, w, at(_, _)) == Placed(text, FaultsIn(f, text, w.resolved, w.sites), at)

\* Server::publish of each of these files, in any order: what one finds of the
\* sites the others leave alone.
Publish(files, s) ==
    LET w == Located({f.dir : f \in {f \in files : f.toml}}, s)
    IN  [w EXCEPT !.shown = [f \in Files |->
            IF f \in files THEN Diagnosed(f, s.documents[f], w, PositionAt) ELSE s.shown[f]]]

State == [documents |-> documents, sites |-> sites, sources |-> sources,
          resolved |-> resolved, shown |-> shown]

SlipKeepResolved(s) == [s EXCEPT !.sites = Empty, !.sources = Empty]

\* Workspace::reload.
Reloaded(s) == [s EXCEPT !.sites = Empty, !.sources = Empty, !.resolved = Empty]

\* Server::notified, one arm for each kind of notification.
Opened(m, s) == Publish({m.file}, [s EXCEPT !.documents = Put(@, m.file, m.text)])

Changed(m, s) ==
    IF m.file \notin DOMAIN s.documents THEN s
    ELSE Publish({m.file}, [s EXCEPT !.documents[m.file] = After(@, m.changes)])

Closed(m, s) == [s EXCEPT !.documents = Without(@, m.file), !.shown[m.file] = {}]

SlipReloadOnly(m, s) ==
    IF \E f \in m.files : f.name \in Markers THEN Reloaded(s) ELSE s

Watched(m, s) ==
    IF \E f \in m.files : f.name \in Markers
    THEN Publish(DOMAIN s.documents, Reloaded(s))
    ELSE s

Notified(m, s) ==
    CASE m.kind = "open"   -> Opened(m, s)
      [] m.kind = "change" -> Changed(m, s)
      [] m.kind = "close"  -> Closed(m, s)
      [] OTHER             -> Watched(m, s)

Becomes(s) ==
    /\ documents' = s.documents
    /\ sites' = s.sites
    /\ sources' = s.sources
    /\ resolved' = s.resolved
    /\ shown' = s.shown

Handle ==
    /\ inbox # <<>>
    /\ inbox' = Tail(inbox)
    /\ Becomes(Notified(Head(inbox), State))
    /\ UNCHANGED <<disk, buffers, events, steps>>

Next ==
    \/ \E f \in Files : Open(f)
    \/ \E f \in DOMAIN buffers :
          \/ \E from \in 0 .. Len(buffers[f]) : \E to \in from .. Len(buffers[f]) :
                \E new \in Typed[f] : Type(f, from, to, new)
          \/ \E text \in Typed[f] : Replace(f, text)
          \/ Close(f)
          \/ Save(f)
    \/ \E f \in Files : \E text \in OnDisk[f] : Write(f, text)
    \/ \E f \in Files : Delete(f)
    \/ Tell
    \/ Handle

Spec == Init /\ [][Next]_vars

-----------------------------------------------------------------------------
(* What the parsers are like.                                              *)

\* A key is a part of the text it was found in.
SpanLies(text, fault) ==
    KeySpan(text, fault).from \in 0 .. Len(text) /\ KeySpan(text, fault).to \in 0 .. Len(text)

\* A text is a table, or not TOML.
IsTableOrBroken(text) == Parsed(text) = Broken \/ Parsed(text).doc = "table"

\* What is not TOML defines nothing, and what can be read without a manifest's
\* editor types can be read with them: the names of the others come first.
EditorsOnlyAdd(d, entries) ==
    LET read    == ManifestFrom(entries, <<"">>)
        editors == Editing(read.manifest.editor_types)
    IN  /\ ReadDefinitions(Broken, NoEntries) = Err
        /\ read # Err => /\ ReadDefinitions(Broken, editors) = Err
                         /\ ReadDefinitions(d, NoEntries) # Err => ReadDefinitions(d, editors) # Err

-----------------------------------------------------------------------------
(* Properties.                                                             *)

\* Buffers and diagnostics are those of files, and every loaded site has a
\* directory that was looked up.
TypeOK ==
    /\ DOMAIN disk \cup DOMAIN buffers \cup DOMAIN documents \cup events \subseteq Files
    /\ \A f \in DOMAIN documents : documents[f] \in Texts
    /\ DOMAIN shown = Files
    /\ DOMAIN sites = UNION Range(resolved)
    /\ steps \in 0 .. MaxSteps

\* What the server holds, with the notifications on their way to it, is what the
\* client has in its buffers: no edit is applied in another place than it was
\* made, whatever the width of the characters before it (documents.rs:44-60).
Synced(texts, m) ==
    CASE m.kind = "open"   -> Put(texts, m.file, m.text)
      [] m.kind = "change" -> [texts EXCEPT ![m.file] = After(@, m.changes)]
      [] m.kind = "close"  -> Without(texts, m.file)
      [] OTHER             -> texts
Received(texts, messages) ==
    LET upTo[i \in 0 .. Len(messages)] ==
            IF i = 0 THEN texts ELSE Synced(upTo[i - 1], messages[i])
    IN  upTo[Len(messages)]
TextsAgree == Received(documents, inbox) = buffers

\* The client and the server have nothing more to tell each other.
Settled == inbox = <<>> /\ events = {}

\* The files a site was loaded from are as they were, but for those whose names
\* cause a reload.
UnwatchedKept ==
    \A r \in DOMAIN sites : \A name \in LoadNames(sources[r]) \ Markers :
        At(FilesOf(disk, r), name) = At(sources[r], name)

\* Once settled, what is shown of each buffer is what a server started on
\* these files would show, at the places the protocol gives them, and nothing
\* is shown of a closed one.
Restarted == [documents |-> buffers, sites |-> Empty, sources |-> Empty,
              resolved |-> Empty, shown |-> Empty]
Fresh(f) == Diagnosed(f, buffers[f], Located({f.dir}, Restarted), Cursor)
ShownIsFresh ==
    Settled /\ UnwatchedKept =>
        \A f \in Files : shown[f] = IF f \in DOMAIN buffers THEN Fresh(f) ELSE {}

\* With a site's own files open, saved and settled, under their usual names and
\* for this version, no error is shown in them exactly when a build could load
\* the site: the server reports what archival will accept (server.rs:158-159).
OwnFiles(dir) == {f \in Files : f.dir = dir /\ f.name \in Markers}
Saved(dir) == \A f \in OwnFiles(dir) : f \in DOMAIN disk \cap DOMAIN buffers /\ buffers[f] = disk[f]
Usual(files) ==
    /\ Exists(files, Canonical) /\ Exists(files, Definitions)
    /\ LET read == ManifestOf(files, <<"">>)
       IN  read # Err => /\ read.manifest.object_file = Definitions
                         /\ Range(read.manifest.archival_version) \subseteq Compatible
ErrorsAreTheLoaders ==
    Settled /\ UnwatchedKept =>
        \A dir \in {f.dir : f \in Files} :
            Saved(dir) /\ Usual(FilesOf(disk, dir)) =>
                ((\A f \in OwnFiles(dir) : shown[f] = {}) <=> Loaded(FilesOf(disk, dir)) # Err)

\* The server has the client's buffers and knows where its sites are.
BuffersAgree == TypeOK /\ TextsAgree
=============================================================================
