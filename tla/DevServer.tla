------------------------------ MODULE DevServer ------------------------------
(***************************************************************************)
(* `archival run` (src/src/binary/dev_server.rs): a site is loaded, synced *)
(* and built, its directories are watched, and every batch of changes      *)
(* syncs and builds again with the caches the site kept (src/src/site.rs). *)
(*                                                                         *)
(* The sources are edited at any time, between a build's own reads as      *)
(* well.  The watcher hands every edit on once, late and in any order.     *)
(* Reading objects, planning and applying pages, and syncing static files  *)
(* are a step each: nothing else touches the caches or the build           *)
(* directory meanwhile, so finer steps would only add edits between reads  *)
(* of one kind.  A filesystem operation of an apply may fail, which leaves *)
(* what came before it done.                                               *)
(***************************************************************************)
EXTENDS SiteRender

CONSTANTS
  Texts,        \* what each source may hold
  Start,        \* what each source holds at first
  Editable,     \* sources that are edited
  MaxEdits,     \* bound: edits
  MaxFaults     \* bound: filesystem operations that fail

ASSUME DevAssumption ==
  /\ DOMAIN Texts = Source /\ DOMAIN Start = Source
  /\ \A s \in Source : Start[s] \in Texts[s] \cup {None}
  /\ \A s \in Page \cup {Template} : Texts[s] \subseteq Body
  /\ Start[Manifest] = "good"
  /\ Start[Definitions] \in {"templated", "plain"}
  /\ Editable \subseteq Source
  /\ MaxEdits \in Nat /\ MaxFaults \in Nat

\* Texts and contexts of objects that are there.
PostTexts == (UNION {Texts[o] : o \in Post}) \cup {None}
Contexts == [post : [Post -> PostTexts], flag : Texts[Flag] \cup {"empty"}]

\* None is neither a text nor what is kept of a render that read what is there.
ASSUME NoneAssumption ==
  /\ None # "bad"
  /\ \A body \in Body \ {"optional"}, partial \in Texts[Partial] \cup {None},
        overlay \in PostTexts, ctx \in Contexts :
       RecordOf(body, partial, overlay, ctx, Rendered(body, partial, overlay, ctx)) # None

VARIABLES
  src,       \* the source files
  disk,      \* the build directory
  site,      \* the Site: its definitions and caches
  watching,  \* whether the watcher runs
  pending,   \* changed paths on their way to the loop
  flags,     \* the loop's changed, static_files_changed, object_definitions_changed
  pc,        \* where the loop is
  read,      \* the objects the build under way has read
  synced,    \* whether its sync went well
  report,    \* how the last batch ended
  rendered,  \* outputs the last page plan rendered
  edited,    \* history: sources edited since a full build last took them in
  unseen,    \* history: sources last edited before the watcher ran
  disowned,  \* history: outputs whose cache entry was lost or overtaken
  edits,     \* edits so far
  faults     \* failed operations so far

vars == <<src, disk, site, watching, pending, flags, pc, read, synced, report,
          rendered, edited, unseen, disowned, edits, faults>>

NoOutputs == [p \in Output |-> None]
NoObjects == [o \in Object |-> None]

\* Site::load: definitions, and caches that are empty.
Loaded(defs) ==
  [ defs     |-> defs,
    objs     |-> NoObjects,
    statics  |-> NoOutputs,
    compiled |-> [m \in Script |-> None],
    built    |-> NoOutputs,
    renders  |-> NoRecord,
    parser   |-> [partial |-> None, parsed |-> [b \in Body |-> None]] ]

Init ==
  /\ src = Start
  /\ disk = NoOutputs
  /\ site = Loaded(Start[Definitions])
  /\ watching = FALSE
  /\ pending = {}
  /\ flags = [changed |-> FALSE, statics |-> TRUE, definitions |-> FALSE]
  /\ pc = "sync"
  /\ read = NoObjects
  /\ synced = TRUE
  /\ report = "ok"
  /\ rendered = {}
  /\ edited = {}
  /\ unseen = {}
  /\ disowned = {}
  /\ edits = 0
  /\ faults = 0

-----------------------------------------------------------------------------
(* The world *)

\* Someone writes or deletes a source; a watcher that runs will report it, unless
\* it is the manifest, which is not among Manifest::watched_paths.
Edit(s, text) ==
  /\ edits < MaxEdits
  /\ src[s] # text
  /\ src' = [src EXCEPT ![s] = text]
  /\ edits' = edits + 1
  /\ edited' = edited \cup {s}
  /\ CASE s = Manifest -> UNCHANGED <<pending, unseen>>
       [] s # Manifest /\ watching -> pending' = pending \cup {s} /\ unseen' = unseen \ {s}
       [] s # Manifest /\ ~watching -> unseen' = unseen \cup {s} /\ UNCHANGED pending
  /\ UNCHANGED <<disk, site, watching, flags, pc, read, synced, report, rendered,
                 disowned, faults>>

-----------------------------------------------------------------------------
(* The loop *)

\* Slip: a change does not drop the parse the site holds of it.
ForgetNothing(s) == site

\* Site::invalidate_file.
Invalidated(s) == IF s \in Object THEN [site EXCEPT !.objs[s] = None] ELSE site

\* Slip: a change of the definitions is noted and asks for no build.
NoteDefinitions(s) ==
  [ changed     |-> flags.changed \/ s # Definitions,
    statics     |-> flags.statics \/ s \in Static \cup Script,
    definitions |-> flags.definitions \/ s = Definitions ]

\* Slip: the definitions file is a file like any other.
NoReload(s) ==
  [ changed     |-> TRUE,
    statics     |-> flags.statics \/ s \in Static \cup Script,
    definitions |-> FALSE ]

FlagsAfter(s) ==
  [ changed     |-> TRUE,
    statics     |-> flags.statics \/ s \in Static \cup Script,
    definitions |-> flags.definitions \/ s = Definitions ]

\* rx.recv_timeout returns a path no carrier claims.
Receive(s) ==
  /\ pc = "loop"
  /\ s \in pending
  /\ pending' = pending \ {s}
  /\ flags' = FlagsAfter(s)
  /\ site' = Invalidated(s)
  /\ UNCHANGED <<src, disk, watching, pc, read, synced, report, rendered, edited,
                 unseen, disowned, edits, faults>>

\* fs.watch, whose first report is the root directory itself.
StartWatch ==
  /\ pc = "watch"
  /\ watching' = TRUE
  /\ flags' = [flags EXCEPT !.changed = TRUE]
  /\ pc' = "loop"
  /\ UNCHANGED <<src, disk, site, pending, read, synced, report, rendered, edited,
                 unseen, disowned, edits, faults>>

\* A batch whose definitions changed replaces the site first.  A reload that
\* fails ends the batch; its flag is down by then.
Batch ==
  LET flagsNow == [flags EXCEPT !.changed = FALSE, !.definitions = FALSE]
      loadable == src[Manifest] # "bad" /\ src[Definitions] \in {"templated", "plain"}
  IN /\ pc = "loop" /\ flags.changed
     /\ IF ~flags.definitions
          THEN /\ flags' = flagsNow
               /\ pc' = "sync"
               /\ UNCHANGED <<site, report, disowned>>
        ELSE IF loadable
          THEN /\ flags' = [flagsNow EXCEPT !.statics = TRUE]
               /\ site' = Loaded(src[Definitions])
               /\ disowned' = disowned \cup {p \in Output : disk[p] # None}
               /\ pc' = "sync"
               /\ UNCHANGED report
        ELSE /\ flags' = flagsNow
             /\ report' = "failed"
             /\ UNCHANGED <<site, disowned, pc>>
     /\ UNCHANGED <<src, disk, watching, pending, read, synced, rendered, edited,
                    unseen, edits, faults>>

\* The parts of a plan that may be all an apply got done.
PartsOf(plan) ==
  {[plan EXCEPT !.writes = w, !.unchanged = {}, !.deletes = {}] :
     w \in (SUBSET plan.writes) \ {plan.writes}}
  \cup {[plan EXCEPT !.deletes = d] : d \in (SUBSET plan.deletes) \ {plan.deletes}}

\* sync_static_files: the plan is applied, scripts that failed only fail the
\* sync once everything else is done.
SyncWith(plan, ok) ==
  /\ disk' = Applied(plan, disk, NoOutputs)
  /\ site' = [site EXCEPT !.statics = Recorded(plan, site.statics, NoOutputs),
                          !.compiled = CompiledCache(src, site.compiled)]
  /\ disowned' = (disowned \ plan.writes)
                 \cup {p \in plan.writes \cup plan.deletes : site.built[p] # None}
  /\ synced' = ok
  /\ flags' = [flags EXCEPT !.statics = ~ok]

Sync ==
  LET plan == Resolve(StaticWanted(src, site.compiled, site.statics), site.statics)
  IN /\ pc = "sync"
     /\ pc' = "read"
     /\ \/ /\ ~flags.statics
           /\ synced' = TRUE
           /\ UNCHANGED <<disk, site, disowned, flags, faults>>
        \/ /\ flags.statics /\ Collision(src)
           /\ synced' = FALSE
           /\ UNCHANGED <<disk, site, disowned, flags, faults>>
        \/ /\ flags.statics /\ ~Collision(src)
           /\ SyncWith(plan, FailedScripts(src) = {})
           /\ UNCHANGED faults
        \/ /\ flags.statics /\ ~Collision(src) /\ faults < MaxFaults
           /\ \E part \in PartsOf(plan) : SyncWith(part, FALSE)
           /\ faults' = faults + 1
     /\ UNCHANGED <<src, watching, pending, read, report, rendered, edited, unseen,
                    edits>>

After == IF watching THEN "loop" ELSE "watch"

\* get_objects: parses are kept; a root object that does not parse fails the build.
ReadObjects ==
  LET parsed == [o \in Object |-> ParsedObject(o, src, site.objs)]
      kept == [o \in Object |-> IF parsed[o] # None THEN parsed[o] ELSE site.objs[o]]
  IN /\ pc = "read"
     /\ site' = [site EXCEPT !.objs = kept]
     /\ IF ObjectsOk(src, site.objs)
          THEN pc' = "build" /\ read' = parsed /\ UNCHANGED report
          ELSE pc' = After /\ report' = "failed" /\ UNCHANGED read
     /\ UNCHANGED <<src, disk, watching, pending, flags, synced, rendered, edited,
                    unseen, disowned, edits, faults>>

-----------------------------------------------------------------------------
(* Pages *)

\* apply_beneath, of a plan or of the part of it that got done.
ApplyPages(part, plan) ==
  /\ disk' = Applied(part, disk, site.statics)
  /\ site' = [Filled(site, plan, plan.renders) EXCEPT
                !.built = Recorded(part, site.built, site.statics)]
  /\ disowned' = disowned \ (part.writes \cup part.deletes
                   \cup {p \in Visited(part) : site.statics[p] # None})

\* What the build read of an object is what the file holds, and what the site would
\* read of it again.
ReadAsIs(o) ==
  read[o] = ParsedObject(o, src, NoObjects) /\ read[o] = ParsedObject(o, src, site.objs)

\* Site::build, over the objects read before.
Build ==
  LET plan == PagePlan(src, site, read)
      outputs == Resolve(Defaults(ByDest(plan.out)), site.built)
  IN /\ pc = "build"
     /\ pc' = After
     /\ \/ /\ ~plan.ok
           /\ \E done \in SUBSET plan.renders :
                /\ site' = Filled(site, plan, done)
                /\ rendered' = {Dest[s] : s \in done}
           /\ report' = "failed"
           /\ UNCHANGED <<disk, edited, disowned, faults>>
        \/ /\ plan.ok
           /\ ApplyPages(outputs, plan)
           /\ rendered' = {Dest[s] : s \in plan.renders}
           /\ report' = IF synced THEN "ok" ELSE "failed"
           /\ edited' = {o \in edited \cap Object : ~ReadAsIs(o)}
           /\ UNCHANGED faults
        \/ /\ plan.ok /\ faults < MaxFaults
           /\ \E part \in PartsOf(outputs) : ApplyPages(part, plan)
           /\ rendered' = {Dest[s] : s \in plan.renders}
           /\ report' = "failed"
           /\ faults' = faults + 1
           /\ UNCHANGED edited
     /\ UNCHANGED <<src, watching, pending, flags, read, synced, unseen, edits>>

Next ==
  \/ \E s \in Editable : \E text \in Texts[s] \cup {None} : Edit(s, text)
  \/ \E s \in Editable : Receive(s)
  \/ StartWatch \/ Batch \/ Sync \/ ReadObjects \/ Build

Spec == Init /\ [][Next]_vars

-----------------------------------------------------------------------------
(* Properties *)

Settled == pc = "loop" /\ pending = {} /\ ~flags.changed

\* Every variable stays in its type; a batch that has been built has no reload left.
TypeOK ==
  /\ \A s \in Source : src[s] \in Texts[s] \cup {None}
  /\ pending \subseteq Editable
  /\ flags \in [changed : BOOLEAN, statics : BOOLEAN, definitions : BOOLEAN]
  /\ pc \in {"sync", "read", "build", "watch", "loop"}
  /\ report \in {"ok", "failed"}
  /\ rendered \subseteq Output /\ disowned \subseteq Output
  /\ flags.definitions => flags.changed
  /\ site.defs \in {"templated", "plain"}

\* Once every edit has been handed on and the last batch went well, the build
\* directory is what a build from nothing would make of the sources: no reused
\* render, cached parse, parsed template or kept script is out of date, and no
\* output is left over (RenderRecord::reusable, ParserCache, object_for_path,
\* delete_unvisited).  It says nothing of edits made before the watcher ran.
ServesTheSources ==
  (Settled /\ report = "ok" /\ unseen = {} /\ site.defs = src[Definitions])
  => LET fresh == Fresh(src) IN \A p \in Output \ disowned : disk[p] = fresh[p]

\* The output caches describe what is on disk, whatever failed part-way
\* through an apply (WritePlan::apply).
CachesDescribeTheDisk ==
  \A p \in Output \ disowned :
    /\ site.statics[p] # None => disk[p] = site.statics[p]
    /\ (site.statics[p] = None /\ site.built[p] # None) => disk[p] = site.built[p]

\* The same of the page cache alone, with no exception: what RenderRecord::reusable
\* takes for granted when it asks build_cache whether an output is on disk.  A
\* static file over a page breaks it (README, Known departures).
BuildCacheIsOnDisk ==
  (pc = "loop" /\ report = "ok") =>
    \A p \in Output : site.built[p] # None => disk[p] = site.built[p]

\* Once every edit has been handed on and the last batch went well, the definitions
\* it was built with are the ones in the file (the reload in dev_server.rs).
DefinitionsAreCurrent ==
  (Settled /\ report = "ok" /\ unseen = {} /\ src[Manifest] = "good"
   /\ src[Definitions] \in {"templated", "plain"})
  => site.defs = src[Definitions]

Inputs(s) ==
  {FileOf(s), Partial, Definitions}
  \cup (IF s \in Post THEN {s} ELSE {})
  \cup (CASE src[FileOf(s)] = "index" -> Post
          [] src[FileOf(s)] \in {"switch", "dump"} -> Object
          [] OTHER -> {})

\* A page that is on disk is rendered again only when something it reads was
\* edited since a full build took it in (RenderRecord): an unrelated object, page or
\* static file costs it nothing.
OnlyReadersRender ==
  pc = "build" /\ pc' # "build" =>
  \A s \in Post \cup Page \cup {Template} :
    (Dest[s] \in rendered' /\ site.built[Dest[s]] # None /\ src[FileOf(s)] # "optional")
    => Inputs(s) \cap edited # {}

\* A script that stops compiling goes on being served as it last compiled.
FailedScriptsKeepServing ==
  \A m \in Script :
    (pc = "sync" /\ src[m] = "bad" /\ disk[Dest[m]] # None)
    => disk'[Dest[m]] = disk[Dest[m]]

\* What is served is what the sources say, under the definitions they give.
BuildsAreCurrent == ServesTheSources /\ DefinitionsAreCurrent

\* The caches are what they are said to be.
CachesAreSound == TypeOK /\ CachesDescribeTheDisk

\* A build or a sync leaves alone what nothing asked it to make again.
BuildsTouchWhatChanged == [][OnlyReadersRender /\ FailedScriptsKeepServing]_vars
==============================================================================
