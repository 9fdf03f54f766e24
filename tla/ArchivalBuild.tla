---------------------------- MODULE ArchivalBuild ----------------------------
(***************************************************************************)
(* One `Archival` value shared by threads that edit, read and build a site *)
(* at the same time (src/src/lib.rs, src/src/site.rs, src/src/lib_fs.rs).  *)
(*                                                                         *)
(* Everything that touches the filesystem runs inside                      *)
(* `FileSystemMutex::with_fs`.  A build holds it twice - to take a         *)
(* snapshot and to apply the result - and parses, renders and plans in     *)
(* between, off the mutex, while editors and readers go on.  What ties the *)
(* halves together is the object generation, the two output caches and     *)
(* `build_lock`; this module is about whether they do.                     *)
(*                                                                         *)
(* Data.  The bytes of a source file are the set of edits they carry: an   *)
(* edit is numbered by the generation it leads to, a whole-file write      *)
(* starts from nothing, and a field edit adds itself to what it parsed, so *)
(* an edit made over a stale parse is one that loses numbers.  An object   *)
(* renders, through its template, to the output of the same name; a static *)
(* file or script s is copied or compiled to Dest[s], which may be an      *)
(* object's output too.                                                    *)
(***************************************************************************)
EXTENDS Integers, WritePlan

CONSTANTS
  Thread,           \* the threads that share the site
  Object,           \* object files, each with a page of the same name
  Static,           \* files of static_dir and scripts_dir
  Script,           \* the ones that are compiled
  Type,             \* object types
  TypeOf,           \* the type an object file belongs to
  Dest,             \* the output a static file or a script lands on
  Initial,          \* the files the site starts with
  Broken,           \* edits whose page or script does not render or compile
  Options,          \* the BuildOptions callers build with
  SnapshotBackend,  \* whether FileSystemAPI::snapshot returns a copy
  RenameOnto,       \* whether callers rename an object onto an existing one
  MaxGeneration     \* bound: no mutation starts at or above this generation

Source == Object \cup Static
Output == Object \cup {Dest[s] : s \in Static}
Content == SUBSET Nat

BuildOptions == [skipStatic : BOOLEAN, skipFailures : BOOLEAN]

ASSUME ConstantsAssumption ==
  /\ Script \subseteq Static
  /\ Object \cap Static = {}
  /\ TypeOf \in [Object -> Type]
  /\ DOMAIN Dest = Static
  /\ \A s1, s2 \in Static : Dest[s1] = Dest[s2] => s1 = s2
  /\ Initial \subseteq Source
  /\ Broken \subseteq Nat
  /\ Options \subseteq BuildOptions
  /\ SnapshotBackend \in BOOLEAN
  /\ RenameOnto \in BOOLEAN
  /\ MaxGeneration \in Nat

ASSUME NoneAssumption == None \notin Thread

VARIABLES
  files,        \* the live source files
  dist,         \* the live build directory
  objCache,     \* Site::obj_cache: parsed objects
  staticCache,  \* Site::static_file_cache
  buildCache,   \* Site::build_cache
  generation,   \* Site::cache_generation
  lastBuildId,  \* Archival::last_build_id
  buildLock,    \* the thread holding Archival::build_lock
  fsOwner,      \* the thread inside FileSystemMutex::with_fs
  pc,           \* where each thread is
  dirty,        \* paths a thread has changed and not yet invalidated
  opts,         \* the options of the thread's build
  gen,          \* `generation` as the thread's build read it
  snap,         \* the source files its build plans against
  todo,         \* object types get_objects_at has still to read
  objs,         \* the objects it has read
  statics,      \* its static plan, None when it makes none
  pages,        \* its page plan
  failed        \* whether one of its scripts did not compile

siteVars  == <<files, dist, objCache, staticCache, buildCache, generation>>
planVars  == <<opts, gen, snap, todo, objs, statics, pages, failed>>
vars == <<siteVars, lastBuildId, buildLock, fsOwner, pc, dirty, planVars>>

NoFiles   == [s \in Source |-> None]
NoObjects == [o \in Object |-> None]
NoOutput  == [p \in Output |-> None]
NoPlan    == Resolve(NoOutput, NoOutput)

Init ==
  /\ files = [s \in Source |-> IF s \in Initial THEN {} ELSE None]
  /\ dist = NoOutput
  /\ objCache = NoObjects
  /\ staticCache = NoOutput
  /\ buildCache = NoOutput
  /\ generation = 0
  /\ lastBuildId = None
  /\ buildLock = None
  /\ fsOwner = None
  /\ pc = [t \in Thread |-> "idle"]
  /\ dirty = [t \in Thread |-> {}]
  /\ opts = [t \in Thread |-> [skipStatic |-> FALSE, skipFailures |-> FALSE]]
  /\ gen = [t \in Thread |-> 0]
  /\ snap = [t \in Thread |-> NoFiles]
  /\ todo = [t \in Thread |-> {}]
  /\ objs = [t \in Thread |-> NoObjects]
  /\ statics = [t \in Thread |-> None]
  /\ pages = [t \in Thread |-> NoPlan]
  /\ failed = [t \in Thread |-> FALSE]

-----------------------------------------------------------------------------
(* Reading objects *)

\* object_for_path, over the object files S of one type: a cached parse is
\* returned as it is, anything else is parsed from the filesystem given.
Parsed(src, S) ==
  [o \in Object |->
     IF o \notin S \/ src[o] = None THEN None
     ELSE IF objCache[o] # None THEN objCache[o]
     ELSE src[o]]

\* Slip: a parse is kept whatever snapshot it was read from.
CachedUnchecked(src, S, g) ==
  [o \in Object |->
     IF o \in S /\ src[o] # None /\ objCache[o] = None THEN src[o] ELSE objCache[o]]

\* The object cache afterwards: a parse is kept only when the filesystem it
\* was read from is current at the present generation.
Cached(src, S, g) ==
  [o \in Object |->
     IF o \in S /\ src[o] # None /\ objCache[o] = None /\ generation = g
       THEN src[o]
       ELSE objCache[o]]

\* get_objects on the live files.
Loaded == Cached(files, Object, generation)

RequestRead(t) ==
  /\ pc[t] = "idle"
  /\ pc' = [pc EXCEPT ![t] = "reading"]
  /\ UNCHANGED <<siteVars, lastBuildId, buildLock, fsOwner, dirty, planVars>>

\* Archival::get_objects and every other reader: load the objects inside with_fs.
ReadObjects(t) ==
  /\ pc[t] = "reading"
  /\ fsOwner = None
  /\ objCache' = Loaded
  /\ pc' = [pc EXCEPT ![t] = "idle"]
  /\ UNCHANGED <<files, dist, staticCache, buildCache, generation,
                 lastBuildId, buildLock, fsOwner, dirty, planVars>>

-----------------------------------------------------------------------------
(* Changing files.  A mutator enters with_fs, writes, invalidates what it    *)
(* wrote and leaves; a build planning off the mutex can run in between.      *)

Now == generation + 1

Mutate(t, newFiles, stale, newCache) ==
  /\ pc[t] = "idle"
  /\ fsOwner = None
  /\ generation < MaxGeneration
  /\ files' = newFiles
  /\ objCache' = newCache
  /\ fsOwner' = t
  /\ dirty' = [dirty EXCEPT ![t] = stale]
  /\ pc' = [pc EXCEPT ![t] = "invalidating"]
  /\ UNCHANGED <<dist, staticCache, buildCache, generation, lastBuildId,
                 buildLock, planVars>>

\* write_object (edit_field, edit_order, add_child, remove_child): change the
\* object get_objects returned and write it back.
EditObject(t, o) ==
  LET existing == Parsed(files, Object)[o] IN
  /\ existing # None
  /\ Mutate(t, [files EXCEPT ![o] = existing \cup {Now}], {o}, Loaded)

\* write_file: the caller's text replaces the file.
WriteObject(t, o) ==
  Mutate(t, [files EXCEPT ![o] = {Now}], {o}, Loaded)

\* add_object: refused when the file exists; nothing is read.
AddObject(t, o) ==
  /\ files[o] = None
  /\ Mutate(t, [files EXCEPT ![o] = {Now}], {o}, objCache)

\* delete_object: deleting a file that is not there fails on a real directory.
DeleteObject(t, o) ==
  /\ SnapshotBackend \/ files[o] # None
  /\ Mutate(t, [files EXCEPT ![o] = None], {o}, Loaded)

\* rename_object: read, write, delete, and invalidate the old path only.
RenameObject(t, from, to) ==
  /\ TypeOf[from] = TypeOf[to]
  /\ files[from] # None
  /\ RenameOnto \/ files[to] = None
  /\ Mutate(t, [[files EXCEPT ![to] = files[from]] EXCEPT ![from] = None],
            {from}, Loaded)

\* fs_write_file and fs_write_bytes: any source file, objects included.
WriteSource(t, s) ==
  Mutate(t, [files EXCEPT ![s] = {Now}], {s}, objCache)

\* fs_delete_file.
DeleteSource(t, s) ==
  /\ SnapshotBackend \/ files[s] # None
  /\ Mutate(t, [files EXCEPT ![s] = None], {s}, objCache)

\* Slip: the overwritten path is not invalidated.
RenameSourceFromOnly(t, from, to) ==
  /\ from # to
  /\ files[from] # None
  /\ Mutate(t, [[files EXCEPT ![to] = files[from]] EXCEPT ![from] = None],
            {from}, objCache)

\* fs_rename_file: both paths are invalidated.
RenameSource(t, from, to) ==
  /\ from # to
  /\ files[from] # None
  /\ Mutate(t, [[files EXCEPT ![to] = files[from]] EXCEPT ![from] = None],
            {from, to}, objCache)

\* Slip: the generation moves and the stale parse stays.
InvalidateKeepsParse(t) ==
  /\ pc[t] = "invalidating"
  /\ generation' = generation + 1
  /\ dirty' = [dirty EXCEPT ![t] = {}]
  /\ pc' = [pc EXCEPT ![t] = "idle"]
  /\ fsOwner' = None
  /\ UNCHANGED <<files, dist, objCache, staticCache, buildCache, lastBuildId,
                 buildLock, planVars>>

\* invalidate_file, and with_fs returns after the last one.
Invalidate(t) ==
  /\ pc[t] = "invalidating"
  /\ \E s \in dirty[t] :
       /\ objCache' = [o \in Object |-> IF o = s THEN None ELSE objCache[o]]
       /\ generation' = generation + 1
       /\ dirty' = [dirty EXCEPT ![t] = @ \ {s}]
       /\ IF dirty[t] = {s}
            THEN /\ pc' = [pc EXCEPT ![t] = "idle"]
                 /\ fsOwner' = None
            ELSE UNCHANGED <<pc, fsOwner>>
  /\ UNCHANGED <<files, dist, staticCache, buildCache, lastBuildId, buildLock,
                 planVars>>

-----------------------------------------------------------------------------
(* Building *)

\* Slip: an id of the output alone, which no invalidation changes.
BuildIdOfOutput == IF buildCache = NoOutput THEN None ELSE buildCache

\* Site::build_id: the build cache and the generation, nothing for an empty cache.
BuildId == IF buildCache = NoOutput THEN None ELSE <<buildCache, generation>>

RequestBuild(t) ==
  /\ pc[t] = "idle"
  /\ pc' = [pc EXCEPT ![t] = "queued"]
  /\ \E o \in Options : opts' = [opts EXCEPT ![t] = o]
  /\ UNCHANGED <<siteVars, lastBuildId, buildLock, fsOwner, dirty,
                 gen, snap, todo, objs, statics, pages, failed>>

\* Slip: builds are not serialized.
StartBuildUnserialized(t) ==
  /\ pc[t] = "queued"
  /\ buildLock' = t
  /\ gen' = [gen EXCEPT ![t] = generation]
  /\ pc' = [pc EXCEPT ![t] = "locked"]
  /\ UNCHANGED <<siteVars, lastBuildId, fsOwner, dirty,
                 opts, snap, todo, objs, statics, pages, failed>>

\* Take build_lock and decide whether the build is a duplicate of the last one.
StartBuild(t) ==
  /\ pc[t] = "queued"
  /\ buildLock = None
  /\ buildLock' = t
  /\ gen' = [gen EXCEPT ![t] = generation]
  /\ IF BuildId # None /\ lastBuildId = BuildId
       THEN pc' = [pc EXCEPT ![t] = "skipped"]
       ELSE pc' = [pc EXCEPT ![t] = "locked"]
  /\ UNCHANGED <<siteVars, lastBuildId, fsOwner, dirty,
                 opts, snap, todo, objs, statics, pages, failed>>

\* What a thread remembers of a build ends with the call.
Forget(t) ==
  /\ pc' = [pc EXCEPT ![t] = "idle"]
  /\ buildLock' = None
  /\ opts' = [opts EXCEPT ![t] = [skipStatic |-> FALSE, skipFailures |-> FALSE]]
  /\ gen' = [gen EXCEPT ![t] = 0]
  /\ snap' = [snap EXCEPT ![t] = NoFiles]
  /\ todo' = [todo EXCEPT ![t] = {}]
  /\ objs' = [objs EXCEPT ![t] = NoObjects]
  /\ statics' = [statics EXCEPT ![t] = None]
  /\ pages' = [pages EXCEPT ![t] = NoPlan]
  /\ failed' = [failed EXCEPT ![t] = FALSE]

\* Slip: the early return leaves build_lock taken.
ReturnSkippedLocked(t) ==
  /\ pc[t] = "skipped"
  /\ pc' = [pc EXCEPT ![t] = "idle"]
  /\ UNCHANGED <<siteVars, lastBuildId, buildLock, fsOwner, dirty, planVars>>

ReturnSkipped(t) ==
  /\ pc[t] = "skipped"
  /\ Forget(t)
  /\ UNCHANGED <<siteVars, lastBuildId, fsOwner, dirty>>

\* Slip: the mutex is kept while a build plans, snapshot or not.
TakeSnapshotKeepingFs(t) ==
  /\ pc[t] = "locked"
  /\ fsOwner = None
  /\ snap' = [snap EXCEPT ![t] = files]
  /\ gen' = [gen EXCEPT ![t] = generation]
  /\ todo' = [todo EXCEPT ![t] = Type]
  /\ fsOwner' = t
  /\ pc' = [pc EXCEPT ![t] = "static"]
  /\ UNCHANGED <<siteVars, lastBuildId, buildLock, dirty,
                 opts, objs, statics, pages, failed>>

\* The snapshot and its generation, under one with_fs.  A backend that cannot
\* snapshot keeps the mutex, and plans against the live files, to the end.
TakeSnapshot(t) ==
  /\ pc[t] = "locked"
  /\ fsOwner = None
  /\ snap' = [snap EXCEPT ![t] = files]
  /\ gen' = [gen EXCEPT ![t] = generation]
  /\ todo' = [todo EXCEPT ![t] = Type]
  /\ fsOwner' = IF SnapshotBackend THEN None ELSE t
  /\ pc' = [pc EXCEPT ![t] = "static"]
  /\ UNCHANGED <<siteVars, lastBuildId, buildLock, dirty,
                 opts, objs, statics, pages, failed>>

DoesNotBuild(c) == c \cap Broken # {}

FailedScripts(src) == {s \in Script : src[s] # None /\ DoesNotBuild(src[s])}

\* plan_static_sync and plan_scripts: every static file to its output; a script
\* that does not compile keeps its last output.
StaticOutput(src) ==
  [p \in Output |->
     IF \E s \in Static : Dest[s] = p /\ src[s] # None
       THEN LET s == CHOOSE s \in Static : Dest[s] = p
            IN IF s \in FailedScripts(src) THEN staticCache[p] ELSE src[s]
       ELSE None]

\* Slip: without a snapshot a static plan is applied even when skip_static made
\* none.
PlanStaticAnyway(t) ==
  /\ pc[t] = "static"
  /\ statics' = [statics EXCEPT ![t] =
                   IF opts[t].skipStatic
                     THEN @
                     ELSE Resolve(StaticOutput(snap[t]), staticCache)]
  /\ failed' = [failed EXCEPT ![t] = ~opts[t].skipStatic /\ FailedScripts(snap[t]) # {}]
  /\ pc' = [pc EXCEPT ![t] = IF SnapshotBackend THEN "objects" ELSE "applyStatic"]
  /\ UNCHANGED <<siteVars, lastBuildId, buildLock, fsOwner, dirty,
                 opts, gen, snap, todo, objs, pages>>

PlanStatic(t) ==
  /\ pc[t] = "static"
  /\ IF opts[t].skipStatic
       THEN /\ pc' = [pc EXCEPT ![t] = "objects"]
            /\ UNCHANGED <<statics, failed>>
       ELSE /\ statics' = [statics EXCEPT ![t] =
                             Resolve(StaticOutput(snap[t]), staticCache)]
            /\ failed' = [failed EXCEPT ![t] = FailedScripts(snap[t]) # {}]
            /\ pc' = [pc EXCEPT ![t] =
                        IF SnapshotBackend THEN "objects" ELSE "applyStatic"]
  /\ UNCHANGED <<siteVars, lastBuildId, buildLock, fsOwner, dirty,
                 opts, gen, snap, todo, objs, pages>>

\* get_objects_sorted_at: one type at a time, each under the object cache's guard.
ReadType(t, ty) ==
  LET S == {o \in Object : TypeOf[o] = ty}
      read == Parsed(snap[t], S)
  IN
  /\ pc[t] = "objects"
  /\ ty \in todo[t]
  /\ objs' = [objs EXCEPT ![t] = [o \in Object |-> IF o \in S THEN read[o] ELSE @[o]]]
  /\ objCache' = Cached(snap[t], S, gen[t])
  /\ todo' = [todo EXCEPT ![t] = @ \ {ty}]
  /\ UNCHANGED <<files, dist, staticCache, buildCache, generation, lastBuildId,
                 buildLock, fsOwner, pc, dirty,
                 opts, gen, snap, statics, pages, failed>>

\* The template pages: an object that renders gives its output, one that does
\* not gives none.
PageOutput(src) ==
  [p \in Output |->
     IF p \in Object /\ src[p] # None
       THEN IF DoesNotBuild(src[p]) THEN None ELSE src[p]
       ELSE None]

FailedPages(src) == {o \in Object : src[o] # None /\ DoesNotBuild(src[o])}

\* plan_build, once the objects are read.
PlanPages(t) ==
  /\ pc[t] = "objects"
  /\ todo[t] = {}
  /\ opts[t].skipFailures \/ FailedPages(objs[t]) = {}
  /\ pages' = [pages EXCEPT ![t] = Resolve(PageOutput(objs[t]), buildCache)]
  /\ pc' = [pc EXCEPT ![t] = IF SnapshotBackend THEN "planned" ELSE "applyPages"]
  /\ UNCHANGED <<siteVars, lastBuildId, buildLock, fsOwner, dirty,
                 opts, gen, snap, todo, objs, statics, failed>>

\* A page that does not render ends the build with an error.
PageFailure(t) ==
  /\ pc[t] = "objects"
  /\ todo[t] = {}
  /\ ~opts[t].skipFailures
  /\ FailedPages(objs[t]) # {}
  /\ fsOwner' = IF SnapshotBackend THEN fsOwner ELSE None
  /\ Forget(t)
  /\ UNCHANGED <<siteVars, lastBuildId, dirty>>

\* The second with_fs of a build off the mutex.
EnterApply(t) ==
  /\ pc[t] = "planned"
  /\ fsOwner = None
  /\ fsOwner' = t
  /\ pc' = [pc EXCEPT ![t] = IF statics[t] = None THEN "applyPages" ELSE "applyStatic"]
  /\ UNCHANGED <<siteVars, lastBuildId, buildLock, dirty, planVars>>

\* statics.apply
ApplyStatic(t) ==
  /\ pc[t] = "applyStatic"
  /\ dist' = Applied(statics[t], dist, Nothing(statics[t]))
  /\ staticCache' = Recorded(statics[t], staticCache, Nothing(statics[t]))
  /\ pc' = [pc EXCEPT ![t] = IF SnapshotBackend THEN "applyPages" ELSE "objects"]
  /\ UNCHANGED <<files, objCache, buildCache, generation, lastBuildId,
                 buildLock, fsOwner, dirty, planVars>>

\* pages.apply_beneath, and with_fs returns.
ApplyPages(t) ==
  /\ pc[t] = "applyPages"
  /\ dist' = Applied(pages[t], dist, staticCache)
  /\ buildCache' = Recorded(pages[t], buildCache, staticCache)
  /\ fsOwner' = None
  /\ pc' = [pc EXCEPT ![t] = "publish"]
  /\ UNCHANGED <<files, objCache, staticCache, generation, lastBuildId,
                 buildLock, dirty, planVars>>

\* Report script failures, or store the build id as it is by now.
Publish(t) ==
  /\ pc[t] = "publish"
  /\ IF failed[t] /\ ~opts[t].skipFailures
       THEN UNCHANGED lastBuildId
       ELSE lastBuildId' = BuildId
  /\ Forget(t)
  /\ UNCHANGED <<siteVars, fsOwner, dirty>>

-----------------------------------------------------------------------------

Change(t) ==
  \/ \E o \in Object : \/ EditObject(t, o)
                       \/ WriteObject(t, o)
                       \/ AddObject(t, o)
                       \/ DeleteObject(t, o)
  \/ \E from, to \in Object : RenameObject(t, from, to)
  \/ \E s \in Source : WriteSource(t, s) \/ DeleteSource(t, s)
  \/ \E from, to \in Source : RenameSource(t, from, to)

Request(t) == RequestRead(t) \/ RequestBuild(t)

\* The part of a build that runs off the mutex on a backend with snapshots.
Plan(t) ==
  \/ PlanStatic(t)
  \/ \E ty \in Type : ReadType(t, ty)
  \/ PlanPages(t)
  \/ PageFailure(t)

\* What a thread does next of its own accord once a call is under way.
Proceed(t) ==
  \/ ReadObjects(t)
  \/ Invalidate(t)
  \/ StartBuild(t)
  \/ ReturnSkipped(t)
  \/ TakeSnapshot(t)
  \/ EnterApply(t)
  \/ ApplyStatic(t)
  \/ ApplyPages(t)
  \/ Publish(t)

Next == \E t \in Thread : Request(t) \/ Change(t) \/ Plan(t) \/ Proceed(t)

Spec == Init /\ [][Next]_vars

\* The threads are scheduled: a call under way goes on, a mutex is handed out
\* again once released.  A render may take forever.
FairSpec == Spec /\ \A t \in Thread : WF_vars(Proceed(t))

\* No page hangs its render and no script its compiler.
RendersEnd == \A t \in Thread : WF_vars(Plan(t))

-----------------------------------------------------------------------------
(* Properties *)

InCall == {"idle", "reading", "invalidating", "queued"}
InWithFs == {"invalidating", "applyStatic", "applyPages"}
              \cup (IF SnapshotBackend THEN {} ELSE {"static", "objects"})
InBuild == {"skipped", "locked", "static", "objects", "planned",
            "applyStatic", "applyPages", "publish"}

Plans == [ out       : [Output -> Content \cup {None}],
           writes    : SUBSET Output,
           unchanged : SUBSET Output,
           deletes   : SUBSET Output ]

\* Type invariant of the whole state.
TypeOK ==
  /\ files \in [Source -> Content \cup {None}]
  /\ dist \in [Output -> Content \cup {None}]
  /\ objCache \in [Object -> Content \cup {None}]
  /\ staticCache \in [Output -> Content \cup {None}]
  /\ buildCache \in [Output -> Content \cup {None}]
  /\ generation \in Nat
  /\ buildLock \in Thread \cup {None}
  /\ fsOwner \in Thread \cup {None}
  /\ pc \in [Thread -> InCall \cup InBuild]
  /\ dirty \in [Thread -> SUBSET Source]
  /\ opts \in [Thread -> BuildOptions]
  /\ gen \in [Thread -> Nat]
  /\ snap \in [Thread -> [Source -> Content \cup {None}]]
  /\ todo \in [Thread -> SUBSET Type]
  /\ objs \in [Thread -> [Object -> Content \cup {None}]]
  /\ statics \in [Thread -> Plans \cup {None}]
  /\ \A t \in Thread : pc[t] = "applyStatic" => statics[t] \in Plans
  /\ pages \in [Thread -> Plans]
  /\ failed \in [Thread -> BOOLEAN]

\* A thread has written a file and not yet invalidated it.
Mutating == \E t \in Thread : pc[t] = "invalidating"

\* obj_cache never serves an object that is not what its file holds, but for the
\* moment between a write and its invalidation: a build that parses an old
\* snapshot while files change must not put what it read in the cache.
ObjCacheFresh ==
  \A o \in Object :
    objCache[o] # None => \/ objCache[o] = files[o]
                          \/ \E t \in Thread : o \in dirty[t]

\* Whenever no thread is inside with_fs, the two output caches say exactly what
\* is in the build directory, and no output is claimed by both.
CachesDescribeDist ==
  fsOwner = None =>
    \A p \in Output :
      /\ dist[p] = IF staticCache[p] # None THEN staticCache[p] ELSE buildCache[p]
      /\ staticCache[p] = None \/ buildCache[p] = None

\* The build directory holds, for every object no static file shadows, the page
\* its file renders to now.
PagesCurrent ==
  \A p \in Output : staticCache[p] = None => dist[p] = PageOutput(files)[p]

\* ... and for every static file and script that compiles, its output.
StaticsCurrent ==
  \A s \in Static :
    s \notin FailedScripts(files) => staticCache[Dest[s]] = files[s]

\* A build that saw no edit complete since its snapshot leaves the build
\* directory equal to what the live sources render to, whatever was built,
\* cached, shadowed or skipped before it.
BuildIsCurrent ==
  \A t \in Thread :
    pc[t] = "publish" /\ gen[t] = generation /\ ~Mutating =>
      /\ PagesCurrent
      /\ statics[t] # None => StaticsCurrent

\* A build is skipped as a duplicate only when building again would change no
\* page: the edits the caller has made are all in the build directory.
SkippedBuildIsRedundant ==
  \A t \in Thread :
    pc[t] = "skipped" /\ gen[t] = generation /\ ~Mutating => PagesCurrent

\* A field edit is made over the object as the last edit left it, never over a
\* stale parse: no edit a caller was told of is undone by a later one.
EditsBuildOnEdits ==
  [][\A t \in Thread, o \in Object :
       EditObject(t, o) => files'[o] = files[o] \cup {Now}]_vars

\* Unless calls keep arriving forever or a render hangs, every build returns:
\* build_lock and the filesystem mutex are never waited for in a circle.
BuildsReturn ==
  \/ ~RendersEnd
  \/ []<><<\E t \in Thread : Request(t) \/ Change(t)>>_vars
  \/ \A t \in Thread : pc[t] = "queued" ~> pc[t] = "idle"

\* Unless calls keep arriving forever, a reader returns even while another
\* thread's render never ends: a build plans off the filesystem mutex.
ReadersDoNotWaitForRenders ==
  \/ []<><<\E t \in Thread : Request(t) \/ Change(t)>>_vars
  \/ \A t \in Thread : pc[t] = "reading" ~> pc[t] = "idle"
==============================================================================
