# Archival in TLA+

Specifications of Archival: a site that is edited, read and built by several
threads, the dev server that rebuilds it from caches, the carriers that
`archival run` executes beside it, the language server, and what a value, an
object file, a manifest and a template become on every way through the program.
Paths below are relative to the repository (`src/lib.rs` is the crate's root).

    tlc -workers 2 -config ArchivalBuild_race.cfg MCArchivalBuild.tla
    tlapm ArchivalBuildProofs.tla

## The system

Archival is a static site generator and an editing library. A site is a
directory of TOML objects, liquid pages, static files and TypeScript scripts; a
build renders it to a build directory. The same code runs over a real directory
(the command line) and over an in-memory tree (editors, wasm and ffi hosts).

| Part | State | Operations | Talks to |
|---|---|---|---|
| `Archival` (`lib.rs`, `lib_fs.rs`) | `build_lock`, `last_build_id`, the site, the filesystem behind its mutex | `build`, object events, `fs_*` file operations, readers | everything below, from any number of threads |
| `FileSystemMutex` (`file_system_mutex.rs`) | the mutex, its poison flag, `owner` | `with_fs` | every operation of `Archival`, as a closure |
| Object cache (`site.rs`) | `obj_cache`, `cache_generation` | `get_objects_at`, `invalidate_file` | builds off the mutex, readers and editors under it |
| Write plans (`site.rs`) | `static_file_cache`, `build_cache` | `record`, `delete_unvisited`, `apply`, `apply_beneath` | the build directory |
| Rendered-page reuse (`site.rs`, `page.rs`) | `render_cache`, `parser_cache` | `reusable`, `get_or_build_parser` | `build_cache`, what a render read |
| Events (`events.rs`, `lib.rs`) | object files | add, rename, delete, edit, order, children | objects, value paths, the filesystem |
| Memory filesystem (`file_system_memory.rs`) | contents by key, a graph of directories | the `FileSystemAPI` operations, `snapshot` | `Archival` |
| Values and definitions (`fields/`, `object_definition.rs`, `proto.rs`) | none | conversions from and to TOML, JSON, forms, the wire and templates; validation | events, hosts, files |
| Manifest and checks (`manifest.rs`, `validate.rs`) | the manifest of a loaded site | load, `modify_manifest`, format, validate | every command, the language server |
| Templates (`liquid_rewrite.rs`, `tags/`, `named_lookup.rs`) | a thread's layout stack, the cache of parsed values | rewriting, `include`, `render`, `layout`, output | the liquid library |
| Dev server (`binary/dev_server.rs`) | flags of what changed since the last build | the watch loop | watcher, site, supervisor, static server |
| Carrier supervisor and worker (`binary/carriers/mod.rs`, `host.rs`) | `ProxyState`, the sidecar, `SeenContents`, the worker's inbox, roots and payload | `rebuild`, `set_objects`, drop | dev server (messages), node process (HTTP), proxy (shared state) |
| Carrier proxy (`binary/carriers/proxy.rs`) | `in_flight`, a thread per request | `handle`, `port`, `forward` | static server's accept loop, `ProxyState`, sidecar |
| Sidecar harness (`harness.mjs`) | the pushed state, imported carriers | control routes, `runCarrier` | worker, proxy |
| Language server (`lsp/`) | open documents, loaded sites | notifications | the library's validators |

What is hard about it, and what makes each part correct:

* **A build runs off the mutex.** It holds the filesystem once to take a
  snapshot and once to apply the result; parsing, planning and rendering happen
  between, while edits and reads go on and share `obj_cache` with it. The
  generation must keep old parses out of the cache, the two output caches must
  describe the disk, a build nobody overtook must leave the disk current, a
  build may be skipped only when it would change nothing, and an edit must never
  be made over a stale parse.
* **Static files and pages own the same outputs.** Two plans are applied one
  after the other, the second beneath the first; files move in and out of the
  way of pages, a page or a script may fail, and so may a write half-way.
* **`with_fs` is not reentrant** and detects it with a `Relaxed` load outside
  the mutex: a nested call must be refused before it waits for itself, and
  contention must never be refused.
* **A rebuild reuses what it can**: parsed objects, parsed templates, compiled
  scripts, rendered pages. What a page read is recorded while it renders, and a
  page is skipped when nothing of that changed. After any edits, failures and
  reloads, what is served must be what a build from nothing would make.
* **Edits address values by paths of names and indexes** that other edits shift,
  through files a second program may rewrite. An event must touch what it names
  and nothing else, and leave a site that can be read.
* **A value takes many ways**: TOML, JSON, a form, protocol buffers, templates.
  Each has code of its own, and a value accepted on one must be readable on the
  next, mean the same, and not leak when it is a secret.
* **Files are read twice by different code**: `validate` and the language server
  against the loader, the template rewriter against liquid's grammar. The second
  reader must say what the first does.
* **A render shares state with the next**: a thread's stack of layouts, liquid's
  registers and a cache of parsed values, with failures and `break`s on the way.
* **A carrier edit replaces a process** while requests are running in it, more
  edits arrive, builds finish, and any step of the replacement may fail. Edits
  and objects must reach the process that ends up serving, requests must not
  notice, there must never be two processes, nothing may wait forever.

## Modules

| Module | Models | Abstract over |
|---|---|---|
| `WritePlan` | `WritePlan::record`, `delete_unvisited`, `apply`, `apply_beneath` as operators on outputs | the order of operations in a plan |
| `ArchivalBuild` | one `Archival` shared by threads; one action per stretch a thread runs without giving up a lock | file contents (the set of edits they carry), rendering |
| `FsGate` | what `with_fs` promises: one closure at a time, none after a panic | how |
| `FsMutex` | `with_fs` step by step, the `Relaxed` owner, nesting, panics; implements `FsGate` | what closures do |
| `SiteRender` | what a page reads and renders to, records and signatures, parsers, scripts, sitemap | a rendering is the record of what went into it |
| `DevServer` | `archival run`'s loop over `SiteRender` and `WritePlan` | the carriers, the HTTP server |
| `MemoryFs` | the memory filesystem's map and directory graph | contents of files |
| `ValuePaths` | paths into an object's values and definition | kinds of scalar values |
| `ObjectEvents` | every event and file operation over `MemoryFs` and `ValuePaths` | what values are |
| `TomlDocs` | documents as TOML and JSON parsers give them | letters |
| `FieldValues`, `ObjectValues`, `ProtoValues` | types, values, definitions and objects, with each conversion | texts: only what the parsers make of them |
| `ObjectRoutes` | one object through its life on all those ways | files, caches |
| `Manifests`, `SiteLoading` | the manifest; which files a site is loaded from, under which names; EXTENDS the first | how definitions are read (a parameter) |
| `SiteFiles` | the files of a site under authors, hosts and commands; EXTENDS `SiteLoading` | how definitions are read and objects rewritten (constants) |
| `SiteChecks`, `SiteReports` | readers of definitions and objects, `validate`; what it says of `SiteFiles` | the place a diagnostic points at |
| `Documents`, `LspServer` | buffers and positions; the server, its client and other programs, over `SiteLoading` | hover and the like, which the server does not offer; the parsers (constants) |
| `LiquidRewrite` | the rewriter on tokens, liquid's grammar, offsets | letters |
| `TemplateTags`, `PageTemplates` | the tags' interpreter; a thread that renders page after page | what liquid writes for a value |
| `Carriers` | dev server's carrier half, worker, sidecar | a carrier's files (one path), how it is compiled |
| `CarrierProxy` | requests while `Carriers` runs under them; EXTENDS it | URLs, headers, bodies |
| `MC*` | the instances TLC checks | |
| `ArchivalBuildProofs` | theorems about `ArchivalBuild` and `WritePlan` | |
| `DevServerProofs` | theorems about `DevServer`, `SiteRender`, `WritePlan` | |
| `CarrierProxyProofs` | theorems about `Carriers` and, over them, `CarrierProxy` | |
| `FsMutexProofs`, `MemoryFsProofs` | theorems about `FsMutex`, `MemoryFs` | |
| `SiteFilesProofs` | theorems about `SiteFiles`, `Manifests`, `SiteLoading` | |
| `DocumentsProofs`, `LspServerProofs` | theorems about `Documents`, `LspServer`; the second EXTENDS the first | |

How they correspond to the code:

**ArchivalBuild.** A mutator is two actions: the write (`Mutate` with what the
operation leaves in the files) and one `Invalidate` for each path, with
`fsOwner` held from the first to the last, because a build that plans off the
mutex sees the cache in between. `build` is `StartBuild` (take `build_lock`,
compare ids), `TakeSnapshot` (snapshot and generation), `PlanStatic`, one
`ReadType` for each object type (`get_objects_sorted_at` releases `obj_cache`
between types, which is where parses of different moments can meet), `PlanPages`
or `PageFailure`, `EnterApply`, `ApplyStatic`, `ApplyPages`, `Publish`. Without a
snapshot (a real directory) `fsOwner` is kept from `TakeSnapshot` on and the
static plan is applied before the pages are planned, as the code does; its first,
empty acquisition of the mutex is folded into `TakeSnapshot`. The bytes of a file
are the set of edits they carry, so that an edit over a stale parse is visible
as a lost number. A hash of contents stands for the contents: collisions are
assumed away. Compiled scripts are static files that may fail to compile;
`script_cache` only saves a compilation and is folded in. Template pages stand
for all pages; plain pages, the sitemap and `render_cache` are in `SiteRender`.

**FsMutex.** `owner` is modelled as the list of its stores and what each thread
has seen of it: a `Relaxed` load may return any store not older than one the
thread has seen or made itself. That taking the mutex also tells a thread of the
stores made before it was released is left out, which only allows more
behaviours. A key is never reused, as thread ids are not.

**Carriers.** `wpc` walks `Worker::rebuild` one observable step at a time:
discover, baseline, tell the proxy, drop the old sidecar, spawn, wait for health,
push, tell the proxy. `StepFails` fails any of them and goes through `fail`.
`SeenContents` is `seen`; a watcher's pending events are `events`. A sidecar
imports a carrier at the first request for it and keeps what it imported
(`Load`). Edits made between `CarrierSupervisor::start`'s baseline and the
registration of the watcher are left out. `kinds` remembers which kinds of edits
were made, for properties that hold of some kinds only. `fail` prints before it
tells the proxy, and a print that panics ends the worker (`WorkerEnds`).

**CarrierProxy.** One record of variables for each request: `Handle` on the
accept loop; then, on its thread, `Resolve` (`port`, and the checks of method
and body), `Run`/`Respond` (the sidecar's side), `SendFails`, `Retry`,
`ReadBody`, and `Answer`, which gives the slot back. A `Timeout` (the deadline of
`port`, or the client's) may run out at any point where the code waits; it counts as
a fault, and may run out after the last one too, since a clock always does.

**SiteRender and DevServer.** A rendering is the record of everything that went
into it (the body, what it read of the context, the partial, the layout), so two
renderings are equal exactly when the text would be, and a signature is the value
it signs. `ReadsOf` is what a render records (`ContextDep`), `Reusable` is
`RenderRecord::reusable` with the `build_cache` entry it asks for, `ParserFor` is
`get_or_build_parser`. The loop is `Sync`, `ReadObjects`, `Build`, each a step of
its own with edits between them; `Receive` is a path from the watcher, `Batch` the
start of a batch, with the reload of the site when the definitions changed. One
filesystem operation of an apply may fail, and then any part of the plan is done
(`PartsOf`). `disowned` collects the outputs a reload forgets, which nothing
prunes. `edited` is a history variable: what was edited since a build that went
well read it as it now is, so that a text which is changed and changed back
between two reads is not taken for one that was built. The reload resets every cache, since it replaces the `Site`.

**MemoryFs, ValuePaths, ObjectEvents.** A path is a sequence of names and a key
its lower-case form; that keys are compared as texts is kept (`StartsWith`),
because it is what makes `posts/x` a descendant of `post`. The loop of
`remove_from_graph` that climbs until a directory keeps an entry is stated by what
it leaves: a directory goes when it and every one below it on the path are empty. `exact` turns false
when an operation met such a case, and the properties about the graph speak of
the rest. An event is one action and fails without effect where the code returns
early; a closure that panics sets `poisoned`. `Native` is a real directory, where
`create_dir_all` leaves a directory of its own.

**FieldValues, ObjectValues, ProtoValues, ObjectRoutes.** A text is told apart
only by what the parsers make of it, given by the constants (`Numerals`,
`Truths`, `Dates`). Dates keep their offset, which is where local and absolute
time can be confused. `ObjectRoutes` takes an object through author, form, JSON,
wire, event and save in any order up to the bound.

**Manifests, SiteLoading, SiteFiles, SiteChecks, SiteReports.** A manifest is its fields as
options; the defaults, the canonical and legacy names, and what `to_toml` leaves out are
as in the code. What a definitions file says (`ReadDefinitions`) and what formatting
writes of an object (`Rewritten`) are constant operators of `SiteFiles`; the run gives
them their values from `SiteChecks`, and `SiteReports` states what `validate` says of
the same files. `Report` is `validate::site`, `ServerDefinitionFaults` what
`lsp/` reports of a definitions file: two translations of two pieces of code, not one shared definition.

**Documents, LspServer.** Texts are sequences of characters, some of two UTF-16
units; `Cursor` is the protocol's own definition of a position, written from the
protocol and external to the repository. The client queues notifications, the
disk may change before they are told (`Tell`), and the server takes one at a time.
`Publish` gives what the loop over the buffers leaves: each looks its directory up
(`Located`) and finds what the ones before it have looked up, on a disk nobody
writes meanwhile, so their order does not matter. What a parser makes of a text
(`Parsed`, `KeySpan`, `TemplateFaults`), what a document defines
(`ReadDefinitions`) and what is wrong with an object (`FaultsOfObject`) are constant
operators; `MCLspServer` gives the last two their values from `SiteChecks`, so the
run checks the server over the repository's own readers. `sources` is a history
variable: the files a site was loaded from, of those names a load asks for, against
which `UnwatchedKept` says what has changed since.

**LiquidRewrite, TemplateTags, PageTemplates.** The rewriter is a scanner on a
sequence of symbols; `Lex` is liquid's grammar, external, against which it is
checked. `Run` interprets a template with the scope, output, interrupt, layouts
and cache in one state; archival's four tags are translated line by line and
liquid's `assign`, `for`, `break`, `continue` are external. `MaxNesting` bounds
partials that include themselves.

## Runs

| Run | Instance | Shows |
|---|---|---|
| `race` | 2 threads, 2 objects of 2 types, a script over one page, edit 2 breaks what it touches, 3 edits, renders that may hang | caches fresh, caches describe the disk, builds current, edits kept, in every interleaving; readers return though a render hangs, builds return when renders end |
| `native` | 1 thread over a real directory, 4 edits of which one breaks what it touches, failures left out, with and without static files | the same disk properties when the mutex is kept; a skipped build was redundant for pages |
| `mutex` | 3 threads, nesting, panics, release build | `owner` names the thread that runs its closure; re-entry refused, contention not, `FsGate` implemented, calls return |
| `dev` | a post, a root object, two pages, a static file over a page, a script, a template, a partial, the definitions; 2 edits of any of them, 1 failing operation | what is served is what a build from nothing makes; caches describe the disk; definitions are current; only what read an edited source is rendered again; a broken script keeps its output |
| `events` | a list and a root object, 2 events or file operations of any kind with valid and invalid paths | the graph lists the files; events leave a readable site, touch only the object and value they name, shift children as a list does |
| `objects` | every field type, alone, as oneof and as child, in every document, 3 edits | a saved object is readable (but for `HasListForField`), keeps its meaning and settles; secrets stay out; the schema's JSON is accepted (but for `AliasOfAlias`); events and definitions arrive over the wire |
| `sitefiles` | manifests, definitions and object files under each name, 5 steps of authors, hosts and `format` | a manifest is read back as it was; a change changes its field; `validate` agrees with the loader and finds every mistake; formatting keeps what loads and adds no fault |
| `lsp` | a site with definitions and an object, 4 steps of the client and other programs, 2 notifications in flight | texts agree; what is shown is what a fresh server shows; a site's own saved files show no error exactly when it loads |
| `templates` | all short pages of the four tags over lists, nested lists and values with liquid in them; all short sources and `liquid` bodies | renders do not depend on those before; partials isolated or inlined as their tag says; loops, layouts, lookups; the rewriter reads what liquid reads, settles, and leads offsets back |
| `carriers` | 2 carriers, 2 edits of any kind, 1 build, 1 fault, the dev server may stop | no port of a dropped sidecar, one process; code and objects arrive |
| `proxy` | 2 requests for 1 slot, one for a carrier that is not there; 2 edits, 1 fault, the dev server may stop | restarts are hidden, busy only when full, every request answered |
| `templates_nested` | the instance of `templates` | ends in a counterexample: a layout used inside a layout shows the sentinel of its content and loses the page |

A property that a run names is often a conjunction of parts with names and
comments of their own, and the last definitions of a module put them together:
`BuildsAreCurrent`, `CachesAreSound` and `BuildsTouchWhatChanged` in `DevServer`;
`FileSystemIsSound` and `EventsTouchWhatTheyName` in `ObjectEvents`;
`EditedObjectsLoad` and `MeaningTravels` in `ObjectRoutes`; `OwnerIsSound` in `FsMutex`; `ManifestSurvives`,
and `RewritesKeepTheRest` in `SiteFiles`; `ReportsAreSound` in `SiteReports`; `BuffersAgree` in
`LspServer`; `RendersStandAlone`, `TagsMeanWhatTheySay` and `RewritingIsFaithful`
in `PageTemplates`; `WorkerIsSound` in `Carriers`; `ProxyIsSound` in
`CarrierProxy`. Each part has a mutant of its own in `PROJECT.json`.

### Known departures

What the models show the code to do against its own word. The first has a run;
each of the others is seen by adding the property named to the cfg of the run
named, with the constants given. The passing runs leave out exactly the case.

| What happens | Where | Seen with |
|---|---|---|
| A layout whose template uses a layout: `post_process` takes the first of two sentinels for the only one | `tags/layout.rs:143` | `templates_nested`; `LayoutsHoldTheirContent` is about layouts that do not nest |
| `validate` holds what is in a list of objects against a field's type, and never the list: `edit_field` and `add_child` accept one for any field, write it, and the object is lost at the next load | `fields/field_value.rs:643` | `SavedIsReadable` in `objects`, which `EditedObjectsLoad` states but for such files (`HasListForField`) |
| JSON for an alias of an alias is read as if the inner alias were no type | `fields/field_value.rs:905` | `AliasesAreTheirBase` in `objects`; `SchemaJsonIsAccepted` is about other types (`AliasOfAlias`) |
| An edit completes while a build plans; the id stored at the end already counts it, so the next build is skipped and the edit stays out of the build directory until another one | `lib.rs:292` | `SkippedBuildIsRedundant` in `race`; `native` checks it with one thread |
| `rename_object` onto an existing object overwrites its file and leaves its parse in `obj_cache` | `lib.rs:614` | `RenameOnto = TRUE` in `race`: `ObjCacheFresh` |
| On a real directory a static file lands over a page, the page plan of the same build fails, and `build_cache` goes on claiming the page: it never comes back when the static file goes | `lib.rs:277` | `Options <- MCDefault` in `native`: `BuildIsCurrent` |
| A refused `add_object` of a type with a root object leaves the type's directory on a real filesystem; the type is then both, and no object of the site can be read | `lib.rs:563` | `Native = TRUE` in `events`: `EventsKeepSiteReadable` |
| A carrier added between `discover` and `prime` is in the baseline and not in `roots`: it is never served. A change taken back before its event is read stays in a sidecar that imported it | `carriers/mod.rs:287`, `:302` | `NoEditIsDropped` in `carriers`; `EditsReachCarriers` is about changes and removals |
| Dropping the supervisor joins a worker that waits for a sender the supervisor still holds | `carriers/mod.rs:236` | `DropReturns` in `carriers` |
| A restart kills a sidecar in the middle of a request, and the request is sent again | `carriers/proxy.rs:234` | `RunsOnce` in `proxy` |
| A static file over a page stays out of `build_cache` until the page's next apply; `reusable` asks it all the same | `site.rs:126` | `BuildCacheIsOnDisk` in `dev` |
| The manifest is not watched: an edit of it is served only after the definitions change too | `dev_server.rs:180` | `"manifest"` in `Editable` in `dev`: `DefinitionsAreCurrent` |
| `validate` reports nothing of a site that lacks its definitions file or asks for another version, though it does not load | `validate.rs:3` | `UnloadableIsReported` in `sitefiles` |

Met while modelling and left as the code has them, each kept out of an instance
or excepted by a named definition:

* *Events and values.* `add_object` does not validate the values it is given:
  a value path that ends in an index panics inside `with_fs` and poisons the
  mutex. A root object added with a value its type does not admit writes a file
  that cannot be read back (`BadText` in `EventsKeepSiteReadable`). `edit_field`
  with no value is not validated. An object in a sub-directory is written back to
  the flat path. `delete_objects` reads under one acquisition of the mutex and
  deletes under another.
* *Memory filesystem.* A recursive listing or removal of `post` takes in `posts`;
  a rename to the same name in another case loses the file.
* *Conversions.* Over protocol buffers only the first child of a list of objects
  arrives and an unreadable date becomes now; a date keeps no subseconds; null in
  `meta` and an unknown display type are not handled.
* *Manifest.* `object_file = "objects.toml"` written out beside
  `archival_objects.toml` is taken for a default and dropped (`Unnamed`); a text set
  to `""` and metadata without entries are left out too, and read back as not set
  (`SaysNothing`, so `Meant` does not tell them apart); a manifest that names itself
  as its `object_file` is overwritten by what it is written as (`Apart`);
  `modify_manifest` writes the upload prefix of the environment into the file
  (`Leaks`) and drops keys it does not know.
* *Language server.* Files under other names than the two markers cause no reload:
  definitions named by `object_file`, and both legacy names (`UnwatchedKept`). A
  manifest that asks for an incompatible `archival_version` shows no error, though
  the site does not load (`Usual`). A line that ends in a lone carriage return is not
  a line.
* *Templates.* `{% raw-%}` is not seen as raw by the rewriter (`HyphenedName`);
  `{{ x %} y }}` is accepted after rewriting (`TagEndInOutput`); a comment between
  two braces glues them (`BraceBeforeComment`); whitespace control reaches across
  a removed comment (`Solid`); `break` in a rendered partial without a loop of its
  own, or in a field's value, ends the page's loop.
* *Dev server.* Outputs of the old site outlive a reload (`disowned`); a failed
  page is not retried before the next edit; what was edited between the first
  build and the watcher is not seen.

Because of the fourth and fifth, `SkippedBuildIsRedundant` is checked with one
thread and `RenameOnto` is off. `SkippedBuildIsRedundant` speaks of pages:
`build_id` does not see static files. `native` leaves failures out of its builds
(`skipFailures`), as the sixth wants. With a pinned port
(`Pinned`) a replacement answers at the same port, and `Retry` never sends to it:
`RestartsAreHidden` is about unpinned sidecars. A plan is not promised that all it
parses is from its snapshot: `object_for_path` returns what another thread has
cached from newer files.

**Bounds.** Two threads are enough for every pair of operations to overlap, and
`build_lock` and the mutex admit one thread each, so a third would only wait;
`FsMutex`, where waiting is the subject, has three. With the mutex kept from
snapshot to last write a second thread could only wait too, so `native` has one
and a fourth edit. Three edits suffice to overtake a build, break a file and
repair it; two types let an edit fall between
them; one script landing on one of two pages gives each page both cases. In `dev`
two edits give an edit during a build and its return, or two sources of one page;
one fault may strike any operation, and the edits may repair after it. In
`events` two steps are an event on what another left; the first files already
hold a list, children and a root object. In `templates` a page has at most a few
tags, each of which may fail, and partials nest to `MaxNesting`; the cache of
values holds two (`MaxNested`), so that it overflows. `lsp` has four steps because
that is an open, an edit, a write by another program and a save, in any order.
Two edits of a carrier give a change and its return, or two restarts, one less than
`MAX_ATTEMPTS` sends; two requests for one slot give both sides of
`MAX_CONCURRENT`. One fault may strike any step; the liveness properties of
`Carriers` are about behaviours without one, since the code retries nothing.
`CHECK_DEADLOCK FALSE` is set where edits, calls and requests are used up in the
end: everywhere but in `race`, `native` and `templates`.

**Fairness.** A thread that is in a call is scheduled (`Proceed`), and mutexes are handed on; a render has no fairness, and `BuildsReturn`
assumes that renders end (`RendersEnd`) while `ReadersDoNotWaitForRenders` does not. The properties of `ArchivalBuild` exclude behaviours in which calls arrive
forever, since `Mutex` promises no order. The dev server's loop wakes
every 50 ms and the worker is a thread of its own, so each has weak fairness;
so has each request's thread. The author of the site, the sidecar's death and
new builds have none. The other modules state safety only: their programs are one
thread that handles what comes.

## Proofs

Each theorem holds for every value of the constants that the `ASSUME`s of its
module admit; TLC evaluates those for every instance, and checked each inductive
invariant on the instances before it was proved.

**The shared instance.** `ArchivalBuildProofs` proves, for
any threads, files, types, shadowing, options and broken edits:

* `TypeCorrect`, by one lemma for each group of actions.
* `LocksHold`: `fsOwner` and `buildLock` are exactly the threads whose `pc` is
  inside; mutual exclusion follows and every later proof leans on it.
* `CachesAlwaysDescribeDist`, on both kinds of backend. `CachesDescribeDist` says
  nothing while a thread is applying, so it is not inductive. `PlanInv` says that
  a plan under way was resolved against the caches as they still are, which
  `build_lock` guarantees; `CacheInv` says what holds between the two applies.
* `ObjCacheAlwaysFresh` and `EditsAlwaysBuildOnEdits`. `FreshInv` adds that a
  snapshot whose generation is still the present one equals the files but for
  what a mutator has written and not yet invalidated: the step from the check in
  `object_for_path` to a fresh cache.
* `BuildAlwaysCurrent`. A thread is `Calm` while the generation is the one of its
  snapshot and nobody is between a write and its invalidation. `CurrentInv` says
  that a calm thread is `OnTrack` at each stage: the snapshot is the files, the
  objects read so far are, both plans want what the files say, and what is already
  applied is on disk. An edit anywhere ends the calm for good.
* `SkippedBuildAlwaysRedundant`, for one thread: no edit falls between a build's
  snapshot and the id it stores, so an id that is still the present one means pages
  that are still current.

They need `BuildsWriteAll` (a backend with snapshots, or builds that skip what
fails), no object renamed onto another (`~RenameOnto`), and for the last
`OneThread`. Each is one of the known departures: without it the property is false,
and TLC shows it.

**The dev server.** `DevServerProofs` is about every site that `SiteAssumption` and
`DevAssumption` describe, with any edits and any failing operation:

* `CachesAlwaysSound`: part of an apply (`PartsOf`) leaves caches that describe
  the disk. The parts are split by which entry and which file they reached.
* `AlwaysServesTheSources`: once the loop has heard of every edit and the last
  batch went well, each output is what a build from nothing makes of the sources.
  `KeptInv` is what makes it inductive: whatever the site keeps (a parsed object, a
  compiled script, a synced static file, what `read` holds during a build) is
  what its file says, unless the loop has yet to hear of the file or to sync it. `RenderInv`
  says of a record that its output is the rendering of its body over every
  context with the signatures it recorded, so a render that is reused equals a
  fresh one; `ParserInv` says it of parsed templates.
* `BuildsAlwaysCurrent`: `DefinitionsAreCurrent` as well, when nobody edits the
  manifest, which the server does not watch; a manifest that does not load also
  uses up the flag that asks for the reload.
* `BuildsTouchOnlyWhatChanged`: an action property. `ReadyInv` says that a page on
  disk whose inputs are not in `edited` would be reused, for the objects as they
  would be read afresh; it needs `EditedInv` (what is not in `edited` is read as
  it is) and `TextsInv`.

**Carriers.** `WorkerIsAlwaysSound`: no process but `sidecar` and `booting` is alive
(`LiveInv`), `booting` is there exactly while the worker waits for its health, the
old one is let go of before the next is spawned, and from then until the next is
ready the proxy has no port (`UnreadyInv`). `ProxyIsAlwaysSound` counts:
`RestartInv` bounds the sidecars there were, those a rebuild on its way will spawn
and the events not yet read by the edits, and `SentInv` says that each attempt of a
request goes to a later sidecar. So fewer edits than `MAX_ATTEMPTS` leave an
attempt to spare (`RestartsAreHidden`); with as many the property is false.
`OnlyRestarts` names its other conditions: nothing fails, the dev server runs, no
carrier is removed, the port is not pinned. `BusyMeansFull` rests on `SlotInv`:
`in_flight` is the number of requests being forwarded, on every way out.

**`with_fs`.** `FsMutexProofs` proves, for any number of threads and calls,
`OwnerAlwaysSound`, `ContentionNeverRefused`, `NestedCallsAlwaysRefused` and
`MutexImplementsGate` (the initial states map to initial states, every step to a
step of `FsGate` or a stutter). The inductive invariant says that a thread's own
key is the newest store it can see exactly while it holds the mutex; this is where
the store that clears `owner` before the release matters.

**The memory filesystem.** `MemoryFsProofs` proves `FilesStayListed`: whatever is
written, deleted, renamed and removed, for paths of any length, the graph is that of
the files (`GraphIsOfFiles`), as long as paths are as good as strings (`ExactPath`,
`ExactRename`, `ExactRemoval`, which TLC's `exact` follows), a path names
something, and `remove_dir_all` is given a directory. `GraphIsOfFiles` alone is not
inductive: `Sound` adds that each entry says truly whether it is a file and that no
key is both. `PruningKeepsTheGraph` is the argument for deletions and removals: a
file that is left parts from the removed path at some node above it
(`WhereItParts`), where its entry stops the climb, so a node goes exactly when no
file is left beneath it. `DeletesKeepTheGraph`, `RemovalsKeepTheGraph` and
`RenamesKeepTheGraph` also say which files go. The theorems are about the
operators that `ObjectEvents` is built from; its own specification reaches recursive
operators, so `FilesAreListed` of every sequence of events is TLC's.

**Positions.** `DocumentsProofs` proves, for every text and every set of characters,
`PositionIsFoundAgain`: the offset the server finds for the position of an offset
is that offset; and `EditsLandWhereTheyWereMade`: an edit between two offsets,
sent as the protocol's positions, changes the server's copy as it changed the
client's. `LinesAreNumbered` makes a line's number determine its start,
`UnitsGrow` makes the UTF-16 count strictly grow along a line, so the scan in
`OffsetIn` stops where it should, and `PositionIsTheProtocols` equates
`PositionAt` with the protocol's own `Cursor`. A text is a sequence of whole
characters, so no offset lies inside one.

**The language server.** `LspServerProofs` is about any files, directories, texts,
parsers and bounds, and proves all that the run `lsp` checks:

* `BuffersAlwaysAgree`. A notification carries any number of changes and the inbox
  any number of notifications; what the server will have once it took them
  (`Received`) is a fold over both, and a client's step only ever appends:
  `AppendsAreReceived` and `EditsAreReceived` say what one more notification, or one
  more change of the last one, makes of the fold, from which each step follows by
  `EditsLandWhereTheyWereMade`.
* `ShownAlwaysFresh`. `ShownIsFresh` speaks of settled states only. The invariant
  speaks of all: what is known is sound (`Sound`: every loaded site is what loading
  its `sources` gives), what is shown is what follows from what is known
  (`Shows`), and what is known is `Current`, in its roots and in the files with a
  marker's name, as long as no notification on its way, nor one yet to be sent,
  will cause a reload (`Quiet`). `LoadsWhatItNames` closes the gap to a fresh
  server: a load reads no other files than `LoadNames`.
* `ErrorsAreAlwaysTheLoaders`, from the same invariant.

The second assumes that a fault's key lies in its text (`SpanLies`); the third that
a text is a table or broken (`IsTableOrBroken`), and that reading definitions with a
manifest's editor types refuses nothing that is read without them
(`EditorsOnlyAdd`): a site that does not load has no editor types, so the server
then reads its definitions without those its manifest gives. TLC evaluates the three for the repository's readers
over all short texts (`ParsersAssumption` in `MCLspServer`).

**The manifest.** `SiteFilesProofs` is about any manifests, definitions, object files,
settings and prefixes, whatever reads definitions and rewrites objects:

* `ManifestAlwaysSurvives`. `ManifestIsReadBack` speaks of what a load gives, and a step
  of `Modify` keeps it only if what is held can be written at all. `Held` adds that: each
  field that is no default is one that `FieldDoc` writes and `ReadField` takes back
  (`WellRead`), which reading (`ReadManifestIsWellRead`) and setting
  (`SetFieldIsWellRead`) both establish, field by field, editor types included
  (`EditorTypesAreReadBack`). `WrittenIsRead` is then the round trip: `from_string` of what
  `to_toml` writes is the manifest itself but for what says nothing and for the legacy
  name (`AsWritten`), with the prefix it was read with and without one.
  `WrittenNameResolves` says where leaving that name out is harmless.
* `RewritesAlwaysKeepTheRest`, an action property. Setting a field needs `OnDisk`: as
  long as nobody else writes, the file means what the host would write, but for the
  upload prefix it brought (`PrefixChangesItself`). Formatting needs no invariant:
  `FormattedSiteLoads` says of any files that a site which loads does so again, alike.

What `Unnamed`, `Leaks` and `Apart` except are known departures.

**Assumed** of the constants, beside what a theorem states: names and lower case
(`NameAssumption`), that the values for nothing are not values (`NoneAssumption`),
that posts, pages and the site's own files are different files and no two pages, no
two static files and no two scripts have one output (`SiteAssumption`), and that texts are bodies the
parsers know (`DevAssumption`), that there is a file for the manifest's canonical name
and hosts set only what `Manifest::set` takes (`SiteFilesAssumption`).

**Only model-checked.** Everything under fairness, since TLAPS has neither liveness
under fairness nor `ENABLED`: `BuildsReturn`, `ReadersDoNotWaitForRenders`,
`CallsReturn`, `EditsReachCarriers`, `ObjectsReachCarriers`, `RequestsAnswered`.
`ObjectEvents`, `ObjectRoutes`, `PageTemplates` and `SiteReports`: what a recursive
definition computes for every input is induction over data, which the prover cannot
instantiate, so values, value paths, the rewriter and the tags' interpreter stay with
TLC over the inputs of their instances.

## Plan

Runs are kept few, one for each question; the properties of a module are grouped
so that what it adds is checked in the run it has.

1. Proofs: `FileSystemIsSound`, which needs the value paths of `ObjectEvents` free of
   recursive operators.
2. Two callers of `delete_objects` in `ArchivalBuild`; a site's layouts and
   partials of partials in `SiteRender`.
3. The static server's resolution of a request to a file, and the order of objects
   under `sort_by`, when either comes to have state of its own.

## Not modelled

Rendering, parsing and compiling (libraries, and functions of their input), the
network commands, generated interfaces, and the real filesystem, of which only
what the other modules use is assumed: a read sees the last write.
`PROJECT.json` lists every part and the reason, and the hazards no property
covers, with the reason for each.
