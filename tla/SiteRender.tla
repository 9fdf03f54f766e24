------------------------------ MODULE SiteRender ------------------------------
(***************************************************************************)
(* How a `Site` turns its sources into outputs (src/src/site.rs,           *)
(* src/src/page.rs, src/src/liquid_parser.rs, src/src/scripts.rs): what a  *)
(* page renders to, which of the shared context a render read, when the    *)
(* render is reused, and what static files, scripts and the sitemap add.   *)
(*                                                                         *)
(* Data.  Sources hold short names: an object its text, or "bad" when it   *)
(* does not parse; a page or the template the name of its body; a script   *)
(* its text, or "bad" when it does not compile.  The site has a list type  *)
(* `post`, whose objects are Post, and a root object Flag.  Its definitions *)
(* give posts a template ("templated") or none ("plain").  A rendering is  *)
(* the record of everything that went into it, so that two are equal       *)
(* exactly when the render is, and a signature is the value it signs.      *)
(***************************************************************************)
EXTENDS Integers, FiniteSets, WritePlan

CONSTANTS
  Post,      \* objects of the list type
  Page,      \* files of pages_dir that are always pages
  Static,    \* files of static_dir
  Script,    \* TypeScript files of scripts_dir
  Dest,      \* the output of a post, page, static file, script or Template
  Html,      \* the outputs a sitemap lists
  Body,      \* bodies a page or the template may have
  MaxParsed  \* TEMPLATE_CACHE_MAX_ENTRIES

Flag == "flag"
Partial == "partial"
Template == "template"
Definitions == "definitions"
Manifest == "manifest"
Object == Post \cup {Flag}
Source == Object \cup Page \cup Static \cup Script \cup {Partial, Template, Definitions, Manifest}

Sitemap == "sitemap.xml"
Robots == "robots.txt"
Output == {Dest[s] : s \in DOMAIN Dest} \cup {Sitemap, Robots}

ASSUME SiteAssumption ==
  /\ Post \cap Page = {}
  /\ {Flag, Partial, Template, Definitions, Manifest}
       \cap (Post \cup Page \cup Static \cup Script) = {}
  /\ DOMAIN Dest = Post \cup Page \cup Static \cup Script \cup {Template}
  /\ \A s1, s2 \in Post \cup Page \cup {Template} : Dest[s1] = Dest[s2] => s1 = s2
  /\ \A s1, s2 \in Static : Dest[s1] = Dest[s2] => s1 = s2
  /\ \A s1, s2 \in Script : Dest[s1] = Dest[s2] => s1 = s2
  /\ {Dest[s] : s \in Page \cup Post \cup {Template}} \cap {Sitemap, Robots} = {}
  /\ MaxParsed > 0

-----------------------------------------------------------------------------
(* What a body reads *)

Dep == {"post", "flag", "everything", "absent"}

\* The value a dependency has in a context, None when the context lacks it:
\* ContextSignatures::of.
SignatureOf(dep, ctx) ==
  CASE dep = "post" -> ctx.post
    [] dep = "flag" -> ctx.flag
    [] dep = "everything" -> ctx
    [] dep = "absent" -> None

\* Slip: only what a body reads first is noted.
ReadsFirstOnly(body, ctx) ==
  CASE body = "index" -> {"post"}
    [] body = "switch" -> {"flag"}
    [] body = "dump" -> {"everything"}
    [] OTHER -> {}

\* What rendering a body notes.  A "switch" reads the posts only under a flag
\* that is on, which is why reads are recorded anew by every render.
ReadsOf(body, ctx) ==
  CASE body = "index" -> {"post"}
    [] body = "switch" -> {"flag"} \cup (IF ctx.flag = "on" THEN {"post"} ELSE {})
    [] body = "dump" -> {"everything"}
    [] body = "optional" -> {"absent"}
    [] OTHER -> {}

Includes(body) == body = "shell"
ParsesWith(body, partial) == body # "bad" /\ (Includes(body) => partial # None)
Fails(body, ctx) == body = "strict" /\ ctx.flag = "empty"

\* What of the context a body's output shows.
Shown(body, ctx) ==
  CASE body = "index" -> [post |-> ctx.post]
    [] body = "switch" /\ ctx.flag = "on" -> [flag |-> ctx.flag, post |-> ctx.post]
    [] body = "switch" /\ ctx.flag # "on" -> [flag |-> ctx.flag]
    [] body = "dump" -> [everything |-> ctx]
    [] OTHER -> [nothing |-> TRUE]

Rendered(body, partial, overlay, ctx) ==
  [ body    |-> body,
    partial |-> IF Includes(body) THEN partial ELSE None,
    overlay |-> overlay,
    shown   |-> Shown(body, ctx) ]

-----------------------------------------------------------------------------
(* Objects and the context they make *)

\* object_for_path over one file: a cached parse is taken as it is.
ParsedObject(o, src, cache) ==
  IF src[o] = None THEN None
  ELSE IF cache[o] # None THEN cache[o]
  ELSE IF src[o] = "bad" THEN None ELSE src[o]

\* A root object that is there and does not parse fails get_objects.
ObjectsOk(src, cache) == src[Flag] = "bad" => cache[Flag] # None

\* A type with no file of either kind is an empty list, which a context has.
ContextOf(parsed) ==
  [ post |-> [o \in Post |-> parsed[o]],
    flag |-> IF parsed[Flag] = None THEN "empty" ELSE parsed[Flag] ]

-----------------------------------------------------------------------------
(* Pages *)

\* The file an output page is rendered from: a template page from the template
\* its type names, which is then no page itself.
PagesOf(defs) == Page \cup (IF defs = "templated" THEN {} ELSE {Template})
TemplatePagesOf(defs, parsed) ==
  IF defs = "templated" THEN {o \in Post : parsed[o] # None} ELSE {}

FileOf(s) == IF s \in Post THEN Template ELSE s
OverlayOf(s, parsed) == IF s \in Post THEN parsed[s] ELSE None

NoRecord == [p \in Output |-> None]

\* RenderRecord::reusable.
Reusable(r, body, partial, overlay, ctx, built) ==
  /\ r # None
  /\ r.partial = partial /\ r.body = body /\ r.overlay = overlay
  /\ built = r.output
  /\ \A d \in DOMAIN r.deps : SignatureOf(d, ctx) = r.deps[d]

\* Slip: a render is signed by the whole context, whatever it read.
SignEverything(body, partial, overlay, ctx, output) ==
  [ partial |-> partial, body |-> body, overlay |-> overlay, output |-> output,
    deps |-> [d \in {"everything"} |-> ctx] ]

\* What is kept of a render: nothing when it read something the context lacks
\* (signed_reads), since its coming to be there could not be noticed.
RecordOf(body, partial, overlay, ctx, output) ==
  IF \E d \in ReadsOf(body, ctx) : SignatureOf(d, ctx) = None THEN None
  ELSE [ partial |-> partial, body |-> body, overlay |-> overlay, output |-> output,
         deps |-> [d \in ReadsOf(body, ctx) |-> SignatureOf(d, ctx)] ]

\* Slip: a change of the partials keeps the templates parsed with the old ones.
KeepTemplates(parser, partial) == [parser EXCEPT !.partial = partial]

\* get_or_build_parser: a parser is its partials and the templates parsed with
\* it, which embed them; a change of the partials drops both.
ParserFor(parser, partial) ==
  IF parser.partial = partial THEN parser
  ELSE [partial |-> partial, parsed |-> [b \in Body |-> None]]

\* The partial a parsed body embeds: get_or_parse_template.
EmbeddedPartial(parser, body) ==
  IF parser.parsed[body] # None THEN parser.parsed[body].with ELSE parser.partial

\* The templates kept after parsing bodies: a full cache is cleared first.
Remember(parser, bodies) ==
  LET new == {b \in bodies : parser.parsed[b] = None}
      kept == {b \in Body : parser.parsed[b] # None}
      full == Cardinality(kept) + Cardinality(new) > MaxParsed
  IN [parser EXCEPT !.parsed =
        [b \in Body |-> IF b \in new THEN [with |-> parser.partial]
                        ELSE IF full THEN None ELSE parser.parsed[b]]]

\* The pages a build plans, and an output for each as a function of outputs.
PlannedPages(src, defs, parsed) ==
  TemplatePagesOf(defs, parsed) \cup {s \in PagesOf(defs) : src[s] # None}

ByDest(out) ==
  LET at == [p \in {Dest[s] : s \in DOMAIN out} |-> CHOOSE s \in DOMAIN out : Dest[s] = p]
  IN [p \in Output |-> IF p \in DOMAIN at THEN out[at[p]] ELSE None]

\* plan_sitemap: the defaults a site with a site_url gets, each unless its
\* pages build their own.
Defaults(out) ==
  [p \in Output |->
     IF out[p] # None THEN out[p]
     ELSE IF p = Sitemap THEN [listed |-> {q \in Html : out[q] # None}]
     ELSE IF p = Robots THEN [names |-> Sitemap]
     ELSE None]

\* plan_build: the pages it reuses, whether it comes to its end, the ones it can
\* render, and the output and record of each.  A template the definitions name is
\* parsed first, whether or not a page needs it.
PagePlan(src, site, read) ==
  LET parser == ParserFor(site.parser, src[Partial])
      ctx == ContextOf(read)
      planned == PlannedPages(src, site.defs, read)
      body == [s \in planned |-> src[FileOf(s)]]
      with == [b \in Body |-> EmbeddedPartial(parser, b)]
      reused == {s \in planned :
                   Reusable(site.renders[Dest[s]], body[s], src[Partial],
                            OverlayOf(s, read), ctx, site.built[Dest[s]])}
      templateOk == site.defs = "templated" =>
                      src[Template] # None /\ ParsesWith(src[Template], with[src[Template]])
      renders == IF templateOk
                   THEN {s \in planned \ reused :
                           ParsesWith(body[s], with[body[s]]) /\ ~Fails(body[s], ctx)}
                   ELSE {}
      out == [s \in reused \cup renders |->
                IF s \in reused THEN site.renders[Dest[s]].output
                ELSE Rendered(body[s], with[body[s]], OverlayOf(s, read), ctx)]
  IN [ ok      |-> templateOk /\ reused \cup renders = planned,
       renders |-> renders,
       out     |-> out,
       parser  |-> parser,
       body    |-> body,
       records |-> [s \in renders |->
                      RecordOf(body[s], src[Partial], OverlayOf(s, read), ctx, out[s])] ]

\* The site once a plan has rendered the pages of done: what a render leaves in
\* the parser and render caches stays there whatever becomes of the plan.
Filled(site, plan, done) ==
  LET new == ByDest([s \in done |-> plan.records[s]])
  IN [site EXCEPT
       !.parser = Remember(plan.parser, {plan.body[s] : s \in done}),
       !.renders = [p \in Output |-> IF new[p] # None THEN new[p] ELSE site.renders[p]]]

-----------------------------------------------------------------------------
(* Static files and scripts *)

Copied(text) == [copied |-> text]
Compiled(text) == [compiled |-> text]

\* A script and a static file that build to one output fail the sync.
Collision(src) ==
  \E s \in Static, m \in Script : src[s] # None /\ src[m] # None /\ Dest[s] = Dest[m]

FailedScripts(src) == {m \in Script : src[m] = "bad"}

\* Slip: a script that fails is planned as a script that is gone.
FailedIsGone(m, src, compiled, onDisk) ==
  IF src[m] = None \/ src[m] = "bad" THEN None ELSE Compiled(src[m])

\* plan_typescript: a cached compilation that is still on disk is reused, and
\* one that fails keeps serving what is on disk.
ScriptOutput(m, src, compiled, onDisk) ==
  IF src[m] = None THEN None
  ELSE IF compiled[m] # None /\ onDisk # None
          /\ compiled[m].from = src[m] /\ compiled[m].to = onDisk THEN onDisk
  ELSE IF src[m] = "bad" THEN onDisk
  ELSE Compiled(src[m])

StaticWanted(src, compiled, cache) ==
  [p \in Output |->
     IF \E s \in Static : Dest[s] = p /\ src[s] # None
       THEN Copied(src[CHOOSE s \in Static : Dest[s] = p])
     ELSE IF \E m \in Script : Dest[m] = p
       THEN ScriptOutput(CHOOSE m \in Script : Dest[m] = p, src, compiled, cache[p])
     ELSE None]

\* script_cache afterwards.
CompiledCache(src, compiled) ==
  [m \in Script |-> IF src[m] \in {None, "bad"} THEN compiled[m]
                    ELSE [from |-> src[m], to |-> Compiled(src[m])]]

-----------------------------------------------------------------------------
(* What a build from nothing would produce *)

FreshPages(src) ==
  LET none == [o \in Object |-> None]
      parsed == [o \in Object |-> ParsedObject(o, src, none)]
      ctx == ContextOf(parsed)
      pages == PlannedPages(src, src[Definitions], parsed)
      out == [s \in pages |-> Rendered(src[FileOf(s)], src[Partial], OverlayOf(s, parsed), ctx)]
  IN Defaults(ByDest(out))

FreshStatics(src) ==
  StaticWanted(src, [m \in Script |-> None], [p \in Output |-> None])

\* A static file or script takes precedence over a page built to the same path.
Fresh(src) ==
  LET statics == FreshStatics(src)
      pages == FreshPages(src)
  IN [p \in Output |-> IF statics[p] # None THEN statics[p] ELSE pages[p]]
==============================================================================
