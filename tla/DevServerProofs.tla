--------------------------- MODULE DevServerProofs ---------------------------
(* Theorems about DevServer, for any pages, posts, static files, scripts,     *)
(* texts, edits and faults.                                                   *)
EXTENDS DevServer, TLAPS

-----------------------------------------------------------------------------
(* The inductive invariant *)

\* The shapes of the state: functions and records, whatever they hold.
IsSite(x) ==
  x = [ defs     |-> x.defs,
        objs     |-> x.objs,
        statics  |-> x.statics,
        compiled |-> x.compiled,
        built    |-> x.built,
        renders  |-> x.renders,
        parser   |-> x.parser ]

IsOver(f, S) == f = [x \in S |-> f[x]]

IsParser(x) ==
  /\ x = [partial |-> x.partial, parsed |-> x.parsed]
  /\ IsOver(x.parsed, Body)

ShapeInv ==
  /\ IsSite(site)
  /\ DOMAIN src = Source
  /\ IsOver(disk, Output)
  /\ IsOver(read, Object)
  /\ IsOver(site.objs, Object)
  /\ IsOver(site.statics, Output)
  /\ IsOver(site.compiled, Script)
  /\ IsOver(site.built, Output)
  /\ IsOver(site.renders, Output)
  /\ IsParser(site.parser)
  /\ synced \in BOOLEAN
  /\ watching \in BOOLEAN

\* The static cache is always on disk ...
StaticsOnDisk ==
  \A p \in Output : site.statics[p] # None => disk[p] = site.statics[p]

\* ... and where no cache entry was lost the two caches say all that is.
DiskAgrees ==
  \A p \in Output \ disowned :
    disk[p] = IF site.statics[p] # None THEN site.statics[p] ELSE site.built[p]

CacheInv == StaticsOnDisk /\ DiskAgrees

\* Sources whose last edit the loop has not heard of.
Unheard == pending \cup unseen

\* A parse the site keeps, and one the build under way has read, is what the file
\* holds, unless its last edit is still unheard of.
ObjectInv ==
  /\ \A o \in Object \ Unheard :
       site.objs[o] # None => site.objs[o] = src[o] /\ src[o] # "bad"
  /\ pc = "build" =>
       \A o \in Object \ Unheard : read[o] = ParsedObject(o, src, NoObjects)

\* A parsed template embeds the partials its parser was made for.
ParserSound(parser) ==
  \A b \in Body : parser.parsed[b] # None => parser.parsed[b].with = parser.partial

ParserInv == ParserSound(site.parser)

\* A render that is kept is what its sources render to in some context, and is
\* signed by all that it read of it.
RecordSound(r) ==
  r # None =>
    \E ctx : /\ r.output = Rendered(r.body, r.partial, r.overlay, ctx)
             /\ r.deps = [d \in ReadsOf(r.body, ctx) |-> SignatureOf(d, ctx)]

RenderInv == \A p \in Output : RecordSound(site.renders[p])

\* A compilation that is kept is of the script it says.
CompiledInv ==
  \A m \in Script :
    site.compiled[m] # None =>
      site.compiled[m].to = Compiled(site.compiled[m].from)

\* As long as no sync is due, the static outputs are those of the sources,
\* unless an edit of one is unheard of.
SyncInv ==
  /\ ~flags.statics /\ Unheard \cap (Static \cup Script) = {}
       => site.statics = FreshStatics(src)
  /\ pc \in {"read", "build"} => (synced => ~flags.statics)

\* The site's definitions are those of the file, unless they do not load, or a
\* reload is due, or their edit is unheard of.
DefinitionsInv ==
  /\ src[Manifest] = "good"
  /\ /\ src[Definitions] \in {"templated", "plain"}
     /\ ~flags.definitions /\ Definitions \notin Unheard
     => site.defs = src[Definitions]

-----------------------------------------------------------------------------
(* Lemmas about plans *)

\* A plan, or the part of one that got done: what it writes is wanted, what it
\* leaves alone is what the cache says, what it deletes is not wanted.
PlanOf(plan, cache) ==
  /\ plan.writes \subseteq Output /\ plan.unchanged \subseteq Output
  /\ plan.deletes \subseteq Output
  /\ \A p \in plan.writes : plan.out[p] # None
  /\ \A p \in plan.unchanged : plan.out[p] = cache[p] /\ cache[p] # None
  /\ plan.deletes \cap (plan.writes \cup plan.unchanged) = {}
  /\ plan.writes \cap plan.unchanged = {}

LEMMA ResolvePlan ==
  ASSUME NEW wanted, IsOver(wanted, Output), NEW cache
  PROVE  PlanOf(Resolve(wanted, cache), cache)
<1>1. DOMAIN wanted = Output
  BY DEF IsOver
<1> QED BY <1>1 DEF PlanOf, Resolve

LEMMA PartPlan ==
  ASSUME NEW wanted, IsOver(wanted, Output), NEW cache,
         NEW part \in PartsOf(Resolve(wanted, cache))
  PROVE  PlanOf(part, cache)
<1> DEFINE plan == Resolve(wanted, cache)
<1>1. PlanOf(plan, cache)
  BY ResolvePlan
<1>2. plan = [out |-> plan.out, writes |-> plan.writes,
              unchanged |-> plan.unchanged, deletes |-> plan.deletes]
  BY DEF Resolve
<1> HIDE DEF plan
<1>3. CASE \E w \in SUBSET plan.writes :
             part = [plan EXCEPT !.writes = w, !.unchanged = {}, !.deletes = {}]
  BY <1>1, <1>2, <1>3 DEF PlanOf
<1>4. CASE \E d \in SUBSET plan.deletes : part = [plan EXCEPT !.deletes = d]
  BY <1>1, <1>2, <1>4 DEF PlanOf
<1>5. part \in PartsOf(plan)
  BY DEF plan
<1> QED BY <1>3, <1>4, <1>5 DEF PartsOf

\* What an apply leaves of one output, beneath what is above.
LEMMA ApplyAt ==
  ASSUME NEW plan, NEW disk0, IsOver(disk0, Output), NEW cache, IsOver(cache, Output),
         NEW above, PlanOf(plan, cache), NEW p \in Output
  PROVE  LET d == Applied(plan, disk0, above)[p]
             c == Recorded(plan, cache, above)[p]
         IN /\ above[p] # None => d = disk0[p]
            /\ above[p] = None /\ p \in plan.writes => d = plan.out[p] /\ c = plan.out[p]
            /\ above[p] = None /\ p \in plan.deletes => d = None /\ c = None
            /\ above[p] = None /\ p \notin plan.writes \cup plan.deletes
                 => d = disk0[p] /\ c = cache[p]
<1>1. DOMAIN disk0 = Output /\ DOMAIN cache = Output
  BY DEF IsOver
<1> QED BY <1>1 DEF PlanOf, Applied, Recorded, Visited

LEMMA ApplyShape ==
  ASSUME NEW plan, NEW disk0, IsOver(disk0, Output), NEW cache, IsOver(cache, Output),
         NEW above
  PROVE  /\ IsOver(Applied(plan, disk0, above), Output)
         /\ IsOver(Recorded(plan, cache, above), Output)
<1>1. DOMAIN disk0 = Output /\ DOMAIN cache = Output
  BY DEF IsOver
<1> QED BY <1>1 DEF Applied, Recorded, IsOver

-----------------------------------------------------------------------------
(* Lemmas about renders *)

\* A body shows only what it reads.
LEMMA ShownByReads ==
  ASSUME NEW body, NEW old, NEW new,
         \A d \in ReadsOf(body, old) : SignatureOf(d, new) = SignatureOf(d, old)
  PROVE  Shown(body, new) = Shown(body, old)
<1>1. CASE body = "index"
  <2>1. "post" \in ReadsOf(body, old)
    BY <1>1 DEF ReadsOf
  <2>2. new.post = old.post
    BY <2>1 DEF SignatureOf
  <2> QED BY <1>1, <2>2 DEF Shown
<1>2. CASE body = "switch"
  <2>1. "flag" \in ReadsOf(body, old)
    BY <1>2 DEF ReadsOf
  <2>2. new.flag = old.flag
    BY <2>1 DEF SignatureOf
  <2>3. CASE old.flag = "on"
    <3>1. "post" \in ReadsOf(body, old)
      BY <1>2, <2>3 DEF ReadsOf
    <3>2. new.post = old.post
      BY <3>1 DEF SignatureOf
    <3> QED BY <1>2, <2>2, <2>3, <3>2 DEF Shown
  <2>4. CASE old.flag # "on"
    BY <1>2, <2>2, <2>4 DEF Shown
  <2> QED BY <2>3, <2>4
<1>3. CASE body = "dump"
  <2>1. "everything" \in ReadsOf(body, old)
    BY <1>3 DEF ReadsOf
  <2>2. new = old
    BY <2>1 DEF SignatureOf
  <2> QED BY <2>2
<1>4. CASE body \notin {"index", "switch", "dump"}
  BY <1>4 DEF Shown
<1> QED BY <1>1, <1>2, <1>3, <1>4

\* A render that is reused is what rendering again would make.
LEMMA ReusedIsRendered ==
  ASSUME NEW r, RecordSound(r), NEW body, NEW partial, NEW overlay, NEW ctx, NEW built,
         Reusable(r, body, partial, overlay, ctx, built)
  PROVE  r.output = Rendered(body, partial, overlay, ctx)
<1>1. PICK old : /\ r.output = Rendered(r.body, r.partial, r.overlay, old)
                 /\ r.deps = [d \in ReadsOf(r.body, old) |-> SignatureOf(d, old)]
  BY DEF RecordSound, Reusable
<1>2. r.body = body /\ r.partial = partial /\ r.overlay = overlay
  BY DEF Reusable
<1>3. \A d \in ReadsOf(body, old) : SignatureOf(d, ctx) = SignatureOf(d, old)
  BY <1>1, <1>2 DEF Reusable
<1>4. Shown(body, ctx) = Shown(body, old)
  BY <1>3, ShownByReads
<1> QED BY <1>1, <1>2, <1>4 DEF Rendered

\* The record of a render is sound.
LEMMA RecordIsSound ==
  ASSUME NEW body, NEW partial, NEW overlay, NEW ctx
  PROVE  RecordSound(RecordOf(body, partial, overlay, ctx,
                              Rendered(body, partial, overlay, ctx)))
BY DEF RecordSound, RecordOf

\* A parser is made for the partials as they are, and so is what it embeds.
LEMMA ParserForSound ==
  ASSUME NEW parser, IsParser(parser), ParserSound(parser), NEW partial
  PROVE  /\ IsParser(ParserFor(parser, partial))
         /\ ParserSound(ParserFor(parser, partial))
         /\ ParserFor(parser, partial).partial = partial
         /\ \A b \in Body : EmbeddedPartial(ParserFor(parser, partial), b) = partial
<1>1. CASE parser.partial = partial
  BY <1>1 DEF ParserFor, ParserSound, EmbeddedPartial
<1>2. CASE parser.partial # partial
  BY <1>2 DEF ParserFor, ParserSound, EmbeddedPartial, IsParser, IsOver
<1> QED BY <1>1, <1>2

LEMMA RememberSound ==
  ASSUME NEW parser, IsParser(parser), ParserSound(parser), NEW bodies
  PROVE  IsParser(Remember(parser, bodies)) /\ ParserSound(Remember(parser, bodies))
<1> DEFINE full == Cardinality({b \in Body : parser.parsed[b] # None})
                     + Cardinality({b \in bodies : parser.parsed[b] = None}) > MaxParsed
           new == {b \in bodies : parser.parsed[b] = None}
           f == [b \in Body |-> IF b \in new THEN [with |-> parser.partial]
                                ELSE IF full THEN None ELSE parser.parsed[b]]
<1>1. Remember(parser, bodies) = [parser EXCEPT !.parsed = f]
  BY DEF Remember
<1>2. IsOver(f, Body)
  BY DEF IsOver
<1>3. \A b \in Body : f[b] # None => f[b].with = parser.partial
  BY DEF ParserSound
<1> HIDE DEF f
<1>4. [parser EXCEPT !.parsed = f] = [partial |-> parser.partial, parsed |-> f]
  BY DEF IsParser
<1> QED BY <1>1, <1>2, <1>3, <1>4 DEF IsParser, ParserSound

\* What lands on an output is the value of a source that builds to it.
LEMMA ByDestAt ==
  ASSUME NEW out, NEW p \in Output
  PROVE  \/ ByDest(out)[p] = None
         \/ \E s \in DOMAIN out : Dest[s] = p /\ ByDest(out)[p] = out[s]
<1>1. CASE \E s \in DOMAIN out : Dest[s] = p
  <2> DEFINE c == CHOOSE s \in DOMAIN out : Dest[s] = p
  <2>1. c \in DOMAIN out /\ Dest[c] = p
    BY <1>1
  <2>2. ByDest(out)[p] = out[c]
    BY <2>1 DEF ByDest
  <2> QED BY <2>1, <2>2
<1>2. CASE ~\E s \in DOMAIN out : Dest[s] = p
  BY <1>2 DEF ByDest
<1> QED BY <1>1, <1>2

\* The render that site x keeps for a page would be reused over these objects.
ReadyOver(x, s, objects) ==
  Reusable(x.renders[Dest[s]], src[FileOf(s)], src[Partial], OverlayOf(s, objects),
           ContextOf(objects), x.built[Dest[s]])

\* Everything a build plans with, for a site whose renders and parser are sound.
PlanFacts(plan, planned, reused) ==
  /\ reused \subseteq planned
  /\ plan.renders \subseteq planned \ reused
  /\ plan.ok => reused \cup plan.renders = planned
  /\ IsParser(plan.parser) /\ ParserSound(plan.parser)
  /\ \A s \in plan.renders : RecordSound(plan.records[s])
  /\ DOMAIN plan.records = plan.renders
  /\ reused = {s \in planned : ReadyOver(site, s, read)}
  /\ \A s \in plan.renders :
       /\ src[FileOf(s)] \in Body
       /\ plan.records[s] = RecordOf(src[FileOf(s)], src[Partial], OverlayOf(s, read),
                                     ContextOf(read), plan.out[s])
  /\ plan.out = [s \in reused \cup plan.renders |->
                   Rendered(src[FileOf(s)], src[Partial], OverlayOf(s, read),
                            ContextOf(read))]

\* The bodies of what is rendered are bodies.
BodiesOk == \A s \in Page \cup {Template} : src[s] \in Body \cup {None}

LEMMA PagePlanFacts ==
  ASSUME ShapeInv, RenderInv, ParserInv, BodiesOk
  PROVE  \E reused : PlanFacts(PagePlan(src, site, read),
                               PlannedPages(src, site.defs, read), reused)
<1> DEFINE parser == ParserFor(site.parser, src[Partial])
           ctx == ContextOf(read)
           planned == PlannedPages(src, site.defs, read)
           body == [s \in planned |-> src[FileOf(s)]]
           with == [b \in Body |-> EmbeddedPartial(parser, b)]
           reused == {s \in planned :
                        Reusable(site.renders[Dest[s]], body[s], src[Partial],
                                 OverlayOf(s, read), ctx, site.built[Dest[s]])}
           templateOk == site.defs = "templated" =>
                           src[Template] # None /\ ParsesWith(src[Template], with[src[Template]])
           renders == IF templateOk
                        THEN {s \in planned \ reused :
                                ParsesWith(body[s], with[body[s]]) /\ ~Fails(body[s], ctx)}
                        ELSE {}
           out == [s \in reused \cup renders |->
                     IF s \in reused THEN site.renders[Dest[s]].output
                     ELSE Rendered(body[s], with[body[s]], OverlayOf(s, read), ctx)]
           records == [s \in renders |->
                         RecordOf(body[s], src[Partial], OverlayOf(s, read), ctx, out[s])]
           plan == PagePlan(src, site, read)
<1>1. plan = [ ok      |-> templateOk /\ reused \cup renders = planned,
               renders |-> renders, out |-> out, parser |-> parser, body |-> body,
               records |-> records ]
  BY DEF PagePlan
<1>2. /\ IsParser(parser) /\ ParserSound(parser)
      /\ \A b \in Body : with[b] = src[Partial]
  BY ParserForSound DEF ShapeInv, ParserInv
<1>3. reused \subseteq planned /\ renders \subseteq planned \ reused
  OBVIOUS
<1>4. ASSUME NEW s \in planned
      PROVE  Dest[s] \in Output /\ body[s] = src[FileOf(s)]
  <2>1. s \in Post \cup Page \cup {Template}
    BY <1>4 DEF PlannedPages, TemplatePagesOf, PagesOf
  <2>2. s \in DOMAIN Dest
    BY <2>1, SiteAssumption
  <2> QED BY <1>4, <2>2 DEF Output
<1>5. ASSUME NEW s \in renders PROVE with[body[s]] = src[Partial] /\ body[s] \in Body
  <2>1. s \in planned /\ templateOk
    BY <1>5
  <2>2. s \in Post \cup Page \cup {Template}
    BY <2>1 DEF PlannedPages, TemplatePagesOf, PagesOf
  <2>3. CASE s \in Post
    <3>1. s \in TemplatePagesOf(site.defs, read)
      BY <2>1, <2>3, SiteAssumption DEF PlannedPages, PagesOf
    <3>2. body[s] = src[Template] /\ src[Template] # None
      BY <1>4, <2>1, <2>3, <3>1 DEF FileOf, TemplatePagesOf
    <3> QED BY <1>2, <3>2 DEF BodiesOk
  <2>4. CASE s \notin Post
    <3>1. body[s] = src[s] /\ src[s] # None
      BY <1>4, <2>1, <2>4 DEF FileOf, PlannedPages, TemplatePagesOf
    <3> QED BY <1>2, <2>2, <2>4, <3>1 DEF BodiesOk
  <2> QED BY <2>3, <2>4
<1>6. ASSUME NEW s \in reused \cup renders
      PROVE  out[s] = Rendered(src[FileOf(s)], src[Partial], OverlayOf(s, read), ctx)
  <2>1. s \in planned /\ body[s] = src[FileOf(s)] /\ Dest[s] \in Output
    BY <1>3, <1>4, <1>6
  <2>2. CASE s \in reused
    <3>1. Reusable(site.renders[Dest[s]], body[s], src[Partial],
                   OverlayOf(s, read), ctx, site.built[Dest[s]])
      BY <2>2
    <3>2. RecordSound(site.renders[Dest[s]])
      BY <2>1 DEF RenderInv
    <3>3. site.renders[Dest[s]].output
            = Rendered(body[s], src[Partial], OverlayOf(s, read), ctx)
      BY <3>1, <3>2, ReusedIsRendered
    <3>4. out[s] = site.renders[Dest[s]].output
      BY <2>2
    <3> QED BY <2>1, <3>3, <3>4
  <2>3. CASE s \in renders
    <3>1. s \notin reused
      BY <1>3, <2>3
    <3>2. out[s] = Rendered(body[s], with[body[s]], OverlayOf(s, read), ctx)
      BY <1>6, <3>1
    <3> QED BY <1>5, <2>1, <2>3, <3>2
  <2> QED BY <1>6, <2>2, <2>3
<1>7. ASSUME NEW s \in renders PROVE RecordSound(records[s])
  <2>1. out[s] = Rendered(body[s], src[Partial], OverlayOf(s, read), ctx)
    BY <1>3, <1>4, <1>6, <1>7
  <2>2. records[s] = RecordOf(body[s], src[Partial], OverlayOf(s, read), ctx, out[s])
    BY <1>7
  <2> HIDE DEF records, out, body, ctx
  <2> QED BY <2>1, <2>2, RecordIsSound
<1>8. /\ out = [s \in reused \cup renders |-> out[s]]
      /\ DOMAIN records = renders
  OBVIOUS
<1>9. reused = {s \in planned : ReadyOver(site, s, read)}
  BY <1>4 DEF ReadyOver
<1>10. ASSUME NEW s \in renders
       PROVE  /\ src[FileOf(s)] \in Body
              /\ records[s] = RecordOf(src[FileOf(s)], src[Partial], OverlayOf(s, read),
                                       ContextOf(read), out[s])
  <2>1. body[s] = src[FileOf(s)]
    BY <1>3, <1>4, <1>10
  <2>2. records[s] = RecordOf(body[s], src[Partial], OverlayOf(s, read), ctx, out[s])
    BY <1>10
  <2> HIDE DEF records, out, body
  <2> QED BY <1>5, <2>1, <2>2
<1> HIDE DEF parser, ctx, planned, body, with, reused, templateOk, renders, out, records, plan
<1>11. /\ plan.ok => reused \cup renders = planned
      /\ plan.renders = renders /\ plan.out = out /\ plan.parser = parser
      /\ plan.records = records
  BY <1>1
<1>12. \A s \in reused \cup renders :
         out[s] = Rendered(src[FileOf(s)], src[Partial], OverlayOf(s, read), ContextOf(read))
  BY <1>6 DEF ctx
<1>13. out = [s \in reused \cup renders |->
                Rendered(src[FileOf(s)], src[Partial], OverlayOf(s, read), ContextOf(read))]
  BY <1>8, <1>12
<1>14. PlanFacts(plan, planned, reused)
  BY <1>2, <1>3, <1>7, <1>8, <1>11, <1>13, <1>9, <1>10 DEF PlanFacts
<1> QED BY <1>14 DEF plan, planned

\* A site that has rendered some pages of a plan: only its parser and its records
\* change, and both stay sound.
LEMMA FilledFacts ==
  ASSUME ShapeInv, RenderInv, NEW plan, NEW planned, NEW reused,
         PlanFacts(plan, planned, reused), NEW done \in SUBSET plan.renders,
         NEW y, y = Filled(site, plan, done)
  PROVE  /\ IsSite(y)
         /\ IsOver(y.renders, Output)
         /\ IsParser(y.parser) /\ ParserSound(y.parser)
         /\ \A p \in Output : RecordSound(y.renders[p])
         /\ y.defs = site.defs /\ y.objs = site.objs /\ y.statics = site.statics
         /\ y.compiled = site.compiled /\ y.built = site.built
<1> DEFINE f == [s \in done |-> plan.records[s]]
           new == ByDest(f)
           renders == [p \in Output |-> IF new[p] # None THEN new[p] ELSE site.renders[p]]
           parser == Remember(plan.parser, {plan.body[s] : s \in done})
<1>1. y = [site EXCEPT !.parser = parser, !.renders = renders]
  BY DEF Filled
<1>2. IsOver(renders, Output)
  BY DEF IsOver
<1>3. IsParser(parser) /\ ParserSound(parser)
  BY RememberSound DEF PlanFacts
<1>4. ASSUME NEW p \in Output PROVE RecordSound(renders[p])
  <2>1. CASE new[p] = None
    BY <2>1 DEF RenderInv
  <2>2. CASE new[p] # None
    <3>1. PICK s \in DOMAIN f : new[p] = f[s]
      BY <2>2, ByDestAt
    <3>2. s \in plan.renders /\ f[s] = plan.records[s]
      BY <3>1
    <3>3. RecordSound(plan.records[s])
      BY <3>2 DEF PlanFacts
    <3>4. renders[p] = plan.records[s]
      BY <2>2, <3>1, <3>2
    <3> HIDE DEF renders, f, new
    <3> QED BY <3>3, <3>4
  <2> QED BY <2>1, <2>2
<1> HIDE DEF parser, renders
<1>5. /\ IsSite(y)
      /\ y.parser = parser /\ y.renders = renders
      /\ y.defs = site.defs /\ y.objs = site.objs /\ y.statics = site.statics
      /\ y.compiled = site.compiled /\ y.built = site.built
  <2>1. IsSite(site)
    BY DEF ShapeInv
  <2> QED BY <1>1, <2>1 DEF IsSite
<1> QED BY <1>2, <1>3, <1>4, <1>5

-----------------------------------------------------------------------------
(* What a sync and a build do to the caches and to the build directory *)

LEMMA WantedShapes ==
  /\ \A s, c, k : IsOver(StaticWanted(s, c, k), Output)
  /\ \A out : IsOver(Defaults(out), Output)
BY DEF IsOver, StaticWanted, Defaults

\* A plan for static files, or a part of it, is applied: the sync went well only
\* when all of the plan was and no script failed.
SyncApplies(plan, ok) ==
  /\ PlanOf(plan, site.statics)
  /\ disk' = Applied(plan, disk, NoOutputs)
  /\ site'.statics = Recorded(plan, site.statics, NoOutputs)
  /\ site'.compiled = CompiledCache(src, site.compiled)
  /\ disowned' = (disowned \ plan.writes)
                 \cup {p \in plan.writes \cup plan.deletes : site.built[p] # None}
  /\ synced' = ok
  /\ flags' = [flags EXCEPT !.statics = ~ok]
  /\ ok => /\ plan = Resolve(StaticWanted(src, site.compiled, site.statics), site.statics)
           /\ FailedScripts(src) = {}

LEMMA SyncFacts ==
  ASSUME ShapeInv, Sync
  PROVE  /\ IsSite(site')
         /\ site'.defs = site.defs /\ site'.objs = site.objs /\ site'.built = site.built
         /\ site'.renders = site.renders /\ site'.parser = site.parser
         /\ \/ /\ UNCHANGED <<disk, site, disowned, flags>>
               /\ synced' \in BOOLEAN /\ (synced' => ~flags.statics)
            \/ \E plan : \E ok \in BOOLEAN : SyncApplies(plan, ok)
<1> DEFINE wanted == StaticWanted(src, site.compiled, site.statics)
           plan == Resolve(wanted, site.statics)
<1>1. IsSite(site) /\ IsOver(wanted, Output)
  BY WantedShapes DEF ShapeInv
<1>2. ASSUME NEW part, NEW ok \in BOOLEAN, SyncWith(part, ok), PlanOf(part, site.statics),
             ok => part = plan /\ FailedScripts(src) = {}
      PROVE  /\ IsSite(site')
             /\ site'.defs = site.defs /\ site'.objs = site.objs /\ site'.built = site.built
             /\ site'.renders = site.renders /\ site'.parser = site.parser
             /\ SyncApplies(part, ok)
  <2> HIDE DEF plan
  <2>1. site' = [site EXCEPT !.statics = Recorded(part, site.statics, NoOutputs),
                             !.compiled = CompiledCache(src, site.compiled)]
    BY <1>2 DEF SyncWith
  <2>2. /\ IsSite(site')
        /\ site'.defs = site.defs /\ site'.objs = site.objs /\ site'.built = site.built
        /\ site'.renders = site.renders /\ site'.parser = site.parser
        /\ site'.statics = Recorded(part, site.statics, NoOutputs)
        /\ site'.compiled = CompiledCache(src, site.compiled)
    BY <1>1, <2>1 DEF IsSite
  <2> QED BY <1>2, <2>2 DEF SyncApplies, SyncWith, plan
<1>3. CASE SyncWith(plan, FailedScripts(src) = {})
  <2>1. PlanOf(plan, site.statics)
    BY <1>1, ResolvePlan
  <2> DEFINE ok == FailedScripts(src) = {}
  <2>2. ok \in BOOLEAN /\ (ok => plan = plan /\ FailedScripts(src) = {})
    OBVIOUS
  <2> HIDE DEF plan
  <2> QED BY <1>2, <1>3, <2>1, <2>2
<1>4. CASE \E part \in PartsOf(plan) : SyncWith(part, FALSE)
  <2>1. PICK part \in PartsOf(plan) : SyncWith(part, FALSE)
    BY <1>4
  <2>2. PlanOf(part, site.statics)
    BY <1>1, <2>1, PartPlan
  <2> HIDE DEF plan
  <2> QED BY <1>2, <2>1, <2>2
<1>5. \/ UNCHANGED <<disk, site, disowned, flags>> /\ synced' = TRUE /\ ~flags.statics
      \/ UNCHANGED <<disk, site, disowned, flags>> /\ synced' = FALSE
      \/ SyncWith(plan, FailedScripts(src) = {})
      \/ \E part \in PartsOf(plan) : SyncWith(part, FALSE)
  BY DEF Sync
<1> HIDE DEF plan
<1> QED BY <1>1, <1>3, <1>4, <1>5

\* What the pages render to, over the objects the build has read.
PagesRead(planned) ==
  [s \in planned |-> Rendered(src[FileOf(s)], src[Partial], OverlayOf(s, read),
                              ContextOf(read))]

\* A plan for pages, or a part of it, is applied beneath the static files: the
\* batch went well only when all of it was, after a sync that went well.
BuildApplies(part) ==
  /\ PlanOf(part, site.built)
  /\ disk' = Applied(part, disk, site.statics)
  /\ site'.built = Recorded(part, site.built, site.statics)
  /\ disowned' = disowned \ (part.writes \cup part.deletes
                   \cup {p \in Visited(part) : site.statics[p] # None})
  /\ report' = "ok" =>
       /\ synced
       /\ part = Resolve(Defaults(ByDest(PagesRead(PlannedPages(src, site.defs, read)))),
                         site.built)

LEMMA BuildFacts ==
  ASSUME ShapeInv, RenderInv, ParserInv, BodiesOk, Build
  PROVE  /\ IsSite(site')
         /\ IsOver(site'.renders, Output)
         /\ IsParser(site'.parser) /\ ParserSound(site'.parser)
         /\ \A p \in Output : RecordSound(site'.renders[p])
         /\ site'.defs = site.defs /\ site'.objs = site.objs
         /\ site'.statics = site.statics /\ site'.compiled = site.compiled
         /\ rendered' \subseteq Output
         /\ report' \in {"ok", "failed"}
         /\ \/ /\ UNCHANGED <<disk, disowned>>
               /\ site'.built = site.built
               /\ report' = "failed"
            \/ \E part : BuildApplies(part)
<1> DEFINE plan == PagePlan(src, site, read)
           planned == PlannedPages(src, site.defs, read)
           wanted == Defaults(ByDest(plan.out))
           outputs == Resolve(wanted, site.built)
<1>1. PICK reused : PlanFacts(plan, planned, reused)
  BY PagePlanFacts
<1>2. plan.renders \subseteq planned /\ \A s \in planned : Dest[s] \in Output
  <2>1. \A s \in planned : s \in Post \cup Page \cup {Template}
    BY DEF PlannedPages, TemplatePagesOf, PagesOf
  <2>2. \A s \in planned : s \in DOMAIN Dest
    BY <2>1, SiteAssumption
  <2> HIDE DEF plan, planned
  <2>3. plan.renders \subseteq planned
    BY <1>1 DEF PlanFacts
  <2> QED BY <2>2, <2>3 DEF Output
<1>3. plan.ok => plan.out = PagesRead(planned)
  <2> HIDE DEF plan, planned
  <2> QED BY <1>1 DEF PlanFacts, PagesRead
<1>4. IsOver(wanted, Output)
  BY WantedShapes
<1>5. ASSUME ~plan.ok, NEW done \in SUBSET plan.renders, site' = Filled(site, plan, done),
             rendered' = {Dest[s] : s \in done}, report' = "failed",
             UNCHANGED <<disk, disowned>>
      PROVE  /\ IsSite(site')
             /\ IsOver(site'.renders, Output)
             /\ IsParser(site'.parser) /\ ParserSound(site'.parser)
             /\ \A p \in Output : RecordSound(site'.renders[p])
             /\ site'.defs = site.defs /\ site'.objs = site.objs
             /\ site'.statics = site.statics /\ site'.compiled = site.compiled
             /\ rendered' \subseteq Output
             /\ site'.built = site.built
  <2> HIDE DEF plan, planned
  <2>1. rendered' \subseteq Output
    BY <1>2, <1>5
  <2> QED BY <1>1, <1>5, <2>1, FilledFacts
<1>6. ASSUME NEW part, PlanOf(part, site.built), ApplyPages(part, plan),
             rendered' = {Dest[s] : s \in plan.renders},
             report' = "ok" => plan.ok /\ synced /\ part = outputs
      PROVE  /\ IsSite(site')
             /\ IsOver(site'.renders, Output)
             /\ IsParser(site'.parser) /\ ParserSound(site'.parser)
             /\ \A p \in Output : RecordSound(site'.renders[p])
             /\ site'.defs = site.defs /\ site'.objs = site.objs
             /\ site'.statics = site.statics /\ site'.compiled = site.compiled
             /\ rendered' \subseteq Output
             /\ BuildApplies(part)
  <2> DEFINE y == Filled(site, plan, plan.renders)
  <2>1. /\ disk' = Applied(part, disk, site.statics)
        /\ site' = [y EXCEPT !.built = Recorded(part, site.built, site.statics)]
        /\ disowned' = disowned \ (part.writes \cup part.deletes
                         \cup {p \in Visited(part) : site.statics[p] # None})
    BY <1>6 DEF ApplyPages
  <2>2. report' = "ok" =>
          /\ synced
          /\ part = Resolve(Defaults(ByDest(PagesRead(planned))), site.built)
    BY <1>3, <1>6
  <2> HIDE DEF plan
  <2>3. /\ IsSite(y)
        /\ IsOver(y.renders, Output)
        /\ IsParser(y.parser) /\ ParserSound(y.parser)
        /\ \A p \in Output : RecordSound(y.renders[p])
        /\ y.defs = site.defs /\ y.objs = site.objs /\ y.statics = site.statics
        /\ y.compiled = site.compiled /\ y.built = site.built
    BY <1>1, FilledFacts
  <2> HIDE DEF y
  <2>4. /\ IsSite(site')
        /\ site'.built = Recorded(part, site.built, site.statics)
        /\ site'.renders = y.renders /\ site'.parser = y.parser
        /\ site'.defs = y.defs /\ site'.objs = y.objs /\ site'.statics = y.statics
        /\ site'.compiled = y.compiled
    BY <2>1, <2>3 DEF IsSite
  <2>5. rendered' \subseteq Output
    BY <1>2, <1>6
  <2>6. BuildApplies(part)
    BY <1>6, <2>1, <2>2, <2>4 DEF BuildApplies
  <2> QED BY <2>3, <2>4, <2>5, <2>6
<1>7. \/ /\ ~plan.ok
         /\ \E done \in SUBSET plan.renders :
              site' = Filled(site, plan, done) /\ rendered' = {Dest[s] : s \in done}
         /\ report' = "failed"
         /\ UNCHANGED <<disk, disowned>>
      \/ /\ plan.ok
         /\ ApplyPages(outputs, plan)
         /\ rendered' = {Dest[s] : s \in plan.renders}
         /\ report' = IF synced THEN "ok" ELSE "failed"
      \/ /\ \E part \in PartsOf(outputs) : ApplyPages(part, plan)
         /\ rendered' = {Dest[s] : s \in plan.renders}
         /\ report' = "failed"
  BY DEF Build
<1>8. CASE \E done \in SUBSET plan.renders :
             /\ ~plan.ok
             /\ site' = Filled(site, plan, done) /\ rendered' = {Dest[s] : s \in done}
             /\ report' = "failed"
             /\ UNCHANGED <<disk, disowned>>
  <2> HIDE DEF plan
  <2> QED BY <1>5, <1>8
<1>9. CASE /\ plan.ok
           /\ ApplyPages(outputs, plan)
           /\ rendered' = {Dest[s] : s \in plan.renders}
           /\ report' = IF synced THEN "ok" ELSE "failed"
  <2>1. PlanOf(outputs, site.built)
    BY <1>4, ResolvePlan
  <2> HIDE DEF outputs, plan
  <2> QED BY <1>6, <1>9, <2>1
<1>10. CASE /\ \E part \in PartsOf(outputs) : ApplyPages(part, plan)
            /\ rendered' = {Dest[s] : s \in plan.renders}
            /\ report' = "failed"
  <2>1. PICK part \in PartsOf(outputs) : ApplyPages(part, plan)
    BY <1>10
  <2>2. PlanOf(part, site.built)
    BY <1>4, <2>1, PartPlan
  <2> HIDE DEF outputs, plan
  <2> QED BY <1>6, <1>10, <2>1, <2>2
<1> HIDE DEF outputs, plan
<1> QED BY <1>7, <1>8, <1>9, <1>10

-----------------------------------------------------------------------------
(* The caches are sound *)

SoundInv == TypeOK /\ ShapeInv /\ RenderInv /\ ParserInv /\ CacheInv

LEMMA BodiesAreBodies == TypeOK => BodiesOk
BY DevAssumption DEF TypeOK, BodiesOk, Source

\* A site that was just loaded has nothing cached.
LEMMA LoadedFacts ==
  ASSUME NEW defs
  PROVE  LET x == Loaded(defs)
         IN /\ IsSite(x)
            /\ IsOver(x.objs, Object) /\ IsOver(x.statics, Output)
            /\ IsOver(x.compiled, Script) /\ IsOver(x.built, Output)
            /\ IsOver(x.renders, Output) /\ IsParser(x.parser)
            /\ x.defs = defs
            /\ \A o \in Object : x.objs[o] = None
            /\ \A p \in Output : x.statics[p] = None /\ x.built[p] = None /\ x.renders[p] = None
            /\ \A m \in Script : x.compiled[m] = None
            /\ ParserSound(x.parser)
BY DEF Loaded, IsSite, IsOver, IsParser, ParserSound, NoObjects, NoOutputs, NoRecord

LEMMA SoundInit == Init => SoundInv
<1> SUFFICES ASSUME Init PROVE SoundInv
  OBVIOUS
<1>1. site = Loaded(Start[Definitions])
  BY DEF Init
<1>2. ShapeInv
  <2>1. DOMAIN src = Source
    BY DevAssumption DEF Init
  <2>2. IsOver(disk, Output) /\ IsOver(read, Object)
    BY DEF Init, IsOver, NoOutputs, NoObjects
  <2>3. synced \in BOOLEAN /\ watching \in BOOLEAN
    BY DEF Init
  <2> QED BY <1>1, <2>1, <2>2, <2>3, LoadedFacts DEF ShapeInv
<1>3. RenderInv /\ ParserInv
  BY <1>1, LoadedFacts DEF RenderInv, ParserInv, RecordSound
<1>4. CacheInv
  BY <1>1, LoadedFacts DEF CacheInv, StaticsOnDisk, DiskAgrees, Init, NoOutputs
<1>5. TypeOK
  <2>1. site.defs \in {"templated", "plain"}
    BY <1>1, LoadedFacts, DevAssumption
  <2>2. \A s \in Source : src[s] \in Texts[s] \cup {None}
    BY DevAssumption DEF Init
  <2> QED BY <2>1, <2>2 DEF TypeOK, Init
<1> QED BY <1>2, <1>3, <1>4, <1>5 DEF SoundInv

LEMMA EditSound ==
  ASSUME SoundInv, NEW s \in Editable, NEW text \in Texts[s] \cup {None}, Edit(s, text)
  PROVE  SoundInv'
<1>1. /\ src' = [src EXCEPT ![s] = text]
      /\ UNCHANGED <<disk, site, watching, flags, pc, read, synced, report, rendered,
                     disowned>>
      /\ pending' = pending \/ pending' = pending \cup {s}
  BY DEF Edit
<1>2. ShapeInv'
  BY <1>1 DEF SoundInv, ShapeInv, IsOver
<1>3. RenderInv' /\ ParserInv' /\ CacheInv'
  BY <1>1 DEF SoundInv, RenderInv, ParserInv, CacheInv, StaticsOnDisk, DiskAgrees
<1>4. TypeOK'
  <2>1. \A r \in Source : src'[r] \in Texts[r] \cup {None}
    BY <1>1 DEF SoundInv, TypeOK, ShapeInv, IsOver
  <2> QED BY <1>1, <2>1 DEF SoundInv, TypeOK
<1> QED BY <1>2, <1>3, <1>4 DEF SoundInv

LEMMA ReceiveSound ==
  ASSUME SoundInv, NEW s \in Editable, Receive(s)
  PROVE  SoundInv'
<1>1. /\ UNCHANGED <<src, disk, watching, pc, read, synced, report, rendered, disowned>>
      /\ pending' = pending \ {s}
      /\ flags' = FlagsAfter(s)
      /\ site' = Invalidated(s)
  BY DEF Receive
<1>2. /\ IsSite(site')
      /\ IsOver(site'.objs, Object)
      /\ site'.defs = site.defs /\ site'.statics = site.statics
      /\ site'.compiled = site.compiled /\ site'.built = site.built
      /\ site'.renders = site.renders /\ site'.parser = site.parser
  BY <1>1 DEF SoundInv, ShapeInv, IsSite, IsOver, Invalidated
<1>3. ShapeInv'
  BY <1>1, <1>2 DEF SoundInv, ShapeInv
<1>4. RenderInv' /\ ParserInv' /\ CacheInv'
  BY <1>1, <1>2 DEF SoundInv, RenderInv, ParserInv, CacheInv, StaticsOnDisk, DiskAgrees
<1>5. TypeOK'
  <2>1. /\ flags' \in [changed : BOOLEAN, statics : BOOLEAN, definitions : BOOLEAN]
        /\ flags'.changed
    BY <1>1 DEF SoundInv, TypeOK, FlagsAfter
  <2> QED BY <1>1, <1>2, <2>1 DEF SoundInv, TypeOK
<1> QED BY <1>3, <1>4, <1>5 DEF SoundInv

LEMMA WatchSound ==
  ASSUME SoundInv, StartWatch
  PROVE  SoundInv'
<1>1. ShapeInv'
  BY DEF StartWatch, SoundInv, ShapeInv
<1>2. RenderInv' /\ ParserInv' /\ CacheInv'
  BY DEF StartWatch, SoundInv, RenderInv, ParserInv, CacheInv, StaticsOnDisk, DiskAgrees
<1>3. TypeOK'
  BY DEF StartWatch, SoundInv, TypeOK
<1> QED BY <1>1, <1>2, <1>3 DEF SoundInv

LEMMA BatchSound ==
  ASSUME SoundInv, Batch
  PROVE  SoundInv'
<1>1. UNCHANGED <<src, disk, watching, pending, read, synced, rendered>>
  BY DEF Batch
<1>2. CASE UNCHANGED <<site, disowned>>
  BY <1>1, <1>2 DEF SoundInv, ShapeInv, RenderInv, ParserInv, CacheInv, StaticsOnDisk,
                    DiskAgrees, Batch, TypeOK
<1>3. CASE /\ src[Definitions] \in {"templated", "plain"}
           /\ site' = Loaded(src[Definitions])
           /\ disowned' = disowned \cup {p \in Output : disk[p] # None}
  <2>1. ShapeInv'
    BY <1>1, <1>3, LoadedFacts DEF SoundInv, ShapeInv
  <2>2. RenderInv' /\ ParserInv'
    BY <1>3, LoadedFacts DEF RenderInv, ParserInv, RecordSound
  <2>3. CacheInv'
    BY <1>1, <1>3, LoadedFacts DEF CacheInv, StaticsOnDisk, DiskAgrees
  <2>4. TypeOK'
    BY <1>1, <1>3, LoadedFacts DEF Batch, SoundInv, TypeOK
  <2> QED BY <2>1, <2>2, <2>3, <2>4 DEF SoundInv
<1> QED BY <1>2, <1>3 DEF Batch

LEMMA SyncSound ==
  ASSUME SoundInv, Sync
  PROVE  SoundInv'
<1>1. UNCHANGED <<src, watching, pending, read, report, rendered>> /\ pc' = "read"
  BY DEF Sync
<1>2. /\ IsSite(site')
      /\ site'.defs = site.defs /\ site'.objs = site.objs /\ site'.built = site.built
      /\ site'.renders = site.renders /\ site'.parser = site.parser
      /\ \/ /\ UNCHANGED <<disk, site, disowned, flags>>
            /\ synced' \in BOOLEAN /\ (synced' => ~flags.statics)
         \/ \E plan : \E ok \in BOOLEAN : SyncApplies(plan, ok)
  BY SyncFacts DEF SoundInv
<1>3. RenderInv' /\ ParserInv'
  BY <1>2 DEF SoundInv, RenderInv, ParserInv
<1>4. CASE UNCHANGED <<disk, site, disowned, flags>> /\ synced' \in BOOLEAN
  <2>1. ShapeInv'
    BY <1>1, <1>2, <1>4 DEF SoundInv, ShapeInv
  <2>2. CacheInv'
    BY <1>4 DEF SoundInv, CacheInv, StaticsOnDisk, DiskAgrees
  <2>3. TypeOK'
    BY <1>1, <1>4 DEF SoundInv, TypeOK
  <2> QED BY <1>3, <2>1, <2>2, <2>3 DEF SoundInv
<1>5. ASSUME NEW plan, NEW ok \in BOOLEAN, SyncApplies(plan, ok)
      PROVE  SoundInv'
  <2>1. IsOver(disk, Output) /\ IsOver(site.statics, Output)
    BY DEF SoundInv, ShapeInv
  <2>2. /\ PlanOf(plan, site.statics)
        /\ disk' = Applied(plan, disk, NoOutputs)
        /\ site'.statics = Recorded(plan, site.statics, NoOutputs)
        /\ disowned' = (disowned \ plan.writes)
                       \cup {p \in plan.writes \cup plan.deletes : site.built[p] # None}
    BY <1>5 DEF SyncApplies
  <2>3. IsOver(disk', Output) /\ IsOver(site'.statics, Output)
    BY <2>1, <2>2, ApplyShape
  <2>4. IsOver(site'.compiled, Script)
    BY <1>5 DEF SyncApplies, CompiledCache, IsOver
  <2>5. ShapeInv'
    BY <1>1, <1>2, <1>5, <2>3, <2>4 DEF SoundInv, ShapeInv, SyncApplies
  <2>6. ASSUME NEW p \in Output
        PROVE  /\ p \in plan.writes =>
                    disk'[p] = plan.out[p] /\ site'.statics[p] = plan.out[p]
               /\ p \in plan.deletes => disk'[p] = None /\ site'.statics[p] = None
               /\ p \notin plan.writes \cup plan.deletes
                    => disk'[p] = disk[p] /\ site'.statics[p] = site.statics[p]
    <3>1. NoOutputs[p] = None
      BY DEF NoOutputs
    <3> QED BY <2>1, <2>2, <3>1, ApplyAt
  <2>7. StaticsOnDisk'
    BY <2>6 DEF SoundInv, CacheInv, StaticsOnDisk
  <2>8. DiskAgrees'
    <3> SUFFICES ASSUME NEW p \in Output, p \notin disowned'
                 PROVE  disk'[p] = IF site'.statics[p] # None THEN site'.statics[p]
                                   ELSE site'.built[p]
      BY DEF DiskAgrees
    <3>1. CASE p \in plan.writes
      BY <2>2, <2>6, <3>1 DEF PlanOf
    <3>2. CASE p \in plan.deletes
      BY <1>2, <2>2, <2>6, <3>2
    <3>3. CASE p \notin plan.writes \cup plan.deletes
      <4>1. p \notin disowned
        BY <2>2, <3>3
      <4> QED BY <1>2, <2>6, <3>3, <4>1 DEF SoundInv, CacheInv, DiskAgrees
    <3> QED BY <3>1, <3>2, <3>3
  <2>9. TypeOK'
    <3>1. flags' = [flags EXCEPT !.statics = ~ok]
      BY <1>5 DEF SyncApplies
    <3>2. /\ flags' \in [changed : BOOLEAN, statics : BOOLEAN, definitions : BOOLEAN]
          /\ flags'.definitions => flags'.changed
      BY <3>1 DEF SoundInv, TypeOK
    <3>3. disowned' \subseteq Output
      BY <2>2 DEF SoundInv, TypeOK, PlanOf
    <3> QED BY <1>1, <1>2, <3>2, <3>3 DEF SoundInv, TypeOK
  <2> QED BY <1>3, <2>5, <2>7, <2>8, <2>9 DEF SoundInv, CacheInv
<1> QED BY <1>2, <1>4, <1>5

LEMMA ReadSound ==
  ASSUME SoundInv, ReadObjects
  PROVE  SoundInv'
<1> DEFINE parsed == [o \in Object |-> ParsedObject(o, src, site.objs)]
           kept == [o \in Object |-> IF parsed[o] # None THEN parsed[o] ELSE site.objs[o]]
<1>1. /\ UNCHANGED <<src, disk, watching, pending, flags, synced, rendered, disowned>>
      /\ site' = [site EXCEPT !.objs = kept]
      /\ read' = parsed \/ read' = read
      /\ pc' \in {"build", "loop", "watch"}
      /\ report' \in {report, "failed"}
  BY DEF ReadObjects, After
<1>2. IsOver(kept, Object) /\ IsOver(parsed, Object)
  BY DEF IsOver
<1> HIDE DEF kept, parsed
<1>3. /\ IsSite(site')
      /\ site'.objs = kept
      /\ site'.defs = site.defs /\ site'.statics = site.statics
      /\ site'.compiled = site.compiled /\ site'.built = site.built
      /\ site'.renders = site.renders /\ site'.parser = site.parser
  BY <1>1 DEF SoundInv, ShapeInv, IsSite
<1>4. ShapeInv'
  BY <1>1, <1>2, <1>3 DEF SoundInv, ShapeInv
<1>5. RenderInv' /\ ParserInv' /\ CacheInv'
  BY <1>1, <1>3 DEF SoundInv, RenderInv, ParserInv, CacheInv, StaticsOnDisk, DiskAgrees
<1>6. TypeOK'
  BY <1>1, <1>3 DEF SoundInv, TypeOK
<1> QED BY <1>4, <1>5, <1>6 DEF SoundInv

LEMMA BuildSound ==
  ASSUME SoundInv, Build
  PROVE  SoundInv'
<1>1. UNCHANGED <<src, watching, pending, flags, read, synced>> /\ pc' \in {"loop", "watch"}
  BY DEF Build, After
<1>2. /\ IsSite(site')
      /\ IsOver(site'.renders, Output)
      /\ IsParser(site'.parser) /\ ParserSound(site'.parser)
      /\ \A p \in Output : RecordSound(site'.renders[p])
      /\ site'.defs = site.defs /\ site'.objs = site.objs
      /\ site'.statics = site.statics /\ site'.compiled = site.compiled
      /\ rendered' \subseteq Output
      /\ report' \in {"ok", "failed"}
      /\ \/ UNCHANGED <<disk, disowned>> /\ site'.built = site.built
         \/ \E part : BuildApplies(part)
  BY BuildFacts, BodiesAreBodies DEF SoundInv
<1>3. RenderInv' /\ ParserInv'
  BY <1>2 DEF RenderInv, ParserInv
<1>4. CASE UNCHANGED <<disk, disowned>> /\ site'.built = site.built
  <2>1. ShapeInv'
    BY <1>1, <1>2, <1>4 DEF SoundInv, ShapeInv
  <2>2. CacheInv'
    BY <1>2, <1>4 DEF SoundInv, CacheInv, StaticsOnDisk, DiskAgrees
  <2>3. TypeOK'
    BY <1>1, <1>2, <1>4 DEF SoundInv, TypeOK
  <2> QED BY <1>3, <2>1, <2>2, <2>3 DEF SoundInv
<1>5. ASSUME NEW part, BuildApplies(part)
      PROVE  SoundInv'
  <2>1. IsOver(disk, Output) /\ IsOver(site.built, Output)
    BY DEF SoundInv, ShapeInv
  <2>2. /\ PlanOf(part, site.built)
        /\ disk' = Applied(part, disk, site.statics)
        /\ site'.built = Recorded(part, site.built, site.statics)
        /\ disowned' = disowned \ (part.writes \cup part.deletes
                         \cup {p \in Visited(part) : site.statics[p] # None})
    BY <1>5 DEF BuildApplies
  <2>3. IsOver(disk', Output) /\ IsOver(site'.built, Output)
    BY <2>1, <2>2, ApplyShape
  <2>4. ShapeInv'
    BY <1>1, <1>2, <2>3 DEF SoundInv, ShapeInv
  <2>5. ASSUME NEW p \in Output
        PROVE  /\ site.statics[p] # None => disk'[p] = disk[p]
               /\ site.statics[p] = None /\ p \in part.writes \cup part.deletes
                    => disk'[p] = site'.built[p]
               /\ site.statics[p] = None /\ p \notin part.writes \cup part.deletes
                    => disk'[p] = disk[p] /\ site'.built[p] = site.built[p]
    BY <2>1, <2>2, ApplyAt
  <2>6. StaticsOnDisk'
    BY <1>2, <2>5 DEF SoundInv, CacheInv, StaticsOnDisk
  <2>7. DiskAgrees'
    <3> SUFFICES ASSUME NEW p \in Output, p \notin disowned'
                 PROVE  disk'[p] = IF site'.statics[p] # None THEN site'.statics[p]
                                   ELSE site'.built[p]
      BY DEF DiskAgrees
    <3>1. CASE site.statics[p] # None
      BY <1>2, <2>6, <3>1 DEF StaticsOnDisk
    <3>2. CASE site.statics[p] = None /\ p \in part.writes \cup part.deletes
      BY <1>2, <2>5, <3>2
    <3>3. CASE site.statics[p] = None /\ p \notin part.writes \cup part.deletes
      <4>1. p \notin disowned
        BY <2>2, <3>3
      <4> QED BY <1>2, <2>5, <3>3, <4>1 DEF SoundInv, CacheInv, DiskAgrees
    <3> QED BY <3>1, <3>2, <3>3
  <2>8. TypeOK'
    <3>1. disowned' \subseteq Output
      BY <2>2 DEF SoundInv, TypeOK
    <3> QED BY <1>1, <1>2, <3>1 DEF SoundInv, TypeOK
  <2> QED BY <1>3, <2>4, <2>6, <2>7, <2>8 DEF SoundInv, CacheInv
<1> QED BY <1>2, <1>4, <1>5

LEMMA SoundStep == SoundInv /\ [Next]_vars => SoundInv'
<1> SUFFICES ASSUME SoundInv, [Next]_vars PROVE SoundInv'
  OBVIOUS
<1>1. CASE UNCHANGED vars
  BY <1>1 DEF vars, SoundInv, TypeOK, ShapeInv, RenderInv, ParserInv, CacheInv,
              StaticsOnDisk, DiskAgrees
<1>2. CASE Next
  BY <1>2, EditSound, ReceiveSound, WatchSound, BatchSound, SyncSound, ReadSound,
     BuildSound DEF Next
<1> QED BY <1>1, <1>2

LEMMA AlwaysSound == Spec => []SoundInv
BY SoundInit, SoundStep, PTL DEF Spec

\* Whatever fails part-way through an apply, and whatever is edited meanwhile, the
\* output caches of a site describe what is on disk (WritePlan::apply).
THEOREM CachesAlwaysSound == Spec => []CachesAreSound
<1>1. SoundInv => CachesAreSound
  BY DEF SoundInv, CachesAreSound, CachesDescribeTheDisk, CacheInv, StaticsOnDisk, DiskAgrees
<1> QED BY <1>1, AlwaysSound, PTL

-----------------------------------------------------------------------------
(* What a build from nothing makes of the sources *)

\* Static outputs are made of static files and scripts only.
LEMMA StaticsLocal ==
  ASSUME NEW f, NEW g, \A s \in Static \cup Script : f[s] = g[s]
  PROVE  FreshStatics(f) = FreshStatics(g)
<1> DEFINE wanted(x) ==
             [p \in Output |->
                IF \E s \in Static : Dest[s] = p /\ x[s] # None
                  THEN Copied(x[CHOOSE s \in Static : Dest[s] = p])
                ELSE IF \E m \in Script : Dest[m] = p
                  THEN ScriptOutput(CHOOSE m \in Script : Dest[m] = p, x,
                                    [m \in Script |-> None], None)
                ELSE None]
<1>1. ASSUME NEW x PROVE FreshStatics(x) = wanted(x)
  BY DEF FreshStatics, StaticWanted
<1>2. ASSUME NEW p \in Output PROVE wanted(f)[p] = wanted(g)[p]
  <2>1. CASE \E s \in Static : Dest[s] = p /\ f[s] # None
    <3> DEFINE c == CHOOSE s \in Static : Dest[s] = p
    <3>1. c \in Static
      BY <2>1
    <3>2. f[c] = g[c]
      BY <3>1
    <3> HIDE DEF c
    <3>3. wanted(f)[p] = Copied(f[c]) /\ wanted(g)[p] = Copied(g[c])
      BY <2>1 DEF c
    <3> QED BY <3>2, <3>3
  <2>2. CASE /\ ~\E s \in Static : Dest[s] = p /\ f[s] # None
             /\ \E m \in Script : Dest[m] = p
    <3> DEFINE c == CHOOSE m \in Script : Dest[m] = p
    <3>1. c \in Script
      BY <2>2
    <3>2. f[c] = g[c]
      BY <3>1
    <3> HIDE DEF c
    <3>3. /\ wanted(f)[p] = ScriptOutput(c, f, [m \in Script |-> None], None)
          /\ wanted(g)[p] = ScriptOutput(c, g, [m \in Script |-> None], None)
      BY <2>2 DEF c
    <3> QED BY <3>1, <3>2, <3>3 DEF ScriptOutput
  <2>3. CASE /\ ~\E s \in Static : Dest[s] = p /\ f[s] # None
             /\ ~\E m \in Script : Dest[m] = p
    BY <2>3
  <2> QED BY <2>1, <2>2, <2>3
<1>3. wanted(f) = wanted(g)
  BY <1>2
<1> QED BY <1>1, <1>3

\* A page is made of objects, files of pages_dir, partials and definitions only.
LEMMA PagesLocal ==
  ASSUME NEW f, NEW g,
         \A s \in Object \cup Page \cup {Partial, Template, Definitions} : f[s] = g[s]
  PROVE  FreshPages(f) = FreshPages(g)
<1> DEFINE parsed(x) == [o \in Object |-> ParsedObject(o, x, [r \in Object |-> None])]
           pages(x) == PlannedPages(x, x[Definitions], parsed(x))
           out(x) == [s \in pages(x) |-> Rendered(x[FileOf(s)], x[Partial],
                                                  OverlayOf(s, parsed(x)),
                                                  ContextOf(parsed(x)))]
<1>1. ASSUME NEW x PROVE FreshPages(x) = Defaults(ByDest(out(x)))
  BY DEF FreshPages
<1>2. parsed(f) = parsed(g)
  BY DEF ParsedObject
<1> HIDE DEF parsed
<1>3. pages(f) = pages(g)
  BY <1>2 DEF PlannedPages, PagesOf, TemplatePagesOf
<1>4. ASSUME NEW s \in pages(f) PROVE f[FileOf(s)] = g[FileOf(s)]
  BY DEF PlannedPages, PagesOf, TemplatePagesOf, FileOf
<1> HIDE DEF pages
<1>5. f[Partial] = g[Partial]
  OBVIOUS
<1>6. out(f) = out(g)
  BY <1>2, <1>3, <1>4, <1>5
<1> QED BY <1>1, <1>6

\* Scripts that all compile are wanted as a build from nothing wants them: what
\* is kept of one is only reused for the text it was compiled from.
LEMMA WantedIsFresh ==
  ASSUME ShapeInv, CompiledInv, FailedScripts(src) = {}
  PROVE  StaticWanted(src, site.compiled, site.statics) = FreshStatics(src)
<1> DEFINE none == [m \in Script |-> None]
<1>1. ASSUME NEW m \in Script, NEW k
      PROVE  ScriptOutput(m, src, site.compiled, k) = ScriptOutput(m, src, none, None)
  <2>1. src[m] # "bad"
    BY DEF FailedScripts
  <2>2. none[m] = None
    OBVIOUS
  <2>3. site.compiled[m] # None => site.compiled[m].to = Compiled(site.compiled[m].from)
    BY DEF CompiledInv
  <2> QED BY <2>1, <2>2, <2>3 DEF ScriptOutput
<1>2. ASSUME NEW p \in Output
      PROVE  StaticWanted(src, site.compiled, site.statics)[p]
               = StaticWanted(src, none, [q \in Output |-> None])[p]
  <2>1. CASE \E s \in Static : Dest[s] = p /\ src[s] # None
    BY <2>1 DEF StaticWanted
  <2>2. CASE /\ ~\E s \in Static : Dest[s] = p /\ src[s] # None
             /\ \E m \in Script : Dest[m] = p
    <3> DEFINE c == CHOOSE m \in Script : Dest[m] = p
    <3>1. c \in Script
      BY <2>2
    <3> HIDE DEF c, none
    <3>2. /\ StaticWanted(src, site.compiled, site.statics)[p]
               = ScriptOutput(c, src, site.compiled, site.statics[p])
          /\ StaticWanted(src, none, [q \in Output |-> None])[p]
               = ScriptOutput(c, src, none, None)
      BY <2>2 DEF StaticWanted, c
    <3> QED BY <1>1, <3>1, <3>2
  <2>3. CASE /\ ~\E s \in Static : Dest[s] = p /\ src[s] # None
             /\ ~\E m \in Script : Dest[m] = p
    BY <2>3 DEF StaticWanted
  <2> QED BY <2>1, <2>2, <2>3
<1> HIDE DEF none
<1>3. StaticWanted(src, site.compiled, site.statics)
        = StaticWanted(src, none, [q \in Output |-> None])
  BY <1>2, WantedShapes DEF IsOver
<1> QED BY <1>3 DEF FreshStatics, none

\* A plan that was applied in full leaves what was wanted of every output that
\* nothing is above.
LEMMA ResolvedAt ==
  ASSUME NEW wanted, IsOver(wanted, Output), NEW cache, IsOver(cache, Output), NEW above,
         NEW p \in Output, above[p] = None
  PROVE  Recorded(Resolve(wanted, cache), cache, above)[p] = wanted[p]
<1>1. DOMAIN wanted = Output /\ DOMAIN cache = Output
  BY DEF IsOver
<1> QED BY <1>1 DEF Resolve, Recorded, Visited

-----------------------------------------------------------------------------
(* What is kept of the sources is what they hold *)

KeptInv == ObjectInv /\ CompiledInv /\ SyncInv

LEMMA KeptInit == Init => KeptInv
BY LoadedFacts DEF Init, KeptInv, ObjectInv, CompiledInv, SyncInv

\* An edit is unheard of until the loop receives it, except that of the manifest.
LEMMA EditUnheard ==
  ASSUME SoundInv, NEW s \in Editable, NEW text, Edit(s, text)
  PROVE  /\ \A r : r # s => src'[r] = src[r]
         /\ Unheard \subseteq Unheard'
         /\ s # Manifest => s \in Unheard'
         /\ s # Manifest => pending' # {} \/ unseen' # {}
         /\ s = Manifest => UNCHANGED <<pending, unseen>>
<1>1. src' = [src EXCEPT ![s] = text] /\ DOMAIN src = Source
  BY DEF Edit, SoundInv, ShapeInv
<1>2. \A r : r # s => src'[r] = src[r]
  BY <1>1
<1>3. CASE s = Manifest
  BY <1>2, <1>3 DEF Edit, Unheard
<1>4. CASE s # Manifest /\ watching
  <2>1. pending' = pending \cup {s} /\ unseen' = unseen \ {s}
    BY <1>4 DEF Edit
  <2> QED BY <1>2, <1>4, <2>1 DEF Unheard
<1>5. CASE s # Manifest /\ ~watching
  <2>1. unseen' = unseen \cup {s} /\ pending' = pending
    BY <1>5 DEF Edit
  <2> QED BY <1>2, <1>5, <2>1 DEF Unheard
<1> QED BY <1>3, <1>4, <1>5

LEMMA EditKept ==
  ASSUME SoundInv, KeptInv, NEW s \in Editable, NEW text, Edit(s, text)
  PROVE  KeptInv'
<1>1. UNCHANGED <<site, flags, pc, read, synced>>
  BY DEF Edit
<1>2. /\ \A r : r # s => src'[r] = src[r]
      /\ Unheard \subseteq Unheard'
      /\ s # Manifest => s \in Unheard'
  BY EditUnheard
<1>3. Manifest \notin Object \cup Static \cup Script
  BY SiteAssumption DEF Object, Flag, Manifest
<1>4. ObjectInv'
  <2>1. ASSUME NEW o \in Object, o \notin Unheard'
        PROVE  src'[o] = src[o] /\ o \notin Unheard
    BY <1>2, <1>3, <2>1
  <2> QED BY <1>1, <2>1 DEF KeptInv, ObjectInv, ParsedObject
<1>5. CompiledInv'
  BY <1>1 DEF KeptInv, CompiledInv
<1>6. SyncInv'
  <2>1. ASSUME ~flags'.statics, Unheard' \cap (Static \cup Script) = {}
        PROVE  site'.statics = FreshStatics(src')
    <3>1. \A r \in Static \cup Script : src'[r] = src[r] /\ r \notin Unheard
      BY <1>2, <1>3, <2>1
    <3>2. FreshStatics(src') = FreshStatics(src)
      BY <3>1, StaticsLocal
    <3>3. site.statics = FreshStatics(src)
      BY <1>1, <2>1, <3>1 DEF KeptInv, SyncInv
    <3> QED BY <1>1, <3>2, <3>3
  <2> QED BY <1>1, <2>1 DEF KeptInv, SyncInv
<1> QED BY <1>4, <1>5, <1>6 DEF KeptInv

LEMMA ReceiveKept ==
  ASSUME SoundInv, KeptInv, NEW s \in Editable, Receive(s)
  PROVE  KeptInv'
<1>1. /\ UNCHANGED <<src, pc, read, synced, unseen>>
      /\ pc = "loop"
      /\ pending' = pending \ {s}
      /\ flags' = FlagsAfter(s)
      /\ site' = Invalidated(s)
  BY DEF Receive
<1>2. \A r : r # s /\ r \in Unheard => r \in Unheard'
  BY <1>1 DEF Unheard
<1>3. site'.statics = site.statics /\ site'.compiled = site.compiled
  BY <1>1 DEF SoundInv, ShapeInv, IsSite, Invalidated
<1>4. ObjectInv'
  <2>1. ASSUME NEW o \in Object, o # s PROVE site'.objs[o] = site.objs[o]
    BY <1>1, <2>1 DEF SoundInv, ShapeInv, IsSite, IsOver, Invalidated
  <2>2. s \in Object => site'.objs[s] = None
    BY <1>1 DEF SoundInv, ShapeInv, IsSite, IsOver, Invalidated
  <2> QED BY <1>1, <1>2, <2>1, <2>2 DEF KeptInv, ObjectInv
<1>5. CompiledInv'
  BY <1>3 DEF KeptInv, CompiledInv
<1>6. SyncInv'
  <2>1. ASSUME ~flags'.statics, Unheard' \cap (Static \cup Script) = {}
        PROVE  ~flags.statics /\ Unheard \cap (Static \cup Script) = {}
    <3>1. ~flags.statics /\ s \notin Static \cup Script
      BY <1>1, <2>1 DEF FlagsAfter
    <3> QED BY <1>2, <2>1, <3>1
  <2> QED BY <1>1, <1>3, <2>1 DEF KeptInv, SyncInv
<1> QED BY <1>4, <1>5, <1>6 DEF KeptInv

LEMMA WatchKept ==
  ASSUME SoundInv, KeptInv, StartWatch
  PROVE  KeptInv'
<1>1. /\ UNCHANGED <<src, site, pending, unseen, read, synced>>
      /\ flags'.statics = flags.statics
      /\ pc' = "loop"
  BY DEF StartWatch, SoundInv, TypeOK
<1>2. Unheard' = Unheard
  BY <1>1 DEF Unheard
<1> QED BY <1>1, <1>2 DEF KeptInv, ObjectInv, CompiledInv, SyncInv

LEMMA BatchKept ==
  ASSUME SoundInv, KeptInv, Batch
  PROVE  KeptInv'
<1>1. UNCHANGED <<src, pending, unseen, read, synced>> /\ pc' \in {"sync", "loop"}
  BY DEF Batch
<1>2. Unheard' = Unheard
  BY <1>1 DEF Unheard
<1>3. CASE site' = site /\ flags' = [flags EXCEPT !.changed = FALSE, !.definitions = FALSE]
  <2>1. flags'.statics = flags.statics
    BY <1>3 DEF SoundInv, TypeOK
  <2> QED BY <1>1, <1>2, <1>3, <2>1 DEF KeptInv, ObjectInv, CompiledInv, SyncInv
<1>4. CASE /\ site' = Loaded(src[Definitions])
           /\ flags' = [[flags EXCEPT !.changed = FALSE, !.definitions = FALSE]
                          EXCEPT !.statics = TRUE]
  <2>1. flags'.statics
    BY <1>4 DEF SoundInv, TypeOK
  <2> QED BY <1>1, <1>4, <2>1, LoadedFacts DEF KeptInv, ObjectInv, CompiledInv, SyncInv
<1> QED BY <1>1, <1>3, <1>4 DEF Batch

LEMMA SyncKept ==
  ASSUME SoundInv, KeptInv, Sync
  PROVE  KeptInv'
<1>1. UNCHANGED <<src, pending, unseen, read>> /\ pc' = "read"
  BY DEF Sync
<1>2. Unheard' = Unheard
  BY <1>1 DEF Unheard
<1>3. /\ site'.objs = site.objs
      /\ \/ /\ UNCHANGED <<disk, site, disowned, flags>>
            /\ synced' \in BOOLEAN /\ (synced' => ~flags.statics)
         \/ \E plan : \E ok \in BOOLEAN : SyncApplies(plan, ok)
  BY SyncFacts DEF SoundInv
<1>4. ObjectInv'
  BY <1>1, <1>2, <1>3 DEF KeptInv, ObjectInv
<1>5. CASE UNCHANGED <<site, flags>> /\ (synced' => ~flags.statics)
  BY <1>1, <1>2, <1>4, <1>5 DEF KeptInv, CompiledInv, SyncInv
<1>6. ASSUME NEW plan, NEW ok \in BOOLEAN, SyncApplies(plan, ok)
      PROVE  KeptInv'
  <2>1. CompiledInv'
    BY <1>6 DEF SyncApplies, CompiledCache, KeptInv, CompiledInv
  <2>2. synced' = ok /\ flags'.statics = ~ok
    BY <1>6 DEF SyncApplies, SoundInv, TypeOK
  <2>3. ok => site'.statics = FreshStatics(src)
    <3> DEFINE wanted == StaticWanted(src, site.compiled, site.statics)
    <3> SUFFICES ASSUME ok PROVE site'.statics = FreshStatics(src)
      OBVIOUS
    <3>1. /\ wanted = FreshStatics(src)
          /\ IsOver(wanted, Output)
          /\ IsOver(site.statics, Output)
      BY <1>6, WantedIsFresh, WantedShapes DEF SyncApplies, SoundInv, ShapeInv, KeptInv
    <3>2. site'.statics = Recorded(Resolve(wanted, site.statics), site.statics, NoOutputs)
      BY <1>6 DEF SyncApplies
    <3> HIDE DEF wanted
    <3>3. IsOver(site'.statics, Output)
      BY <3>1, <3>2 DEF Recorded, IsOver
    <3>4. ASSUME NEW p \in Output PROVE site'.statics[p] = wanted[p]
      <4>1. NoOutputs[p] = None
        BY DEF NoOutputs
      <4> QED BY <3>1, <3>2, <4>1, ResolvedAt
    <3>5. site'.statics = wanted
      BY <3>1, <3>3, <3>4 DEF IsOver
    <3> QED BY <3>1, <3>5
  <2>4. SyncInv'
    BY <1>1, <2>2, <2>3 DEF SyncInv
  <2> QED BY <1>4, <2>1, <2>4 DEF KeptInv
<1> QED BY <1>3, <1>5, <1>6

LEMMA ReadKept ==
  ASSUME SoundInv, KeptInv, ReadObjects
  PROVE  KeptInv'
<1> DEFINE parsed == [o \in Object |-> ParsedObject(o, src, site.objs)]
           kept == [o \in Object |-> IF parsed[o] # None THEN parsed[o] ELSE site.objs[o]]
<1>1. /\ UNCHANGED <<src, pending, unseen, flags, synced>>
      /\ pc = "read"
      /\ site' = [site EXCEPT !.objs = kept]
      /\ pc' = "build" => read' = parsed
  BY DEF ReadObjects, After
<1>2. Unheard' = Unheard
  BY <1>1 DEF Unheard
<1>3. ASSUME NEW o \in Object, o \notin Unheard
      PROVE  /\ parsed[o] = ParsedObject(o, src, NoObjects)
             /\ kept[o] # None => kept[o] = src[o] /\ src[o] # "bad"
  <2>1. site.objs[o] # None => site.objs[o] = src[o] /\ src[o] # "bad"
    BY <1>3 DEF KeptInv, ObjectInv
  <2>2. NoObjects[o] = None
    BY DEF NoObjects
  <2> QED BY <2>1, <2>2 DEF ParsedObject
<1> HIDE DEF kept
<1>4. site'.objs = kept /\ site'.statics = site.statics /\ site'.compiled = site.compiled
  BY <1>1 DEF SoundInv, ShapeInv, IsSite
<1>5. ObjectInv'
  <2> HIDE DEF parsed
  <2> QED BY <1>1, <1>2, <1>3, <1>4 DEF ObjectInv
<1>6. CompiledInv'
  BY <1>4 DEF KeptInv, CompiledInv
<1>7. SyncInv'
  BY <1>1, <1>2, <1>4 DEF KeptInv, SyncInv
<1> QED BY <1>5, <1>6, <1>7 DEF KeptInv

LEMMA BuildKept ==
  ASSUME SoundInv, KeptInv, Build
  PROVE  KeptInv'
<1>1. UNCHANGED <<src, pending, unseen, flags, synced>> /\ pc' \in {"loop", "watch"}
  BY DEF Build, After
<1>2. Unheard' = Unheard
  BY <1>1 DEF Unheard
<1>3. site'.objs = site.objs /\ site'.statics = site.statics /\ site'.compiled = site.compiled
  BY BuildFacts, BodiesAreBodies DEF SoundInv
<1> QED BY <1>1, <1>2, <1>3 DEF KeptInv, ObjectInv, CompiledInv, SyncInv

-----------------------------------------------------------------------------
(* What is served is what the sources say *)

ServedInv == SoundInv /\ KeptInv /\ ServesTheSources

\* A build that ends well with every edit heard of serves the sources.
LEMMA BuildServes ==
  ASSUME SoundInv, KeptInv, Build, Settled', report' = "ok", unseen' = {},
         site'.defs = src'[Definitions]
  PROVE  \A p \in Output \ disowned' : disk'[p] = Fresh(src')[p]
<1>1. UNCHANGED <<src, pending, unseen, flags, synced>> /\ pc = "build"
  BY DEF Build
<1>2. Unheard = {}
  BY <1>1 DEF Settled, Unheard
<1>3. /\ site'.defs = site.defs /\ site'.statics = site.statics
      /\ \/ report' = "failed"
         \/ \E part : BuildApplies(part)
  BY BuildFacts, BodiesAreBodies DEF SoundInv
<1>4. PICK part : BuildApplies(part)
  BY <1>3
<1> DEFINE wanted == Defaults(ByDest(PagesRead(PlannedPages(src, site.defs, read))))
<1>5. /\ synced
      /\ part = Resolve(wanted, site.built)
      /\ site'.built = Recorded(part, site.built, site.statics)
  BY <1>4 DEF BuildApplies
<1>6. site.statics = FreshStatics(src)
  BY <1>1, <1>2, <1>5 DEF KeptInv, SyncInv
<1>7. read = [o \in Object |-> ParsedObject(o, src, NoObjects)]
  <2>1. \A o \in Object : read[o] = ParsedObject(o, src, NoObjects)
    BY <1>1, <1>2 DEF KeptInv, ObjectInv
  <2> QED BY <2>1 DEF SoundInv, ShapeInv, IsOver
<1>8. wanted = FreshPages(src)
  <2>1. site.defs = src[Definitions]
    BY <1>1, <1>3
  <2> QED BY <1>7, <2>1 DEF FreshPages, PagesRead, NoObjects
<1>9. SoundInv'
  BY BuildSound
<1>10. ASSUME NEW p \in Output, p \notin disowned'
       PROVE  disk'[p] = IF FreshStatics(src)[p] # None THEN FreshStatics(src)[p]
                         ELSE FreshPages(src)[p]
  <2>1. disk'[p] = IF site'.statics[p] # None THEN site'.statics[p] ELSE site'.built[p]
    BY <1>9, <1>10 DEF SoundInv, CacheInv, DiskAgrees
  <2>2. CASE site.statics[p] # None
    BY <1>3, <1>6, <2>1, <2>2
  <2>3. CASE site.statics[p] = None
    <3>1. IsOver(wanted, Output) /\ IsOver(site.built, Output)
      BY WantedShapes DEF SoundInv, ShapeInv
    <3> HIDE DEF wanted
    <3>2. site'.built[p] = wanted[p]
      BY <1>5, <2>3, <3>1, ResolvedAt
    <3> QED BY <1>3, <1>6, <1>8, <2>1, <2>3, <3>2
  <2> QED BY <2>2, <2>3
<1> QED BY <1>1, <1>10 DEF Fresh

LEMMA ServedStep == ServedInv /\ [Next]_vars => ServedInv'
<1> SUFFICES ASSUME ServedInv, [Next]_vars PROVE ServedInv'
  OBVIOUS
<1>1. SoundInv'
  BY SoundStep DEF ServedInv
<1>2. KeptInv'
  <2>1. CASE UNCHANGED vars
    <3>1. Unheard' = Unheard
      BY <2>1 DEF vars, Unheard
    <3> QED BY <2>1, <3>1 DEF vars, ServedInv, KeptInv, ObjectInv, CompiledInv, SyncInv
  <2>2. CASE Next
    BY <2>2, EditKept, ReceiveKept, WatchKept, BatchKept, SyncKept, ReadKept, BuildKept
       DEF Next, ServedInv
  <2> QED BY <2>1, <2>2
<1>3. ServesTheSources'
  <2> SUFFICES ASSUME Settled', report' = "ok", unseen' = {}, site'.defs = src'[Definitions]
               PROVE  \A p \in Output \ disowned' : disk'[p] = Fresh(src')[p]
    BY DEF ServesTheSources
  <2>1. CASE UNCHANGED vars
    BY <2>1 DEF vars, ServedInv, ServesTheSources, Settled
  <2>2. ASSUME NEW s \in Editable, NEW text, Edit(s, text)
        PROVE  \A p \in Output \ disowned' : disk'[p] = Fresh(src')[p]
    <3>1. UNCHANGED <<disk, site, flags, pc, report, disowned>>
      BY <2>2 DEF Edit
    <3>2. s = Manifest /\ UNCHANGED <<pending, unseen>>
          /\ \A r : r # s => src'[r] = src[r]
      BY <2>2, EditUnheard DEF ServedInv, Settled
    <3>3. Manifest \notin Object \cup Static \cup Script \cup Page
                            \cup {Partial, Template, Definitions}
      BY SiteAssumption DEF Object, Flag, Manifest, Partial, Template, Definitions
    <3>4. FreshStatics(src') = FreshStatics(src)
      BY <3>2, <3>3, StaticsLocal
    <3>5. FreshPages(src') = FreshPages(src)
      BY <3>2, <3>3, PagesLocal
    <3>6. src'[Definitions] = src[Definitions]
      BY <3>2, <3>3
    <3>7. \A p \in Output \ disowned : disk[p] = Fresh(src)[p]
      BY <3>1, <3>2, <3>6 DEF ServedInv, ServesTheSources, Settled
    <3> QED BY <3>1, <3>4, <3>5, <3>7 DEF Fresh
  <2>3. CASE \E s \in Editable : Receive(s)
    BY <2>3 DEF Receive, FlagsAfter, Settled
  <2>4. CASE StartWatch
    BY <2>4 DEF StartWatch, Settled, ServedInv, SoundInv, TypeOK
  <2>5. CASE Batch
    BY <2>5 DEF Batch, Settled
  <2>6. CASE Sync
    BY <2>6 DEF Sync, Settled
  <2>7. CASE ReadObjects
    BY <2>7 DEF ReadObjects, Settled
  <2>8. CASE Build
    BY <2>8, BuildServes DEF ServedInv
  <2> QED BY <2>1, <2>2, <2>3, <2>4, <2>5, <2>6, <2>7, <2>8 DEF Next
<1> QED BY <1>1, <1>2, <1>3 DEF ServedInv

\* Once every edit has been handed on and the last batch went well, what is served
\* is what a build from nothing would make of the sources, under the definitions
\* the site has: whatever was reused, by whatever reads.
THEOREM AlwaysServesTheSources == Spec => []ServesTheSources
<1>1. Init => ServedInv
  <2>1. Init => ServesTheSources
    BY DEF Init, ServesTheSources, Settled
  <2> QED BY <2>1, SoundInit, KeptInit DEF ServedInv
<1>2. ServedInv => ServesTheSources
  BY DEF ServedInv
<1> QED BY <1>1, <1>2, ServedStep, PTL DEF Spec

LEMMA DefinitionsStep ==
  ASSUME Manifest \notin Editable, SoundInv, DefinitionsInv, [Next]_vars
  PROVE  DefinitionsInv'
<1>1. CASE UNCHANGED vars
  BY <1>1 DEF vars, DefinitionsInv, Unheard
<1>2. ASSUME NEW s \in Editable, NEW text, Edit(s, text)
      PROVE  DefinitionsInv'
  <2>1. UNCHANGED <<site, flags>>
    BY <1>2 DEF Edit
  <2>2. /\ s # Manifest
        /\ \A r : r # s => src'[r] = src[r]
        /\ Unheard \subseteq Unheard'
        /\ s \in Unheard'
    BY <1>2, EditUnheard
  <2> QED BY <2>1, <2>2 DEF DefinitionsInv
<1>3. ASSUME NEW s \in Editable, Receive(s)
      PROVE  DefinitionsInv'
  <2>1. /\ src' = src
        /\ flags'.definitions <=> flags.definitions \/ s = Definitions
        /\ \A r : r # s /\ r \in Unheard => r \in Unheard'
        /\ site'.defs = site.defs
    BY <1>3 DEF Receive, FlagsAfter, Unheard, Invalidated, SoundInv, ShapeInv, IsSite
  <2> QED BY <2>1 DEF DefinitionsInv
<1>4. CASE StartWatch
  BY <1>4 DEF StartWatch, DefinitionsInv, Unheard, SoundInv, TypeOK
<1>5. CASE Batch
  <2>1. src' = src /\ Unheard' = Unheard
    BY <1>5 DEF Batch, Unheard
  <2>2. CASE site' = site /\ ~flags.definitions
    BY <2>1, <2>2 DEF DefinitionsInv
  <2>3. CASE site' = site /\ src[Definitions] \notin {"templated", "plain"}
    BY <2>1, <2>3 DEF DefinitionsInv
  <2>4. CASE site' = Loaded(src[Definitions])
    BY <2>1, <2>4, LoadedFacts DEF DefinitionsInv
  <2> QED BY <1>5, <2>2, <2>3, <2>4 DEF Batch, DefinitionsInv
<1>6. CASE Sync
  <2>1. src' = src /\ Unheard' = Unheard
    BY <1>6 DEF Sync, Unheard
  <2>2. site'.defs = site.defs
    BY <1>6, SyncFacts DEF SoundInv
  <2>3. flags'.definitions = flags.definitions
    BY <1>6 DEF Sync, SyncWith, SoundInv, TypeOK
  <2> QED BY <2>1, <2>2, <2>3 DEF DefinitionsInv
<1>7. CASE ReadObjects
  BY <1>7 DEF ReadObjects, DefinitionsInv, Unheard, SoundInv, ShapeInv, IsSite
<1>8. CASE Build
  <2>1. src' = src /\ flags' = flags /\ Unheard' = Unheard
    BY <1>8 DEF Build, Unheard
  <2>2. site'.defs = site.defs
    BY <1>8, BuildFacts, BodiesAreBodies DEF SoundInv
  <2> QED BY <2>1, <2>2 DEF DefinitionsInv
<1> QED BY <1>1, <1>2, <1>3, <1>4, <1>5, <1>6, <1>7, <1>8 DEF Next

\* With a manifest nobody edits while the server runs, the definitions are current
\* as well: then what is served is what the sources say.
THEOREM BuildsAlwaysCurrent ==
  ASSUME Manifest \notin Editable
  PROVE  Spec => []BuildsAreCurrent
<1>1. Init => DefinitionsInv
  BY DevAssumption, LoadedFacts DEF Init, DefinitionsInv
<1>2. SoundInv /\ DefinitionsInv /\ [Next]_vars => DefinitionsInv'
  BY DefinitionsStep
<1>3. SoundInv /\ DefinitionsInv => DefinitionsAreCurrent
  BY DEF SoundInv, TypeOK, DefinitionsInv, DefinitionsAreCurrent, Settled, Unheard
<1>4. Spec => []DefinitionsAreCurrent
  BY <1>1, <1>2, <1>3, AlwaysSound, PTL DEF Spec
<1>5. ServesTheSources /\ DefinitionsAreCurrent => BuildsAreCurrent
  BY DEF BuildsAreCurrent
<1> QED BY <1>4, <1>5, AlwaysServesTheSources, PTL

-----------------------------------------------------------------------------
(* A build touches what changed *)

FreshRead == [o \in Object |-> ParsedObject(o, src, NoObjects)]

\* An object that was taken in is read, now and later, as the file holds it.
EditedInv ==
  /\ \A o \in Object \ edited : ParsedObject(o, src, site.objs) = FreshRead[o]
  /\ pc = "build" => \A o \in Object \ edited : read[o] = FreshRead[o]

\* Objects are read as some text they may hold.
TextsInv ==
  \A o \in Object : site.objs[o] \in Texts[o] \cup {None} /\ read[o] \in Texts[o] \cup {None}

\* A page that is on disk, and reads nothing that was edited since it was built, is
\* one whose render would be reused.
ReadyInv ==
  \A s \in Post \cup Page \cup {Template} :
    (site.built[Dest[s]] # None /\ src[FileOf(s)] # "optional" /\ Inputs(s) \cap edited = {})
    => ReadyOver(site, s, FreshRead)

PageSource == Post \cup Page \cup {Template}

\* Pages have an output each, so what lands on a page's output is the page's.
LEMMA ByDestOf ==
  ASSUME NEW f, DOMAIN f \subseteq PageSource, NEW s \in PageSource
  PROVE  /\ Dest[s] \in Output
         /\ s \in DOMAIN f => ByDest(f)[Dest[s]] = f[s]
         /\ s \notin DOMAIN f => ByDest(f)[Dest[s]] = None
<1>1. Dest[s] \in Output
  BY SiteAssumption DEF Output, PageSource
<1>2. \A r \in DOMAIN f : Dest[r] = Dest[s] => r = s
  BY SiteAssumption DEF PageSource
<1>3. CASE s \in DOMAIN f
  <2> DEFINE c == CHOOSE r \in DOMAIN f : Dest[r] = Dest[s]
  <2>1. c \in DOMAIN f /\ Dest[c] = Dest[s]
    BY <1>3
  <2>2. ByDest(f)[Dest[s]] = f[c]
    BY <1>1, <1>3 DEF ByDest
  <2> HIDE DEF c
  <2> QED BY <1>1, <1>2, <1>3, <2>1, <2>2
<1>4. CASE s \notin DOMAIN f
  BY <1>1, <1>2, <1>4 DEF ByDest
<1> QED BY <1>3, <1>4

\* A render is reused over any objects that agree on what the page reads.
LEMMA ReusedAlike ==
  ASSUME NEW s \in PageSource, NEW x, RecordSound(x.renders[Dest[s]]),
         NEW one, NEW other, NEW X, \A o \in Object \ X : one[o] = other[o],
         Inputs(s) \cap X = {}, ReadyOver(x, s, one)
  PROVE  ReadyOver(x, s, other)
<1> DEFINE r == x.renders[Dest[s]]
           body == src[FileOf(s)]
<1>1. /\ r # None
      /\ r.partial = src[Partial] /\ r.body = body /\ r.overlay = OverlayOf(s, one)
      /\ x.built[Dest[s]] = r.output
      /\ \A d \in DOMAIN r.deps : SignatureOf(d, ContextOf(one)) = r.deps[d]
  BY DEF ReadyOver, Reusable
<1>2. OverlayOf(s, one) = OverlayOf(s, other)
  BY DEF OverlayOf, Inputs, Object
<1>3. PICK ctx : r.deps = [d \in ReadsOf(r.body, ctx) |-> SignatureOf(d, ctx)]
  BY <1>1 DEF RecordSound
<1>4. ASSUME NEW d \in ReadsOf(body, ctx)
      PROVE  SignatureOf(d, ContextOf(one)) = SignatureOf(d, ContextOf(other))
  <2>1. CASE body = "index"
    <3>1. d = "post"
      BY <2>1 DEF ReadsOf
    <3>2. \A o \in Post : one[o] = other[o]
      BY <2>1 DEF Inputs, Object
    <3> QED BY <3>1, <3>2 DEF SignatureOf, ContextOf
  <2>2. CASE body \in {"switch", "dump"}
    <3>1. \A o \in Object : one[o] = other[o]
      BY <2>2 DEF Inputs
    <3>2. ContextOf(one) = ContextOf(other)
      BY <3>1 DEF ContextOf, Object
    <3> QED BY <3>2
  <2>3. CASE body \notin {"index", "switch", "dump"}
    <3>1. d = "absent"
      BY <2>3 DEF ReadsOf
    <3> QED BY <3>1 DEF SignatureOf
  <2> QED BY <2>1, <2>2, <2>3
<1>5. \A d \in DOMAIN r.deps : SignatureOf(d, ContextOf(other)) = r.deps[d]
  <2> HIDE DEF r, body
  <2> QED BY <1>1, <1>3, <1>4
<1> QED BY <1>1, <1>2, <1>5 DEF ReadyOver, Reusable

\* What a site has of a page once it rendered some pages of a plan.
LEMMA FilledAt ==
  ASSUME SoundInv, NEW plan, NEW planned, NEW reused,
         PlanFacts(plan, planned, reused), planned \subseteq PageSource,
         NEW done \in SUBSET plan.renders,
         NEW y, y = Filled(site, plan, done), NEW s \in PageSource
  PROVE  /\ s \notin done => y.renders[Dest[s]] = site.renders[Dest[s]]
         /\ s \in done /\ plan.records[s] # None => y.renders[Dest[s]] = plan.records[s]
<1> DEFINE f == [r \in done |-> plan.records[r]]
           new == ByDest(f)
           renders == [p \in Output |-> IF new[p] # None THEN new[p] ELSE site.renders[p]]
<1>1. done \subseteq PageSource
  BY DEF PlanFacts
<1>2. /\ Dest[s] \in Output
      /\ s \in done => new[Dest[s]] = f[s]
      /\ s \notin done => new[Dest[s]] = None
  BY <1>1, ByDestOf
<1>3. y.renders = renders
  BY DEF Filled, SoundInv, ShapeInv, IsSite
<1> QED BY <1>2, <1>3

\* Where a page needs no render, a build leaves its record alone and no more than
\* drops it from the cache; a page that a build puts on disk is ready, and one that
\* is on disk after a full build.
LEMMA BuildReuse ==
  ASSUME SoundInv, TextsInv, Build, NEW s \in PageSource
  PROVE  /\ (s \in PlannedPages(src, site.defs, read) => ReadyOver(site, s, read))
            => /\ Dest[s] \notin rendered'
               /\ site'.renders[Dest[s]] = site.renders[Dest[s]]
               /\ site'.built[Dest[s]] \in {None, site.built[Dest[s]]}
         /\ (/\ site'.built[Dest[s]] # None /\ src[FileOf(s)] # "optional"
             /\ site.built[Dest[s]] = None \/ edited' # edited)
            => ReadyOver(site', s, read)
<1> DEFINE plan == PagePlan(src, site, read)
           planned == PlannedPages(src, site.defs, read)
           wanted == Defaults(ByDest(plan.out))
           outputs == Resolve(wanted, site.built)
           p == Dest[s]
           kept == s \in planned => ReadyOver(site, s, read)
<1>1. PICK reused : PlanFacts(plan, planned, reused)
  BY PagePlanFacts, BodiesAreBodies DEF SoundInv
<1>2. planned \subseteq PageSource
  BY DEF PlannedPages, TemplatePagesOf, PagesOf, PageSource
<1>3. /\ p \in Output /\ p \notin {Sitemap, Robots}
      /\ \A r \in PageSource : Dest[r] = p => r = s
  BY SiteAssumption DEF Output, PageSource
<1> HIDE DEF plan, planned
<1>4. /\ reused = {r \in planned : ReadyOver(site, r, read)}
      /\ plan.renders \subseteq planned \ reused
      /\ plan.ok => reused \cup plan.renders = planned
      /\ DOMAIN plan.out = reused \cup plan.renders
      /\ \A r \in plan.renders :
           /\ src[FileOf(r)] \in Body
           /\ plan.records[r] = RecordOf(src[FileOf(r)], src[Partial], OverlayOf(r, read),
                                         ContextOf(read), plan.out[r])
      /\ \A r \in reused \cup plan.renders :
           plan.out[r] = Rendered(src[FileOf(r)], src[Partial], OverlayOf(r, read),
                                  ContextOf(read))
  BY <1>1 DEF PlanFacts
<1>5. /\ s \in reused \cup plan.renders => wanted[p] = plan.out[s]
      /\ s \notin reused \cup plan.renders => wanted[p] = None
  <2>1. DOMAIN plan.out \subseteq PageSource
    BY <1>2, <1>4
  <2>2. wanted[p] = ByDest(plan.out)[p]
    BY <1>3 DEF Defaults
  <2> QED BY <1>4, <2>1, <2>2, ByDestOf
<1>6. IsOver(wanted, Output) /\ IsOver(site.built, Output) /\ IsSite(site)
  BY WantedShapes DEF SoundInv, ShapeInv
\* A page that is reused renders to what its cache entry says.
<1>7. s \in reused => wanted[p] = site.built[p]
  <2> SUFFICES ASSUME s \in reused PROVE wanted[p] = site.built[p]
    OBVIOUS
  <2>1. Reusable(site.renders[p], src[FileOf(s)], src[Partial], OverlayOf(s, read),
                 ContextOf(read), site.built[p])
    BY <1>4 DEF ReadyOver
  <2>2. RecordSound(site.renders[p])
    BY <1>3 DEF SoundInv, RenderInv
  <2>3. site.renders[p].output = Rendered(src[FileOf(s)], src[Partial],
                                          OverlayOf(s, read), ContextOf(read))
    BY <2>1, <2>2, ReusedIsRendered
  <2>4. site.built[p] = site.renders[p].output
    BY <2>1 DEF Reusable
  <2> QED BY <1>4, <1>5, <2>3, <2>4
<1>8. kept => s \notin plan.renders
  BY <1>4 DEF planned
<1> HIDE DEF wanted
\* What a build has rendered, whatever of it.
<1>9. ASSUME kept, NEW done \in SUBSET plan.renders, rendered' = {Dest[r] : r \in done}
      PROVE  p \notin rendered'
  BY <1>2, <1>3, <1>4, <1>8, <1>9
<1>10. CASE /\ \E done \in SUBSET plan.renders :
                 site' = Filled(site, plan, done) /\ rendered' = {Dest[r] : r \in done}
            /\ UNCHANGED edited
  <2>1. PICK done \in SUBSET plan.renders :
              site' = Filled(site, plan, done) /\ rendered' = {Dest[r] : r \in done}
    BY <1>10
  <2>2. kept => p \notin rendered'
    BY <1>9, <2>1
  <2>3. kept => site'.renders[p] = site.renders[p]
    BY <1>1, <1>2, <1>8, <2>1, FilledAt
  <2>4. site'.built = site.built
    BY <1>1, <2>1, FilledFacts DEF SoundInv
  <2> QED BY <1>10, <2>2, <2>3, <2>4 DEF planned
<1>11. ASSUME NEW part, ApplyPages(part, plan)
       PROVE  LET y == Filled(site, plan, plan.renders)
              IN /\ site'.renders = y.renders
                 /\ site'.built = Recorded(part, site.built, site.statics)
  <2> DEFINE y == Filled(site, plan, plan.renders)
  <2>1. IsSite(y)
    BY <1>1, FilledFacts DEF SoundInv
  <2>2. site' = [y EXCEPT !.built = Recorded(part, site.built, site.statics)]
    BY <1>11 DEF ApplyPages
  <2> HIDE DEF y
  <2>3. site'.renders = y.renders /\ site'.built = Recorded(part, site.built, site.statics)
    BY <2>1, <2>2 DEF IsSite
  <2> QED BY <2>3 DEF y
<1>12. ASSUME NEW part, ApplyPages(part, plan), site'.built[p] = wanted[p],
              wanted[p] # None, src[FileOf(s)] # "optional"
       PROVE  ReadyOver(site', s, read)
  <2>1. s \in reused \cup plan.renders /\ wanted[p] = plan.out[s]
    BY <1>5, <1>12
  <2>2. CASE s \in reused
    <3>1. ReadyOver(site, s, read)
      BY <1>4, <2>2
    <3>2. site'.renders[p] = site.renders[p]
      BY <1>1, <1>2, <1>4, <1>11, <1>12, <2>2, FilledAt
    <3>3. site'.built[p] = site.built[p]
      BY <1>7, <1>12, <2>2
    <3> QED BY <3>1, <3>2, <3>3 DEF ReadyOver
  <2>3. CASE s \in plan.renders
    <3> DEFINE body == src[FileOf(s)]
               overlay == OverlayOf(s, read)
               ctx == ContextOf(read)
               record == RecordOf(body, src[Partial], overlay, ctx, plan.out[s])
    <3>1. /\ plan.records[s] = record
          /\ body \in Body \ {"optional"}
          /\ plan.out[s] = Rendered(body, src[Partial], overlay, ctx)
      BY <1>4, <1>12, <2>3
    <3>2. src[Partial] \in Texts[Partial] \cup {None}
      BY DEF SoundInv, TypeOK, Source
    <3>3. \A o \in Post : read[o] \in PostTexts
      <4>1. \A o \in Post : Texts[o] \cup {None} \subseteq PostTexts
        BY Zenon DEF PostTexts
      <4>2. \A o \in Post : read[o] \in Texts[o] \cup {None}
        BY DEF TextsInv, Object
      <4> QED BY <4>1, <4>2
    <3>4. overlay \in PostTexts
      BY <3>3 DEF OverlayOf, PostTexts
    <3>5. ctx \in Contexts
      <4>1. (IF read[Flag] = None THEN "empty" ELSE read[Flag]) \in Texts[Flag] \cup {"empty"}
        BY DEF TextsInv, Object
      <4>2. [o \in Post |-> read[o]] \in [Post -> PostTexts]
        BY <3>3
      <4> QED BY <4>1, <4>2 DEF ContextOf, Contexts
    <3> HIDE DEF body, overlay, ctx
    <3>6. record # None
      BY <3>1, <3>2, <3>4, <3>5, NoneAssumption
    <3>7. site'.renders[p] = record
      BY <1>1, <1>2, <1>11, <1>12, <2>3, <3>1, <3>6, FilledAt
    <3>8. Reusable(record, body, src[Partial], overlay, ctx, plan.out[s])
      BY <3>6 DEF Reusable, RecordOf
    <3> QED BY <1>12, <2>1, <3>7, <3>8 DEF ReadyOver, body, overlay, ctx
  <2> QED BY <2>1, <2>2, <2>3
\* The plan, or a part of it.
<1>13. ASSUME NEW part, ApplyPages(part, plan), part = outputs \/ part \in PartsOf(outputs)
       PROVE  /\ kept => p \notin part.writes /\ site'.built[p] \in {None, site.built[p]}
              /\ site'.built[p] \in {None, site.built[p], wanted[p]}
  <2>1. outputs = [out |-> wanted, writes |-> outputs.writes,
                   unchanged |-> outputs.unchanged, deletes |-> outputs.deletes]
    BY DEF Resolve
  <2>2. kept => p \notin outputs.writes
    <3>1. kept => wanted[p] \in {None, site.built[p]}
      BY <1>4, <1>5, <1>7, <1>8
    <3> QED BY <3>1 DEF Resolve
  <2>3. PlanOf(part, site.built)
    BY <1>6, <1>13, ResolvePlan, PartPlan
  <2> HIDE DEF outputs
  <2>4. part.out = wanted /\ (kept => p \notin part.writes)
    <3>1. part.out = wanted /\ part.writes \subseteq outputs.writes
      <4>1. CASE part = outputs
        BY <2>1, <4>1
      <4>2. CASE \E w \in SUBSET outputs.writes :
                   part = [outputs EXCEPT !.writes = w, !.unchanged = {}, !.deletes = {}]
        BY <2>1, <4>2
      <4>3. CASE \E d \in SUBSET outputs.deletes : part = [outputs EXCEPT !.deletes = d]
        BY <2>1, <4>3
      <4> QED BY <1>13, <4>1, <4>2, <4>3 DEF PartsOf
    <3> QED BY <2>2, <3>1
  <2>5. p \in part.unchanged => wanted[p] = site.built[p]
    BY <2>3, <2>4 DEF PlanOf
  <2>6. site'.built = Recorded(part, site.built, site.statics) /\ DOMAIN site.built = Output
    BY <1>6, <1>11, <1>13 DEF IsOver
  <2> QED BY <1>3, <2>4, <2>5, <2>6 DEF Recorded, Visited
<1>14. ASSUME NEW part, ApplyPages(part, plan), part = outputs \/ part \in PartsOf(outputs),
              rendered' = {Dest[r] : r \in plan.renders}
       PROVE  /\ kept => /\ p \notin rendered'
                         /\ site'.renders[p] = site.renders[p]
                         /\ site'.built[p] \in {None, site.built[p]}
              /\ (/\ site'.built[p] # None /\ src[FileOf(s)] # "optional"
                  /\ site.built[p] = None)
                 => ReadyOver(site', s, read)
  <2>1. kept => p \notin rendered'
    BY <1>9, <1>14
  <2>2. kept => site'.renders[p] = site.renders[p]
    BY <1>1, <1>2, <1>8, <1>11, <1>14, FilledAt
  <2>3. /\ kept => site'.built[p] \in {None, site.built[p]}
        /\ site'.built[p] \in {None, site.built[p], wanted[p]}
    BY <1>13, <1>14
  <2> HIDE DEF kept, outputs
  <2> QED BY <1>12, <1>14, <2>1, <2>2, <2>3
<1>15. CASE /\ \E part \in PartsOf(outputs) : ApplyPages(part, plan)
            /\ rendered' = {Dest[r] : r \in plan.renders}
            /\ UNCHANGED edited
  <2> HIDE DEF outputs
  <2> QED BY <1>14, <1>15 DEF planned
<1>16. CASE /\ ApplyPages(outputs, plan)
            /\ rendered' = {Dest[r] : r \in plan.renders}
  <2>1. ASSUME site'.built[p] # None, src[FileOf(s)] # "optional"
        PROVE  ReadyOver(site', s, read)
    <3>1. site'.built[p] = Recorded(outputs, site.built, site.statics)[p]
      BY <1>11, <1>16
    <3>2. site.statics[p] = None
      BY <1>3, <1>6, <2>1, <3>1 DEF Resolve, Recorded, Visited, IsOver
    <3>3. site'.built[p] = wanted[p]
      BY <1>3, <1>6, <3>1, <3>2, ResolvedAt
    <3> HIDE DEF outputs
    <3> QED BY <1>12, <1>16, <2>1, <3>3
  <2> HIDE DEF outputs
  <2> QED BY <1>14, <1>16, <2>1 DEF planned
<1>17. \/ /\ \E done \in SUBSET plan.renders :
               site' = Filled(site, plan, done) /\ rendered' = {Dest[r] : r \in done}
          /\ UNCHANGED edited
       \/ /\ ApplyPages(outputs, plan)
          /\ rendered' = {Dest[r] : r \in plan.renders}
       \/ /\ \E part \in PartsOf(outputs) : ApplyPages(part, plan)
          /\ rendered' = {Dest[r] : r \in plan.renders}
          /\ UNCHANGED edited
  BY DEF Build, plan, wanted
<1> HIDE DEF outputs, kept
<1> QED BY <1>10, <1>15, <1>16, <1>17

ReuseInv == SoundInv /\ EditedInv /\ TextsInv /\ ReadyInv

LEMMA ReuseInit == Init => ReuseInv
<1> SUFFICES ASSUME Init PROVE ReuseInv
  OBVIOUS
<1>1. /\ site = Loaded(Start[Definitions]) /\ read = NoObjects /\ pc = "sync"
  BY DEF Init
<1>2. EditedInv
  BY <1>1, LoadedFacts DEF EditedInv, FreshRead, ParsedObject, NoObjects
<1>3. TextsInv
  BY <1>1, LoadedFacts DEF TextsInv, NoObjects
<1>4. ReadyInv
  <2>1. \A s \in PageSource : Dest[s] \in Output
    BY SiteAssumption DEF Output, PageSource
  <2> QED BY <1>1, <2>1, LoadedFacts DEF ReadyInv, PageSource
<1> QED BY <1>2, <1>3, <1>4, SoundInit DEF ReuseInv

LEMMA EditReuse ==
  ASSUME ReuseInv, NEW s \in Editable, NEW text \in Texts[s] \cup {None}, Edit(s, text)
  PROVE  EditedInv' /\ TextsInv' /\ ReadyInv'
<1>1. UNCHANGED <<site, pc, read>> /\ edited' = edited \cup {s}
  BY DEF Edit
<1>2. \A r : r # s => src'[r] = src[r]
  BY EditUnheard DEF ReuseInv
<1>3. \A o \in Object \ edited' : FreshRead'[o] = FreshRead[o] /\ src'[o] = src[o]
  BY <1>1, <1>2 DEF FreshRead, ParsedObject
<1>4. EditedInv'
  BY <1>1, <1>3 DEF ReuseInv, EditedInv, ParsedObject
<1>5. TextsInv'
  BY <1>1 DEF ReuseInv, TextsInv
<1>6. ReadyInv'
  <2> SUFFICES ASSUME NEW r \in PageSource, site'.built[Dest[r]] # None,
                      src'[FileOf(r)] # "optional", Inputs(r)' \cap edited' = {}
               PROVE  ReadyOver(site, r, FreshRead)'
    BY DEF ReadyInv, PageSource
  <2>1. FileOf(r) # s /\ Partial # s
    BY <1>1 DEF Inputs
  <2>2. src'[FileOf(r)] = src[FileOf(r)] /\ src'[Partial] = src[Partial]
    BY <1>2, <2>1
  <2>3. Inputs(r)' = Inputs(r)
    BY <2>2 DEF Inputs
  <2>4. ReadyOver(site, r, FreshRead)
    BY <1>1, <2>2, <2>3 DEF ReuseInv, ReadyInv, PageSource
  <2>5. ReadyOver(site, r, FreshRead')
    <3>1. RecordSound(site.renders[Dest[r]])
      BY SiteAssumption DEF ReuseInv, SoundInv, RenderInv, Output, PageSource
    <3> QED BY <1>3, <2>3, <2>4, <3>1, ReusedAlike
  <2> QED BY <1>1, <2>2, <2>5 DEF ReadyOver
<1> QED BY <1>4, <1>5, <1>6

\* A step that leaves the sources, what was edited and what was built alone.
LEMMA SameReady ==
  ASSUME ReuseInv, src' = src, edited' = edited,
         \/ site'.built = site.built /\ site'.renders = site.renders
         \/ \A p \in Output : site'.built[p] = None
  PROVE  ReadyInv'
<1>1. \A s \in PageSource : Dest[s] \in Output
  BY SiteAssumption DEF Output, PageSource
<1>2. FreshRead' = FreshRead /\ \A s : Inputs(s)' = Inputs(s)
  BY DEF FreshRead, Inputs
<1>3. CASE \A p \in Output : site'.built[p] = None
  BY <1>1, <1>3 DEF ReadyInv, PageSource
<1>4. CASE site'.built = site.built /\ site'.renders = site.renders
  BY <1>2, <1>4 DEF ReuseInv, ReadyInv, ReadyOver
<1> QED BY <1>3, <1>4

LEMMA ReceiveReuse ==
  ASSUME ReuseInv, NEW s \in Editable, Receive(s)
  PROVE  EditedInv' /\ TextsInv' /\ ReadyInv'
<1>1. UNCHANGED <<src, pc, read, edited>> /\ pc = "loop" /\ site' = Invalidated(s)
  BY DEF Receive
<1>2. /\ site'.built = site.built /\ site'.renders = site.renders
      /\ \A o \in Object : site'.objs[o] \in {site.objs[o], None}
  BY <1>1 DEF ReuseInv, SoundInv, ShapeInv, IsSite, IsOver, Invalidated
<1>3. EditedInv'
  BY <1>1, <1>2 DEF ReuseInv, EditedInv, FreshRead, ParsedObject, NoObjects
<1>4. TextsInv'
  BY <1>1, <1>2 DEF ReuseInv, TextsInv
<1> QED BY <1>1, <1>2, <1>3, <1>4, SameReady

LEMMA BatchReuse ==
  ASSUME ReuseInv, Batch
  PROVE  EditedInv' /\ TextsInv' /\ ReadyInv'
<1>1. UNCHANGED <<src, read, edited>> /\ pc' \in {"sync", "loop"}
  BY DEF Batch
<1>2. CASE site' = site
  BY <1>1, <1>2, SameReady DEF ReuseInv, EditedInv, TextsInv, FreshRead
<1>3. CASE site' = Loaded(src[Definitions])
  <2>1. EditedInv'
    BY <1>1, <1>3, LoadedFacts DEF EditedInv, FreshRead, ParsedObject, NoObjects
  <2>2. TextsInv'
    BY <1>1, <1>3, LoadedFacts DEF ReuseInv, TextsInv
  <2> QED BY <1>1, <1>3, <2>1, <2>2, LoadedFacts, SameReady
<1> QED BY <1>2, <1>3 DEF Batch

LEMMA SyncReuse ==
  ASSUME ReuseInv, Sync
  PROVE  EditedInv' /\ TextsInv' /\ ReadyInv'
<1>1. UNCHANGED <<src, read, edited>> /\ pc' = "read"
  BY DEF Sync
<1>2. site'.objs = site.objs /\ site'.built = site.built /\ site'.renders = site.renders
  BY SyncFacts DEF ReuseInv, SoundInv
<1> QED BY <1>1, <1>2, SameReady DEF ReuseInv, EditedInv, TextsInv, FreshRead

LEMMA ReadReuse ==
  ASSUME ReuseInv, ReadObjects
  PROVE  EditedInv' /\ TextsInv' /\ ReadyInv'
<1> DEFINE parsed == [o \in Object |-> ParsedObject(o, src, site.objs)]
           kept == [o \in Object |-> IF parsed[o] # None THEN parsed[o] ELSE site.objs[o]]
<1>1. /\ UNCHANGED <<src, edited>>
      /\ site' = [site EXCEPT !.objs = kept]
      /\ read' = parsed \/ read' = read
      /\ pc' = "build" => read' = parsed
  BY DEF ReadObjects, After
<1> HIDE DEF kept
<1>2. site'.objs = kept /\ site'.built = site.built /\ site'.renders = site.renders
  BY <1>1 DEF ReuseInv, SoundInv, ShapeInv, IsSite
<1>3. FreshRead' = FreshRead
  BY <1>1 DEF FreshRead
<1>4. EditedInv'
  <2>1. ASSUME NEW o \in Object \ edited PROVE parsed[o] = FreshRead[o]
    BY DEF ReuseInv, EditedInv
  <2>2. ASSUME NEW o \in Object \ edited PROVE ParsedObject(o, src, kept) = FreshRead[o]
    BY <2>1 DEF kept, FreshRead, ParsedObject, NoObjects
  <2> HIDE DEF parsed
  <2> QED BY <1>1, <1>2, <1>3, <2>1, <2>2 DEF EditedInv
<1>5. TextsInv'
  <2>1. ASSUME NEW o \in Object
        PROVE  parsed[o] \in Texts[o] \cup {None} /\ kept[o] \in Texts[o] \cup {None}
    <3>1. src[o] \in Texts[o] \cup {None}
      BY DEF ReuseInv, SoundInv, TypeOK, Source
    <3>2. site.objs[o] \in Texts[o] \cup {None}
      BY DEF ReuseInv, TextsInv
    <3> QED BY <3>1, <3>2 DEF kept, ParsedObject
  <2> HIDE DEF parsed
  <2> QED BY <1>1, <1>2, <2>1 DEF ReuseInv, TextsInv
<1> QED BY <1>1, <1>2, <1>4, <1>5, SameReady

LEMMA BuildReuseStep ==
  ASSUME ReuseInv, Build
  PROVE  EditedInv' /\ TextsInv' /\ ReadyInv'
<1>1. /\ UNCHANGED <<src, read>> /\ pc = "build" /\ pc' \in {"loop", "watch"}
      /\ edited' = edited \/ edited' = {o \in edited \cap Object : ~ReadAsIs(o)}
  BY DEF Build, After
<1>2. site'.objs = site.objs
  BY BuildFacts, BodiesAreBodies DEF ReuseInv, SoundInv
<1>3. FreshRead' = FreshRead /\ \A s : Inputs(s)' = Inputs(s)
  BY <1>1 DEF FreshRead, Inputs
<1>4. \A o \in Object \ edited' :
        read[o] = FreshRead[o] /\ ParsedObject(o, src, site.objs) = FreshRead[o]
  BY <1>1 DEF ReuseInv, EditedInv, ReadAsIs, FreshRead
<1>5. EditedInv'
  BY <1>1, <1>2, <1>3, <1>4 DEF EditedInv
<1>6. TextsInv'
  BY <1>1, <1>2 DEF ReuseInv, TextsInv
<1>7. ReadyInv'
  <2> SUFFICES ASSUME NEW s \in PageSource, site'.built[Dest[s]] # None,
                      src[FileOf(s)] # "optional", Inputs(s) \cap edited' = {}
               PROVE  ReadyOver(site', s, FreshRead)
    BY <1>1, <1>3 DEF ReadyInv, PageSource, ReadyOver
  <2>1. ReadyOver(site', s, read)
    <3>1. CASE site.built[Dest[s]] = None \/ edited' # edited
      BY <3>1, BuildReuse DEF ReuseInv
    <3>2. CASE site.built[Dest[s]] # None /\ edited' = edited
      <4>1. ReadyOver(site, s, FreshRead)
        BY <3>2 DEF ReuseInv, ReadyInv, PageSource
      <4>2. RecordSound(site.renders[Dest[s]])
        BY SiteAssumption DEF ReuseInv, SoundInv, RenderInv, Output, PageSource
      <4>3. ReadyOver(site, s, read)
        BY <1>4, <4>1, <4>2, ReusedAlike
      <4>4. site'.renders[Dest[s]] = site.renders[Dest[s]]
            /\ site'.built[Dest[s]] = site.built[Dest[s]]
        BY <4>3, BuildReuse DEF ReuseInv
      <4> QED BY <4>3, <4>4 DEF ReadyOver
    <3> QED BY <3>1, <3>2
  <2>2. RecordSound(site'.renders[Dest[s]])
    <3>1. SoundInv'
      BY BuildSound DEF ReuseInv
    <3> QED BY <3>1, SiteAssumption DEF SoundInv, RenderInv, Output, PageSource
  <2> QED BY <1>4, <2>1, <2>2, ReusedAlike
<1> QED BY <1>5, <1>6, <1>7

LEMMA ReuseStep == ReuseInv /\ [Next]_vars => ReuseInv'
<1> SUFFICES ASSUME ReuseInv, [Next]_vars PROVE ReuseInv'
  OBVIOUS
<1>1. SoundInv'
  BY SoundStep DEF ReuseInv
<1>2. CASE UNCHANGED vars
  BY <1>1, <1>2, SameReady DEF vars, ReuseInv, EditedInv, TextsInv, FreshRead
<1>3. CASE StartWatch
  BY <1>1, <1>3, SameReady DEF StartWatch, ReuseInv, EditedInv, TextsInv, FreshRead
<1>4. CASE Next
  BY <1>1, <1>3, <1>4, EditReuse, ReceiveReuse, BatchReuse, SyncReuse, ReadReuse,
     BuildReuseStep DEF Next, ReuseInv
<1> QED BY <1>2, <1>4

\* No step renders a page that reads nothing that was edited.
LEMMA StepRendersReaders ==
  ASSUME ReuseInv, [Next]_vars
  PROVE  OnlyReadersRender
<1>1. ASSUME pc = "build", pc' # "build", NEW s \in PageSource, Dest[s] \in rendered',
             site.built[Dest[s]] # None, src[FileOf(s)] # "optional",
             Inputs(s) \cap edited = {}
      PROVE  FALSE
  <2>1. Build
    BY <1>1 DEF Next, vars, Edit, Receive, StartWatch, Batch, Sync, ReadObjects
  <2>2. ReadyOver(site, s, FreshRead)
    BY <1>1 DEF ReuseInv, ReadyInv, PageSource
  <2>3. RecordSound(site.renders[Dest[s]])
    BY SiteAssumption DEF ReuseInv, SoundInv, RenderInv, Output, PageSource
  <2>4. \A o \in Object \ edited : FreshRead[o] = read[o]
    BY <1>1 DEF ReuseInv, EditedInv
  <2>5. ReadyOver(site, s, read)
    BY <1>1, <2>2, <2>3, <2>4, ReusedAlike
  <2> QED BY <1>1, <2>1, <2>5, BuildReuse DEF ReuseInv
<1> QED BY <1>1 DEF OnlyReadersRender, PageSource

\* A plan wants of a script that does not compile what the cache has of it.
LEMMA FailedIsKept ==
  ASSUME NEW m \in Script, src[m] = "bad", ~Collision(src)
  PROVE  StaticWanted(src, site.compiled, site.statics)[Dest[m]] = site.statics[Dest[m]]
<1>1. src[m] # None
  BY NoneAssumption
<1>2. Dest[m] \in Output /\ \A r \in Script : Dest[r] = Dest[m] => r = m
  BY SiteAssumption DEF Output
<1>3. ~\E s \in Static : Dest[s] = Dest[m] /\ src[s] # None
  BY <1>1 DEF Collision
<1>4. (CHOOSE r \in Script : Dest[r] = Dest[m]) = m
  BY <1>2
<1>5. StaticWanted(src, site.compiled, site.statics)[Dest[m]]
        = ScriptOutput(m, src, site.compiled, site.statics[Dest[m]])
  BY <1>2, <1>3, <1>4 DEF StaticWanted
<1> QED BY <1>1, <1>5 DEF ScriptOutput

LEMMA StepKeepsServing ==
  ASSUME SoundInv, [Next]_vars
  PROVE  FailedScriptsKeepServing
<1> SUFFICES ASSUME NEW m \in Script, pc = "sync", src[m] = "bad"
             PROVE  disk'[Dest[m]] = disk[Dest[m]]
  BY DEF FailedScriptsKeepServing
<1>1. CASE Sync
  <2> DEFINE wanted == StaticWanted(src, site.compiled, site.statics)
             plan == Resolve(wanted, site.statics)
             p == Dest[m]
  <2>1. ASSUME NEW part, part = plan \/ part \in PartsOf(plan), ~Collision(src)
        PROVE  Applied(part, disk, NoOutputs)[p] = disk[p]
    <3>1. wanted[p] = site.statics[p]
      BY <2>1, FailedIsKept
    <3>2. p \in Output
      BY SiteAssumption DEF Output
    <3>3. /\ p \notin plan.writes \cup plan.deletes
          /\ plan = [out |-> plan.out, writes |-> plan.writes,
                     unchanged |-> plan.unchanged, deletes |-> plan.deletes]
      BY <3>1 DEF Resolve
    <3> HIDE DEF plan
    <3>4. p \notin part.writes \cup part.deletes
      <4>1. CASE part = plan
        BY <3>3, <4>1
      <4>2. CASE \E w \in SUBSET plan.writes :
                   part = [plan EXCEPT !.writes = w, !.unchanged = {}, !.deletes = {}]
        BY <3>3, <4>2
      <4>3. CASE \E d \in SUBSET plan.deletes : part = [plan EXCEPT !.deletes = d]
        BY <3>3, <4>3
      <4> QED BY <2>1, <4>1, <4>2, <4>3 DEF PartsOf
    <3>5. DOMAIN disk = Output
      BY DEF SoundInv, ShapeInv, IsOver
    <3> QED BY <3>2, <3>4, <3>5 DEF Applied
  <2>2. \/ disk' = disk
        \/ ~Collision(src) /\ SyncWith(plan, FailedScripts(src) = {})
        \/ ~Collision(src) /\ \E part \in PartsOf(plan) : SyncWith(part, FALSE)
    BY <1>1 DEF Sync
  <2> HIDE DEF plan
  <2>3. CASE ~Collision(src) /\ SyncWith(plan, FailedScripts(src) = {})
    <3>1. disk' = Applied(plan, disk, NoOutputs)
      BY <2>3 DEF SyncWith
    <3> QED BY <2>1, <2>3, <3>1
  <2>4. CASE ~Collision(src) /\ \E part \in PartsOf(plan) : SyncWith(part, FALSE)
    <3>1. PICK part \in PartsOf(plan) : disk' = Applied(part, disk, NoOutputs)
      BY <2>4 DEF SyncWith
    <3> QED BY <2>1, <2>4, <3>1
  <2> QED BY <2>2, <2>3, <2>4
<1>2. CASE ~Sync
  <2>1. ASSUME NEW s, NEW text, Edit(s, text) PROVE disk' = disk
    BY <2>1 DEF Edit
  <2>2. ASSUME NEW s, Receive(s) PROVE FALSE
    BY <2>2 DEF Receive
  <2>3. ~StartWatch /\ ~Batch /\ ~ReadObjects /\ ~Build
    BY DEF StartWatch, Batch, ReadObjects, Build
  <2> QED BY <1>2, <2>1, <2>2, <2>3 DEF Next, vars
<1> QED BY <1>1, <1>2

\* A build renders no page again that reads nothing that was edited, and a script
\* that stops compiling goes on being served: at every step, whatever was reused,
\* reloaded or left half done before.
THEOREM BuildsTouchOnlyWhatChanged == Spec => BuildsTouchWhatChanged
<1>1. ReuseInv /\ [Next]_vars => [OnlyReadersRender /\ FailedScriptsKeepServing]_vars
  BY StepRendersReaders, StepKeepsServing DEF ReuseInv
<1> QED BY <1>1, ReuseInit, ReuseStep, PTL DEF Spec, BuildsTouchWhatChanged
==============================================================================
