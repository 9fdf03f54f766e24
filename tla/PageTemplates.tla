----------------------------- MODULE PageTemplates -----------------------------
(***************************************************************************)
(* A thread that reads templates and renders pages, one after the other    *)
(* (src/src/liquid_rewrite.rs, src/src/tags/, src/src/liquid_parser.rs).   *)
(* What outlives a render is the thread's stack of active layouts and the  *)
(* parser's cache of the values it parsed; the rewriter keeps nothing.     *)
(***************************************************************************)
EXTENDS LiquidRewrite, TemplateTags

CONSTANTS
  Context,   \* the site's globals
  Pages,     \* the templates of pages
  Sources,   \* the texts of templates
  Bodies     \* the lines of `liquid` tags

VARIABLES layouts, nested, done
vars == <<layouts, nested, done>>

Idle == [what |-> "nothing"]

Init == layouts = <<>> /\ nested = {} /\ done = Idle

\* A template is read: its text, or that of a partial or a value, is rewritten.
\* Nothing else being changed by it, it is read before any page is rendered.
ReadTemplate(source) ==
  /\ done = Idle /\ nested = {}
  /\ done' = [what |-> "source", source |-> source, read |-> Rewrite(source)]
  /\ UNCHANGED <<layouts, nested>>

\* The source of a `liquid` tag with a statement on each line.
LiquidTag(lines) ==
  <<"{", "%", " ", "liquid", " ">> \o FlattenSeq([k \in 1 .. Len(lines) |-> Append(lines[k], "n")])
    \o <<"%", "}">>

ReadStatements(lines) ==
  /\ done = Idle /\ nested = {}
  /\ done' = [what |-> "lines", source |-> LiquidTag(lines), lines |-> lines,
              read |-> Rewrite(LiquidTag(lines))]
  /\ UNCHANGED <<layouts, nested>>

\* A page is rendered and, unless it failed, assembled: Template::render and
\* post_process.
Ends(page, st) ==
  /\ layouts' = st.layouts /\ nested' = st.nested
  /\ done' = [what |-> "page", page |-> page, failed |-> st.failed,
              out |-> IF st.failed = None THEN PostProcess(st.out) ELSE <<>>]

RenderPage(page) == done = Idle /\ Ends(page, Page(page, Context, layouts, nested))

Return == done # Idle /\ done' = Idle /\ UNCHANGED <<layouts, nested>>

Next ==
  \/ \E source \in Sources : ReadTemplate(source)
  \/ \E lines \in Bodies : ReadStatements(lines)
  \/ \E page \in Pages : RenderPage(page)
  \/ Return

Spec == Init /\ [][Next]_vars

-----------------------------------------------------------------------------
(* What must hold of rendering *)

\* The cache of parsed values keeps to its size, and only layouts are active.
TypeOK ==
  /\ layouts \in Seq(DOMAIN Partials)
  /\ nested \subseteq DOMAIN Liquids /\ Cardinality(nested) <= MaxNested
  /\ done.what \in {"nothing", "source", "lines", "page"}

IsPage == done.what = "page"
PageOf == done.page

\* What a page comes to does not depend on the pages rendered before it on the
\* thread, the failed ones included: no layout stays active, and a value parsed
\* for another page is that value (LayoutStackGuard, nested_template).
IsRenderOf(st) == done.failed = st.failed /\ (st.failed = None => done.out = PostProcess(st.out))
RendersAreAlike == IsPage => IsRenderOf(Page(PageOf, Context, <<>>, {}))

\* A value that holds its own liquid, be it through a partial, ends in its text
\* and no endless render (MAX_VALUE_RENDER_DEPTH, RenderFrame::registers).
RenderingEnds == IsPage => done.failed # "endless"

\* A template under way after its first k elements, in a scope.
After(template, k, scope) == Run(SubSeq(template, 1, k), scope, Start(<<>>, {}), MaxNesting)
Running(st) == st.failed = None /\ st.interrupt = None
Reads(e) == {p[1] : p \in Range(e.args) \cup (IF e.bind = None THEN {} ELSE {e.value})}

\* What an element adds to a page, from before it to after it, is what it writes alone.
AddsItself(e, before, after, alone) ==
  Reads(e) \cap DOMAIN before.vars = {} /\ Running(before)
  => /\ after.out = before.out \o alone.out
     /\ after.vars = before.vars
     /\ after.failed = alone.failed /\ after.interrupt = alone.interrupt

\* `render` is isolated: what it writes is what it would alone, whatever its page
\* assigned, and what it assigned is gone after it. What it is given its page may
\* have assigned, so those are left out.
PartialsAreIsolated ==
  IsPage => \A k \in 1 .. Len(PageOf) :
    PageOf[k].tag = "render" =>
      AddsItself(PageOf[k], After(PageOf, k - 1, PageScope(Context)),
                 After(PageOf, k, PageScope(Context)), After(<<PageOf[k]>>, 1, PageScope(Context)))

\* The template with its k-th element replaced by a template.
Spliced(template, k, by) ==
  SubSeq(template, 1, k - 1) \o by \o SubSeq(template, k + 1, Len(template))

SameRender(st1, st2) ==
  /\ st1.failed = st2.failed
  /\ st1.failed = None => /\ st1.out = st2.out /\ st1.vars = st2.vars
                          /\ st1.interrupt = st2.interrupt

\* The scopes a template may be rendered in: a page's, and a layout's under it.
Scopes == {PageScope(Context), Stacked(PageScope(Context), "a" :> Str("layout's"))}

\* A page means the same with its k-th element replaced by a template.
StandsFor(k, by, scope) ==
  LET inlined == Spliced(PageOf, k, by)
  IN  SameRender(After(PageOf, Len(PageOf), scope), After(inlined, Len(inlined), scope))

\* `include` shares the scope: a partial without arguments stands for its text.
IncludesAreInlined ==
  IsPage => \A k \in 1 .. Len(PageOf), scope \in Scopes :
    LET e == PageOf[k] IN
    /\ e.tag = "include" /\ e.bind = None /\ DOMAIN e.args = {} /\ e.partial \in DOMAIN Partials
    => StandsFor(k, Partials[e.partial], scope)

\* A value's liquid is rendered in place: it sees what the page assigned, and what
\* it assigns the page sees, as if it stood in the page. Values of values are not
\* rendered, and so left out.
IsLiquid(v) == v # Nil /\ v.value = "string" /\ v.text \in DOMAIN Liquids
IsFlat(template) ==
  template # "bad" /\ \A i \in 1 .. Len(template) :
    template[i].tag \in {"assign", "text", "interrupt"} \/ template[i] = [tag |-> "out", path |-> <<"a">>]
IsInlined(k, v, scope) == IsLiquid(v) /\ IsFlat(Liquids[v.text]) => StandsFor(k, Liquids[v.text], scope)
ValuesAreInlined ==
  IsPage => \A k \in 1 .. Len(PageOf), scope \in Scopes :
    PageOf[k].tag = "out" =>
      IsInlined(k, Find(scope, After(PageOf, k - 1, scope).vars, PageOf[k].path), scope)

\* A `for` clause renders the partial for each item as `with` would, up to a break,
\* and the interrupts of the partial end there. Its `forloop` aside.
Ended(st) == [st EXCEPT !.interrupt = None]
Item(e, which) == <<[e EXCEPT !.bind = "with", !.value = Append(@, which)]>>
Second(e, one) ==
  IF one.failed # None \/ one.interrupt = "break" THEN one
  ELSE Run(Item(e, "last"), PageScope(Context), Ended(one), MaxNesting)
IsItsItems(e, before, after) ==
  Running(before) /\ Find(PageScope(Context), before.vars, e.value).value = "list"
  => SameRender(after, Ended(Second(e, Run(Item(e, "first"), PageScope(Context), before, MaxNesting))))
LoopsAreTheirItems ==
  IsPage => \A k \in 1 .. Len(PageOf) :
    PageOf[k].tag \in {"include", "render"} /\ PageOf[k].bind = "for" =>
      IsItsItems(PageOf[k], After(PageOf, k - 1, PageScope(Context)), After(PageOf, k, PageScope(Context)))

Layouts(template) == {k \in 1 .. Len(template) : template[k].tag = "layout"}
IsNested(e) == e.partial \in DOMAIN Partials /\ Layouts(Partials[e.partial]) # {}

\* What was written after the layout is wherever the layout has its content; the
\* layout's own text ends with the sentinel that cuts the page.
Holds(layout, all) ==
  LET rest == SubSeq(all, Len(layout) + 1, Len(all))
  IN  done.out = FlattenSeq([k \in 1 .. Len(layout) - 1 |->
                               IF layout[k] = Content THEN rest ELSE <<layout[k]>>])

\* A page with one layout, itself in no other, is that layout with the rest of the
\* page wherever it writes its content, once or more (post_process).
LayoutsHoldTheirContent ==
  /\ IsPage /\ done.failed = None
  /\ Layouts(PageOf) = {1} /\ ~IsNested(PageOf[1])
  => Holds(After(PageOf, 1, PageScope(Context)).out, After(PageOf, Len(PageOf), PageScope(Context)).out)

\* No page shows the sentinel its layout left for the content.
NoSentinelIsShown == IsPage => Content \notin Range(done.out)

\* An object of a list is found by its file name, and otherwise what liquid finds
\* by itself is found: its own indexes win over a name (index_named).
NamesFindObjects ==
  IsPage => \A k \in 1 .. Len(PageOf) :
    LET path  == PageOf[k].path
        list  == Context[path[1]]
        named == {i \in 1 .. Len(list.items) : IsNamed(list.items[i], path[2])}
        found == Find(PageScope(Context), NoVars, path)
    IN  /\ PageOf[k].tag = "out" /\ Len(path) = 3
        /\ path[1] \in DOMAIN Context /\ list.value = "list"
        => found = Child(CASE path[2] \in {"0", "first"} -> list.items[1]
                           [] path[2] = "last" -> Last(list.items)
                           [] OTHER -> IF named = {} THEN Nil ELSE list.items[Min(named)],
                         path[3])

-----------------------------------------------------------------------------
(* What must hold of reading *)

IsRead == done.what \in {"source", "lines"}
Source == done.source
Text == done.read.text
Excepted == HyphenedName(Source) \/ TagEndInOutput(Source) \/ BraceBeforeComment(Source)

\* The scanner is a second lexer of liquid's grammar: what liquid reads in the
\* rewritten text is what it reads in the source, with output statements turned to
\* tags and comments gone, and a source it cannot read stays one. Three corners in
\* which the two part are left out.
ReadsAs(items, after) ==
  IF HasGaps(Source) THEN items # Unparsable => Solid(after) = Solid(items)
  ELSE items # Unparsable \/ ~HasComment(Source) => after = items
RewritingKeepsTheGrammar == done.what = "source" /\ ~Excepted => ReadsAs(Items(Source), Items(Text))

\* A template that was rewritten is left alone: partials and values may be
\* rewritten again.
RewritingSettles ==
  /\ IsRead /\ ~Excepted
  /\ done.what = "lines" \/ Items(Source) # Unparsable
  => Rewrite(Text).text = Text

\* Where an error is shown: each offset of the rewritten text leads into the
\* source, never backwards, and a word leads to itself.
OffsetsLeadBack ==
  IsRead =>
    LET to == [offset \in 0 .. Len(Text) |-> ToSource(done.read.anchors, Len(Source), offset)] IN
    /\ \A offset \in 0 .. Len(Text) : to[offset] \in 0 .. Len(Source)
    /\ \A offset \in 1 .. Len(Text) : to[offset - 1] <= to[offset]
    /\ \A offset \in 0 .. Len(Text) - 1 :
         At(Text, offset) \in Words \ {"out"} => At(Source, to[offset]) = At(Text, offset)

\* The line as a tag of its own; a blank line or a comment is none.
AsTag(line) ==
  LET statement == TrimBoth(White, line)
  IN  IF statement = <<>> \/ Head(statement) = "#" THEN <<>>
      ELSE <<"{", "%", " ">> \o statement \o <<" ", "%", "}">>

\* Each line of a `liquid` tag becomes an ordinary tag, whatever quotes a comment
\* among them holds (expand_statements, find_liquid_tag_end).
StatementsAreTags ==
  done.what = "lines" =>
    Items(Text) = Items(FlattenSeq([k \in 1 .. Len(done.lines) |-> AsTag(done.lines[k])]))

-----------------------------------------------------------------------------
(* What the run checks *)

\* A render ends, and leaves nothing to the next one.
RendersStandAlone == TypeOK /\ RendersAreAlike /\ RenderingEnds

\* Each of archival's tags writes what the template says it stands for.
TagsMeanWhatTheySay ==
  /\ PartialsAreIsolated /\ IncludesAreInlined /\ ValuesAreInlined
  /\ LoopsAreTheirItems /\ LayoutsHoldTheirContent /\ NamesFindObjects

\* The rewritten text is the template, to liquid and to the rewriter.
RewritingIsFaithful == RewritingKeepsTheGrammar /\ RewritingSettles /\ StatementsAreTags
=============================================================================
