----------------------------- MODULE TemplateTags -----------------------------
(***************************************************************************)
(* What a template writes (src/src/tags/*.rs, src/src/named_lookup.rs):    *)
(* archival's own `include`, `render`, `layout` and output tags, the       *)
(* scopes they give a partial, the interrupts and the registers they share *)
(* and how an object of a list is found by its file name.                  *)
(*                                                                         *)
(* Data.  A template is a sequence of elements, a written page a sequence  *)
(* of pieces; what a piece looks like is left out.  A value is a string, a *)
(* list or an object with fields; a string is named by its text, and       *)
(* Liquids gives the template of each text that holds liquid, "bad" when   *)
(* it does not parse.  `assign`, `for`, `break` and `continue` are         *)
(* liquid's own.                                                           *)
(***************************************************************************)
EXTENDS Integers, Sequences, SequencesExt, FiniteSetsExt

CONSTANTS
  Partials,   \* the templates a partial's name stands for
  Segment,    \* the last path segment of a partial's name
  Liquids,    \* the template in a text that holds liquid
  MaxNested   \* NESTED_CACHE_MAX_ENTRIES

MaxDepth == 1       \* MAX_VALUE_RENDER_DEPTH
MaxNesting == 7     \* how deep templates nest before a render is given up

None == "none"
Nil == [value |-> "nil"]   \* what is not there
NoVars == [name \in {} |-> Nil]
Str(text) == [value |-> "string", text |-> text]
List(items) == [value |-> "list", items |-> items]
Obj(fields) == [value |-> "object", fields |-> fields]

Over(f, g) == [name \in DOMAIN f \cup DOMAIN g |-> IF name \in DOMAIN f THEN f[name] ELSE g[name]]

-----------------------------------------------------------------------------
(* Scopes and lookups *)

\* A scope is the variables stacked on it, innermost first, and under what the
\* template assigned (kept with the render, which changes it) what was passed to
\* the template and the site's globals.
PageScope(context) == [frames |-> <<>>, passed |-> NoVars, globals |-> context]

\* Slip: more variables replace the ones stacked before.
StackedAlone(scope, vars) == [scope EXCEPT !.frames = <<vars>>]

\* StackFrame: the caller's scope with more variables on top.
Stacked(scope, vars) == [scope EXCEPT !.frames = <<vars>> \o @]

\* The first of a scope's layers with the name: RenderFrame::try_get, and the
\* frames liquid stacks under a page.
Root(scope, vars, name) ==
  LET holders == SelectSeq(scope.frames \o <<vars, scope.passed, scope.globals>>,
                           LAMBDA f : name \in DOMAIN f)
  IN  IF holders = <<>> THEN Nil ELSE Head(holders)[name]

\* Liquid's own index of a value: a field, or a list's ends and positions.
Child(v, key) ==
  CASE v = Nil -> Nil
    [] v # Nil /\ v.value = "object" -> IF key \in DOMAIN v.fields THEN v.fields[key] ELSE Nil
    [] v # Nil /\ v.value = "list" ->
         CASE v.items = <<>> -> Nil
           [] v.items # <<>> /\ key \in {"0", "first"} -> Head(v.items)
           [] v.items # <<>> /\ key = "last" -> Last(v.items)
           [] OTHER -> Nil
    [] OTHER -> Nil

\* is_named: an object's path ends in its file name.
IsNamed(item, name) ==
  item.value = "object" /\ "path" \in DOMAIN item.fields /\ item.fields["path"] = Str(name)

\* Slip: an object's name is tried before liquid's own index.
NameFirst(v, key) ==
  LET named == IF v = Nil \/ v.value # "list" THEN <<>>
               ELSE SelectSeq(v.items, LAMBDA item : IsNamed(item, key))
  IN  IF named # <<>> THEN Head(named) ELSE Child(v, key)

\* index_named: liquid's own index wins over an object's name.
IndexNamed(v, key) ==
  LET named == IF v = Nil \/ v.value # "list" THEN <<>>
               ELSE SelectSeq(v.items, LAMBDA item : IsNamed(item, key))
  IN  IF Child(v, key) # Nil \/ named = <<>> THEN Child(v, key) ELSE Head(named)

\* NamedLookup: liquid's own walk, and when it finds nothing the one that also
\* looks for names.
Find(scope, vars, path) ==
  LET root  == Root(scope, vars, Head(path))
      plain == FoldLeft(Child, root, Tail(path))
  IN  IF plain # Nil THEN plain ELSE FoldLeft(IndexNamed, root, Tail(path))

\* binding_name: what a `with` or `for` value is bound to.
BindingName(e) == IF e.as # None THEN e.as ELSE Segment[e.partial]

-----------------------------------------------------------------------------
(* Rendering *)

\* A render under way: what it wrote, what its template assigned, the registers
\* (an interrupt, and how many values deep it is), the layouts that are active,
\* the parsed values and, once it failed, why.
Start(layouts, nested) ==
  [ out |-> <<>>, vars |-> NoVars, interrupt |-> None, depth |-> 0, failed |-> None,
    layouts |-> layouts, nested |-> nested ]

Write(st, piece) == [st EXCEPT !.out = Append(@, piece)]
Fail(st, why) == [st EXCEPT !.failed = why]

Content == [sentinel |-> "content"]
Snip == [sentinel |-> "snip"]

\* Slip: the cache is never emptied.
KeepAll(nested, text) == nested \cup {text}

\* nested_template: a parsed value is kept; a full cache is emptied first.
Keep(nested, text) ==
  CASE text \in nested -> nested
    [] text \notin nested /\ Cardinality(nested) >= MaxNested -> {text}
    [] OTHER -> nested \cup {text}

\* Slip: a value is rendered by a runtime of its own.
DeeperAlone(st, text) == [st EXCEPT !.depth = @ + 1, !.nested = Keep(@, text), !.vars = NoVars]

\* A value's liquid is parsed, or found parsed, to be rendered one value deeper by
\* the runtime of the page: DepthGuard::enter.
Deeper(st, text) == [st EXCEPT !.depth = @ + 1, !.nested = Keep(@, text)]

\* The arguments of a tag, evaluated against the caller.
Args(e, scope, vars) == [name \in DOMAIN e.args |-> Find(scope, vars, e.args[name])]
ArgsFail(e, scope, vars) == Nil \in Range(Args(e, scope, vars))

\* Slip: a partial rendered in isolation still sees its caller's variables.
SharedScope(scope, vars, passed) ==
  [frames |-> <<>>, passed |-> Over(passed, vars), globals |-> scope.globals]

\* The scope `render` gives a partial: RenderFrame::new.
IsolatedScope(scope, vars, passed) ==
  [frames |-> <<>>, passed |-> passed, globals |-> scope.globals]

\* Slip: only a break is consumed by the loop it is for.
ConsumeBreak(st) == IF st.interrupt = "break" THEN [st EXCEPT !.interrupt = None] ELSE st

\* The innermost loop owns an interrupt.
Consume(st) == [st EXCEPT !.interrupt = None]

\* Slip: a layout that failed stays active.
PopUnlessFailed(st, layouts) == IF st.failed = None THEN [st EXCEPT !.layouts = layouts] ELSE st

\* LayoutStackGuard: dropped however the render of the layout ends.
Pop(st, layouts) == [st EXCEPT !.layouts = layouts]

\* Slip: a partial rendered in isolation counts its values from nothing.
FreshRegisters(st) == [st EXCEPT !.vars = NoVars, !.depth = 0]

\* What an isolated partial starts from: no assignments, its caller's registers.
Enter(st) == [st EXCEPT !.vars = NoVars]

\* Back in the caller: its assignments, which the partial's do not reach.
Leave(after, caller) == [after EXCEPT !.vars = caller.vars, !.depth = caller.depth]

RECURSIVE Run(_, _, _, _), Exec(_, _, _, _)

\* A template's elements in turn, until one fails or interrupts.
Run(template, scope, st, fuel) ==
  CASE fuel = 0 -> Fail(st, "endless")
    [] fuel > 0 /\ (template = <<>> \/ st.failed # None \/ st.interrupt # None) -> st
    [] OTHER -> Run(Tail(template), scope, Exec(Head(template), scope, st, fuel), fuel)

\* A partial under its name, in a scope.
RenderPartial(e, scope, st, fuel) ==
  IF e.partial \notin DOMAIN Partials THEN Fail(st, "no partial")
  ELSE Run(Partials[e.partial], scope, st, fuel - 1)

\* One render of the partial, with a value bound or not: Include::render_to and
\* Render::render_to evaluate the arguments anew each time.
Once(e, bound, scope, st, fuel) ==
  LET vars    == Over(bound, Args(e, scope, st.vars))
      unknown == ArgsFail(e, scope, st.vars)
  IN  CASE unknown -> Fail(st, "argument")
        [] ~unknown /\ e.tag = "include" -> RenderPartial(e, Stacked(scope, vars), st, fuel)
        [] OTHER -> Leave(RenderPartial(e, IsolatedScope(scope, st.vars, vars), Enter(st), fuel), st)

Forloop(k, n) == Obj("index" :> Str(ToString(k)) @@ "last" :> Str(ToString(k = n)))

\* The items of a `for` clause from the k-th on.
RECURSIVE Each(_, _, _, _, _, _)
Each(e, items, k, scope, st, fuel) ==
  LET bound == Over(BindingName(e) :> items[k], "forloop" :> Forloop(k, Len(items)))
      after == Once(e, bound, scope, st, fuel)
  IN  CASE k > Len(items) -> st
        [] k <= Len(items) /\ after.failed # None -> after
        [] OTHER -> IF after.interrupt = "break" THEN Consume(after)
                    ELSE Each(e, items, k + 1, scope, Consume(after), fuel)

\* Include::render_to and Render::render_to
IncludeOrRender(e, scope, st, fuel) ==
  LET bound == IF e.bind = None THEN Nil ELSE Find(scope, st.vars, e.value)
  IN  CASE e.bind = None -> Once(e, NoVars, scope, st, fuel)
        [] e.bind # None /\ bound = Nil -> Fail(st, "binding")
        [] e.bind = "with" /\ bound # Nil -> Once(e, BindingName(e) :> bound, scope, st, fuel)
        [] OTHER -> IF bound.value # "list" THEN Fail(st, "no list")
                    ELSE Each(e, bound.items, 1, scope, st, fuel)

\* Layout::render_to: the layout is written where the tag is, with a sentinel for
\* the content, and a mark after it from which on the page is the content.
Layout(e, scope, st, fuel) ==
  LET set   == [st EXCEPT !.vars = Over("page_content" :> [value |-> "content"], @)]
      named == [set EXCEPT !.layouts = Append(@, e.partial)]
      after == IF ArgsFail(e, scope, set.vars) THEN Fail(named, "argument")
               ELSE RenderPartial(e, Stacked(scope, Args(e, scope, set.vars)), named, fuel)
  IN  IF e.partial \in Range(st.layouts) THEN Fail(set, "recursive layout")
      ELSE Pop(IF after.failed = None THEN Write(after, Snip) ELSE after, st.layouts)

\* OutputStatement::render_to: a string's own liquid is rendered in place, in the
\* scope of the page, and only one value deep.
Output(e, scope, st, fuel) ==
  LET v        == Find(scope, st.vars, e.path)
      rendered == Run(Liquids[v.text], scope, Deeper(st, v.text), fuel - 1)
  IN  CASE v = Nil -> Fail(st, "unknown variable")
        [] v # Nil /\ v.value = "content" -> Write(st, Content)
        [] v # Nil /\ v.value = "string" /\ v.text \in DOMAIN Liquids /\ st.depth < MaxDepth ->
             IF Liquids[v.text] = "bad" THEN Fail(st, "value")
             ELSE [rendered EXCEPT !.depth = st.depth]
        [] OTHER -> Write(st, v)

Exec(e, scope, st, fuel) ==
  CASE e.tag = "out" -> Output(e, scope, st, fuel)
    [] e.tag = "text" -> Write(st, Str(e.text))
    [] e.tag = "assign" -> [st EXCEPT !.vars = Over(e.name :> Str(e.text), @)]
    [] e.tag = "interrupt" -> [st EXCEPT !.interrupt = e.kind]
    [] e.tag \in {"include", "render"} -> IncludeOrRender(e, scope, st, fuel)
    [] e.tag = "layout" -> Layout(e, scope, st, fuel)

\* Slip: a layout writes its content once only.
FillFirst(out) ==
  LET snip    == SelectInSeq(out, LAMBDA piece : piece = Snip)
      content == SelectInSeq(out, LAMBDA piece : piece = Content)
      after   == IF content = 0 THEN snip ELSE content + 1
  IN  IF snip = 0 THEN out
      ELSE SubSeq(out, 1, after - 1 - (IF content = 0 THEN 0 ELSE 1))
             \o SubSeq(out, snip + 1, Len(out)) \o SubSeq(out, after, snip - 1)

\* post_process: the content is all after the first mark; the sentinels before the
\* first mark of what that makes become it, and the rest goes.
PostProcess(out) ==
  LET snip     == SelectInSeq(out, LAMBDA piece : piece = Snip)
      content  == SubSeq(out, snip + 1, Len(out))
      replaced == FlattenSeq([k \in 1 .. Len(out) |-> IF out[k] = Content THEN content ELSE <<out[k]>>])
      cut      == SelectInSeq(replaced, LAMBDA piece : piece = Snip)
  IN  IF snip = 0 THEN out ELSE SubSeq(replaced, 1, cut - 1)

\* A page's own template, rendered and assembled.
Page(template, context, layouts, nested) == Run(template, PageScope(context), Start(layouts, nested), MaxNesting)
=============================================================================
