---------------------------- MODULE MCPageTemplates ----------------------------
(***************************************************************************)
(* Every page of up to three of the elements below, every source of up to  *)
(* three of the fragments, every `liquid` tag of up to three of the lines. *)
(***************************************************************************)
EXTENDS PageTemplates

UpTo(n, S) == UNION {[1 .. k -> S] : k \in 0 .. n}

T(text) == [tag |-> "text", text |-> text]
Out(path) == [tag |-> "out", path |-> path]
Set(name, text) == [tag |-> "assign", name |-> name, text |-> text]
Interrupt(kind) == [tag |-> "interrupt", kind |-> kind]
Use(tag, partial) ==
  [tag |-> tag, partial |-> partial, bind |-> None, value |-> <<>>, as |-> None, args |-> NoVars]
Bound(tag, partial, bind, value) == [Use(tag, partial) EXCEPT !.bind = bind, !.value = value]

MCPartials ==
  "shows" :> <<Out(<<"a">>)>>
  @@ "sets" :> <<Set("a", "inner"), Out(<<"a">>)>>
  @@ "parts/item" :> <<Out(<<"item", "x">>)>>
  @@ "breaks" :> <<T("before"), Interrupt("break"), T("after")>>
  @@ "skips" :> <<T("before"), Interrupt("continue"), T("after")>>
  @@ "tells" :> <<Out(<<"told">>)>>
  @@ "frame" :> <<T("head"), Out(<<"page_content">>), T("foot"), Out(<<"page_content">>)>>
  @@ "nested" :> <<Use("layout", "frame"), T("nested"), Out(<<"page_content">>)>>
  @@ "loop" :> <<Use("layout", "loop")>>
  @@ "broken" :> <<Use("layout", "frame"), Out(<<"unknown">>)>>
MCSegment == [p \in DOMAIN MCPartials |-> IF p = "parts/item" THEN "item" ELSE p]

MCLiquids ==
  "local" :> <<Out(<<"a">>)>>
  @@ "assigns" :> <<Set("a", "valued")>>
  @@ "stops" :> <<T("said"), Interrupt("break")>>
  @@ "told" :> <<Use("render", "tells")>>
  @@ "bad" :> "bad"

Post(name, x) == Obj("path" :> Str(name) @@ "x" :> Str(x))
MCContext ==
  "posts" :> List(<<Post("main", "one"),
                     Obj("path" :> Str("first") @@ "x" :> Str("two") @@ "y" :> Str("three"))>>)
  @@ [name \in {"local", "assigns", "stops", "told", "bad"} |-> Str(name)]

Elements ==
  {T("text"), Set("a", "outer"), Set("a", "told"), Out(<<"a">>), Out(<<"unknown">>),
   Out(<<"posts", "main", "x">>), Out(<<"posts", "first", "x">>), Out(<<"posts", "first", "y">>), Out(<<"posts", "gone", "x">>),
   Out(<<"local">>), Out(<<"assigns">>), Out(<<"stops">>), Out(<<"told">>), Out(<<"bad">>),
   Use("include", "shows"), Use("render", "shows"), Use("include", "sets"), Use("render", "sets"),
   Use("include", "breaks"), Use("render", "breaks"), Use("render", "gone"),
   [Use("render", "sets") EXCEPT !.args = "a" :> <<"local">>],
   [Use("render", "shows") EXCEPT !.args = "a" :> <<"unknown">>],
   Bound("include", "parts/item", "for", <<"posts">>), Bound("render", "parts/item", "for", <<"posts">>),
   Bound("include", "breaks", "for", <<"posts">>), Bound("render", "skips", "for", <<"posts">>),
   [Bound("render", "parts/item", "with", <<"posts", "main">>) EXCEPT !.as = "item"],
   Bound("render", "sets", "for", <<"posts">>), Bound("render", "shows", "for", <<"local">>),
   Use("layout", "frame"), Use("layout", "nested"), Use("layout", "loop"), Use("layout", "broken"),
   [Use("layout", "frame") EXCEPT !.args = "shade" :> <<"local">>]}
MCPages == UpTo(2, Elements) \cup {<<e1, e2, e3>> : e1 \in {Set("a", "outer"), Use("layout", "frame")},
                                                   e2, e3 \in Elements}

MCSources ==
  {FlattenSeq(fragments) : fragments \in UpTo(3,
     { <<"{", "{", "x", "}", "}">>, <<"{", "{", "-", " ", "x", "-", "}", "}">>,
       <<"{", "%", "raw", "%", "}">>, <<"{", "%", "-", " ", "raw", " ", "-", "%", "}">>,
       <<"{", "%", "endraw", "%", "}">>, <<"{", "%", "raw", "-", "%", "}">>,
       <<"{", "%", "-", "#", "'", "-", "%", "}">>, <<"{", "%", " ", "#">>,
       <<"{", "%", "echo", " ", "x", "%", "}">>, <<"{", "%", "echo", "%", "}">>,
       <<"{", "%", " ", "x", " ">>, <<"{", "%">>, <<"%", "}">>, <<"-", "%", "}">>,
       <<"{", "{">>, <<"}", "}">>, <<"{">>, <<"'">>, <<"n">>, <<" ">>, <<"#">>,
       <<"x">>, <<"echo">>, <<"raw">>, <<"endraw", "{", "{", "x", "}", "}">> })}
MCBodies ==
  UpTo(3, { <<"x", " ", "x">>, <<" ", " ", "echo", " ", "x">>, <<"t", "echo">>, <<"#", "x", "'">>,
            <<" ", "#", " ", "'", "x">>, <<>>, <<" ">>, <<"x", "'", "%", "}", "'">>, <<"echo", " ", "'", "#", "'">> })
=============================================================================
