---------------------------- MODULE LiquidRewrite ----------------------------
(***************************************************************************)
(* The rewriting every template goes through before liquid parses it       *)
(* (src/src/liquid_rewrite.rs): output statements become the tag that      *)
(* renders a value's own liquid, `liquid` and `echo` are expanded, inline  *)
(* comments go, and `raw` bodies stay; with the anchors that take an       *)
(* offset of the result back to the file (src/src/lsp/diagnostics.rs).     *)
(*                                                                         *)
(* Data.  A source is a sequence of symbols: the bytes the scanner tells   *)
(* apart, one kind of quote, and words, each a symbol.  Offsets count      *)
(* symbols from 0.  "n" is a newline and "t" a tab.                        *)
(***************************************************************************)
EXTENDS Integers, Sequences, SequencesExt, FiniteSetsExt

Words == {"x", "raw", "endraw", "liquid", "echo", "out"}
Quote == "'"
Missing == -1   \* the offset of what is not there

At(s, i) == IF i \in 0 .. Len(s) - 1 THEN s[i + 1] ELSE "end"
Slice(s, from, to) == SubSeq(s, from + 1, to)
Pair(s, i, close) == <<At(s, i), At(s, i + 1)>> = close

\* is_liquid_whitespace, and what str::trim takes.
Blank == {" ", "n"}
White == Blank \cup {"t"}
NameSymbols == Words \cup {"-"}

\* The first offset from i on that holds none of `symbols`.
Skip(symbols, s, i) == Min({j \in i .. Len(s) : At(s, j) \notin symbols})
TrimStart(symbols, s) == Slice(s, Skip(symbols, s, 0), Len(s))
TrimEnd(symbols, s) == SubSeq(s, 1, Max({0} \cup {k \in 1 .. Len(s) : s[k] \notin symbols}))
TrimBoth(symbols, s) == TrimEnd(symbols, TrimStart(symbols, s))

FirstOf(offsets) == IF offsets = {} THEN Missing ELSE Min(offsets)

-----------------------------------------------------------------------------
(* The scanner *)

QuotesIn(s, from, to) == Quantify(from .. to - 1, LAMBDA j : At(s, j) = Quote)

\* scan_to: the first `close` outside a string literal.
ScanTo(s, from, close) ==
  FirstOf({i \in from .. Len(s) - 2 : Pair(s, i, close) /\ QuotesIn(s, from, i) % 2 = 0})

\* find_tag_end: the first one, whatever is quoted.
FindTagEnd(s, from) == FirstOf({i \in from .. Len(s) - 2 : Pair(s, i, <<"%", "}">>)})

\* Slip: a quote opens a string in a comment line too.
QuotesInComments(mode, c) ==
  CASE mode = "string" -> IF c = Quote THEN "code" ELSE "string"
    [] c = Quote -> "string"
    [] c = "n" -> "start"
    [] mode = "start" /\ c \in {" ", "t"} -> "start"
    [] mode = "start" /\ c = "#" -> "comment"
    [] OTHER -> mode

\* What a `liquid` body is at, after one more symbol: a line's indentation, a
\* statement, a comment line or a string, which runs over newlines.
NextMode(mode, c) ==
  CASE mode = "string" -> IF c = Quote THEN "code" ELSE "string"
    [] c = "n" -> "start"
    [] mode = "comment" -> "comment"
    [] mode = "start" /\ c \in {" ", "t"} -> "start"
    [] mode = "start" /\ c = "#" -> "comment"
    [] OTHER -> IF c = Quote THEN "string" ELSE "code"

\* find_liquid_tag_end
FindLiquidTagEnd(s, from) ==
  LET mode[i \in from .. Len(s)] ==
        IF i = from THEN "start" ELSE NextMode(mode[i - 1], At(s, i - 1))
  IN  FirstOf({i \in from .. Len(s) - 2 : Pair(s, i, <<"%", "}">>) /\ mode[i] # "string"})

TagBodyStart(s, from) == Skip(Blank, s, IF At(s, from) = "-" THEN from + 1 ELSE from)
IsInlineComment(s, from) == At(s, TagBodyStart(s, from)) = "#"

TagName(s, from) ==
  LET start == TagBodyStart(s, from) IN Slice(s, start, Skip(NameSymbols, s, start))

\* Slip: the first `endraw` written down ends a raw block, tag or not.
FirstEndraw(s, i) ==
  LET at == FirstOf({j \in i .. Len(s) - 1 : At(s, j) = "endraw"})
  IN  IF at = Missing THEN Len(s) ELSE at

\* The offset past the `endraw` tag at or after i, or the end of the source.
RECURSIVE EndOfRaw(_, _)
EndOfRaw(s, i) ==
  LET close == ScanTo(s, i + 2, <<"%", "}">>)
  IN  CASE i + 1 >= Len(s) -> Len(s)
        [] ~Pair(s, i, <<"{", "%">>) -> EndOfRaw(s, i + 1)
        [] Pair(s, i, <<"{", "%">>) /\ close = Missing -> EndOfRaw(s, i + 2)
        [] OTHER -> IF TagName(s, i + 2) = <<"endraw">> THEN close + 2
                    ELSE EndOfRaw(s, close + 2)

\* skip_raw_block
SkipRawBlock(s, from) ==
  LET close == ScanTo(s, from, <<"%", "}">>)
  IN  EndOfRaw(s, IF close = Missing THEN from ELSE close + 2)

-----------------------------------------------------------------------------
(* The rewritten text and its anchors *)

\* A text with the anchors recorded in it so far, each <<rewritten, source>>.
Nothing == [text |-> <<>>, anchors |-> <<>>]
Push(out, text) == [out EXCEPT !.text = @ \o text]
Record(out, at) == [out EXCEPT !.anchors = Append(@, <<Len(out.text), at>>)]

\* expand_echo: without an expression it outputs nothing.
ExpandEcho(expression, at, out) ==
  IF expression = <<>> THEN out
  ELSE Push(Record(Push(out, <<"{", "%", " ", "out", " ">>), at),
            expression \o <<" ", "%", "}">>)

\* Slip: an `echo` with nothing to echo is left as it is.
EchoNeedsArgument(statement) ==
  Len(statement) > 1 /\ Head(statement) = "echo" /\ statement[2] \in White

\* echo_argument: the statement echoes when a space or nothing follows the word.
IsEcho(statement) ==
  /\ statement # <<>> /\ Head(statement) = "echo"
  /\ Len(statement) > 1 => statement[2] \in White

\* Slip: a statement is anchored at its line, not at its first word.
AnchoredAtLine(line, at, out) ==
  LET statement == TrimBoth(White, line) IN
  CASE statement = <<>> \/ At(statement, 0) = "#" -> out
    [] IsEcho(statement) -> ExpandEcho(TrimStart(White, Tail(statement)), at, out)
    [] OTHER -> Push(Record(Push(out, <<"{", "%", " ">>), at), statement \o <<" ", "%", "}">>)

\* expand_statement: one line of a `liquid` body.
ExpandStatement(line, at, out) ==
  LET statement == TrimBoth(White, line)
      begins    == at + Skip(White, line, 0)
      argument  == TrimStart(White, Tail(statement))
  IN  CASE statement = <<>> \/ At(statement, 0) = "#" -> out
        [] IsEcho(statement) ->
             ExpandEcho(argument, begins + Len(statement) - Len(argument), out)
        [] OTHER ->
             Push(Record(Push(out, <<"{", "%", " ">>), begins), statement \o <<" ", "%", "}">>)

\* expand_statements: `body` begins at `at`; a line holds its newline.
RECURSIVE ExpandStatements(_, _, _)
ExpandStatements(body, at, out) ==
  LET newline == FirstOf({i \in 0 .. Len(body) - 1 : At(body, i) = "n"})
      stop    == IF newline = Missing THEN Len(body) ELSE newline + 1
  IN  IF body = <<>> THEN out
      ELSE ExpandStatements(Slice(body, stop, Len(body)), at + stop,
                            ExpandStatement(Slice(body, 0, stop), at, out))

\* Where the tag at i closes, as what it is has it.
CloseOf(s, i, name, start) ==
  CASE name = <<"liquid">> -> FindLiquidTagEnd(s, start)
    [] name = <<"echo">> -> ScanTo(s, start, <<"%", "}">>)
    [] OTHER -> FindTagEnd(s, i + 2)

\* What an expanded tag's body, from `start`, comes to: a comment's to nothing.
Expanded(s, name, start, stop, out) ==
  LET body == Slice(s, start, stop) IN
  CASE name = <<"liquid">> -> ExpandStatements(body, start, out)
    [] name = <<"echo">> ->
         ExpandEcho(TrimBoth(White, body), start + Skip(White, body, 0), out)
    [] OTHER -> out

\* An output statement whose inner part runs from `start` to `stop`.
OutputStatement(s, start, stop, dashOpen, dashClose, out) ==
  LET inner == Slice(s, start, stop) IN
  Push(Record(Push(out, (IF dashOpen THEN <<"{", "%", "-", " ">> ELSE <<"{", "%", " ">>)
                         \o <<"out", " ">>),
              start + Skip(Blank, inner, 0)),
       TrimBoth(Blank, inner)
         \o (IF dashClose THEN <<" ", "-", "%", "}">> ELSE <<" ", "%", "}">>))

\* The loop of rewrite_template_mapped at i, with `copied` the end of what `out`
\* already holds.
RECURSIVE Walk(_, _, _, _)
Walk(s, i, copied, out) ==
  LET name       == TagName(s, i + 2)
      start      == TagBodyStart(s, i + 2) + Len(name)
      expandable == IsInlineComment(s, i + 2) \/ name \in {<<"liquid">>, <<"echo">>}
      close      == CloseOf(s, i, name, start)
      dashOpen   == At(s, i + 2) = "-"
      dashClose  == At(s, close - 1) = "-"
      before     == Slice(s, copied, i)
      next       == IF dashClose THEN Skip(Blank, s, close + 2) ELSE close + 2
      tagEnd     == ScanTo(s, i + 2, <<"%", "}">>)
      innerStart == IF dashOpen THEN i + 3 ELSE i + 2
      outEnd     == ScanTo(s, innerStart, <<"}", "}">>)
      outDash    == outEnd > innerStart /\ At(s, outEnd - 1) = "-"
      innerEnd   == IF outDash THEN outEnd - 1 ELSE outEnd
      copiedOut  == Record(out, copied)
      finish     == IF copied = 0 THEN [text |-> s, anchors |-> <<>>]
                    ELSE Push(Record(out, copied), Slice(s, copied, Len(s)))
  IN  CASE i + 1 >= Len(s) -> finish
        [] Pair(s, i, <<"{", "%">>) ->
             CASE name = <<"raw">> -> Walk(s, SkipRawBlock(s, i + 2), copied, out)
               [] name # <<"raw">> /\ expandable ->
                    IF close = Missing THEN Walk(s, i + 2, copied, out)
                    ELSE Walk(s, next, next,
                              Expanded(s, name, start, IF dashClose THEN close - 1 ELSE close,
                                       Push(copiedOut, IF dashOpen THEN TrimEnd(Blank, before)
                                                       ELSE before)))
               [] OTHER -> Walk(s, IF tagEnd = Missing THEN i + 2 ELSE tagEnd + 2, copied, out)
        [] Pair(s, i, <<"{", "{">>) ->
             CASE outEnd = Missing -> finish
               [] outEnd # Missing /\ TrimBoth(Blank, Slice(s, innerStart, innerEnd)) = <<>> ->
                    Walk(s, outEnd + 2, copied, out)
               [] OTHER -> Walk(s, outEnd + 2, outEnd + 2,
                                OutputStatement(s, innerStart, innerEnd, dashOpen, outDash,
                                                Push(copiedOut, before)))
        [] OTHER -> Walk(s, i + 1, copied, out)

Rewrite(s) == Walk(s, 0, 0, Nothing)

\* Slip: an offset inside a replacement runs past the region it belongs to.
Unlimited(anchors, length, offset) ==
  LET governing == Quantify(1 .. Len(anchors), LAMBDA k : anchors[k][1] <= offset)
  IN  IF governing = 0 THEN Min({IF anchors = <<>> THEN offset ELSE anchors[1][2], length})
      ELSE Min({anchors[governing][2] + (offset - anchors[governing][1]), length})

\* Anchors::to_source
ToSource(anchors, length, offset) ==
  LET governing == Quantify(1 .. Len(anchors), LAMBDA k : anchors[k][1] <= offset)
      limit     == IF governing = Len(anchors) THEN length ELSE anchors[governing + 1][2]
  IN  IF governing = 0 THEN Min({IF anchors = <<>> THEN offset ELSE anchors[1][2], length})
      ELSE Min({anchors[governing][2] + (offset - anchors[governing][1]), limit})

-----------------------------------------------------------------------------
(* What liquid's own grammar reads in a text: the reference *)

Unparsable == <<[item |-> "error"]>>
Tag(inner) == [item |-> "tag", inner |-> inner]

\* A hyphen before the closing delimiter is whitespace control, never a name.
TagWord(s, start) ==
  LET stop == Skip(NameSymbols, s, start)
      word == Slice(s, start, stop)
  IN  IF word # <<>> /\ Last(word) = "-" /\ Pair(s, stop, <<"%", "}">>) THEN Front(word) ELSE word

\* Inside its delimiters a statement is words and strings.
Strings(inner) == {k \in 1 .. Len(inner) : QuotesIn(inner, 0, k - 1) % 2 = 1}
Sound(inner) ==
  /\ inner # <<>>
  /\ \A k \in 1 .. Len(inner) : inner[k] \in Words \cup {" ", "n", "-", Quote} \/ k \in Strings(inner)

\* The offset of the next `{% endraw %}`, Missing when there is none.
EndrawFrom(s, i) ==
  FirstOf({j \in i .. Len(s) - 2 :
             /\ Pair(s, j, <<"{", "%">>)
             /\ TagWord(s, TagBodyStart(s, j + 2)) = <<"endraw">>
             /\ ScanTo(s, j + 2, <<"%", "}">>) # Missing})

\* Items without the text that whitespace control takes.
WithoutBlankEnd(items) ==
  SubSeq(items, 1, Max({0} \cup {k \in 1 .. Len(items) :
                                   items[k] \notin {[item |-> "text", of |-> c] : c \in Blank}}))

\* The items of a text from i on, after those read so far.  Beside liquid's own,
\* a comment and an empty `echo` are nothing, and `echo` is an output statement.
RECURSIVE Lex(_, _, _)
Lex(s, i, items) ==
  LET start   == TagBodyStart(s, i + 2)
      isTag   == Pair(s, i, <<"{", "%">>)
      comment == isTag /\ At(s, start) = "#"
      close   == CASE comment -> FindTagEnd(s, start)
                   [] isTag /\ ~comment -> ScanTo(s, start, <<"%", "}">>)
                   [] OTHER -> ScanTo(s, start, <<"}", "}">>)
      dashEnd == close > start /\ At(s, close - 1) = "-"
      inner   == TrimBoth(Blank, Slice(s, start, IF dashEnd THEN close - 1 ELSE close))
      before  == IF At(s, i + 2) = "-" THEN WithoutBlankEnd(items) ELSE items
      next    == IF dashEnd THEN Skip(Blank, s, close + 2) ELSE close + 2
      word    == TagWord(s, start)
      endraw  == EndrawFrom(s, next)
      echoed  == TrimStart(White, Tail(inner))
      Then(at, item) == Lex(s, at, Append(before, item))
  IN  CASE i >= Len(s) -> items
        [] i < Len(s) /\ ~isTag /\ ~Pair(s, i, <<"{", "{">>) ->
             Lex(s, i + 1, Append(items, [item |-> "text", of |-> At(s, i)]))
        [] OTHER ->
             CASE close = Missing -> Unparsable
               [] close # Missing /\ comment -> Then(next, [item |-> "nothing"])
               [] close # Missing /\ ~comment /\ ~Sound(inner) -> Unparsable
               [] OTHER ->
                    CASE ~isTag -> Then(next, Tag(<<"out", " ">> \o inner))
                      [] isTag /\ word = <<"raw">> ->
                           IF endraw = Missing THEN Unparsable
                           ELSE Then(ScanTo(s, endraw + 2, <<"%", "}">>) + 2,
                                     [item |-> "raw", body |-> Slice(s, next, endraw)])
                      [] isTag /\ word = <<"echo">> ->
                           Then(next, IF echoed = <<>> THEN [item |-> "nothing"]
                                      ELSE Tag(<<"out", " ">> \o echoed))
                      [] OTHER -> Then(next, Tag(inner))

HasGaps(s) == [item |-> "nothing"] \in Range(Lex(s, 0, <<>>))
Items(s) == SelectSeq(Lex(s, 0, <<>>), LAMBDA it : it.item # "nothing")

\* The same without white text, which a tag that is gone no longer keeps from the
\* whitespace control of the tag before it.
Solid(items) == SelectSeq(items, LAMBDA it : it.item = "text" => it.of \notin White)

HasComment(s) == \E i \in 0 .. Len(s) - 2 : Pair(s, i, <<"{", "%">>) /\ IsInlineComment(s, i + 2)

\* Where the scanner and the grammar part: a name ending in the hyphen of its
\* tag, `%}` inside an output statement, and a brace that a comment's whitespace
\* control moves next to another.
HyphenedName(s) ==
  \E i \in 0 .. Len(s) - 2 : At(s, i) \in {"raw", "endraw", "echo", "liquid"} /\ At(s, i + 1) = "-"
TagEndInOutput(s) ==
  \E i, j \in 0 .. Len(s) - 2 :
     /\ i < j /\ Pair(s, i, <<"{", "{">>) /\ Pair(s, j, <<"%", "}">>)
     /\ ScanTo(s, i + 2, <<"}", "}">>) > j
BraceBeforeComment(s) ==
  \E i \in 0 .. Len(s) - 4 :
     LET next == Skip(Blank, s, i + 1)
     IN  At(s, i) = "{" /\ Pair(s, next, <<"{", "%">>) /\ IsInlineComment(s, next + 2)
=============================================================================
