------------------------------ MODULE Documents ------------------------------
(***************************************************************************)
(* An open buffer of the language server (src/src/lsp/documents.rs).  The  *)
(* protocol counts lines and UTF-16 units, the server offsets into a text. *)
(* A text is a sequence of characters and an offset the number of          *)
(* characters before it: the byte offsets the server makes all fall        *)
(* between two characters.                                                 *)
(***************************************************************************)
EXTENDS Integers, Sequences, FiniteSets

CONSTANTS Characters,
          Wide,      \* those of two UTF-16 units; the others have one
          NewLine

ASSUME CharactersAssumption == Wide \subseteq Characters /\ NewLine \in Characters \ Wide

Texts == Seq(Characters)

\* encode_utf16().count() of what lies between two offsets.
Units(text, from, to) ==
    (to - from) + Cardinality({i \in from + 1 .. to : text[i] \in Wide})

\* LineIndex::new: a line starts after each newline.
LineStarts(text) == {0} \cup {i \in 1 .. Len(text) : text[i] = NewLine}

LineOf(text, start) == Cardinality({s \in LineStarts(text) : s < start})

\* LineIndex::line_at: the last start that is not beyond the offset.
StartBefore(text, offset) ==
    CHOOSE s \in LineStarts(text) :
        s <= offset /\ \A t \in LineStarts(text) : t <= offset => t <= s

\* LineIndex::position; past the end it is the end of the text.
PositionAt(text, offset) ==
    LET at    == IF offset > Len(text) THEN Len(text) ELSE offset
        start == StartBefore(text, at)
    IN  [line |-> LineOf(text, start), unit |-> Units(text, start, at)]

\* LineIndex::line_end: the newline belongs to its line.
LineEnd(text, start) ==
    LET later == {s \in LineStarts(text) : s > start}
    IN  IF later = {} THEN Len(text) ELSE CHOOSE s \in later : \A t \in later : s <= t

\* The first character of a line at or past a unit, or the end of the line.
OffsetIn(text, start, unit) ==
    LET reached == {at \in start .. LineEnd(text, start) - 1 : Units(text, start, at) >= unit}
    IN  IF reached = {} THEN LineEnd(text, start)
        ELSE CHOOSE at \in reached : \A other \in reached : at <= other

SlipCharacterOffset(text, p) ==
    IF p.line >= Cardinality(LineStarts(text)) THEN Len(text)
    ELSE LET start == CHOOSE s \in LineStarts(text) : LineOf(text, s) = p.line
         IN  IF start + p.unit > LineEnd(text, start) THEN LineEnd(text, start) ELSE start + p.unit

\* LineIndex::offset; past the last line it is the end of the text.
OffsetAt(text, p) ==
    IF p.line >= Cardinality(LineStarts(text)) THEN Len(text)
    ELSE OffsetIn(text, CHOOSE s \in LineStarts(text) : LineOf(text, s) = p.line, p.unit)

\* The place of an offset as the protocol defines it, and clients count it.
Cursor(text, offset) ==
    LET breaks == {i \in 1 .. offset : text[i] = NewLine}
        line   == {i \in 1 .. offset : \A b \in breaks : b < i}
    IN  [line |-> Cardinality(breaks),
         unit |-> Cardinality(line) + Cardinality({i \in line : text[i] \in Wide})]

Spliced(text, from, to, new) == SubSeq(text, 1, from) \o new \o SubSeq(text, to + 1, Len(text))

\* Document::apply: a change without a range is the whole text.
Applied(text, change) ==
    IF change.whole THEN change.text
    ELSE LET from == OffsetAt(text, change.from)
             to   == OffsetAt(text, change.to)
         IN  Spliced(text, from, IF to < from THEN from ELSE to, change.text)

\* Documents::change: one after the other.
After(text, changes) ==
    LET upTo[i \in 0 .. Len(changes)] ==
            IF i = 0 THEN text ELSE Applied(upTo[i - 1], changes[i])
    IN  upTo[Len(changes)]
=============================================================================
