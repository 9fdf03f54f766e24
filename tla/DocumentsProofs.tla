--------------------------- MODULE DocumentsProofs ---------------------------
(* Theorems about Documents, for texts of any length and any characters.     *)
EXTENDS Documents, FiniteSetTheorems, WellFoundedInduction, TLAPS

\* Among naturals there is a smallest one.
LEMMA Smallest ==
  ASSUME NEW S \in SUBSET Nat, S # {}
  PROVE  \E m \in S : \A n \in S : m <= n
<1>1. PICK m \in S : \A n \in S : ~(<<n, m>> \in OpToRel(<, Nat))
  BY NatLessThanWellFounded, WFMin
<1>2. \A n \in S : ~(n < m)
  <2> SUFFICES ASSUME NEW n \in S, n < m PROVE FALSE
    OBVIOUS
  <2>1. <<n, m>> \in Nat \X Nat
    BY <1>1
  <2>2. <<n, m>> \in OpToRel(<, Nat)
    BY <2>1 DEF OpToRel
  <2> QED BY <1>1, <2>2
<1>3. ASSUME NEW n \in S PROVE m <= n
  <2>1. n \in Nat /\ m \in Nat
    OBVIOUS
  <2> QED BY <1>2, <2>1
<1> QED BY <1>3

\* And among those up to a bound, a largest.
LEMMA Largest ==
  ASSUME NEW S \in SUBSET Nat, S # {}, NEW b \in Nat, \A s \in S : s <= b
  PROVE  \E m \in S : \A n \in S : n <= m
<1> DEFINE T == {b - s : s \in S}
<1>1. T \in SUBSET Nat /\ T # {}
  OBVIOUS
<1>2. PICK k \in T : \A n \in T : k <= n
  BY <1>1, Smallest
<1>3. PICK m \in S : k = b - m
  BY <1>2
<1>4. \A n \in S : n <= m
  <2> SUFFICES ASSUME NEW n \in S PROVE n <= m
    OBVIOUS
  <2>1. b - n \in T
    OBVIOUS
  <2> QED BY <1>2, <1>3, <2>1
<1> QED BY <1>4

-----------------------------------------------------------------------------
(* Lines.                                                                    *)

LEMMA LineStartsAreOffsets ==
  ASSUME NEW text \in Texts
  PROVE  /\ LineStarts(text) \in SUBSET (0 .. Len(text))
         /\ LineStarts(text) \in SUBSET Nat
         /\ 0 \in LineStarts(text)
         /\ IsFiniteSet(LineStarts(text))
         /\ Cardinality(LineStarts(text)) \in Nat
<1>1. Len(text) \in Nat
  BY DEF Texts
<1>2. LineStarts(text) \in SUBSET (0 .. Len(text)) /\ 0 \in LineStarts(text)
  BY <1>1 DEF LineStarts
<1>3. IsFiniteSet(0 .. Len(text))
  BY <1>1, FS_Interval
<1>4. IsFiniteSet(LineStarts(text))
  BY <1>2, <1>3, FS_Subset
<1> QED BY <1>1, <1>2, <1>4, FS_CardinalityType

\* The line of an offset starts at the last start that is not beyond it.
LEMMA StartBeforeIsLast ==
  ASSUME NEW text \in Texts, NEW offset \in 0 .. Len(text)
  PROVE  /\ StartBefore(text, offset) \in LineStarts(text)
         /\ StartBefore(text, offset) \in 0 .. offset
         /\ \A t \in LineStarts(text) : t <= offset => t <= StartBefore(text, offset)
<1> DEFINE S == {s \in LineStarts(text) : s <= offset}
<1>1. S \in SUBSET Nat /\ S # {} /\ \A s \in S : s <= offset
  BY LineStartsAreOffsets DEF Texts
<1>2. offset \in Nat
  BY DEF Texts
<1>3. \E m \in S : \A n \in S : n <= m
  BY <1>1, <1>2, Largest
<1>4. \E s \in LineStarts(text) : s <= offset /\ \A t \in LineStarts(text) : t <= offset => t <= s
  BY <1>3
<1> QED BY <1>1, <1>4 DEF StartBefore

\* Lines are numbered in the order of their starts, so that a number has one.
LEMMA LinesAreNumbered ==
  ASSUME NEW text \in Texts, NEW s \in LineStarts(text)
  PROVE  /\ LineOf(text, s) \in Nat
         /\ LineOf(text, s) < Cardinality(LineStarts(text))
         /\ \A t \in LineStarts(text) : LineOf(text, t) = LineOf(text, s) => t = s
<1> DEFINE Earlier(x) == {t \in LineStarts(text) : t < x}
<1>1. \A x : IsFiniteSet(Earlier(x)) /\ Cardinality(Earlier(x)) \in Nat
  BY LineStartsAreOffsets, FS_Subset, FS_CardinalityType
<1>2. LineOf(text, s) < Cardinality(LineStarts(text))
  <2>1. Earlier(s) \in SUBSET LineStarts(text) /\ s \notin Earlier(s)
    BY LineStartsAreOffsets
  <2>2. /\ Cardinality(Earlier(s)) <= Cardinality(LineStarts(text))
        /\ Cardinality(LineStarts(text)) = Cardinality(Earlier(s)) => LineStarts(text) = Earlier(s)
    BY <2>1, LineStartsAreOffsets, FS_Subset
  <2>3. Cardinality(LineStarts(text)) # Cardinality(Earlier(s))
    BY <2>1, <2>2
  <2>4. Cardinality(LineStarts(text)) \in Nat /\ Cardinality(Earlier(s)) \in Nat
    BY <1>1, LineStartsAreOffsets
  <2>5. LineOf(text, s) = Cardinality(Earlier(s))
    BY DEF LineOf
  <2> HIDE DEF Earlier
  <2> QED BY <2>2, <2>3, <2>4, <2>5
<1>3. ASSUME NEW x \in LineStarts(text), NEW y \in LineStarts(text), x < y
      PROVE  LineOf(text, x) < LineOf(text, y)
  <2>1. Earlier(x) \in SUBSET Earlier(y) /\ x \in Earlier(y) /\ x \notin Earlier(x)
    BY <1>3, LineStartsAreOffsets
  <2>2. /\ Cardinality(Earlier(x)) <= Cardinality(Earlier(y))
        /\ Cardinality(Earlier(y)) = Cardinality(Earlier(x)) => Earlier(y) = Earlier(x)
    BY <1>1, <2>1, FS_Subset
  <2> QED BY <1>1, <2>1, <2>2 DEF LineOf
<1>4. ASSUME NEW t \in LineStarts(text), LineOf(text, t) = LineOf(text, s) PROVE t = s
  <2>1. t \in Nat /\ s \in Nat
    BY LineStartsAreOffsets
  <2>2. LineOf(text, t) \in Nat /\ LineOf(text, s) \in Nat
    BY <1>1 DEF LineOf
  <2>3. ~(t < s) /\ ~(s < t)
    BY <1>3, <1>4, <2>2
  <2> QED BY <2>1, <2>3
<1> QED BY <1>1, <1>2, <1>4 DEF LineOf

\* A later character of a line is more units into it.
LEMMA UnitsGrow ==
  ASSUME NEW text \in Texts, NEW start \in Nat, NEW a \in Nat, NEW b \in Nat,
         start <= a, a < b
  PROVE  /\ Units(text, start, a) \in Nat
         /\ Units(text, start, b) \in Nat
         /\ Units(text, start, a) < Units(text, start, b)
<1> DEFINE WideIn(to) == {i \in start + 1 .. to : text[i] \in Wide}
<1>1. ASSUME NEW to \in Nat PROVE IsFiniteSet(WideIn(to)) /\ Cardinality(WideIn(to)) \in Nat
  <2>1. IsFiniteSet(start + 1 .. to)
    BY FS_Interval
  <2>2. WideIn(to) \in SUBSET (start + 1 .. to)
    OBVIOUS
  <2>3. IsFiniteSet(WideIn(to))
    BY <2>1, <2>2, FS_Subset
  <2> QED BY <2>3, FS_CardinalityType
<1>2. WideIn(a) \in SUBSET WideIn(b)
  OBVIOUS
<1>3. Cardinality(WideIn(a)) <= Cardinality(WideIn(b))
  BY <1>1, <1>2, FS_Subset
<1>4. Cardinality(WideIn(a)) \in Nat /\ Cardinality(WideIn(b)) \in Nat
  BY <1>1
<1> HIDE DEF WideIn
<1>5. /\ Units(text, start, a) = (a - start) + Cardinality(WideIn(a))
      /\ Units(text, start, b) = (b - start) + Cardinality(WideIn(b))
  BY DEF Units, WideIn
<1> QED BY <1>3, <1>4, <1>5

-----------------------------------------------------------------------------
(* Positions.                                                                *)

\* LineIndex::offset undoes LineIndex::position: a place the server reports is
\* found again, in whatever line and after whatever characters.
THEOREM PositionIsFoundAgain ==
  ASSUME NEW text \in Texts, NEW i \in 0 .. Len(text)
  PROVE  OffsetAt(text, PositionAt(text, i)) = i
<1> DEFINE start == StartBefore(text, i)
           p     == PositionAt(text, i)
           later == {s \in LineStarts(text) : s > start}
           end   == LineEnd(text, start)
<1>1. /\ Len(text) \in Nat /\ i \in Nat /\ i <= Len(text)
      /\ start \in LineStarts(text) /\ start \in Nat /\ start <= i
      /\ \A t \in LineStarts(text) : t <= i => t <= start
  BY StartBeforeIsLast DEF Texts
<1>2. p.line = LineOf(text, start) /\ p.unit = Units(text, start, i)
  BY <1>1 DEF PositionAt
<1>3. ~(p.line >= Cardinality(LineStarts(text)))
  BY <1>1, <1>2, LinesAreNumbered, LineStartsAreOffsets
<1>4. (CHOOSE s \in LineStarts(text) : LineOf(text, s) = p.line) = start
  BY <1>1, <1>2, LinesAreNumbered
<1>5. end \in Nat /\ (end = Len(text) \/ i < end) /\ i <= end
  <2>1. CASE later = {}
    BY <1>1, <2>1 DEF LineEnd
  <2>2. CASE later # {}
    <3>1. later \in SUBSET Nat
      BY LineStartsAreOffsets
    <3>2. \E s \in later : \A t \in later : s <= t
      BY <2>2, <3>1, Smallest
    <3>3. end \in later
      BY <2>2, <3>2 DEF LineEnd
    <3> QED BY <1>1, <3>1, <3>3
  <2> QED BY <2>1, <2>2
<1> HIDE DEF start, p, later, end
<1> DEFINE reached == {at \in start .. end - 1 : Units(text, start, at) >= p.unit}
<1>6. \A at \in start .. end - 1 : Units(text, start, at) >= p.unit <=> at >= i
  <2> SUFFICES ASSUME NEW at \in start .. end - 1
               PROVE  Units(text, start, at) >= p.unit <=> at >= i
    OBVIOUS
  <2>1. at \in Nat /\ start <= at
    BY <1>1, <1>5
  <2>2. CASE at < i
    BY <1>1, <1>2, <2>1, <2>2, UnitsGrow
  <2>3. CASE i < at
    BY <1>1, <1>2, <2>1, <2>3, UnitsGrow
  <2>4. CASE at = i
    <3>1. Units(text, start, i) \in Nat
      BY <1>1, UnitsGrow, i + 1 \in Nat, i < i + 1
    <3> QED BY <1>1, <1>2, <2>4, <3>1
  <2> QED BY <1>1, <2>1, <2>2, <2>3, <2>4
<1>7. reached = {at \in start .. end - 1 : at >= i}
  BY <1>6
<1>8. OffsetAt(text, p) =
        IF reached = {} THEN end ELSE CHOOSE at \in reached : \A other \in reached : at <= other
  <2>1. OffsetAt(text, p) = OffsetIn(text, start, p.unit)
    BY <1>3, <1>4 DEF OffsetAt
  <2> QED BY <2>1 DEF OffsetIn, end
<1>9. CASE i < end
  <2>1. i \in reached /\ \A other \in reached : i <= other
    BY <1>1, <1>5, <1>7, <1>9
  <2>2. \A at \in reached : (\A other \in reached : at <= other) => at = i
    BY <1>1, <1>5, <1>7, <2>1
  <2> HIDE DEF reached
  <2>3. (CHOOSE at \in reached : \A other \in reached : at <= other) = i
    BY <2>1, <2>2
  <2> QED BY <1>8, <2>1, <2>3 DEF p
<1>10. CASE i = end
  <2>1. reached = {}
    BY <1>1, <1>5, <1>7, <1>10
  <2> QED BY <1>8, <1>10, <2>1 DEF p
<1> QED BY <1>1, <1>5, <1>9, <1>10

\* The server counts lines and units as the protocol does.
LEMMA PositionIsTheProtocols ==
  ASSUME NEW text \in Texts, NEW i \in 0 .. Len(text)
  PROVE  PositionAt(text, i) = Cursor(text, i)
<1> DEFINE start  == StartBefore(text, i)
           breaks == {j \in 1 .. i : text[j] = NewLine}
           line   == {j \in 1 .. i : \A b \in breaks : b < j}
           before == {s \in LineStarts(text) : s < start}
<1>1. /\ Len(text) \in Nat /\ i \in Nat /\ i <= Len(text)
      /\ start \in LineStarts(text) /\ start \in Nat /\ start <= i
      /\ \A t \in LineStarts(text) : t <= i => t <= start
  BY StartBeforeIsLast DEF Texts
<1>2. \A j : j \in breaks <=> j \in LineStarts(text) /\ 0 < j /\ j <= i
  BY <1>1, LineStartsAreOffsets DEF LineStarts
<1>3. IsFiniteSet(breaks) /\ Cardinality(breaks) \in Nat
  <2>1. IsFiniteSet(1 .. i) /\ breaks \in SUBSET (1 .. i)
    BY <1>1, FS_Interval
  <2>2. IsFiniteSet(breaks)
    BY <2>1, FS_Subset
  <2> QED BY <2>2, FS_CardinalityType
<1> HIDE DEF start, breaks
<1>4. Cardinality(before) = Cardinality(breaks)
  <2>1. CASE start = 0
    <3>1. before = {}
      BY <2>1, LineStartsAreOffsets
    <3>2. breaks = {}
      BY <1>1, <1>2, <2>1, LineStartsAreOffsets
    <3> QED BY <3>1, <3>2
  <2>2. CASE start # 0
    <3>1. start \in breaks /\ 0 \notin breaks
      BY <1>1, <1>2, <2>2
    <3>2. before = (breaks \cup {0}) \ {start}
      BY <1>1, <1>2, <2>2, LineStartsAreOffsets
    <3>3. IsFiniteSet(breaks \cup {0}) /\ Cardinality(breaks \cup {0}) = Cardinality(breaks) + 1
      BY <1>3, <3>1, FS_AddElement
    <3>4. start \in breaks \cup {0}
      BY <3>1
    <3>5. Cardinality((breaks \cup {0}) \ {start}) = Cardinality(breaks \cup {0}) - 1
      BY <3>3, <3>4, FS_RemoveElement
    <3> QED BY <1>3, <3>2, <3>3, <3>5
  <2> QED BY <2>1, <2>2
<1>5. line = start + 1 .. i
  <2>1. \A j \in 1 .. i : (\A b \in breaks : b < j) => start < j
    BY <1>1, <1>2
  <2>2. \A j \in 1 .. i : start < j => \A b \in breaks : b < j
    BY <1>1, <1>2, LineStartsAreOffsets
  <2> QED BY <1>1, <2>1, <2>2
<1>6. Cardinality(line) = i - start
  <2>1. Cardinality(start + 1 .. i) = IF start + 1 > i THEN 0 ELSE i - (start + 1) + 1
    BY <1>1, FS_Interval
  <2>2. Cardinality(start + 1 .. i) = i - start
    BY <1>1, <2>1
  <2> QED BY <1>5, <2>2
<1>7. PositionAt(text, i) = [line |-> Cardinality(before), unit |-> Units(text, start, i)]
  <2>1. PositionAt(text, i) = [line |-> LineOf(text, start), unit |-> Units(text, start, i)]
    BY <1>1 DEF PositionAt, start
  <2>2. LineOf(text, start) = Cardinality(before)
    BY DEF LineOf
  <2> HIDE DEF before
  <2> QED BY <2>1, <2>2
<1>8. Units(text, start, i) = Cardinality(line) + Cardinality({j \in line : text[j] \in Wide})
  BY <1>5, <1>6 DEF Units
<1>9. Cursor(text, i) = [line |-> Cardinality(breaks),
                         unit |-> Cardinality(line) + Cardinality({j \in line : text[j] \in Wide})]
  BY DEF Cursor, breaks
<1> QED BY <1>4, <1>7, <1>8, <1>9

\* An edit lands where it was made: what the server makes of the positions a
\* client sends for two offsets is the text the client has.
THEOREM EditsLandWhereTheyWereMade ==
  ASSUME NEW text \in Texts, NEW from \in 0 .. Len(text), NEW to \in from .. Len(text), NEW new
  PROVE  Applied(text, [whole |-> FALSE, from |-> Cursor(text, from),
                        to |-> Cursor(text, to), text |-> new])
           = Spliced(text, from, to, new)
<1>1. Len(text) \in Nat /\ to \in 0 .. Len(text) /\ from <= to /\ from \in Nat /\ to \in Nat
  BY DEF Texts
<1>2. OffsetAt(text, Cursor(text, from)) = from /\ OffsetAt(text, Cursor(text, to)) = to
  BY <1>1, PositionIsFoundAgain, PositionIsTheProtocols
<1> QED BY <1>1, <1>2 DEF Applied

-----------------------------------------------------------------------------
(* Changes.                                                                  *)

Positions      == [line : Nat, unit : Nat]
ContentChanges == [whole : {TRUE}, text : Texts]
                     \cup [whole : {FALSE}, from : Positions, to : Positions, text : Texts]

\* A line that is there is the line of one start.
LEMMA LinesHaveStarts ==
  ASSUME NEW text \in Texts, NEW s \in LineStarts(text)
  PROVE  LineEnd(text, s) \in s .. Len(text)
<1> DEFINE later == {t \in LineStarts(text) : t > s}
<1>1. LineStarts(text) \in SUBSET (0 .. Len(text)) /\ s \in 0 .. Len(text) /\ Len(text) \in Nat
  BY LineStartsAreOffsets DEF Texts
<1>2. CASE later = {}
  BY <1>1, <1>2 DEF LineEnd
<1>3. CASE later # {}
  <2>1. later \in SUBSET Nat
    BY <1>1
  <2>2. \E t \in later : \A u \in later : t <= u
    BY <1>3, <2>1, Smallest
  <2>3. LineEnd(text, s) \in later
    BY <1>3, <2>2 DEF LineEnd
  <2> QED BY <1>1, <2>3
<1> QED BY <1>2, <1>3

\* A number below that of the lines is the number of a line.
LEMMA EveryLineStarts ==
  ASSUME NEW text \in Texts, NEW n \in Nat, n < Cardinality(LineStarts(text))
  PROVE  \E s \in LineStarts(text) : LineOf(text, s) = n
<1> DEFINE S == LineStarts(text)
           c == Cardinality(S)
           T == 0 .. c - 1
           f == [s \in S |-> LineOf(text, s)]
<1>1. IsFiniteSet(S) /\ c \in Nat
  BY LineStartsAreOffsets
<1>2. IsFiniteSet(T) /\ Cardinality(T) = c
  <2>1. 0 \in Int /\ c - 1 \in Int
    BY <1>1
  <2>2. IsFiniteSet(T) /\ Cardinality(T) = IF 0 > c - 1 THEN 0 ELSE c - 1 - 0 + 1
    BY <2>1, FS_Interval
  <2> QED BY <1>1, <2>2
<1>3. \A s \in S : LineOf(text, s) \in T /\ \A t \in S : LineOf(text, t) = LineOf(text, s) => t = s
  BY <1>1, LinesAreNumbered
<1> HIDE DEF S, c
<1>4. f \in Injection(S, T)
  BY <1>3 DEF Injection, IsInjective
<1> HIDE DEF f, T
<1>5. f \in Surjection(S, T)
  <2>1. Cardinality(S) = Cardinality(T)
    BY <1>2 DEF c
  <2> QED BY <1>1, <1>2, <1>4, <2>1, FS_Injection
<1>6. n \in T
  BY <1>1 DEF c, S, T
<1>7. \E s \in S : f[s] = n
  BY <1>5, <1>6 DEF Surjection
<1> QED BY <1>7 DEF f, S

\* Whatever position a client sends, also one past its line's end or past the
\* last line, it is an offset of the text (documents.rs:50-51).
THEOREM PositionsAreClamped ==
  ASSUME NEW text \in Texts, NEW p \in Positions
  PROVE  OffsetAt(text, p) \in 0 .. Len(text)
<1>1. Len(text) \in Nat
  BY DEF Texts
<1>2. CASE p.line >= Cardinality(LineStarts(text))
  BY <1>1, <1>2 DEF OffsetAt
<1>3. CASE ~(p.line >= Cardinality(LineStarts(text)))
  <2> DEFINE start   == CHOOSE s \in LineStarts(text) : LineOf(text, s) = p.line
             reached == {at \in start .. LineEnd(text, start) - 1 : Units(text, start, at) >= p.unit}
  <2>1. OffsetAt(text, p) = IF reached = {} THEN LineEnd(text, start)
                            ELSE CHOOSE at \in reached : \A other \in reached : at <= other
    BY <1>3 DEF OffsetAt, OffsetIn
  <2>2. start \in LineStarts(text)
    <3>1. p.line \in Nat
      BY DEF Positions
    <3>2. p.line < Cardinality(LineStarts(text))
      BY <1>3, <3>1, LineStartsAreOffsets
    <3>3. \E s \in LineStarts(text) : LineOf(text, s) = p.line
      BY <3>1, <3>2, EveryLineStarts
    <3> QED BY <3>3
  <2>3. start \in 0 .. Len(text) /\ LineEnd(text, start) \in start .. Len(text)
    BY <2>2, LinesHaveStarts, LineStartsAreOffsets
  <2> HIDE DEF start
  <2>4. CASE reached = {}
    BY <1>1, <2>1, <2>3, <2>4
  <2>5. CASE reached # {}
    <3>1. reached \in SUBSET Nat /\ reached \in SUBSET (0 .. Len(text))
      BY <1>1, <2>3
    <3>2. \E at \in reached : \A other \in reached : at <= other
      BY <2>5, <3>1, Smallest
    <3> HIDE DEF reached
    <3>3. OffsetAt(text, p) \in reached
      BY <2>1, <2>5, <3>2
    <3> QED BY <3>1, <3>3
  <2> QED BY <2>4, <2>5
<1> QED BY <1>2, <1>3

LEMMA SplicedIsText ==
  ASSUME NEW text \in Texts, NEW from \in 0 .. Len(text), NEW to \in from .. Len(text),
         NEW new \in Texts
  PROVE  Spliced(text, from, to, new) \in Texts
<1>1. Len(text) \in Nat /\ from \in Nat /\ to \in Nat /\ to <= Len(text)
  BY DEF Texts
<1>2. SubSeq(text, 1, from) \in Texts
  BY <1>1 DEF Texts
<1>3. SubSeq(text, to + 1, Len(text)) \in Texts
  BY <1>1 DEF Texts
<1> QED BY <1>2, <1>3 DEF Spliced, Texts

LEMMA AppliedIsText ==
  ASSUME NEW text \in Texts, NEW change \in ContentChanges
  PROVE  Applied(text, change) \in Texts
<1>1. CASE change.whole
  BY <1>1 DEF Applied, ContentChanges
<1>2. CASE ~change.whole
  <2> DEFINE from == OffsetAt(text, change.from)
             to   == OffsetAt(text, change.to)
             end  == IF to < from THEN from ELSE to
  <2>1. change.from \in Positions /\ change.to \in Positions /\ change.text \in Texts
    BY <1>2 DEF ContentChanges
  <2>2. from \in 0 .. Len(text) /\ to \in 0 .. Len(text) /\ Len(text) \in Nat
    BY <2>1, PositionsAreClamped DEF Texts
  <2> HIDE DEF from, to
  <2>3. end \in from .. Len(text)
    BY <2>2
  <2>4. Spliced(text, from, end, change.text) \in Texts
    BY <2>1, <2>2, <2>3, SplicedIsText
  <2> QED BY <1>2, <2>4 DEF Applied, from, to
<1> QED BY <1>1, <1>2

\* What a text becomes is told step by step.
AppliesTo(g, text, changes) ==
  /\ g[0] = text
  /\ \A i \in 1 .. Len(changes) : g[i] = Applied(g[i - 1], changes[i])

LEMMA StepsExist ==
  ASSUME NEW text, NEW S, NEW changes \in Seq(S)
  PROVE  \E g : /\ DOMAIN g = 0 .. Len(changes)
                /\ AppliesTo(g, text, changes)
<1> DEFINE Told(n, g) == /\ DOMAIN g = 0 .. n
                         /\ g[0] = text
                         /\ \A i \in 1 .. n : g[i] = Applied(g[i - 1], changes[i])
           Bad == {n \in 0 .. Len(changes) : \A g : ~Told(n, g)}
<1>1. Len(changes) \in Nat
  OBVIOUS
<1>2. ASSUME Bad # {} PROVE FALSE
  <2>1. Bad \in SUBSET Nat
    BY <1>1
  <2>2. PICK m \in Bad : \A n \in Bad : m <= n
    BY <1>2, <2>1, Smallest
  <2>3. m \in 0 .. Len(changes) /\ \A g : ~Told(m, g)
    BY <2>2
  <2>4. m # 0
    <3>1. Told(0, [i \in 0 .. 0 |-> text])
      OBVIOUS
    <3> QED BY <2>3, <3>1
  <2>5. m - 1 \in 0 .. Len(changes) /\ m - 1 \notin Bad
    BY <1>1, <2>2, <2>3, <2>4
  <2>6. PICK g : Told(m - 1, g)
    BY <2>5
  <2> DEFINE h == [i \in 0 .. m |-> IF i = m THEN Applied(g[m - 1], changes[m]) ELSE g[i]]
  <2>7. Told(m, h)
    <3>1. DOMAIN h = 0 .. m /\ h[0] = text
      BY <2>3, <2>4, <2>6
    <3>2. ASSUME NEW i \in 1 .. m PROVE h[i] = Applied(h[i - 1], changes[i])
      <4>1. CASE i = m
        BY <2>3, <2>4, <4>1
      <4>2. CASE i # m
        <5>1. i \in 1 .. m - 1 /\ i \in 0 .. m /\ i - 1 \in 0 .. m /\ i - 1 # m
          BY <2>3, <4>2
        <5>2. h[i] = g[i] /\ h[i - 1] = g[i - 1]
          BY <4>2, <5>1
        <5>3. g[i] = Applied(g[i - 1], changes[i])
          BY <2>6, <5>1
        <5> QED BY <5>2, <5>3
      <4> QED BY <4>1, <4>2
    <3> HIDE DEF h
    <3> QED BY <3>1, <3>2
  <2> QED BY <2>3, <2>7
<1>3. Len(changes) \notin Bad
  BY <1>2
<1>4. PICK g : Told(Len(changes), g)
  BY <1>1, <1>3
<1> QED BY <1>4 DEF AppliesTo

\* However its steps are told, they end in what the text becomes.
LEMMA AfterIsTheLastStep ==
  ASSUME NEW text, NEW S, NEW changes \in Seq(S), NEW g, AppliesTo(g, text, changes)
  PROVE  After(text, changes) = g[Len(changes)]
<1> DEFINE dom == 0 .. Len(changes)
           Rule(f) == f = [i \in dom |-> IF i = 0 THEN text ELSE Applied(f[i - 1], changes[i])]
           upTo == CHOOSE f : Rule(f)
<1>1. Len(changes) \in Nat
  OBVIOUS
<1>2. \E f : Rule(f)
  <2> DEFINE f == [i \in dom |-> g[i]]
  <2>1. ASSUME NEW i \in dom PROVE f[i] = IF i = 0 THEN text ELSE Applied(f[i - 1], changes[i])
    <3>1. CASE i = 0
      BY <3>1 DEF AppliesTo
    <3>2. CASE i # 0
      <4>1. i \in 1 .. Len(changes) /\ i - 1 \in dom
        BY <1>1, <3>2
      <4> QED BY <3>2, <4>1 DEF AppliesTo
    <3> QED BY <3>1, <3>2
  <2>2. f = [i \in dom |-> f[i]]
    OBVIOUS
  <2> HIDE DEF f
  <2>3. Rule(f)
    BY <2>1, <2>2
  <2> QED BY <2>3
<1>3. Rule(upTo)
  BY <1>2
<1> HIDE DEF upTo
<1> DEFINE Bad == {i \in dom : upTo[i] # g[i]}
<1>4. ASSUME Bad # {} PROVE FALSE
  <2>1. Bad \in SUBSET Nat
    BY <1>1
  <2>2. PICK m \in Bad : \A n \in Bad : m <= n
    BY <1>4, <2>1, Smallest
  <2>3. m \in dom /\ upTo[m] # g[m]
    BY <2>2
  <2>4. m # 0
    BY <1>3, <2>3 DEF AppliesTo
  <2>5. m - 1 \in dom /\ m \in 1 .. Len(changes) /\ ~(m <= m - 1)
    BY <1>1, <2>3, <2>4
  <2>6. upTo[m - 1] = g[m - 1]
    BY <2>2, <2>5
  <2>7. upTo[m] = Applied(upTo[m - 1], changes[m])
    BY <1>3, <2>3, <2>4
  <2>8. g[m] = Applied(g[m - 1], changes[m])
    BY <2>5 DEF AppliesTo
  <2> QED BY <2>3, <2>6, <2>7, <2>8
<1>5. upTo[Len(changes)] = g[Len(changes)]
  BY <1>1, <1>4
<1> QED BY <1>5 DEF After, upTo

\* One change alone, and one more after others.
LEMMA AfterOne ==
  ASSUME NEW text, NEW S, NEW change \in S
  PROVE  After(text, <<change>>) = Applied(text, change)
<1> DEFINE g == [i \in 0 .. 1 |-> IF i = 0 THEN text ELSE Applied(text, change)]
<1>1. <<change>> \in Seq(S) /\ Len(<<change>>) = 1
  OBVIOUS
<1>2. AppliesTo(g, text, <<change>>)
  BY <1>1 DEF AppliesTo
<1>3. After(text, <<change>>) = g[1]
  BY <1>1, <1>2, AfterIsTheLastStep
<1> QED BY <1>3

LEMMA AfterOneMore ==
  ASSUME NEW text, NEW S, NEW changes \in Seq(S), NEW change \in S
  PROVE  After(text, Append(changes, change)) = Applied(After(text, changes), change)
<1> DEFINE n    == Len(changes)
           more == Append(changes, change)
<1>1. PICK g : AppliesTo(g, text, changes)
  BY StepsExist
<1>2. After(text, changes) = g[n]
  BY <1>1, AfterIsTheLastStep
<1>3. n \in Nat /\ more \in Seq(S) /\ Len(more) = n + 1 /\ more[n + 1] = change
      /\ \A i \in 1 .. n : more[i] = changes[i]
  OBVIOUS
<1> DEFINE h == [i \in 0 .. n + 1 |-> IF i = n + 1 THEN Applied(g[n], change) ELSE g[i]]
<1>4. AppliesTo(h, text, more)
  <2>1. h[0] = text
    BY <1>1, <1>3 DEF AppliesTo
  <2>2. ASSUME NEW i \in 1 .. n + 1 PROVE h[i] = Applied(h[i - 1], more[i])
    <3>1. CASE i = n + 1
      BY <1>3, <3>1
    <3>2. CASE i # n + 1
      <4>1. i \in 1 .. n /\ i \in 0 .. n + 1 /\ i - 1 \in 0 .. n + 1 /\ i - 1 # n + 1
        BY <1>3, <3>2
      <4>2. h[i] = g[i] /\ h[i - 1] = g[i - 1]
        BY <3>2, <4>1
      <4>3. g[i] = Applied(g[i - 1], changes[i])
        BY <1>1, <4>1 DEF AppliesTo
      <4> QED BY <1>3, <4>1, <4>2, <4>3
    <3> QED BY <3>1, <3>2
  <2> HIDE DEF h, more
  <2> QED BY <1>3, <2>1, <2>2 DEF AppliesTo
<1>5. After(text, more) = h[n + 1]
  BY <1>3, <1>4, AfterIsTheLastStep
<1>6. h[n + 1] = Applied(g[n], change)
  BY <1>3
<1> QED BY <1>2, <1>5, <1>6

\* ContentChanges make a text of a text.
LEMMA AfterIsText ==
  ASSUME NEW text \in Texts, NEW changes \in Seq(ContentChanges)
  PROVE  After(text, changes) \in Texts
<1>1. PICK g : AppliesTo(g, text, changes)
  BY StepsExist
<1> DEFINE Bad == {i \in 0 .. Len(changes) : g[i] \notin Texts}
<1>2. Len(changes) \in Nat
  OBVIOUS
<1>3. ASSUME Bad # {} PROVE FALSE
  <2>1. Bad \in SUBSET Nat
    BY <1>2
  <2>2. PICK m \in Bad : \A n \in Bad : m <= n
    BY <1>3, <2>1, Smallest
  <2>3. m # 0
    BY <1>1, <2>2 DEF AppliesTo
  <2>4. m \in 1 .. Len(changes) /\ m - 1 \in 0 .. Len(changes) /\ ~(m <= m - 1)
    BY <1>2, <2>2, <2>3
  <2>5. g[m - 1] \in Texts /\ changes[m] \in ContentChanges
    BY <2>2, <2>4
  <2>6. g[m] = Applied(g[m - 1], changes[m])
    BY <1>1, <2>4 DEF AppliesTo
  <2> QED BY <2>2, <2>5, <2>6, AppliedIsText
<1>4. g[Len(changes)] \in Texts
  BY <1>2, <1>3
<1> QED BY <1>1, <1>4, AfterIsTheLastStep
=============================================================================
