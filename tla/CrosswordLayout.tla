--------------------------- MODULE CrosswordLayout ---------------------------
(***************************************************************************)
(* How CrosswordEngine.ts lays words out in a crossword: the editor asks it  *)
(* whether they can all be connected, the game plays what it builds.  Words   *)
(* are sequences of letters, normalized.                                     *)
(***************************************************************************)
EXTENDS Integers, Sequences, FiniteSets, SequencesExt

\* The elements of a sequence at the indices chosen, in their order.
Subsequence(seq, chosen) ==
    LET rank(i) == Cardinality({j \in chosen : j <= i})
    IN [k \in 1 .. Cardinality(chosen) |-> seq[CHOOSE i \in chosen : rank(i) = k]]

\* Array.filter (SelectSeq, in a form that the provers can look into).
Filter(seq, Test(_)) == Subsequence(seq, {i \in DOMAIN seq : Test(seq[i])})

\* The stable sort by length, longest first.
ByLength(words) ==
    LET before(j, i) == Len(words[j]) > Len(words[i]) \/ (Len(words[j]) = Len(words[i]) /\ j <= i)
        rank(i) == Cardinality({j \in DOMAIN words : before(j, i)})
    IN [k \in DOMAIN words |-> words[CHOOSE i \in DOMAIN words : rank(i) = k]]

Place(word, x, y, vertical) == [word |-> word, x |-> x, y |-> y, vertical |-> vertical]

\* The i-th cell of a placed word; 0 is the one before it.
CellOf(p, i) == IF p.vertical THEN <<p.x, p.y + i - 1>> ELSE <<p.x + i - 1, p.y>>
Beside(p, i, d) ==
    LET c == CellOf(p, i) IN IF p.vertical THEN <<c[1] + d, c[2]>> ELSE <<c[1], c[2] + d>>

\* What a layout writes: <<x, y>> and a letter.
Written(layout) == UNION {{<<CellOf(p, i), p.word[i]>> : i \in DOMAIN p.word} : p \in layout}
Occupied(layout) == {w[1] : w \in Written(layout)}

\* Mutant: a word may touch another one's side.
CanPlaceWord_Touches(p, layout) ==
    LET cells == Occupied(layout) IN
    /\ \A i \in DOMAIN p.word :
          CellOf(p, i) \in cells => <<CellOf(p, i), p.word[i]>> \in Written(layout)
    /\ CellOf(p, 0) \notin cells /\ CellOf(p, Len(p.word) + 1) \notin cells
    /\ \E i \in DOMAIN p.word : CellOf(p, i) \in cells

\* canPlaceWord: over equal letters, at least one, and touching nothing else.
CanPlaceWord(p, layout) ==
    LET cells == Occupied(layout) IN
    /\ \A i \in DOMAIN p.word :
          IF CellOf(p, i) \in cells
          THEN <<CellOf(p, i), p.word[i]>> \in Written(layout)
          ELSE Beside(p, i, -1) \notin cells /\ Beside(p, i, 1) \notin cells
    /\ CellOf(p, 0) \notin cells /\ CellOf(p, Len(p.word) + 1) \notin cells
    /\ \E i \in DOMAIN p.word : CellOf(p, i) \in cells

\* A place for `word' across q, its i-th letter on q's j-th.
Across(word, i, q, j) ==
    LET c == CellOf(q, j) IN
    IF q.vertical THEN Place(word, c[1] - i + 1, c[2], FALSE)
                  ELSE Place(word, c[1], c[2] - i + 1, TRUE)

Abs(n) == IF n < 0 THEN -n ELSE n
Distance(p) == Abs(p.x) + Abs(p.y)

\* findBestPlacement: the crossings closest to the origin; the code takes the
\* first of them it meets.
BestPlacements(word, layout) ==
    LET shared(q) == {ij \in (DOMAIN word) \X (DOMAIN q.word) : word[ij[1]] = q.word[ij[2]]}
        all == {p \in UNION {{Across(word, ij[1], q, ij[2]) : ij \in shared(q)} : q \in layout} :
                  CanPlaceWord(p, layout)}
    IN {p \in all : \A o \in all : Distance(p) <= Distance(o)}

\* A word without a crossing stays out.
WithWord(layout, word) ==
    IF BestPlacements(word, layout) = {} THEN {layout}
    ELSE {layout \cup {p} : p \in BestPlacements(word, layout)}

\* buildGreedyLayout: the first word along the origin, the others in turn.
GreedyLayouts(words) ==
    FoldLeft(LAMBDA ls, w : UNION {WithWord(l, w) : l \in ls},
             {{Place(Head(words), 0, 0, FALSE)}}, Tail(words))

\* normalizeLayout: the corner of the layout becomes <<0, 0>>.
NormalizeLayout(layout) ==
    LET Least(k) == CHOOSE n \in {c[k] : c \in Occupied(layout)} :
                       \A c \in Occupied(layout) : n <= c[k]
    IN {[p EXCEPT !.x = @ - Least(1), !.y = @ - Least(2)] : p \in layout}

\* buildCrosswordLayout: each word in turn comes first, the others by length;
\* the layout that places most words is taken.
BuildCrosswordLayout(words) ==
    LET sorted == ByLength(Filter(words, LAMBDA w : Len(w) >= 2))
        tried == UNION {GreedyLayouts(<<sorted[f]>> \o RemoveAt(sorted, f)) : f \in DOMAIN sorted}
    IN IF sorted = <<>> THEN {{}}
       ELSE {NormalizeLayout(l) : l \in
               {l \in tried : \A o \in tried : Cardinality(o) <= Cardinality(l)}}

IsBuildComplete(layout, words) == Cardinality(layout) = Len(words)
=============================================================================
