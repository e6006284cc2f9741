--------------------------- MODULE WordSearchGame ---------------------------
(***************************************************************************)
(* Word search: WordSearchEngine.ts hides the words in a grid and checks a   *)
(* selection, WordSearchScene.ts turns the pointer and the keyboard, which   *)
(* share one selection, into straight lines of cells.                        *)
(***************************************************************************)
EXTENDS Integers, Sequences, FiniteSets, SequencesExt

CONSTANT Letters    \* what empty cells are filled with

VARIABLES
    level,      \* .words (sequences of letters, normalized), .width, .height
    engine,     \* the grid, the words placed, foundWords, score, isFinished
    ui,         \* the scene: the keyboard's cursor, the selection
    reports

vars == <<level, engine, ui, reports>>

Cells(l) == (0 .. l.width - 1) \X (0 .. l.height - 1)
Empty == ""

----------------------------------------------------------------------------
(* The grid.                                                               *)

Directions == {<<1, 0>>, <<0, 1>>, <<1, 1>>}
At(at, dir, i) == <<at[1] + (i - 1) * dir[1], at[2] + (i - 1) * dir[2]>>

\* Mutant: a cell's letter is compared with any letter of the word.
CanPlaceWord_AnyLetter(l, grid, word, at, dir) ==
    \A i \in DOMAIN word :
        /\ At(at, dir, i) \in Cells(l)
        /\ grid[At(at, dir, i)] \in {Empty} \cup ToSet(word)

\* canPlaceWord: on the board, and over nothing but its own letters.
CanPlaceWord(l, grid, word, at, dir) ==
    \A i \in DOMAIN word :
        /\ At(at, dir, i) \in Cells(l)
        /\ grid[At(at, dir, i)] \in {Empty, word[i]}

PlaceWord(grid, word, at, dir) ==
    [c \in DOMAIN grid |->
        IF \E i \in DOMAIN word : At(at, dir, i) = c
        THEN word[CHOOSE i \in DOMAIN word : At(at, dir, i) = c] ELSE grid[c]]

\* One word more, anywhere it fits; 500 random attempts are taken to find a
\* place if there is one.  A word without a place is dropped.
WithWord(l, partial, word) ==
    LET spots == {s \in Cells(l) \X Directions : CanPlaceWord(l, partial.grid, word, s[1], s[2])}
    IN IF spots = {} THEN {partial}
       ELSE {[grid |-> PlaceWord(partial.grid, word, s[1], s[2]),
              words |-> partial.words \cup {word}] : s \in spots}

\* The cells left, and letters in them.
Holes(grid) == {c \in DOMAIN grid : grid[c] = Empty}
Filled(grid, f) == [c \in DOMAIN grid |-> IF c \in Holes(grid) THEN f[c] ELSE grid[c]]

\* generateGrid: longest words first, then letters in the cells left.
Grids(l) ==
    LET blank == [grid |-> [c \in Cells(l) |-> Empty], words |-> {}]
        shortest(words) == CHOOSE w \in words : \A v \in words : Len(w) <= Len(v)
        built == MapThenFoldSet(LAMBDA last, grids : UNION {WithWord(l, g, last) : g \in grids},
                                {blank}, LAMBDA w : w, shortest, ToSet(l.words))
    IN UNION {{[g EXCEPT !.grid = Filled(@, f)] : f \in [Holes(g.grid) -> Letters]} : g \in built}

Engines(l) ==
    {[grid |-> g.grid, words |-> g.words, foundWords |-> {}, score |-> 0, isFinished |-> FALSE] :
        g \in Grids(l)}

NoCoord == <<>>
Uis(l) == {[cursor |-> <<0, 0>>, from |-> NoCoord, to |-> NoCoord]}

----------------------------------------------------------------------------
(* The engine and the scene.                                               *)

IsSelecting == ui.from # NoCoord

Abs(n) == IF n < 0 THEN -n ELSE n
Aligned(a, b) ==
    a[1] = b[1] \/ a[2] = b[2] \/ Abs(a[1] - b[1]) = Abs(a[2] - b[2])

Sign(n) == IF n = 0 THEN 0 ELSE IF n > 0 THEN 1 ELSE -1

\* The letters from cell a to cell b.
Line(a, b) ==
    LET dx == b[1] - a[1]
        dy == b[2] - a[2]
        steps == IF Abs(dx) > Abs(dy) THEN Abs(dx) ELSE Abs(dy)
    IN [i \in 1 .. steps + 1 |->
           engine.grid[<<a[1] + (i - 1) * Sign(dx), a[2] + (i - 1) * Sign(dy)>>]]

\* Mutant: a word can be found again, from its other end for instance.
Finds_Again(str) ==
    IF str \in engine.words THEN {str} ELSE {Reverse(str)} \cap engine.words

\* The word a selection finds, forwards first: one of the list, found once.
Finds(str) ==
    LET new == engine.words \ engine.foundWords IN
    IF str \in new THEN {str} ELSE {Reverse(str)} \cap new

\* checkWord; the listener reports the game that is finished.
CheckWord(str) ==
    LET found == engine.foundWords \cup Finds(str)
        done == found = engine.words
    IN IF engine.isFinished \/ Finds(str) = {}
       THEN UNCHANGED <<engine, reports>>
       ELSE /\ engine' = [engine EXCEPT !.foundWords = found, !.score = @ + 100,
                                        !.isFinished = done]
            /\ reports' = IF done THEN Append(reports, engine'.score) ELSE reports

Select(a, b) == ui' = [ui EXCEPT !.from = a, !.to = b]

\* A selection that would bend is left as it is.
ExtendSelectionTo(coord) == IF Aligned(ui.from, coord) THEN coord ELSE ui.to

SubmitSelection ==
    /\ CheckWord(Line(ui.from, ui.to))
    /\ Select(NoCoord, NoCoord)

PointerDown(c) ==
    /\ Select(c, c)
    /\ UNCHANGED <<level, engine, reports>>

PointerMove(c) ==
    /\ IsSelecting
    /\ Select(ui.from, ExtendSelectionTo(c))
    /\ UNCHANGED <<level, engine, reports>>

PointerUp ==
    /\ IsSelecting
    /\ SubmitSelection
    /\ UNCHANGED level

Clamp(n, lo, hi) == IF n < lo THEN lo ELSE IF n > hi THEN hi ELSE n

\* The arrows move the cursor, and the end of a selection begun by the pointer too.
MoveCursor(dx, dy) ==
    /\ LET to == <<Clamp(ui.cursor[1] + dx, 0, level.width - 1),
                   Clamp(ui.cursor[2] + dy, 0, level.height - 1)>>
       IN ui' = [ui EXCEPT !.cursor = to,
                           !.to = IF IsSelecting THEN ExtendSelectionTo(to) ELSE @]
    /\ UNCHANGED <<level, engine, reports>>

Enter ==
    /\ IF IsSelecting THEN SubmitSelection
       ELSE Select(ui.cursor, ui.cursor) /\ UNCHANGED <<engine, reports>>
    /\ UNCHANGED level

Escape ==
    /\ IsSelecting
    /\ Select(NoCoord, NoCoord)
    /\ UNCHANGED <<level, engine, reports>>

Timers == FALSE
Player ==
    \/ \E c \in Cells(level) : PointerDown(c) \/ PointerMove(c)
    \/ PointerUp
    \/ \E d \in {<<1, 0>>, <<-1, 0>>, <<0, 1>>, <<0, -1>>} : MoveCursor(d[1], d[2])
    \/ Enter \/ Escape

----------------------------------------------------------------------------

TypeOK ==
    /\ engine.grid \in [Cells(level) -> Letters \cup UNION {ToSet(w) : w \in ToSet(level.words)}]
    /\ engine.foundWords \subseteq engine.words
    /\ ui.cursor \in Cells(level)
    /\ ui.from = NoCoord <=> ui.to = NoCoord

\* Every word that is asked for and placed can still be found by a straight
\* selection, whatever was placed after it: no later word writes over it.  (A
\* word without letters, which the server accepts, is placed nowhere and never
\* found; its level does not end.)
Findable ==
    \A w \in engine.words \ {<<>>} :
        \E a, b \in Cells(level) : Aligned(a, b) /\ w \in {Line(a, b), Reverse(Line(a, b))}

Won ==
    /\ engine.foundWords = engine.words
    /\ reports = <<100 * Cardinality(engine.words)>>
=============================================================================
