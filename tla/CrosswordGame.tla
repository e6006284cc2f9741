---------------------------- MODULE CrosswordGame ----------------------------
(***************************************************************************)
(* The crossword: CrosswordEngine.ts lays the words out and judges letters,  *)
(* CrosswordScene.ts passes on clicks and keys.                              *)
(*                                                                         *)
(* A click on a cell focuses a hidden input, which opens the keyboard of a   *)
(* telephone.  From then on a key reaches the engine twice, by the input and *)
(* by the canvas's listener on the window; only Backspace is kept from the   *)
(* second.                                                                   *)
(***************************************************************************)
EXTENDS CrosswordLayout

CONSTANTS
    Alphabet,       \* letters the player may type
    MaxReports      \* bounds how often a finished crossword is reported

VARIABLES
    level,      \* .words: sequences of letters, normalized
    engine,     \* the layout and CrosswordEngine.state
    ui,         \* the scene: whether the input has the focus
    reports

vars == <<level, engine, ui, reports>>

----------------------------------------------------------------------------
(* The engine.  Its operations take and return the state together with the   *)
(* reports, which every notification of a finished game adds to.             *)

NoCell == <<>>
Blank == ""

Engines(l) ==
    {[letters |-> Written(layout), placed |-> layout, user |-> [c \in Occupied(layout) |-> Blank],
      cell |-> NoCell, vertical |-> FALSE, locked |-> {}, score |-> 0, isFinished |-> FALSE] :
        layout \in BuildCrosswordLayout(l.words)}
Uis(l) == {[focused |-> FALSE]}

Game == [e |-> engine, r |-> reports]
Becomes(g) == engine' = g.e /\ reports' = g.r

Notify(g) == [g EXCEPT !.r = IF g.e.isFinished THEN Append(@, g.e.score) ELSE @]

\* validate: right letters are locked, and ten points each.
Validate(e) ==
    LET right == {c \in DOMAIN e.user : <<c, e.user[c]>> \in e.letters} IN
    [e EXCEPT !.locked = right, !.score = 10 * Cardinality(right),
              !.isFinished = @ \/ (right = DOMAIN e.user /\ right # {})]

Ahead(e) == IF e.vertical THEN <<e.cell[1], e.cell[2] + 1>> ELSE <<e.cell[1] + 1, e.cell[2]>>

\* Mutant: without the test of isLocked.
InputChar_Locked(g, ch) ==
    LET e == g.e IN
    IF e.isFinished \/ e.cell = NoCell THEN g
    ELSE Notify([g EXCEPT !.e = Validate([e EXCEPT
             !.user[e.cell] = ch,
             !.cell = IF ch # Blank /\ Ahead(e) \in DOMAIN e.user THEN Ahead(e) ELSE @])])

\* inputChar: nothing in a locked cell; a letter moves on to the next cell.
InputChar(g, ch) ==
    LET e == g.e IN
    IF e.isFinished \/ e.cell = NoCell \/ e.cell \in e.locked THEN g
    ELSE Notify([g EXCEPT !.e = Validate([e EXCEPT
             !.user[e.cell] = ch,
             !.cell = IF ch # Blank /\ Ahead(e) \in DOMAIN e.user THEN Ahead(e) ELSE @])])

\* navigate
Navigate(g, d) ==
    IF g.e.cell = NoCell THEN g
    ELSE LET to == <<g.e.cell[1] + d[1], g.e.cell[2] + d[2]>> IN
         IF to \in DOMAIN g.e.user THEN Notify([g EXCEPT !.e.cell = to]) ELSE g

\* selectCell: a second click turns the word; a first one looks at the neighbours.
SelectCell(g, c) ==
    LET has(dx, dy) == <<c[1] + dx, c[2] + dy>> \in DOMAIN g.e.user
        across == has(1, 0) \/ has(-1, 0)
        down == has(0, 1) \/ has(0, -1)
        turned == IF g.e.cell = c THEN ~g.e.vertical
                  ELSE IF across # down THEN down ELSE g.e.vertical
    IN Notify([g EXCEPT !.e.cell = c, !.e.vertical = turned])

----------------------------------------------------------------------------
(* The scene.  `Len(reports) < MaxReports' bounds what may go on after the    *)
(* end: every move of the selection reports the finished game again.          *)

Click(c) ==
    /\ Len(reports) < MaxReports
    /\ Becomes(SelectCell(Game, c))
    /\ ui' = [ui EXCEPT !.focused = TRUE]
    /\ UNCHANGED level

\* A click beside the cells takes the focus away.
Blur ==
    /\ ui.focused
    /\ ui' = [ui EXCEPT !.focused = FALSE]
    /\ UNCHANGED <<level, engine, reports>>

Twice(Op(_)) == IF ui.focused THEN Op(Op(Game)) ELSE Op(Game)

TypeLetter(ch) ==
    /\ Becomes(Twice(LAMBDA g : InputChar(g, ch)))
    /\ UNCHANGED <<level, ui>>

Arrow(d) ==
    /\ Len(reports) < MaxReports
    /\ Becomes(Twice(LAMBDA g : Navigate(g, d)))
    /\ UNCHANGED <<level, ui>>

\* Backspace clears and steps back, once.
Backspace ==
    /\ Len(reports) < MaxReports
    /\ LET cleared == InputChar(Game, Blank) IN
       Becomes(Navigate(cleared, IF cleared.e.vertical THEN <<0, -1>> ELSE <<-1, 0>>))
    /\ UNCHANGED <<level, ui>>

\* The input ignores a space, the window's listener clears the cell.
Space ==
    /\ Becomes(InputChar(Game, Blank))
    /\ UNCHANGED <<level, ui>>

Timers == FALSE
Player ==
    \/ \E c \in DOMAIN engine.user : Click(c)
    \/ Blur
    \/ \E ch \in Alphabet : TypeLetter(ch)
    \/ \E d \in {<<1, 0>>, <<-1, 0>>, <<0, 1>>, <<0, -1>>} : Arrow(d)
    \/ Backspace \/ Space

----------------------------------------------------------------------------

TypeOK ==
    /\ engine.user \in [Occupied(engine.placed) -> Alphabet \cup {Blank}]
    /\ engine.cell \in DOMAIN engine.user \cup {NoCell}
    /\ ui.focused \in BOOLEAN

\* The cell k further on in a column or a row.
Step(c, vertical, k) == IF vertical THEN <<c[1], c[2] + k>> ELSE <<c[1] + k, c[2]>>

\* The layout is a crossword: a cell has one letter, and whatever stands in a
\* row or a column, two cells or more, is a word of the level, all of it.
ReadsAsWords ==
    /\ \A a, b \in engine.letters : a[1] = b[1] => a = b
    /\ LET cells == DOMAIN engine.user IN
       \A c \in cells, vertical \in BOOLEAN :
          Step(c, vertical, -1) \notin cells /\ Step(c, vertical, 1) \in cells =>
              \E p \in engine.placed :
                  /\ p.vertical = vertical /\ <<p.x, p.y>> = c
                  /\ CellOf(p, Len(p.word) + 1) \notin cells

\* A right letter is never lost, however keys and clicks are mixed.
LockedStays == [][engine.locked \subseteq engine'.locked]_vars

Won ==
    /\ \A c \in DOMAIN engine.user : <<c, engine.user[c]>> \in engine.letters
    /\ \A i \in DOMAIN reports : reports[i] = 10 * Cardinality(DOMAIN engine.user)
=============================================================================
