----------------------------- MODULE SnakesBoard -----------------------------
(***************************************************************************)
(* The board of snakes and ladders: what the editor generates               *)
(* (snakesLayout.ts), where the game draws a position (BoardMap.ts) and how  *)
(* a roll moves a token (SnakeLadderEngine.ts).                              *)
(*                                                                         *)
(* A level is [width, height, start, end, questions, links]; snakes and      *)
(* ladders together are the links.                                           *)
(***************************************************************************)
EXTENDS Integers

CONSTANT SnakesLevels   \* the contents that may be played

\* makeLink: from neither the first nor the last cell; a snake goes down, a
\* ladder up, within the board.
MakeLink(total) ==
    {l \in [start : 2 .. total - 1, to : 1 .. total] : l.to # l.start}

\* generateSnakeLadderLinks: snakes, then ladders, from origins of their own.
GeneratedLinks(total, links) ==
    /\ links \subseteq MakeLink(total)
    /\ \A a, b \in links : a.start = b.start => a = b

\* What the editor writes, which also ends the board at its last cell.  The
\* validators accept more: another start or end, and links from or beyond them.
SnakesContent(l) ==
    /\ l.width \in Nat \ {0} /\ l.height \in Nat \ {0}
    /\ l.start = 1 /\ l.end \in Nat \ {0} /\ l.end = l.width * l.height
    /\ l.questions \in Nat
    /\ GeneratedLinks(l.end, l.links)

ASSUME SnakesLevelsAssumption == \A l \in SnakesLevels : SnakesContent(l)

----------------------------------------------------------------------------
(* Squares.  Row 0 is the top one; positions run from the bottom, left to    *)
(* right and back.                                                          *)

\* mapToGrid: where the game draws a position.
MapToGrid(p, w, h) ==
    LET row == (p - 1) \div w
        x == (p - 1) % w
    IN [x |-> IF row % 2 = 0 THEN x ELSE w - 1 - x, y |-> h - 1 - row]

\* cellAt: which position the editor's preview writes in a square.
CellAt(row, col, w, h) ==
    LET up == h - 1 - row IN
    up * w + (IF up % 2 = 0 THEN col ELSE w - 1 - col) + 1

----------------------------------------------------------------------------
(* Moves.                                                                  *)

\* Mutant: one cell past the goal is not past it.
Bounce_PastOne(p, goal) == IF p > goal + 1 THEN goal - (p - goal) ELSE p

\* Past the goal the token bounces back by the excess.
Bounce(p, goal) == IF p > goal THEN goal - (p - goal) ELSE p

\* A snake's head or a ladder's foot sends the token to the other end, once:
\* what starts at the end of a link is not followed.
Resolve(l, p) ==
    IF \E link \in l.links : link.start = p
    THEN (CHOOSE link \in l.links : link.start = p).to
    ELSE p

Land(l, p, roll) == Resolve(l, Bounce(p + roll, l.end))

Die == 1 .. 6

\* The AI rolls a die, or, near the goal, may choose the roll that wins.
AiRolls(l, p) == Die \cup (IF l.end - p <= 6 THEN {l.end - p} ELSE {})
=============================================================================
