----------------------------- MODULE PuzzleGame -----------------------------
(***************************************************************************)
(* The secret message: PuzzleEngine.ts cuts a phrase into pieces and        *)
(* shuffles them, PuzzleGame.tsx lets the player drag one over its          *)
(* neighbour.                                                               *)
(***************************************************************************)
EXTENDS Integers, Sequences, FiniteSets, SequencesExt

CONSTANT MaxMoves   \* bounds how long a player goes on; the code counts on

VARIABLES
    level,      \* .pieces: how many pieces
    engine,     \* PuzzleEngine.state: the order of the pieces (by originalIndex)
    ui,         \* the same, as shown
    reports

vars == <<level, engine, ui, reports>>

InOrder(pieces) == \A i \in DOMAIN pieces : pieces[i] = i

\* generatePieces shuffles until the pieces are not in order (a hundred times
\* at most; the generator has no cycle that short).
Shuffled(n) == {p \in [1 .. n -> 1 .. n] : IsInjective(p) /\ ~InOrder(p)}

Engines(l) == {[pieces |-> p, isFinished |-> FALSE, score |-> 0, moves |-> 0] : p \in Shuffled(l.pieces)}
Uis(l) == {<<>>}

\* checkCompletion's score: ten points less for each move, a hundred at least.
Score(moves) == IF 1000 - 10 * moves < 100 THEN 100 ELSE 1000 - 10 * moves

\* Mutant: the piece that was there is taken out instead.
Moved_RemovesTarget(pieces, from, to) ==
    InsertAt(RemoveAt(pieces, to), to, pieces[from])

\* splice out, splice in.
Moved(pieces, from, to) ==
    InsertAt(RemoveAt(pieces, from), to, pieces[from])

\* reorderPieces; the listener is told, and reports a game that is finished.
ReorderPieces(from, to) ==
    /\ ~engine.isFinished
    /\ LET pieces == Moved(engine.pieces, from, to)
           done == InOrder(pieces)
       IN engine' = [pieces |-> pieces, isFinished |-> done, moves |-> engine.moves + 1,
                     score |-> IF done THEN Score(engine.moves + 1) ELSE engine.score]
    /\ reports' = IF engine'.isFinished THEN Append(reports, engine'.score) ELSE reports

\* handleReorder: the dragged piece changed places with a neighbour, and the
\* first difference names the piece on the left, whichever was dragged.
HandleReorder(i) ==
    /\ engine.moves < MaxMoves
    /\ ReorderPieces(i, i + 1)
    /\ UNCHANGED <<level, ui>>

Timers == FALSE
Player == \E i \in 1 .. level.pieces - 1 : HandleReorder(i)

----------------------------------------------------------------------------

TypeOK ==
    /\ Range(engine.pieces) = 1 .. level.pieces
    /\ engine.moves \in 0 .. MaxMoves

Won ==
    /\ InOrder(engine.pieces)
    /\ Len(reports) = 1
    /\ reports[1] = engine.score /\ engine.score \in 100 .. 990
=============================================================================
