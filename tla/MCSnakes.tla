------------------------------ MODULE MCSnakes ------------------------------
(***************************************************************************)
(* One board of nine cells with a snake, a ladder and a single question.      *)
(***************************************************************************)
EXTENDS SnakesGame

MCLevels ==
    {[width |-> 3, height |-> 3, start |-> 1, end |-> 9, questions |-> 1,
      links |-> {[start |-> 3, to |-> 8], [start |-> 7, to |-> 2]}]}
=============================================================================
