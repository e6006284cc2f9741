--------------------------------- MODULE Xp ---------------------------------
(***************************************************************************)
(* The experience points of one attempt.  The repository computes them in  *)
(* two places, once for attempts played online and once for attempts that  *)
(* come in an offline batch.                                               *)
(*                                                                         *)
(* Operators whose name ends in an underscore and a word, here and in the  *)
(* other modules, are faulty variants of the definition after them: each   *)
(* is a slip somebody could make there, and some property refutes it.      *)
(***************************************************************************)
EXTENDS Integers

\* The schedule noted beside level_attempts.attempt_number: the first attempt of
\* a day earns 100%, the second and third 50%, later ones nothing.
Percent(n) == IF n = 1 THEN 100 ELSE IF n \in 2..3 THEN 50 ELSE 0
ScheduledXP(difficulty, n, completed) ==
  IF completed THEN (4 * difficulty * Percent(n)) \div 100 ELSE 0

xpForAttempt_Decay(difficulty, attemptNumber, completed) ==
  IF ~completed THEN 0 ELSE 4 * difficulty - 3 * difficulty * (attemptNumber - 1)

xpForAttempt_FromZero(difficulty, attemptNumber, completed) ==
  IF ~completed THEN 0
  ELSE (4 * difficulty) \div (IF attemptNumber - 1 <= 1 THEN 1 ELSE IF attemptNumber - 1 <= 3 THEN 2 ELSE 1000)

\* internal/sync/service.go: the offline path.
xpForAttempt(difficulty, attemptNumber, completed) ==
  CASE ~completed \/ difficulty <= 0 -> 0
    [] OTHER -> CASE attemptNumber = 1  -> 4 * difficulty
                  [] attemptNumber # 1 /\ attemptNumber <= 3 -> (4 * difficulty) \div 2
                  [] OTHER -> 0

CalculateXP_TwoPaid(difficulty, attemptNumber, completed) ==
  IF ~completed THEN 0
  ELSE IF attemptNumber = 1 THEN 4 * difficulty
  ELSE IF attemptNumber < 3 THEN (4 * difficulty) \div 2 ELSE 0

\* internal/levels/service.go: the online path.
CalculateXP(difficulty, attemptNumber, completed) ==
  IF ~completed \/ difficulty <= 0 THEN 0
  ELSE LET base == 4 * difficulty
       IN  IF attemptNumber = 1 THEN base
           ELSE IF attemptNumber <= 3 THEN base \div 2 ELSE 0
=============================================================================
