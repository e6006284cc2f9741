----------------------------- MODULE TriviaGame -----------------------------
(***************************************************************************)
(* Trivia against the clock: TriviaEngine.ts keeps an interval of one        *)
(* second and, after each answer, a timeout of 1500 ms that goes on to the   *)
(* next question; TriviaGame.tsx shows the question and, at the end, lets    *)
(* the player start again.                                                   *)
(*                                                                         *)
(* destroy (leaving the page) stops the interval and forgets the listeners,  *)
(* but not the timeout: the engine of a page that was left may go on, unseen, *)
(* until its last question has timed out.                                     *)
(*                                                                         *)
(* The screen shows the engine's state and keeps none of its own: `ui' is      *)
(* history, read by no action, of what the player did in each of the games    *)
(* begun since the component was mounted.                                     *)
(***************************************************************************)
EXTENDS Integers, Sequences

CONSTANTS
    TimePerQuestion,    \* 30 in the code
    MaxReports          \* bounds how often the player starts again

VARIABLES
    level,      \* .questions: how many there are
    engine,     \* TriviaEngine.state, its interval, its pending timeouts
    ui,         \* a history: what was answered in each game begun here
    reports

vars == <<level, engine, ui, reports>>

\* A game before its first question, its interval running.
Fresh(l) ==
    [index |-> 1, score |-> 0, selected |-> "none", isFinished |-> l.questions = 0,
     timeLeft |-> TimePerQuestion]

Engines(l) == {[state |-> Fresh(l), timer |-> TRUE, timeouts |-> 0, listening |-> TRUE]}

\* Of a game: questions answered or timed out, right answers, and the seconds
\* that were left when those were given.
Tally == [answered : Nat, right : Nat, seconds : Nat]
NoTally == [answered |-> 0, right |-> 0, seconds |-> 0]
Tallied(tally, answer, timeLeft) ==
    [answered |-> tally.answered + 1,
     right |-> tally.right + IF answer = "right" THEN 1 ELSE 0,
     seconds |-> tally.seconds + IF answer = "right" THEN timeLeft ELSE 0]

\* What the rules give for it.
Earned(tally) == 100 * tally.right + 2 * tally.seconds

Uis(l) == {<<NoTally>>}

----------------------------------------------------------------------------

\* The question is still to be answered.
Open == ~engine.state.isFinished /\ engine.state.selected = "none"

\* History of the answer: the last game's tally grows with it.
Counted(answer) ==
    ui' = IF Open THEN [ui EXCEPT ![Len(ui)] = Tallied(@, answer, engine.state.timeLeft)] ELSE ui

\* Mutant: without stopTimer.
SubmitAnswer_KeepsTimer(answer) ==
    IF ~Open
    THEN UNCHANGED engine
    ELSE engine' = [engine EXCEPT
            !.timeouts = @ + 1,
            !.state.selected = answer,
            !.state.score = @ + IF answer = "right" THEN 100 + 2 * engine.state.timeLeft ELSE 0]

\* submitAnswer: nothing once the question has an answer; a right one earns
\* 100 points and 2 for each second left.
SubmitAnswer(answer) ==
    IF ~Open
    THEN UNCHANGED engine
    ELSE engine' = [engine EXCEPT
            !.timer = FALSE,
            !.timeouts = @ + 1,
            !.state.selected = answer,
            !.state.score = @ + IF answer = "right" THEN 100 + 2 * engine.state.timeLeft ELSE 0]

\* The interval: a second less, or an answer nobody gave.
Tick ==
    /\ engine.timer
    /\ IF engine.state.timeLeft > 0
       THEN engine' = [engine EXCEPT !.state.timeLeft = @ - 1] /\ UNCHANGED ui
       ELSE SubmitAnswer("timeout") /\ Counted("timeout")
    /\ UNCHANGED <<level, reports>>

\* Mutant: the index, which starts at 1, compared as if it started at 0.
More_OneEarly == engine.state.index < level.questions - 1

More == engine.state.index < level.questions

\* The timeout: the next question with its own clock, or the end, which the
\* listeners are told.
NextQuestion ==
    /\ engine.timeouts > 0
    /\ IF More
       THEN /\ engine' = [engine EXCEPT !.timeouts = @ - 1, !.timer = TRUE,
                             !.state.index = @ + 1, !.state.selected = "none",
                             !.state.timeLeft = TimePerQuestion]
            /\ UNCHANGED reports
       ELSE /\ engine' = [engine EXCEPT !.timeouts = @ - 1, !.state.isFinished = TRUE]
            /\ reports' = IF engine.listening THEN Append(reports, engine.state.score) ELSE reports
    /\ UNCHANGED <<level, ui>>

\* The buttons of the question, disabled once it has an answer.
Answer(answer) ==
    /\ engine.listening /\ Open
    /\ SubmitAnswer(answer) /\ Counted(answer)
    /\ UNCHANGED <<level, reports>>

\* 'Volver a jugar' on the end screen.
Reset ==
    /\ engine.listening /\ engine.state.isFinished
    /\ Len(reports) < MaxReports
    /\ engine' = [engine EXCEPT !.state = Fresh(level), !.timer = TRUE]
    /\ ui' = Append(ui, NoTally)
    /\ UNCHANGED <<level, reports>>

\* What leaving does to the engine.
Destroyed == [engine EXCEPT !.timer = FALSE, !.listening = FALSE]

Timers == Tick \/ NextQuestion
Player == \/ \E answer \in {"right", "wrong"} : Answer(answer)
          \/ Reset

----------------------------------------------------------------------------

TypeOK ==
    /\ engine.state.index \in 1 .. level.questions
    /\ engine.state.timeLeft \in 0 .. TimePerQuestion
    /\ engine.state.selected \in {"none", "right", "wrong", "timeout"}
    /\ engine.timeouts \in Nat
    /\ ui \in Seq(Tally)

\* The clock and the pause between two questions exclude each other, and a
\* finished game has neither: otherwise a question would be skipped or a later
\* one cut short.
OneClock ==
    /\ engine.timeouts <= 1
    /\ engine.timeouts = 1 => /\ ~engine.timer
                              /\ engine.state.selected # "none"
                              /\ ~engine.state.isFinished
    /\ engine.state.isFinished => ~engine.timer

\* The n-th report is that of the n-th game: every question of it was answered
\* or timed out, none twice, and each right answer earned its 100 points and 2
\* for each second that was left to it.
Won ==
    /\ reports # <<>>
    /\ Len(reports) <= Len(ui)
    /\ \A i \in DOMAIN reports :
          /\ ui[i].answered = level.questions
          /\ ui[i].right <= level.questions
          /\ reports[i] = Earned(ui[i])
=============================================================================
