----------------------------- MODULE SnakesGame -----------------------------
(***************************************************************************)
(* Snakes and ladders: the engine (SnakeLadderEngine.ts), the Phaser scene *)
(* that animates it (SnakeLadderScene.ts) and the React component that     *)
(* asks a question before every roll (SnakeLadderGame.tsx).                *)
(*                                                                         *)
(* The engine resolves a whole turn at once; what the player sees happens  *)
(* later, in four timers of the scene: the tumbling die, a pause of 150 ms,*)
(* the chain of tweens that moves a token and a pause of 500 ms before the *)
(* AI plays.  Every one is an action here, and so is the sampling of       *)
(* "may I roll" every 100 ms, which the scene's flag isAnimating (true in  *)
(* the tweens only, not while the die tumbles) takes part in.              *)
(***************************************************************************)
EXTENDS SnakesBoard, Sequences, FiniteSets, SequencesExt

VARIABLES
    level,      \* the content of the level on screen
    engine,     \* SnakeLadderEngine.state
    ui,         \* the component: canRoll, the queue of questions, the question
                \* on screen (0: none), the end screen
    scene,      \* the scene: isAnimating, the die, the moves it still shows
    reports     \* the scores handed to onComplete, in order

vars == <<level, engine, ui, scene, reports>>

Players == {"player", "ai"}

----------------------------------------------------------------------------
(* The engine.                                                             *)

\* Who moves next, and who has won, once a token rests on p.
Turn(who, p) ==
    IF p = level.end THEN "game_over"
    ELSE IF who = "player" THEN "ai_turn" ELSE "player_turn"

\* The token of `who' moves by `roll'; the turn is over when this returns.
EngineMove(who, roll) ==
    LET p == Land(level, engine.pos[who], roll) IN
    engine' = [state |-> Turn(who, p),
               pos |-> [engine.pos EXCEPT ![who] = p],
               winner |-> IF p = level.end THEN who ELSE "nobody"]

----------------------------------------------------------------------------
(* The scene.                                                              *)

\* The die starts to tumble for a move of `who'; a die already tumbling is
\* stopped, and with it the move it was about to show.
Tumble(who) == scene' = [scene EXCEPT !.die = who]

\* 'ROLL_DICE': the player's roll, refused out of turn or while a token moves.
RollDice ==
    IF engine.state = "player_turn" /\ ~scene.isAnimating
    THEN \E roll \in Die :
            /\ EngineMove("player", roll)
            /\ Tumble("player")
    ELSE UNCHANGED <<engine, scene>>

PlayAITurnAnimated(e) ==
    \E roll \in AiRolls(level, e.pos.ai) :
        /\ LET p == Land(level, e.pos.ai, roll) IN
           engine' = [state |-> Turn("ai", p),
                      pos |-> [e.pos EXCEPT !.ai = p],
                      winner |-> IF p = level.end THEN "ai" ELSE "nobody"]
        /\ Tumble("ai")

\* 'AI_PLAY': a wrong answer hands the turn, already written in the engine's
\* state e, to the AI; ignored while a token moves.
AiPlay(e) ==
    IF ~scene.isAnimating
    THEN PlayAITurnAnimated(e)
    ELSE /\ engine' = e
         /\ UNCHANGED scene

\* The last tick of the die: the move waits 150 ms more.
DieSettles ==
    /\ ~ui.gameOver
    /\ scene.die # "nobody"
    /\ scene.settled = "nobody"    \* 150 ms pass before a die tumbles to its end
    /\ scene' = [scene EXCEPT !.die = "nobody", !.settled = scene.die]
    /\ UNCHANGED <<level, engine, ui, reports>>

\* updateState: the token starts its chain of tweens.
TokenStarts ==
    /\ ~ui.gameOver
    /\ scene.settled # "nobody"
    /\ scene' = [scene EXCEPT !.settled = "nobody",
                              !.tweens = @ \cup {scene.settled},
                              !.isAnimating = TRUE]
    /\ UNCHANGED <<level, engine, ui, reports>>

\* Mutants: the AI follows the player's token whatever its move led to; the end
\* is looked at when the player's token arrives.
Arrived_AiFollows(who) ==
    IF who = "player" THEN "ai_next"
    ELSE IF engine.state = "game_over" THEN "over"
    ELSE "nothing"
Arrived_PlayerEnds(who) ==
    IF who # "player" THEN "nothing"
    ELSE IF engine.state = "ai_turn" THEN "ai_next"
    ELSE IF engine.state = "game_over" THEN "over"
    ELSE "nothing"

\* What the end of a token's move leads to: the AI's turn, or the end screen.
Arrived(who) ==
    IF who = "player" /\ engine.state = "ai_turn" THEN "ai_next"
    ELSE IF engine.state = "game_over" THEN "over"
    ELSE "nothing"

\* handleGameOver: the end screen replaces the board and the score is reported.
GameOver ==
    /\ ui' = [ui EXCEPT !.gameOver = TRUE]
    /\ reports' = Append(reports, IF engine.winner = "player" THEN 100 ELSE 0)

TokenArrives(who) ==
    /\ ~ui.gameOver
    /\ who \in scene.tweens
    /\ scene' = [scene EXCEPT !.tweens = @ \ {who},
                              !.isAnimating = FALSE,
                              !.aiNext = @ \/ Arrived(who) = "ai_next"]
    /\ IF Arrived(who) = "over" THEN GameOver ELSE UNCHANGED <<ui, reports>>
    /\ UNCHANGED <<level, engine>>

\* 500 ms after the player's token arrived.  The tweens of the AI's last move
\* are over by then: they started at most 150 ms after the player's roll and
\* take at most 6 * 180 + 520 ms, while the player's die, pause, shortest tween
\* and this delay take 990 + 150 + 180 + 500 ms.
AiTurnComes ==
    /\ ~ui.gameOver
    /\ scene.aiNext
    /\ scene.tweens = {}
    /\ \E roll \in AiRolls(level, engine.pos.ai) :
          /\ EngineMove("ai", roll)
          /\ scene' = [scene EXCEPT !.aiNext = FALSE, !.die = "ai"]
    /\ UNCHANGED <<level, ui, reports>>

----------------------------------------------------------------------------
(* The component.                                                          *)

\* The interval of 100 ms.
SampleCanRoll ==
    /\ ~ui.gameOver
    /\ ui' = [ui EXCEPT !.canRoll = engine.state = "player_turn" /\ ~scene.isAnimating]
    /\ ui' # ui
    /\ UNCHANGED <<level, engine, scene, reports>>

\* executeRoll of a level without questions.
RollFreely ==
    /\ ~ui.gameOver /\ ui.canRoll
    /\ level.questions = 0
    /\ ui' = [ui EXCEPT !.canRoll = FALSE]
    /\ RollDice
    /\ UNCHANGED <<level, reports>>

Shuffles(n) == {q \in [1 .. n -> 1 .. n] : IsInjective(q)}

\* handleRollClick: the next question of the queue, reshuffled when empty.  The
\* button stays enabled, and focused, under the question it opened.
AskQuestion ==
    /\ ~ui.gameOver /\ ui.canRoll
    /\ level.questions > 0
    /\ \E pending \in (IF ui.queue # <<>> THEN {ui.queue} ELSE Shuffles(level.questions)) :
          ui' = [ui EXCEPT !.queue = Tail(pending), !.question = Head(pending)]
    /\ UNCHANGED <<level, engine, scene, reports>>

AnswerRight ==
    /\ ~ui.gameOver /\ ui.question # 0
    /\ IF ui.canRoll
       THEN /\ ui' = [ui EXCEPT !.question = 0, !.canRoll = FALSE]
            /\ RollDice
       ELSE /\ ui' = [ui EXCEPT !.question = 0]
            /\ UNCHANGED <<engine, scene>>
    /\ UNCHANGED <<level, reports>>

\* The question goes back to the queue and the turn goes to the AI.
AnswerWrong ==
    /\ ~ui.gameOver /\ ui.question # 0
    /\ ui' = [ui EXCEPT !.question = 0, !.canRoll = FALSE,
                        !.queue = Append(@, ui.question)]
    /\ AiPlay([engine EXCEPT !.state = "ai_turn"])
    /\ UNCHANGED <<level, reports>>

----------------------------------------------------------------------------

Engines(l) ==
    {[state |-> "player_turn", pos |-> [p \in Players |-> l.start], winner |-> "nobody"]}
Uis(l) ==
    {[canRoll |-> FALSE, queue |-> q, question |-> 0, gameOver |-> FALSE] : q \in Shuffles(l.questions)}
Scenes == {[isAnimating |-> FALSE, die |-> "nobody", settled |-> "nobody", tweens |-> {}, aiNext |-> FALSE]}

Init ==
    /\ level \in SnakesLevels
    /\ engine \in Engines(level) /\ ui \in Uis(level) /\ scene \in Scenes
    /\ reports = <<>>

Timers ==
    \/ DieSettles \/ TokenStarts \/ AiTurnComes \/ SampleCanRoll
    \/ \E who \in scene.tweens : TokenArrives(who)

Player == RollFreely \/ AskQuestion \/ AnswerRight \/ AnswerWrong

Next == Timers \/ Player

\* The timers of the page fire; the player need not do anything.
Fairness == WF_vars(Timers)

Spec == Init /\ [][Next]_vars /\ Fairness

----------------------------------------------------------------------------

Cells == 1 .. level.end

TypeOK ==
    /\ level \in SnakesLevels
    /\ engine \in [state : {"player_turn", "ai_turn", "game_over"},
                   pos : [Players -> Int], winner : Players \cup {"nobody"}]
    /\ scene.isAnimating \in BOOLEAN /\ scene.aiNext \in BOOLEAN
    /\ ui.canRoll \in BOOLEAN /\ ui.gameOver \in BOOLEAN
    /\ ui.question \in 0 .. level.questions

\* On a board of six cells or more a token never leaves the board: the bounce
\* of the largest roll (SnakeLadderEngine.rollPlayer, playAITurn) lands on it,
\* and so do the links.  The game draws it in the square where the preview
\* writes its number.
OnBoard ==
    level.end >= 6 =>
        \A p \in Players :
            LET at == MapToGrid(engine.pos[p], level.width, level.height) IN
            /\ engine.pos[p] \in Cells
            /\ CellAt(at.y, at.x, level.width, level.height) = engine.pos[p]

\* The AI's turn is played in the AI's turn only: playAITurn throws otherwise,
\* inside a callback of Phaser, and the loop of the game stops.
AiOnlyInTurn == scene.aiNext => engine.state = "ai_turn"

\* The score is reported once, after somebody reached the goal, and it is 100
\* exactly when that was the player, although two tokens may be moving when the
\* game ends and each of them looks at the engine's state when it arrives.
Won ==
    /\ Len(reports) = 1
    /\ engine.state = "game_over"
    /\ engine.pos[engine.winner] = level.end
    /\ reports[1] = IF engine.winner = "player" THEN 100 ELSE 0

\* While it is the AI's turn, something is on its way that will play it: the
\* player's move still on screen or the pause after it ("the turn is forfeited
\* straight to the AI", SnakeLadderScene.ts:58).
AiTurnIsPlayed ==
    engine.state = "ai_turn" =>
        \/ scene.aiNext
        \/ "player" \in scene.tweens \cup {scene.die, scene.settled}

\* A game that is over is reported: no later move takes the place of the one
\* whose arrival reports it.
OverIsReported == engine.state = "game_over" ~> reports # <<>>
=============================================================================
