----------------------------- MODULE AppProofs -----------------------------
(***************************************************************************)
(* Theorems about App, for every content, whatever the authors and the       *)
(* players do: what the pages promise of a visit (OneSubmission,              *)
(* ShellReleased), and what four of the games promise while they are played   *)
(* on them (OneClock, AiOnlyInTurn, OnBoard, LockedStays), with the scores    *)
(* that three of them report.                                               *)
(***************************************************************************)
EXTENDS App, TLAPS

Editors == {"admin", "maker"}

PageFields ==
    {"template", "origin", "view", "loaded", "submitted", "post", "posts", "result",
     "shellPlaying", "refetches"}

\* What a visit is like: an editor's page does nothing, the first report of
\* a loaded level is the only one that is posted.
VisitInv ==
    /\ DOMAIN page = PageFields
    /\ page.view \in {"admin", "maker", "loading", "play", "error", "left"}
    /\ page.post \in {"none", "sent", "answered", "queued", "dropped", "lost"}
    /\ page.loaded \in BOOLEAN /\ page.submitted \in BOOLEAN
    /\ page.result \in BOOLEAN
    /\ page.view \notin Editors => page.origin \in {"official", "draft", "local"}
    /\ page.view \in {"loading"} \cup Editors => ~page.loaded
    /\ page.view = "play" => page.loaded
    /\ page.submitted => page.loaded
    /\ page.result => page.submitted
    /\ \/ page.post = "none" /\ page.posts = <<>>
       \/ /\ page.post # "none" /\ Len(page.posts) = 1
          /\ page.origin = "official" /\ page.submitted

\* The shell is told that a level is played while the effect of the page or
\* the game on screen will take that back.
ShellInv ==
    page.shellPlaying =>
        page.view # "left" /\ (IsPlaying(page) \/ (Mounted /\ TellsShell))

----------------------------------------------------------------------------

LEMMA AppendToNothing ==
    ASSUME NEW x PROVE Len(Append(<<>>, x)) = 1
<1>1. <<>> \in Seq({x})  OBVIOUS
<1>. QED  BY <1>1

\* No game changes the level it plays.
LEMMA GamesKeepLevel ==
    ASSUME GameTimers \/ GamePlayer
    PROVE  level' = level
<1>1. CASE GameTimers
    BY <1>1 DEF GameTimers, Trivia!Timers, Trivia!Tick, Trivia!NextQuestion,
       Memory!Timers, Memory!Compare, Snakes!Timers, Snakes!DieSettles, Snakes!TokenStarts,
       Snakes!AiTurnComes, Snakes!SampleCanRoll, Snakes!TokenArrives
<1>2. CASE GamePlayer
    BY <1>2 DEF GamePlayer, Trivia!Player, Trivia!Answer, Trivia!Reset, Memory!Player, Memory!Click,
       FakeNews!Player, FakeNews!HandleSwipe, WordSearch!Player, WordSearch!PointerDown,
       WordSearch!PointerMove, WordSearch!PointerUp, WordSearch!MoveCursor, WordSearch!Enter,
       WordSearch!Escape, Puzzle!Player, Puzzle!HandleReorder, Crossword!Player, Crossword!Click,
       Crossword!Blur, Crossword!TypeLetter, Crossword!Arrow, Crossword!Backspace,
       Crossword!Space, Snakes!Player, Snakes!RollFreely, Snakes!AskQuestion,
       Snakes!AnswerRight, Snakes!AnswerWrong
<1>. QED  BY <1>1, <1>2

\* A game is played on a page that was loaded.
LEMMA PlayedIsLoaded ==
    ASSUME VisitInv, GameTimers \/ GamePlayer
    PROVE  page.loaded
<1>1. Mounted \/ Pending  BY DEF GameTimers, GamePlayer
<1>. QED  BY <1>1 DEF VisitInv, Mounted, Pending

\* Whether the level can be played, and in which game, is settled.
LEMMA StaysPlayable ==
    ASSUME level' = level, page'.template = page.template
    PROVE  Playable' = Playable /\ TellsShell' = TellsShell
BY DEF Playable, TellsShell, Is

----------------------------------------------------------------------------

LEMMA VisitBegins == Init => VisitInv
<1>1. ASSUME PageInit PROVE VisitInv
    BY <1>1, PlayedAssumption DEF PageInit, Visit, VisitInv, PageFields, Editors
<1>2. ASSUME page \in {Visit("none", "none", editor) : editor \in {"admin", "maker"}}
      PROVE  VisitInv
    <2>1. PICK editor \in {"admin", "maker"} : page = Visit("none", "none", editor)
        BY <1>2
    <2>. QED  BY <2>1 DEF Visit, VisitInv, PageFields, Editors
<1>. QED  BY <1>1, <1>2 DEF Init

\* The one step that posts: a report of a game, if none was posted before.
LEMMA VisitPlayed ==
    ASSUME VisitInv, page.view \notin Editors, Play
    PROVE  VisitInv'
<1>1. page.loaded  BY PlayedIsLoaded DEF Play
<1>2. CASE UNCHANGED page  BY <1>2 DEF VisitInv
<1>3. CASE page' # page
    <2>1. /\ ~page.submitted /\ page.origin # "draft"
          /\ page' = [page EXCEPT
                !.submitted = TRUE,
                !.post = IF Official THEN "sent" ELSE @,
                !.posts = IF Official THEN Append(@, reports'[Len(reports')]) ELSE @,
                !.result = ~Official,
                !.shellPlaying = IF Official THEN @ ELSE FALSE]
        BY <1>3 DEF Play, FinishLevel
    <2>2. page.posts = <<>> /\ page.post = "none"  BY <2>1 DEF VisitInv
    <2>3. CASE Official
        <3>1. page.origin = "official"  BY <2>1, <2>3 DEF VisitInv, Official, Editors
        <3>2. page'.posts = Append(<<>>, reports'[Len(reports')])
            BY <2>1, <2>2, <2>3 DEF VisitInv, PageFields
        <3>3. Len(page'.posts) = 1  BY <3>2, AppendToNothing
        <3>. QED  BY <1>1, <2>1, <2>3, <3>1, <3>3 DEF VisitInv, PageFields, Editors
    <2>4. CASE ~Official
        BY <1>1, <2>1, <2>2, <2>4 DEF VisitInv, PageFields, Editors
    <2>. QED  BY <2>3, <2>4
<1>. QED  BY <1>2, <1>3

LEMMA VisitGoesOn == VisitInv /\ [Next]_vars => VisitInv'
<1>. SUFFICES ASSUME VisitInv, [Next]_vars PROVE VisitInv'
    OBVIOUS
<1>1. CASE UNCHANGED page  BY <1>1 DEF VisitInv
<1>2. CASE Playing
    <2>0. page.view \notin Editors  BY <1>2 DEF Playing, Editors
    <2>1. CASE Load  BY <2>1 DEF Load, VisitInv, PageFields, Editors, Playable
    <2>2. CASE LoadFails  BY <2>2 DEF LoadFails, VisitInv, PageFields, Editors
    <2>3. CASE Play  BY <2>0, <2>3, VisitPlayed
    <2>4. CASE PostAnswered  BY <2>4 DEF PostAnswered, VisitInv, PageFields, Editors
    <2>5. CASE PostFails  BY <2>5 DEF PostFails, VisitInv, PageFields, Editors
    <2>6. CASE RefetchFails  BY <2>6 DEF RefetchFails, VisitInv, PageFields, Editors
    <2>7. CASE Refetched  BY <2>7 DEF Refetched, VisitInv, PageFields, Editors
    <2>8. CASE Leave
        <3>1. PICK told : page' = [page EXCEPT !.view = "left", !.shellPlaying = told]
            BY <2>8 DEF Leave
        <3>2. page.view \notin Editors  BY <2>0
        <3>. QED  BY <3>1, <3>2 DEF VisitInv, PageFields, Editors
    <2>. QED  BY <1>2, <2>1, <2>2, <2>3, <2>4, <2>5, <2>6, <2>7, <2>8 DEF Playing, PageStep
<1>3. CASE Writing  BY <1>1, <1>3 DEF Writing, pageVars
<1>. QED  BY <1>1, <1>2, <1>3 DEF Next, vars

\* A visit posts at most one attempt, of a published level.
THEOREM OneAttempt == Spec => []OneSubmission
<1>1. VisitInv => OneSubmission
    <2>1. Len(<<>>) = 0  OBVIOUS
    <2>2. VisitInv /\ page.posts = <<>> => OneSubmission
        <3>1. SUFFICES ASSUME VisitInv, page.posts = <<>> PROVE OneSubmission
            OBVIOUS
        <3>2. page.post = "none"  BY <2>1, <3>1 DEF VisitInv
        <3>3. Len(page.posts) = 0  BY <2>1, <3>1
        <3>4. 0 <= IF page.origin = "official" THEN 1 ELSE 0  OBVIOUS
        <3>. QED  BY <3>1, <3>2, <3>3, <3>4 DEF VisitInv, OneSubmission
    <2>3. VisitInv /\ page.posts # <<>> => OneSubmission
        <3>1. SUFFICES ASSUME VisitInv, page.posts # <<>> PROVE OneSubmission
            OBVIOUS
        <3>2. page.post # "none" /\ Len(page.posts) = 1 /\ page.origin = "official"
            BY <3>1 DEF VisitInv
        <3>3. Len(page.posts) <= IF page.origin = "official" THEN 1 ELSE 0  BY <3>2
        <3>. QED  BY <3>1, <3>2, <3>3 DEF VisitInv, OneSubmission
    <2>. QED  BY <2>2, <2>3
<1>. QED  BY <1>1, VisitBegins, VisitGoesOn, PTL DEF Spec

----------------------------------------------------------------------------

LEMMA ShellTold == VisitInv /\ ShellInv /\ [Next]_vars => ShellInv'
<1>. SUFFICES ASSUME VisitInv, ShellInv, [Next]_vars PROVE ShellInv'
    OBVIOUS
<1>1. CASE UNCHANGED pageVars
    BY <1>1 DEF ShellInv, pageVars, IsPlaying, Mounted, Playable, TellsShell, Is
<1>2. CASE Playing
    <2>. USE DEF VisitInv, PageFields, ShellInv, IsPlaying, Mounted
    <2>1. CASE Load
        <3>1. Playable' = Playable  BY <2>1, StaysPlayable DEF Load
        <3>. QED  BY <2>1, <3>1 DEF Load
    <2>2. CASE LoadFails
        <3>1. Playable' = Playable  BY <2>2, StaysPlayable DEF LoadFails, gameVars
        <3>. QED  BY <2>2, <3>1 DEF LoadFails
    <2>3. CASE Play
        <3>1. page'.template = page.template /\ page'.view = page.view /\ page'.loaded = page.loaded
            BY <2>3 DEF Play, FinishLevel
        <3>2. Playable' = Playable /\ TellsShell' = TellsShell
            BY <2>3, <3>1, StaysPlayable, GamesKeepLevel DEF Play
        <3>. QED  BY <2>3, <3>1, <3>2 DEF Play, FinishLevel
    <2>4. CASE PostAnswered
        <3>1. Playable' = Playable /\ TellsShell' = TellsShell
            BY <2>4, StaysPlayable DEF PostAnswered, gameVars
        <3>. QED  BY <2>4, <3>1 DEF PostAnswered
    <2>5. CASE PostFails
        <3>1. Playable' = Playable /\ TellsShell' = TellsShell
            BY <2>5, StaysPlayable DEF PostFails, gameVars
        <3>. QED  BY <2>5, <3>1 DEF PostFails
    <2>6. CASE RefetchFails
        <3>1. Playable' = Playable /\ TellsShell' = TellsShell
            BY <2>6, StaysPlayable DEF RefetchFails, Unmount
        <3>. QED  BY <2>6, <3>1 DEF RefetchFails
    <2>7. CASE Refetched
        <3>1. Playable' = Playable /\ TellsShell' = TellsShell
            BY <2>7, StaysPlayable DEF Refetched
        <3>. QED  BY <2>7, <3>1 DEF Refetched
    <2>8. CASE Leave  BY <2>8 DEF Leave
    <2>. QED  BY <1>2, <2>1, <2>2, <2>3, <2>4, <2>5, <2>6, <2>7, <2>8 DEF Playing, PageStep
<1>. QED  BY <1>1, <1>2 DEF Next, Writing, vars, pageVars

\* Whatever became of the game, the post and the queries, the shell is told that
\* nothing is played once the page was left.
THEOREM ShellIsReleased == Spec => []ShellReleased
<1>1. Init => ShellInv  BY DEF Init, PageInit, Visit, ShellInv
<1>2. ShellInv => ShellReleased  BY DEF ShellInv, ShellReleased
<1>. QED  BY <1>1, <1>2, VisitBegins, VisitGoesOn, ShellTold, PTL DEF Spec

----------------------------------------------------------------------------
(* The games.  What holds of a game from the time it is mounted on; while    *)
(* nothing is loaded there is no engine at all.                             *)

InGame(template) == page.loaded /\ Playable /\ Is(template)

NothingYet == ~page.loaded => engine = <<>>

TriviaEngine ==
    /\ DOMAIN engine = {"state", "timer", "timeouts", "listening"}
    /\ DOMAIN engine.state = {"index", "score", "selected", "isFinished", "timeLeft"}
    /\ engine.timeouts \in Nat
    /\ engine.timer \in BOOLEAN /\ engine.state.isFinished \in BOOLEAN
    /\ Trivia!OneClock

TriviaInv == InGame("trivia") => TriviaEngine

\* A step of the page moves the game on, mounts it anew, takes it off the
\* screen or leaves it as it is.
LEMMA PageSteps ==
    ASSUME VisitInv, [Next]_vars
    PROVE  \/ UNCHANGED <<page, level, engine, ui, scene, reports>>
           \/ /\ (GameTimers \/ GamePlayer) /\ level' = level
              /\ page'.template = page.template /\ page'.loaded = page.loaded
              /\ page.view \notin Editors /\ page.loaded
           \/ /\ Mount /\ level' = level
              /\ page'.template = page.template /\ page'.loaded
              /\ page.view \notin Editors /\ page'.view # page.view
           \/ /\ UNCHANGED <<level, ui, scene, reports>>
              /\ page'.template = page.template /\ page'.loaded = page.loaded
              /\ page.view \notin Editors
              /\ \/ engine' = engine
                 \/ Mounted /\ Is("trivia") /\ engine' = Trivia!Destroyed
<1>1. CASE UNCHANGED <<page, level, engine, ui, scene, reports>>  BY <1>1
<1>2. CASE Playing
    <2>0. page.view \notin Editors  BY <1>2 DEF Playing, Editors
    <2>. USE DEF VisitInv, PageFields
    <2>1. CASE Load  BY <2>0, <2>1 DEF Load
    <2>2. CASE LoadFails  BY <2>0, <2>2 DEF LoadFails, gameVars
    <2>3. CASE Play
        <3>1. page'.template = page.template /\ page'.loaded = page.loaded
            BY <2>3 DEF Play, FinishLevel
        <3>. QED  BY <2>0, <2>3, <3>1, PlayedIsLoaded, GamesKeepLevel DEF Play
    <2>4. CASE PostAnswered  BY <2>0, <2>4 DEF PostAnswered, gameVars
    <2>5. CASE PostFails  BY <2>0, <2>5 DEF PostFails, gameVars
    <2>6. CASE RefetchFails  BY <2>0, <2>6 DEF RefetchFails, Unmount
    <2>7. CASE Refetched  BY <2>0, <2>7 DEF Refetched
    <2>8. CASE Leave
        <3>1. PICK told : page' = [page EXCEPT !.view = "left", !.shellPlaying = told]
            BY <2>8 DEF Leave
        <3>. QED  BY <2>0, <2>8, <3>1 DEF Leave, Unmount
    <2>. QED  BY <1>2, <2>1, <2>2, <2>3, <2>4, <2>5, <2>6, <2>7, <2>8 DEF Playing, PageStep
<1>. QED  BY <1>1, <1>2 DEF Next, Writing, vars, pageVars

\* The clock and the pause of trivia exclude each other at every step of it.
LEMMA TriviaMoves ==
    ASSUME InGame("trivia"), TriviaEngine, GameTimers \/ GamePlayer
    PROVE  TriviaEngine'
<1>. USE DEF TriviaEngine, Trivia!OneClock
<1>1. Trivia!Timers \/ Trivia!Player
    BY DEF GameTimers, GamePlayer, InGame, Is
<1>2. level.questions # 0
    BY DEF InGame, Is, Playable, HasPlayableContent
<1>3. ASSUME NEW answer \in {"right", "wrong", "timeout"}, Trivia!SubmitAnswer(answer),
             engine.timer \/ engine.state.selected = "none"
      PROVE  TriviaEngine'
    <2>1. CASE UNCHANGED engine  BY <2>1
    <2>2. CASE ~(engine.state.isFinished \/ engine.state.selected # "none")
        <3>1. engine.timeouts = 0  BY <2>2
        <3>2. PICK score : engine' = [engine EXCEPT !.timer = FALSE, !.timeouts = @ + 1,
                                         !.state.selected = answer, !.state.score = score]
            BY <1>3, <2>2 DEF Trivia!SubmitAnswer, Trivia!Open
        <3>3. /\ engine'.timer = FALSE /\ engine'.timeouts = 1
              /\ engine'.state = [engine.state EXCEPT !.selected = answer, !.score = score]
              /\ DOMAIN engine' = DOMAIN engine
            BY <3>1, <3>2
        <3>4. /\ engine'.state.selected = answer
              /\ engine'.state.isFinished = engine.state.isFinished
              /\ DOMAIN engine'.state = DOMAIN engine.state
            BY <3>3
        <3>5. ~engine'.timer /\ engine'.timer \in BOOLEAN
              /\ ~engine'.state.isFinished /\ engine'.state.isFinished \in BOOLEAN
            BY <2>2, <3>3, <3>4
        <3>. QED  BY <1>3, <3>3, <3>4, <3>5
    <2>. QED  BY <1>3, <2>1, <2>2 DEF Trivia!SubmitAnswer, Trivia!Open
<1>4. CASE Trivia!Tick
    <2>1. CASE Trivia!SubmitAnswer("timeout")
        BY <1>3, <1>4, <2>1 DEF Trivia!Tick
    <2>2. CASE engine' = [engine EXCEPT !.state.timeLeft = @ - 1]
        <3>1. /\ engine'.state = [engine.state EXCEPT !.timeLeft = @ - 1]
              /\ engine'.timer = engine.timer /\ engine'.timeouts = engine.timeouts
              /\ DOMAIN engine' = DOMAIN engine
            BY <2>2
        <3>2. /\ engine'.state.selected = engine.state.selected
              /\ engine'.state.isFinished = engine.state.isFinished
              /\ DOMAIN engine'.state = DOMAIN engine.state
            BY <3>1
        <3>. QED  BY <3>1, <3>2
    <2>. QED  BY <1>4, <2>1, <2>2 DEF Trivia!Tick
<1>5. CASE Trivia!NextQuestion
    <2>1. engine.timeouts = 1 /\ ~engine.timer /\ ~engine.state.isFinished
        BY <1>5 DEF Trivia!NextQuestion
    <2>2. CASE engine' = [engine EXCEPT !.timeouts = @ - 1, !.timer = TRUE,
                             !.state.index = @ + 1, !.state.selected = "none",
                             !.state.timeLeft = TimePerQuestion]
        <3>1. /\ engine'.state = [engine.state EXCEPT !.index = @ + 1, !.selected = "none",
                                                      !.timeLeft = TimePerQuestion]
              /\ engine'.timer = TRUE /\ engine'.timeouts = 0
              /\ DOMAIN engine' = DOMAIN engine
            BY <2>1, <2>2
        <3>2. /\ engine'.state.isFinished = engine.state.isFinished
              /\ DOMAIN engine'.state = DOMAIN engine.state
            BY <3>1
        <3>3. /\ engine'.timer \in BOOLEAN
              /\ ~engine'.state.isFinished /\ engine'.state.isFinished \in BOOLEAN
            BY <2>1, <3>1, <3>2
        <3>. QED  BY <3>1, <3>2, <3>3
    <2>3. CASE engine' = [engine EXCEPT !.timeouts = @ - 1, !.state.isFinished = TRUE]
        <3>1. /\ engine'.state = [engine.state EXCEPT !.isFinished = TRUE]
              /\ engine'.timer = engine.timer /\ engine'.timeouts = 0
              /\ DOMAIN engine' = DOMAIN engine
            BY <2>1, <2>3
        <3>2. /\ engine'.state.isFinished = TRUE
              /\ DOMAIN engine'.state = DOMAIN engine.state
            BY <3>1
        <3>3. ~engine'.timer /\ engine'.timer \in BOOLEAN
              /\ engine'.state.isFinished \in BOOLEAN
            BY <2>1, <3>1, <3>2
        <3>. QED  BY <3>1, <3>2, <3>3
    <2>. QED  BY <1>5, <2>2, <2>3 DEF Trivia!NextQuestion
<1>6. ASSUME NEW answer \in {"right", "wrong"}, Trivia!Answer(answer)
      PROVE  TriviaEngine'
    BY <1>3, <1>6 DEF Trivia!Answer, Trivia!Open
<1>7. CASE Trivia!Reset
    BY <1>2, <1>7 DEF Trivia!Reset, Trivia!Fresh
<1>. QED  BY <1>1, <1>4, <1>5, <1>6, <1>7 DEF Trivia!Timers, Trivia!Player

LEMMA TriviaMounted ==
    ASSUME InGame("trivia")', page'.template = page.template, level' = level, Mount
    PROVE  TriviaEngine'
<1>1. Playable /\ page.template = "trivia"
    BY DEF InGame, Playable, Is
<1>2. engine' \in Trivia!Engines(level)
    BY <1>1 DEF Mount, Is
<1>3. level.questions # 0
    BY <1>1 DEF Playable, HasPlayableContent
<1>4. engine' = [state |-> Trivia!Fresh(level), timer |-> TRUE, timeouts |-> 0, listening |-> TRUE]
    BY <1>2 DEF Trivia!Engines
<1>5. /\ DOMAIN Trivia!Fresh(level) = {"index", "score", "selected", "isFinished", "timeLeft"}
      /\ Trivia!Fresh(level).isFinished = FALSE
    BY <1>3 DEF Trivia!Fresh
<1>6. /\ engine'.timeouts = 0 /\ engine'.timer \in BOOLEAN
      /\ engine'.state = Trivia!Fresh(level)
      /\ DOMAIN engine' = {"state", "timer", "timeouts", "listening"}
    BY <1>4
<1>7. ~engine'.state.isFinished /\ engine'.state.isFinished \in BOOLEAN
    BY <1>5, <1>6
<1>. QED  BY <1>5, <1>6, <1>7 DEF TriviaEngine, Trivia!OneClock

LEMMA TriviaGoesOn == VisitInv /\ NothingYet /\ TriviaInv /\ [Next]_vars => TriviaInv'
<1>. SUFFICES ASSUME VisitInv, TriviaInv, [Next]_vars, InGame("trivia")' PROVE TriviaEngine'
    BY DEF TriviaInv
<1>1. CASE UNCHANGED <<page, level, engine, ui, scene>>
    BY <1>1 DEF TriviaInv, TriviaEngine, InGame, Is, Playable, Trivia!OneClock
<1>2. ASSUME page'.template = page.template, level' = level, page'.loaded = page.loaded
      PROVE  TriviaEngine /\ InGame("trivia")
    BY <1>2 DEF TriviaInv, InGame, Is, Playable
<1>3. CASE UNCHANGED engine /\ level' = level /\ page'.template = page.template
           /\ page'.loaded = page.loaded
    BY <1>2, <1>3 DEF TriviaEngine, Trivia!OneClock
<1>4. CASE engine' = Trivia!Destroyed /\ level' = level /\ page'.template = page.template
           /\ page'.loaded = page.loaded
    BY <1>2, <1>4 DEF TriviaEngine, Trivia!OneClock, Trivia!Destroyed
<1>. QED  BY <1>1, <1>2, <1>3, <1>4, PageSteps, TriviaMoves, TriviaMounted

LEMMA NothingGoesOn == VisitInv /\ NothingYet /\ [Next]_vars => NothingYet'
BY PageSteps DEF NothingYet, Mounted, VisitInv

LEMMA NothingBegins == Init => NothingYet /\ TriviaInv
BY VisitBegins DEF Init, PageInit, NothingYet, TriviaInv, InGame, Visit

\* The clock and the pause between two questions exclude each other, in every
\* trivia level, on the page and after it was left.
THEOREM OneClockRuns == Spec => []OneClock
<1>1. VisitInv /\ NothingYet /\ TriviaInv => OneClock
    BY DEF NothingYet, TriviaInv, TriviaEngine, InGame, OneClock, Running, VisitInv
<1>. QED  BY <1>1, VisitBegins, VisitGoesOn, NothingBegins, NothingGoesOn, TriviaGoesOn,
             PTL DEF Spec

----------------------------------------------------------------------------
(* Snakes and ladders.                                                      *)

\* Whoever is on the move is not at the goal; a question is asked and a roll
\* offered in the player's turn only.
SnakesEngine ==
    /\ level \in SnakesLevels
    /\ engine \in [state : {"player_turn", "ai_turn", "game_over"},
                   pos : [{"player", "ai"} -> Int], winner : {"player", "ai", "nobody"}]
    /\ DOMAIN ui = {"canRoll", "queue", "question", "gameOver"}
    /\ DOMAIN scene = {"isAnimating", "die", "settled", "tweens", "aiNext"}
    /\ scene.aiNext \in BOOLEAN /\ ui.canRoll \in BOOLEAN
    /\ scene.aiNext => engine.state = "ai_turn"
    /\ ui.canRoll => engine.state = "player_turn"
    /\ ui.question # 0 => engine.state = "player_turn" /\ level.questions # 0
    /\ level.end >= 6 =>
        \A p \in {"player", "ai"} :
            /\ engine.pos[p] \in 1 .. level.end
            /\ engine.state # "game_over" => engine.pos[p] # level.end

SnakesInv == InGame("snakes_ladders") => SnakesEngine

\* The board that a page plays is one the editor writes.
LevelInv == page.view \notin Editors /\ Is("snakes_ladders") => level \in SnakesLevels

LEMMA BoardOf ==
    ASSUME NEW l \in SnakesLevels
    PROVE  /\ l.width \in Nat \ {0} /\ l.height \in Nat \ {0} /\ l.end \in Nat \ {0}
           /\ l.start = 1 /\ l.end = l.width * l.height
           /\ \A link \in l.links : link.to \in 1 .. l.end
<1>1. SnakesContent(l)  BY SnakesLevelsAssumption
<1>2. l.links \subseteq MakeLink(l.end)  BY <1>1 DEF SnakesContent, GeneratedLinks
<1>3. ASSUME NEW link \in l.links PROVE link.to \in 1 .. l.end
    BY <1>2, <1>3 DEF MakeLink
<1>. QED  BY <1>1, <1>3 DEF SnakesContent

\* Wherever a token stands before the goal, a roll of the die, or of what the AI
\* may choose, leaves it on a board of six cells or more.
LEMMA Lands ==
    ASSUME NEW l \in SnakesLevels, NEW p \in Int, NEW roll \in Snakes!AiRolls(l, p)
    PROVE  /\ Snakes!Land(l, p, roll) \in Int
           /\ l.end >= 6 /\ p \in 1 .. l.end /\ p # l.end => Snakes!Land(l, p, roll) \in 1 .. l.end
<1>. DEFINE to == Snakes!Bounce(p + roll, l.end)
<1>1. l.end \in Nat /\ \A link \in l.links : link.to \in 1 .. l.end  BY BoardOf
<1>2. roll \in 1 .. 6 \/ roll = l.end - p  BY DEF Snakes!AiRolls, Snakes!Die
<1>3. roll \in Int  BY <1>1, <1>2
<1>4. to \in Int  BY <1>1, <1>3 DEF Snakes!Bounce
<1>5. l.end >= 6 /\ p \in 1 .. l.end /\ p # l.end => to \in 1 .. l.end
    BY <1>1, <1>2 DEF Snakes!Bounce
<1>6. CASE \E link \in l.links : link.start = to
    <2>1. (CHOOSE link \in l.links : link.start = to) \in l.links  BY <1>6
    <2>. QED  BY <1>1, <1>6, <2>1 DEF Snakes!Land, Snakes!Resolve
<1>7. CASE ~\E link \in l.links : link.start = to
    BY <1>4, <1>5, <1>7 DEF Snakes!Land, Snakes!Resolve
<1>. QED  BY <1>6, <1>7

LEMMA DieIsARoll ==
    ASSUME NEW l, NEW p PROVE Snakes!Die \subseteq Snakes!AiRolls(l, p)
BY DEF Snakes!AiRolls

\* A move of either token: the other stays, and who arrives at the goal ends
\* the game.
LEMMA Moves ==
    ASSUME SnakesEngine, engine.state # "game_over",
           NEW who \in {"player", "ai"}, NEW roll \in Snakes!AiRolls(level, engine.pos[who]),
           NEW at, at = Snakes!Land(level, engine.pos[who], roll),
           level' = level,
           engine' = [state |-> Snakes!Turn(who, at), pos |-> [engine.pos EXCEPT ![who] = at],
                      winner |-> IF at = level.end THEN who ELSE "nobody"]
    PROVE  /\ engine' \in [state : {"player_turn", "ai_turn", "game_over"},
                   pos : [{"player", "ai"} -> Int], winner : {"player", "ai", "nobody"}]
           /\ level'.end >= 6 =>
                \A p \in {"player", "ai"} :
                    /\ engine'.pos[p] \in 1 .. level'.end
                    /\ engine'.state # "game_over" => engine'.pos[p] # level'.end
           /\ who = "ai" => engine'.state # "ai_turn"
<1>1. engine.pos[who] \in Int  BY DEF SnakesEngine
<1>2. /\ at \in Int
      /\ level.end >= 6 => at \in 1 .. level.end
    BY <1>1, Lands DEF SnakesEngine
<1>3. Snakes!Turn(who, at) \in {"player_turn", "ai_turn", "game_over"}  BY DEF Snakes!Turn
<1>4. engine'.pos = [engine.pos EXCEPT ![who] = at]  OBVIOUS
<1>5. engine'.pos \in [{"player", "ai"} -> Int]  BY <1>2, <1>4 DEF SnakesEngine
<1>6. engine'.state # "game_over" => at # level.end  BY DEF Snakes!Turn
<1>7. ASSUME level.end >= 6, NEW p \in {"player", "ai"}
      PROVE  /\ engine'.pos[p] \in 1 .. level.end
             /\ engine'.state # "game_over" => engine'.pos[p] # level.end
    <2>1. engine'.pos[p] = IF p = who THEN at ELSE engine.pos[p]  BY <1>4 DEF SnakesEngine
    <2>. QED  BY <1>2, <1>6, <1>7, <2>1 DEF SnakesEngine
<1>8. who = "ai" => engine'.state # "ai_turn"  BY DEF Snakes!Turn
<1>. QED  BY <1>3, <1>5, <1>7, <1>8

\* The player's roll, if there is one: it is offered in the player's turn.
LEMMA PlayerRolls ==
    ASSUME SnakesEngine, ui.canRoll, Snakes!RollDice, level' = level,
           DOMAIN ui' = DOMAIN ui, ui'.canRoll = FALSE, ui'.question = 0
    PROVE  SnakesEngine'
<1>0. engine.state = "player_turn" /\ ~scene.aiNext  BY DEF SnakesEngine
<1>1. CASE UNCHANGED <<engine, scene>>
    BY <1>0, <1>1 DEF SnakesEngine
<1>2. CASE ~scene.isAnimating
    <2>1. PICK roll \in Snakes!Die : Snakes!EngineMove("player", roll) /\ Snakes!Tumble("player")
        BY <1>0, <1>2 DEF Snakes!RollDice
    <2>2. roll \in Snakes!AiRolls(level, engine.pos["player"])  BY DieIsARoll
    <2>3. engine' = [state |-> Snakes!Turn("player", Snakes!Land(level, engine.pos["player"], roll)),
                     pos |-> [engine.pos EXCEPT !["player"] = Snakes!Land(level, engine.pos["player"], roll)],
                     winner |-> IF Snakes!Land(level, engine.pos["player"], roll) = level.end
                                THEN "player" ELSE "nobody"]
        BY <2>1 DEF Snakes!EngineMove
    <2>4. scene'.aiNext = scene.aiNext /\ DOMAIN scene' = DOMAIN scene
        BY <2>1 DEF Snakes!Tumble, SnakesEngine
    <2>. QED  BY <1>0, <2>2, <2>3, <2>4, Moves DEF SnakesEngine
<1>. QED  BY <1>0, <1>1, <1>2 DEF Snakes!RollDice

\* A wrong answer: the AI's turn, played at once or (while a token moves) never.
LEMMA AiIsCalled ==
    ASSUME SnakesEngine, Snakes!AnswerWrong
    PROVE  SnakesEngine'
<1>. DEFINE e == [engine EXCEPT !.state = "ai_turn"]
<1>0. /\ engine.state = "player_turn" /\ ~scene.aiNext
      /\ level' = level /\ Snakes!AiPlay(e)
      /\ DOMAIN ui' = DOMAIN ui /\ ui'.canRoll = FALSE /\ ui'.question = 0
    BY DEF Snakes!AnswerWrong, SnakesEngine
<1>1. e.pos = engine.pos /\ e.state = "ai_turn" /\ e.winner = engine.winner
      /\ e \in [state : {"player_turn", "ai_turn", "game_over"},
                pos : [{"player", "ai"} -> Int], winner : {"player", "ai", "nobody"}]
    BY DEF SnakesEngine
<1>2. CASE scene.isAnimating
    <2>1. engine' = e /\ scene' = scene  BY <1>0, <1>2 DEF Snakes!AiPlay
    <2>. QED  BY <1>0, <1>1, <2>1 DEF SnakesEngine
<1>3. CASE ~scene.isAnimating
    <2>1. PICK roll \in Snakes!AiRolls(level, engine.pos["ai"]) :
            /\ engine' = [state |-> Snakes!Turn("ai", Snakes!Land(level, engine.pos["ai"], roll)),
                          pos |-> [engine.pos EXCEPT !["ai"] = Snakes!Land(level, engine.pos["ai"], roll)],
                          winner |-> IF Snakes!Land(level, engine.pos["ai"], roll) = level.end
                                     THEN "ai" ELSE "nobody"]
            /\ Snakes!Tumble("ai")
        BY <1>0, <1>1, <1>3 DEF Snakes!AiPlay, Snakes!PlayAITurnAnimated
    <2>2. scene'.aiNext = scene.aiNext /\ DOMAIN scene' = DOMAIN scene
        BY <2>1 DEF Snakes!Tumble, SnakesEngine
    <2>. QED  BY <1>0, <2>1, <2>2, Moves DEF SnakesEngine
<1>. QED  BY <1>2, <1>3

LEMMA SnakesMoves ==
    ASSUME InGame("snakes_ladders"), SnakesEngine, GameTimers \/ GamePlayer
    PROVE  SnakesEngine'
<1>0. Snakes!Timers \/ Snakes!Player
    BY DEF GameTimers, GamePlayer, InGame, Is
<1>1. CASE Snakes!DieSettles  BY <1>1 DEF Snakes!DieSettles, SnakesEngine
<1>2. CASE Snakes!TokenStarts  BY <1>2 DEF Snakes!TokenStarts, SnakesEngine
<1>3. ASSUME NEW who, Snakes!TokenArrives(who) PROVE SnakesEngine'
    <2>1. UNCHANGED <<level, engine>>  BY <1>3 DEF Snakes!TokenArrives
    <2>2. DOMAIN ui' = DOMAIN ui /\ ui'.canRoll = ui.canRoll /\ ui'.question = ui.question
        BY <1>3 DEF Snakes!TokenArrives, Snakes!GameOver, SnakesEngine
    <2>3. /\ DOMAIN scene' = DOMAIN scene
          /\ scene'.aiNext = (scene.aiNext \/ Snakes!Arrived(who) = "ai_next")
        BY <1>3 DEF Snakes!TokenArrives, SnakesEngine
    <2>4. Snakes!Arrived(who) = "ai_next" => engine.state = "ai_turn"
        BY DEF Snakes!Arrived
    <2>. QED  BY <2>1, <2>2, <2>3, <2>4 DEF SnakesEngine
<1>4. CASE Snakes!AiTurnComes
    <2>1. PICK roll \in Snakes!AiRolls(level, engine.pos["ai"]) :
            /\ Snakes!EngineMove("ai", roll)
            /\ scene' = [scene EXCEPT !.aiNext = FALSE, !.die = "ai"]
        BY <1>4 DEF Snakes!AiTurnComes
    <2>2. engine' = [state |-> Snakes!Turn("ai", Snakes!Land(level, engine.pos["ai"], roll)),
                     pos |-> [engine.pos EXCEPT !["ai"] = Snakes!Land(level, engine.pos["ai"], roll)],
                     winner |-> IF Snakes!Land(level, engine.pos["ai"], roll) = level.end
                                THEN "ai" ELSE "nobody"]
        BY <2>1 DEF Snakes!EngineMove
    <2>3. engine.state = "ai_turn" /\ UNCHANGED <<level, ui>>
        BY <1>4 DEF Snakes!AiTurnComes, SnakesEngine
    <2>4. scene'.aiNext = FALSE /\ DOMAIN scene' = DOMAIN scene
        BY <2>1 DEF SnakesEngine
    <2>. QED  BY <2>1, <2>2, <2>3, <2>4, Moves DEF SnakesEngine
<1>5. CASE Snakes!SampleCanRoll
    <2>1. /\ UNCHANGED <<level, engine, scene>>
          /\ ui' = [ui EXCEPT !.canRoll = engine.state = "player_turn" /\ ~scene.isAnimating]
        BY <1>5 DEF Snakes!SampleCanRoll
    <2>2. DOMAIN ui' = DOMAIN ui /\ ui'.question = ui.question
          /\ ui'.canRoll = (engine.state = "player_turn" /\ ~scene.isAnimating)
        BY <2>1 DEF SnakesEngine
    <2>. QED  BY <2>1, <2>2 DEF SnakesEngine
<1>6. CASE Snakes!RollFreely
    <2>1. ui.question = 0  BY <1>6 DEF Snakes!RollFreely, SnakesEngine
    <2>2. DOMAIN ui' = DOMAIN ui /\ ui'.canRoll = FALSE /\ ui'.question = 0
        BY <1>6, <2>1 DEF Snakes!RollFreely, SnakesEngine
    <2>. QED  BY <1>6, <2>2, PlayerRolls DEF Snakes!RollFreely
<1>7. CASE Snakes!AskQuestion
    <2>1. UNCHANGED <<level, engine, scene>> /\ ui.canRoll /\ level.questions # 0
        BY <1>7 DEF Snakes!AskQuestion
    <2>2. PICK queue, question : ui' = [ui EXCEPT !.queue = queue, !.question = question]
        BY <1>7 DEF Snakes!AskQuestion
    <2>3. DOMAIN ui' = DOMAIN ui /\ ui'.canRoll = ui.canRoll
        BY <2>2 DEF SnakesEngine
    <2>. QED  BY <2>1, <2>3 DEF SnakesEngine
<1>8. CASE Snakes!AnswerRight
    <2>1. CASE ui.canRoll
        <3>1. DOMAIN ui' = DOMAIN ui /\ ui'.canRoll = FALSE /\ ui'.question = 0
            BY <1>8, <2>1 DEF Snakes!AnswerRight, SnakesEngine
        <3>. QED  BY <1>8, <2>1, <3>1, PlayerRolls DEF Snakes!AnswerRight
    <2>2. CASE ~ui.canRoll
        BY <1>8, <2>2 DEF Snakes!AnswerRight, SnakesEngine
    <2>. QED  BY <2>1, <2>2
<1>9. CASE Snakes!AnswerWrong  BY <1>9, AiIsCalled
<1>. QED  BY <1>0, <1>1, <1>2, <1>3, <1>4, <1>5, <1>6, <1>7, <1>8, <1>9
          DEF Snakes!Timers, Snakes!Player

LEMMA SnakesMounted ==
    ASSUME InGame("snakes_ladders")', page'.template = page.template, level' = level, Mount,
           level \in SnakesLevels
    PROVE  SnakesEngine'
<1>1. Playable /\ page.template = "snakes_ladders"
    BY DEF InGame, Playable, Is
<1>2. /\ engine' \in Snakes!Engines(level) /\ ui' \in Snakes!Uis(level)
      /\ scene' \in Snakes!Scenes
    BY <1>1 DEF Mount, Is
<1>3. engine' = [state |-> "player_turn", pos |-> [p \in {"player", "ai"} |-> level.start],
                 winner |-> "nobody"]
    BY <1>2 DEF Snakes!Engines, Snakes!Players
<1>4. /\ DOMAIN ui' = {"canRoll", "queue", "question", "gameOver"}
      /\ ui'.canRoll = FALSE /\ ui'.question = 0
    BY <1>2 DEF Snakes!Uis
<1>5. /\ DOMAIN scene' = {"isAnimating", "die", "settled", "tweens", "aiNext"}
      /\ scene'.aiNext = FALSE
    BY <1>2 DEF Snakes!Scenes
<1>6. level.start = 1 /\ level.end \in Nat \ {0}  BY BoardOf
<1>7. /\ engine'.pos \in [{"player", "ai"} -> Int]
      /\ \A p \in {"player", "ai"} : engine'.pos[p] = 1
    BY <1>3, <1>6
<1>8. /\ engine' \in [state : {"player_turn", "ai_turn", "game_over"},
                     pos : [{"player", "ai"} -> Int], winner : {"player", "ai", "nobody"}]
      /\ engine'.state = "player_turn"
    BY <1>3, <1>7
<1>9. level.end >= 6 => 1 \in 1 .. level.end /\ 1 # level.end  BY <1>6
<1>. QED  BY <1>4, <1>5, <1>7, <1>8, <1>9 DEF SnakesEngine

LEMMA LevelGoesOn == VisitInv /\ LevelInv /\ [Next]_vars => LevelInv'
<1>. SUFFICES ASSUME VisitInv, LevelInv, [Next]_vars PROVE LevelInv'
    OBVIOUS
<1>1. CASE UNCHANGED <<page, level, engine, ui, scene>>
    BY <1>1 DEF LevelInv, Is
<1>2. CASE level' = level /\ page'.template = page.template /\ page.view \notin Editors
    BY <1>2 DEF LevelInv, Is
<1>. QED  BY <1>1, <1>2, PageSteps

LEMMA SnakesGoesOn == VisitInv /\ LevelInv /\ SnakesInv /\ [Next]_vars => SnakesInv'
<1>. SUFFICES ASSUME VisitInv, LevelInv, SnakesInv, [Next]_vars, InGame("snakes_ladders")'
              PROVE  SnakesEngine'
    BY DEF SnakesInv
<1>1. CASE UNCHANGED <<page, level, engine, ui, scene>>
    BY <1>1 DEF SnakesInv, SnakesEngine, InGame, Is, Playable
<1>2. ASSUME page'.template = page.template, level' = level, page'.loaded = page.loaded
      PROVE  SnakesEngine /\ InGame("snakes_ladders")
    BY <1>2 DEF SnakesInv, InGame, Is, Playable
<1>3. CASE UNCHANGED <<level, ui, scene>> /\ page'.template = page.template
           /\ page'.loaded = page.loaded /\ (engine' = engine \/ Is("trivia"))
    <2>1. engine' = engine  BY <1>2, <1>3 DEF InGame, Is
    <2>. QED  BY <1>2, <1>3, <2>1 DEF SnakesEngine
<1>4. ASSUME Mount, level' = level, page'.template = page.template, page.view \notin Editors
      PROVE  SnakesEngine'
    <2>1. level \in SnakesLevels  BY <1>4 DEF LevelInv, InGame, Is
    <2>. QED  BY <1>4, <2>1, SnakesMounted
<1>. QED  BY <1>1, <1>2, <1>3, <1>4, PageSteps, SnakesMoves

LEMMA SnakesBegins == Init => LevelInv /\ SnakesInv
<1>1. ASSUME PageInit PROVE LevelInv /\ SnakesInv
    <2>1. PICK p \in Played : /\ page = Visit(p[1].shape, p[2], "loading")
                              /\ level = Normalize(p[1].shape, p[1])
        BY <1>1 DEF PageInit
    <2>2. p[1].shape = "snakes_ladders" => level \in SnakesLevels
        BY <2>1, PlayedAssumption DEF Normalize
    <2>. QED  BY <2>1, <2>2 DEF Visit, LevelInv, Is, SnakesInv, InGame
<1>2. ASSUME page \in {Visit("none", "none", editor) : editor \in {"admin", "maker"}}
      PROVE  LevelInv /\ SnakesInv
    <2>1. PICK editor \in {"admin", "maker"} : page = Visit("none", "none", editor)
        BY <1>2
    <2>. QED  BY <2>1 DEF Visit, LevelInv, Is, SnakesInv, InGame
<1>. QED  BY <1>1, <1>2 DEF Init

\* The AI's turn is started in the AI's turn only, on every board.
THEOREM AiInTurn == Spec => []AiOnlyInTurn
<1>1. VisitInv /\ NothingYet /\ SnakesInv => AiOnlyInTurn
    BY DEF NothingYet, SnakesInv, SnakesEngine, InGame, AiOnlyInTurn, Running, VisitInv,
           Snakes!AiOnlyInTurn
<1>. QED  BY <1>1, VisitBegins, VisitGoesOn, NothingBegins, NothingGoesOn, SnakesBegins,
             LevelGoesOn, SnakesGoesOn, PTL DEF Spec

----------------------------------------------------------------------------

\* The game draws a position in the square where the preview writes its number.
LEMMA SameSquare ==
    ASSUME NEW w \in Nat \ {0}, NEW h \in Nat \ {0}, NEW p \in Nat \ {0},
           NEW at, at = Snakes!MapToGrid(p, w, h)
    PROVE  Snakes!CellAt(at.y, at.x, w, h) = p
<1>. DEFINE row == (p - 1) \div w
            col == (p - 1) % w
<1>1. row \in Int /\ col \in Int /\ p - 1 = w * row + col  OBVIOUS
<1>2. at.y = h - 1 - row /\ at.x = IF row % 2 = 0 THEN col ELSE w - 1 - col
    BY DEF Snakes!MapToGrid
<1>3. h - 1 - at.y = row  BY <1>1, <1>2
<1>4. Snakes!CellAt(at.y, at.x, w, h)
        = row * w + (IF row % 2 = 0 THEN at.x ELSE w - 1 - at.x) + 1
    BY <1>3 DEF Snakes!CellAt
<1>5. (IF row % 2 = 0 THEN at.x ELSE w - 1 - at.x) = col  BY <1>1, <1>2
<1>6. row * w = w * row  BY <1>1
<1>. QED  BY <1>1, <1>4, <1>5, <1>6

\* On every board of six cells or more no token leaves the board, whatever is
\* rolled and wherever the links lead, and it is drawn where it stands.
THEOREM TokensOnBoard == Spec => []OnBoard
<1>1. ASSUME SnakesEngine PROVE Snakes!OnBoard
    <2>1. SUFFICES ASSUME level.end >= 6, NEW p \in {"player", "ai"},
                          NEW at, at = Snakes!MapToGrid(engine.pos[p], level.width, level.height)
                   PROVE  /\ engine.pos[p] \in 1 .. level.end
                          /\ Snakes!CellAt(at.y, at.x, level.width, level.height) = engine.pos[p]
        BY DEF Snakes!OnBoard, Snakes!Cells, Snakes!Players
    <2>2. engine.pos[p] \in 1 .. level.end  BY <1>1, <2>1 DEF SnakesEngine
    <2>3. level.width \in Nat \ {0} /\ level.height \in Nat \ {0} /\ level.end \in Nat
        BY <1>1, BoardOf DEF SnakesEngine
    <2>4. engine.pos[p] \in Nat \ {0}  BY <2>2, <2>3
    <2>. QED  BY <2>1, <2>2, <2>3, <2>4, SameSquare
<1>2. VisitInv /\ NothingYet /\ SnakesInv => OnBoard
    BY <1>1 DEF NothingYet, SnakesInv, InGame, OnBoard, Running, VisitInv
<1>. QED  BY <1>2, VisitBegins, VisitGoesOn, NothingBegins, NothingGoesOn, SnakesBegins,
             LevelGoesOn, SnakesGoesOn, PTL DEF Spec

----------------------------------------------------------------------------
(* The crossword.                                                           *)

\* The cells whose letters are right.
Right(e) == {c \in DOMAIN e.user : <<c, e.user[c]>> \in e.letters}

\* Only right letters are locked.
CrosswordState(e) ==
    /\ DOMAIN e = {"letters", "placed", "user", "cell", "vertical", "locked", "score", "isFinished"}
    /\ e.locked \subseteq Right(e)

CrosswordInv == InGame("crossword") => CrosswordState(engine)

\* What an operation of the engine takes and gives.
Operand(g) == DOMAIN g = {"e", "r"} /\ CrosswordState(g.e)

\* What becomes of it: nothing is unlocked.
Follows(g, next) == Operand(next) /\ g.e.locked \subseteq next.e.locked

LEMMA Notified ==
    ASSUME NEW g, DOMAIN g = {"e", "r"}
    PROVE  Crossword!Notify(g).e = g.e /\ DOMAIN Crossword!Notify(g) = {"e", "r"}
BY DEF Crossword!Notify

LEMMA Validated ==
    ASSUME NEW e,
           DOMAIN e = {"letters", "placed", "user", "cell", "vertical", "locked", "score", "isFinished"}
    PROVE  /\ CrosswordState(Crossword!Validate(e))
           /\ Crossword!Validate(e).locked = Right(e)
<1>. DEFINE v == Crossword!Validate(e)
<1>1. PICK score, over : v = [e EXCEPT !.locked = Right(e), !.score = score, !.isFinished = over]
    BY DEF Crossword!Validate, Right
<1>2. /\ DOMAIN v = DOMAIN e /\ v.locked = Right(e)
      /\ v.user = e.user /\ v.letters = e.letters
    BY <1>1
<1>. HIDE DEF v
<1>3. Right(v) = Right(e)  BY <1>2 DEF Right
<1>. QED  BY <1>2, <1>3 DEF CrosswordState, v

LEMMA Typing ==
    ASSUME NEW g, Operand(g), NEW ch
    PROVE  Follows(g, Crossword!InputChar(g, ch))
<1>. DEFINE e == g.e
            to == IF ch # Crossword!Blank /\ Crossword!Ahead(e) \in DOMAIN e.user
                  THEN Crossword!Ahead(e) ELSE e.cell
            typed == [e EXCEPT !.user = [e.user EXCEPT ![e.cell] = ch], !.cell = to]
            next == [g EXCEPT !.e = Crossword!Validate(typed)]
<1>1. CASE Crossword!InputChar(g, ch) = g
    BY <1>1 DEF Follows, Operand
<1>2. CASE e.cell \notin e.locked /\ Crossword!InputChar(g, ch) = Crossword!Notify(next)
    <2>1. /\ DOMAIN typed = DOMAIN e /\ typed.letters = e.letters
          /\ typed.user = [e.user EXCEPT ![e.cell] = ch]
        BY DEF Operand, CrosswordState
    <2>2. CrosswordState(Crossword!Validate(typed)) /\ Crossword!Validate(typed).locked = Right(typed)
        BY <2>1, Validated DEF Operand, CrosswordState
    <2>3. ASSUME NEW c \in e.locked PROVE c \in Right(typed)
        <3>1. c \in DOMAIN e.user /\ <<c, e.user[c]>> \in e.letters
            BY DEF Operand, CrosswordState, Right
        <3>2. c # e.cell  BY <1>2
        <3>3. c \in DOMAIN typed.user /\ typed.user[c] = e.user[c]  BY <2>1, <3>1, <3>2
        <3>. QED  BY <2>1, <3>1, <3>3 DEF Right
    <2>4. next.e = Crossword!Validate(typed) /\ DOMAIN next = {"e", "r"}  BY DEF Operand
    <2>5. /\ Crossword!Notify(next).e = Crossword!Validate(typed)
          /\ DOMAIN Crossword!Notify(next) = {"e", "r"}
        BY <2>4, Notified
    <2>. QED  BY <1>2, <2>2, <2>3, <2>5 DEF Follows, Operand
<1>. QED  BY <1>1, <1>2 DEF Crossword!InputChar

\* A move of the selection changes no letter.
LEMMA Selecting ==
    ASSUME NEW g, Operand(g), NEW c, NEW turned
    PROVE  /\ Follows(g, Crossword!Notify([g EXCEPT !.e.cell = c]))
           /\ Follows(g, Crossword!Notify([g EXCEPT !.e.cell = c, !.e.vertical = turned]))
<1>1. ASSUME NEW n, DOMAIN n = {"e", "r"}, DOMAIN n.e = DOMAIN g.e, n.e.user = g.e.user,
             n.e.letters = g.e.letters, n.e.locked = g.e.locked
      PROVE  Follows(g, Crossword!Notify(n))
    <2>1. Crossword!Notify(n).e = n.e /\ DOMAIN Crossword!Notify(n) = {"e", "r"}
        BY <1>1, Notified
    <2>2. CrosswordState(n.e)  BY <1>1 DEF Operand, CrosswordState, Right
    <2>. QED  BY <1>1, <2>1, <2>2 DEF Follows, Operand
<1>2. DEFINE one == [g EXCEPT !.e.cell = c]
<1>3. /\ DOMAIN one = {"e", "r"} /\ DOMAIN one.e = DOMAIN g.e /\ one.e.user = g.e.user
      /\ one.e.letters = g.e.letters /\ one.e.locked = g.e.locked
    BY DEF Operand, CrosswordState
<1>4. DEFINE both == [g EXCEPT !.e.cell = c, !.e.vertical = turned]
<1>5. /\ DOMAIN both = {"e", "r"} /\ DOMAIN both.e = DOMAIN g.e /\ both.e.user = g.e.user
      /\ both.e.letters = g.e.letters /\ both.e.locked = g.e.locked
    BY DEF Operand, CrosswordState
<1>6. Follows(g, Crossword!Notify(one))  BY <1>1, <1>3
<1>7. Follows(g, Crossword!Notify(both))  BY <1>1, <1>5
<1>. QED  BY <1>6, <1>7

LEMMA Navigating ==
    ASSUME NEW g, Operand(g), NEW d
    PROVE  Follows(g, Crossword!Navigate(g, d))
BY Selecting DEF Crossword!Navigate, Follows, Operand

LEMMA FollowsTwice ==
    ASSUME NEW g, NEW one, NEW two, Follows(g, one), Follows(one, two)
    PROVE  Follows(g, two)
BY DEF Follows

LEMMA CrosswordMoves ==
    ASSUME CrosswordState(engine), Crossword!Player
    PROVE  CrosswordState(engine') /\ engine.locked \subseteq engine'.locked
<1>. DEFINE g == Crossword!Game
<1>1. Operand(g) /\ g.e = engine  BY DEF Operand, Crossword!Game
<1>. HIDE DEF g
<1>2. ASSUME NEW n, Follows(g, n), Crossword!Becomes(n)
      PROVE  CrosswordState(engine') /\ engine.locked \subseteq engine'.locked
    BY <1>1, <1>2 DEF Follows, Operand, Crossword!Becomes
<1>3. ASSUME NEW c, Crossword!Click(c) PROVE \E n : Follows(g, n) /\ Crossword!Becomes(n)
    BY <1>1, <1>3, Selecting DEF Crossword!Click, Crossword!SelectCell, g
<1>4. ASSUME NEW ch, Crossword!TypeLetter(ch)
      PROVE  \E n : Follows(g, n) /\ Crossword!Becomes(n)
    <2>1. Follows(g, Crossword!InputChar(g, ch))  BY <1>1, Typing
    <2>2. Follows(g, Crossword!InputChar(Crossword!InputChar(g, ch), ch))
        BY <2>1, Typing, FollowsTwice DEF Follows
    <2>3. \/ Crossword!Becomes(Crossword!InputChar(Crossword!InputChar(g, ch), ch))
          \/ Crossword!Becomes(Crossword!InputChar(g, ch))
        BY <1>4 DEF Crossword!TypeLetter, Crossword!Twice, g
    <2>. QED  BY <2>1, <2>2, <2>3
<1>5. ASSUME NEW d, Crossword!Arrow(d) PROVE \E n : Follows(g, n) /\ Crossword!Becomes(n)
    <2>1. Follows(g, Crossword!Navigate(g, d))  BY <1>1, Navigating
    <2>2. Follows(g, Crossword!Navigate(Crossword!Navigate(g, d), d))
        BY <2>1, Navigating, FollowsTwice DEF Follows
    <2>3. \/ Crossword!Becomes(Crossword!Navigate(Crossword!Navigate(g, d), d))
          \/ Crossword!Becomes(Crossword!Navigate(g, d))
        BY <1>5 DEF Crossword!Arrow, Crossword!Twice, g
    <2>. QED  BY <2>1, <2>2, <2>3
<1>6. CASE Crossword!Backspace
    <2>. DEFINE cleared == Crossword!InputChar(g, Crossword!Blank)
    <2>1. Follows(g, cleared)  BY <1>1, Typing
    <2>2. PICK d : Crossword!Becomes(Crossword!Navigate(cleared, d))
        BY <1>6 DEF Crossword!Backspace, g
    <2>3. Follows(g, Crossword!Navigate(cleared, d))
        BY <2>1, Navigating, FollowsTwice DEF Follows
    <2>. QED  BY <1>2, <2>2, <2>3
<1>7. CASE Crossword!Space
    BY <1>1, <1>2, <1>7, Typing DEF Crossword!Space, g
<1>8. CASE Crossword!Blur
    BY <1>8 DEF Crossword!Blur
<1>. QED  BY <1>2, <1>3, <1>4, <1>5, <1>6, <1>7, <1>8 DEF Crossword!Player

LEMMA CrosswordMounted ==
    ASSUME InGame("crossword")', page'.template = page.template, level' = level, Mount
    PROVE  CrosswordState(engine')
<1>1. Playable /\ page.template = "crossword"
    BY DEF InGame, Playable, Is
<1>2. engine' \in Crossword!Engines(level)
    BY <1>1 DEF Mount, Is
<1>. QED  BY <1>2 DEF Crossword!Engines, CrosswordState, Right

LEMMA CrosswordStep ==
    ASSUME VisitInv, CrosswordInv, [Next]_vars
    PROVE  /\ CrosswordInv'
           /\ InGame("crossword") /\ page'.view = page.view => engine.locked \subseteq engine'.locked
<1>1. CASE UNCHANGED <<page, level, engine, ui, scene>>
    BY <1>1 DEF CrosswordInv, CrosswordState, Right, InGame, Is, Playable
<1>2. ASSUME page'.template = page.template, level' = level, page'.loaded = page.loaded
      PROVE  /\ InGame("crossword")' <=> InGame("crossword")
             /\ InGame("crossword") => CrosswordState(engine)
    BY <1>2 DEF CrosswordInv, InGame, Is, Playable
<1>3. CASE level' = level /\ page'.template = page.template /\ page'.loaded = page.loaded
           /\ (engine' = engine \/ Is("trivia"))
    <2>1. InGame("crossword") => engine' = engine  BY <1>3 DEF InGame, Is
    <2>. QED  BY <1>2, <1>3, <2>1 DEF CrosswordInv
<1>4. CASE /\ GameTimers \/ GamePlayer
           /\ level' = level /\ page'.template = page.template /\ page'.loaded = page.loaded
    <2>1. InGame("crossword") => Crossword!Player
        BY <1>4 DEF InGame, Is, GameTimers, GamePlayer
    <2>. QED  BY <1>2, <1>4, <2>1, CrosswordMoves DEF CrosswordInv
<1>5. CASE Mount /\ level' = level /\ page'.template = page.template /\ page'.view # page.view
    BY <1>5, CrosswordMounted DEF CrosswordInv
<1>. QED  BY <1>1, <1>3, <1>4, <1>5, PageSteps

\* However keys and clicks are mixed, and although a key may reach the engine
\* twice, a right letter of a crossword is never lost.
THEOREM RightLettersStay == Spec => LockedStays
<1>1. Init => CrosswordInv
    BY VisitBegins DEF Init, PageInit, CrosswordInv, InGame, Visit
<1>2. VisitInv /\ CrosswordInv /\ [Next]_vars => CrosswordInv'
    BY CrosswordStep
<1>3. VisitInv /\ NothingYet /\ CrosswordInv /\ [Next]_vars
        => [Running /\ Is("crossword") /\ page'.refetches = page.refetches /\ page'.view = page.view
              => engine.locked \subseteq engine'.locked]_pageVars
    BY CrosswordStep DEF NothingYet, Running, InGame, VisitInv
<1>. QED  BY <1>1, <1>2, <1>3, VisitBegins, VisitGoesOn, NothingBegins, NothingGoesOn,
             PTL DEF Spec, LockedStays

----------------------------------------------------------------------------
(* Reports are earned: the part of ReportsAreEarned that concerns the games   *)
(* whose score is not counted over a set or a sequence of the level.         *)

SnakesScored ==
    /\ ui.gameOver \in BOOLEAN
    /\ engine.state = "game_over" =>
        engine.winner \in {"player", "ai"} /\ engine.pos[engine.winner] = level.end
    /\ ~ui.gameOver => reports = <<>>
    /\ ui.gameOver => /\ engine.state = "game_over"
                      /\ reports = <<IF engine.winner = "player" THEN 100 ELSE 0>>

PuzzleScored ==
    /\ DOMAIN engine = {"pieces", "isFinished", "score", "moves"}
    /\ engine.moves \in Nat /\ engine.isFinished \in BOOLEAN
    /\ ~engine.isFinished => reports = <<>>
    /\ engine.isFinished => /\ Puzzle!InOrder(engine.pieces)
                            /\ reports = <<engine.score>> /\ engine.score \in 100 .. 990

FakeNewsScored ==
    /\ ui.currentItem # 0 => reports = <<>>
    /\ reports # <<>> => FakeNews!Won

ScoredInv ==
    /\ InGame("snakes_ladders") => SnakesScored
    /\ InGame("puzzle") => PuzzleScored
    /\ InGame("fake_news") => FakeNewsScored

LEMMA AppendOne ==
    ASSUME NEW x PROVE Append(<<>>, x) = <<x>>
OBVIOUS

\* A move that the rules allow names the winner when it ends the game.
LEMMA WinnerAtGoal ==
    ASSUME SnakesEngine, NEW who \in {"player", "ai"}, NEW at,
           engine' = [state |-> Snakes!Turn(who, at), pos |-> [engine.pos EXCEPT ![who] = at],
                      winner |-> IF at = level.end THEN who ELSE "nobody"]
    PROVE  engine'.state = "game_over" =>
                engine'.winner = who /\ engine'.pos[who] = level.end
<1>1. engine'.state = "game_over" => at = level.end  BY DEF Snakes!Turn
<1>2. engine'.pos[who] = at  BY DEF SnakesEngine
<1>. QED  BY <1>1, <1>2

\* Snakes and ladders reports when the last move has arrived, and then no more.
LEMMA SnakesScores ==
    ASSUME SnakesEngine, SnakesScored, Snakes!Timers \/ Snakes!Player
    PROVE  SnakesScored'
<1>0. ~ui.gameOver /\ level' = level
    BY DEF Snakes!Timers, Snakes!Player, Snakes!DieSettles, Snakes!TokenStarts,
           Snakes!AiTurnComes, Snakes!SampleCanRoll, Snakes!TokenArrives, Snakes!RollFreely,
           Snakes!AskQuestion, Snakes!AnswerRight, Snakes!AnswerWrong
<1>1. reports = <<>>  BY <1>0 DEF SnakesScored
<1>2. ASSUME UNCHANGED <<engine, reports>>, ui'.gameOver = ui.gameOver
      PROVE  SnakesScored'
    BY <1>0, <1>2 DEF SnakesScored
<1>3. ASSUME NEW who \in {"player", "ai"}, NEW at,
             engine' = [state |-> Snakes!Turn(who, at), pos |-> [engine.pos EXCEPT ![who] = at],
                        winner |-> IF at = level.end THEN who ELSE "nobody"],
             reports' = reports, ui'.gameOver = ui.gameOver
      PROVE  SnakesScored'
    BY <1>0, <1>3, WinnerAtGoal DEF SnakesScored
<1>4. CASE Snakes!DieSettles  BY <1>2, <1>4 DEF Snakes!DieSettles
<1>5. CASE Snakes!TokenStarts  BY <1>2, <1>5 DEF Snakes!TokenStarts
<1>6. ASSUME NEW who, Snakes!TokenArrives(who) PROVE SnakesScored'
    <2>1. CASE Snakes!Arrived(who) = "over"
        <3>1. engine.state = "game_over"  BY <2>1 DEF Snakes!Arrived
        <3>2. /\ engine' = engine /\ ui'.gameOver = TRUE
              /\ reports' = Append(<<>>, IF engine.winner = "player" THEN 100 ELSE 0)
            BY <1>1, <1>6, <2>1 DEF Snakes!TokenArrives, Snakes!GameOver, SnakesEngine
        <3>. QED  BY <1>0, <3>1, <3>2, AppendOne DEF SnakesScored
    <2>2. CASE Snakes!Arrived(who) # "over"
        BY <1>2, <1>6, <2>2 DEF Snakes!TokenArrives
    <2>. QED  BY <2>1, <2>2
<1>7. CASE Snakes!AiTurnComes
    BY <1>3, <1>7 DEF Snakes!AiTurnComes, Snakes!EngineMove
<1>8. CASE Snakes!SampleCanRoll
    BY <1>2, <1>8 DEF Snakes!SampleCanRoll, SnakesEngine
<1>9. CASE Snakes!RollFreely
    <2>1. ui'.gameOver = ui.gameOver /\ reports' = reports
        BY <1>9 DEF Snakes!RollFreely, SnakesEngine
    <2>. QED  BY <1>2, <1>3, <1>9, <2>1 DEF Snakes!RollFreely, Snakes!RollDice, Snakes!EngineMove
<1>10. CASE Snakes!AskQuestion
    <2>1. PICK queue, question : ui' = [ui EXCEPT !.queue = queue, !.question = question]
        BY <1>10 DEF Snakes!AskQuestion
    <2>2. ui'.gameOver = ui.gameOver  BY <2>1 DEF SnakesEngine
    <2>. QED  BY <1>2, <1>10, <2>2 DEF Snakes!AskQuestion
<1>11. CASE Snakes!AnswerRight
    <2>1. ui'.gameOver = ui.gameOver /\ reports' = reports
        BY <1>11 DEF Snakes!AnswerRight, SnakesEngine
    <2>. QED  BY <1>2, <1>3, <1>11, <2>1 DEF Snakes!AnswerRight, Snakes!RollDice, Snakes!EngineMove
<1>12. CASE Snakes!AnswerWrong
    <2>. DEFINE e == [engine EXCEPT !.state = "ai_turn"]
    <2>1. ui'.gameOver = ui.gameOver /\ reports' = reports /\ Snakes!AiPlay(e)
        BY <1>12 DEF Snakes!AnswerWrong, SnakesEngine
    <2>2. e.pos = engine.pos /\ e.state = "ai_turn"  BY DEF SnakesEngine
    <2>3. CASE engine' = e
        BY <1>0, <1>1, <2>1, <2>2, <2>3 DEF SnakesScored
    <2>4. CASE Snakes!PlayAITurnAnimated(e)
        BY <1>3, <2>1, <2>2, <2>4 DEF Snakes!PlayAITurnAnimated
    <2>. QED  BY <2>1, <2>3, <2>4 DEF Snakes!AiPlay
<1>. QED  BY <1>4, <1>5, <1>6, <1>7, <1>8, <1>9, <1>10, <1>11, <1>12
          DEF Snakes!Timers, Snakes!Player

\* However many moves it took, a finished puzzle scores between 100 and 990.
LEMMA PuzzleScore ==
    ASSUME NEW moves \in Nat PROVE Puzzle!Score(moves + 1) \in 100 .. 990
BY DEF Puzzle!Score

\* A puzzle reports when its pieces are in order, and then moves no more.
LEMMA PuzzleScores ==
    ASSUME PuzzleScored, Puzzle!Player
    PROVE  PuzzleScored'
<1>1. PICK i \in 1 .. level.pieces - 1 : Puzzle!HandleReorder(i)  BY DEF Puzzle!Player
<1>. DEFINE pieces == Puzzle!Moved(engine.pieces, i, i + 1)
            done == Puzzle!InOrder(pieces)
            score == IF done THEN Puzzle!Score(engine.moves + 1) ELSE engine.score
<1>2. /\ ~engine.isFinished
      /\ engine' = [pieces |-> pieces, isFinished |-> done, moves |-> engine.moves + 1,
                    score |-> score]
      /\ reports' = IF engine'.isFinished THEN Append(reports, engine'.score) ELSE reports
    BY <1>1 DEF Puzzle!HandleReorder, Puzzle!ReorderPieces
<1>3. reports = <<>>  BY <1>2 DEF PuzzleScored
<1>4. done \in BOOLEAN  BY DEF Puzzle!InOrder
<1>5. done => score \in 100 .. 990
    <2>1. engine.moves \in Nat  BY DEF PuzzleScored
    <2>2. Puzzle!Score(engine.moves + 1) \in 100 .. 990  BY <2>1, PuzzleScore
    <2>. HIDE DEF done
    <2>. QED  BY <2>2
<1>. HIDE DEF score, done, pieces
<1>6. /\ DOMAIN engine' = {"pieces", "isFinished", "score", "moves"}
      /\ engine'.moves \in Nat /\ engine'.isFinished = done
      /\ engine'.score = score /\ engine'.pieces = pieces
    BY <1>2 DEF PuzzleScored
<1>7. CASE done
    <2>1. reports' = <<score>>  BY <1>2, <1>3, <1>6, <1>7, AppendOne
    <2>2. Puzzle!InOrder(engine'.pieces)  BY <1>6, <1>7 DEF done
    <2>. QED  BY <1>4, <1>5, <1>6, <1>7, <2>1, <2>2 DEF PuzzleScored
<1>8. CASE ~done
    <2>1. reports' = <<>>  BY <1>2, <1>3, <1>6, <1>8
    <2>. QED  BY <1>4, <1>6, <1>8, <2>1 DEF PuzzleScored
<1>. QED  BY <1>7, <1>8

\* The last card reports, and no card is shown after it.
LEMMA FakeNewsScores ==
    ASSUME FakeNewsScored, FakeNews!Player
    PROVE  FakeNewsScored'
<1>1. PICK isFake \in BOOLEAN : FakeNews!HandleSwipe(isFake)  BY DEF FakeNews!Player
<1>2. reports = <<>> /\ level' = level
    BY <1>1 DEF FakeNews!HandleSwipe, FakeNewsScored
<1>3. CASE FakeNews!IsGameOver(engine')
    <2>1. reports' = <<engine'.score>> /\ ui' = [currentItem |-> 0]
        BY <1>1, <1>2, <1>3, AppendOne DEF FakeNews!HandleSwipe
    <2>. QED  BY <1>2, <1>3, <2>1 DEF FakeNewsScored, FakeNews!Won, FakeNews!IsGameOver
<1>4. CASE ~FakeNews!IsGameOver(engine')
    BY <1>1, <1>2, <1>4 DEF FakeNews!HandleSwipe, FakeNewsScored
<1>. QED  BY <1>3, <1>4
\* What is mounted has reported nothing.
LEMMA ScoredMounted ==
    ASSUME Mount, page'.template = page.template, level' = level
    PROVE  ScoredInv'
<1>1. reports' = <<>> /\ Playable' = Playable
    BY StaysPlayable DEF Mount
<1>2. ASSUME InGame("snakes_ladders")' PROVE SnakesScored'
    <2>1. engine' \in Snakes!Engines(level) /\ ui' \in Snakes!Uis(level)
        BY <1>1, <1>2 DEF Mount, Is, InGame
    <2>2. engine'.state = "player_turn" /\ ui'.gameOver = FALSE
        BY <2>1 DEF Snakes!Engines, Snakes!Uis
    <2>. QED  BY <1>1, <2>2 DEF SnakesScored
<1>3. ASSUME InGame("puzzle")' PROVE PuzzleScored'
    <2>1. engine' \in Puzzle!Engines(level)
        BY <1>1, <1>3 DEF Mount, Is, InGame
    <2>2. PICK pieces : engine' = [pieces |-> pieces, isFinished |-> FALSE, score |-> 0, moves |-> 0]
        BY <2>1 DEF Puzzle!Engines
    <2>3. /\ DOMAIN engine' = {"pieces", "isFinished", "score", "moves"}
          /\ engine'.moves \in Nat /\ ~engine'.isFinished /\ engine'.isFinished \in BOOLEAN
        BY <2>2
    <2>4. reports' = <<>>  BY <1>1
    <2>. QED  BY <2>3, <2>4 DEF PuzzleScored
<1>4. ASSUME InGame("fake_news")' PROVE FakeNewsScored'
    BY <1>1, <1>4 DEF FakeNewsScored
<1>. QED  BY <1>2, <1>3, <1>4 DEF ScoredInv

LEMMA ScoredGoesOn == VisitInv /\ SnakesInv /\ ScoredInv /\ [Next]_vars => ScoredInv'
<1>. SUFFICES ASSUME VisitInv, SnakesInv, ScoredInv, [Next]_vars PROVE ScoredInv'
    OBVIOUS
<1>1. ASSUME page'.template = page.template, level' = level, page'.loaded = page.loaded,
             NEW t
      PROVE  InGame(t)' <=> InGame(t)
    BY <1>1 DEF InGame, Is, Playable
<1>2. CASE UNCHANGED <<page, level, engine, ui, scene, reports>>
    BY <1>2 DEF ScoredInv, SnakesScored, PuzzleScored, FakeNewsScored, FakeNews!Won,
       FakeNews!IsGameOver, InGame, Is, Playable
<1>3. CASE UNCHANGED <<level, ui, scene, reports>> /\ page'.template = page.template
           /\ page'.loaded = page.loaded /\ (engine' = engine \/ Is("trivia"))
    <2>1. InGame("snakes_ladders")' => UNCHANGED engine /\ SnakesScored
        BY <1>1, <1>3 DEF InGame, Is, ScoredInv
    <2>2. InGame("puzzle")' => UNCHANGED engine /\ PuzzleScored
        BY <1>1, <1>3 DEF InGame, Is, ScoredInv
    <2>3. InGame("fake_news")' => UNCHANGED engine /\ FakeNewsScored
        BY <1>1, <1>3 DEF InGame, Is, ScoredInv
    <2>4. InGame("snakes_ladders")' => SnakesScored'  BY <1>3, <2>1 DEF SnakesScored
    <2>5. InGame("puzzle")' => PuzzleScored'  BY <1>3, <2>2 DEF PuzzleScored
    <2>6. InGame("fake_news")' => FakeNewsScored'
        BY <1>3, <2>3 DEF FakeNewsScored, FakeNews!Won, FakeNews!IsGameOver
    <2>. QED  BY <2>4, <2>5, <2>6 DEF ScoredInv
<1>4. CASE /\ GameTimers \/ GamePlayer
           /\ level' = level /\ page'.template = page.template /\ page'.loaded = page.loaded
    <2>1. ASSUME InGame("snakes_ladders")' PROVE SnakesScored'
        <3>1. SnakesEngine /\ SnakesScored /\ Is("snakes_ladders")
            BY <1>1, <1>4, <2>1 DEF ScoredInv, SnakesInv, InGame
        <3>2. Snakes!Timers \/ Snakes!Player  BY <1>4, <3>1 DEF GameTimers, GamePlayer, Is
        <3>. QED  BY <3>1, <3>2, SnakesScores
    <2>2. ASSUME InGame("puzzle")' PROVE PuzzleScored'
        <3>1. PuzzleScored /\ Is("puzzle")  BY <1>1, <1>4, <2>2 DEF ScoredInv, InGame
        <3>2. Puzzle!Player  BY <1>4, <3>1 DEF GameTimers, GamePlayer, Is
        <3>. QED  BY <3>1, <3>2, PuzzleScores
    <2>3. ASSUME InGame("fake_news")' PROVE FakeNewsScored'
        <3>1. FakeNewsScored /\ Is("fake_news")  BY <1>1, <1>4, <2>3 DEF ScoredInv, InGame
        <3>2. FakeNews!Player  BY <1>4, <3>1 DEF GameTimers, GamePlayer, Is
        <3>. QED  BY <3>1, <3>2, FakeNewsScores
    <2>. QED  BY <2>1, <2>2, <2>3 DEF ScoredInv
<1>. QED  BY <1>2, <1>3, <1>4, ScoredMounted, PageSteps

LEMMA ScoredBegins == Init => ScoredInv
BY VisitBegins DEF Init, PageInit, Visit, ScoredInv, InGame

\* In these three games a report means that the game was played to its end, and
\* it carries the score the rules give to what is on the board.
THEOREM GamesAreEarned ==
    Spec => [](Running /\ reports # <<>> =>
                  /\ Is("snakes_ladders") => Snakes!Won
                  /\ Is("puzzle") => Puzzle!Won
                  /\ Is("fake_news") => FakeNews!Won)
<1>. DEFINE Earned == Running /\ reports # <<>> =>
                          /\ Is("snakes_ladders") => Snakes!Won
                          /\ Is("puzzle") => Puzzle!Won
                          /\ Is("fake_news") => FakeNews!Won
<1>1. VisitInv /\ NothingYet /\ ScoredInv => Earned
    <2>1. SUFFICES ASSUME VisitInv, NothingYet, ScoredInv, Running, reports # <<>>
                   PROVE  /\ Is("snakes_ladders") => Snakes!Won
                          /\ Is("puzzle") => Puzzle!Won
                          /\ Is("fake_news") => FakeNews!Won
        OBVIOUS
    <2>2. page.loaded /\ Playable  BY <2>1 DEF NothingYet, Running, VisitInv
    <2>3. CASE Is("snakes_ladders")
        <3>1. SnakesScored  BY <2>1, <2>2, <2>3 DEF ScoredInv, InGame
        <3>2. engine.state = "game_over"
              /\ reports = <<IF engine.winner = "player" THEN 100 ELSE 0>>
            BY <2>1, <3>1 DEF SnakesScored
        <3>. QED  BY <2>3, <3>1, <3>2 DEF SnakesScored, Snakes!Won, Is
    <2>4. CASE Is("puzzle")
        <3>1. PuzzleScored  BY <2>1, <2>2, <2>4 DEF ScoredInv, InGame
        <3>. QED  BY <2>1, <2>4, <3>1 DEF PuzzleScored, Puzzle!Won, Is
    <2>5. CASE Is("fake_news")
        <3>1. FakeNewsScored  BY <2>1, <2>2, <2>5 DEF ScoredInv, InGame
        <3>. QED  BY <2>1, <2>5, <3>1 DEF FakeNewsScored, Is
    <2>. QED  BY <2>3, <2>4, <2>5
<1>. HIDE DEF Earned
<1>2. Spec => []Earned
    BY <1>1, VisitBegins, VisitGoesOn, NothingBegins, NothingGoesOn, SnakesBegins,
       LevelGoesOn, SnakesGoesOn, ScoredBegins, ScoredGoesOn, PTL DEF Spec
<1>. QED  BY <1>2 DEF Earned
=============================================================================
