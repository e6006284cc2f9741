------------------------------ MODULE LevelPage ------------------------------
(***************************************************************************)
(* Playing a level: OfficialLevelPage.tsx, which shows a level of the server  *)
(* and posts its result, and LocalLevelPage.tsx, which shows one of the       *)
(* browser's store and keeps the result to itself.  Either mounts the game of *)
(* the level's template; all seven are instantiated here.                     *)
(*                                                                         *)
(* What makes it hard: the answer to the post arrives whenever it does, the   *)
(* page may be left before, a failed refetch replaces the running game by an  *)
(* error and a later one mounts it anew, while the page remembers that it     *)
(* submitted; and timeouts of the memory game and of trivia outlive them.     *)
(***************************************************************************)
EXTENDS LevelContent

CONSTANTS
    Played,         \* <<content, origin>> pairs: "official", "draft" or "local"
    TimePerQuestion, MaxReports, MaxMoves, Filler, Typed, \* of the games
    MaxRefetches    \* bounds how often a level is fetched again

\* What is played came from the server or from the browser's store, which takes
\* anything; a word search has cells, and the boards of snakes and ladders are
\* such as the editor writes.
ASSUME PlayedAssumption ==
    \A p \in Played :
        /\ p[1].shape \in Template /\ WellFormed(p[1])
        /\ p[2] \in {"official", "draft", "local"}
        /\ p[2] # "local" => ServerAccepts(p[1].shape, p[1])
        /\ p[1].shape = "snakes_ladders" => NormalizeSnakes(p[1]) \in SnakesLevels
        /\ p[1].shape = "word_search" => p[1].width >= 1 /\ p[1].height >= 1

ASSUME BoundsAssumption ==
    {TimePerQuestion, MaxReports, MaxMoves, MaxRefetches} \subseteq Nat

VARIABLES
    page,       \* the page and its post
    level,      \* the level's normalized content
    engine, ui, scene, reports \* the game that is mounted, or was

pageVars == <<page, level, engine, ui, scene, reports>>
gameVars == <<level, engine, ui, scene, reports>>

Trivia == INSTANCE TriviaGame
Memory == INSTANCE MemoryGame
FakeNews == INSTANCE FakeNewsGame
WordSearch == INSTANCE WordSearchGame WITH Letters <- Filler
Puzzle == INSTANCE PuzzleGame
Crossword == INSTANCE CrosswordGame WITH Alphabet <- Typed
Snakes == INSTANCE SnakesGame

Is(template) == page.template = template

Playable == HasPlayableContent(page.template, level)

\* A game is on screen.
Mounted == page.view = "play" /\ Playable

----------------------------------------------------------------------------
(* The game.                                                               *)

NoGame == engine' = <<>> /\ ui' = <<>> /\ scene' = <<>>

\* A fresh engine and component of the level's template.
Mount ==
    /\ reports' = <<>>
    /\ IF Playable
       THEN \/ Is("trivia") /\ engine' \in Trivia!Engines(level) /\ ui' \in Trivia!Uis(level) /\ scene' = <<>>
            \/ Is("memory") /\ engine' \in Memory!Engines(level) /\ ui' \in Memory!Uis(level) /\ scene' = <<>>
            \/ Is("fake_news") /\ engine' \in FakeNews!Engines(level) /\ ui' \in FakeNews!Uis(level) /\ scene' = <<>>
            \/ Is("word_search") /\ engine' \in WordSearch!Engines(level) /\ ui' \in WordSearch!Uis(level) /\ scene' = <<>>
            \/ Is("puzzle") /\ engine' \in Puzzle!Engines(level) /\ ui' \in Puzzle!Uis(level) /\ scene' = <<>>
            \/ Is("crossword") /\ engine' \in Crossword!Engines(level) /\ ui' \in Crossword!Uis(level) /\ scene' = <<>>
            \/ Is("snakes_ladders") /\ engine' \in Snakes!Engines(level) /\ ui' \in Snakes!Uis(level) /\ scene' \in Snakes!Scenes
       ELSE NoGame

\* What unmounting leaves: trivia's engine stops its clock and its listeners,
\* the others are just not heard of again.
Unmount ==
    /\ engine' = IF Mounted /\ Is("trivia") THEN Trivia!Destroyed ELSE engine
    /\ UNCHANGED <<level, ui, scene, reports>>

\* Timers that nothing cancelled.
Pending ==
    /\ page.loaded /\ Playable
    /\ \/ Is("memory") /\ ui.isProcessing
       \/ Is("trivia") /\ (engine.timer \/ engine.timeouts > 0)

GameTimers ==
    \/ Is("trivia") /\ (Mounted \/ Pending) /\ Trivia!Timers /\ UNCHANGED scene
    \/ Is("memory") /\ (Mounted \/ Pending) /\ Memory!Timers /\ UNCHANGED scene
    \/ Is("snakes_ladders") /\ Mounted /\ Snakes!Timers

GamePlayer ==
    /\ Mounted
    /\ \/ Is("trivia") /\ Trivia!Player /\ UNCHANGED scene
       \/ Is("memory") /\ Memory!Player /\ UNCHANGED scene
       \/ Is("fake_news") /\ FakeNews!Player /\ UNCHANGED scene
       \/ Is("word_search") /\ WordSearch!Player /\ UNCHANGED scene
       \/ Is("puzzle") /\ Puzzle!Player /\ UNCHANGED scene
       \/ Is("crossword") /\ Crossword!Player /\ UNCHANGED scene
       \/ Is("snakes_ladders") /\ Snakes!Player

----------------------------------------------------------------------------
(* The page.                                                               *)

Official == page.origin # "local"

\* These games tell the desktop shell themselves that they are played, when
\* they are mounted, and that they are not, when unmounted.
TellsShell ==
    page.template \in {"trivia", "puzzle", "word_search", "crossword", "snakes_ladders"}

\* The effect of [level, result]: is the level being played?
IsPlaying(p) == p.loaded /\ Playable /\ ~p.result

\* Mutant: without the test of isSubmitted.
FinishLevel_EveryReport ==
    IF reports' = reports \/ page.origin = "draft"
    THEN UNCHANGED page
    ELSE page' = [page EXCEPT
            !.submitted = TRUE,
            !.post = IF Official THEN "sent" ELSE @,
            !.posts = IF Official THEN Append(@, reports'[Len(reports')]) ELSE @,
            !.result = ~Official,
            !.shellPlaying = IF Official THEN @ ELSE FALSE]

\* finishLevel, for what the game reported in this step: the first time, a
\* published level is posted, a local one shows its result.
FinishLevel ==
    IF reports' = reports \/ page.submitted \/ page.origin = "draft"
    THEN UNCHANGED page
    ELSE page' = [page EXCEPT
            !.submitted = TRUE,
            !.post = IF Official THEN "sent" ELSE @,
            !.posts = IF Official THEN Append(@, reports'[Len(reports')]) ELSE @,
            !.result = ~Official,
            !.shellPlaying = IF Official THEN @ ELSE FALSE]

Load ==
    /\ page.view = "loading"
    /\ page' = [page EXCEPT !.view = "play", !.loaded = TRUE, !.shellPlaying = Playable]
    /\ Mount /\ UNCHANGED level

\* The query failed, or the level is not in the store (any more).
LoadFails ==
    /\ page.view = "loading"
    /\ page' = [page EXCEPT !.view = "error"]
    /\ UNCHANGED gameVars

Play ==
    /\ GameTimers \/ GamePlayer
    /\ FinishLevel

\* The answer to the post; the effect's clean-up and its next run tell the shell.
PostAnswered ==
    /\ page.post = "sent"
    /\ page' = [page EXCEPT !.post = "answered", !.result = TRUE,
                            !.shellPlaying = IF page.view = "left" THEN @ ELSE FALSE]
    /\ UNCHANGED gameVars

\* enqueueProgress: the row is queued for the next synchronization; or nothing is
\* stored, without a word, in a browser or when no user or device is known; or
\* the INSERT is lost.  The level still counts as being played.
PostFails ==
    /\ page.post = "sent"
    /\ \E outcome \in {"queued", "dropped", "lost"} : page' = [page EXCEPT !.post = outcome]
    /\ UNCHANGED gameVars

\* The network came back and the query ran again, in vain.
RefetchFails ==
    /\ Official /\ page.view = "play"
    /\ page.refetches < MaxRefetches
    /\ page' = [page EXCEPT !.view = "error", !.refetches = @ + 1,
                            !.shellPlaying = IF Mounted /\ TellsShell THEN FALSE ELSE @]
    /\ Unmount

\* Later it succeeds: the game is mounted again.  What trivia left behind has no
\* listeners and is forgotten; a pending comparison of the memory game, which
\* may report, fires first (the query took more than its second).
Refetched ==
    /\ page.view = "error" /\ page.loaded
    /\ ~(Pending /\ Is("memory"))
    /\ page' = [page EXCEPT !.view = "play",
                            !.shellPlaying = IF Playable /\ TellsShell THEN TRUE ELSE @]
    /\ Mount /\ UNCHANGED level

\* Mutant: the games have no clean-up of their own.
Leave_PageOnly ==
    /\ page.view # "left"
    /\ page' = [page EXCEPT !.view = "left", !.shellPlaying = IF IsPlaying(page) THEN FALSE ELSE @]
    /\ Unmount

Leave ==
    /\ page.view # "left"
    /\ page' = [page EXCEPT !.view = "left",
                            !.shellPlaying = IF IsPlaying(page) \/ (Mounted /\ TellsShell)
                                             THEN FALSE ELSE @]
    /\ Unmount

----------------------------------------------------------------------------

Visit(template, origin, view) ==
    [template |-> template, origin |-> origin, view |-> view, loaded |-> FALSE, submitted |-> FALSE,
     post |-> "none", posts |-> <<>>, result |-> FALSE, shellPlaying |-> FALSE, refetches |-> 0]

PageInit ==
    /\ \E p \in Played :
          /\ page = Visit(p[1].shape, p[2], "loading")
          /\ level = Normalize(p[1].shape, p[1])
    /\ engine = <<>> /\ ui = <<>> /\ scene = <<>> /\ reports = <<>>

PageStep ==
    \/ Load \/ LoadFails \/ Play
    \/ PostAnswered \/ PostFails
    \/ RefetchFails \/ Refetched \/ Leave

----------------------------------------------------------------------------

\* A game was mounted: the variables of the game are its own.
Running == engine # <<>> /\ Playable

PageOK ==
    /\ page.view \in {"admin", "maker", "loading", "play", "error", "left"}
    /\ page.post \in {"none", "sent", "answered", "queued", "dropped", "lost"}
    /\ Running => /\ Is("trivia") => Trivia!TypeOK
                  /\ Is("memory") => Memory!TypeOK
                  /\ Is("fake_news") => FakeNews!TypeOK
                  /\ Is("word_search") => WordSearch!TypeOK
                  /\ Is("puzzle") => Puzzle!TypeOK
                  /\ Is("crossword") => Crossword!TypeOK
                  /\ Is("snakes_ladders") => Snakes!TypeOK

\* Nothing is reported before it is earned, whatever was clicked, typed or
\* timed out in which order: a report means that the game was played to its
\* end, and it carries the score its rules give to what is on the board (in
\* trivia: to the answers given in that game, of those played one after another).
ReportsAreEarned ==
    reports # <<>> =>
        /\ Is("trivia") => Trivia!Won
        /\ Is("memory") => Memory!Won
        /\ Is("fake_news") => FakeNews!Won
        /\ Is("word_search") => WordSearch!Won
        /\ Is("puzzle") => Puzzle!Won
        /\ Is("crossword") => Crossword!Won
        /\ Is("snakes_ladders") => Snakes!Won

\* One visit to a page posts at most one attempt, of a published level and
\* never of another, although a game reports again (a crossword at every move
\* of the selection, trivia when it is played again, any game that a refetch
\* mounted anew) and a timeout may report after the page was left.
OneSubmission ==
    /\ Len(page.posts) <= (IF page.origin = "official" THEN 1 ELSE 0)
    /\ page.result => page.submitted
    /\ page.post # "none" <=> page.posts # <<>>

\* The desktop shell, which holds synchronization back while a level is played,
\* is told that it is over when the page is left, whoever told it otherwise.
ShellReleased == page.view = "left" => ~page.shellPlaying

\* The player has done what there is to do: what is left is the game's part.
PlayedOut ==
    /\ Running
    /\ \/ Is("trivia") /\ engine.state.index = level.questions /\ engine.state.selected # "none"
       \/ Is("memory") /\ \A i \in DOMAIN engine.face : engine.face[i] # "down"
       \/ Is("snakes_ladders") /\ engine.state = "game_over"
       \/ page.template \notin {"trivia", "memory", "snakes_ladders"} /\ reports # <<>>

\* A published level that was played out is posted, and the post comes to an end
\* (an answer, or a failure that was handed to the queue), unless the game is
\* taken off the screen before it could report: no later roll takes the place
\* of the move whose arrival ends the game, no tick that of the last pause.
\* That a failed post leaves a row is not said, and not so.
OverIsPosted ==
    page.origin = "official" /\ Mounted /\ PlayedOut
        ~> page.post \in {"answered", "queued", "dropped", "lost"} \/ page.view # "play"

----------------------------------------------------------------------------
(* What the games promise, while they are played here.                       *)

AiOnlyInTurn == Running /\ Is("snakes_ladders") => Snakes!AiOnlyInTurn
OnBoard == Running /\ Is("snakes_ladders") => Snakes!OnBoard
OneClock == Running /\ Is("trivia") => Trivia!OneClock
Findable == Running /\ Is("word_search") => WordSearch!Findable
ReadsAsWords == Running /\ Is("crossword") => Crossword!ReadsAsWords
LockedStays ==
    [][Running /\ Is("crossword") /\ page'.refetches = page.refetches /\ page'.view = page.view
        => engine.locked \subseteq engine'.locked]_pageVars
=============================================================================
