--------------------------------- MODULE App ---------------------------------
(***************************************************************************)
(* A browser or a desktop window shows one page at a time: one of the two     *)
(* editors, in which levels are written, or a level that is played.  What is played is    *)
(* any content the server accepts, or, from the browser's store, any content  *)
(* at all; what the editors send is checked to be of the first kind.          *)
(***************************************************************************)
EXTENDS Authoring, LevelPage

vars == <<desk, levels, maker, localLevels, page, level, engine, ui, scene, reports>>

Writing ==
    /\ \/ page.view = "admin" /\ AdminStep
       \/ page.view = "maker" /\ MakerStep
    /\ UNCHANGED pageVars

Playing ==
    /\ page.view \notin {"admin", "maker"}
    /\ PageStep
    /\ UNCHANGED authoringVars

Init ==
    /\ NobodyWrites
    /\ \/ PageInit
       \/ /\ page \in {Visit("none", "none", editor) : editor \in {"admin", "maker"}}
          /\ level = <<>> /\ engine = <<>> /\ ui = <<>> /\ scene = <<>> /\ reports = <<>>

Next == Writing \/ Playing

\* Timers fire and requests are answered, well or not; nobody need write or play.
Fairness ==
    /\ WF_vars(page.view \notin {"admin", "maker"} /\ GameTimers /\ FinishLevel /\ UNCHANGED authoringVars)
    /\ WF_vars((PostAnswered \/ PostFails) /\ UNCHANGED authoringVars)

Spec == Init /\ [][Next]_vars /\ Fairness

----------------------------------------------------------------------------

TypeOK == DeskOK /\ PageOK
=============================================================================
