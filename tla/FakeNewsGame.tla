---------------------------- MODULE FakeNewsGame ----------------------------
(***************************************************************************)
(* True or false: FakeNewsEngine.ts and FakeNewsGame.tsx.  A card that has  *)
(* been answered slides out, and can still be dragged while it does: the    *)
(* second swipe answers the card that follows.                              *)
(***************************************************************************)
EXTENDS Integers, Sequences

VARIABLES
    level,      \* .fake: for each item whether it is fake
    engine,     \* currentIndex and score, and the cards answered right
    ui,         \* the item on screen (0: the end screen)
    reports

vars == <<level, engine, ui, reports>>

Engines(l) == {[currentIndex |-> 1, score |-> 0]}
Uis(l) == {[currentItem |-> 1]}

IsGameOver(e) == e.currentIndex > Len(level.fake)

\* answer: the item at currentIndex, whatever card was swiped.
Answered(isFake) ==
    [currentIndex |-> engine.currentIndex + 1,
     score |-> engine.score + IF level.fake[engine.currentIndex] = isFake THEN 1 ELSE 0]

\* handleSwipe, from a card or a button; the end screen offers neither.
HandleSwipe(isFake) ==
    /\ ui.currentItem # 0
    /\ engine' = Answered(isFake)
    /\ IF IsGameOver(engine')
       THEN /\ reports' = Append(reports, engine'.score)
            /\ ui' = [currentItem |-> 0]
       ELSE /\ ui' = [currentItem |-> engine'.currentIndex]
            /\ UNCHANGED reports
    /\ UNCHANGED level

Timers == FALSE
Player == \E isFake \in BOOLEAN : HandleSwipe(isFake)

----------------------------------------------------------------------------

TypeOK ==
    /\ engine.currentIndex \in 1 .. Len(level.fake) + 1
    /\ engine.score \in 0 .. Len(level.fake)
    /\ ui.currentItem \in 0 .. Len(level.fake)

Won ==
    /\ IsGameOver(engine)
    /\ reports = <<engine.score>>
=============================================================================
