----------------------------- MODULE MemoryGame -----------------------------
(***************************************************************************)
(* The memory game: MemoryEngine.ts turns pairs into a deck, flips cards    *)
(* and compares two; MemoryGame.tsx lets the player click and compares a    *)
(* second later, in a timeout that nothing cancels.                         *)
(*                                                                         *)
(* The cards 2i-1 and 2i come from pair i.  The shuffle only renames        *)
(* positions, and the player may click any of them, so the deck is left in  *)
(* order.                                                                   *)
(***************************************************************************)
EXTENDS Integers, Sequences, FiniteSets

VARIABLES
    level,      \* .ids: the identifiers of the pairs, in order (an imported
                \* level may repeat one)
    engine,     \* the cards' faces, flippedIndices, matchedPairs
    ui,         \* isProcessing
    reports     \* the scores handed to onComplete, in order

vars == <<level, engine, ui, reports>>

Cards == 1 .. 2 * Len(level.ids)
PairId(i) == level.ids[(i + 1) \div 2]

Engines(l) == {[face |-> [i \in 1 .. 2 * Len(l.ids) |-> "down"], flipped |-> <<>>, matchedPairs |-> 0]}
Uis(l) == {[isProcessing |-> FALSE]}

----------------------------------------------------------------------------

\* A click: flipCard turns a card that is face down when fewer than two are up;
\* the second one starts the timeout.
Click(i) ==
    /\ ~ui.isProcessing
    /\ engine.face[i] = "down"
    /\ Len(engine.flipped) < 2
    /\ engine' = [engine EXCEPT !.face[i] = "up", !.flipped = Append(@, i)]
    /\ ui' = [ui EXCEPT !.isProcessing = Len(engine'.flipped) = 2]
    /\ UNCHANGED <<level, reports>>

\* checkMatch: cards of one identifier stay up, others turn back.
CheckMatch ==
    LET match == PairId(engine.flipped[1]) = PairId(engine.flipped[2])
        upTo(f) == [i \in Cards |-> IF i \in {engine.flipped[1], engine.flipped[2]}
                                     THEN f ELSE engine.face[i]]
    IN IF match
       THEN [face |-> upTo("matched"), flipped |-> <<>>, matchedPairs |-> engine.matchedPairs + 1]
       ELSE [face |-> upTo("down"), flipped |-> <<>>, matchedPairs |-> engine.matchedPairs]

\* The timeout: the level is complete when as many matches were made as there
\* are pairs, and the score is their number.
Compare ==
    /\ ui.isProcessing
    /\ engine' = CheckMatch
    /\ ui' = [ui EXCEPT !.isProcessing = FALSE]
    /\ reports' = IF engine'.matchedPairs = Len(level.ids)
                  THEN Append(reports, Len(level.ids)) ELSE reports
    /\ UNCHANGED level

Timers == Compare
Player == \E i \in Cards : Click(i)

----------------------------------------------------------------------------

TypeOK ==
    /\ engine.face \in [Cards -> {"down", "up", "matched"}]
    /\ Len(engine.flipped) <= 2
    /\ engine.matchedPairs \in 0 .. Len(level.ids)
    /\ ui.isProcessing \in BOOLEAN

\* Everything is matched, and with a card of its own identifier.
Won ==
    /\ \A i \in Cards : engine.face[i] = "matched"
    /\ reports = <<Len(level.ids)>>
=============================================================================
