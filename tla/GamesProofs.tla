----------------------------- MODULE GamesProofs -----------------------------
(***************************************************************************)
(* Theorems about what is written and what is played, for every content:      *)
(*   EverythingIsEarned    whatever was clicked, typed or timed out, a report  *)
(*                         is earned (ReportsAreEarned);                       *)
(*   EveryWordIsFindable   the words of a word search that were placed;        *)
(*   TheCataloguePlays     what the catalogue holds is mounted, and plays whole   *)
(*                         but for word searches (CatalogueIsPlayable);         *)
(*   Types                 the types of all of it (TypeOK);                    *)
(*   CrosswordsRead        every run of cells of a crossword is a word           *)
(*                         (ReadsAsWords).                                     *)
(* The games whose score is counted are treated here, the others in AppProofs. *)
(***************************************************************************)
EXTENDS AppProofs, SumProofs, SequenceTheorems

(***************************************************************************)
(* Recursion over the subsets of a finite set, as the folds of the library   *)
(* are defined: it has a solution when every step stays in the set of values. *)
(***************************************************************************)

\* g is defined on the subsets of S, by recursion.
Recursion(g, S, base, pick, step) ==
  g = [T \in SUBSET S |-> IF T = {} THEN base ELSE step[<<pick[T], g[T \ {pick[T]}]>>]]

LEMMA RecursionAt ==
  ASSUME NEW g, NEW S, NEW base, NEW pick, NEW step, Recursion(g, S, base, pick, step),
         NEW T \in SUBSET S
  PROVE  g[T] = IF T = {} THEN base ELSE step[<<pick[T], g[T \ {pick[T]}]>>]
BY DEF Recursion

\* Two solutions agree on the finite sets that both cover.
LEMMA RecursionsAgree ==
  ASSUME NEW base, NEW pick, NEW step, NEW S, NEW T, NEW g, NEW h,
         Recursion(g, S, base, pick, step), Recursion(h, T, base, pick, step),
         NEW U \in SUBSET (S \cap T), IsFiniteSet(U),
         \A V \in SUBSET U : V # {} => pick[V] \in V
  PROVE  g[U] = h[U]
<1> DEFINE C == {V \in SUBSET U : g[V] = h[V]}
<1>1. ASSUME NEW V \in SUBSET U, \A W \in SUBSET V : W # V => W \in C
      PROVE  V \in C
  <2> DEFINE R == V \ {pick[V]}
  <2>1. V \in SUBSET S /\ V \in SUBSET T
    OBVIOUS
  <2>2. g[V] = (IF V = {} THEN base ELSE step[<<pick[V], g[R]>>])
        /\ h[V] = (IF V = {} THEN base ELSE step[<<pick[V], h[R]>>])
    BY <2>1, RecursionAt
  <2>3. V # {} => R \in C
    BY <1>1
  <2> HIDE DEF R
  <2> QED BY <2>2, <2>3
<1>2. U \in C
  <2> HIDE DEF C
  <2> QED BY <1>1, SubsetInduction
<1> QED BY <1>2

\* The solution on T is put together from those on its proper subsets.
LEMMA RecursionExists ==
  ASSUME NEW base, NEW pick, NEW step, NEW S, IsFiniteSet(S),
         \A V \in SUBSET S : V # {} => pick[V] \in V
  PROVE  \E g : Recursion(g, S, base, pick, step)
<1> DEFINE C == {T \in SUBSET S : \E g : Recursion(g, T, base, pick, step)}
           G(U) == CHOOSE g : Recursion(g, U, base, pick, step)
           Rest(U) == U \ {pick[U]}
<1>1. ASSUME NEW T \in SUBSET S, \A U \in SUBSET T : U # T => U \in C
      PROVE  T \in C
  <2> DEFINE g == [U \in SUBSET T |-> IF U = {} THEN base ELSE step[<<pick[U], G(Rest(U))[Rest(U)]>>]]
  <2>1. \A U \in SUBSET T : U # T => Recursion(G(U), U, base, pick, step)
    BY <1>1
  <2> HIDE DEF G
  <2>2. ASSUME NEW U \in SUBSET T, U # T
        PROVE  g[U] = G(U)[U]
    <3>1. G(U)[U] = IF U = {} THEN base ELSE step[<<pick[U], G(U)[Rest(U)]>>]
      BY <2>1, <2>2, RecursionAt
    <3>2. CASE U = {}
      BY <3>1, <3>2
    <3>3. CASE U # {}
      <4> DEFINE R == Rest(U)
      <4>1. pick[U] \in U /\ R \in SUBSET U /\ R \in SUBSET T /\ R # T
        BY <2>2, <3>3
      <4>2. Recursion(G(R), R, base, pick, step) /\ Recursion(G(U), U, base, pick, step)
        BY <2>1, <2>2, <4>1
      <4>3. IsFiniteSet(R) /\ R \in SUBSET (U \cap R) /\ \A V \in SUBSET R : V # {} => pick[V] \in V
        BY <4>1, FS_Subset
      <4>4. G(U)[R] = G(R)[R]
        <5> HIDE DEF R
        <5> QED BY <4>2, <4>3, RecursionsAgree
      <4>5. g[U] = step[<<pick[U], G(R)[R]>>]
        BY <3>3
      <4>6. G(U)[U] = step[<<pick[U], G(U)[R]>>]
        BY <3>1, <3>3
      <4> HIDE DEF R, g
      <4> QED BY <4>4, <4>5, <4>6
    <3> QED BY <3>2, <3>3
  <2>3. ASSUME NEW U \in SUBSET T, U # {}
        PROVE  G(Rest(U))[Rest(U)] = g[Rest(U)]
    <3>1. Rest(U) \in SUBSET T /\ Rest(U) # T
      BY <2>3
    <3> HIDE DEF g, Rest
    <3> QED BY <2>2, <3>1
  <2>4. \A U \in SUBSET T :
          g[U] = IF U = {} THEN base ELSE step[<<pick[U], G(Rest(U))[Rest(U)]>>]
    OBVIOUS
  <2>5. g = [U \in SUBSET T |-> g[U]]
    OBVIOUS
  <2> HIDE DEF g
  <2>6. \A U \in SUBSET T : g[U] = IF U = {} THEN base ELSE step[<<pick[U], g[Rest(U)]>>]
    BY <2>3, <2>4
  <2>7. g = [U \in SUBSET T |-> IF U = {} THEN base ELSE step[<<pick[U], g[Rest(U)]>>]]
    BY <2>5, <2>6
  <2> QED BY <2>7 DEF Recursion
<1>2. S \in C
  <2> HIDE DEF C
  <2> QED BY <1>1, SubsetInduction
<1> QED BY <1>2

\* A finite set has an element of the least value.
LEMMA LeastElement ==
  ASSUME NEW S, IsFiniteSet(S), S # {}, NEW f, \A x \in S : f[x] \in Int
  PROVE  \E x \in S : \A y \in S : f[x] <= f[y]
<1> DEFINE C == {T \in SUBSET S : T # {} => \E x \in T : \A y \in T : f[x] <= f[y]}
<1>1. {} \in C
  OBVIOUS
<1>2. ASSUME NEW T \in SUBSET S, NEW x \in T, T \ {x} \in C
      PROVE  T \in C
  <2>1. CASE T \ {x} = {}
    <3>1. \A y \in T : f[x] <= f[y]
      BY <2>1
    <3> QED BY <3>1
  <2>2. CASE T \ {x} # {}
    <3>1. PICK z \in T \ {x} : \A y \in T \ {x} : f[z] <= f[y]
      BY <1>2, <2>2
    <3>2. CASE f[z] <= f[x]
      <4>1. \A y \in T : f[z] <= f[y]
        BY <3>1, <3>2
      <4> QED BY <4>1
    <3>3. CASE ~(f[z] <= f[x])
      <4>1. \A y \in T : f[x] <= f[y]
        <5> SUFFICES ASSUME NEW y \in T PROVE f[x] <= f[y]
          OBVIOUS
        <5>1. f[x] \in Int /\ f[y] \in Int /\ f[z] \in Int
          OBVIOUS
        <5>2. y # x => f[z] <= f[y]
          BY <3>1
        <5> QED BY <3>3, <5>1, <5>2
      <4> QED BY <4>1
    <3> QED BY <3>2, <3>3
  <2> QED BY <2>1, <2>2
<1>3. S \in C
  <2> HIDE DEF C
  <2> QED BY <1>1, <1>2, ElementInduction
<1> QED BY <1>3

\* Every place of what is left of a list holds an element that was kept.
LEMMA Ranks ==
  ASSUME NEW S, S \subseteq Int, IsFiniteSet(S), NEW k \in 1 .. Cardinality(S)
  PROVE  \E i \in S : Cardinality({j \in S : j <= i}) = k
<1> DEFINE Upto(T, i) == {j \in T : j <= i}
           C == {T \in SUBSET S :
                   \A n \in 1 .. Cardinality(T) : \E i \in T : Cardinality(Upto(T, i)) = n}
<1>1. ASSUME NEW T \in SUBSET S, \A U \in SUBSET T : U # T => U \in C
      PROVE  T \in C
  <2>1. IsFiniteSet(T) /\ Cardinality(T) \in Nat
    BY FS_Subset, FS_CardinalityType
  <2>2. CASE T = {}
    <3>1. Cardinality(T) = 0
      BY <2>2, FS_EmptySet
    <3> QED BY <3>1
  <2>3. CASE T # {}
    <3>1. PICK m \in T : \A j \in T : j <= m
      <4> DEFINE f == [j \in T |-> -j]
      <4>1. \A j \in T : f[j] \in Int
        OBVIOUS
      <4>2. PICK m \in T : \A j \in T : f[m] <= f[j]
        <5> HIDE DEF f
        <5> QED BY <2>1, <2>3, <4>1, LeastElement
      <4>3. \A j \in T : j <= m
        <5> SUFFICES ASSUME NEW j \in T PROVE j <= m
          OBVIOUS
        <5>1. -m <= -j
          BY <4>2
        <5> QED BY <5>1
      <4> QED BY <4>3
    <3> DEFINE U == T \ {m}
    <3>2. U \in C /\ Cardinality(U) = Cardinality(T) - 1
      BY <1>1, <2>1, <3>1, FS_RemoveElement
    <3>3. Upto(T, m) = T
      BY <3>1
    <3>4. ASSUME NEW i \in U PROVE Upto(T, i) = Upto(U, i)
      BY <3>1
    <3>5. ASSUME NEW n \in 1 .. Cardinality(T)
          PROVE  \E i \in T : Cardinality(Upto(T, i)) = n
      <4>1. CASE n = Cardinality(T)
        BY <3>3, <4>1
      <4>2. CASE n # Cardinality(T)
        <5>1. n \in 1 .. Cardinality(U)
          BY <2>1, <3>2, <4>2
        <5>2. PICK i \in U : Cardinality(Upto(U, i)) = n
          BY <3>2, <5>1
        <5> QED BY <3>4, <5>2
      <4> QED BY <4>1, <4>2
    <3> QED BY <3>5
  <2> QED BY <2>2, <2>3
<1>2. S \in C
  <2> HIDE DEF C
  <2> QED BY <1>1, SubsetInduction
<1> QED BY <1>2

LEMMA SubsequenceElements ==
  ASSUME NEW seq, NEW chosen, chosen \subseteq Int, IsFiniteSet(chosen),
         NEW k \in 1 .. Cardinality(chosen)
  PROVE  \E i \in chosen : Subsequence(seq, chosen)[k] = seq[i]
<1> DEFINE i == CHOOSE i \in chosen : Cardinality({j \in chosen : j <= i}) = k
<1>1. i \in chosen
  BY Ranks
<1>2. Subsequence(seq, chosen)[k] = seq[i]
  BY DEF Subsequence
<1> QED BY <1>1, <1>2

(***************************************************************************)
(* The levels.                                                             *)
(***************************************************************************)

\* What a page plays is what normalization made of a content.
PlayedLevel ==
  page.view \notin Editors =>
    \E p \in Played : page.template = p[1].shape /\ level = Normalize(p[1].shape, p[1])

LEMMA PlayedBegins == Init => PlayedLevel
<1>1. ASSUME PageInit PROVE PlayedLevel
  <2>1. PICK p \in Played : /\ page = Visit(p[1].shape, p[2], "loading")
                            /\ level = Normalize(p[1].shape, p[1])
    BY <1>1 DEF PageInit
  <2> QED BY <2>1 DEF Visit, PlayedLevel
<1>2. ASSUME page \in {Visit("none", "none", editor) : editor \in {"admin", "maker"}}
      PROVE  PlayedLevel
  BY <1>2 DEF Visit, PlayedLevel, Editors
<1> QED BY <1>1, <1>2 DEF Init

LEMMA PlayedGoesOn == VisitInv /\ PlayedLevel /\ [Next]_vars => PlayedLevel'
<1> SUFFICES ASSUME VisitInv, PlayedLevel, [Next]_vars PROVE PlayedLevel'
  OBVIOUS
<1>1. CASE UNCHANGED <<page, level, engine, ui, scene, reports>>
  BY <1>1 DEF PlayedLevel
<1>2. CASE level' = level /\ page'.template = page.template /\ page.view \notin Editors
  BY <1>2 DEF PlayedLevel
<1> QED BY <1>1, <1>2, PageSteps

\* A game can be played on the level of this page, loaded or not.
OnLevel(t) == page.view \notin Editors /\ Playable /\ Is(t)

\* It is the level of a content of the game's template.
LEMMA LevelOfGame ==
  ASSUME PlayedLevel, NEW t, OnLevel(t)
  PROVE  \E p \in Played : p[1].shape = t /\ WellFormed(p[1]) /\ level = Normalize(t, p[1])
BY PlayedAssumption DEF PlayedLevel, OnLevel, Is

LEMMA GameOnLevel ==
  ASSUME VisitInv, NEW t, InGame(t)
  PROVE  OnLevel(t)
BY DEF VisitInv, InGame, OnLevel, Editors

\* What is left of a list is a list, as long as there are elements to keep.
LEMMA SubsequenceLength ==
  ASSUME NEW seq, NEW chosen, IsFiniteSet(chosen)
  PROVE  /\ Len(Subsequence(seq, chosen)) = Cardinality(chosen)
         /\ Cardinality(chosen) \in Nat
         /\ DOMAIN Subsequence(seq, chosen) = 1 .. Cardinality(chosen)
         /\ Subsequence(seq, chosen) =
              [k \in 1 .. Cardinality(chosen) |-> Subsequence(seq, chosen)[k]]
<1> DEFINE n == Cardinality(chosen)
           sub == Subsequence(seq, chosen)
<1>1. n \in Nat
  BY FS_CardinalityType
<1>2. PICK f : sub = [k \in 1 .. n |-> f[k]]
  <2>1. sub = [k \in 1 .. n |-> [j \in 1 .. n |-> seq[CHOOSE i \in chosen :
                Cardinality({h \in chosen : h <= i}) = j]][k]]
    BY DEF Subsequence
  <2> QED BY <2>1
<1>3. Len(sub) = n /\ sub = [k \in 1 .. n |-> sub[k]]
  <2> HIDE DEF n, sub
  <2> QED BY <1>1, <1>2
<1> QED BY <1>1, <1>2, <1>3

LEMMA ArrayIsFinite ==
  ASSUME NEW seq, IsArray(seq), NEW chosen \in SUBSET DOMAIN seq
  PROVE  IsFiniteSet(chosen)
<1>1. IsFiniteSet(DOMAIN seq)
  BY FS_Interval DEF IsArray
<1> QED BY <1>1, FS_Subset

(***************************************************************************)
(* Trivia.                                                                 *)
(***************************************************************************)

LEMMA QuestionsAreCounted ==
  ASSUME PlayedLevel, OnLevel("trivia")
  PROVE  level.questions \in Nat \ {0}
<1>1. PICK p \in Played : WellFormed(p[1]) /\ p[1].shape = "trivia" /\ level = NormalizeTrivia(p[1])
  BY LevelOfGame DEF Normalize
<1>2. IsArray(p[1].questions)
  BY <1>1 DEF WellFormed
<1>3. PICK chosen \in SUBSET DOMAIN p[1].questions :
        level.questions = Len(Subsequence(p[1].questions, chosen))
  BY <1>1 DEF NormalizeTrivia, Filter
<1>4. level.questions \in Nat
  BY <1>2, <1>3, ArrayIsFinite, SubsequenceLength
<1>5. level.questions > 0
  BY DEF OnLevel, Playable, Is, HasPlayableContent
<1> QED BY <1>4, <1>5

\* How many questions have an answer.
Answered == engine.state.index - (IF engine.state.selected = "none" THEN 1 ELSE 0)

\* The tally of the game that is played now.
Current == ui[Len(ui)]

\* The games that were reported are the first ones of the history, each over;
\* the present one is reported when it is finished, if somebody listens.
Reported ==
  /\ Len(reports) <= Len(ui)
  /\ ~engine.state.isFinished => Len(reports) < Len(ui)
  /\ engine.listening /\ ~engine.state.isFinished => Len(reports) = Len(ui) - 1
  /\ engine.listening /\ engine.state.isFinished => Len(reports) = Len(ui)
  /\ \A i \in 1 .. Len(reports) :
        /\ ui[i].answered = level.questions /\ ui[i].right <= level.questions
        /\ reports[i] = Trivia!Earned(ui[i])

TriviaScored ==
  /\ engine.state.index \in 1 .. level.questions
  /\ engine.state.timeLeft \in 0 .. TimePerQuestion
  /\ ui \in Seq(Trivia!Tally) /\ ui # <<>> /\ reports \in Seq(Nat)
  /\ Current.answered = Answered /\ Current.right <= Answered
  /\ engine.state.score = Trivia!Earned(Current)
  /\ Reported

\* Another last element.
LEMMA LastChanged ==
  ASSUME NEW S, NEW s \in Seq(S), s # <<>>, NEW t \in S, NEW n, n = Len(s)
  PROVE  LET new == [s EXCEPT ![n] = t] IN
         /\ new \in Seq(S) /\ new # <<>> /\ Len(new) = Len(s) /\ new[n] = t
         /\ \A i \in 1 .. Len(s) - 1 : new[i] = s[i]
OBVIOUS

LEMMA EarnedIsCounted ==
  /\ \A tally \in Trivia!Tally : Trivia!Earned(tally) \in Nat
  /\ Trivia!NoTally \in Trivia!Tally /\ Trivia!Earned(Trivia!NoTally) = 0
BY DEF Trivia!Tally, Trivia!Earned, Trivia!NoTally

\* A question more, and its points if it was answered right.
LEMMA TalliedOnce ==
  ASSUME NEW tally \in Trivia!Tally, NEW answer, NEW t \in Nat
  PROVE  LET more == Trivia!Tallied(tally, answer, t) IN
         /\ more \in Trivia!Tally /\ more.answered = tally.answered + 1
         /\ more.right <= tally.right + 1
         /\ Trivia!Earned(more)
              = Trivia!Earned(tally) + IF answer = "right" THEN 100 + 2 * t ELSE 0
<1>1. CASE answer = "right"
  BY <1>1 DEF Trivia!Tally, Trivia!Tallied, Trivia!Earned
<1>2. CASE answer # "right"
  BY <1>2 DEF Trivia!Tally, Trivia!Tallied, Trivia!Earned
<1> QED BY <1>1, <1>2

LEMMA FreshGame ==
  ASSUME level.questions \in Nat \ {0}
  PROVE  LET fresh == Trivia!Fresh(level) IN
         /\ fresh.index = 1 /\ fresh.score = 0 /\ fresh.selected = "none"
         /\ fresh.timeLeft = TimePerQuestion /\ fresh.isFinished = FALSE
<1>1. (level.questions = 0) = FALSE
  OBVIOUS
<1>2. Trivia!Fresh(level) = [index |-> 1, score |-> 0, selected |-> "none", isFinished |-> FALSE,
                             timeLeft |-> TimePerQuestion]
  BY <1>1, Zenon DEF Trivia!Fresh
<1> QED BY <1>2

LEMMA TriviaScores ==
  ASSUME TriviaEngine, TriviaScored, level.questions \in Nat \ {0},
         Trivia!Timers \/ Trivia!Player
  PROVE  TriviaScored'
<1> DEFINE now == engine.state
           then == engine'.state
<1>0. /\ TimePerQuestion \in Nat /\ now.index \in Nat
      /\ DOMAIN engine = {"state", "timer", "timeouts", "listening"}
      /\ DOMAIN now = {"index", "score", "selected", "isFinished", "timeLeft"}
  BY BoundsAssumption DEF TriviaScored, TriviaEngine
<1>a. Len(ui) \in Nat \ {0} /\ Len(reports) \in Nat /\ Current \in Trivia!Tally
  <2>1. ui \in Seq(Trivia!Tally) /\ ui # <<>> /\ reports \in Seq(Nat)
    BY DEF TriviaScored
  <2> QED BY <2>1 DEF Current
<1>1. level' = level
  BY DEF Trivia!Timers, Trivia!Tick, Trivia!NextQuestion, Trivia!Player, Trivia!Answer, Trivia!Reset
<1>2. ASSUME NEW answer \in {"right", "wrong", "timeout"}, Trivia!SubmitAnswer(answer),
             Trivia!Counted(answer), reports' = reports
      PROVE  TriviaScored'
  <2>1. CASE ~Trivia!Open
    <3>1. engine' = engine /\ ui' = ui
      BY <1>2, <2>1 DEF Trivia!SubmitAnswer, Trivia!Counted
    <3> QED BY <1>1, <1>2, <3>1 DEF TriviaScored, Reported, Current, Answered
  <2>2. CASE Trivia!Open
    <3> DEFINE won == IF answer = "right" THEN 100 + 2 * now.timeLeft ELSE 0
               more == Trivia!Tallied(Current, answer, now.timeLeft)
    <3>1. /\ engine' = [engine EXCEPT !.timer = FALSE, !.timeouts = @ + 1,
                          !.state.selected = answer, !.state.score = @ + won]
          /\ ui' = [ui EXCEPT ![Len(ui)] = more]
      BY <1>2, <2>2 DEF Trivia!SubmitAnswer, Trivia!Counted, Current
    <3>2. then = [now EXCEPT !.selected = answer, !.score = @ + won]
      BY <1>0, <3>1
    <3>3. /\ then.index = now.index /\ then.timeLeft = now.timeLeft
          /\ then.selected = answer /\ then.score = now.score + won
          /\ then.isFinished = now.isFinished /\ engine'.listening = engine.listening
      BY <1>0, <3>1, <3>2
    <3>4. now.timeLeft \in Nat
      BY <1>0 DEF TriviaScored
    <3>5. /\ more \in Trivia!Tally /\ more.answered = Current.answered + 1
          /\ more.right <= Current.right + 1
          /\ Trivia!Earned(more) = Trivia!Earned(Current) + won
      BY <1>a, <3>4, TalliedOnce
    <3>6. /\ ui' \in Seq(Trivia!Tally) /\ ui' # <<>> /\ Len(ui') = Len(ui)
          /\ Current' = more /\ \A i \in 1 .. Len(ui) - 1 : ui'[i] = ui[i]
      <4>1. ui \in Seq(Trivia!Tally) /\ ui # <<>>
        BY DEF TriviaScored
      <4> HIDE DEF more
      <4> QED BY <3>1, <3>5, <4>1, LastChanged DEF Current
    <3>7. Answered' = Answered + 1 /\ Answered \in Nat
      <4>1. Answered = now.index - 1
        BY <2>2 DEF Answered, Trivia!Open
      <4>2. Answered' = now.index - 0
        BY <1>2, <3>3 DEF Answered
      <4> QED BY <4>1, <4>2 DEF TriviaScored
    <3>8. ~now.isFinished /\ Len(reports) < Len(ui)
      BY <2>2 DEF Trivia!Open, TriviaScored, Reported
    <3>9. Reported'
      <4>1. \A i \in 1 .. Len(reports) : ui'[i] = ui[i]
        BY <1>a, <3>6, <3>8
      <4> QED BY <1>1, <1>2, <3>3, <3>6, <3>8, <4>1 DEF TriviaScored, Reported
    <3>10. Current'.answered = Answered' /\ Current'.right <= Answered'
      <4>1. Current.answered = Answered /\ Current.right <= Answered
        BY DEF TriviaScored
      <4>2. Current.right \in Nat /\ more.right \in Nat
        BY <1>a, <3>5 DEF Trivia!Tally
      <4> HIDE DEF more
      <4> QED BY <3>5, <3>6, <3>7, <4>1, <4>2
    <3>11. then.score = Trivia!Earned(Current')
      <4> HIDE DEF more, won
      <4> QED BY <3>3, <3>5, <3>6 DEF TriviaScored
    <3> QED BY <1>1, <1>2, <3>3, <3>6, <3>9, <3>10, <3>11 DEF TriviaScored
  <2> QED BY <2>1, <2>2
<1>3. CASE Trivia!Tick
  <2>1. reports' = reports
    BY <1>3 DEF Trivia!Tick
  <2>2. CASE Trivia!SubmitAnswer("timeout") /\ Trivia!Counted("timeout")
    BY <1>2, <2>1, <2>2
  <2>3. CASE now.timeLeft > 0 /\ engine' = [engine EXCEPT !.state.timeLeft = @ - 1] /\ ui' = ui
    <3>1. then = [now EXCEPT !.timeLeft = @ - 1]
      BY <1>0, <2>3
    <3>2. /\ then.index = now.index /\ then.timeLeft = now.timeLeft - 1
          /\ then.selected = now.selected /\ then.score = now.score
          /\ then.isFinished = now.isFinished /\ engine'.listening = engine.listening
      BY <1>0, <2>3, <3>1
    <3>3. then.timeLeft \in 0 .. TimePerQuestion
      BY <1>0, <2>3, <3>2 DEF TriviaScored
    <3>4. Answered' = Answered /\ Current' = Current
      BY <2>3, <3>2 DEF Answered, Current
    <3>5. Reported'
      BY <1>1, <2>1, <2>3, <3>2 DEF TriviaScored, Reported
    <3> QED BY <1>1, <2>1, <2>3, <3>2, <3>3, <3>4, <3>5 DEF TriviaScored
  <2> QED BY <1>3, <2>2, <2>3 DEF Trivia!Tick
<1>4. CASE Trivia!NextQuestion
  <2>1. now.selected # "none" /\ ~now.isFinished
    BY <1>4 DEF Trivia!NextQuestion, TriviaEngine, Trivia!OneClock
  <2>2. Answered = now.index /\ ui' = ui
    <3>1. Answered = now.index - 0
      BY <2>1 DEF Answered
    <3> QED BY <1>0, <1>4, <3>1 DEF Trivia!NextQuestion
  <2>3. CASE Trivia!More
    <3>1. engine' = [engine EXCEPT !.timeouts = @ - 1, !.timer = TRUE,
                       !.state.index = @ + 1, !.state.selected = "none",
                       !.state.timeLeft = TimePerQuestion]
          /\ reports' = reports
      BY <1>4, <2>3 DEF Trivia!NextQuestion
    <3>2. then = [now EXCEPT !.index = @ + 1, !.selected = "none", !.timeLeft = TimePerQuestion]
      BY <1>0, <3>1
    <3>3. /\ then.index = now.index + 1 /\ then.timeLeft = TimePerQuestion
          /\ then.selected = "none" /\ then.score = now.score
          /\ then.isFinished = now.isFinished /\ engine'.listening = engine.listening
      BY <1>0, <3>1, <3>2
    <3>4. Answered' = Answered /\ Current' = Current
      BY <1>0, <2>2, <3>3 DEF Answered, Current
    <3>5. Reported'
      BY <1>1, <2>2, <3>1, <3>3 DEF TriviaScored, Reported
    <3>6. then.index \in 1 .. level.questions
      BY <1>0, <2>3, <3>3 DEF Trivia!More
    <3> QED BY <1>0, <1>1, <2>2, <3>1, <3>3, <3>4, <3>5, <3>6 DEF TriviaScored
  <2>4. CASE ~Trivia!More
    <3>1. now.index = level.questions
      BY <2>4 DEF TriviaScored, Trivia!More
    <3>2. engine' = [engine EXCEPT !.timeouts = @ - 1, !.state.isFinished = TRUE]
          /\ reports' = IF engine.listening THEN Append(reports, now.score) ELSE reports
      BY <1>4, <2>4 DEF Trivia!NextQuestion
    <3>3. then = [now EXCEPT !.isFinished = TRUE]
      BY <1>0, <3>2
    <3>4. /\ then.index = now.index /\ then.timeLeft = now.timeLeft
          /\ then.selected = now.selected /\ then.score = now.score
          /\ then.isFinished /\ engine'.listening = engine.listening
      BY <1>0, <3>2, <3>3
    <3>5. Answered' = Answered /\ Current' = Current
      BY <2>2, <3>4 DEF Answered, Current
    <3>6. now.score = Trivia!Earned(Current) /\ now.score \in Nat
      BY <1>a, EarnedIsCounted DEF TriviaScored
    <3>7. /\ Len(reports) < Len(ui) /\ (engine.listening => Len(reports) = Len(ui) - 1)
          /\ \A i \in 1 .. Len(reports) :
                /\ ui[i].answered = level.questions /\ ui[i].right <= level.questions
                /\ reports[i] = Trivia!Earned(ui[i])
      BY <2>1 DEF TriviaScored, Reported
    <3>8. CASE ~engine.listening
      <4>1. Reported'
        BY <1>1, <1>a, <2>2, <3>2, <3>4, <3>7, <3>8 DEF Reported
      <4> QED BY <1>1, <2>2, <3>2, <3>4, <3>5, <3>8, <4>1 DEF TriviaScored
    <3>9. CASE engine.listening
      <4> HIDE DEF now, then
      <4>1. /\ reports \in Seq(Nat) /\ Current.answered = level.questions
            /\ Current.right <= level.questions
        BY <2>2, <3>1 DEF TriviaScored
      <4>2. /\ reports' \in Seq(Nat) /\ Len(reports') = Len(ui)
            /\ \A i \in 1 .. Len(reports) : reports'[i] = reports[i]
            /\ reports'[Len(ui)] = now.score
        BY <1>a, <3>2, <3>6, <3>7, <3>9, <4>1
      <4>3. ASSUME NEW i \in 1 .. Len(ui)
            PROVE  /\ ui[i].answered = level.questions /\ ui[i].right <= level.questions
                   /\ reports'[i] = Trivia!Earned(ui[i])
        <5>1. CASE i = Len(ui)
          BY <3>6, <4>1, <4>2, <5>1 DEF Current
        <5>2. CASE i # Len(ui)
          <6>1. i \in 1 .. Len(reports)
            BY <1>a, <3>7, <3>9, <5>2
          <6> QED BY <3>7, <4>2, <6>1
        <5> QED BY <5>1, <5>2
      <4>4. Reported'
        BY <1>1, <1>a, <2>2, <3>4, <3>9, <4>2, <4>3 DEF Reported, then
      <4> QED BY <1>1, <2>2, <3>4, <3>5, <4>2, <4>4 DEF TriviaScored, now, then
    <3> QED BY <3>8, <3>9
  <2> QED BY <2>3, <2>4
<1>5. ASSUME NEW answer \in {"right", "wrong"}, Trivia!Answer(answer)
      PROVE  TriviaScored'
  BY <1>2, <1>5 DEF Trivia!Answer
<1>6. CASE Trivia!Reset
  <2>1. /\ then = Trivia!Fresh(level) /\ engine'.listening = engine.listening
        /\ reports' = reports /\ ui' = Append(ui, Trivia!NoTally)
        /\ engine.listening /\ now.isFinished
    BY <1>0, <1>6 DEF Trivia!Reset
  <2>2. /\ then.index = 1 /\ then.score = 0 /\ then.selected = "none"
        /\ then.timeLeft = TimePerQuestion /\ ~then.isFinished
    BY <2>1, FreshGame
  <2>3. Answered' = 0
    BY <2>2 DEF Answered
  <2>4. ui \in Seq(Trivia!Tally) /\ reports \in Seq(Nat) /\ Len(reports) = Len(ui)
    BY <2>1 DEF TriviaScored, Reported
  <2>5. /\ ui' \in Seq(Trivia!Tally) /\ ui' # <<>> /\ Len(ui') = Len(ui) + 1
        /\ Current' = Trivia!NoTally /\ \A i \in 1 .. Len(ui) : ui'[i] = ui[i]
    BY <1>a, <2>1, <2>4, EarnedIsCounted DEF Current
  <2>6. Reported'
    <3>1. \A i \in 1 .. Len(reports) : ui'[i] = ui[i]
      BY <2>4, <2>5
    <3> QED BY <1>1, <1>a, <2>1, <2>2, <2>4, <2>5, <3>1 DEF TriviaScored, Reported
  <2>7. Trivia!NoTally.answered = 0 /\ Trivia!NoTally.right = 0
    BY DEF Trivia!NoTally
  <2> QED BY <1>0, <1>1, <2>1, <2>2, <2>3, <2>4, <2>5, <2>6, <2>7, EarnedIsCounted DEF TriviaScored
<1> QED BY <1>3, <1>4, <1>5, <1>6 DEF Trivia!Timers, Trivia!Player

LEMMA TriviaStarts ==
  ASSUME InGame("trivia")', page'.template = page.template, level' = level, Mount,
         level.questions \in Nat \ {0}
  PROVE  TriviaScored'
<1>1. Playable /\ page.template = "trivia"
  BY DEF InGame, Playable, Is
<1>2. engine' \in Trivia!Engines(level) /\ ui' = <<Trivia!NoTally>> /\ reports' = <<>>
  BY <1>1 DEF Mount, Is, Trivia!Uis
<1>3. /\ engine'.state.index = 1 /\ engine'.state.score = 0 /\ engine'.state.selected = "none"
      /\ engine'.state.timeLeft = TimePerQuestion /\ ~engine'.state.isFinished
  <2>1. engine'.state = Trivia!Fresh(level)
    BY <1>2 DEF Trivia!Engines
  <2> QED BY <2>1, FreshGame
<1>4. Answered' = 0
  BY <1>3 DEF Answered
<1>5. TimePerQuestion \in Nat
  BY BoundsAssumption
<1>6. /\ ui' \in Seq(Trivia!Tally) /\ ui' # <<>> /\ Len(ui') = 1 /\ Current' = Trivia!NoTally
      /\ reports' \in Seq(Nat) /\ Len(reports') = 0
  BY <1>2, EarnedIsCounted DEF Current
<1>7. Reported'
  BY <1>3, <1>6 DEF Reported
<1>8. Trivia!NoTally.answered = 0 /\ Trivia!NoTally.right = 0
  BY DEF Trivia!NoTally
<1> QED BY <1>3, <1>4, <1>5, <1>6, <1>7, <1>8, EarnedIsCounted DEF TriviaScored

(***************************************************************************)
(* The crossword.                                                          *)
(***************************************************************************)

\* What a crossword scores with all its letters right.
Full(e) == 10 * Cardinality(DOMAIN e.user)

\* Nothing is reported before the crossword is finished, and then the full score.
CrosswordCounted(e, r) ==
  /\ e.isFinished \in BOOLEAN
  /\ ~e.isFinished => r = <<>>
  /\ e.isFinished => Right(e) = DOMAIN e.user /\ e.score = Full(e)
  /\ r \in Seq({Full(e)})

Counted(g) == Operand(g) /\ CrosswordCounted(g.e, g.r)

LEMMA NotifyCounts ==
  ASSUME NEW g, Counted(g)
  PROVE  Counted(Crossword!Notify(g))
<1>1. /\ Crossword!Notify(g).e = g.e /\ DOMAIN Crossword!Notify(g) = {"e", "r"}
      /\ Crossword!Notify(g).r = IF g.e.isFinished THEN Append(g.r, g.e.score) ELSE g.r
  BY DEF Crossword!Notify, Counted, Operand
<1>2. g.e.isFinished => Append(g.r, g.e.score) \in Seq({Full(g.e)})
  <2> SUFFICES ASSUME g.e.isFinished PROVE Append(g.r, g.e.score) \in Seq({Full(g.e)})
    OBVIOUS
  <2>1. g.e.score \in {Full(g.e)} /\ g.r \in Seq({Full(g.e)})
    BY DEF Counted, CrosswordCounted
  <2> QED BY <2>1
<1> QED BY <1>1, <1>2 DEF Counted, Operand, CrosswordCounted

LEMMA CrosswordCardinality ==
  ASSUME NEW S PROVE Crossword!Cardinality(S) = Cardinality(S)
BY DEF Crossword!Cardinality, Cardinality

LEMMA JudgedAs ==
  ASSUME NEW e
  PROVE  Crossword!Validate(e) =
           [e EXCEPT !.locked = Right(e), !.score = 10 * Cardinality(Right(e)),
                     !.isFinished = e.isFinished \/ (Right(e) = DOMAIN e.user /\ Right(e) # {})]
BY CrosswordCardinality DEF Crossword!Validate, Right

LEMMA TypingCounts ==
  ASSUME NEW g, Counted(g), NEW ch
  PROVE  Counted(Crossword!InputChar(g, ch))
<1> DEFINE e == g.e
           to == IF ch # Crossword!Blank /\ Crossword!Ahead(e) \in DOMAIN e.user
                 THEN Crossword!Ahead(e) ELSE e.cell
           typed == [e EXCEPT !.user = [e.user EXCEPT ![e.cell] = ch], !.cell = to]
           judged == Crossword!Validate(typed)
           next == [g EXCEPT !.e = judged]
<1>1. CASE Crossword!InputChar(g, ch) = g
  BY <1>1
<1>2. CASE ~e.isFinished /\ Crossword!InputChar(g, ch) = Crossword!Notify(next)
  <2>1. /\ DOMAIN typed = {"letters", "placed", "user", "cell", "vertical", "locked", "score", "isFinished"}
        /\ typed.isFinished = e.isFinished
    BY DEF Counted, Operand, CrosswordState
  <2> HIDE DEF typed
  <2> DEFINE done == typed.isFinished \/ (Right(typed) = DOMAIN typed.user /\ Right(typed) # {})
             points == 10 * Cardinality(Right(typed))
  <2>0. judged = [typed EXCEPT !.locked = Right(typed), !.score = points, !.isFinished = done]
    BY JudgedAs
  <2>2. /\ judged.user = typed.user /\ judged.letters = typed.letters
        /\ judged.score = points /\ judged.isFinished = done
    <3> HIDE DEF done, points
    <3> QED BY <2>0, <2>1
  <2>3. CrosswordState(judged)
    BY <2>1, Validated
  <2>4. next.e = judged /\ next.r = <<>> /\ DOMAIN next = {"e", "r"}
    BY <1>2 DEF Counted, Operand, CrosswordCounted
  <2> HIDE DEF judged, next
  <2>5. Right(judged) = Right(typed)
    BY <2>2 DEF Right
  <2>6. judged.isFinished => Right(judged) = DOMAIN judged.user /\ judged.score = Full(judged)
    BY <1>2, <2>1, <2>2, <2>5 DEF Full
  <2>7. judged.isFinished \in BOOLEAN
    BY <1>2, <2>1, <2>2
  <2>8. Counted(next)
    BY <2>3, <2>4, <2>6, <2>7 DEF Counted, Operand, CrosswordCounted
  <2> QED BY <1>2, <2>8, NotifyCounts
<1> QED BY <1>1, <1>2 DEF Crossword!InputChar

LEMMA SelectingCounts ==
  ASSUME NEW g, Counted(g), NEW c, NEW turned
  PROVE  /\ Counted(Crossword!Notify([g EXCEPT !.e.cell = c]))
         /\ Counted(Crossword!Notify([g EXCEPT !.e.cell = c, !.e.vertical = turned]))
<1>1. ASSUME NEW n, DOMAIN n = {"e", "r"}, DOMAIN n.e = DOMAIN g.e, n.e.user = g.e.user,
             n.e.letters = g.e.letters, n.e.locked = g.e.locked, n.e.score = g.e.score,
             n.e.isFinished = g.e.isFinished, n.r = g.r
      PROVE  Counted(Crossword!Notify(n))
  <2>1. CrosswordState(n.e)
    BY <1>1 DEF Counted, Operand, CrosswordState, Right
  <2>2. CrosswordCounted(n.e, n.r)
    BY <1>1 DEF Counted, CrosswordCounted, Right, Full
  <2> QED BY <1>1, <2>1, <2>2, NotifyCounts DEF Counted, Operand
<1> DEFINE one == [g EXCEPT !.e.cell = c]
           both == [g EXCEPT !.e.cell = c, !.e.vertical = turned]
<1>2. /\ DOMAIN one = {"e", "r"} /\ DOMAIN one.e = DOMAIN g.e /\ one.e.user = g.e.user
      /\ one.e.letters = g.e.letters /\ one.e.locked = g.e.locked /\ one.e.score = g.e.score
      /\ one.e.isFinished = g.e.isFinished /\ one.r = g.r
  BY DEF Counted, Operand, CrosswordState
<1>3. /\ DOMAIN both = {"e", "r"} /\ DOMAIN both.e = DOMAIN g.e /\ both.e.user = g.e.user
      /\ both.e.letters = g.e.letters /\ both.e.locked = g.e.locked /\ both.e.score = g.e.score
      /\ both.e.isFinished = g.e.isFinished /\ both.r = g.r
  BY DEF Counted, Operand, CrosswordState
<1>4. Counted(Crossword!Notify(one))
  BY <1>1, <1>2
<1>5. Counted(Crossword!Notify(both))
  BY <1>1, <1>3
<1> QED BY <1>4, <1>5

LEMMA NavigatingCounts ==
  ASSUME NEW g, Counted(g), NEW d
  PROVE  Counted(Crossword!Navigate(g, d))
BY SelectingCounts DEF Crossword!Navigate

\* However keys and clicks are mixed, what a crossword has reported is the score of
\* a full board, and its board is full and right from the first report on.
LEMMA CrosswordScores ==
  ASSUME CrosswordState(engine), CrosswordCounted(engine, reports), Crossword!Player
  PROVE  CrosswordCounted(engine', reports')
<1> DEFINE g == Crossword!Game
<1>1. Counted(g)
  BY DEF Counted, Operand, Crossword!Game
<1>2. ASSUME NEW n, Counted(n), Crossword!Becomes(n)
      PROVE  CrosswordCounted(engine', reports')
  BY <1>2 DEF Counted, Crossword!Becomes
<1> HIDE DEF g
<1>3. ASSUME NEW c, Crossword!Click(c) PROVE \E n : Counted(n) /\ Crossword!Becomes(n)
  BY <1>1, <1>3, SelectingCounts DEF Crossword!Click, Crossword!SelectCell, g
<1>4. ASSUME NEW ch, Crossword!TypeLetter(ch) PROVE \E n : Counted(n) /\ Crossword!Becomes(n)
  BY <1>1, <1>4, TypingCounts DEF Crossword!TypeLetter, Crossword!Twice, g
<1>5. ASSUME NEW d, Crossword!Arrow(d) PROVE \E n : Counted(n) /\ Crossword!Becomes(n)
  BY <1>1, <1>5, NavigatingCounts DEF Crossword!Arrow, Crossword!Twice, g
<1>6. CASE Crossword!Backspace
  <2> DEFINE cleared == Crossword!InputChar(g, Crossword!Blank)
  <2>1. PICK d : Crossword!Becomes(Crossword!Navigate(cleared, d))
    BY <1>6 DEF Crossword!Backspace, g
  <2>2. Counted(cleared)
    BY <1>1, TypingCounts
  <2> HIDE DEF cleared
  <2>3. Counted(Crossword!Navigate(cleared, d))
    BY <2>2, NavigatingCounts
  <2> QED BY <1>2, <2>1, <2>3
<1>7. CASE Crossword!Space
  BY <1>1, <1>2, <1>7, TypingCounts DEF Crossword!Space, g
<1>8. CASE Crossword!Blur
  BY <1>8 DEF Crossword!Blur
<1> QED BY <1>2, <1>3, <1>4, <1>5, <1>6, <1>7, <1>8 DEF Crossword!Player

LEMMA CrosswordStarts ==
  ASSUME InGame("crossword")', page'.template = page.template, level' = level, Mount
  PROVE  CrosswordCounted(engine', reports')
<1>1. Playable /\ page.template = "crossword"
  BY DEF InGame, Playable, Is
<1>2. engine' \in Crossword!Engines(level) /\ reports' = <<>>
  BY <1>1 DEF Mount, Is
<1>3. engine'.isFinished = FALSE
  BY <1>2 DEF Crossword!Engines
<1>4. engine'.isFinished \in BOOLEAN /\ ~engine'.isFinished
  BY <1>3, Zenon
<1>5. reports' \in Seq({Full(engine')})
  BY <1>2
<1> QED BY <1>2, <1>4, <1>5 DEF CrosswordCounted

(***************************************************************************)
(* The memory game.                                                        *)
(***************************************************************************)

LEMMA PairsAreCounted ==
  ASSUME PlayedLevel, OnLevel("memory")
  PROVE  Len(level.ids) \in Nat
<1>1. PICK p \in Played : WellFormed(p[1]) /\ p[1].shape = "memory" /\ level = NormalizeMemory(p[1])
  BY LevelOfGame DEF Normalize
<1> DEFINE c == p[1]
           named == [i \in DOMAIN c.pairs |->
                       [c.pairs[i] EXCEPT !.id = IF @ \in {"empty", "blank"} THEN <<"pair", i>> ELSE <<@>>]]
           chosen == {i \in DOMAIN named : Given(named[i].content1) /\ Given(named[i].content2)}
           playable == Subsequence(named, chosen)
<1>2. level.ids = [i \in DOMAIN playable |-> playable[i].id]
  BY <1>1 DEF NormalizeMemory, Filter
<1>3. IsFiniteSet(chosen)
  <2>1. IsArray(c.pairs) /\ DOMAIN named = DOMAIN c.pairs
    BY <1>1 DEF WellFormed
  <2>2. chosen \in SUBSET DOMAIN c.pairs
    BY <2>1
  <2> QED BY <2>1, <2>2, ArrayIsFinite
<1>4. DOMAIN playable = 1 .. Cardinality(chosen) /\ Cardinality(chosen) \in Nat
  <2> HIDE DEF named, chosen
  <2> QED BY <1>3, SubsequenceLength
<1> HIDE DEF playable, chosen
<1>5. Len([i \in 1 .. Cardinality(chosen) |-> playable[i].id]) = Cardinality(chosen)
  BY <1>4
<1> QED BY <1>2, <1>4, <1>5

MatchedCards == {i \in Memory!Cards : engine.face[i] = "matched"}

\* The cards that are up are those that wait for the comparison.
Waiting ==
  \/ /\ engine.flipped = <<>> /\ ~ui.isProcessing
     /\ \A i \in Memory!Cards : engine.face[i] # "up"
  \/ \E a \in Memory!Cards :
        /\ engine.flipped = <<a>> /\ ~ui.isProcessing
        /\ \A i \in Memory!Cards : engine.face[i] = "up" <=> i = a
  \/ \E a, b \in Memory!Cards :
        /\ a # b /\ engine.flipped = <<a, b>> /\ ui.isProcessing
        /\ \A i \in Memory!Cards : engine.face[i] = "up" <=> i \in {a, b}

MemoryScored ==
  /\ DOMAIN engine = {"face", "flipped", "matchedPairs"} /\ DOMAIN ui = {"isProcessing"}
  /\ engine.face \in [Memory!Cards -> {"down", "up", "matched"}]
  /\ engine.matchedPairs \in Nat /\ ui.isProcessing \in BOOLEAN
  /\ Cardinality(MatchedCards) = 2 * engine.matchedPairs
  /\ Waiting
  /\ reports # <<>> => engine.matchedPairs = Len(level.ids) /\ reports = <<Len(level.ids)>>

\* As many matches as pairs: then every card is matched.
LEMMA AllMatched ==
  ASSUME MemoryScored, Len(level.ids) \in Nat, engine.matchedPairs = Len(level.ids)
  PROVE  \A i \in Memory!Cards : engine.face[i] = "matched"
<1>1. IsFiniteSet(Memory!Cards) /\ Cardinality(Memory!Cards) = 2 * Len(level.ids)
  <2>1. 2 * Len(level.ids) \in Nat /\ Memory!Cards = 1 .. 2 * Len(level.ids)
    BY DEF Memory!Cards
  <2> QED BY <2>1, FS_Interval
<1>2. MatchedCards \in SUBSET Memory!Cards
  BY DEF MatchedCards
<1>3. MatchedCards = Memory!Cards
  BY <1>1, <1>2, FS_Subset DEF MemoryScored
<1> QED BY <1>3 DEF MatchedCards

\* Two cards more.
LEMMA TwoMore ==
  ASSUME NEW S, IsFiniteSet(S), NEW a, NEW b, a \notin S, b \notin S, a # b
  PROVE  Cardinality(S \cup {a, b}) = Cardinality(S) + 2
<1>1. IsFiniteSet(S \cup {a}) /\ Cardinality(S \cup {a}) = Cardinality(S) + 1
      /\ Cardinality(S) \in Nat
  BY FS_AddElement, FS_CardinalityType
<1>2. Cardinality((S \cup {a}) \cup {b}) = Cardinality(S \cup {a}) + 1
  BY <1>1, FS_AddElement
<1>3. (S \cup {a}) \cup {b} = S \cup {a, b}
  OBVIOUS
<1> QED BY <1>1, <1>2, <1>3

LEMMA AppendTwo ==
  ASSUME NEW a, NEW b PROVE Append(<<a>>, b) = <<a, b>>
<1> DEFINE s == Append(<<a>>, b)
<1>1. <<a>> \in Seq({a, b}) /\ Len(<<a>>) = 1 /\ <<a>>[1] = a
  OBVIOUS
<1>2. s \in Seq({a, b}) /\ Len(s) = 2 /\ s[1] = a /\ s[2] = b
  BY <1>1
<1>3. <<a, b>> \in Seq({a, b}) /\ Len(<<a, b>>) = 2
  OBVIOUS
<1> HIDE DEF s
<1>4. s = [i \in 1 .. 2 |-> s[i]] /\ <<a, b>> = [i \in 1 .. 2 |-> <<a, b>>[i]]
  BY <1>2, <1>3
<1>5. \A i \in 1 .. 2 : s[i] = <<a, b>>[i]
  BY <1>2
<1>6. s = <<a, b>>
  BY <1>4, <1>5
<1> QED BY <1>6 DEF s

LEMMA MemoryScores ==
  ASSUME MemoryScored, Len(level.ids) \in Nat, Memory!Timers \/ Memory!Player
  PROVE  MemoryScored'
<1>1. level' = level /\ Memory!Cards' = Memory!Cards
  BY DEF Memory!Timers, Memory!Compare, Memory!Player, Memory!Click, Memory!Cards
<1>2. ASSUME NEW i \in Memory!Cards, Memory!Click(i)
      PROVE  MemoryScored'
  <2>1. /\ engine' = [engine EXCEPT !.face[i] = "up", !.flipped = Append(@, i)]
        /\ ui' = [ui EXCEPT !.isProcessing = Len(engine'.flipped) = 2]
        /\ reports' = reports /\ engine.face[i] = "down" /\ ~ui.isProcessing
    BY <1>2 DEF Memory!Click
  <2>2. /\ engine'.face = [engine.face EXCEPT ![i] = "up"]
        /\ engine'.flipped = Append(engine.flipped, i)
        /\ engine'.matchedPairs = engine.matchedPairs
        /\ DOMAIN engine' = DOMAIN engine
        /\ DOMAIN ui' = DOMAIN ui /\ ui'.isProcessing = (Len(engine'.flipped) = 2)
    BY <2>1 DEF MemoryScored
  <2>3. MatchedCards' = MatchedCards
    BY <1>1, <2>1, <2>2 DEF MatchedCards, MemoryScored
  <2>4. Waiting'
    <3>1. CASE engine.flipped = <<>> /\ \A j \in Memory!Cards : engine.face[j] # "up"
      <4>0. engine'.flipped = <<i>>
        BY <2>2, <3>1
      <4>1. engine'.flipped = <<i>> /\ ~ui'.isProcessing
        <5>1. Len(<<i>>) # 2
          OBVIOUS
        <5> QED BY <2>2, <4>0, <5>1, Zenon
      <4>2. \A j \in Memory!Cards : engine'.face[j] = "up" <=> j = i
        BY <2>2, <3>1 DEF MemoryScored
      <4> QED BY <1>1, <4>1, <4>2 DEF Waiting
    <3>2. ASSUME NEW a \in Memory!Cards, engine.flipped = <<a>>,
                 \A j \in Memory!Cards : engine.face[j] = "up" <=> j = a
          PROVE  Waiting'
      <4>0. engine'.flipped = <<a, i>>
        <5>1. Append(<<a>>, i) = <<a, i>>
          BY AppendTwo
        <5> QED BY <2>2, <3>2, <5>1
      <4>1. engine'.flipped = <<a, i>> /\ ui'.isProcessing
        <5>1. Len(<<a, i>>) = 2
          OBVIOUS
        <5> QED BY <2>2, <4>0, <5>1, Zenon
      <4>2. a # i
        BY <2>1, <3>2
      <4>3. \A j \in Memory!Cards : engine'.face[j] = "up" <=> j \in {a, i}
        BY <2>2, <3>2 DEF MemoryScored
      <4> QED BY <1>1, <4>1, <4>2, <4>3 DEF Waiting
    <3> QED BY <2>1, <3>1, <3>2 DEF MemoryScored, Waiting
  <2>5. engine'.face \in [Memory!Cards -> {"down", "up", "matched"}]
    BY <2>2 DEF MemoryScored
  <2>6. ui'.isProcessing \in BOOLEAN
    BY <2>2
  <2> QED BY <1>1, <2>1, <2>2, <2>3, <2>4, <2>5, <2>6 DEF MemoryScored
<1>3. CASE Memory!Compare
  <2>1. PICK a, b \in Memory!Cards :
          /\ a # b /\ engine.flipped = <<a, b>>
          /\ \A i \in Memory!Cards : engine.face[i] = "up" <=> i \in {a, b}
    BY <1>3 DEF Memory!Compare, MemoryScored, Waiting
  <2>2. reports = <<>>
    <3> SUFFICES ASSUME reports # <<>> PROVE FALSE
      OBVIOUS
    <3>1. \A i \in Memory!Cards : engine.face[i] = "matched"
      BY AllMatched DEF MemoryScored
    <3> QED BY <2>1, <3>1
  <2>3. ui' = [ui EXCEPT !.isProcessing = FALSE] /\ engine' = Memory!CheckMatch
        /\ reports' = IF engine'.matchedPairs = Len(level.ids)
                      THEN Append(reports, Len(level.ids)) ELSE reports
    BY <1>3 DEF Memory!Compare
  <2>4. DOMAIN ui' = {"isProcessing"} /\ ui'.isProcessing = FALSE
    BY <2>3 DEF MemoryScored
  <2> DEFINE upTo(f) == [i \in Memory!Cards |-> IF i \in {a, b} THEN f ELSE engine.face[i]]
  <2>5. PICK f \in {"matched", "down"} :
          engine' = [face |-> upTo(f), flipped |-> <<>>,
                     matchedPairs |-> IF f = "matched" THEN engine.matchedPairs + 1 ELSE engine.matchedPairs]
    <3>1. engine.flipped[1] = a /\ engine.flipped[2] = b
      BY <2>1
    <3>2. CASE Memory!PairId(a) = Memory!PairId(b)
      BY <2>3, <3>1, <3>2 DEF Memory!CheckMatch
    <3>3. CASE Memory!PairId(a) # Memory!PairId(b)
      BY <2>3, <3>1, <3>3 DEF Memory!CheckMatch
    <3> QED BY <3>2, <3>3
  <2>6. engine'.face \in [Memory!Cards -> {"down", "up", "matched"}]
    BY <2>5 DEF MemoryScored
  <2>7. \A i \in Memory!Cards : engine'.face[i] # "up"
    BY <2>1, <2>5 DEF MemoryScored
  <2>8. Cardinality(MatchedCards') = 2 * engine'.matchedPairs /\ engine'.matchedPairs \in Nat
    <3>1. a \notin MatchedCards /\ b \notin MatchedCards
      BY <2>1 DEF MatchedCards
    <3>2. IsFiniteSet(MatchedCards)
      <4>1. IsFiniteSet(Memory!Cards)
        BY FS_Interval DEF Memory!Cards
      <4>2. MatchedCards \in SUBSET Memory!Cards
        BY DEF MatchedCards
      <4> QED BY <4>1, <4>2, FS_Subset
    <3>3. CASE f = "matched"
      <4>1. MatchedCards' = MatchedCards \cup {a, b}
        BY <1>1, <2>5, <3>3 DEF MatchedCards
      <4>2. engine'.matchedPairs = engine.matchedPairs + 1
        BY <2>5, <3>3
      <4> QED BY <2>1, <3>1, <3>2, <4>1, <4>2, TwoMore DEF MemoryScored
    <3>4. CASE f = "down"
      <4>1. MatchedCards' = MatchedCards
        BY <1>1, <2>5, <3>1, <3>4 DEF MatchedCards
      <4>2. engine'.matchedPairs = engine.matchedPairs
        BY <2>5, <3>4
      <4> QED BY <4>1, <4>2 DEF MemoryScored
    <3> QED BY <3>3, <3>4
  <2>9. Waiting'
    <3>1. engine'.flipped = <<>> /\ ~ui'.isProcessing
      BY <2>4, <2>5
    <3> QED BY <1>1, <2>7, <3>1 DEF Waiting
  <2>10. reports' # <<>> => engine'.matchedPairs = Len(level.ids) /\ reports' = <<Len(level.ids)>>
    BY <2>2, <2>3, AppendOne
  <2>11. DOMAIN engine' = {"face", "flipped", "matchedPairs"}
    BY <2>5
  <2> QED BY <1>1, <2>4, <2>6, <2>8, <2>9, <2>10, <2>11 DEF MemoryScored
<1> QED BY <1>2, <1>3 DEF Memory!Timers, Memory!Player

LEMMA MemoryStarts ==
  ASSUME InGame("memory")', page'.template = page.template, level' = level, Mount,
         Len(level.ids) \in Nat
  PROVE  MemoryScored'
<1>1. Playable /\ page.template = "memory"
  BY DEF InGame, Playable, Is
<1>2. engine' \in Memory!Engines(level) /\ ui' \in Memory!Uis(level) /\ reports' = <<>>
  BY <1>1 DEF Mount, Is
<1>3. /\ engine'.face = [i \in 1 .. 2 * Len(level.ids) |-> "down"]
      /\ engine'.flipped = <<>> /\ engine'.matchedPairs = 0
      /\ DOMAIN engine' = {"face", "flipped", "matchedPairs"}
  BY <1>2 DEF Memory!Engines
<1>4. DOMAIN ui' = {"isProcessing"} /\ ui'.isProcessing = FALSE
  BY <1>2 DEF Memory!Uis
<1>5. Memory!Cards' = 1 .. 2 * Len(level.ids)
  BY DEF Memory!Cards
<1>6. MatchedCards' = {}
  BY <1>3, <1>5 DEF MatchedCards
<1>7. Cardinality({}) = 0
  BY FS_EmptySet
<1>8. Waiting'
  <2>1. \A i \in Memory!Cards' : engine'.face[i] # "up"
    BY <1>3, <1>5
  <2> QED BY <1>3, <1>4, <2>1 DEF Waiting
<1>9. engine'.face \in [Memory!Cards' -> {"down", "up", "matched"}]
  BY <1>3, <1>5
<1>10. Cardinality(MatchedCards') = 2 * engine'.matchedPairs
  BY <1>3, <1>6, <1>7
<1>11. engine'.matchedPairs \in Nat /\ ui'.isProcessing \in BOOLEAN
  <2>1. ui'.isProcessing \in BOOLEAN
    BY <1>4, Zenon
  <2> QED BY <1>3, <2>1
<1> QED BY <1>2, <1>3, <1>4, <1>8, <1>9, <1>10, <1>11 DEF MemoryScored

(***************************************************************************)
(* The word search: how its grid is filled.                                *)
(***************************************************************************)

Words(l) == {l.words[i] : i \in DOMAIN l.words}

\* Words are lists of letters.
SearchLevel(l) ==
  /\ l.width \in Nat /\ l.height \in Nat
  /\ IsFiniteSet(Words(l))
  /\ Words(l) \subseteq Seq(Letter)
  /\ \A w \in Words(l) : IsArray(w) /\ \A i \in DOMAIN w : w[i] \in Letter

\* A word stands in the grid, from a cell in a direction.
Stands(l, grid, w, at, dir) ==
  /\ at \in WordSearch!Cells(l) /\ dir \in WordSearch!Directions
  /\ \A i \in DOMAIN w : /\ WordSearch!At(at, dir, i) \in WordSearch!Cells(l)
                         /\ grid[WordSearch!At(at, dir, i)] = w[i]

IsLaid(l, grid, words) ==
  \A w \in words : \E at, dir : Stands(l, grid, w, at, dir)

\* The letters of the words.
Ink(l) == UNION {{w[i] : i \in DOMAIN w} : w \in Words(l)}

\* A grid in the making.
Partial(l) ==
  {p \in [grid : [WordSearch!Cells(l) -> Ink(l) \cup {""}], words : SUBSET Words(l)] :
      IsLaid(l, p.grid, p.words)}

\* A normalized word is a list of letters.
LEMMA NormalizedWord ==
  ASSUME NEW word, IsArray(word)
  PROVE  /\ IsArray(Normalized(word))
         /\ \A i \in DOMAIN Normalized(word) : Normalized(word)[i] \in Letter
         /\ Normalized(word) \in Seq(Letter)
<1> DEFINE plain == [i \in DOMAIN word |-> IF word[i] = "N~" THEN "N" ELSE word[i]]
           chosen == {i \in DOMAIN plain : plain[i] \in Letter}
<1>1. Normalized(word) = Subsequence(plain, chosen)
  BY DEF Normalized, Filter
<1>2. DOMAIN plain = DOMAIN word
  OBVIOUS
<1>3. chosen \in SUBSET DOMAIN word /\ \A i \in chosen : plain[i] \in Letter
  OBVIOUS
<1> HIDE DEF plain, chosen
<1>4. IsFiniteSet(chosen) /\ chosen \subseteq Int
  <2>1. IsFiniteSet(chosen)
    BY <1>3, ArrayIsFinite
  <2>2. chosen \subseteq Int
    BY <1>3 DEF IsArray
  <2> QED BY <2>1, <2>2
<1>5. /\ Len(Normalized(word)) = Cardinality(chosen) /\ Cardinality(chosen) \in Nat
      /\ DOMAIN Normalized(word) = 1 .. Cardinality(chosen)
      /\ Normalized(word) = [k \in 1 .. Cardinality(chosen) |-> Normalized(word)[k]]
  BY <1>1, <1>4, SubsequenceLength
<1>6. ASSUME NEW k \in 1 .. Cardinality(chosen)
      PROVE  \E i \in chosen : Normalized(word)[k] = plain[i]
  <2>1. \E i \in chosen : Subsequence(plain, chosen)[k] = plain[i]
    BY <1>4, SubsequenceElements
  <2> QED BY <1>1, <2>1
<1>7. \A k \in 1 .. Cardinality(chosen) : Normalized(word)[k] \in Letter
  BY <1>3, <1>6
<1>8. Normalized(word) \in Seq(Letter)
  BY <1>5, <1>7
<1> QED BY <1>5, <1>7, <1>8 DEF IsArray

LEMMA WordsAreLetters ==
  ASSUME PlayedLevel, OnLevel("word_search")
  PROVE  SearchLevel(level)
<1>1. PICK p \in Played : WellFormed(p[1]) /\ p[1].shape = "word_search"
                          /\ level = NormalizeWordSearch(p[1])
  BY LevelOfGame DEF Normalize
<1> DEFINE c == p[1]
           chosen == {i \in DOMAIN c.words : Len(c.words[i]) >= 2}
           words == Subsequence(c.words, chosen)
<1>2. IsArray(c.words) /\ \A i \in DOMAIN c.words : IsArray(c.words[i])
  BY <1>1 DEF WellFormed, All
<1>3. level.words = [i \in DOMAIN words |-> Normalized(words[i])]
  BY <1>1 DEF NormalizeWordSearch, Filter
<1>4. chosen \in SUBSET DOMAIN c.words
  OBVIOUS
<1>5. IsFiniteSet(chosen) /\ chosen \subseteq Int
  BY <1>2, <1>4, ArrayIsFinite DEF IsArray
<1> HIDE DEF chosen
<1>6. DOMAIN words = 1 .. Cardinality(chosen) /\ Cardinality(chosen) \in Nat
  BY <1>5, SubsequenceLength
<1>7. \A k \in DOMAIN words : IsArray(words[k])
  BY <1>2, <1>4, <1>5, <1>6, SubsequenceElements
<1> HIDE DEF words
<1>8. DOMAIN level.words = DOMAIN words /\ \A k \in DOMAIN words : level.words[k] = Normalized(words[k])
  BY <1>3
<1>9. IsFiniteSet(Words(level))
  <2>1. IsFiniteSet(DOMAIN level.words)
    BY <1>6, <1>8, FS_Interval
  <2> DEFINE f == [i \in DOMAIN level.words |-> level.words[i]]
  <2>2. f \in Surjection(DOMAIN level.words, Words(level))
    BY DEF Surjection, Words
  <2> HIDE DEF f
  <2> QED BY <2>1, <2>2, FS_Surjection
<1>10. \A w \in Words(level) : IsArray(w) /\ \A i \in DOMAIN w : w[i] \in Letter
  BY <1>7, <1>8, NormalizedWord DEF Words
<1>11. level.width \in Nat /\ level.height \in Nat
  BY <1>1 DEF WellFormed, NormalizeWordSearch
<1>12. Words(level) \subseteq Seq(Letter)
  BY <1>7, <1>8, NormalizedWord DEF Words
<1> QED BY <1>9, <1>10, <1>11, <1>12 DEF SearchLevel

LEMMA ArrayIndices ==
  ASSUME NEW seq, IsArray(seq)
  PROVE  DOMAIN seq \subseteq Int
BY DEF IsArray

\* A straight line meets no cell twice.
LEMMA Straight ==
  ASSUME NEW at \in Int \X Int, NEW dir \in WordSearch!Directions, NEW i \in Int, NEW j \in Int,
         WordSearch!At(at, dir, i) = WordSearch!At(at, dir, j)
  PROVE  i = j
<1>1. /\ at[1] + (i - 1) * dir[1] = at[1] + (j - 1) * dir[1]
      /\ at[2] + (i - 1) * dir[2] = at[2] + (j - 1) * dir[2]
  BY DEF WordSearch!At
<1>2. at[1] \in Int /\ at[2] \in Int
  OBVIOUS
<1>3. CASE dir[1] = 1
  BY <1>1, <1>2, <1>3
<1>4. CASE dir[2] = 1
  BY <1>1, <1>2, <1>4
<1>5. dir[1] = 1 \/ dir[2] = 1
  BY DEF WordSearch!Directions
<1> QED BY <1>3, <1>4, <1>5

LEMMA CellsArePairs ==
  ASSUME NEW l, l.width \in Nat, l.height \in Nat
  PROVE  WordSearch!Cells(l) \subseteq Int \X Int
BY DEF WordSearch!Cells

\* No letter is written over.
Keeps(l, grid, next) == \A c \in WordSearch!Cells(l) : grid[c] # "" => next[c] = grid[c]

\* A word that is placed where it may be stands there, over nothing but itself.
LEMMA PlacedStands ==
  ASSUME NEW l, SearchLevel(l), NEW grid \in [WordSearch!Cells(l) -> Ink(l) \cup {""}],
         NEW w \in Words(l), NEW at \in WordSearch!Cells(l), NEW dir \in WordSearch!Directions,
         WordSearch!CanPlaceWord(l, grid, w, at, dir),
         NEW next, next = WordSearch!PlaceWord(grid, w, at, dir)
  PROVE  /\ next \in [WordSearch!Cells(l) -> Ink(l) \cup {""}]
         /\ Stands(l, next, w, at, dir)
         /\ Keeps(l, grid, next)
<1> DEFINE Cell(i) == WordSearch!At(at, dir, i)
           Over(c) == \E i \in DOMAIN w : Cell(i) = c
<1>1. /\ DOMAIN w \subseteq Int /\ \A i \in DOMAIN w : w[i] \in Letter
      /\ at \in Int \X Int
  <2>1. at \in Int \X Int
    BY CellsArePairs DEF SearchLevel
  <2>2. IsArray(w) /\ \A i \in DOMAIN w : w[i] \in Letter
    BY DEF SearchLevel
  <2>3. DOMAIN w \subseteq Int
    BY <2>2, ArrayIndices
  <2> QED BY <2>1, <2>2, <2>3
<1>2. \A i \in DOMAIN w : /\ Cell(i) \in WordSearch!Cells(l)
                          /\ grid[Cell(i)] \in {"", w[i]}
  BY DEF WordSearch!CanPlaceWord, WordSearch!Empty
<1>3. \A i, j \in DOMAIN w : Cell(i) = Cell(j) => i = j
  BY <1>1, Straight
<1>4. next = [c \in WordSearch!Cells(l) |->
                IF Over(c) THEN w[CHOOSE i \in DOMAIN w : Cell(i) = c] ELSE grid[c]]
  BY DEF WordSearch!PlaceWord
<1> HIDE DEF Cell
<1>5. \A i \in DOMAIN w : next[Cell(i)] = w[i]
  <2> SUFFICES ASSUME NEW i \in DOMAIN w PROVE next[Cell(i)] = w[i]
    OBVIOUS
  <2>1. (CHOOSE j \in DOMAIN w : Cell(j) = Cell(i)) = i
    BY <1>3
  <2>2. Cell(i) \in WordSearch!Cells(l) /\ Over(Cell(i))
    BY <1>2
  <2> QED BY <1>4, <2>1, <2>2
<1>6. \A c \in WordSearch!Cells(l) : ~Over(c) => next[c] = grid[c]
  BY <1>4
<1>7. \A c \in WordSearch!Cells(l) : next[c] \in Ink(l) \cup {""} /\ (grid[c] # "" => next[c] = grid[c])
  <2> SUFFICES ASSUME NEW c \in WordSearch!Cells(l)
               PROVE  next[c] \in Ink(l) \cup {""} /\ (grid[c] # "" => next[c] = grid[c])
    OBVIOUS
  <2>1. CASE ~Over(c)
    BY <1>6, <2>1
  <2>2. ASSUME NEW i \in DOMAIN w, Cell(i) = c
        PROVE  next[c] \in Ink(l) \cup {""} /\ (grid[c] # "" => next[c] = grid[c])
    <3>1. {w[j] : j \in DOMAIN w} \in {{v[j] : j \in DOMAIN v} : v \in Words(l)}
      OBVIOUS
    <3>2. w[i] \in {w[j] : j \in DOMAIN w}
      BY <2>2
    <3>3. w[i] \in Ink(l)
      BY <3>1, <3>2 DEF Ink
    <3> QED BY <1>2, <1>5, <2>2, <3>3
  <2> QED BY <2>1, <2>2
<1>8. next \in [WordSearch!Cells(l) -> Ink(l) \cup {""}]
  BY <1>4, <1>7
<1>9. Stands(l, next, w, at, dir)
  BY <1>2, <1>5 DEF Stands, Cell
<1>10. Keeps(l, grid, next)
  BY <1>7 DEF Keeps
<1> QED BY <1>8, <1>9, <1>10

\* No cell that a word of the grid covers is written over.
LEMMA WordsStay ==
  ASSUME NEW l, SearchLevel(l), NEW grid, NEW next, NEW words, words \subseteq Words(l),
         IsLaid(l, grid, words),
         Keeps(l, grid, next)
  PROVE  IsLaid(l, next, words)
<1> SUFFICES ASSUME NEW w \in words PROVE \E at, dir : Stands(l, next, w, at, dir)
  BY DEF IsLaid
<1>1. PICK at, dir : Stands(l, grid, w, at, dir)
  BY DEF IsLaid
<1>2. \A i \in DOMAIN w : w[i] # ""
  BY LetterAssumption DEF SearchLevel
<1>3. Stands(l, next, w, at, dir)
  BY <1>1, <1>2 DEF Stands, Keeps
<1> QED BY <1>3

\* A grid of words with another word in it, where it may be placed.
LEMMA LaidOn ==
  ASSUME NEW l, SearchLevel(l), NEW grid \in [WordSearch!Cells(l) -> Ink(l) \cup {""}],
         NEW words \in SUBSET Words(l), IsLaid(l, grid, words),
         NEW w \in Words(l), NEW at \in WordSearch!Cells(l), NEW dir \in WordSearch!Directions,
         WordSearch!CanPlaceWord(l, grid, w, at, dir)
  PROVE  [grid |-> WordSearch!PlaceWord(grid, w, at, dir), words |-> words \cup {w}] \in Partial(l)
<1> DEFINE next == WordSearch!PlaceWord(grid, w, at, dir)
<1>1. next = WordSearch!PlaceWord(grid, w, at, dir)
  OBVIOUS
<1> HIDE DEF next
<1>2. next \in [WordSearch!Cells(l) -> Ink(l) \cup {""}]
  BY <1>1, PlacedStands
<1>3. Stands(l, next, w, at, dir)
  BY <1>1, PlacedStands
<1>4. Keeps(l, grid, next)
  BY <1>1, PlacedStands
<1>5. IsLaid(l, next, words)
  BY <1>4, WordsStay
<1>6. IsLaid(l, next, words \cup {w})
  BY <1>3, <1>5 DEF IsLaid
<1> DEFINE q == [grid |-> next, words |-> words \cup {w}]
<1>7. q.grid = next /\ q.words = words \cup {w}
  OBVIOUS
<1>8. q \in [grid : [WordSearch!Cells(l) -> Ink(l) \cup {""}], words : SUBSET Words(l)]
  BY <1>2
<1>9. q \in Partial(l)
  <2> HIDE DEF q
  <2> QED BY <1>6, <1>7, <1>8 DEF Partial
<1> QED BY <1>1, <1>9

\* A word more.
LEMMA OneMoreWord ==
  ASSUME NEW l, SearchLevel(l), NEW p \in Partial(l), NEW w \in Words(l),
         NEW q \in WordSearch!WithWord(l, p, w)
  PROVE  q \in Partial(l)
<1>1. /\ p.grid \in [WordSearch!Cells(l) -> Ink(l) \cup {""}]
      /\ p.words \in SUBSET Words(l) /\ IsLaid(l, p.grid, p.words)
  BY DEF Partial
<1>2. CASE q = p
  BY <1>2
<1>3. CASE q # p
  <2>1. PICK at \in WordSearch!Cells(l), dir \in WordSearch!Directions :
          /\ WordSearch!CanPlaceWord(l, p.grid, w, at, dir)
          /\ q = [grid |-> WordSearch!PlaceWord(p.grid, w, at, dir), words |-> p.words \cup {w}]
    BY <1>3 DEF WordSearch!WithWord
  <2> QED BY <1>1, <2>1, LaidOn
<1> QED BY <1>2, <1>3

(***************************************************************************)
(* The fold that makes a grid of the words of a level.                     *)
(***************************************************************************)

Shortest(words) == CHOOSE w \in words : \A v \in words : Len(w) <= Len(v)

Blank(l) == [grid |-> [c \in WordSearch!Cells(l) |-> WordSearch!Empty], words |-> {}]

\* What a word more makes of the grids in the making.
WithWords(l, grids, w) == UNION {WordSearch!WithWord(l, p, w) : p \in grids}

\* The recursion of MapThenFoldSet, as Grids uses it.
Builds(g, l, S) ==
  g = [T \in SUBSET S |-> IF T = {} THEN {Blank(l)}
                          ELSE WithWords(l, g[T \ {Shortest(T)}], Shortest(T))]

Build(l, S) == CHOOSE g : Builds(g, l, S)

LEMMA GridsAreBuilt ==
  ASSUME NEW l, NEW h \in WordSearch!Grids(l)
  PROVE  \E p \in Build(l, Words(l))[Words(l)] : \E f \in [WordSearch!Holes(p.grid) -> Filler] :
            h = [p EXCEPT !.grid = WordSearch!Filled(@, f)]
<1> DEFINE built == WordSearch!MapThenFoldSet(LAMBDA w, grids : WithWords(l, grids, w), {Blank(l)},
                                              LAMBDA w : w, Shortest, Words(l))
<1>1. built = Build(l, Words(l))[Words(l)]
  BY DEF WordSearch!MapThenFoldSet, Build, Builds
<1>2. WordSearch!Grids(l) =
        UNION {{[g EXCEPT !.grid = WordSearch!Filled(@, f)] :
                  f \in [WordSearch!Holes(g.grid) -> Filler]} : g \in built}
  BY DEF WordSearch!Grids, WordSearch!ToSet, Words, Blank, WithWords, Shortest
<1> HIDE DEF built
<1> QED BY <1>1, <1>2

\* Of some words one is the shortest.
LEMMA ShortestIsOne ==
  ASSUME NEW l, SearchLevel(l), NEW T \in SUBSET Words(l), T # {}
  PROVE  Shortest(T) \in T
<1>1. IsFiniteSet(T) /\ \A w \in T : Len(w) \in Nat
  BY FS_Subset DEF SearchLevel, IsArray
<1> DEFINE f == [w \in T |-> Len(w)]
<1>2. \A w \in T : f[w] \in Int
  BY <1>1
<1>3. PICK w \in T : \A v \in T : f[w] <= f[v]
  <2> HIDE DEF f
  <2> QED BY <1>1, <1>2, LeastElement
<1>4. \A v \in T : Len(w) <= Len(v)
  BY <1>3
<1> QED BY <1>4 DEF Shortest

\* What every step leaves in V stays there.
LEMMA RecursionStays ==
  ASSUME NEW S, IsFiniteSet(S), NEW g, NEW pick, NEW V,
         \A T \in SUBSET S : T # {} => pick[T] \in T,
         g[{}] \in V,
         \A T \in SUBSET S : T # {} /\ g[T \ {pick[T]}] \in V => g[T] \in V
  PROVE  \A T \in SUBSET S : g[T] \in V
<1> DEFINE C == {T \in SUBSET S : \A U \in SUBSET T : g[U] \in V}
<1>1. ASSUME NEW T \in SUBSET S, \A U \in SUBSET T : U # T => U \in C
      PROVE  T \in C
  <2>1. \A U \in SUBSET T : U # T => g[U] \in V
    BY <1>1
  <2>2. g[T] \in V
    <3>1. CASE T = {}
      BY <3>1
    <3>2. CASE T # {}
      <4> DEFINE R == T \ {pick[T]}
      <4>1. R \in SUBSET T /\ R # T
        BY <3>2
      <4>2. g[R] \in V
        <5> HIDE DEF R
        <5> QED BY <2>1, <4>1
      <4> QED BY <3>2, <4>2
    <3> QED BY <3>1, <3>2
  <2> QED BY <2>1, <2>2
<1>2. S \in C
  <2> HIDE DEF C
  <2> QED BY <1>1, SubsetInduction
<1> QED BY <1>2

\* The grids in the making are such whatever words are taken first.
LEMMA BuildStays ==
  ASSUME NEW l, SearchLevel(l), NEW g,
         g[{}] = {Blank(l)},
         \A T \in SUBSET Words(l) : T # {} /\ g[T \ {Shortest(T)}] \in SUBSET Partial(l) =>
            g[T] = WithWords(l, g[T \ {Shortest(T)}], Shortest(T))
  PROVE  \A T \in SUBSET Words(l) : g[T] \in SUBSET Partial(l)
<1> DEFINE S == Words(l)
           pick == [T \in SUBSET S |-> Shortest(T)]
           V == SUBSET Partial(l)
<1>1. IsFiniteSet(S) /\ \A T \in SUBSET S : T # {} => pick[T] \in T
  BY ShortestIsOne DEF SearchLevel
<1>2. g[{}] \in V
  <2> DEFINE blank == [c \in WordSearch!Cells(l) |-> ""]
             none == {}
  <2>1. blank \in [WordSearch!Cells(l) -> Ink(l) \cup {""}] /\ IsLaid(l, blank, {})
    BY DEF IsLaid
  <2>2. Blank(l) = [grid |-> blank, words |-> none]
    BY DEF Blank, WordSearch!Empty
  <2> HIDE DEF blank
  <2>3. Blank(l).grid = blank /\ Blank(l).words = {}
    BY <2>2
  <2>4. Blank(l) \in [grid : [WordSearch!Cells(l) -> Ink(l) \cup {""}], words : SUBSET Words(l)]
    <3>1. none \in SUBSET Words(l)
      OBVIOUS
    <3>2. blank \in [WordSearch!Cells(l) -> Ink(l) \cup {""}]
      BY <2>1
    <3> HIDE DEF none
    <3>3. [grid |-> blank, words |-> none] \in
            [grid : [WordSearch!Cells(l) -> Ink(l) \cup {""}], words : SUBSET Words(l)]
      BY <3>1, <3>2
    <3> QED BY <2>2, <3>3, Zenon
  <2>5. Blank(l) \in Partial(l)
    BY <2>1, <2>3, <2>4 DEF Partial
  <2> QED BY <2>5
<1>3. \A w \in S, grids \in V : WithWords(l, grids, w) \in V
  BY OneMoreWord DEF WithWords
<1>4. ASSUME NEW T \in SUBSET S, T # {}, g[T \ {pick[T]}] \in V
      PROVE  g[T] \in V
  <2>1. pick[T] = Shortest(T) /\ Shortest(T) \in S
    BY <1>1, <1>4
  <2>2. g[T] = WithWords(l, g[T \ {Shortest(T)}], Shortest(T))
    BY <1>4, <2>1
  <2> QED BY <1>3, <1>4, <2>1, <2>2
<1> HIDE DEF pick, V, S
<1>5. \A T \in SUBSET S : g[T] \in V
  BY <1>1, <1>2, <1>4, RecursionStays
<1> QED BY <1>5 DEF S, V

LEMMA BuildExists ==
  ASSUME NEW l, SearchLevel(l)
  PROVE  Builds(Build(l, Words(l)), l, Words(l))
<1> DEFINE S == Words(l)
           pick == [T \in SUBSET S |-> Shortest(T)]
           step == [x \in S \X SUBSET Partial(l) |-> WithWords(l, x[2], x[1])]
           base == {Blank(l)}
<1>1. IsFiniteSet(S) /\ \A T \in SUBSET S : T # {} => pick[T] \in T
  BY ShortestIsOne DEF SearchLevel
<1>2. PICK g : Recursion(g, S, base, pick, step)
  <2> HIDE DEF S, pick, step, base
  <2> QED BY <1>1, RecursionExists
<1>3. g = [T \in SUBSET S |-> g[T]]
        /\ \A T \in SUBSET S : g[T] = IF T = {} THEN base ELSE step[<<pick[T], g[T \ {pick[T]}]>>]
  <2> HIDE DEF S, pick, step, base
  <2> QED BY <1>2 DEF Recursion
<1>4. \A w \in S, grids \in SUBSET Partial(l) : step[<<w, grids>>] = WithWords(l, grids, w)
  OBVIOUS
<1>5. ASSUME NEW T \in SUBSET S, T # {}, g[T \ {Shortest(T)}] \in SUBSET Partial(l)
      PROVE  g[T] = WithWords(l, g[T \ {Shortest(T)}], Shortest(T))
  <2>1. pick[T] = Shortest(T) /\ Shortest(T) \in S
    BY <1>1, <1>5
  <2>2. g[T] = step[<<Shortest(T), g[T \ {Shortest(T)}]>>]
    <3> HIDE DEF S, step, pick
    <3> QED BY <1>3, <1>5, <2>1
  <2> HIDE DEF S, step, pick
  <2> QED BY <1>4, <1>5, <2>1, <2>2
<1>6. g[{}] = {Blank(l)}
  BY <1>3
<1>7. \A T \in SUBSET Words(l) : g[T] \in SUBSET Partial(l)
  <2> HIDE DEF pick, step, base
  <2> QED BY <1>5, <1>6, BuildStays
<1>8. \A T \in SUBSET S : g[T] = IF T = {} THEN {Blank(l)}
                                 ELSE WithWords(l, g[T \ {Shortest(T)}], Shortest(T))
  <2> SUFFICES ASSUME NEW T \in SUBSET S
               PROVE  g[T] = IF T = {} THEN {Blank(l)}
                             ELSE WithWords(l, g[T \ {Shortest(T)}], Shortest(T))
    OBVIOUS
  <2>1. CASE T = {}
    BY <1>6, <2>1
  <2>2. CASE T # {}
    <3> DEFINE R == T \ {Shortest(T)}
    <3>1. R \in SUBSET S
      OBVIOUS
    <3> HIDE DEF step, pick, base
    <3> QED BY <1>5, <1>7, <2>2, <3>1
  <2> QED BY <2>1, <2>2
<1>9. g = [T \in SUBSET S |-> IF T = {} THEN {Blank(l)}
                              ELSE WithWords(l, g[T \ {Shortest(T)}], Shortest(T))]
  <2> HIDE DEF S, pick, step, base
  <2> QED BY <1>3, <1>8
<1>10. Builds(g, l, S)
  BY <1>9 DEF Builds
<1> QED BY <1>10 DEF Build

\* A grid of a level is complete, and every word that it took stands in it.
LEMMA GridsAreLaid ==
  ASSUME NEW l, SearchLevel(l), NEW h \in WordSearch!Grids(l)
  PROVE  /\ h.words \subseteq Words(l)
         /\ IsLaid(l, h.grid, h.words)
         /\ h.grid \in [WordSearch!Cells(l) -> Filler \cup Ink(l)]
<1> DEFINE g == Build(l, Words(l))
<1>1. /\ g[{}] = {Blank(l)}
      /\ \A T \in SUBSET Words(l) : T # {} => g[T] = WithWords(l, g[T \ {Shortest(T)}], Shortest(T))
  <2>1. Builds(g, l, Words(l))
    BY BuildExists
  <2> HIDE DEF g
  <2> QED BY <2>1 DEF Builds
<1>2. g[Words(l)] \in SUBSET Partial(l)
  <2> HIDE DEF g
  <2>1. \A T \in SUBSET Words(l) : g[T] \in SUBSET Partial(l)
    BY <1>1, BuildStays
  <2> QED BY <2>1
<1>3. PICK p \in Partial(l) : \E f \in [WordSearch!Holes(p.grid) -> Filler] :
        h = [p EXCEPT !.grid = WordSearch!Filled(@, f)]
  BY <1>2, GridsAreBuilt
<1>4. /\ p.grid \in [WordSearch!Cells(l) -> Ink(l) \cup {""}]
      /\ p.words \subseteq Words(l) /\ IsLaid(l, p.grid, p.words)
  BY DEF Partial
<1>5. PICK f \in [WordSearch!Holes(p.grid) -> Filler] :
        h.words = p.words /\ h.grid = WordSearch!Filled(p.grid, f)
  BY <1>3 DEF Partial
<1>6. Keeps(l, p.grid, h.grid)
  BY <1>4, <1>5 DEF Keeps, WordSearch!Filled, WordSearch!Holes, WordSearch!Empty
<1>7. IsLaid(l, h.grid, h.words)
  BY <1>4, <1>5, <1>6, WordsStay
<1>8. h.grid \in [WordSearch!Cells(l) -> Filler \cup Ink(l)]
  BY <1>4, <1>5 DEF WordSearch!Filled, WordSearch!Holes, WordSearch!Empty
<1> QED BY <1>4, <1>5, <1>7, <1>8

(***************************************************************************)
(* The word search: how it is played.                                      *)
(***************************************************************************)

SearchScored ==
  /\ DOMAIN engine = {"grid", "words", "foundWords", "score", "isFinished"}
  /\ engine.words \subseteq Words(level) /\ IsFiniteSet(engine.words)
  /\ IsLaid(level, engine.grid, engine.words)
  /\ engine.foundWords \subseteq engine.words
  /\ engine.score = 100 * Cardinality(engine.foundWords)
  /\ engine.isFinished \in BOOLEAN
  /\ ~engine.isFinished => reports = <<>>
  /\ engine.isFinished => /\ engine.foundWords = engine.words
                          /\ reports = <<100 * Cardinality(engine.words)>>

\* A selection finds nothing, or one word that was not found before.
LEMMA FindsOne ==
  ASSUME WordSearch!SubmitSelection
  PROVE  \/ UNCHANGED <<engine, reports>>
         \/ /\ ~engine.isFinished
            /\ \E w \in engine.words \ engine.foundWords :
                  /\ engine' = [engine EXCEPT !.foundWords = engine.foundWords \cup {w},
                                   !.score = @ + 100,
                                   !.isFinished = (engine.foundWords \cup {w} = engine.words)]
                  /\ reports' = IF engine.foundWords \cup {w} = engine.words
                                THEN Append(reports, engine'.score) ELSE reports
<1>1. PICK str : str = WordSearch!Line(ui.from, ui.to)
  OBVIOUS
<1> DEFINE found == WordSearch!Finds(str)
           all == engine.foundWords \cup found
<1>2. \/ UNCHANGED <<engine, reports>>
      \/ /\ ~engine.isFinished /\ found # {}
         /\ engine' = [engine EXCEPT !.foundWords = all, !.score = @ + 100,
                                     !.isFinished = (all = engine.words)]
         /\ reports' = IF all = engine.words THEN Append(reports, engine'.score) ELSE reports
  BY <1>1 DEF WordSearch!SubmitSelection, WordSearch!CheckWord
<1>3. found # {} => \E w \in engine.words \ engine.foundWords : found = {w}
  BY DEF WordSearch!Finds
<1> HIDE DEF found
<1> QED BY <1>2, <1>3

LEMMA SearchSubmits ==
  ASSUME SearchScored, WordSearch!SubmitSelection, level' = level
  PROVE  SearchScored'
<1>1. CASE UNCHANGED <<engine, reports>>
  BY <1>1 DEF SearchScored
<1>2. ASSUME ~engine.isFinished, NEW w \in engine.words \ engine.foundWords,
             NEW all, all = engine.foundWords \cup {w},
             engine' = [engine EXCEPT !.foundWords = all, !.score = @ + 100,
                                      !.isFinished = (all = engine.words)],
             reports' = IF all = engine.words THEN Append(reports, engine'.score) ELSE reports
      PROVE  SearchScored'
  <2>1. /\ DOMAIN engine' = {"grid", "words", "foundWords", "score", "isFinished"}
        /\ engine'.grid = engine.grid /\ engine'.words = engine.words
        /\ engine'.foundWords = all /\ engine'.score = engine.score + 100
    BY <1>2 DEF SearchScored
  <2>2. engine'.isFinished = (all = engine.words)
    BY <1>2 DEF SearchScored
  <2>3. engine'.score = 100 * Cardinality(all)
    <3>1. IsFiniteSet(engine.foundWords) /\ w \notin engine.foundWords
      BY FS_Subset DEF SearchScored
    <3>2. Cardinality(all) = Cardinality(engine.foundWords) + 1 /\ Cardinality(engine.foundWords) \in Nat
      BY <1>2, <3>1, FS_AddElement, FS_CardinalityType
    <3> QED BY <2>1, <3>2 DEF SearchScored
  <2>4. all \subseteq engine.words /\ reports = <<>>
    BY <1>2 DEF SearchScored
  <2>5. CASE all = engine.words
    <3>1. engine'.isFinished = TRUE
      BY <2>2, <2>5, Zenon
    <3>2. engine'.isFinished \in BOOLEAN /\ engine'.isFinished
      BY <3>1, Zenon
    <3>3. reports' = <<100 * Cardinality(engine.words)>>
      BY <1>2, <2>3, <2>4, <2>5, AppendOne
    <3> QED BY <2>1, <2>3, <2>4, <2>5, <3>2, <3>3 DEF SearchScored
  <2>6. CASE all # engine.words
    <3>1. engine'.isFinished = FALSE
      BY <2>2, <2>6, Zenon
    <3>2. engine'.isFinished \in BOOLEAN /\ ~engine'.isFinished
      BY <3>1, Zenon
    <3>3. reports' = <<>>
      BY <1>2, <2>4, <2>6
    <3> QED BY <2>1, <2>3, <2>4, <3>2, <3>3 DEF SearchScored
  <2> QED BY <2>5, <2>6
<1> QED BY <1>1, <1>2, FindsOne

LEMMA SearchScores ==
  ASSUME SearchScored, WordSearch!Player
  PROVE  SearchScored'
<1>1. level' = level
  BY DEF WordSearch!Player, WordSearch!PointerDown, WordSearch!PointerMove, WordSearch!PointerUp,
     WordSearch!MoveCursor, WordSearch!Enter, WordSearch!Escape
<1>2. CASE UNCHANGED <<engine, reports>>
  BY <1>1, <1>2 DEF SearchScored
<1>3. CASE WordSearch!SubmitSelection
  BY <1>1, <1>3, SearchSubmits
<1>4. UNCHANGED <<engine, reports>> \/ WordSearch!SubmitSelection
  BY DEF WordSearch!Player, WordSearch!PointerDown, WordSearch!PointerMove, WordSearch!PointerUp,
     WordSearch!MoveCursor, WordSearch!Enter, WordSearch!Escape
<1> QED BY <1>2, <1>3, <1>4

LEMMA SearchStarts ==
  ASSUME InGame("word_search")', page'.template = page.template, level' = level, Mount,
         SearchLevel(level)
  PROVE  SearchScored'
<1>1. Playable /\ page.template = "word_search"
  BY DEF InGame, Playable, Is
<1>2. engine' \in WordSearch!Engines(level) /\ reports' = <<>>
  BY <1>1 DEF Mount, Is
<1>3. PICK h \in WordSearch!Grids(level) :
        engine' = [grid |-> h.grid, words |-> h.words, foundWords |-> {}, score |-> 0, isFinished |-> FALSE]
  BY <1>2 DEF WordSearch!Engines
<1>4. /\ h.words \subseteq Words(level) /\ IsLaid(level, h.grid, h.words)
      /\ IsFiniteSet(h.words)
  <2>1. h.words \subseteq Words(level) /\ IsLaid(level, h.grid, h.words)
    BY GridsAreLaid
  <2> QED BY <2>1, FS_Subset DEF SearchLevel
<1>5. /\ DOMAIN engine' = {"grid", "words", "foundWords", "score", "isFinished"}
      /\ engine'.grid = h.grid /\ engine'.words = h.words /\ engine'.foundWords = {}
      /\ engine'.score = 0
  BY <1>3
<1>6. engine'.isFinished = FALSE
  BY <1>3
<1>7. engine'.isFinished \in BOOLEAN /\ ~engine'.isFinished
  BY <1>6, Zenon
<1>8. Cardinality({}) = 0
  BY FS_EmptySet
<1> QED BY <1>2, <1>4, <1>5, <1>7, <1>8 DEF SearchScored

(***************************************************************************)
(* Every word that was placed can be found.                                *)
(***************************************************************************)

\* The letters on the line between the ends of a word that stands.
LEMMA LineOfWord ==
  ASSUME SearchLevel(level), NEW w \in Words(level), w # <<>>,
         NEW at, NEW dir, Stands(level, engine.grid, w, at, dir)
  PROVE  \E b \in WordSearch!Cells(level) : WordSearch!Aligned(at, b) /\ WordSearch!Line(at, b) = w
<1> DEFINE n == Len(w)
           b == WordSearch!At(at, dir, n)
           dx == b[1] - at[1]
           dy == b[2] - at[2]
           line == WordSearch!Line(at, b)
<1>1. /\ n \in Nat \ {0} /\ DOMAIN w = 1 .. n /\ w = [i \in 1 .. n |-> w[i]]
  <2>1. w \in Seq(Letter)
    BY DEF SearchLevel
  <2> QED BY <2>1
<1>2. /\ at \in WordSearch!Cells(level) /\ dir \in WordSearch!Directions
      /\ at[1] \in Int /\ at[2] \in Int
  <2>1. at \in WordSearch!Cells(level) /\ dir \in WordSearch!Directions
    BY DEF Stands
  <2>2. at \in Int \X Int
    BY <2>1, CellsArePairs DEF SearchLevel
  <2> QED BY <2>1, <2>2
<1>3. \A i \in 1 .. n : /\ WordSearch!At(at, dir, i) \in WordSearch!Cells(level)
                        /\ engine.grid[WordSearch!At(at, dir, i)] = w[i]
  BY <1>1 DEF Stands
<1>4. dx = (n - 1) * dir[1] /\ dy = (n - 1) * dir[2]
  <2>1. dir[1] \in Int /\ dir[2] \in Int
    BY <1>2 DEF WordSearch!Directions
  <2> HIDE DEF n
  <2> QED BY <1>1, <1>2, <2>1 DEF WordSearch!At
<1>5. line = [i \in 1 .. n |-> engine.grid[<<at[1] + (i - 1) * WordSearch!Sign(dx),
                                             at[2] + (i - 1) * WordSearch!Sign(dy)>>]]
  <2> HIDE DEF n, dx, dy, b
  <2>1. (IF WordSearch!Abs(dx) > WordSearch!Abs(dy) THEN WordSearch!Abs(dx)
         ELSE WordSearch!Abs(dy)) = n - 1
    <3>1. CASE dir = <<1, 0>>
      BY <1>1, <1>4, <3>1 DEF WordSearch!Abs
    <3>2. CASE dir = <<0, 1>>
      BY <1>1, <1>4, <3>2 DEF WordSearch!Abs
    <3>3. CASE dir = <<1, 1>>
      BY <1>1, <1>4, <3>3 DEF WordSearch!Abs
    <3> QED BY <1>2, <3>1, <3>2, <3>3 DEF WordSearch!Directions
  <2>2. n - 1 + 1 = n
    BY <1>1
  <2> QED BY <2>1, <2>2 DEF WordSearch!Line, dx, dy
<1>6. ASSUME NEW i \in 1 .. n
      PROVE  <<at[1] + (i - 1) * WordSearch!Sign(dx), at[2] + (i - 1) * WordSearch!Sign(dy)>>
               = WordSearch!At(at, dir, i)
  <2> HIDE DEF n, dx, dy, b
  <2>1. CASE n = 1
    <3>1. i = 1 /\ dx = 0 /\ dy = 0
      <4>1. dir[1] \in Int /\ dir[2] \in Int
        BY <1>2 DEF WordSearch!Directions
      <4> QED BY <1>4, <2>1, <4>1
    <3>2. dir[1] \in Int /\ dir[2] \in Int
      BY <1>2 DEF WordSearch!Directions
    <3> QED BY <1>2, <3>1, <3>2 DEF WordSearch!At, WordSearch!Sign
  <2>2. CASE n # 1
    <3>1. WordSearch!Sign(dx) = dir[1] /\ WordSearch!Sign(dy) = dir[2]
      <4>1. CASE dir = <<1, 0>>
        BY <1>1, <1>4, <2>2, <4>1 DEF WordSearch!Sign
      <4>2. CASE dir = <<0, 1>>
        BY <1>1, <1>4, <2>2, <4>2 DEF WordSearch!Sign
      <4>3. CASE dir = <<1, 1>>
        BY <1>1, <1>4, <2>2, <4>3 DEF WordSearch!Sign
      <4> QED BY <1>2, <4>1, <4>2, <4>3 DEF WordSearch!Directions
    <3> QED BY <3>1 DEF WordSearch!At
  <2> QED BY <2>1, <2>2
<1>7. line = w
  <2> HIDE DEF n, dx, dy, b, line
  <2>1. \A i \in 1 .. n :
          engine.grid[<<at[1] + (i - 1) * WordSearch!Sign(dx), at[2] + (i - 1) * WordSearch!Sign(dy)>>] = w[i]
    BY <1>3, <1>6
  <2> QED BY <1>1, <1>5, <2>1
<1>8. WordSearch!Aligned(at, b)
  <2> HIDE DEF n, b
  <2>1. CASE dir = <<1, 0>>
    <3>1. dy = 0
      BY <1>1, <1>4, <2>1
    <3>2. b[2] = at[2]
      BY <1>1, <1>2, <2>1 DEF b, WordSearch!At
    <3> QED BY <3>2 DEF WordSearch!Aligned
  <2>2. CASE dir = <<0, 1>>
    <3>1. b[1] = at[1]
      BY <1>1, <1>2, <2>2 DEF b, WordSearch!At
    <3> QED BY <3>1 DEF WordSearch!Aligned
  <2>3. CASE dir = <<1, 1>>
    <3>1. at[1] - b[1] = at[2] - b[2]
      BY <1>1, <1>2, <2>3 DEF b, WordSearch!At
    <3> QED BY <3>1 DEF WordSearch!Aligned
  <2> QED BY <1>2, <2>1, <2>2, <2>3 DEF WordSearch!Directions
<1>9. b \in WordSearch!Cells(level)
  BY <1>1, <1>3
<1> HIDE DEF b
<1> QED BY <1>7, <1>8, <1>9

(***************************************************************************)
(* All the games.                                                          *)
(***************************************************************************)

CountedInv ==
  /\ InGame("trivia") => TriviaScored
  /\ InGame("memory") => MemoryScored
  /\ InGame("word_search") => SearchScored
  /\ InGame("crossword") => CrosswordCounted(engine, reports)

\* Where no game is, nothing is reported.
Silent == reports # <<>> => page.loaded /\ Playable

LEMMA CountedMounted ==
  ASSUME PlayedLevel, Mount, page.view \notin Editors, page'.template = page.template, level' = level
  PROVE  CountedInv'
<1>1. \A t : InGame(t)' => OnLevel(t)
  BY StaysPlayable DEF InGame, OnLevel, Is
<1>2. ASSUME InGame("trivia")' PROVE TriviaScored'
  BY <1>1, <1>2, QuestionsAreCounted, TriviaStarts
<1>3. ASSUME InGame("memory")' PROVE MemoryScored'
  BY <1>1, <1>3, PairsAreCounted, MemoryStarts
<1>4. ASSUME InGame("word_search")' PROVE SearchScored'
  BY <1>1, <1>4, WordsAreLetters, SearchStarts
<1>5. ASSUME InGame("crossword")' PROVE CrosswordCounted(engine', reports')
  BY <1>5, CrosswordStarts
<1> QED BY <1>2, <1>3, <1>4, <1>5 DEF CountedInv

\* One game moves on, with what is known of its engine and its level.
LEMMA CountedPlayed ==
  ASSUME VisitInv, PlayedLevel, TriviaInv, CrosswordInv, CountedInv, GameTimers \/ GamePlayer,
         level' = level, page'.template = page.template, page'.loaded = page.loaded
  PROVE  CountedInv'
<1>1. \A t : InGame(t)' => InGame(t)
  BY DEF InGame, Is, Playable
<1>2. \A t : InGame(t) => OnLevel(t) /\ Is(t)
  BY GameOnLevel DEF InGame
<1>3. ASSUME InGame("trivia") PROVE TriviaScored'
  <2>1. TriviaEngine /\ TriviaScored
    BY <1>3 DEF TriviaInv, CountedInv
  <2>2. level.questions \in Nat \ {0}
    BY <1>2, <1>3, QuestionsAreCounted
  <2>3. Trivia!Timers \/ Trivia!Player
    BY <1>3 DEF GameTimers, GamePlayer, InGame, Is
  <2> QED BY <2>1, <2>2, <2>3, TriviaScores
<1>4. ASSUME InGame("memory") PROVE MemoryScored'
  <2>1. MemoryScored
    BY <1>4 DEF CountedInv
  <2>2. Len(level.ids) \in Nat
    BY <1>2, <1>4, PairsAreCounted
  <2>3. Memory!Timers \/ Memory!Player
    BY <1>4 DEF GameTimers, GamePlayer, InGame, Is
  <2> QED BY <2>1, <2>2, <2>3, MemoryScores
<1>5. ASSUME InGame("word_search") PROVE SearchScored'
  <2>1. SearchScored
    BY <1>5 DEF CountedInv
  <2>2. WordSearch!Player
    BY <1>5 DEF GameTimers, GamePlayer, InGame, Is
  <2> QED BY <2>1, <2>2, SearchScores
<1>6. ASSUME InGame("crossword") PROVE CrosswordCounted(engine', reports')
  <2>1. CrosswordState(engine) /\ CrosswordCounted(engine, reports)
    BY <1>6 DEF CrosswordInv, CountedInv
  <2>2. Crossword!Player
    BY <1>6 DEF GameTimers, GamePlayer, InGame, Is
  <2> QED BY <2>1, <2>2, CrosswordScores
<1> QED BY <1>1, <1>3, <1>4, <1>5, <1>6 DEF CountedInv

\* Nothing happens to a game when its page changes, but that trivia stops.
LEMMA CountedStays ==
  ASSUME CountedInv, UNCHANGED <<level, ui, reports>>,
         page'.template = page.template, page'.loaded = page.loaded,
         \/ engine' = engine
         \/ Is("trivia") /\ InGame("trivia") /\ TriviaEngine /\ engine' = Trivia!Destroyed
  PROVE  CountedInv'
<1>1. \A t : InGame(t)' => InGame(t)
  BY DEF InGame, Is, Playable
<1>2. \A t : InGame(t) => Is(t)
  BY DEF InGame
<1>3. CASE engine' = engine
  <2>1. TriviaScored => TriviaScored'
    BY <1>3 DEF TriviaScored, Reported, Current, Answered
  <2>2. MemoryScored => MemoryScored'
    BY <1>3 DEF MemoryScored, MatchedCards, Memory!Cards, Waiting
  <2>3. SearchScored => SearchScored'
    BY <1>3 DEF SearchScored
  <2>4. CrosswordCounted(engine, reports) => CrosswordCounted(engine', reports')
    BY <1>3
  <2> QED BY <1>1, <2>1, <2>2, <2>3, <2>4 DEF CountedInv
<1>4. CASE Is("trivia") /\ InGame("trivia") /\ TriviaEngine /\ engine' = Trivia!Destroyed
  <2>1. engine'.state = engine.state
    BY <1>4 DEF Trivia!Destroyed, TriviaEngine
  <2>2. TriviaScored'
    <3>1. TriviaScored /\ ~engine'.listening
      BY <1>4 DEF CountedInv, Trivia!Destroyed, TriviaEngine
    <3> QED BY <2>1, <3>1 DEF TriviaScored, Reported, Current, Answered
  <2> QED BY <1>1, <1>2, <1>4, <2>2 DEF CountedInv, Is
<1> QED BY <1>3, <1>4

LEMMA CountedGoesOn ==
  VisitInv /\ PlayedLevel /\ TriviaInv /\ CrosswordInv /\ CountedInv /\ [Next]_vars => CountedInv'
<1> SUFFICES ASSUME VisitInv, PlayedLevel, TriviaInv, CrosswordInv, CountedInv, [Next]_vars
             PROVE  CountedInv'
  OBVIOUS
<1>1. CASE UNCHANGED <<page, level, engine, ui, scene, reports>>
  BY <1>1, CountedStays
<1>2. CASE /\ GameTimers \/ GamePlayer
           /\ level' = level /\ page'.template = page.template /\ page'.loaded = page.loaded
  BY <1>2, CountedPlayed
<1>3. CASE /\ UNCHANGED <<level, ui, scene, reports>>
           /\ page'.template = page.template /\ page'.loaded = page.loaded
           /\ engine' = engine \/ (Mounted /\ Is("trivia") /\ engine' = Trivia!Destroyed)
  <2>1. Mounted /\ Is("trivia") => InGame("trivia") /\ TriviaEngine
    BY DEF Mounted, InGame, VisitInv, TriviaInv
  <2> QED BY <1>3, <2>1, CountedStays
<1> QED BY <1>1, <1>2, <1>3, CountedMounted, PageSteps

LEMMA CountedBegins == Init => CountedInv /\ Silent
BY VisitBegins DEF Init, PageInit, Visit, CountedInv, Silent, InGame

LEMMA SilentGoesOn == VisitInv /\ Silent /\ [Next]_vars => Silent'
<1> SUFFICES ASSUME VisitInv, Silent, [Next]_vars PROVE Silent'
  OBVIOUS
<1>1. CASE UNCHANGED <<page, level, engine, ui, scene, reports>>
  BY <1>1 DEF Silent, Playable
<1>2. CASE /\ GameTimers \/ GamePlayer
           /\ level' = level /\ page'.template = page.template /\ page'.loaded = page.loaded
  <2>1. page.loaded /\ Playable
    BY <1>2, PlayedIsLoaded DEF GameTimers, GamePlayer, Mounted, Pending
  <2> QED BY <1>2, <2>1, StaysPlayable DEF Silent
<1>3. CASE Mount
  BY <1>3 DEF Mount, Silent
<1>4. CASE /\ UNCHANGED <<level, reports>>
           /\ page'.template = page.template /\ page'.loaded = page.loaded
  BY <1>4, StaysPlayable DEF Silent
<1> QED BY <1>1, <1>2, <1>3, <1>4, PageSteps

\* What the invariants say of a game that has reported.
LEMMA ReportIsEarned ==
  ASSUME CountedInv, ScoredInv, CrosswordInv, Silent, PlayedLevel, VisitInv, reports # <<>>
  PROVE  ReportsAreEarned
<1>1. \A t : Is(t) => InGame(t) /\ OnLevel(t)
  BY GameOnLevel DEF Silent, InGame
<1>2. ASSUME Is("trivia") PROVE Trivia!Won
  <2>1. TriviaScored
    BY <1>1, <1>2 DEF CountedInv
  <2>2. DOMAIN reports = 1 .. Len(reports)
    BY <2>1 DEF TriviaScored
  <2> QED BY <2>1, <2>2 DEF Trivia!Won, TriviaScored, Reported
<1>3. ASSUME Is("memory") PROVE Memory!Won
  <2>1. MemoryScored /\ Len(level.ids) \in Nat
    BY <1>1, <1>3, PairsAreCounted DEF CountedInv
  <2>2. engine.matchedPairs = Len(level.ids) /\ reports = <<Len(level.ids)>>
    BY <2>1 DEF MemoryScored
  <2> QED BY <2>1, <2>2, AllMatched DEF Memory!Won
<1>4. ASSUME Is("word_search") PROVE WordSearch!Won
  <2>1. SearchScored
    BY <1>1, <1>4 DEF CountedInv
  <2>2. WordSearch!Cardinality(engine.words) = Cardinality(engine.words)
    BY DEF WordSearch!Cardinality, Cardinality
  <2> QED BY <2>1, <2>2 DEF SearchScored, WordSearch!Won
<1>5. ASSUME Is("crossword") PROVE Crossword!Won
  <2>1. CrosswordCounted(engine, reports)
    BY <1>1, <1>5 DEF CountedInv
  <2>2. Right(engine) = DOMAIN engine.user /\ reports \in Seq({Full(engine)})
    BY <2>1 DEF CrosswordCounted
  <2>3. \A i \in DOMAIN reports : reports[i] = Full(engine)
    BY <2>2
  <2> QED BY <2>2, <2>3, CrosswordCardinality DEF Crossword!Won, Right, Full
<1>6. ASSUME Is("snakes_ladders") PROVE Snakes!Won
  <2>1. SnakesScored
    BY <1>1, <1>6 DEF ScoredInv
  <2>2. engine.state = "game_over" /\ reports = <<IF engine.winner = "player" THEN 100 ELSE 0>>
    BY <2>1 DEF SnakesScored
  <2> QED BY <2>1, <2>2 DEF SnakesScored, Snakes!Won
<1>7. ASSUME Is("puzzle") PROVE Puzzle!Won
  <2>1. PuzzleScored
    BY <1>1, <1>7 DEF ScoredInv
  <2> QED BY <2>1 DEF PuzzleScored, Puzzle!Won
<1>8. ASSUME Is("fake_news") PROVE FakeNews!Won
  BY <1>1, <1>8 DEF ScoredInv, FakeNewsScored
<1> QED BY <1>2, <1>3, <1>4, <1>5, <1>6, <1>7, <1>8 DEF ReportsAreEarned

\* Whatever was clicked, typed or timed out, on whatever content, a report of
\* any of the seven games means that it was played to its end, with the score
\* its rules give to what is on the board; in trivia, that every question of that
\* very game was answered or timed out, and was paid if answered right.
THEOREM EverythingIsEarned == Spec => []ReportsAreEarned
<1>1. CountedInv /\ ScoredInv /\ CrosswordInv /\ Silent /\ PlayedLevel /\ VisitInv
        => ReportsAreEarned
  <2>1. reports = <<>> => ReportsAreEarned
    BY DEF ReportsAreEarned
  <2> QED BY <2>1, ReportIsEarned
<1>2. Init => CrosswordInv
  BY VisitBegins DEF Init, PageInit, Visit, CrosswordInv, InGame
<1>3. VisitInv /\ CrosswordInv /\ [Next]_vars => CrosswordInv'
  BY CrosswordStep
<1> QED BY <1>1, <1>2, <1>3, VisitBegins, VisitGoesOn, NothingBegins, NothingGoesOn, TriviaGoesOn,
           SnakesBegins, LevelGoesOn, SnakesGoesOn, ScoredBegins, ScoredGoesOn,
           PlayedBegins, PlayedGoesOn, CountedBegins, CountedGoesOn, SilentGoesOn, PTL DEF Spec

\* Every word that was asked for and placed stands on a straight line of the
\* grid, whatever was placed after it, on every board and for every list.
THEOREM EveryWordIsFindable == Spec => []Findable
<1>1. VisitInv /\ NothingYet /\ PlayedLevel /\ CountedInv => Findable
  <2> SUFFICES ASSUME VisitInv, NothingYet, PlayedLevel, CountedInv, Running, Is("word_search")
               PROVE  WordSearch!Findable
    BY DEF Findable
  <2>1. InGame("word_search")
    BY DEF NothingYet, Running, InGame, VisitInv
  <2>2. SearchScored /\ SearchLevel(level)
    BY <2>1, GameOnLevel, WordsAreLetters DEF CountedInv
  <2>3. ASSUME NEW w \in engine.words, w # <<>>
        PROVE  \E a, b \in WordSearch!Cells(level) :
                  WordSearch!Aligned(a, b) /\ WordSearch!Line(a, b) = w
    <3>1. w \in Words(level) /\ \E at, dir : Stands(level, engine.grid, w, at, dir)
      BY <2>2 DEF SearchScored, IsLaid
    <3>2. PICK at, dir : Stands(level, engine.grid, w, at, dir)
      BY <3>1
    <3>3. at \in WordSearch!Cells(level)
      BY <3>2 DEF Stands
    <3> QED BY <2>2, <2>3, <3>1, <3>2, <3>3, LineOfWord
  <2> QED BY <2>3 DEF WordSearch!Findable
<1>2. Init => CrosswordInv
  BY VisitBegins DEF Init, PageInit, Visit, CrosswordInv, InGame
<1>3. VisitInv /\ CrosswordInv /\ [Next]_vars => CrosswordInv'
  BY CrosswordStep
<1> QED BY <1>1, <1>2, <1>3, VisitBegins, VisitGoesOn, NothingBegins, NothingGoesOn, TriviaGoesOn,
           PlayedBegins, PlayedGoesOn, CountedBegins, CountedGoesOn, PTL DEF Spec

(***************************************************************************)
(* The catalogue: what the editor asked for and the server accepted plays    *)
(* whole.                                                                  *)
(***************************************************************************)

\* A filter that nothing fails keeps the list.
LEMMA WholeList ==
  ASSUME NEW seq, IsArray(seq)
  PROVE  /\ Subsequence(seq, DOMAIN seq) = seq
         /\ DOMAIN seq = 1 .. Len(seq)
<1> DEFINE n == Len(seq)
           rank(i) == Cardinality({j \in DOMAIN seq : j <= i})
<1>1. n \in Nat /\ seq = [i \in 1 .. n |-> seq[i]] /\ DOMAIN seq = 1 .. n
  BY DEF IsArray
<1>2. Cardinality(DOMAIN seq) = n
  <2> HIDE DEF n
  <2> QED BY <1>1, FS_Interval
<1>3. \A i \in 1 .. n : rank(i) = i
  <2> SUFFICES ASSUME NEW i \in 1 .. n PROVE rank(i) = i
    OBVIOUS
  <2> HIDE DEF n
  <2>1. {j \in DOMAIN seq : j <= i} = 1 .. i
    BY <1>1
  <2>2. Cardinality(1 .. i) = i
    BY <1>1, FS_Interval
  <2> QED BY <2>1, <2>2
<1>4. \A k \in 1 .. n : (CHOOSE i \in DOMAIN seq : rank(i) = k) = k
  <2> HIDE DEF n, rank
  <2> QED BY <1>1, <1>3
<1>5. Subsequence(seq, DOMAIN seq) = [k \in 1 .. n |-> seq[CHOOSE i \in DOMAIN seq : rank(i) = k]]
  <2> HIDE DEF n
  <2> QED BY <1>2 DEF Subsequence
<1> HIDE DEF n, rank
<1>6. Subsequence(seq, DOMAIN seq) = [k \in 1 .. n |-> seq[k]]
  BY <1>4, <1>5
<1> QED BY <1>1, <1>6 DEF n

\* What is selected of a list is no longer than it.
LEMMA SelectedLength ==
  ASSUME NEW seq, IsArray(seq), NEW chosen \in SUBSET DOMAIN seq
  PROVE  Len(Subsequence(seq, chosen)) <= Len(seq) /\ Len(seq) \in Nat
<1>1. Len(seq) \in Nat /\ DOMAIN seq = 1 .. Len(seq)
  BY DEF IsArray
<1>2. IsFiniteSet(DOMAIN seq) /\ Cardinality(DOMAIN seq) = Len(seq)
  BY <1>1, FS_Interval
<1>3. Cardinality(chosen) <= Cardinality(DOMAIN seq)
  BY <1>2, FS_Subset
<1>4. Len(Subsequence(seq, chosen)) = Cardinality(chosen)
  BY ArrayIsFinite, SubsequenceLength
<1> QED BY <1>1, <1>2, <1>3, <1>4

\* What both the editor and the server let through.
Accepted(t, c) == t \in Template /\ WellFormed(c) /\ MakerAccepts(t, c) /\ ServerAccepts(t, c)

LEMMA TriviaIsWhole ==
  ASSUME NEW c, Accepted("trivia", c)
  PROVE  PlaysWhole("trivia", c)
<1>1. /\ IsArray(c.questions) /\ c.questions # <<>>
      /\ \A i \in DOMAIN c.questions : LET q == c.questions[i] IN
            /\ Filled(q.question) /\ Len(q.options) \in 2 .. 4
            /\ q.correct \in 0 .. Len(q.options) - 1
  BY DEF Accepted, WellFormed, ServerAccepts, ServerAcceptsTrivia, All
<1> DEFINE kept == {i \in DOMAIN c.questions : LET q == c.questions[i] IN
              Given(q.question) /\ Len(q.options) >= 2 /\ q.correct \in 0 .. Len(q.options) - 1}
<1>2. kept = DOMAIN c.questions
  <2> SUFFICES ASSUME NEW i \in DOMAIN c.questions PROVE i \in kept
    OBVIOUS
  <2> DEFINE q == c.questions[i]
  <2>1. Filled(q.question) /\ Len(q.options) \in 2 .. 4 /\ q.correct \in 0 .. Len(q.options) - 1
    BY <1>1
  <2> HIDE DEF q
  <2>2. Given(q.question)
    BY <2>1 DEF Given, Filled
  <2>3. \A n \in 2 .. 4 : n >= 2
    OBVIOUS
  <2>4. Len(q.options) >= 2
    BY <2>1, <2>3
  <2> QED BY <2>1, <2>2, <2>4 DEF q
<1>3. NormalizeTrivia(c).questions = Len(Subsequence(c.questions, kept))
  BY DEF NormalizeTrivia, Filter
<1>4. Len(Subsequence(c.questions, kept)) = Len(c.questions)
  BY <1>1, <1>2, WholeList
<1>5. Len(c.questions) > 0
  BY <1>1 DEF IsArray
<1> QED BY <1>3, <1>4, <1>5 DEF PlaysWhole, Normalize, HasPlayableContent, Kept, Size

LEMMA FakeNewsIsWhole ==
  ASSUME NEW c, Accepted("fake_news", c)
  PROVE  PlaysWhole("fake_news", c)
<1>1. /\ IsArray(c.news) /\ c.news # <<>>
      /\ \A i \in DOMAIN c.news : Filled(c.news[i].title) /\ Filled(c.news[i].content)
  BY DEF Accepted, WellFormed, ServerAccepts, ServerAcceptsFakeNews, All
<1> DEFINE kept == {i \in DOMAIN c.news : Given(c.news[i].title) /\ Given(c.news[i].content)}
           items == Subsequence(c.news, kept)
<1>2. kept = DOMAIN c.news
  BY <1>1 DEF Given, Filled
<1>3. items = c.news /\ DOMAIN c.news = 1 .. Len(c.news)
  BY <1>1, <1>2, WholeList
<1>4. NormalizeFakeNews(c).fake = [i \in DOMAIN items |-> items[i].isFake]
  BY DEF NormalizeFakeNews, Filter
<1>5. Len(c.news) \in Nat \ {0}
  BY <1>1 DEF IsArray
<1> DEFINE n == Len(c.news)
           fake == [i \in 1 .. n |-> c.news[i].isFake]
<1>6. Len(fake) = n /\ fake # <<>>
  <2> HIDE DEF n
  <2> QED BY <1>5 DEF n
<1>7. NormalizeFakeNews(c).fake = fake
  BY <1>3, <1>4
<1> HIDE DEF fake
<1> QED BY <1>6, <1>7 DEF PlaysWhole, Normalize, HasPlayableContent, Kept, Size

LEMMA MemoryIsWhole ==
  ASSUME NEW c, Accepted("memory", c)
  PROVE  PlaysWhole("memory", c)
<1>1. /\ IsArray(c.pairs) /\ Len(c.pairs) >= MinPairs
      /\ \A i \in DOMAIN c.pairs : LET p == c.pairs[i] IN
            /\ {"id", "content1", "content2"} \subseteq DOMAIN p
            /\ Filled(p.content1) /\ Filled(p.content2)
  BY DEF Accepted, WellFormed, ServerAccepts, ServerAcceptsMemory, All
<1> DEFINE n == Len(c.pairs)
           named == [i \in DOMAIN c.pairs |->
                       [c.pairs[i] EXCEPT !.id = IF @ \in {"empty", "blank"} THEN <<"pair", i>> ELSE <<@>>]]
           kept == {i \in DOMAIN named : Given(named[i].content1) /\ Given(named[i].content2)}
           playable == Subsequence(named, kept)
<1>2. n \in Nat /\ DOMAIN c.pairs = 1 .. n /\ n >= 2
  BY <1>1, MinimaAssumption DEF IsArray
<1>3. IsArray(named) /\ Len(named) = n /\ DOMAIN named = DOMAIN c.pairs
  <2> DEFINE f(i) == [c.pairs[i] EXCEPT !.id = IF @ \in {"empty", "blank"} THEN <<"pair", i>> ELSE <<@>>]
  <2>1. named = [i \in 1 .. n |-> f(i)]
    BY <1>2
  <2> HIDE DEF n, f, named
  <2> QED BY <1>2, <2>1 DEF IsArray
<1>4. kept = DOMAIN named
  <2> SUFFICES ASSUME NEW i \in DOMAIN c.pairs
               PROVE  Given(named[i].content1) /\ Given(named[i].content2)
    BY <1>3
  <2> DEFINE p == c.pairs[i]
  <2>1. {"id", "content1", "content2"} \subseteq DOMAIN p /\ Filled(p.content1) /\ Filled(p.content2)
    BY <1>1
  <2>2. PICK id : named[i] = [p EXCEPT !.id = id]
    OBVIOUS
  <2> HIDE DEF p, named
  <2>3. named[i].content1 = p.content1 /\ named[i].content2 = p.content2
    BY <2>1, <2>2
  <2> QED BY <2>1, <2>3 DEF Given, Filled
<1>5. playable = named
  <2> HIDE DEF named, kept
  <2> QED BY <1>3, <1>4, WholeList
<1> DEFINE ids == [i \in 1 .. n |-> playable[i].id]
<1>6. NormalizeMemory(c).ids = ids
  <2>1. NormalizeMemory(c).ids = [i \in DOMAIN playable |-> playable[i].id]
    BY DEF NormalizeMemory, Filter
  <2> HIDE DEF playable, n
  <2> QED BY <1>2, <1>3, <1>5, <2>1
<1>7. Len(ids) = n
  <2> HIDE DEF playable, n
  <2> QED BY <1>2
<1> HIDE DEF ids
<1> QED BY <1>2, <1>6, <1>7 DEF PlaysWhole, Normalize, HasPlayableContent, Kept, Size

\* Of a word search: it has words to begin with.
LEMMA WordSearchMounts ==
  ASSUME NEW c, Accepted("word_search", c)
  PROVE  PlaysWhole("word_search", c)
<1>1. /\ IsArray(c.words) /\ Len(c.words) >= 2
      /\ \A i \in DOMAIN c.words : Len(c.words[i]) >= 2
  BY DEF Accepted, WellFormed, ServerAccepts, ServerAcceptsWordSearch, All
<1> DEFINE n == Len(c.words)
           kept == {i \in DOMAIN c.words : Len(c.words[i]) >= 2}
           left == Subsequence(c.words, kept)
           words == [i \in DOMAIN left |-> Normalized(left[i])]
<1>2. kept = DOMAIN c.words
  BY <1>1
<1>3. left = c.words /\ DOMAIN c.words = 1 .. n /\ n \in Nat
  BY <1>1, <1>2, WholeList DEF IsArray
<1>4. NormalizeWordSearch(c).words = words
  BY DEF NormalizeWordSearch, Filter
<1>5. words # <<>>
  <2>1. 1 \in DOMAIN words
    BY <1>1, <1>3
  <2> QED BY <2>1
<1> HIDE DEF words
<1> QED BY <1>4, <1>5 DEF PlaysWhole, Normalize, HasPlayableContent

\* What the server keeps of an answer is no longer than what was written.
LEMMA AnswerIsLongEnough ==
  ASSUME NEW word, IsArray(word), Len(ServerNormalized(word)) >= 2
  PROVE  Len(word) >= 2
<1> DEFINE kept == {i \in DOMAIN word : word[i] \in Letter \cup {"N~"}}
<1>1. ServerNormalized(word) = Subsequence(word, kept)
  BY DEF ServerNormalized, Filter
<1>2. kept \in SUBSET DOMAIN word
  OBVIOUS
<1> HIDE DEF kept
<1>3. Len(Subsequence(word, kept)) <= Len(word) /\ Len(word) \in Nat
  BY <1>2, SelectedLength
<1>4. Len(Subsequence(word, kept)) \in Nat
  BY <1>2, ArrayIsFinite, SubsequenceLength
<1> QED BY <1>1, <1>3, <1>4

LEMMA CrosswordIsWhole ==
  ASSUME NEW c, Accepted("crossword", c)
  PROVE  PlaysWhole("crossword", c)
<1>1. /\ IsArray(c.entries) /\ \A i \in DOMAIN c.entries : IsArray(c.entries[i].word)
      /\ Len(c.entries) >= 2
      /\ \A i \in DOMAIN c.entries : Filled(c.entries[i].clue)
      /\ CanBuild([i \in DOMAIN c.entries |-> Normalized(c.entries[i].word)])
  BY DEF Accepted, WellFormed, All, ServerAccepts, ServerAcceptsCrossword, MakerAccepts,
         MakerAcceptsCrossword
<1>2. \A i \in DOMAIN c.entries : Len(ServerNormalized(c.entries[i].word)) >= 2
  <2> DEFINE words == [i \in DOMAIN c.entries |-> ServerNormalized(c.entries[i].word)]
  <2>1. \A i \in DOMAIN words : Len(words[i]) >= 2
    BY DEF Accepted, ServerAccepts, ServerAcceptsCrossword, All
  <2> QED BY <2>1
<1> DEFINE n == Len(c.entries)
           kept == {i \in DOMAIN c.entries : Len(c.entries[i].word) >= 2 /\ Given(c.entries[i].clue)}
           left == Subsequence(c.entries, kept)
           words == [i \in 1 .. n |-> Normalized(left[i].word)]
<1>3. kept = DOMAIN c.entries
  <2> SUFFICES ASSUME NEW i \in DOMAIN c.entries
               PROVE  Len(c.entries[i].word) >= 2 /\ Given(c.entries[i].clue)
    OBVIOUS
  <2>1. Len(c.entries[i].word) >= 2
    BY <1>1, <1>2, AnswerIsLongEnough
  <2> QED BY <1>1, <2>1 DEF Given, Filled
<1>4. left = c.entries /\ DOMAIN c.entries = 1 .. n /\ n \in Nat
  BY <1>1, <1>3, WholeList DEF IsArray
<1>5. NormalizeCrossword(c).words = words
  <2>1. NormalizeCrossword(c).words = [i \in DOMAIN left |-> Normalized(left[i].word)]
    BY DEF NormalizeCrossword, Filter
  <2> HIDE DEF left, n
  <2> QED BY <1>4, <2>1
<1>6. CanBuild(words)
  <2>1. words = [i \in DOMAIN c.entries |-> Normalized(c.entries[i].word)]
    <3> HIDE DEF left, n
    <3> QED BY <1>4
  <2> QED BY <1>1, <2>1
<1>7. Len(words) = n
  <2> HIDE DEF left, n
  <2> QED BY <1>4
<1>8. n >= 2
  BY <1>1
<1> HIDE DEF words
<1> QED BY <1>5, <1>6, <1>7, <1>8 DEF PlaysWhole, Normalize, HasPlayableContent, Kept, Size

LEMMA AcceptedIsWhole ==
  ASSUME NEW t, NEW c, Accepted(t, c)
  PROVE  PlaysWhole(t, c)
<1>1. CASE t = "puzzle"
  BY <1>1 DEF Accepted, ServerAccepts, ServerAcceptsPuzzle, PlaysWhole, Normalize, NormalizePuzzle,
              HasPlayableContent, Kept, Size, Given, Filled
<1>2. CASE t = "snakes_ladders"
  BY <1>2 DEF PlaysWhole, Normalize, NormalizeSnakes, HasPlayableContent, Kept, Size
<1> QED BY <1>1, <1>2, TriviaIsWhole, MemoryIsWhole, FakeNewsIsWhole, WordSearchMounts,
           CrosswordIsWhole DEF Accepted, Template

Requested(t, c) == t \in Template /\ WellFormed(c) /\ MakerAccepts(t, c)

\* What the editor shows is a content, what it sends is what it lets through.
DeskInv ==
    /\ DOMAIN desk = {"form", "target", "loads", "loadingLevelID", "saving"}
    /\ DOMAIN desk.form = {"shown", "template", "content"}
    /\ desk.form.shown \in BOOLEAN
    /\ desk.form.shown => desk.form.template \in Template /\ WellFormed(desk.form.content)
    /\ \A request \in desk.saving : Requested(request.template, request.content)

\* The catalogue holds what both let through.
LevelsInv ==
    /\ DOMAIN levels = LevelIds
    /\ \A id \in LevelIds :
          /\ DOMAIN levels[id] = {"state", "template", "content", "published"}
          /\ levels[id].state = "alive" => Accepted(levels[id].template, levels[id].content)

LEMMA DefaultsAreContents ==
  ASSUME NEW t \in Template
  PROVE  WellFormed(Defaults(t))
<1> DEFINE pair == [id |-> "text", content1 |-> "empty", content2 |-> "empty"]
           entry == [word |-> <<>>, clue |-> "empty"]
           news == [title |-> "empty", content |-> "empty", isFake |-> FALSE, reference |-> "empty"]
<1>0. \A n \in Nat : \A x : /\ IsArray(Times(n, x)) /\ DOMAIN Times(n, x) = 1 .. n
                             /\ \A i \in 1 .. n : Times(n, x)[i] = x
  BY DEF Times, IsArray
<1>1. CASE t = "trivia"
  <2>1. Defaults(t).shape = t /\ Defaults(t).questions = Times(MinQuestions, Question)
    BY <1>1 DEF Defaults
  <2>2. IsArray(Times(MinQuestions, Question))
    BY <1>0, MinimaAssumption
  <2> QED BY <1>1, <2>1, <2>2 DEF WellFormed
<1>2. CASE t = "memory"
  <2>1. Defaults(t).shape = t /\ Defaults(t).pairs = Times(MinPairs, pair)
    BY <1>2 DEF Defaults, Times
  <2>2. DOMAIN pair = {"id", "content1", "content2"}
    OBVIOUS
  <2> HIDE DEF pair
  <2>3. IsArray(Defaults(t).pairs)
    BY <1>0, <2>1, MinimaAssumption
  <2>4. \A i \in DOMAIN Defaults(t).pairs : {"id", "content1", "content2"} \subseteq DOMAIN Defaults(t).pairs[i]
    BY <1>0, <2>1, <2>2, MinimaAssumption
  <2> QED BY <1>2, <2>1, <2>3, <2>4 DEF WellFormed, All
<1>3. CASE t = "fake_news"
  <2>1. Defaults(t).shape = t /\ Defaults(t).news = <<news>>
    BY <1>3 DEF Defaults
  <2> HIDE DEF news
  <2>2. IsArray(<<news>>)
    BY DEF IsArray
  <2> QED BY <1>3, <2>1, <2>2 DEF WellFormed
<1>4. CASE t = "word_search"
  <2>1. /\ Defaults(t).shape = t /\ Defaults(t).words = << <<>>, <<>> >>
        /\ Defaults(t).width = MaxSide /\ Defaults(t).height = MaxSide
    BY <1>4 DEF Defaults
  <2>2. IsArray(<< <<>>, <<>> >>) /\ IsArray(<<>>)
    BY DEF IsArray
  <2>3. \A i \in DOMAIN << <<>>, <<>> >> : << <<>>, <<>> >>[i] = <<>>
    OBVIOUS
  <2> QED BY <1>4, <2>1, <2>2, <2>3, MinimaAssumption DEF WellFormed, All
<1>5. CASE t = "puzzle"
  BY <1>5, MinimaAssumption DEF Defaults, WellFormed
<1>6. CASE t = "crossword"
  <2>1. Defaults(t).shape = t /\ Defaults(t).entries = Times(2, entry)
    BY <1>6 DEF Defaults
  <2>2. entry.word = <<>> /\ IsArray(<<>>)
    BY DEF IsArray
  <2> HIDE DEF entry
  <2>3. IsArray(Times(2, entry)) /\ \A i \in DOMAIN Times(2, entry) : Times(2, entry)[i] = entry
    BY <1>0
  <2> QED BY <1>6, <2>1, <2>2, <2>3 DEF WellFormed, All
<1>7. CASE t = "snakes_ladders"
  <2>1. Defaults(t).shape = t /\ Defaults(t).questions = Times(MinSnakesQuestions, Question)
    BY <1>7 DEF Defaults
  <2> QED BY <1>0, <1>7, <2>1, MinimaAssumption DEF WellFormed
<1> QED BY <1>1, <1>2, <1>3, <1>4, <1>5, <1>6, <1>7 DEF Template

\* A request that was let through is stored only if the server accepts it too.
LEMMA StoredIsAccepted ==
  ASSUME LevelsInv, NEW request, Requested(request.template, request.content), Stores(request)
  PROVE  LevelsInv'
<1>1. Accepted(request.template, request.content)
  BY DEF Accepted, Requested, Stores
<1>2. ASSUME NEW id \in LevelIds,
             levels' = [levels EXCEPT ![id] = Level(request.template, request.content)]
      PROVE  LevelsInv'
  BY <1>1, <1>2 DEF LevelsInv, Level
<1>3. ASSUME NEW id \in LevelIds,
             levels' = [levels EXCEPT ![id].template = request.template,
                                      ![id].content = request.content]
      PROVE  LevelsInv'
  <2>1. DOMAIN levels' = LevelIds /\ \A k \in LevelIds \ {id} : levels'[k] = levels[k]
    BY <1>3 DEF LevelsInv
  <2>2. /\ DOMAIN levels'[id] = {"state", "template", "content", "published"}
        /\ levels'[id].template = request.template /\ levels'[id].content = request.content
    BY <1>3 DEF LevelsInv
  <2> QED BY <1>1, <2>1, <2>2 DEF LevelsInv
<1> QED BY <1>2, <1>3 DEF Stores, Alive

LEMMA AdminKeepsCatalogue ==
  ASSUME DeskInv, LevelsInv, AdminStep
  PROVE  DeskInv' /\ LevelsInv'
<1>1. ASSUME levels' = levels PROVE LevelsInv'
  BY <1>1 DEF LevelsInv
<1>2. ASSUME desk' = desk PROVE DeskInv'
  BY <1>2 DEF DeskInv
<1>3. ASSUME NEW id \in LevelIds, StartLevelEdit(id) PROVE DeskInv' /\ LevelsInv'
  BY <1>1, <1>3 DEF StartLevelEdit, DeskInv
<1>4. ASSUME NEW id \in LevelIds, LevelLoaded(id) PROVE DeskInv' /\ LevelsInv'
  <2>1. levels[id].template \in Template /\ WellFormed(levels[id].content)
    BY <1>4 DEF LevelLoaded, Alive, LevelsInv, Accepted
  <2> DEFINE form == IF desk.form.shown THEN desk.form ELSE Open(levels[id].template, levels[id].content)
  <2>2. /\ desk'.form = form /\ desk'.saving = desk.saving
        /\ DOMAIN desk' = {"form", "target", "loads", "loadingLevelID", "saving"}
    BY <1>4 DEF LevelLoaded, DeskInv
  <2>3. DOMAIN form = {"shown", "template", "content"} /\ form.shown \in BOOLEAN
        /\ form.template \in Template /\ WellFormed(form.content)
    BY <2>1 DEF DeskInv, Open
  <2> HIDE DEF form
  <2> QED BY <1>1, <1>4, <2>2, <2>3 DEF LevelLoaded, DeskInv
<1>5. ASSUME NEW id \in LevelIds, EditFails(id) PROVE DeskInv' /\ LevelsInv'
  BY <1>1, <1>5 DEF EditFails, DeskInv
<1>6. ASSUME OpenCreator PROVE DeskInv' /\ LevelsInv'
  <2>1. WellFormed(Defaults("trivia"))
    BY DefaultsAreContents DEF Template
  <2> QED BY <1>1, <1>6, <2>1 DEF OpenCreator, Open, DeskInv, Template
<1>7. ASSUME NEW c \in Contents, Import(c) PROVE DeskInv' /\ LevelsInv'
  BY <1>1, <1>7, ContentsAssumption DEF Import, Open, DeskInv, Template
<1>8. ASSUME NEW t \in Template, ChangeTemplate(t) PROVE DeskInv' /\ LevelsInv'
  <2>1. WellFormed(Defaults(t))
    BY DefaultsAreContents
  <2> QED BY <1>1, <1>8, <2>1 DEF ChangeTemplate, Open, DeskInv
<1>9. ASSUME NEW c \in Contents, EditContent(c) PROVE DeskInv' /\ LevelsInv'
  BY <1>1, <1>9, ContentsAssumption DEF EditContent, DeskInv
<1>10. ASSUME Save PROVE DeskInv' /\ LevelsInv'
  <2> DEFINE request == [id |-> desk.target, template |-> desk.form.template,
                         content |-> desk.form.content]
  <2>1. /\ DOMAIN desk' = DOMAIN desk /\ desk'.form = desk.form /\ desk'.saving = {request}
    BY <1>10 DEF Save, DeskInv
  <2>2. Requested(request.template, request.content)
    BY <1>10 DEF Save, DeskInv, Requested
  <2> HIDE DEF request
  <2> QED BY <1>1, <1>10, <2>1, <2>2 DEF Save, DeskInv
<1>11. ASSUME SaveAnswered PROVE DeskInv' /\ LevelsInv'
  <2>1. LevelsInv'
    BY <1>11, StoredIsAccepted DEF SaveAnswered, DeskInv
  <2> QED BY <1>11, <2>1 DEF SaveAnswered, DeskInv, Closed
<1>12. ASSUME SaveFails PROVE DeskInv' /\ LevelsInv'
  BY <1>1, <1>12 DEF SaveFails, DeskInv
<1>13. ASSUME SaveAnswerLost PROVE DeskInv' /\ LevelsInv'
  <2>1. LevelsInv'
    BY <1>13, StoredIsAccepted DEF SaveAnswerLost, DeskInv
  <2> QED BY <1>13, <2>1 DEF SaveAnswerLost, DeskInv
<1>14. ASSUME Cancel PROVE DeskInv' /\ LevelsInv'
  BY <1>1, <1>14 DEF Cancel, Closed, DeskInv
<1>15. ASSUME NEW id \in LevelIds, NEW b \in BOOLEAN, SetPublished(id, b) PROVE DeskInv' /\ LevelsInv'
  BY <1>2, <1>15 DEF SetPublished, LevelsInv
<1>16. ASSUME NEW ids, ArchiveLevels(ids) PROVE DeskInv' /\ LevelsInv'
  BY <1>2, <1>16 DEF ArchiveLevels, LevelsInv, NoLevel
<1> QED BY <1>3, <1>4, <1>5, <1>6, <1>7, <1>8, <1>9, <1>10, <1>11, <1>12, <1>13, <1>14, <1>15, <1>16
        DEF AdminStep

LEMMA CatalogueBegins == Init => DeskInv /\ LevelsInv
<1>1. ASSUME NobodyWrites PROVE DeskInv
  <2>1. /\ DOMAIN desk = {"form", "target", "loads", "loadingLevelID", "saving"}
        /\ desk.form = Closed /\ desk.saving = {}
    BY <1>1 DEF NobodyWrites
  <2>2. DOMAIN Closed = {"shown", "template", "content"} /\ Closed.shown = FALSE
    BY DEF Closed
  <2> QED BY <2>1, <2>2 DEF DeskInv
<1>2. NobodyWrites => LevelsInv
  <2>1. DOMAIN NoLevel = {"state", "template", "content", "published"} /\ NoLevel.state # "alive"
    BY DEF NoLevel
  <2> QED BY <2>1 DEF NobodyWrites, LevelsInv
<1> QED BY <1>1, <1>2 DEF Init

LEMMA CatalogueGoesOn == DeskInv /\ LevelsInv /\ [Next]_vars => DeskInv' /\ LevelsInv'
<1> SUFFICES ASSUME DeskInv, LevelsInv, [Next]_vars PROVE DeskInv' /\ LevelsInv'
  OBVIOUS
<1>1. CASE AdminStep
  BY <1>1, AdminKeepsCatalogue
<1>2. CASE UNCHANGED <<desk, levels>>
  BY <1>2 DEF DeskInv, LevelsInv
<1>3. MakerStep => UNCHANGED <<desk, levels>>
  BY DEF MakerStep, MakerTemplate, MakerEdit, SaveLocal, OpenMaker, ImportLocal, DeleteLocal
<1> QED BY <1>1, <1>2, <1>3 DEF Next, Writing, Playing, authoringVars, vars

\* Everything in the catalogue mounts its game, after any mixture of saves,
\* imports, late answers and lost ones, and is played whole: all that its author
\* wrote is in the game, and all the words of a crossword have their place.  Of a
\* word search only the mounting is claimed: its engine drops what does not fit.
THEOREM TheCataloguePlays == Spec => []CatalogueIsPlayable
<1>1. LevelsInv => CatalogueIsPlayable
  BY AcceptedIsWhole DEF LevelsInv, CatalogueIsPlayable, Alive
<1> QED BY <1>1, CatalogueBegins, CatalogueGoesOn, PTL DEF Spec

(***************************************************************************)
(* What CrosswordEngine.ts lays out is a crossword: a cell has one letter,   *)
(* and whatever stands in a row or a column is a word (ReadsAsWords).  It is  *)
(* shown word by word, for every place that canPlaceWord admits; that         *)
(* findBestPlacement takes the closest of them is not needed.                 *)
(***************************************************************************)

\* Words that stand somewhere.
PlacesOf(W) == [word : W, x : Int, y : Int, vertical : BOOLEAN]
Answers(W) == \E A : W \subseteq Seq(A) /\ \A w \in W : Len(w) >= 2

\* Whatever stands in a row or a column is a word of the layout (ReadsAsWords).
Reads(layout) ==
  /\ \A a, b \in Written(layout) : a[1] = b[1] => a = b
  /\ \A c \in Occupied(layout), v \in BOOLEAN :
        Crossword!Step(c, v, -1) \notin Occupied(layout) /\ Crossword!Step(c, v, 1) \in Occupied(layout) =>
           \E p \in layout : /\ p.vertical = v /\ <<p.x, p.y>> = c
                             /\ CellOf(p, Len(p.word) + 1) \notin Occupied(layout)

LEMMA WordIndices ==
  ASSUME NEW W, Answers(W), NEW w \in W
  PROVE  Len(w) \in Nat /\ Len(w) >= 2 /\ DOMAIN w = 1 .. Len(w)
<1>1. PICK A : W \subseteq Seq(A) /\ \A u \in W : Len(u) >= 2
  BY DEF Answers
<1>2. w \in Seq(A)
  BY <1>1
<1> QED BY <1>1, <1>2

LEMMA Steps ==
  ASSUME NEW c \in Int \X Int, NEW v \in BOOLEAN, NEW j \in Int, NEW k \in Int
  PROVE  /\ Crossword!Step(c, v, k) \in Int \X Int
         /\ Crossword!Step(Crossword!Step(c, v, j), v, k) = Crossword!Step(c, v, j + k)
         /\ Crossword!Step(c, v, 0) = c
         /\ Crossword!Step(c, v, j) = Crossword!Step(c, v, k) => j = k
         /\ Crossword!Step(c, v, j) = Crossword!Step(c, ~v, k) => j = 0 /\ k = 0
<1>1. PICK x \in Int, y \in Int : c = <<x, y>>
  OBVIOUS
<1>2. CASE v = TRUE
  BY <1>1, <1>2 DEF Crossword!Step
<1>3. CASE v = FALSE
  BY <1>1, <1>3 DEF Crossword!Step
<1> QED BY <1>2, <1>3

LEMMA PlaceTyped ==
  ASSUME NEW W, NEW p \in PlacesOf(W)
  PROVE  <<p.x, p.y>> \in Int \X Int /\ p.vertical \in BOOLEAN /\ p.word \in W
BY DEF PlacesOf

LEMMA CellIsCell ==
  ASSUME NEW W, NEW p \in PlacesOf(W), NEW i \in Int PROVE CellOf(p, i) \in Int \X Int
<1>1. p.x \in Int /\ p.y \in Int /\ p.vertical \in BOOLEAN
  BY DEF PlacesOf
<1>2. CASE p.vertical = TRUE
  BY <1>1, <1>2 DEF CellOf
<1>3. CASE p.vertical = FALSE
  BY <1>1, <1>3 DEF CellOf
<1> QED BY <1>1, <1>2, <1>3

LEMMA FirstCell ==
  ASSUME NEW W, NEW p \in PlacesOf(W) PROVE CellOf(p, 1) = <<p.x, p.y>>
<1>1. p.x \in Int /\ p.y \in Int /\ p.vertical \in BOOLEAN
  BY DEF PlacesOf
<1>2. CASE p.vertical = TRUE
  BY <1>1, <1>2 DEF CellOf
<1>3. CASE p.vertical = FALSE
  BY <1>1, <1>3 DEF CellOf
<1> QED BY <1>1, <1>2, <1>3

LEMMA Along ==
  ASSUME NEW W, NEW p \in PlacesOf(W), NEW i \in Int, NEW k \in Int
  PROVE  Crossword!Step(CellOf(p, i), p.vertical, k) = CellOf(p, i + k)
<1>1. p.x \in Int /\ p.y \in Int /\ p.vertical \in BOOLEAN
  BY DEF PlacesOf
<1>2. CASE p.vertical = TRUE
  BY <1>1, <1>2 DEF CellOf, Crossword!Step
<1>3. CASE p.vertical = FALSE
  BY <1>1, <1>3 DEF CellOf, Crossword!Step
<1> QED BY <1>1, <1>2, <1>3

LEMMA Sideways ==
  ASSUME NEW W, NEW p \in PlacesOf(W), NEW i \in Int, NEW k \in Int
  PROVE  Beside(p, i, k) = Crossword!Step(CellOf(p, i), ~p.vertical, k)
<1>1. p.x \in Int /\ p.y \in Int /\ p.vertical \in BOOLEAN
  BY DEF PlacesOf
<1>2. CASE p.vertical = TRUE
  BY <1>1, <1>2 DEF CellOf, Crossword!Step, Beside
<1>3. CASE p.vertical = FALSE
  BY <1>1, <1>3 DEF CellOf, Crossword!Step, Beside
<1> QED BY <1>1, <1>2, <1>3

LEMMA CellsDiffer ==
  ASSUME NEW W, NEW p \in PlacesOf(W), NEW i \in Int, NEW j \in Int, CellOf(p, i) = CellOf(p, j)
  PROVE  i = j
<1>1. p.x \in Int /\ p.y \in Int /\ p.vertical \in BOOLEAN
  BY DEF PlacesOf
<1>2. CASE p.vertical = TRUE
  BY <1>1, <1>2 DEF CellOf
<1>3. CASE p.vertical = FALSE
  BY <1>1, <1>3 DEF CellOf
<1> QED BY <1>1, <1>2, <1>3

LEMMA NotBeside ==
  ASSUME NEW W, NEW p \in PlacesOf(W), NEW i \in Int, NEW j \in Int, NEW k \in Int,
         CellOf(p, j) = Crossword!Step(CellOf(p, i), ~p.vertical, k)
  PROVE  k = 0
<1>1. p.x \in Int /\ p.y \in Int /\ p.vertical \in BOOLEAN
  BY DEF PlacesOf
<1>2. CASE p.vertical = TRUE
  BY <1>1, <1>2 DEF CellOf, Crossword!Step
<1>3. CASE p.vertical = FALSE
  BY <1>1, <1>3 DEF CellOf, Crossword!Step
<1> QED BY <1>1, <1>2, <1>3

LEMMA Occupation ==
  ASSUME NEW layout
  PROVE  \A c : c \in Occupied(layout) <=> \E p \in layout : \E i \in DOMAIN p.word : c = CellOf(p, i)
<1>1. ASSUME NEW c \in Occupied(layout)
      PROVE  \E p \in layout : \E i \in DOMAIN p.word : c = CellOf(p, i)
  BY DEF Occupied, Written
<1>2. ASSUME NEW p \in layout, NEW i \in DOMAIN p.word
      PROVE  CellOf(p, i) \in Occupied(layout)
  <2>1. <<CellOf(p, i), p.word[i]>> \in Written(layout)
    BY DEF Written
  <2>2. <<CellOf(p, i), p.word[i]>>[1] = CellOf(p, i)
    OBVIOUS
  <2> QED BY <2>1, <2>2, Zenon DEF Occupied
<1> QED BY <1>1, <1>2

LEMMA WrittenLetters ==
  ASSUME NEW layout
  PROVE  \A a : a \in Written(layout) <=>
            \E p \in layout : \E i \in DOMAIN p.word : a = <<CellOf(p, i), p.word[i]>>
BY DEF Written

\* A word more.
LEMMA OneMorePlace ==
  ASSUME NEW W, Answers(W), NEW layout, layout \subseteq PlacesOf(W), Reads(layout),
         NEW p \in PlacesOf(W), CanPlaceWord(p, layout)
  PROVE  Reads(layout \cup {p})
<1> DEFINE old == Occupied(layout)
           new == Occupied(layout \cup {p})
           n == Len(p.word)
           Own(c) == \E i \in 1 .. n : c = CellOf(p, i)
<1>0. old \subseteq Int \X Int
  <2> SUFFICES ASSUME NEW q \in layout, NEW i \in DOMAIN q.word PROVE CellOf(q, i) \in Int \X Int
    BY Occupation
  <2>1. q \in PlacesOf(W) /\ q.word \in W
    BY PlaceTyped
  <2>2. i \in Int
    BY <2>1, WordIndices
  <2> QED BY <2>1, <2>2, CellIsCell
<1>1. /\ \A i \in 1 .. n :
            IF CellOf(p, i) \in old THEN <<CellOf(p, i), p.word[i]>> \in Written(layout)
            ELSE Beside(p, i, -1) \notin old /\ Beside(p, i, 1) \notin old
      /\ CellOf(p, 0) \notin old /\ CellOf(p, n + 1) \notin old
      /\ n \in Nat /\ n >= 2 /\ DOMAIN p.word = 1 .. n
  <2>1. p.word \in W
    BY DEF PlacesOf
  <2> QED BY <2>1, WordIndices DEF CanPlaceWord
<1>2. \A c : c \in new <=> c \in old \/ Own(c)
  BY <1>1, Occupation
<1>3. \A a, b \in Written(layout \cup {p}) : a[1] = b[1] => a = b
  <2>1. \A a \in Written(layout \cup {p}) :
           a \in Written(layout) \/ \E i \in 1 .. n : a = <<CellOf(p, i), p.word[i]>>
    BY <1>1, WrittenLetters
  <2>2. ASSUME NEW i \in 1 .. n, NEW b \in Written(layout), b[1] = CellOf(p, i)
        PROVE  b = <<CellOf(p, i), p.word[i]>>
    <3>1. CellOf(p, i) \in old
      BY <2>2 DEF Occupied
    <3>2. <<CellOf(p, i), p.word[i]>> \in Written(layout)
      BY <1>1, <3>1
    <3> QED BY <2>2, <3>2 DEF Reads
  <2>3. ASSUME NEW i \in 1 .. n, NEW j \in 1 .. n, CellOf(p, i) = CellOf(p, j) PROVE i = j
    BY <1>1, <2>3, CellsDiffer
  <2> QED BY <2>1, <2>2, <2>3 DEF Reads
<1>4. ASSUME NEW c \in new, NEW v \in BOOLEAN, Crossword!Step(c, v, -1) \notin new, Crossword!Step(c, v, 1) \in new
      PROVE  \E q \in layout \cup {p} : /\ q.vertical = v /\ <<q.x, q.y>> = c
                                        /\ CellOf(q, Len(q.word) + 1) \notin new
  <2>0. \A q \in layout : q \in PlacesOf(W) /\ Len(q.word) \in Nat /\ Len(q.word) >= 2
                          /\ DOMAIN q.word = 1 .. Len(q.word)
    <3>1. \A q \in layout : q \in PlacesOf(W) /\ q.word \in W
      BY DEF PlacesOf
    <3> QED BY <3>1, WordIndices
  \* A run in the layout as it was, from c: the word there ends where the row ends still.
  <2>1. ASSUME c \in old, Crossword!Step(c, v, -1) \notin old, Crossword!Step(c, v, 1) \in old,
               \A q \in layout : q.vertical = v /\ <<q.x, q.y>> = c
                                 /\ CellOf(q, Len(q.word) + 1) \notin old =>
                                    ~Own(CellOf(q, Len(q.word) + 1))
        PROVE  \E q \in layout : /\ q.vertical = v /\ <<q.x, q.y>> = c
                                 /\ CellOf(q, Len(q.word) + 1) \notin new
    <3>1. PICK q \in layout : /\ q.vertical = v /\ <<q.x, q.y>> = c
                              /\ CellOf(q, Len(q.word) + 1) \notin old
      BY <2>1 DEF Reads
    <3>2. CellOf(q, Len(q.word) + 1) \notin new
      BY <1>2, <2>1, <3>1
    <3> QED BY <3>1, <3>2
  <2>2. CASE v = p.vertical
    <3>1. CASE Own(c)
      <4>1. PICK i \in 1 .. n : c = CellOf(p, i)
        BY <3>1
      <4>2. Crossword!Step(c, v, -1) = CellOf(p, i - 1)
        <5>1. Crossword!Step(CellOf(p, i), p.vertical, -1) = CellOf(p, i + -1)
          BY <1>1, Along
        <5>2. i + -1 = i - 1
          OBVIOUS
        <5> QED BY <2>2, <4>1, <5>1, <5>2
      <4>3. i = 1
        <5>1. i - 1 \notin 1 .. n
          BY <1>2, <1>4, <4>2
        <5> QED BY <1>1, <5>1
      <4>4. c = <<p.x, p.y>>
        BY <4>1, <4>3, FirstCell
      <4>5. CellOf(p, n + 1) \notin new
        <5>1. ASSUME NEW j \in 1 .. n, CellOf(p, n + 1) = CellOf(p, j) PROVE FALSE
          <6>1. n + 1 = j
            BY <1>1, <5>1, CellsDiffer
          <6> QED BY <1>1, <6>1
        <5> QED BY <1>1, <1>2, <5>1
      <4> QED BY <2>2, <4>4, <4>5
    <3>2. CASE ~Own(c)
      <4>1. c \in old /\ Crossword!Step(c, v, -1) \notin old
        BY <1>2, <1>4, <3>2
      <4>2. Crossword!Step(c, v, 1) \in old
        <5>1. ASSUME NEW i \in 1 .. n, Crossword!Step(c, v, 1) = CellOf(p, i) PROVE FALSE
          <6>0. c \in Int \X Int
            BY <1>0, <4>1
          <6>1. c = CellOf(p, i - 1)
            <7>1. Crossword!Step(Crossword!Step(c, v, 1), v, -1) = Crossword!Step(c, v, 1 + -1) /\ Crossword!Step(c, v, 0) = c
              BY <6>0, Steps
            <7>2. Crossword!Step(CellOf(p, i), p.vertical, -1) = CellOf(p, i + -1)
              BY <1>1, Along
            <7>3. 1 + -1 = 0 /\ i + -1 = i - 1
              OBVIOUS
            <7> QED BY <2>2, <5>1, <7>1, <7>2, <7>3
          <6>2. i - 1 \in 1 .. n \/ i - 1 = 0
            BY <1>1
          <6> QED BY <1>1, <3>2, <4>1, <6>1, <6>2
        <5> QED BY <1>2, <1>4, <5>1
      <4>3. ASSUME NEW q \in layout, q.vertical = v, <<q.x, q.y>> = c,
                   NEW i \in 1 .. n, CellOf(q, Len(q.word) + 1) = CellOf(p, i)
            PROVE  FALSE
        <5> DEFINE m == Len(q.word)
        <5>0. q \in PlacesOf(W) /\ m \in Nat /\ m >= 2 /\ DOMAIN q.word = 1 .. m
          BY <2>0
        <5>00. CellOf(q, m + 1) = CellOf(p, i)
          BY <4>3
        <5> HIDE DEF m
        <5>1. \A j \in Int : CellOf(q, m + 1 + j) = CellOf(p, i + j)
          <6> SUFFICES ASSUME NEW j \in Int PROVE CellOf(q, m + 1 + j) = CellOf(p, i + j)
            OBVIOUS
          <6>1. Crossword!Step(CellOf(q, m + 1), v, j) = CellOf(q, m + 1 + j)
            <7>1. m + 1 \in Int
              BY <5>0
            <7> QED BY <4>3, <5>0, <7>1, Along
          <6>2. Crossword!Step(CellOf(p, i), v, j) = CellOf(p, i + j)
            BY <1>1, <2>2, Along
          <6> QED BY <5>00, <6>1, <6>2
        <5>2. CASE i <= m
          <6>1. CellOf(q, m + 1 + (-i)) = CellOf(p, i + (-i))
            BY <1>1, <5>1
          <6>2. i + (-i) = 0 /\ m + 1 + (-i) \in 1 .. m
            BY <5>0, <5>2
          <6>3. CellOf(q, m + 1 + (-i)) \in old
            BY <5>0, <6>2, Occupation
          <6> QED BY <1>1, <6>1, <6>2, <6>3
        <5>3. CASE ~(i <= m)
          <6>1. CellOf(q, m + 1 + (-m)) = CellOf(p, i + (-m))
            <7>1. -m \in Int
              BY <5>0
            <7> QED BY <5>1, <7>1
          <6>2. m + 1 + (-m) = 1 /\ i + (-m) \in 1 .. n
            BY <1>1, <5>0, <5>3
          <6>3. CellOf(q, 1) = c
            BY <4>3, <5>0, FirstCell
          <6> QED BY <3>2, <6>1, <6>2, <6>3
        <5> QED BY <5>2, <5>3
      <4> QED BY <2>1, <4>1, <4>2, <4>3
    <3> QED BY <3>1, <3>2
  <2>3. CASE v = ~p.vertical
    <3>1. ASSUME NEW i \in 1 .. n, CellOf(p, i) \notin old
          PROVE  Crossword!Step(CellOf(p, i), v, -1) \notin new /\ Crossword!Step(CellOf(p, i), v, 1) \notin new
      <4>1. /\ Beside(p, i, -1) = Crossword!Step(CellOf(p, i), v, -1)
            /\ Beside(p, i, 1) = Crossword!Step(CellOf(p, i), v, 1)
        BY <1>1, <2>3, Sideways
      <4>2. ASSUME NEW j \in 1 .. n, NEW k \in {-1, 1}, CellOf(p, j) = Crossword!Step(CellOf(p, i), v, k)
            PROVE  FALSE
        <5>1. i \in Int /\ j \in Int /\ k \in Int /\ k # 0
          BY <1>1
        <5>2. CellOf(p, j) = Crossword!Step(CellOf(p, i), ~p.vertical, k)
          BY <2>3, <4>2
        <5> HIDE DEF n
        <5> QED BY <5>1, <5>2, NotBeside
      <4> QED BY <1>1, <1>2, <3>1, <4>1, <4>2
    <3>2. c \in old
      BY <1>2, <1>4, <3>1
    <3>3. c \in Int \X Int
      BY <1>0, <3>2
    <3>4. Crossword!Step(c, v, -1) \notin old
      BY <1>2, <1>4
    <3>5. Crossword!Step(c, v, 1) \in old
      <4>1. ASSUME NEW i \in 1 .. n, Crossword!Step(c, v, 1) = CellOf(p, i), CellOf(p, i) \notin old PROVE FALSE
        <5>1. Crossword!Step(Crossword!Step(c, v, 1), v, -1) = Crossword!Step(c, v, 1 + -1) /\ Crossword!Step(c, v, 0) = c /\ 1 + -1 = 0
          BY <3>3, Steps
        <5> QED BY <1>2, <3>1, <3>2, <4>1, <5>1
      <4> QED BY <1>2, <1>4, <4>1
    <3>6. ASSUME NEW q \in layout, q.vertical = v, <<q.x, q.y>> = c,
                 CellOf(q, Len(q.word) + 1) \notin old,
                 NEW i \in 1 .. n, CellOf(q, Len(q.word) + 1) = CellOf(p, i)
          PROVE  FALSE
      <4> DEFINE m == Len(q.word)
      <4>0. q \in PlacesOf(W) /\ m \in Nat /\ m >= 2 /\ DOMAIN q.word = 1 .. m
        BY <2>0
      <4>1. Crossword!Step(CellOf(q, m + 1), v, -1) = CellOf(q, m + 1 + -1) /\ m + 1 + -1 = m
        <5> HIDE DEF m
        <5>1. m + 1 \in Int /\ m + 1 + -1 = m
          BY <4>0
        <5>2. Crossword!Step(CellOf(q, m + 1), q.vertical, -1) = CellOf(q, m + 1 + -1)
          BY <4>0, <5>1, Along
        <5> QED BY <3>6, <5>1, <5>2
      <4>2. CellOf(q, m) \in old
        BY <4>0, Occupation
      <4> QED BY <1>2, <3>1, <3>6, <4>1, <4>2
    <3> QED BY <2>1, <3>2, <3>4, <3>5, <3>6
  <2>4. v = p.vertical \/ v = ~p.vertical
    BY PlaceTyped
  <2> QED BY <2>2, <2>3, <2>4
<1> QED BY <1>3, <1>4 DEF Reads

\* The layouts in the making: crosswords of some words.
Layouts(W) == {l \in SUBSET PlacesOf(W) : IsFiniteSet(l) /\ l # {} /\ Reads(l)}

\* One word alone.
LEMMA OneWordReads ==
  ASSUME NEW W, Answers(W), NEW w \in W
  PROVE  {Place(w, 0, 0, FALSE)} \in Layouts(W)
<1> DEFINE p == Place(w, 0, 0, FALSE)
           n == Len(w)
           cells == Occupied({p})
<1>1. p \in PlacesOf(W) /\ p.word = w
  BY DEF Place, PlacesOf
<1>2. n \in Nat /\ n >= 2 /\ DOMAIN w = 1 .. n
  BY WordIndices
<1> HIDE DEF p
<1>3. \A c : c \in cells <=> \E i \in 1 .. n : c = CellOf(p, i)
  BY <1>1, <1>2, Occupation
<1>4. \A a, b \in Written({p}) : a[1] = b[1] => a = b
  <2>1. \A a \in Written({p}) : \E i \in 1 .. n : a = <<CellOf(p, i), w[i]>>
    BY <1>1, <1>2, WrittenLetters
  <2>2. ASSUME NEW i \in 1 .. n, NEW j \in 1 .. n, CellOf(p, i) = CellOf(p, j) PROVE i = j
    BY <1>1, <1>2, <2>2, CellsDiffer
  <2> QED BY <2>1, <2>2
<1>5. ASSUME NEW c \in cells, NEW v \in BOOLEAN, Crossword!Step(c, v, -1) \notin cells, Crossword!Step(c, v, 1) \in cells
      PROVE  /\ p.vertical = v /\ <<p.x, p.y>> = c
             /\ CellOf(p, Len(p.word) + 1) \notin cells
  <2>1. PICK i \in 1 .. n : c = CellOf(p, i)
    BY <1>3
  <2>2. PICK j \in 1 .. n : Crossword!Step(c, v, 1) = CellOf(p, j)
    BY <1>3, <1>5
  <2>3. i \in Int /\ j \in Int /\ n + 1 \in Int /\ 1 \in Int /\ 1 # 0
    BY <1>2
  <2>4. p.vertical \in BOOLEAN
    BY <1>1, PlaceTyped
  <2>5. v = p.vertical
    <3>1. ASSUME v = ~p.vertical PROVE FALSE
      <4>1. CellOf(p, j) = Crossword!Step(CellOf(p, i), ~p.vertical, 1)
        BY <2>1, <2>2, <3>1
      <4> QED BY <1>1, <2>3, <4>1, NotBeside
    <3> QED BY <2>4, <3>1
  <2>6. i = 1
    <3>1. Crossword!Step(CellOf(p, i), p.vertical, -1) = CellOf(p, i + -1)
      <4>1. -1 \in Int
        OBVIOUS
      <4> QED BY <1>1, <2>3, <4>1, Along
    <3>2. i + -1 \notin 1 .. n
      BY <1>3, <1>5, <2>1, <2>5, <3>1
    <3> QED BY <1>2, <3>2
  <2>7. CellOf(p, n + 1) \notin cells
    <3>1. ASSUME NEW k \in 1 .. n, CellOf(p, n + 1) = CellOf(p, k) PROVE FALSE
      <4>1. k \in Int /\ k # n + 1
        BY <1>2
      <4> QED BY <1>1, <2>3, <3>1, <4>1, CellsDiffer
    <3> QED BY <1>3, <3>1
  <2> QED BY <1>1, <2>1, <2>5, <2>6, <2>7, FirstCell
<1>6. Reads({p})
  BY <1>4, <1>5 DEF Reads
<1>7. IsFiniteSet({p})
  BY FS_Singleton
<1>8. {p} \in Layouts(W)
  BY <1>1, <1>6, <1>7 DEF Layouts
<1> QED BY <1>8 DEF p

\* A word across another one is a word that stands somewhere.
LEMMA AcrossIsPlace ==
  ASSUME NEW W, NEW w \in W, NEW q \in PlacesOf(W), NEW i \in Int, NEW j \in Int
  PROVE  Across(w, i, q, j) \in PlacesOf(W)
<1>1. PICK x \in Int, y \in Int : CellOf(q, j) = <<x, y>>
  BY CellIsCell
<1>2. \A a, b \in Int, v \in BOOLEAN : Place(w, a, b, v) \in PlacesOf(W)
  BY DEF Place, PlacesOf
<1>3. x - i + 1 \in Int /\ y - i + 1 \in Int
  OBVIOUS
<1>4. Across(w, i, q, j) = IF q.vertical THEN Place(w, x - i + 1, y, FALSE)
                                         ELSE Place(w, x, y - i + 1, TRUE)
  BY <1>1 DEF Across
<1> QED BY <1>2, <1>3, <1>4

LEMMA MoreWordsRead ==
  ASSUME NEW W, Answers(W), NEW l \in Layouts(W), NEW w \in W
  PROVE  WithWord(l, w) \subseteq Layouts(W)
<1>1. l \subseteq PlacesOf(W) /\ IsFiniteSet(l) /\ Reads(l)
  BY DEF Layouts
<1>2. ASSUME NEW p \in BestPlacements(w, l)
      PROVE  l \cup {p} \in Layouts(W)
  <2>1. CanPlaceWord(p, l)
    BY DEF BestPlacements
  <2>2a. PICK q \in l : \E i \in DOMAIN w : \E j \in DOMAIN q.word : p = Across(w, i, q, j)
    BY DEF BestPlacements
  <2>2. PICK i \in DOMAIN w, j \in DOMAIN q.word : p = Across(w, i, q, j)
    BY <2>2a
  <2>3. q \in PlacesOf(W) /\ i \in Int /\ j \in Int
    <3>1. q \in PlacesOf(W)
      BY <1>1
    <3>2. q.word \in W
      BY <3>1, PlaceTyped
    <3>3. DOMAIN w \subseteq Int
      <4>1. Len(w) \in Nat /\ DOMAIN w = 1 .. Len(w)
        BY WordIndices
      <4> QED BY <4>1
    <3>4. DOMAIN q.word \subseteq Int
      <4>1. Len(q.word) \in Nat /\ DOMAIN q.word = 1 .. Len(q.word)
        BY <3>2, WordIndices
      <4> QED BY <4>1
    <3> QED BY <3>1, <3>3, <3>4
  <2>4. p \in PlacesOf(W)
    BY <2>2, <2>3, AcrossIsPlace
  <2>5. Reads(l \cup {p})
    BY <1>1, <2>1, <2>4, OneMorePlace
  <2>6. IsFiniteSet(l \cup {p})
    BY <1>1, FS_AddElement
  <2> QED BY <1>1, <2>4, <2>5, <2>6 DEF Layouts
<1> QED BY <1>2 DEF WithWord

\* What a word more makes of the layouts in the making.
WithAWord(layouts, w) == UNION {WithWord(l, w) : l \in layouts}

\* The recursion of FoldLeft, as GreedyLayouts uses it.
Lays(g, first, rest) ==
  g = [T \in SUBSET DOMAIN rest |->
         IF T = {} THEN {{Place(first, 0, 0, FALSE)}}
                   ELSE LET x == Max(T) IN WithAWord(g[T \ {x}], rest[x])]
Lay(first, rest) == CHOOSE g : Lays(g, first, rest)

LEMMA LayoutsAreLaid ==
  ASSUME NEW words
  PROVE  GreedyLayouts(words) = Lay(Head(words), Tail(words))[DOMAIN Tail(words)]
BY DEF GreedyLayouts, FoldLeft, MapThenFoldSet, WithAWord, Lays, Lay

LEMMA GreatestIsOne ==
  ASSUME NEW S, S \subseteq Int, IsFiniteSet(S), S # {}
  PROVE  Max(S) \in S
<1> DEFINE f == [j \in S |-> -j]
<1>1. \A j \in S : f[j] \in Int
  OBVIOUS
<1>2. PICK m \in S : \A j \in S : f[m] <= f[j]
  <2> HIDE DEF f
  <2> QED BY <1>1, LeastElement
<1>3. \A j \in S : m >= j
  <2> SUFFICES ASSUME NEW j \in S PROVE m >= j
    OBVIOUS
  <2>1. -m <= -j
    BY <1>2
  <2> QED BY <2>1
<1> QED BY <1>3 DEF Max

LEMMA LayStays ==
  ASSUME NEW W, Answers(W), NEW first \in W, NEW rest \in Seq(W), NEW g,
         g[{}] = {{Place(first, 0, 0, FALSE)}},
         \A T \in SUBSET DOMAIN rest : T # {} /\ g[T \ {Max(T)}] \in SUBSET Layouts(W) =>
            g[T] = WithAWord(g[T \ {Max(T)}], rest[Max(T)])
  PROVE  \A T \in SUBSET DOMAIN rest : g[T] \in SUBSET Layouts(W)
<1> DEFINE S == DOMAIN rest
           pick == [T \in SUBSET S |-> Max(T)]
           V == SUBSET Layouts(W)
<1>1. IsFiniteSet(S) /\ S \subseteq Int
  <2>1. S = 1 .. Len(rest) /\ Len(rest) \in Nat
    OBVIOUS
  <2> QED BY <2>1, FS_Interval
<1>2. \A T \in SUBSET S : T # {} => pick[T] = Max(T) /\ Max(T) \in T
  <2> SUFFICES ASSUME NEW T \in SUBSET S, T # {} PROVE Max(T) \in T
    OBVIOUS
  <2>1. IsFiniteSet(T) /\ T \subseteq Int
    BY <1>1, FS_Subset
  <2> QED BY <2>1, GreatestIsOne
<1>3. g[{}] \in V
  <2>1. {Place(first, 0, 0, FALSE)} \in Layouts(W)
    BY OneWordReads
  <2> QED BY <2>1
<1>4. ASSUME NEW T \in SUBSET S, T # {}, g[T \ {pick[T]}] \in V
      PROVE  g[T] \in V
  <2>1. g[T] = WithAWord(g[T \ {Max(T)}], rest[Max(T)]) /\ g[T \ {Max(T)}] \in V
    BY <1>2, <1>4
  <2>2. rest[Max(T)] \in W
    <3>1. \A i \in S : rest[i] \in W
      OBVIOUS
    <3>2. Max(T) \in S
      BY <1>2, <1>4
    <3> HIDE DEF S
    <3> QED BY <3>1, <3>2
  <2>3. \A w \in W, ls \in V : WithAWord(ls, w) \in V
    BY MoreWordsRead DEF WithAWord
  <2> HIDE DEF V
  <2> QED BY <2>1, <2>2, <2>3
<1> HIDE DEF pick, V, S
<1>5. \A T \in SUBSET S : T # {} => pick[T] \in T
  BY <1>2
<1>6. \A T \in SUBSET S : g[T] \in V
  BY <1>1, <1>3, <1>4, <1>5, RecursionStays
<1> QED BY <1>6 DEF S, V

LEMMA LayExists ==
  ASSUME NEW W, Answers(W), NEW first \in W, NEW rest \in Seq(W)
  PROVE  Lays(Lay(first, rest), first, rest)
<1> DEFINE S == DOMAIN rest
           pick == [T \in SUBSET S |-> Max(T)]
           step == [x \in S \X SUBSET Layouts(W) |-> WithAWord(x[2], rest[x[1]])]
           base == {{Place(first, 0, 0, FALSE)}}
<1>1. IsFiniteSet(S) /\ S \subseteq Int
  <2>1. S = 1 .. Len(rest) /\ Len(rest) \in Nat
    OBVIOUS
  <2> QED BY <2>1, FS_Interval
<1>2. \A T \in SUBSET S : T # {} => pick[T] = Max(T) /\ Max(T) \in T
  <2> SUFFICES ASSUME NEW T \in SUBSET S, T # {} PROVE Max(T) \in T
    OBVIOUS
  <2>1. IsFiniteSet(T) /\ T \subseteq Int
    BY <1>1, FS_Subset
  <2> QED BY <2>1, GreatestIsOne
<1>3. PICK g : Recursion(g, S, base, pick, step)
  <2> HIDE DEF S, pick, step, base
  <2>1. \A T \in SUBSET S : T # {} => pick[T] \in T
    BY <1>2
  <2> QED BY <1>1, <2>1, RecursionExists
<1>4. g = [T \in SUBSET S |-> g[T]]
        /\ \A T \in SUBSET S : g[T] = IF T = {} THEN base ELSE step[<<pick[T], g[T \ {pick[T]}]>>]
  <2> HIDE DEF S, pick, step, base
  <2> QED BY <1>3 DEF Recursion
<1>5. \A i \in S, ls \in SUBSET Layouts(W) : step[<<i, ls>>] = WithAWord(ls, rest[i])
  OBVIOUS
<1>6. ASSUME NEW T \in SUBSET S, T # {}, g[T \ {Max(T)}] \in SUBSET Layouts(W)
      PROVE  g[T] = WithAWord(g[T \ {Max(T)}], rest[Max(T)])
  <2>1. pick[T] = Max(T) /\ Max(T) \in S
    BY <1>2, <1>6
  <2>2. g[T] = step[<<Max(T), g[T \ {Max(T)}]>>]
    <3> HIDE DEF S, step, pick
    <3> QED BY <1>4, <1>6, <2>1
  <2> HIDE DEF S, step, pick
  <2> QED BY <1>5, <1>6, <2>1, <2>2
<1>7. g[{}] = base
  BY <1>4
<1>8. \A T \in SUBSET DOMAIN rest : g[T] \in SUBSET Layouts(W)
  <2> HIDE DEF pick, step
  <2> QED BY <1>6, <1>7, LayStays
<1>9. \A T \in SUBSET S : g[T] = IF T = {} THEN base
                                 ELSE WithAWord(g[T \ {Max(T)}], rest[Max(T)])
  <2> SUFFICES ASSUME NEW T \in SUBSET S
               PROVE  g[T] = IF T = {} THEN base ELSE WithAWord(g[T \ {Max(T)}], rest[Max(T)])
    OBVIOUS
  <2>1. CASE T = {}
    BY <1>7, <2>1
  <2>2. CASE T # {}
    <3> DEFINE R == T \ {Max(T)}
    <3>1. R \in SUBSET S
      OBVIOUS
    <3> HIDE DEF step, pick, base
    <3> QED BY <1>6, <1>8, <2>2, <3>1
  <2> QED BY <2>1, <2>2
<1>10. g = [T \in SUBSET S |-> IF T = {} THEN base ELSE WithAWord(g[T \ {Max(T)}], rest[Max(T)])]
  <2> HIDE DEF S, pick, step, base
  <2> QED BY <1>4, <1>9
<1>11. Lays(g, first, rest)
  BY <1>10 DEF Lays
<1> QED BY <1>11 DEF Lay

\* Whatever words are tried in whatever order, a layout reads as words.
LEMMA GreedyLayoutsRead ==
  ASSUME NEW W, Answers(W), NEW words \in Seq(W), words # <<>>
  PROVE  GreedyLayouts(words) \subseteq Layouts(W)
<1> DEFINE first == Head(words)
           rest == Tail(words)
           g == Lay(first, rest)
<1>1. first \in W /\ rest \in Seq(W)
  OBVIOUS
<1> HIDE DEF first, rest
<1>2. Lays(g, first, rest)
  BY <1>1, LayExists
<1> HIDE DEF g
<1>3. g[{}] = {{Place(first, 0, 0, FALSE)}}
      /\ \A T \in SUBSET DOMAIN rest : T # {} => g[T] = WithAWord(g[T \ {Max(T)}], rest[Max(T)])
  BY <1>2 DEF Lays
<1>4. \A T \in SUBSET DOMAIN rest : g[T] \in SUBSET Layouts(W)
  BY <1>1, <1>3, LayStays
<1>5. GreedyLayouts(words) = g[DOMAIN rest]
  BY LayoutsAreLaid DEF g, first, rest
<1> QED BY <1>4, <1>5

LEMMA ImageIsFinite ==
  ASSUME NEW S, IsFiniteSet(S), NEW f
  PROVE  IsFiniteSet({f[x] : x \in S})
<1> DEFINE T == {f[x] : x \in S}
           g == [x \in S |-> f[x]]
<1>1. g \in Surjection(S, T)
  BY DEF Surjection
<1> HIDE DEF g
<1> QED BY <1>1, FS_Surjection

\* The cells of a layout, which are finitely many.
LEMMA CellsAreFinite ==
  ASSUME NEW W, Answers(W), NEW l \in Layouts(W)
  PROVE  IsFiniteSet(Occupied(l)) /\ Occupied(l) # {} /\ Occupied(l) \subseteq Int \X Int
<1>1. l \subseteq PlacesOf(W) /\ IsFiniteSet(l) /\ l # {}
  BY DEF Layouts
<1> DEFINE cell == [p \in l |-> [i \in DOMAIN p.word |-> CellOf(p, i)]]
           cells == [p \in l |-> {cell[p][i] : i \in DOMAIN p.word}]
<1>2. ASSUME NEW p \in l
      PROVE  /\ DOMAIN p.word = 1 .. Len(p.word) /\ Len(p.word) \in Nat /\ Len(p.word) >= 2
             /\ \A i \in DOMAIN p.word : i \in Int /\ CellOf(p, i) \in Int \X Int
  <2>1. p \in PlacesOf(W) /\ p.word \in W
    BY <1>1, PlaceTyped
  <2>2. DOMAIN p.word = 1 .. Len(p.word) /\ Len(p.word) \in Nat /\ Len(p.word) >= 2
    BY <2>1, WordIndices
  <2>3. ASSUME NEW i \in DOMAIN p.word PROVE i \in Int /\ CellOf(p, i) \in Int \X Int
    <3>1. i \in Int
      BY <2>2
    <3> QED BY <2>1, <3>1, CellIsCell
  <2> QED BY <2>2, <2>3
<1>3. ASSUME NEW p \in l PROVE IsFiniteSet(cells[p])
  <2>1. IsFiniteSet(DOMAIN p.word)
    BY <1>2, FS_Interval
  <2>2. IsFiniteSet({cell[p][i] : i \in DOMAIN p.word})
    <3> HIDE DEF cell
    <3> QED BY <2>1, ImageIsFinite
  <2> HIDE DEF cell
  <2> QED BY <2>2
<1>4. Occupied(l) = UNION {cells[p] : p \in l}
  <2>1. \A c : c \in UNION {cells[p] : p \in l} <=> \E p \in l : \E i \in DOMAIN p.word : c = CellOf(p, i)
    <3>1. \A p \in l : cells[p] = {CellOf(p, i) : i \in DOMAIN p.word}
      OBVIOUS
    <3> HIDE DEF cells
    <3>2. \A c : c \in UNION {cells[p] : p \in l} <=> \E p \in l : c \in cells[p]
      OBVIOUS
    <3> QED BY <3>1, <3>2, Zenon
  <2> HIDE DEF cells
  <2> QED BY <2>1, Occupation
<1>5. IsFiniteSet(UNION {cells[p] : p \in l})
  <2> HIDE DEF cells
  <2>1. IsFiniteSet({cells[p] : p \in l})
    BY <1>1, ImageIsFinite
  <2>2. \A T \in {cells[p] : p \in l} : IsFiniteSet(T)
    BY <1>3
  <2> QED BY <2>1, <2>2, FS_UNION
<1>6. Occupied(l) # {}
  <2>1. PICK p \in l : TRUE
    BY <1>1
  <2>2. 1 \in DOMAIN p.word
    BY <1>2
  <2> QED BY <2>1, <2>2, Occupation
<1>7. Occupied(l) \subseteq Int \X Int
  BY <1>2, Occupation
<1> QED BY <1>4, <1>5, <1>6, <1>7

\* A crossword moved is a crossword.
Shifted(p, a, b) == [p EXCEPT !.x = @ - a, !.y = @ - b]

LEMMA ShiftedReads ==
  ASSUME NEW W, Answers(W), NEW l, l \subseteq PlacesOf(W), Reads(l), NEW a \in Int, NEW b \in Int
  PROVE  Reads({Shifted(p, a, b) : p \in l})
<1> DEFINE M == {Shifted(p, a, b) : p \in l}
           To(c) == <<c[1] - a, c[2] - b>>
<1>1. ASSUME NEW p \in l
      PROVE  /\ p \in PlacesOf(W) /\ p.word \in W
             /\ Shifted(p, a, b).word = p.word /\ Shifted(p, a, b).vertical = p.vertical
             /\ Shifted(p, a, b).x = p.x - a /\ Shifted(p, a, b).y = p.y - b
             /\ p.x \in Int /\ p.y \in Int /\ p.vertical \in BOOLEAN
  BY DEF PlacesOf, Shifted
<1>2. ASSUME NEW p \in l, NEW i \in Int
      PROVE  CellOf(Shifted(p, a, b), i) = To(CellOf(p, i))
  <2>1. CASE p.vertical = TRUE
    BY <1>1, <2>1 DEF CellOf
  <2>2. CASE p.vertical = FALSE
    BY <1>1, <2>2 DEF CellOf
  <2> QED BY <1>1, <2>1, <2>2
<1>3. ASSUME NEW c \in Int \X Int, NEW v \in BOOLEAN, NEW k \in Int
      PROVE  Crossword!Step(To(c), v, k) = To(Crossword!Step(c, v, k))
  <2>1. PICK x \in Int, y \in Int : c = <<x, y>>
    OBVIOUS
  <2>2. CASE v = TRUE
    BY <2>1, <2>2 DEF Crossword!Step
  <2>3. CASE v = FALSE
    BY <2>1, <2>3 DEF Crossword!Step
  <2> QED BY <2>2, <2>3
<1>4. ASSUME NEW c \in Int \X Int, NEW d \in Int \X Int, To(c) = To(d) PROVE c = d
  <2>1. PICK x \in Int, y \in Int : c = <<x, y>>
    OBVIOUS
  <2>2. PICK z \in Int, t \in Int : d = <<z, t>>
    OBVIOUS
  <2>3. x - a = z - a /\ y - b = t - b
    BY <1>4, <2>1, <2>2
  <2> QED BY <2>1, <2>2, <2>3
<1>5. ASSUME NEW p \in l, NEW i \in DOMAIN p.word
      PROVE  i \in Int /\ CellOf(p, i) \in Int \X Int /\ CellOf(p, i) \in Occupied(l)
  <2>1. i \in Int
    BY <1>1, WordIndices
  <2> QED BY <1>1, <2>1, CellIsCell, Occupation
<1> HIDE DEF To
<1>6. ASSUME NEW d \in Occupied(M)
      PROVE  \E c \in Occupied(l) : d = To(c)
  <2>1. PICK q \in M : \E i \in DOMAIN q.word : d = CellOf(q, i)
    BY Occupation
  <2>2. PICK p \in l : q = Shifted(p, a, b)
    OBVIOUS
  <2>3. PICK i \in DOMAIN p.word : d = CellOf(Shifted(p, a, b), i)
    BY <1>1, <2>1, <2>2
  <2> QED BY <1>2, <1>5, <2>3
<1>7. \A c \in Occupied(l) : c \in Int \X Int
  BY <1>5, Occupation
<1>8. ASSUME NEW c \in Int \X Int
      PROVE  To(c) \in Occupied(M) <=> c \in Occupied(l)
  <2>1. ASSUME c \in Occupied(l) PROVE To(c) \in Occupied(M)
    <3>1. PICK p \in l : \E i \in DOMAIN p.word : c = CellOf(p, i)
      BY <2>1, Occupation
    <3>2. PICK i \in DOMAIN p.word : c = CellOf(p, i)
      BY <3>1
    <3>3. To(c) = CellOf(Shifted(p, a, b), i) /\ i \in DOMAIN Shifted(p, a, b).word /\ Shifted(p, a, b) \in M
      BY <1>1, <1>2, <1>5, <3>2
    <3> QED BY <3>3, Occupation
  <2> QED BY <1>4, <1>6, <1>7, <2>1
<1>9. ASSUME NEW d \in Written(M), NEW e \in Written(M), d[1] = e[1] PROVE d = e
  <2>1. ASSUME NEW f \in Written(M)
        PROVE  \E g \in Written(l) : g[1] \in Int \X Int /\ f = <<To(g[1]), g[2]>>
    <3>1. PICK q \in M : \E i \in DOMAIN q.word : f = <<CellOf(q, i), q.word[i]>>
      BY WrittenLetters
    <3>2. PICK p \in l : q = Shifted(p, a, b)
      OBVIOUS
    <3>3. PICK i \in DOMAIN p.word : f = <<CellOf(Shifted(p, a, b), i), p.word[i]>>
      BY <1>1, <3>1, <3>2
    <3> DEFINE g == <<CellOf(p, i), p.word[i]>>
    <3>4. g \in Written(l)
      BY WrittenLetters
    <3>5. g[1] \in Int \X Int /\ f = <<To(g[1]), g[2]>>
      BY <1>2, <1>5, <3>3
    <3> QED BY <3>4, <3>5
  <2>2. PICK g \in Written(l) : g[1] \in Int \X Int /\ d = <<To(g[1]), g[2]>>
    BY <2>1
  <2>3. PICK h \in Written(l) : h[1] \in Int \X Int /\ e = <<To(h[1]), h[2]>>
    BY <2>1
  <2>4. To(g[1]) = To(h[1])
    BY <1>9, <2>2, <2>3
  <2>5. g[1] = h[1]
    BY <1>4, <2>2, <2>3, <2>4
  <2>6. g = h
    BY <2>5 DEF Reads
  <2> QED BY <2>2, <2>3, <2>6
<1>10. ASSUME NEW d \in Occupied(M), NEW v \in BOOLEAN,
              Crossword!Step(d, v, -1) \notin Occupied(M), Crossword!Step(d, v, 1) \in Occupied(M)
       PROVE  \E q \in M : /\ q.vertical = v /\ <<q.x, q.y>> = d
                           /\ CellOf(q, Len(q.word) + 1) \notin Occupied(M)
  <2>1. PICK c \in Occupied(l) : d = To(c)
    BY <1>6
  <2>2. c \in Int \X Int /\ Crossword!Step(c, v, -1) \in Int \X Int /\ Crossword!Step(c, v, 1) \in Int \X Int
    <3>1. -1 \in Int /\ 1 \in Int
      OBVIOUS
    <3> QED BY <1>7, <3>1, Steps
  <2>3. Crossword!Step(c, v, -1) \notin Occupied(l) /\ Crossword!Step(c, v, 1) \in Occupied(l)
    <3>1. -1 \in Int /\ 1 \in Int
      OBVIOUS
    <3>2. Crossword!Step(d, v, -1) = To(Crossword!Step(c, v, -1)) /\ Crossword!Step(d, v, 1) = To(Crossword!Step(c, v, 1))
      BY <1>3, <2>1, <2>2, <3>1
    <3> QED BY <1>8, <1>10, <2>2, <3>2
  <2>4. PICK p \in l : /\ p.vertical = v /\ <<p.x, p.y>> = c
                       /\ CellOf(p, Len(p.word) + 1) \notin Occupied(l)
    BY <2>3 DEF Reads
  <2>5. Len(p.word) + 1 \in Int /\ CellOf(p, Len(p.word) + 1) \in Int \X Int
    <3>1. Len(p.word) \in Nat
      BY <1>1, WordIndices
    <3>2. Len(p.word) + 1 \in Int
      BY <3>1
    <3> QED BY <1>1, <3>2, CellIsCell
  <2>6. CellOf(Shifted(p, a, b), Len(p.word) + 1) \notin Occupied(M)
    BY <1>2, <1>8, <2>4, <2>5
  <2>7. <<p.x - a, p.y - b>> = d
    BY <1>1, <2>1, <2>4 DEF To
  <2>8. Shifted(p, a, b) \in M
    OBVIOUS
  <2> HIDE DEF M
  <2> QED BY <1>1, <2>4, <2>6, <2>7, <2>8
<1> HIDE DEF M
<1>11. Reads(M)
  BY <1>9, <1>10 DEF Reads
<1> QED BY <1>11 DEF M

LEMMA NormalizedReads ==
  ASSUME NEW W, Answers(W), NEW l \in Layouts(W)
  PROVE  Reads(NormalizeLayout(l))
<1> DEFINE Corner(k) == CHOOSE n \in {c[k] : c \in Occupied(l)} : \A c \in Occupied(l) : n <= c[k]
<1>1. ASSUME NEW k \in 1 .. 2 PROVE Corner(k) \in Int
  <2> DEFINE S == Occupied(l)
             f == [c \in S |-> c[k]]
  <2>1. IsFiniteSet(S) /\ S # {} /\ S \subseteq Int \X Int
    BY CellsAreFinite
  <2> HIDE DEF S
  <2>2. \A c \in S : c[k] \in Int
    BY <2>1
  <2>3. \A c \in S : f[c] \in Int
    BY <2>2
  <2>4. PICK c \in S : \A d \in S : f[c] <= f[d]
    <3> HIDE DEF f
    <3> QED BY <2>1, <2>3, LeastElement
  <2>5. \A d \in S : c[k] <= d[k]
    BY <2>4
  <2>6. \E n \in {d[k] : d \in S} : \A d \in S : n <= d[k]
    BY <2>5
  <2>7. Corner(k) \in {d[k] : d \in S}
    BY <2>6 DEF S
  <2> HIDE DEF Corner
  <2> QED BY <2>2, <2>7
<1>2. Corner(1) \in Int /\ Corner(2) \in Int
  BY <1>1
<1>3. NormalizeLayout(l) = {Shifted(p, Corner(1), Corner(2)) : p \in l}
  BY DEF NormalizeLayout, Shifted
<1>4. l \subseteq PlacesOf(W) /\ Reads(l)
  BY DEF Layouts
<1> HIDE DEF Corner
<1> QED BY <1>2, <1>3, <1>4, ShiftedReads

\* In a total order, as a set of pairs, every place has an element.
Orders(R, S) ==
  /\ \A i, j \in S : <<i, j>> \in R \/ <<j, i>> \in R
  /\ \A i, j \in S : <<i, j>> \in R /\ <<j, i>> \in R => i = j
  /\ \A i, j, k \in S : <<i, j>> \in R /\ <<j, k>> \in R => <<i, k>> \in R

Below(R, S, i) == {j \in S : <<j, i>> \in R}

LEMMA LastOfOrder ==
  ASSUME NEW S, IsFiniteSet(S), S # {}, NEW R, Orders(R, S)
  PROVE  \E m \in S : \A j \in S : <<j, m>> \in R
<1> DEFINE C == {T \in SUBSET S : T # {} => \E m \in T : \A j \in T : <<j, m>> \in R}
<1>1. {} \in C
  OBVIOUS
<1>2. ASSUME NEW T \in SUBSET S, NEW x \in T, T \ {x} \in C
      PROVE  T \in C
  <2>1. <<x, x>> \in R
    BY DEF Orders
  <2>2. CASE T \ {x} = {}
    <3>1. \A y \in T : y = x
      BY <2>2
    <3> QED BY <2>1, <3>1
  <2>3. CASE T \ {x} # {}
    <3>1. PICK m \in T \ {x} : \A j \in T \ {x} : <<j, m>> \in R
      BY <1>2, <2>3
    <3>2. CASE <<x, m>> \in R
      <4>1. \A j \in T : <<j, m>> \in R
        BY <3>1, <3>2
      <4> QED BY <4>1
    <3>3. CASE <<x, m>> \notin R
      <4>1. <<m, x>> \in R
        BY <3>3 DEF Orders
      <4>2. \A j \in T : <<j, x>> \in R
        BY <2>1, <3>1, <4>1 DEF Orders
      <4> QED BY <4>2
    <3> QED BY <3>2, <3>3
  <2> QED BY <2>2, <2>3
<1>3. S \in C
  <2> HIDE DEF C
  <2> QED BY <1>1, <1>2, ElementInduction
<1> QED BY <1>3

LEMMA RanksOfOrder ==
  ASSUME NEW S, IsFiniteSet(S), NEW R, Orders(R, S), NEW k \in 1 .. Cardinality(S)
  PROVE  \E i \in S : Cardinality(Below(R, S, i)) = k
<1> DEFINE C == {T \in SUBSET S :
                   \A n \in 1 .. Cardinality(T) : \E i \in T : Cardinality(Below(R, T, i)) = n}
<1>1. ASSUME NEW T \in SUBSET S, \A U \in SUBSET T : U # T => U \in C
      PROVE  T \in C
  <2>1. IsFiniteSet(T) /\ Cardinality(T) \in Nat
    BY FS_Subset, FS_CardinalityType
  <2>2. CASE T = {}
    <3>1. Cardinality(T) = 0
      BY <2>2, FS_EmptySet
    <3> QED BY <3>1
  <2>3. CASE T # {}
    <3>0. Orders(R, T)
      BY DEF Orders
    <3>1. PICK m \in T : \A j \in T : <<j, m>> \in R
      BY <2>1, <2>3, <3>0, LastOfOrder
    <3> DEFINE U == T \ {m}
    <3>2. U \in C /\ Cardinality(U) = Cardinality(T) - 1
      <4>1. U \in SUBSET T /\ U # T
        OBVIOUS
      <4>2. Cardinality(U) = Cardinality(T) - 1
        BY <2>1, FS_RemoveElement
      <4> HIDE DEF U, C
      <4> QED BY <1>1, <4>1, <4>2
    <3>3. Below(R, T, m) = T
      BY <3>1 DEF Below
    <3>4. ASSUME NEW i \in U PROVE Below(R, T, i) = Below(R, U, i)
      <4>1. <<m, i>> \notin R
        BY <3>1 DEF Orders
      <4> QED BY <4>1 DEF Below
    <3>5. ASSUME NEW n \in 1 .. Cardinality(T)
          PROVE  \E i \in T : Cardinality(Below(R, T, i)) = n
      <4>1. CASE n = Cardinality(T)
        BY <3>3, <4>1
      <4>2. CASE n # Cardinality(T)
        <5>1. n \in 1 .. Cardinality(U)
          BY <2>1, <3>2, <4>2
        <5>2. PICK i \in U : Cardinality(Below(R, U, i)) = n
          BY <3>2, <5>1
        <5> QED BY <3>4, <5>2
      <4> QED BY <4>1, <4>2
    <3> QED BY <3>5
  <2> QED BY <2>2, <2>3
<1>2. S \in C
  <2> HIDE DEF C
  <2> QED BY <1>1, SubsetInduction
<1> QED BY <1>2

\* Sorting by length keeps the words.
LEMMA ByLengthKeeps ==
  ASSUME NEW W, Answers(W), NEW words \in Seq(W)
  PROVE  ByLength(words) \in Seq(W) /\ DOMAIN ByLength(words) = DOMAIN words
<1> DEFINE D == DOMAIN words
           Before(j, i) == Len(words[j]) > Len(words[i]) \/ (Len(words[j]) = Len(words[i]) /\ j <= i)
           R == {x \in D \X D : Before(x[1], x[2])}
           At(k) == CHOOSE i \in D : Cardinality({j \in D : Before(j, i)}) = k
<1>1. D = 1 .. Len(words) /\ Len(words) \in Nat
  OBVIOUS
<1>2. ASSUME NEW i \in D PROVE words[i] \in W /\ Len(words[i]) \in Nat /\ i \in Int
  <2>1. words[i] \in W
    OBVIOUS
  <2> QED BY <1>1, <2>1, WordIndices
<1>3. \A i, j \in D : <<j, i>> \in R <=> Before(j, i)
  OBVIOUS
<1>4. Orders(R, D)
  <2> HIDE DEF D, R
  <2>1. ASSUME NEW i \in D, NEW j \in D PROVE Before(i, j) \/ Before(j, i)
    BY <1>2
  <2>2. ASSUME NEW i \in D, NEW j \in D, Before(i, j), Before(j, i) PROVE i = j
    BY <1>2, <2>2
  <2>3. ASSUME NEW i \in D, NEW j \in D, NEW k \in D, Before(i, j), Before(j, k) PROVE Before(i, k)
    BY <1>2, <2>3
  <2> HIDE DEF Before
  <2> QED BY <1>3, <2>1, <2>2, <2>3 DEF Orders
<1>5. IsFiniteSet(D) /\ Cardinality(D) = Len(words)
  BY <1>1, FS_Interval
<1>6. \A n \in 1 .. Cardinality(D) : \E i \in D : Cardinality(Below(R, D, i)) = n
  <2> HIDE DEF R, D
  <2> QED BY <1>4, <1>5, RanksOfOrder
<1>7. ASSUME NEW k \in D PROVE At(k) \in D
  <2>1. \E i \in D : Cardinality(Below(R, D, i)) = k
    <3>1. k \in 1 .. Cardinality(D)
      BY <1>1, <1>5
    <3> QED BY <1>6, <3>1
  <2>2. \A i \in D : Below(R, D, i) = {j \in D : Before(j, i)}
    BY <1>3 DEF Below
  <2> HIDE DEF R, D, Before
  <2>3. \E i \in D : Cardinality({j \in D : Before(j, i)}) = k
    BY <2>1, <2>2
  <2> QED BY <2>3
<1>9. ByLength(words) = [k \in D |-> words[At(k)]]
  BY DEF ByLength
<1> HIDE DEF At
<1>8. [k \in D |-> words[At(k)]] \in Seq(W)
  <2>1. [k \in D |-> words[At(k)]] \in [1 .. Len(words) -> W]
    BY <1>1, <1>2, <1>7
  <2> HIDE DEF D
  <2> QED BY <1>1, <2>1
<1> QED BY <1>8, <1>9

\* The words that are laid.
LEMMA SubsequenceFrom ==
  ASSUME NEW seq, NEW chosen, chosen \subseteq Int, IsFiniteSet(chosen), NEW W,
         \A i \in chosen : seq[i] \in W
  PROVE  \A k \in 1 .. Cardinality(chosen) : Subsequence(seq, chosen)[k] \in W
<1> SUFFICES ASSUME NEW k \in 1 .. Cardinality(chosen) PROVE Subsequence(seq, chosen)[k] \in W
  OBVIOUS
<1> DEFINE i == CHOOSE i \in chosen : Cardinality({j \in chosen : j <= i}) = k
<1>1. i \in chosen
  BY Ranks
<1>2. Subsequence(seq, chosen)[k] = seq[i]
  BY DEF Subsequence
<1> HIDE DEF i
<1> QED BY <1>1, <1>2

LEMMA LongWords ==
  ASSUME NEW A, NEW words \in Seq(Seq(A))
  PROVE  Filter(words, LAMBDA w : Len(w) >= 2) \in Seq({w \in Seq(A) : Len(w) >= 2})
<1> DEFINE W == {w \in Seq(A) : Len(w) >= 2}
           chosen == {i \in DOMAIN words : Len(words[i]) >= 2}
           s == Subsequence(words, chosen)
<1>1. Filter(words, LAMBDA w : Len(w) >= 2) = s
  BY DEF Filter
<1>2. chosen \subseteq Int /\ IsFiniteSet(chosen)
  <2>1. DOMAIN words = 1 .. Len(words) /\ Len(words) \in Nat
    OBVIOUS
  <2>2. IsFiniteSet(DOMAIN words)
    BY <2>1, FS_Interval
  <2> QED BY <2>1, <2>2, FS_Subset
<1>3. \A i \in chosen : words[i] \in W
  OBVIOUS
<1> HIDE DEF chosen, W
<1>4. /\ Cardinality(chosen) \in Nat
      /\ s = [k \in 1 .. Cardinality(chosen) |-> s[k]]
  BY <1>2, SubsequenceLength
<1>5. \A k \in 1 .. Cardinality(chosen) : s[k] \in W
  BY <1>2, <1>3, SubsequenceFrom
<1> HIDE DEF s
<1>6. s \in [1 .. Cardinality(chosen) -> W]
  BY <1>4, <1>5
<1>7. s \in Seq(W)
  BY <1>4, <1>6
<1> QED BY <1>1, <1>7 DEF W

LEMMA ToFront ==
  ASSUME NEW W, NEW s \in Seq(W), NEW f \in DOMAIN s
  PROVE  <<s[f]>> \o RemoveAt(s, f) \in Seq(W) /\ <<s[f]>> \o RemoveAt(s, f) # <<>>
<1>1. f \in 1 .. Len(s) /\ Len(s) \in Nat /\ \A i \in 1 .. Len(s) : s[i] \in W
  OBVIOUS
<1>2. SubSeq(s, 1, f - 1) \in Seq(W)
  <2>1. 1 \in Int /\ f - 1 \in Int /\ \A i \in 1 .. (f - 1) : s[i] \in W
    BY <1>1
  <2> QED BY <2>1, SubSeqProperties
<1>3. SubSeq(s, f + 1, Len(s)) \in Seq(W)
  <2>1. f + 1 \in Int /\ Len(s) \in Int /\ \A i \in (f + 1) .. Len(s) : s[i] \in W
    BY <1>1
  <2> QED BY <2>1, SubSeqProperties
<1>4. RemoveAt(s, f) \in Seq(W)
  BY <1>2, <1>3, ConcatProperties DEF RemoveAt
<1>5. <<s[f]>> \in Seq(W) /\ Len(<<s[f]>>) = 1
  BY <1>1
<1>6. <<s[f]>> \o RemoveAt(s, f) \in Seq(W) /\ Len(<<s[f]>> \o RemoveAt(s, f)) = 1 + Len(RemoveAt(s, f))
  BY <1>4, <1>5, ConcatProperties
<1>7. Len(RemoveAt(s, f)) \in Nat
  BY <1>4, LenProperties
<1>8. Len(<<s[f]>> \o RemoveAt(s, f)) # 0
  BY <1>6, <1>7
<1> QED BY <1>6, <1>8, EmptySeq

\* What buildCrosswordLayout returns is a crossword.
LEMMA BuildReads ==
  ASSUME NEW A, NEW words \in Seq(Seq(A)), NEW l \in BuildCrosswordLayout(words)
  PROVE  Reads(l)
<1> DEFINE W == {w \in Seq(A) : Len(w) >= 2}
           sorted == ByLength(Filter(words, LAMBDA w : Len(w) >= 2))
           First(f) == <<sorted[f]>> \o RemoveAt(sorted, f)
           tried == UNION {GreedyLayouts(First(f)) : f \in DOMAIN sorted}
<1>1. Answers(W)
  BY DEF Answers
<1>2. sorted \in Seq(W)
  <2>1. Filter(words, LAMBDA w : Len(w) >= 2) \in Seq(W)
    BY LongWords
  <2> HIDE DEF W
  <2> QED BY <1>1, <2>1, ByLengthKeeps
<1>3. CASE sorted = <<>>
  <2>1. l = {}
    BY <1>3 DEF BuildCrosswordLayout
  <2>2. Written({}) = {} /\ Occupied({}) = {}
    BY DEF Written, Occupied
  <2> QED BY <2>1, <2>2 DEF Reads
<1>4. CASE sorted # <<>>
  <2>1. PICK m \in tried : l = NormalizeLayout(m)
    BY <1>4 DEF BuildCrosswordLayout
  <2> HIDE DEF W, sorted
  <2>2. PICK f \in DOMAIN sorted : m \in GreedyLayouts(First(f))
    OBVIOUS
  <2>3. First(f) \in Seq(W) /\ First(f) # <<>>
    BY <1>2, ToFront
  <2> HIDE DEF First
  <2>4. m \in Layouts(W)
    BY <1>1, <2>2, <2>3, GreedyLayoutsRead
  <2> QED BY <1>1, <2>1, <2>4, NormalizedReads
<1> QED BY <1>3, <1>4

\* The game's words are sequences of letters.
LEMMA EntriesAreLetters ==
  ASSUME PlayedLevel, OnLevel("crossword")
  PROVE  level.words \in Seq(Seq(Letter))
<1>1. PICK p \in Played : WellFormed(p[1]) /\ p[1].shape = "crossword"
                          /\ level = NormalizeCrossword(p[1])
  BY LevelOfGame DEF Normalize
<1> DEFINE c == p[1]
           chosen == {i \in DOMAIN c.entries : Len(c.entries[i].word) >= 2 /\ Given(c.entries[i].clue)}
           entries == Subsequence(c.entries, chosen)
           Entries == {e \in {c.entries[i] : i \in DOMAIN c.entries} : IsArray(e.word)}
<1>2. IsArray(c.entries) /\ \A i \in DOMAIN c.entries : IsArray(c.entries[i].word)
  BY <1>1 DEF WellFormed, All
<1>3. level.words = [i \in DOMAIN entries |-> Normalized(entries[i].word)]
  BY <1>1 DEF NormalizeCrossword, Filter
<1>4. chosen \in SUBSET DOMAIN c.entries /\ \A i \in chosen : c.entries[i] \in Entries
  BY <1>2
<1>5. IsFiniteSet(chosen) /\ chosen \subseteq Int
  BY <1>2, <1>4, ArrayIsFinite DEF IsArray
<1>6. \A e \in Entries : IsArray(e.word)
  OBVIOUS
<1> HIDE DEF chosen, Entries
<1>7. DOMAIN entries = 1 .. Cardinality(chosen) /\ Cardinality(chosen) \in Nat
  BY <1>5, SubsequenceLength
<1>8. \A k \in 1 .. Cardinality(chosen) : entries[k] \in Entries
  BY <1>4, <1>5, SubsequenceFrom
<1> HIDE DEF entries
<1>9. \A k \in 1 .. Cardinality(chosen) : Normalized(entries[k].word) \in Seq(Letter)
  BY <1>6, <1>8, NormalizedWord
<1>10. level.words \in [1 .. Cardinality(chosen) -> Seq(Letter)]
  BY <1>3, <1>7, <1>9
<1> QED BY <1>7, <1>10

\* The game's layouts are these.
LEMMA SameLayouts ==
  /\ \A words : Crossword!BuildCrosswordLayout(words) = BuildCrosswordLayout(words)
  /\ \A layout : Crossword!Written(layout) = Written(layout)
  /\ \A layout : Crossword!Occupied(layout) = Occupied(layout)
  /\ \A q, i : Crossword!CellOf(q, i) = CellOf(q, i)
<1>1. \A q, i : Crossword!CellOf(q, i) = CellOf(q, i)
  BY DEF Crossword!CellOf, CellOf
<1>2. \A layout : Crossword!Written(layout) = Written(layout)
  BY DEF Crossword!Written, Written, Crossword!CellOf, CellOf
<1>3. \A layout : Crossword!Occupied(layout) = Occupied(layout)
  BY <1>2 DEF Crossword!Occupied, Occupied
<1>4. \A S : Crossword!Cardinality(S) = Cardinality(S)
  BY DEF Crossword!Cardinality, Cardinality
<1>5. \A words : Crossword!Filter(words, LAMBDA w : Len(w) >= 2) = Filter(words, LAMBDA w : Len(w) >= 2)
  BY DEF Crossword!Filter, Filter, Crossword!Subsequence, Subsequence, Crossword!Cardinality, Cardinality
<1>6. \A words : Crossword!ByLength(words) = ByLength(words)
  BY DEF Crossword!ByLength, ByLength, Crossword!Cardinality, Cardinality
<1>7. \A s, i : Crossword!RemoveAt(s, i) = RemoveAt(s, i)
  BY DEF Crossword!RemoveAt, RemoveAt
<1>8. \A words : Crossword!GreedyLayouts(words) = GreedyLayouts(words)
  BY DEF Crossword!GreedyLayouts, GreedyLayouts, Crossword!FoldLeft, FoldLeft,
     Crossword!MapThenFoldSet, MapThenFoldSet, Crossword!Max, Max, Crossword!WithWord, WithWord,
     Crossword!BestPlacements, BestPlacements, Crossword!Distance, Distance, Crossword!Abs, Abs,
     Crossword!Across, Across, Crossword!CanPlaceWord, CanPlaceWord, Crossword!Beside, Beside,
     Crossword!Place, Place, Crossword!Occupied, Occupied, Crossword!Written, Written, Crossword!CellOf, CellOf
<1>9. \A l : Crossword!NormalizeLayout(l) = NormalizeLayout(l)
  BY DEF Crossword!NormalizeLayout, NormalizeLayout, Crossword!Occupied, Occupied,
     Crossword!Written, Written, Crossword!CellOf, CellOf
<1>10. ASSUME NEW words PROVE Crossword!BuildCrosswordLayout(words) = BuildCrosswordLayout(words)
  <2> DEFINE sorted == ByLength(Filter(words, LAMBDA w : Len(w) >= 2))
             tried == UNION {GreedyLayouts(<<sorted[f]>> \o RemoveAt(sorted, f)) : f \in DOMAIN sorted}
             theirs == UNION {Crossword!GreedyLayouts(<<sorted[f]>> \o Crossword!RemoveAt(sorted, f)) :
                                f \in DOMAIN sorted}
             best == {l \in tried : \A o \in tried : Cardinality(o) <= Cardinality(l)}
  <2>1. Crossword!ByLength(Crossword!Filter(words, LAMBDA w : Len(w) >= 2)) = sorted
    BY <1>5, <1>6
  <2>2. theirs = tried
    <3> HIDE DEF sorted
    <3> QED BY <1>7, <1>8
  <2>3. BuildCrosswordLayout(words) =
          IF sorted = <<>> THEN {{}} ELSE {NormalizeLayout(l) : l \in best}
    BY DEF BuildCrosswordLayout
  <2>4. Crossword!BuildCrosswordLayout(words) =
          IF sorted = <<>> THEN {{}}
          ELSE {Crossword!NormalizeLayout(l) :
                  l \in {l \in theirs : \A o \in theirs : Crossword!Cardinality(o) <= Crossword!Cardinality(l)}}
    BY <2>1 DEF Crossword!BuildCrosswordLayout
  <2>5. {l \in theirs : \A o \in theirs : Crossword!Cardinality(o) <= Crossword!Cardinality(l)} = best
    <3> HIDE DEF tried, theirs
    <3> QED BY <1>4, <2>2
  <2> HIDE DEF sorted, best, theirs
  <2>6. {Crossword!NormalizeLayout(l) : l \in best} = {NormalizeLayout(l) : l \in best}
    BY <1>9
  <2> QED BY <2>3, <2>4, <2>5, <2>6
<1> QED BY <1>1, <1>2, <1>3, <1>10

\* What the engine keeps of its layout.
CrosswordLaid(e) == e.letters = Crossword!Written(e.placed) /\ Reads(e.placed)

(***************************************************************************)
(* Types: what the components of the games add to what is known already.     *)
(***************************************************************************)

TriviaTyped == engine.state.selected \in {"none", "right", "wrong", "timeout"}

LEMMA TriviaTypes ==
  ASSUME TriviaEngine, TriviaTyped, Trivia!Timers \/ Trivia!Player
  PROVE  TriviaTyped'
<1> DEFINE now == engine.state
<1>1. /\ DOMAIN engine = {"state", "timer", "timeouts", "listening"}
      /\ DOMAIN now = {"index", "score", "selected", "isFinished", "timeLeft"}
  BY DEF TriviaEngine
<1>2. ASSUME NEW answer \in {"right", "wrong", "timeout"}, Trivia!SubmitAnswer(answer)
      PROVE  TriviaTyped'
  <2>1. CASE UNCHANGED engine
    BY <2>1 DEF TriviaTyped
  <2>2. CASE ~UNCHANGED engine
    <3>1. PICK score : engine' = [engine EXCEPT !.timer = FALSE, !.timeouts = @ + 1,
                                     !.state.selected = answer, !.state.score = score]
      BY <1>2, <2>2 DEF Trivia!SubmitAnswer
    <3>2. engine'.state = [now EXCEPT !.selected = answer, !.score = score]
      BY <1>1, <3>1
    <3> QED BY <1>1, <3>2 DEF TriviaTyped
  <2> QED BY <2>1, <2>2
<1>3. ASSUME NEW answer \in {"right", "wrong"}, Trivia!Answer(answer) PROVE TriviaTyped'
  BY <1>2, <1>3 DEF Trivia!Answer
<1>4. CASE Trivia!Tick
  <2>1. CASE engine' = [engine EXCEPT !.state.timeLeft = @ - 1]
    <3>1. engine'.state = [now EXCEPT !.timeLeft = @ - 1]
      BY <1>1, <2>1
    <3> QED BY <1>1, <3>1 DEF TriviaTyped
  <2> QED BY <1>2, <1>4, <2>1 DEF Trivia!Tick
<1>5. CASE Trivia!NextQuestion
  <2>1. CASE engine' = [engine EXCEPT !.timeouts = @ - 1, !.timer = TRUE,
                           !.state.index = @ + 1, !.state.selected = "none",
                           !.state.timeLeft = TimePerQuestion]
    <3>1. engine'.state = [now EXCEPT !.index = @ + 1, !.selected = "none",
                                      !.timeLeft = TimePerQuestion]
      BY <1>1, <2>1
    <3> QED BY <1>1, <3>1 DEF TriviaTyped
  <2>2. CASE engine' = [engine EXCEPT !.timeouts = @ - 1, !.state.isFinished = TRUE]
    <3>1. engine'.state = [now EXCEPT !.isFinished = TRUE]
      BY <1>1, <2>2
    <3> QED BY <1>1, <3>1 DEF TriviaTyped
  <2> QED BY <1>5, <2>1, <2>2 DEF Trivia!NextQuestion
<1>6. CASE Trivia!Reset
  <2>1. engine'.state = Trivia!Fresh(level)
    BY <1>1, <1>6 DEF Trivia!Reset
  <2> QED BY <2>1 DEF TriviaTyped, Trivia!Fresh
<1> QED BY <1>3, <1>4, <1>5, <1>6 DEF Trivia!Timers, Trivia!Player

\* The memory game has its types from what it scores.
LEMMA MemoryTypes ==
  ASSUME MemoryScored, Len(level.ids) \in Nat
  PROVE  Memory!TypeOK
<1>1. IsFiniteSet(Memory!Cards) /\ Cardinality(Memory!Cards) = 2 * Len(level.ids)
  <2>1. 2 * Len(level.ids) \in Nat /\ Memory!Cards = 1 .. 2 * Len(level.ids)
    BY DEF Memory!Cards
  <2> QED BY <2>1, FS_Interval
<1>2. MatchedCards \in SUBSET Memory!Cards
  BY DEF MatchedCards
<1>3. 2 * engine.matchedPairs <= 2 * Len(level.ids)
  BY <1>1, <1>2, FS_Subset DEF MemoryScored
<1>4. engine.matchedPairs \in 0 .. Len(level.ids)
  BY <1>3 DEF MemoryScored
<1>5. Len(engine.flipped) <= 2
  <2>1. CASE engine.flipped = <<>>
    BY <2>1
  <2>2. ASSUME NEW a, engine.flipped = <<a>> PROVE Len(engine.flipped) <= 2
    BY <2>2
  <2>3. ASSUME NEW a, NEW b, engine.flipped = <<a, b>> PROVE Len(engine.flipped) <= 2
    BY <2>3
  <2> QED BY <2>1, <2>2, <2>3 DEF MemoryScored, Waiting
<1> QED BY <1>4, <1>5 DEF MemoryScored, Memory!TypeOK

\* True or false: what is on screen is the item to be answered.
FakeNewsTyped ==
  /\ engine.currentIndex \in 1 .. Len(level.fake) + 1
  /\ engine.score \in 0 .. engine.currentIndex - 1
  /\ \/ ui.currentItem = 0
     \/ ui.currentItem = engine.currentIndex /\ engine.currentIndex <= Len(level.fake)

LEMMA ItemsAreCounted ==
  ASSUME PlayedLevel, OnLevel("fake_news")
  PROVE  Len(level.fake) \in Nat \ {0}
<1>1. PICK p \in Played : WellFormed(p[1]) /\ p[1].shape = "fake_news"
                          /\ level = NormalizeFakeNews(p[1])
  BY LevelOfGame DEF Normalize
<1> DEFINE c == p[1]
           chosen == {i \in DOMAIN c.news : Given(c.news[i].title) /\ Given(c.news[i].content)}
           items == Subsequence(c.news, chosen)
<1>2. level.fake = [i \in DOMAIN items |-> items[i].isFake]
  BY <1>1 DEF NormalizeFakeNews, Filter
<1>3. IsFiniteSet(chosen)
  <2>1. IsArray(c.news)
    BY <1>1 DEF WellFormed
  <2>2. chosen \in SUBSET DOMAIN c.news
    OBVIOUS
  <2> QED BY <2>1, <2>2, ArrayIsFinite
<1>4. DOMAIN items = 1 .. Cardinality(chosen) /\ Cardinality(chosen) \in Nat
  <2> HIDE DEF chosen
  <2> QED BY <1>3, SubsequenceLength
<1> HIDE DEF items, chosen
<1> DEFINE fake == [i \in 1 .. Cardinality(chosen) |-> items[i].isFake]
<1>5. level.fake = fake
  BY <1>2, <1>4
<1>6. Len(fake) = Cardinality(chosen) /\ (Cardinality(chosen) = 0 => fake = <<>>)
  BY <1>4
<1>7. level.fake # <<>>
  BY DEF OnLevel, Playable, Is, HasPlayableContent
<1> HIDE DEF fake
<1> QED BY <1>4, <1>5, <1>6, <1>7

LEMMA FakeNewsTypes ==
  ASSUME FakeNewsTyped, Len(level.fake) \in Nat \ {0}, FakeNews!Player
  PROVE  FakeNewsTyped'
<1>1. PICK isFake \in BOOLEAN : FakeNews!HandleSwipe(isFake)
  BY DEF FakeNews!Player
<1>2. /\ level' = level /\ engine.currentIndex \in 1 .. Len(level.fake)
      /\ engine' = FakeNews!Answered(isFake)
  BY <1>1 DEF FakeNews!HandleSwipe, FakeNewsTyped
<1>3. engine'.currentIndex = engine.currentIndex + 1
      /\ (engine'.score = engine.score + 1 \/ engine'.score = engine.score + 0)
  BY <1>2 DEF FakeNews!Answered
<1>4. engine'.currentIndex \in 1 .. Len(level.fake) + 1
      /\ engine'.score \in 0 .. engine'.currentIndex - 1
  BY <1>2, <1>3 DEF FakeNewsTyped
<1>5. CASE FakeNews!IsGameOver(engine')
  <2>1. ui'.currentItem = 0
    BY <1>1, <1>5 DEF FakeNews!HandleSwipe
  <2> QED BY <1>2, <1>4, <2>1 DEF FakeNewsTyped
<1>6. CASE ~FakeNews!IsGameOver(engine')
  <2>1. ui'.currentItem = engine'.currentIndex /\ ~(engine'.currentIndex > Len(level.fake))
    BY <1>1, <1>6 DEF FakeNews!HandleSwipe, FakeNews!IsGameOver
  <2> QED BY <1>2, <1>4, <2>1 DEF FakeNewsTyped
<1> QED BY <1>5, <1>6

\* The secret message: a piece that is dragged over its neighbour changes places
\* with it, so that no piece is lost.
Exchange(p, i) == Puzzle!Moved(p, i, i + 1)

Exchanged(q, p, n, i) ==
  /\ q \in [1 .. n -> 1 .. n]
  /\ q[i] = p[i + 1] /\ q[i + 1] = p[i]
  /\ \A k \in 1 .. n : k \notin {i, i + 1} => q[k] = p[k]

\* A part of a sequence, o places further on.
LEMMA Part ==
  ASSUME NEW S, NEW s, NEW m \in Int, NEW n \in Int, NEW o \in Int, NEW l \in Nat,
         o = m - 1, l = n - o, \A i \in m .. n : s[i] \in S
  PROVE  /\ SubSeq(s, m, n) \in Seq(S) /\ Len(SubSeq(s, m, n)) = l
         /\ \A k \in 1 .. l : SubSeq(s, m, n)[k] = s[k + o]
<1> DEFINE t == SubSeq(s, m, n)
<1>1. /\ t \in Seq(S)
      /\ Len(t) = IF m <= n THEN n - m + 1 ELSE 0
      /\ \A k \in 1 .. n - m + 1 : t[k] = s[m + k - 1]
  BY SubSeqProperties
<1> HIDE DEF t
<1>2. n - m + 1 = l /\ Len(t) = l
  BY <1>1
<1>3. ASSUME NEW k \in 1 .. l PROVE t[k] = s[k + o]
  <2>1. t[k] = s[m + k - 1]
    BY <1>1, <1>2
  <2>2. m + k - 1 = k + o
    OBVIOUS
  <2> QED BY <2>1, <2>2
<1>4. t \in Seq(S) /\ Len(t) = l /\ \A k \in 1 .. l : t[k] = s[k + o]
  BY <1>1, <1>2, <1>3
<1> QED BY <1>4 DEF t

\* The beginning of a sequence.
LEMMA Beginning ==
  ASSUME NEW S, NEW s, NEW l \in Int, l >= 0, \A i \in 1 .. l : s[i] \in S
  PROVE  /\ SubSeq(s, 1, l) \in Seq(S) /\ Len(SubSeq(s, 1, l)) = l
         /\ \A k \in 1 .. l : SubSeq(s, 1, l)[k] = s[k]
<1> DEFINE t == SubSeq(s, 1, l)
<1>1. /\ t \in Seq(S)
      /\ Len(t) = IF 1 <= l THEN l - 1 + 1 ELSE 0
      /\ \A k \in 1 .. l - 1 + 1 : t[k] = s[1 + k - 1]
  BY SubSeqProperties
<1> HIDE DEF t
<1>2. l - 1 + 1 = l /\ Len(t) = l
  BY <1>1
<1>3. ASSUME NEW k \in 1 .. l PROVE t[k] = s[k]
  <2>1. t[k] = s[1 + k - 1]
    BY <1>1, <1>2
  <2>2. 1 + k - 1 = k
    OBVIOUS
  <2> QED BY <2>1, <2>2
<1>4. t \in Seq(S) /\ Len(t) = l /\ \A k \in 1 .. l : t[k] = s[k]
  BY <1>1, <1>2, <1>3
<1> QED BY <1>4 DEF t

LEMMA Swapped ==
  ASSUME NEW n \in Nat, NEW p \in [1 .. n -> 1 .. n], NEW i \in 1 .. n - 1
  PROVE  Exchanged(Exchange(p, i), p, n, i)
<1> DEFINE S == 1 .. n
           x == SubSeq(p, 1, i - 1)
           y == SubSeq(p, i + 1, n)
           s == x \o y
           a == SubSeq(s, 1, i)
           b == SubSeq(s, i + 1, n - 1)
           c == a \o <<p[i]>>
           d == c \o b
<1>0. i \in Int /\ n \in Int /\ i >= 1 /\ i + 1 <= n
  OBVIOUS
<1>1. \A k \in S : p[k] \in S
  OBVIOUS
<1>2. x \in Seq(S) /\ Len(x) = i - 1 /\ \A k \in 1 .. i - 1 : x[k] = p[k]
  <2>1. i - 1 \in Int /\ i - 1 >= 0
    BY <1>0
  <2>2. \A k \in 1 .. i - 1 : p[k] \in S
    BY <1>0, <1>1
  <2> HIDE DEF S
  <2> QED BY <2>1, <2>2, Beginning
<1>3. y \in Seq(S) /\ Len(y) = n - i /\ \A k \in 1 .. n - i : y[k] = p[k + i]
  <2>1. i + 1 \in Int /\ n \in Int /\ i \in Int /\ n - i \in Nat
        /\ i = (i + 1) - 1 /\ n - i = n - i
    BY <1>0
  <2>2. \A k \in i + 1 .. n : p[k] \in S
    BY <1>0, <1>1
  <2> HIDE DEF S, x, s, a, b, c, d
  <2>3. /\ y \in Seq(S) /\ Len(y) = n - i
        /\ \A k \in 1 .. n - i : y[k] = p[k + i]
    <3>1. \A m, o \in Int : \A l \in Nat :
             o = m - 1 /\ l = n - o /\ (\A k \in m .. n : p[k] \in S)
             => /\ SubSeq(p, m, n) \in Seq(S) /\ Len(SubSeq(p, m, n)) = l
                /\ \A k \in 1 .. l : SubSeq(p, m, n)[k] = p[k + o]
      BY <2>1, Part
    <3> QED BY <2>1, <2>2, <3>1
  <2> HIDE DEF y
  <2> QED BY <1>0, <2>3
<1> HIDE DEF x, y
<1>4. /\ s \in Seq(S) /\ Len(s) = n - 1
      /\ \A k \in 1 .. n - 1 : s[k] = IF k <= i - 1 THEN p[k] ELSE p[k + 1]
  <2> HIDE DEF S
  <2>1. /\ s \in Seq(S) /\ Len(s) = Len(x) + Len(y)
        /\ \A k \in 1 .. Len(x) + Len(y) : s[k] = IF k <= Len(x) THEN x[k] ELSE y[k - Len(x)]
    BY <1>2, <1>3, ConcatProperties
  <2> HIDE DEF s
  <2>2. Len(x) + Len(y) = n - 1
    BY <1>0, <1>2, <1>3
  <2>3. ASSUME NEW k \in 1 .. n - 1 PROVE s[k] = IF k <= i - 1 THEN p[k] ELSE p[k + 1]
    <3>1. s[k] = IF k <= i - 1 THEN x[k] ELSE y[k - (i - 1)]
      BY <1>2, <2>1, <2>2
    <3>2. CASE k <= i - 1
      <4>1. k \in 1 .. i - 1
        BY <1>0, <3>2
      <4> QED BY <1>2, <3>1, <3>2, <4>1
    <3>3. CASE ~(k <= i - 1)
      <4>1. k - (i - 1) \in 1 .. n - i /\ (k - (i - 1)) + i = k + 1
        BY <1>0, <3>3
      <4>2. y[k - (i - 1)] = p[(k - (i - 1)) + i]
        BY <1>3, <4>1
      <4> QED BY <3>1, <3>3, <4>1, <4>2
    <3> QED BY <3>2, <3>3
  <2> QED BY <2>1, <2>2, <2>3
<1>4a. \A k \in 1 .. n - 1 : s[k] \in S
  <2> SUFFICES ASSUME NEW k \in 1 .. n - 1 PROVE s[k] \in S
    OBVIOUS
  <2>1. k \in S /\ k + 1 \in S
    BY <1>0
  <2>2. s[k] = IF k <= i - 1 THEN p[k] ELSE p[k + 1]
    BY <1>4
  <2> HIDE DEF S, s
  <2> QED BY <1>1, <2>1, <2>2
<1>5. s = Puzzle!RemoveAt(p, i)
  <2>1. Len(p) = n
    OBVIOUS
  <2> QED BY <2>1 DEF Puzzle!RemoveAt, x, y
<1> HIDE DEF s
<1>6. a \in Seq(S) /\ Len(a) = i /\ \A k \in 1 .. i : a[k] = s[k]
  <2>0. i >= 0
    BY <1>0
  <2>1. \A k \in 1 .. i : s[k] \in S
    BY <1>0, <1>4a
  <2> HIDE DEF S
  <2>2. /\ SubSeq(s, 1, i) \in Seq(S) /\ Len(SubSeq(s, 1, i)) = i
        /\ \A k \in 1 .. i : SubSeq(s, 1, i)[k] = s[k]
    <3> HIDE DEF a, b, c, d
    <3> QED BY <1>0, <2>0, <2>1, Beginning
  <2> QED BY <2>2
<1>7. b \in Seq(S) /\ Len(b) = n - 1 - i /\ \A k \in 1 .. n - 1 - i : b[k] = s[k + i]
  <2>1. i + 1 \in Int /\ n - 1 \in Int /\ i \in Int /\ n - 1 - i \in Nat
        /\ i = (i + 1) - 1 /\ n - 1 - i = (n - 1) - i
    BY <1>0
  <2>2. \A k \in i + 1 .. n - 1 : s[k] \in S
    BY <1>0, <1>4a
  <2> HIDE DEF S
  <2>3. /\ b \in Seq(S) /\ Len(b) = n - 1 - i
        /\ \A k \in 1 .. n - 1 - i : b[k] = s[k + i]
    BY <2>1, <2>2, Part
  <2> HIDE DEF b
  <2> QED BY <1>0, <2>3
<1>8. d = Puzzle!Moved(p, i, i + 1)
  <2>1. (i + 1) - 1 = i
    BY <1>0
  <2> HIDE DEF S
  <2> QED BY <1>4, <1>5, <2>1 DEF Puzzle!Moved, Puzzle!InsertAt
<1> HIDE DEF a, b
<1>9. /\ c \in Seq(S) /\ Len(c) = i + 1
      /\ \A k \in 1 .. i + 1 : c[k] = IF k <= i THEN a[k] ELSE p[i]
  <2> DEFINE one == <<p[i]>>
  <2>1. one \in Seq(S) /\ Len(one) = 1 /\ one[1] = p[i]
    BY <1>0, <1>1
  <2> HIDE DEF one, S
  <2>2. /\ a \o one \in Seq(S) /\ Len(a \o one) = Len(a) + Len(one)
        /\ \A k \in 1 .. Len(a) + Len(one) :
              (a \o one)[k] = IF k <= Len(a) THEN a[k] ELSE one[k - Len(a)]
    BY <1>6, <2>1, ConcatProperties
  <2>3. c = a \o one
    BY DEF one
  <2> HIDE DEF c
  <2>4. Len(a) + Len(one) = i + 1
    BY <1>0, <1>6, <2>1
  <2>5. ASSUME NEW k \in 1 .. i + 1 PROVE c[k] = IF k <= i THEN a[k] ELSE p[i]
    <3>1. c[k] = IF k <= i THEN a[k] ELSE one[k - i]
      BY <1>6, <2>2, <2>3, <2>4
    <3>2. ~(k <= i) => k - i = 1
      BY <1>0
    <3> QED BY <2>1, <3>1, <3>2
  <2> QED BY <2>2, <2>3, <2>4, <2>5
<1> HIDE DEF c
<1>10. /\ d \in Seq(S) /\ Len(d) = n
       /\ \A k \in 1 .. n : d[k] = IF k <= i + 1 THEN c[k] ELSE b[k - (i + 1)]
  <2> HIDE DEF S
  <2>1. /\ d \in Seq(S) /\ Len(d) = Len(c) + Len(b)
        /\ \A k \in 1 .. Len(c) + Len(b) : d[k] = IF k <= Len(c) THEN c[k] ELSE b[k - Len(c)]
    BY <1>7, <1>9, ConcatProperties
  <2> HIDE DEF d
  <2> QED BY <1>0, <1>7, <1>9, <2>1
<1> HIDE DEF d
<1>11. d[i] = p[i + 1]
  <2>1. d[i] = c[i] /\ c[i] = a[i] /\ a[i] = s[i]
    BY <1>0, <1>6, <1>9, <1>10
  <2>2. s[i] = p[i + 1]
    BY <1>0, <1>4
  <2> QED BY <2>1, <2>2
<1>12. d[i + 1] = p[i]
  BY <1>0, <1>9, <1>10
<1>13. \A k \in 1 .. n : k \notin {i, i + 1} => d[k] = p[k]
  <2> SUFFICES ASSUME NEW k \in 1 .. n, k # i, k # i + 1 PROVE d[k] = p[k]
    OBVIOUS
  <2>1. CASE k < i
    <3>0. /\ k \in 1 .. i /\ k \in 1 .. i + 1 /\ k \in 1 .. n - 1
          /\ k <= i - 1 /\ k <= i /\ k <= i + 1
      BY <1>0, <2>1
    <3>1. d[k] = c[k] /\ c[k] = a[k] /\ a[k] = s[k]
      BY <1>6, <1>9, <1>10, <3>0
    <3>2. s[k] = p[k]
      BY <1>4, <3>0
    <3> QED BY <3>1, <3>2
  <2>2. CASE k > i + 1
    <3>0. ~(k <= i + 1)
      BY <1>0, <2>2
    <3>1. d[k] = b[k - (i + 1)]
      BY <1>10, <3>0
    <3>2. b[k - (i + 1)] = s[(k - (i + 1)) + i]
      BY <1>0, <1>7, <2>2
    <3>3. (k - (i + 1)) + i = k - 1 /\ k - 1 \in 1 .. n - 1 /\ ~(k - 1 <= i - 1)
      BY <1>0, <2>2
    <3>4. s[k - 1] = p[(k - 1) + 1]
      BY <1>4, <3>3
    <3>5. (k - 1) + 1 = k
      BY <1>0
    <3> QED BY <3>1, <3>2, <3>3, <3>4, <3>5
  <2> QED BY <1>0, <2>1, <2>2
<1>14. d \in [1 .. n -> 1 .. n]
  <2> HIDE DEF S
  <2>1. d \in [1 .. Len(d) -> S]
    BY <1>10
  <2> USE DEF S
  <2> QED BY <1>10, <2>1
<1>15. d = Exchange(p, i)
  BY <1>8 DEF Exchange
<1> HIDE DEF d
<1> QED BY <1>11, <1>12, <1>13, <1>14, <1>15 DEF Exchanged

PuzzleTyped ==
  /\ engine.pieces \in [1 .. level.pieces -> 1 .. level.pieces]
  /\ \A v \in 1 .. level.pieces : \E k \in 1 .. level.pieces : engine.pieces[k] = v
  /\ engine.moves \in 0 .. MaxMoves

LEMMA PuzzleIsWhole ==
  ASSUME PuzzleTyped
  PROVE  Puzzle!TypeOK
BY DEF PuzzleTyped, Puzzle!TypeOK, Puzzle!Range

LEMMA PiecesAreCounted ==
  ASSUME PlayedLevel, OnLevel("puzzle")
  PROVE  level.pieces \in Nat
<1>1. PICK p \in Played : WellFormed(p[1]) /\ p[1].shape = "puzzle" /\ level = NormalizePuzzle(p[1])
  BY LevelOfGame DEF Normalize
<1>2. p[1].pieces \in Nat
  BY <1>1 DEF WellFormed
<1> QED BY <1>1, <1>2 DEF NormalizePuzzle

LEMMA PuzzleTypes ==
  ASSUME PuzzleScored, PuzzleTyped, level.pieces \in Nat, Puzzle!Player
  PROVE  PuzzleTyped'
<1> DEFINE n == level.pieces
<1>1. PICK i \in 1 .. n - 1 : Puzzle!HandleReorder(i)
  BY DEF Puzzle!Player
<1>2. /\ level' = level /\ engine.moves < MaxMoves
      /\ engine'.pieces = Puzzle!Moved(engine.pieces, i, i + 1)
      /\ engine'.moves = engine.moves + 1
  BY <1>1 DEF Puzzle!HandleReorder, Puzzle!ReorderPieces
<1>3. MaxMoves \in Nat /\ engine'.moves \in 0 .. MaxMoves
  BY <1>2, BoundsAssumption DEF PuzzleTyped
<1>4. PICK q : q = engine'.pieces
  OBVIOUS
<1>5. /\ q \in [1 .. n -> 1 .. n] /\ q[i] = engine.pieces[i + 1] /\ q[i + 1] = engine.pieces[i]
      /\ \A k \in 1 .. n : k \notin {i, i + 1} => q[k] = engine.pieces[k]
  <2>1. PICK p : p = engine.pieces
    OBVIOUS
  <2>2. PICK m : m = n
    OBVIOUS
  <2>3. m \in Nat /\ p \in [1 .. m -> 1 .. m] /\ i \in 1 .. m - 1
    BY <2>1, <2>2 DEF PuzzleTyped
  <2>4. q = Exchange(p, i)
    BY <1>2, <1>4, <2>1 DEF Exchange
  <2>5. Exchanged(q, p, m, i)
    BY <2>3, <2>4, Swapped
  <2> QED BY <2>1, <2>2, <2>5 DEF Exchanged
<1>6. ASSUME NEW v \in 1 .. n PROVE \E k \in 1 .. n : q[k] = v
  <2>1. PICK k \in 1 .. n : engine.pieces[k] = v
    BY DEF PuzzleTyped
  <2>2. i \in 1 .. n /\ i + 1 \in 1 .. n
    OBVIOUS
  <2>3. CASE k = i
    BY <1>5, <2>1, <2>2, <2>3
  <2>4. CASE k = i + 1
    BY <1>5, <2>1, <2>2, <2>4
  <2> QED BY <1>5, <2>1, <2>3, <2>4
<1> QED BY <1>2, <1>3, <1>4, <1>5, <1>6 DEF PuzzleTyped

\* A shuffle of the pieces has them all.
LEMMA PuzzleShuffled ==
  ASSUME NEW l, l.pieces \in Nat, NEW e \in Puzzle!Engines(l)
  PROVE  /\ e.pieces \in [1 .. l.pieces -> 1 .. l.pieces]
         /\ \A v \in 1 .. l.pieces : \E k \in 1 .. l.pieces : e.pieces[k] = v
         /\ e.moves = 0
<1> DEFINE n == l.pieces
<1>1. PICK p \in [1 .. n -> 1 .. n] :
        /\ Puzzle!IsInjective(p)
        /\ e = [pieces |-> p, isFinished |-> FALSE, score |-> 0, moves |-> 0]
  BY DEF Puzzle!Engines, Puzzle!Shuffled
<1>2. p \in Injection(1 .. n, 1 .. n)
  BY <1>1 DEF Puzzle!IsInjective, Injection, IsInjective
<1>3. IsFiniteSet(1 .. n)
  BY FS_Interval
<1>4. p \in Surjection(1 .. n, 1 .. n)
  <2> HIDE DEF n
  <2> QED BY <1>2, <1>3, FS_Injection
<1>5. \A v \in 1 .. n : \E k \in 1 .. n : p[k] = v
  BY <1>4 DEF Surjection
<1> QED BY <1>1, <1>5

\* The crossword: what is typed stands in the cells of the layout, a crossword.
CrosswordTyped(e) ==
  /\ CrosswordLaid(e)
  /\ e.user \in [Crossword!Occupied(e.placed) -> Typed \cup {Crossword!Blank}]
  /\ e.cell \in DOMAIN e.user \cup {Crossword!NoCell}

TypedOperand(g) == Operand(g) /\ CrosswordTyped(g.e)

LEMMA ValidatedIsTyped ==
  ASSUME NEW e,
         DOMAIN e = {"letters", "placed", "user", "cell", "vertical", "locked", "score", "isFinished"},
         CrosswordTyped(e)
  PROVE  CrosswordTyped(Crossword!Validate(e))
<1> DEFINE v == Crossword!Validate(e)
<1>1. PICK right, score, over : v = [e EXCEPT !.locked = right, !.score = score, !.isFinished = over]
  BY DEF Crossword!Validate
<1>2. v.user = e.user /\ v.cell = e.cell /\ v.placed = e.placed /\ v.letters = e.letters
  BY <1>1
<1> HIDE DEF v
<1> QED BY <1>2 DEF CrosswordTyped, CrosswordLaid, v

LEMMA TypingIsTyped ==
  ASSUME NEW g, TypedOperand(g), NEW ch \in Typed \cup {Crossword!Blank}
  PROVE  TypedOperand(Crossword!InputChar(g, ch))
<1> DEFINE e == g.e
           to == IF ch # Crossword!Blank /\ Crossword!Ahead(e) \in DOMAIN e.user
                 THEN Crossword!Ahead(e) ELSE e.cell
           typed == [e EXCEPT !.user = [e.user EXCEPT ![e.cell] = ch], !.cell = to]
           next == [g EXCEPT !.e = Crossword!Validate(typed)]
<1>1. CASE Crossword!InputChar(g, ch) = g
  BY <1>1
<1>2. CASE e.cell # Crossword!NoCell /\ Crossword!InputChar(g, ch) = Crossword!Notify(next)
  <2>1. /\ DOMAIN typed = DOMAIN e /\ typed.placed = e.placed /\ typed.letters = e.letters
        /\ typed.cell = to /\ typed.user = [e.user EXCEPT ![e.cell] = ch]
    BY DEF TypedOperand, Operand, CrosswordState
  <2>2. e.cell \in DOMAIN e.user /\ to \in DOMAIN e.user
    BY <1>2 DEF TypedOperand, CrosswordTyped
  <2>3. CrosswordTyped(typed)
    <3>1. typed.user \in [Crossword!Occupied(e.placed) -> Typed \cup {Crossword!Blank}]
          /\ DOMAIN typed.user = DOMAIN e.user
      BY <2>1, <2>2 DEF TypedOperand, CrosswordTyped
    <3>2. CrosswordLaid(typed)
      BY <2>1 DEF TypedOperand, CrosswordTyped, CrosswordLaid
    <3> HIDE DEF typed, to, e
    <3> QED BY <2>1, <2>2, <3>1, <3>2 DEF CrosswordTyped
  <2>4. CrosswordTyped(Crossword!Validate(typed))
    <3>1. DOMAIN typed =
            {"letters", "placed", "user", "cell", "vertical", "locked", "score", "isFinished"}
      BY <2>1 DEF TypedOperand, Operand, CrosswordState
    <3> HIDE DEF typed
    <3> QED BY <2>3, <3>1, ValidatedIsTyped
  <2>5. next.e = Crossword!Validate(typed) /\ DOMAIN next = {"e", "r"}
    BY DEF TypedOperand, Operand
  <2>6. Crossword!Notify(next).e = Crossword!Validate(typed)
    BY <2>5, Notified
  <2>7. Operand(Crossword!InputChar(g, ch))
    BY Typing DEF TypedOperand, Follows
  <2> HIDE DEF next, typed, e, to
  <2> QED BY <1>2, <2>4, <2>6, <2>7 DEF TypedOperand
<1> QED BY <1>1, <1>2 DEF Crossword!InputChar

LEMMA SelectingIsTyped ==
  ASSUME NEW g, TypedOperand(g), NEW c \in DOMAIN g.e.user, NEW turned
  PROVE  /\ TypedOperand(Crossword!Notify([g EXCEPT !.e.cell = c]))
         /\ TypedOperand(Crossword!Notify([g EXCEPT !.e.cell = c, !.e.vertical = turned]))
<1>1. ASSUME NEW n, DOMAIN n = {"e", "r"}, n.e.user = g.e.user,
             n.e.placed = g.e.placed, n.e.letters = g.e.letters, n.e.cell = c
      PROVE  CrosswordTyped(Crossword!Notify(n).e)
  <2>1. Crossword!Notify(n).e = n.e
    BY <1>1, Notified
  <2> QED BY <1>1, <2>1 DEF TypedOperand, CrosswordTyped, CrosswordLaid
<1> DEFINE one == [g EXCEPT !.e.cell = c]
           both == [g EXCEPT !.e.cell = c, !.e.vertical = turned]
<1>2. /\ DOMAIN one = {"e", "r"} /\ one.e.user = g.e.user
      /\ one.e.placed = g.e.placed /\ one.e.letters = g.e.letters /\ one.e.cell = c
  BY DEF TypedOperand, Operand, CrosswordState
<1>3. /\ DOMAIN both = {"e", "r"} /\ both.e.user = g.e.user
      /\ both.e.placed = g.e.placed /\ both.e.letters = g.e.letters /\ both.e.cell = c
  BY DEF TypedOperand, Operand, CrosswordState
<1>4. Operand(Crossword!Notify(one)) /\ Operand(Crossword!Notify(both))
  BY Selecting DEF TypedOperand, Follows
<1> HIDE DEF one, both
<1>5. CrosswordTyped(Crossword!Notify(one).e) /\ CrosswordTyped(Crossword!Notify(both).e)
  BY <1>1, <1>2, <1>3
<1>6. TypedOperand(Crossword!Notify(one)) /\ TypedOperand(Crossword!Notify(both))
  BY <1>4, <1>5 DEF TypedOperand
<1> QED BY <1>6 DEF one, both

LEMMA NavigatingIsTyped ==
  ASSUME NEW g, TypedOperand(g), NEW d
  PROVE  TypedOperand(Crossword!Navigate(g, d))
BY SelectingIsTyped DEF Crossword!Navigate

LEMMA CrosswordTypes ==
  ASSUME CrosswordState(engine), CrosswordTyped(engine), DOMAIN ui = {"focused"},
         ui.focused \in BOOLEAN, Crossword!Player
  PROVE  CrosswordTyped(engine') /\ DOMAIN ui' = {"focused"} /\ ui'.focused \in BOOLEAN
<1> DEFINE g == Crossword!Game
<1>1. TypedOperand(g) /\ g.e = engine
  BY DEF TypedOperand, Operand, Crossword!Game
<1> HIDE DEF g
<1>2. ASSUME NEW n, TypedOperand(n), Crossword!Becomes(n) PROVE CrosswordTyped(engine')
  BY <1>2 DEF TypedOperand, Crossword!Becomes
<1>3. ASSUME NEW c \in DOMAIN engine.user, Crossword!Click(c) PROVE CrosswordTyped(engine')
  <2>1. PICK turned : Crossword!Becomes(Crossword!Notify([g EXCEPT !.e.cell = c, !.e.vertical = turned]))
    BY <1>3 DEF Crossword!Click, Crossword!SelectCell, g
  <2>2. TypedOperand(Crossword!Notify([g EXCEPT !.e.cell = c, !.e.vertical = turned]))
    BY <1>1, SelectingIsTyped
  <2> QED BY <1>2, <2>1, <2>2
<1>4. ASSUME NEW ch \in Typed, Crossword!TypeLetter(ch) PROVE CrosswordTyped(engine')
  <2>1. TypedOperand(Crossword!InputChar(g, ch))
    BY <1>1, TypingIsTyped
  <2>2. TypedOperand(Crossword!InputChar(Crossword!InputChar(g, ch), ch))
    BY <2>1, TypingIsTyped
  <2>3. \/ Crossword!Becomes(Crossword!InputChar(Crossword!InputChar(g, ch), ch))
        \/ Crossword!Becomes(Crossword!InputChar(g, ch))
    BY <1>4 DEF Crossword!TypeLetter, Crossword!Twice, g
  <2> QED BY <1>2, <2>1, <2>2, <2>3
<1>5. ASSUME NEW d, Crossword!Arrow(d) PROVE CrosswordTyped(engine')
  <2>1. TypedOperand(Crossword!Navigate(g, d))
    BY <1>1, NavigatingIsTyped
  <2>2. TypedOperand(Crossword!Navigate(Crossword!Navigate(g, d), d))
    BY <2>1, NavigatingIsTyped
  <2>3. \/ Crossword!Becomes(Crossword!Navigate(Crossword!Navigate(g, d), d))
        \/ Crossword!Becomes(Crossword!Navigate(g, d))
    BY <1>5 DEF Crossword!Arrow, Crossword!Twice, g
  <2> QED BY <1>2, <2>1, <2>2, <2>3
<1>6. ASSUME Crossword!Backspace PROVE CrosswordTyped(engine')
  <2> DEFINE cleared == Crossword!InputChar(g, Crossword!Blank)
  <2>1. TypedOperand(cleared)
    BY <1>1, TypingIsTyped
  <2>2. PICK d : Crossword!Becomes(Crossword!Navigate(cleared, d))
    BY <1>6 DEF Crossword!Backspace, g
  <2> HIDE DEF cleared
  <2>3. TypedOperand(Crossword!Navigate(cleared, d))
    BY <2>1, NavigatingIsTyped
  <2> QED BY <1>2, <2>2, <2>3
<1>7. CASE Crossword!Space
  BY <1>1, <1>2, <1>7, TypingIsTyped DEF Crossword!Space, g
<1>8. CASE Crossword!Blur
  BY <1>8 DEF Crossword!Blur
<1>9. CrosswordTyped(engine')
  BY <1>3, <1>4, <1>5, <1>6, <1>7, <1>8 DEF Crossword!Player
<1>10. ui' = ui \/ (\E b \in BOOLEAN : ui' = [ui EXCEPT !.focused = b])
  BY DEF Crossword!Player, Crossword!Click, Crossword!Blur, Crossword!TypeLetter, Crossword!Arrow,
     Crossword!Backspace, Crossword!Space
<1> QED BY <1>9, <1>10

\* Snakes and ladders: the question on screen is one of the level.
SnakesTyped ==
  /\ scene.isAnimating \in BOOLEAN
  /\ ui.queue \in Seq(1 .. level.questions)
  /\ ui.question \in 0 .. level.questions

LEMMA SnakesTypes ==
  ASSUME SnakesEngine, SnakesTyped, Snakes!Timers \/ Snakes!Player
  PROVE  SnakesTyped'
<1> DEFINE n == level.questions
           UiKept == ui'.queue = ui.queue /\ ui'.question \in {ui.question, 0}
           SceneKept == scene'.isAnimating = scene.isAnimating
<1>0. /\ DOMAIN ui = {"canRoll", "queue", "question", "gameOver"}
      /\ DOMAIN scene = {"isAnimating", "die", "settled", "tweens", "aiNext"}
      /\ n \in Nat
  <2>1. DOMAIN ui = {"canRoll", "queue", "question", "gameOver"}
    BY DEF SnakesEngine
  <2>2. DOMAIN scene = {"isAnimating", "die", "settled", "tweens", "aiNext"}
    BY DEF SnakesEngine
  <2>3. level \in SnakesLevels
    BY DEF SnakesEngine
  <2> QED BY <2>1, <2>2, <2>3, SnakesLevelsAssumption DEF SnakesContent
<1>1. level' = level
  BY DEF Snakes!Timers, Snakes!DieSettles, Snakes!TokenStarts,
     Snakes!AiTurnComes, Snakes!SampleCanRoll, Snakes!TokenArrives, Snakes!Player,
     Snakes!RollFreely, Snakes!AskQuestion, Snakes!AnswerRight, Snakes!AnswerWrong
<1>2. ASSUME UiKept, SceneKept PROVE SnakesTyped'
  BY <1>0, <1>1, <1>2 DEF SnakesTyped
<1>3. CASE Snakes!DieSettles
  BY <1>0, <1>2, <1>3 DEF Snakes!DieSettles
<1>4. CASE Snakes!TokenStarts
  BY <1>0, <1>1, <1>4 DEF Snakes!TokenStarts, SnakesTyped
<1>5. ASSUME NEW who, Snakes!TokenArrives(who) PROVE SnakesTyped'
  <2>1. scene'.isAnimating = FALSE
    BY <1>0, <1>5 DEF Snakes!TokenArrives
  <2>2. ui'.queue = ui.queue /\ ui'.question = ui.question
    BY <1>0, <1>5 DEF Snakes!TokenArrives, Snakes!GameOver
  <2> QED BY <1>1, <2>1, <2>2 DEF SnakesTyped
<1>6. CASE Snakes!AiTurnComes
  BY <1>0, <1>2, <1>6 DEF Snakes!AiTurnComes
<1>7. CASE Snakes!SampleCanRoll
  <2>1. PICK can : ui' = [ui EXCEPT !.canRoll = can]
    BY <1>7 DEF Snakes!SampleCanRoll
  <2> QED BY <1>0, <1>2, <1>7, <2>1 DEF Snakes!SampleCanRoll
<1>8. ASSUME Snakes!RollDice PROVE SceneKept
  BY <1>0, <1>8 DEF Snakes!RollDice, Snakes!Tumble
<1>9. CASE Snakes!RollFreely
  BY <1>0, <1>2, <1>8, <1>9 DEF Snakes!RollFreely
<1>10. CASE Snakes!AskQuestion
  <2>1. PICK pending \in (IF ui.queue # <<>> THEN {ui.queue} ELSE Snakes!Shuffles(n)) :
          ui' = [ui EXCEPT !.queue = Tail(pending), !.question = Head(pending)]
    BY <1>10 DEF Snakes!AskQuestion
  <2>2. n > 0 /\ scene' = scene
    BY <1>10 DEF Snakes!AskQuestion
  <2>3. pending \in Seq(1 .. n) /\ pending # <<>>
    <3>1. CASE ui.queue # <<>>
      BY <2>1, <3>1 DEF SnakesTyped
    <3>2. CASE ui.queue = <<>>
      <4>1. pending \in [1 .. n -> 1 .. n]
        BY <2>1, <3>2 DEF Snakes!Shuffles
      <4>2. pending \in Seq(1 .. n) /\ 1 \in DOMAIN pending
        BY <1>0, <2>2, <4>1
      <4> QED BY <4>2
    <3> QED BY <3>1, <3>2
  <2>4. Head(pending) \in 1 .. n /\ Tail(pending) \in Seq(1 .. n)
    <3> HIDE DEF n
    <3> QED BY <2>3, HeadTailProperties
  <2>5. ui'.queue = Tail(pending) /\ ui'.question = Head(pending)
    BY <1>0, <2>1
  <2> QED BY <1>0, <1>1, <2>2, <2>4, <2>5 DEF SnakesTyped
<1>11. CASE Snakes!AnswerRight
  BY <1>0, <1>2, <1>8, <1>11 DEF Snakes!AnswerRight
<1>12. CASE Snakes!AnswerWrong
  <2>1. SceneKept
    BY <1>0, <1>12 DEF Snakes!AnswerWrong, Snakes!AiPlay, Snakes!PlayAITurnAnimated, Snakes!Tumble
  <2>2. ui'.queue = Append(ui.queue, ui.question) /\ ui'.question = 0 /\ ui.question # 0
    BY <1>0, <1>12 DEF Snakes!AnswerWrong
  <2>3. ui.question \in 1 .. n
    BY <1>0, <2>2 DEF SnakesTyped
  <2>4. Append(ui.queue, ui.question) \in Seq(1 .. n)
    <3> HIDE DEF n
    <3> QED BY <2>3 DEF SnakesTyped, n
  <2> QED BY <1>0, <1>1, <2>1, <2>2, <2>4 DEF SnakesTyped
<1> QED BY <1>3, <1>4, <1>5, <1>6, <1>7, <1>9, <1>10, <1>11, <1>12 DEF Snakes!Timers, Snakes!Player

\* The word search: the cursor and a selection stay on the board.
SearchTyped ==
  /\ engine.grid \in [WordSearch!Cells(level) -> Filler \cup Ink(level)]
  /\ DOMAIN ui = {"cursor", "from", "to"}
  /\ ui.cursor \in WordSearch!Cells(level)
  /\ ui.from = WordSearch!NoCoord <=> ui.to = WordSearch!NoCoord

LEMMA BoardHasCells ==
  ASSUME PlayedLevel, OnLevel("word_search")
  PROVE  level.width \in Nat \ {0} /\ level.height \in Nat \ {0}
<1>1. PICK p \in Played : WellFormed(p[1]) /\ p[1].shape = "word_search"
                          /\ level = NormalizeWordSearch(p[1])
  BY LevelOfGame DEF Normalize
<1>2. p[1].width \in Nat /\ p[1].height \in Nat
  BY <1>1 DEF WellFormed
<1>3. p[1].width >= 1 /\ p[1].height >= 1
  BY <1>1, PlayedAssumption
<1> QED BY <1>1, <1>2, <1>3 DEF NormalizeWordSearch

LEMMA CellIsSome ==
  ASSUME NEW l, NEW c \in WordSearch!Cells(l)
  PROVE  c # WordSearch!NoCoord
<1>1. DOMAIN c = 1 .. 2
  BY DEF WordSearch!Cells
<1>2. 1 \in DOMAIN c /\ 1 \notin DOMAIN <<>>
  BY <1>1
<1> QED BY <1>2 DEF WordSearch!NoCoord

LEMMA SearchTypes ==
  ASSUME SearchScored, SearchTyped, level.width \in Nat \ {0}, level.height \in Nat \ {0},
         WordSearch!Player
  PROVE  SearchTyped'
<1>1. level' = level
  BY DEF WordSearch!Player, WordSearch!PointerDown, WordSearch!PointerMove, WordSearch!PointerUp,
     WordSearch!MoveCursor, WordSearch!Enter, WordSearch!Escape
<1>2. engine'.grid = engine.grid
  <2>1. UNCHANGED <<engine, reports>> \/ WordSearch!SubmitSelection
    BY DEF WordSearch!Player, WordSearch!PointerDown, WordSearch!PointerMove, WordSearch!PointerUp,
       WordSearch!MoveCursor, WordSearch!Enter, WordSearch!Escape
  <2>2. CASE WordSearch!SubmitSelection
    BY <2>2, FindsOne DEF SearchScored
  <2> QED BY <2>1, <2>2
<1>3. ASSUME NEW a, NEW b, WordSearch!Select(a, b),
             a = WordSearch!NoCoord <=> b = WordSearch!NoCoord
      PROVE  SearchTyped'
  <2>1. ui' = [ui EXCEPT !.from = a, !.to = b]
    BY <1>3 DEF WordSearch!Select
  <2>2. ui'.from = a /\ ui'.to = b /\ ui'.cursor = ui.cursor /\ DOMAIN ui' = {"cursor", "from", "to"}
    BY <2>1 DEF SearchTyped
  <2> QED BY <1>1, <1>2, <1>3, <2>2 DEF SearchTyped
<1>4. ASSUME NEW c \in WordSearch!Cells(level), WordSearch!PointerDown(c) PROVE SearchTyped'
  BY <1>3, <1>4 DEF WordSearch!PointerDown
<1>5. ASSUME NEW c \in WordSearch!Cells(level), WordSearch!PointerMove(c) PROVE SearchTyped'
  <2>1. PICK a, b : a = ui.from /\ b = WordSearch!ExtendSelectionTo(c)
    OBVIOUS
  <2>2. WordSearch!Select(a, b) /\ ui.from # WordSearch!NoCoord
    BY <1>5, <2>1 DEF WordSearch!PointerMove, WordSearch!IsSelecting
  <2>3. b \in {c, ui.to}
    BY <2>1 DEF WordSearch!ExtendSelectionTo
  <2>4. a # WordSearch!NoCoord /\ b # WordSearch!NoCoord
    BY <2>1, <2>2, <2>3, CellIsSome DEF SearchTyped
  <2> QED BY <1>3, <2>2, <2>4
<1>6. CASE WordSearch!SubmitSelection
  BY <1>3, <1>6 DEF WordSearch!SubmitSelection
<1>7. CASE WordSearch!Escape
  BY <1>3, <1>7 DEF WordSearch!Escape
<1>8. CASE WordSearch!Enter
  <2>1. CASE WordSearch!Select(ui.cursor, ui.cursor)
    <3>1. PICK a : a = ui.cursor
      OBVIOUS
    <3> QED BY <1>3, <2>1, <3>1
  <2> QED BY <1>6, <1>8, <2>1 DEF WordSearch!Enter
<1>9. ASSUME NEW d \in {<<1, 0>>, <<-1, 0>>, <<0, 1>>, <<0, -1>>}, WordSearch!MoveCursor(d[1], d[2])
      PROVE  SearchTyped'
  <2>1. d[1] \in Int /\ d[2] \in Int
    OBVIOUS
  <2>2. PICK to : to = <<WordSearch!Clamp(ui.cursor[1] + d[1], 0, level.width - 1),
                         WordSearch!Clamp(ui.cursor[2] + d[2], 0, level.height - 1)>>
    OBVIOUS
  <2>3. ui' = [ui EXCEPT !.cursor = to,
                  !.to = IF WordSearch!IsSelecting THEN WordSearch!ExtendSelectionTo(to) ELSE @]
    BY <1>9, <2>2 DEF WordSearch!MoveCursor
  <2>4. /\ DOMAIN ui' = {"cursor", "from", "to"} /\ ui'.cursor = to /\ ui'.from = ui.from
        /\ ui'.to = IF WordSearch!IsSelecting THEN WordSearch!ExtendSelectionTo(to) ELSE ui.to
    BY <2>3 DEF SearchTyped
  <2>5. to \in WordSearch!Cells(level)
    <3>1. ui.cursor[1] \in Int /\ ui.cursor[2] \in Int
      BY DEF SearchTyped, WordSearch!Cells
    <3>2. ASSUME NEW n \in Int, NEW m \in Nat \ {0} PROVE WordSearch!Clamp(n, 0, m - 1) \in 0 .. m - 1
      BY DEF WordSearch!Clamp
    <3>3. ui.cursor[1] + d[1] \in Int /\ ui.cursor[2] + d[2] \in Int
      BY <2>1, <3>1
    <3>4. /\ WordSearch!Clamp(ui.cursor[1] + d[1], 0, level.width - 1) \in 0 .. level.width - 1
          /\ WordSearch!Clamp(ui.cursor[2] + d[2], 0, level.height - 1) \in 0 .. level.height - 1
      BY <3>2, <3>3
    <3> QED BY <2>2, <3>4 DEF WordSearch!Cells
  <2>6. to # WordSearch!NoCoord
    BY <2>5, CellIsSome
  <2>7. ui'.from = WordSearch!NoCoord <=> ui'.to = WordSearch!NoCoord
    BY <2>4, <2>6 DEF SearchTyped, WordSearch!IsSelecting, WordSearch!ExtendSelectionTo
  <2> QED BY <1>1, <1>2, <2>4, <2>5, <2>7 DEF SearchTyped
<1>10. CASE WordSearch!PointerUp
  BY <1>6, <1>10 DEF WordSearch!PointerUp
<1> QED BY <1>4, <1>5, <1>7, <1>8, <1>9, <1>10 DEF WordSearch!Player

LEMMA SearchIsTyped ==
  ASSUME SearchScored, SearchTyped
  PROVE  WordSearch!TypeOK
<1>1. Ink(level) = UNION {WordSearch!ToSet(w) : w \in WordSearch!ToSet(level.words)}
  BY DEF Ink, Words, WordSearch!ToSet
<1> QED BY <1>1 DEF SearchScored, SearchTyped, WordSearch!TypeOK

(***************************************************************************)
(* What is mounted has its types.                                            *)
(***************************************************************************)

LEMMA TriviaMountsTyped ==
  ASSUME InGame("trivia")', page'.template = page.template, level' = level, Mount
  PROVE  TriviaTyped'
<1>1. engine' \in Trivia!Engines(level)
  BY DEF Mount, InGame, Is, Playable
<1>2. engine'.state = Trivia!Fresh(level)
  BY <1>1 DEF Trivia!Engines
<1> QED BY <1>2 DEF TriviaTyped, Trivia!Fresh

LEMMA FakeNewsMountsTyped ==
  ASSUME InGame("fake_news")', page'.template = page.template, level' = level, Mount,
         Len(level.fake) \in Nat \ {0}
  PROVE  FakeNewsTyped'
<1>1. engine' \in FakeNews!Engines(level) /\ ui' \in FakeNews!Uis(level)
  BY DEF Mount, InGame, Is, Playable
<1>2. engine'.currentIndex = 1 /\ engine'.score = 0 /\ ui'.currentItem = 1
  BY <1>1 DEF FakeNews!Engines, FakeNews!Uis
<1>3. 1 \in 1 .. Len(level.fake) + 1 /\ 0 \in 0 .. 1 - 1 /\ 1 <= Len(level.fake)
  OBVIOUS
<1> QED BY <1>2, <1>3 DEF FakeNewsTyped

LEMMA PuzzleMountsTyped ==
  ASSUME InGame("puzzle")', page'.template = page.template, level' = level, Mount,
         level.pieces \in Nat
  PROVE  PuzzleTyped'
<1>1. PICK l, e : l = level /\ e = engine'
  OBVIOUS
<1>2. e \in Puzzle!Engines(l) /\ l.pieces \in Nat
  BY <1>1 DEF Mount, InGame, Is, Playable
<1>3. /\ e.pieces \in [1 .. l.pieces -> 1 .. l.pieces]
      /\ \A v \in 1 .. l.pieces : \E k \in 1 .. l.pieces : e.pieces[k] = v
      /\ e.moves = 0
  BY <1>2, PuzzleShuffled
<1>4. engine'.moves \in 0 .. MaxMoves
  <2>1. MaxMoves \in Nat
    BY BoundsAssumption
  <2>2. 0 \in 0 .. MaxMoves
    BY <2>1
  <2> QED BY <1>1, <1>3, <2>2
<1>5. /\ engine'.pieces \in [1 .. level'.pieces -> 1 .. level'.pieces]
      /\ \A v \in 1 .. level'.pieces : \E k \in 1 .. level'.pieces : engine'.pieces[k] = v
  BY <1>1, <1>3
<1> QED BY <1>4, <1>5 DEF PuzzleTyped

LEMMA CrosswordMountsTyped ==
  ASSUME InGame("crossword")', page'.template = page.template, level' = level, Mount,
         level.words \in Seq(Seq(Letter))
  PROVE  CrosswordTyped(engine') /\ DOMAIN ui' = {"focused"} /\ ui'.focused \in BOOLEAN
<1>1. engine' \in Crossword!Engines(level) /\ ui' \in Crossword!Uis(level)
  BY DEF Mount, InGame, Is, Playable
<1>2. PICK layout \in Crossword!BuildCrosswordLayout(level.words) :
        engine' = [letters |-> Crossword!Written(layout), placed |-> layout,
                   user |-> [c \in Crossword!Occupied(layout) |-> Crossword!Blank],
                   cell |-> Crossword!NoCell, vertical |-> FALSE, locked |-> {}, score |-> 0,
                   isFinished |-> FALSE]
  BY <1>1 DEF Crossword!Engines
<1>3. /\ engine'.user = [c \in Crossword!Occupied(layout) |-> Crossword!Blank]
      /\ engine'.placed = layout /\ engine'.cell = Crossword!NoCell
      /\ engine'.letters = Crossword!Written(layout)
  BY <1>2
<1>4. CrosswordTyped(engine')
  <2>1. Reads(layout)
    BY <1>2, SameLayouts, BuildReads
  <2> QED BY <1>3, <2>1 DEF CrosswordTyped, CrosswordLaid
<1>5. ui' = [focused |-> FALSE]
  BY <1>1 DEF Crossword!Uis
<1>6. DOMAIN ui' = {"focused"} /\ ui'.focused = FALSE
  BY <1>5
<1>7. ui'.focused \in BOOLEAN
  BY <1>6, Zenon
<1> QED BY <1>4, <1>6, <1>7

LEMMA SnakesMountsTyped ==
  ASSUME InGame("snakes_ladders")', page'.template = page.template, level' = level, Mount,
         level \in SnakesLevels
  PROVE  SnakesTyped'
<1>1. ui' \in Snakes!Uis(level) /\ scene' \in Snakes!Scenes
  BY DEF Mount, InGame, Is, Playable
<1>2. level.questions \in Nat
  BY SnakesLevelsAssumption DEF SnakesContent
<1>3. scene'.isAnimating = FALSE
  BY <1>1 DEF Snakes!Scenes
<1>4. scene'.isAnimating \in BOOLEAN
  BY <1>3, Zenon
<1>5. PICK q \in Snakes!Shuffles(level.questions) : ui'.queue = q /\ ui'.question = 0
  BY <1>1 DEF Snakes!Uis
<1>6. q \in [1 .. level.questions -> 1 .. level.questions]
  BY <1>5 DEF Snakes!Shuffles
<1>7. q \in Seq(1 .. level.questions)
  BY <1>2, <1>6
<1> QED BY <1>2, <1>4, <1>5, <1>7 DEF SnakesTyped

LEMMA SearchMountsTyped ==
  ASSUME InGame("word_search")', page'.template = page.template, level' = level, Mount,
         SearchLevel(level), level.width \in Nat \ {0}, level.height \in Nat \ {0}
  PROVE  SearchTyped'
<1>1. engine' \in WordSearch!Engines(level) /\ ui' \in WordSearch!Uis(level)
  BY DEF Mount, InGame, Is, Playable
<1>2. PICK h \in WordSearch!Grids(level) : engine'.grid = h.grid
  BY <1>1 DEF WordSearch!Engines
<1>3. h.grid \in [WordSearch!Cells(level) -> Filler \cup Ink(level)]
  BY GridsAreLaid
<1>4. /\ DOMAIN ui' = {"cursor", "from", "to"} /\ ui'.cursor = <<0, 0>>
      /\ ui'.from = WordSearch!NoCoord /\ ui'.to = WordSearch!NoCoord
  BY <1>1 DEF WordSearch!Uis
<1>5. <<0, 0>> \in WordSearch!Cells(level)
  BY DEF WordSearch!Cells
<1> QED BY <1>2, <1>3, <1>4, <1>5 DEF SearchTyped

----------------------------------------------------------------------------
(* Types, together.                                                          *)

TypedInv ==
  /\ InGame("trivia") => TriviaTyped
  /\ InGame("fake_news") => FakeNewsTyped
  /\ InGame("word_search") => SearchTyped
  /\ InGame("puzzle") => PuzzleTyped
  /\ InGame("crossword") => CrosswordTyped(engine) /\ DOMAIN ui = {"focused"} /\ ui.focused \in BOOLEAN
  /\ InGame("snakes_ladders") => SnakesTyped

LEMMA TypedMounted ==
  ASSUME PlayedLevel, LevelInv, Mount, page.view \notin Editors,
         page'.template = page.template, level' = level
  PROVE  TypedInv'
<1>1. \A t : InGame(t)' => OnLevel(t)
  BY StaysPlayable DEF InGame, OnLevel, Is
<1>2. ASSUME InGame("trivia")' PROVE TriviaTyped'
  BY <1>2, TriviaMountsTyped
<1>3. ASSUME InGame("fake_news")' PROVE FakeNewsTyped'
  BY <1>1, <1>3, ItemsAreCounted, FakeNewsMountsTyped
<1>4. ASSUME InGame("word_search")' PROVE SearchTyped'
  BY <1>1, <1>4, WordsAreLetters, BoardHasCells, SearchMountsTyped
<1>5. ASSUME InGame("puzzle")' PROVE PuzzleTyped'
  BY <1>1, <1>5, PiecesAreCounted, PuzzleMountsTyped
<1>6. ASSUME InGame("crossword")'
      PROVE  CrosswordTyped(engine') /\ DOMAIN ui' = {"focused"} /\ ui'.focused \in BOOLEAN
  BY <1>1, <1>6, EntriesAreLetters, CrosswordMountsTyped
<1>7. ASSUME InGame("snakes_ladders")' PROVE SnakesTyped'
  <2>1. level \in SnakesLevels
    BY <1>1, <1>7 DEF LevelInv, OnLevel
  <2> QED BY <1>7, <2>1, SnakesMountsTyped
<1> QED BY <1>2, <1>3, <1>4, <1>5, <1>6, <1>7 DEF TypedInv

LEMMA TypedPlayed ==
  ASSUME VisitInv, PlayedLevel, TriviaInv, SnakesInv, CrosswordInv, ScoredInv, CountedInv, TypedInv,
         GameTimers \/ GamePlayer,
         level' = level, page'.template = page.template, page'.loaded = page.loaded
  PROVE  TypedInv'
<1>1. \A t : InGame(t)' => InGame(t)
  BY DEF InGame, Is, Playable
<1>2. \A t : InGame(t) => OnLevel(t) /\ Is(t)
  BY GameOnLevel DEF InGame
<1>3. ASSUME InGame("trivia") PROVE TriviaTyped'
  <2>1. TriviaEngine /\ TriviaTyped
    BY <1>3 DEF TriviaInv, TypedInv
  <2>2. Trivia!Timers \/ Trivia!Player
    BY <1>3 DEF GameTimers, GamePlayer, InGame, Is
  <2> QED BY <2>1, <2>2, TriviaTypes
<1>4. ASSUME InGame("fake_news") PROVE FakeNewsTyped'
  <2>1. FakeNewsTyped /\ Len(level.fake) \in Nat \ {0}
    BY <1>2, <1>4, ItemsAreCounted DEF TypedInv
  <2>2. FakeNews!Player
    BY <1>4 DEF GameTimers, GamePlayer, InGame, Is
  <2> QED BY <2>1, <2>2, FakeNewsTypes
<1>5. ASSUME InGame("word_search") PROVE SearchTyped'
  <2>1. SearchTyped /\ SearchScored
    BY <1>5 DEF TypedInv, CountedInv
  <2>2. level.width \in Nat \ {0} /\ level.height \in Nat \ {0}
    BY <1>2, <1>5, BoardHasCells
  <2>3. WordSearch!Player
    BY <1>5 DEF GameTimers, GamePlayer, InGame, Is
  <2> QED BY <2>1, <2>2, <2>3, SearchTypes
<1>6. ASSUME InGame("puzzle") PROVE PuzzleTyped'
  <2>1. PuzzleScored /\ PuzzleTyped
    BY <1>6 DEF TypedInv, ScoredInv
  <2>2. level.pieces \in Nat
    BY <1>2, <1>6, PiecesAreCounted
  <2>3. Puzzle!Player
    BY <1>6 DEF GameTimers, GamePlayer, InGame, Is
  <2> QED BY <2>1, <2>2, <2>3, PuzzleTypes
<1>7. ASSUME InGame("crossword")
      PROVE  CrosswordTyped(engine') /\ DOMAIN ui' = {"focused"} /\ ui'.focused \in BOOLEAN
  <2>1. CrosswordState(engine) /\ CrosswordTyped(engine)
        /\ DOMAIN ui = {"focused"} /\ ui.focused \in BOOLEAN
    BY <1>7 DEF TypedInv, CrosswordInv
  <2>2. Crossword!Player
    BY <1>7 DEF GameTimers, GamePlayer, InGame, Is
  <2> QED BY <2>1, <2>2, CrosswordTypes
<1>8. ASSUME InGame("snakes_ladders") PROVE SnakesTyped'
  <2>1. SnakesEngine /\ SnakesTyped
    BY <1>8 DEF TypedInv, SnakesInv
  <2>2. Snakes!Timers \/ Snakes!Player
    BY <1>8 DEF GameTimers, GamePlayer, InGame, Is
  <2> QED BY <2>1, <2>2, SnakesTypes
<1> QED BY <1>1, <1>3, <1>4, <1>5, <1>6, <1>7, <1>8 DEF TypedInv

LEMMA TypedStays ==
  ASSUME TypedInv, UNCHANGED <<level, ui, scene, reports>>,
         page'.template = page.template, page'.loaded = page.loaded,
         \/ engine' = engine
         \/ Is("trivia") /\ InGame("trivia") /\ TriviaEngine /\ engine' = Trivia!Destroyed
  PROVE  TypedInv'
<1>1. \A t : InGame(t)' => InGame(t)
  BY DEF InGame, Is, Playable
<1>2. \A t : InGame(t) => Is(t)
  BY DEF InGame
<1>3. CASE engine' = engine
  <2>1. TriviaTyped => TriviaTyped'
    BY <1>3 DEF TriviaTyped
  <2>2. FakeNewsTyped => FakeNewsTyped'
    BY <1>3 DEF FakeNewsTyped
  <2>3. SearchTyped => SearchTyped'
    BY <1>3 DEF SearchTyped
  <2>4. PuzzleTyped => PuzzleTyped'
    BY <1>3 DEF PuzzleTyped
  <2>5. CrosswordTyped(engine) => CrosswordTyped(engine')
    BY <1>3
  <2>6. SnakesTyped => SnakesTyped'
    BY <1>3 DEF SnakesTyped
  <2> QED BY <1>1, <2>1, <2>2, <2>3, <2>4, <2>5, <2>6 DEF TypedInv
<1>4. CASE Is("trivia") /\ InGame("trivia") /\ TriviaEngine /\ engine' = Trivia!Destroyed
  <2>1. engine'.state = engine.state
    BY <1>4 DEF Trivia!Destroyed, TriviaEngine
  <2>2. TriviaTyped'
    BY <1>4, <2>1 DEF TypedInv, TriviaTyped
  <2> QED BY <1>1, <1>2, <1>4, <2>2 DEF TypedInv, Is
<1> QED BY <1>3, <1>4

LEMMA TypedGoesOn ==
  VisitInv /\ PlayedLevel /\ LevelInv /\ TriviaInv /\ SnakesInv /\ CrosswordInv /\ ScoredInv /\ CountedInv
    /\ TypedInv /\ [Next]_vars => TypedInv'
<1> SUFFICES ASSUME VisitInv, PlayedLevel, LevelInv, TriviaInv, SnakesInv, CrosswordInv, ScoredInv,
                    CountedInv, TypedInv, [Next]_vars
             PROVE  TypedInv'
  OBVIOUS
<1>1. CASE UNCHANGED <<page, level, engine, ui, scene, reports>>
  BY <1>1, TypedStays
<1>2. CASE /\ GameTimers \/ GamePlayer
           /\ level' = level /\ page'.template = page.template /\ page'.loaded = page.loaded
  BY <1>2, TypedPlayed
<1>3. CASE /\ UNCHANGED <<level, ui, scene, reports>>
           /\ page'.template = page.template /\ page'.loaded = page.loaded
           /\ engine' = engine \/ (Mounted /\ Is("trivia") /\ engine' = Trivia!Destroyed)
  <2>1. Mounted /\ Is("trivia") => InGame("trivia") /\ TriviaEngine
    BY DEF Mounted, InGame, VisitInv, TriviaInv
  <2> QED BY <1>3, <2>1, TypedStays
<1> QED BY <1>1, <1>2, <1>3, TypedMounted, PageSteps

LEMMA TypedBegins == Init => TypedInv
BY VisitBegins DEF Init, PageInit, Visit, TypedInv, InGame

\* What the page and its game are made of, read off the invariants.
LEMMA PageIsTyped ==
  ASSUME VisitInv, NothingYet, PlayedLevel, TriviaInv, SnakesInv, ScoredInv, CountedInv, TypedInv
  PROVE  PageOK
<1>1. page.view \in {"admin", "maker", "loading", "play", "error", "left"}
      /\ page.post \in {"none", "sent", "answered", "queued", "dropped", "lost"}
  BY DEF VisitInv
<1>2. ASSUME NEW t, Running, Is(t) PROVE InGame(t) /\ OnLevel(t)
  BY <1>2, GameOnLevel DEF NothingYet, Running, InGame, VisitInv
<1>3. ASSUME Running, Is("trivia") PROVE Trivia!TypeOK
  BY <1>2, <1>3 DEF TriviaInv, TriviaEngine, CountedInv, TriviaScored, TypedInv, TriviaTyped, Trivia!TypeOK
<1>4. ASSUME Running, Is("memory") PROVE Memory!TypeOK
  BY <1>2, <1>4, PairsAreCounted, MemoryTypes DEF CountedInv
<1>5. ASSUME Running, Is("fake_news") PROVE FakeNews!TypeOK
  <2>1. FakeNewsTyped /\ Len(level.fake) \in Nat \ {0}
    BY <1>2, <1>5, ItemsAreCounted DEF TypedInv
  <2> QED BY <2>1 DEF FakeNewsTyped, FakeNews!TypeOK
<1>6. ASSUME Running, Is("word_search") PROVE WordSearch!TypeOK
  BY <1>2, <1>6, SearchIsTyped DEF CountedInv, TypedInv
<1>7. ASSUME Running, Is("puzzle") PROVE Puzzle!TypeOK
  BY <1>2, <1>7, PuzzleIsWhole DEF TypedInv
<1>8. ASSUME Running, Is("crossword") PROVE Crossword!TypeOK
  BY <1>2, <1>8 DEF TypedInv, CrosswordTyped, Crossword!TypeOK
<1>9. ASSUME Running, Is("snakes_ladders") PROVE Snakes!TypeOK
  <2>1. SnakesEngine /\ SnakesScored /\ SnakesTyped
    BY <1>2, <1>9 DEF SnakesInv, ScoredInv, TypedInv
  <2> QED BY <2>1 DEF SnakesEngine, SnakesScored, SnakesTyped, Snakes!TypeOK, Snakes!Players
<1> QED BY <1>1, <1>3, <1>4, <1>5, <1>6, <1>7, <1>8, <1>9 DEF PageOK

\* The editor's page keeps its fields: an id is there only with a form.
LEMMA DeskGoesOn == DeskInv /\ LevelsInv /\ DeskOK /\ [Next]_vars => DeskOK'
<1> SUFFICES ASSUME DeskInv, LevelsInv, DeskOK, [Next]_vars PROVE DeskOK'
  OBVIOUS
<1> USE DEF DeskOK
<1>1. CASE desk' = desk
  BY <1>1
<1>2. CASE AdminStep
  <2> USE DEF DeskInv
  <2>1. ASSUME NEW id \in LevelIds, LevelLoaded(id) PROVE DeskOK'
    <3>1. levels[id].template \in Template
      BY <2>1 DEF LevelLoaded, Alive, LevelsInv, Accepted
    <3> DEFINE form == IF desk.form.shown THEN desk.form ELSE Open(levels[id].template, levels[id].content)
    <3>2. desk'.form = form /\ desk'.target = id /\ desk'.loads = desk.loads \ {id}
      BY <2>1 DEF LevelLoaded
    <3>3. form.shown /\ form.template \in Template
      BY <3>1 DEF Open
    <3> HIDE DEF form
    <3> QED BY <3>2, <3>3
  <2>2. ASSUME NEW id \in LevelIds, StartLevelEdit(id) \/ EditFails(id) PROVE DeskOK'
    <3>1. desk'.form = desk.form /\ desk'.target = desk.target
      BY <2>2 DEF StartLevelEdit, EditFails
    <3>2. desk'.loads \subseteq desk.loads \cup {id}
      BY <2>2 DEF StartLevelEdit, EditFails
    <3> QED BY <3>1, <3>2
  <2>3. CASE OpenCreator
    BY <2>3 DEF OpenCreator, Open, Template
  <2>4. CASE Save \/ SaveFails \/ SaveAnswerLost
    BY <2>4 DEF Save, SaveFails, SaveAnswerLost
  <2>5. CASE SaveAnswered \/ Cancel
    <3>1. desk'.form = Closed /\ desk'.target = Nothing /\ desk'.loads = desk.loads
      BY <2>5 DEF SaveAnswered, Cancel
    <3>2. Closed.shown = FALSE
      BY DEF Closed
    <3> QED BY <3>1, <3>2
  <2>6. ASSUME NEW c, Import(c) PROVE DeskOK'
    BY <2>6 DEF Import, Open, Template
  <2>7. ASSUME NEW c, EditContent(c) PROVE DeskOK'
    BY <2>7 DEF EditContent
  <2>8. ASSUME NEW t \in Template, ChangeTemplate(t) PROVE DeskOK'
    BY <2>8 DEF ChangeTemplate, Open
  <2>9. ASSUME NEW id, NEW b, SetPublished(id, b) PROVE DeskOK'
    BY <1>1, <2>9 DEF SetPublished
  <2>10. ASSUME NEW ids, ArchiveLevels(ids) PROVE DeskOK'
    BY <1>1, <2>10 DEF ArchiveLevels
  <2> QED BY <1>2, <2>1, <2>2, <2>3, <2>4, <2>5, <2>6, <2>7, <2>8, <2>9, <2>10 DEF AdminStep
<1>3. MakerStep => desk' = desk
  BY DEF MakerStep, MakerTemplate, MakerEdit, SaveLocal, OpenMaker, ImportLocal, DeleteLocal
<1> QED BY <1>1, <1>2, <1>3 DEF Next, Writing, Playing, authoringVars, vars

\* The editor's page, the page that plays and the game on it are of their types,
\* whichever of the seven games it is and whatever its level.
THEOREM Types == Spec => []TypeOK
<1>1. Init => DeskOK
  BY DEF Init, NobodyWrites, DeskOK, Closed
<1>2. VisitInv /\ NothingYet /\ PlayedLevel /\ TriviaInv /\ SnakesInv /\ ScoredInv /\ CountedInv /\ TypedInv
        => PageOK
  BY PageIsTyped
<1>3. Init => CrosswordInv
  BY VisitBegins DEF Init, PageInit, Visit, CrosswordInv, InGame
<1>4. VisitInv /\ CrosswordInv /\ [Next]_vars => CrosswordInv'
  BY CrosswordStep
<1>5. PageOK /\ DeskOK => TypeOK
  BY DEF TypeOK
<1> QED BY <1>1, <1>2, <1>3, <1>4, <1>5, DeskGoesOn, CatalogueBegins, CatalogueGoesOn, VisitBegins, VisitGoesOn,
           NothingBegins, NothingGoesOn, TriviaGoesOn, SnakesBegins, LevelGoesOn, SnakesGoesOn, ScoredBegins,
           ScoredGoesOn, PlayedBegins, PlayedGoesOn, CountedBegins, CountedGoesOn, TypedBegins, TypedGoesOn,
           PTL DEF Spec

\* Whatever was laid out in the crossword and whatever has been typed in it since,
\* a cell has one letter and every run of cells is a word (CrosswordEngine's
\* canPlaceWord), whatever the words of the level and the grid they fill.
THEOREM CrosswordsRead == Spec => []ReadsAsWords
<1>1. ASSUME NEW layout, Reads(layout)
      PROVE  /\ \A a, b \in Crossword!Written(layout) : a[1] = b[1] => a = b
             /\ \A c \in Crossword!Occupied(layout), v \in BOOLEAN :
                   Crossword!Step(c, v, -1) \notin Crossword!Occupied(layout)
                     /\ Crossword!Step(c, v, 1) \in Crossword!Occupied(layout) =>
                       \E p \in layout :
                          /\ p.vertical = v /\ <<p.x, p.y>> = c
                          /\ Crossword!CellOf(p, Len(p.word) + 1) \notin Crossword!Occupied(layout)
  BY <1>1, SameLayouts DEF Reads
<1>2. ASSUME CrosswordTyped(engine) PROVE Crossword!ReadsAsWords
  <2>1. /\ DOMAIN engine.user = Crossword!Occupied(engine.placed)
        /\ engine.letters = Crossword!Written(engine.placed) /\ Reads(engine.placed)
    BY <1>2 DEF CrosswordTyped, CrosswordLaid
  <2> QED BY <1>1, <2>1 DEF Crossword!ReadsAsWords
<1>3. VisitInv /\ NothingYet /\ TypedInv => ReadsAsWords
  <2>1. ASSUME VisitInv, NothingYet, Running, Is("crossword") PROVE InGame("crossword")
    BY <2>1 DEF NothingYet, Running, InGame, VisitInv
  <2> QED BY <1>2, <2>1 DEF TypedInv, ReadsAsWords
<1>4. Init => CrosswordInv
  BY VisitBegins DEF Init, PageInit, Visit, CrosswordInv, InGame
<1>5. VisitInv /\ CrosswordInv /\ [Next]_vars => CrosswordInv'
  BY CrosswordStep
<1> QED BY <1>3, <1>4, <1>5, VisitBegins, VisitGoesOn, NothingBegins,
           NothingGoesOn, TriviaGoesOn, SnakesBegins, LevelGoesOn, SnakesGoesOn, ScoredBegins, ScoredGoesOn,
           PlayedBegins, PlayedGoesOn, CountedBegins, CountedGoesOn, TypedBegins, TypedGoesOn,
           PTL DEF Spec
=============================================================================
