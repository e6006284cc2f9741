------------------------------ MODULE LevelForms ------------------------------
(***************************************************************************)
(* The fields of the editors, one form per template (maker/forms): what any   *)
(* number of keystrokes, additions and removals in a form can make of the      *)
(* content `old' it was mounted with.  A row that was there before may stay    *)
(* as it was, which matters for contents that no form wrote.                   *)
(***************************************************************************)
EXTENDS LevelContent

Least(m, n) == IF m <= n THEN m ELSE n

\* Rows of `new' are rows of `old' were entered; a row more than `least'
\* can be removed.
Rows(old, new, least, Entered(_)) ==
    /\ Len(new) >= Least(least, Len(old))
    /\ All(new, LAMBDA row : row \in ToSet(old) \/ Entered(row))

\* An option removed pulls the right one's index back into the options.
TriviaForm(old, new) ==
    Rows(old.questions, new.questions, MinQuestions,
         LAMBDA q : Len(q.options) \in 2 .. 4 /\ q.correct \in 0 .. Len(q.options) - 1)

\* Any change names every pair without an identifier (normalizeMemoryPairs);
\* new pairs get a fresh one.
MemoryForm(old, new) ==
    \/ new = old
    \/ /\ Rows(old.pairs, new.pairs, MinPairs, LAMBDA p : TRUE)
       /\ All(new.pairs, LAMBDA p : Filled(p.id))
       /\ \A i, j \in DOMAIN new.pairs :
             i # j /\ new.pairs[i].id = new.pairs[j].id
                => new.pairs[i].id \in {p.id : p \in ToSet(old.pairs)}

FakeNewsForm(old, new) == Rows(old.news, new.news, 1, LAMBDA n : TRUE)

\* Anything but A to Z is dropped as it is typed; the sides are any numbers.
WordSearchForm(old, new) ==
    Rows(old.words, new.words, 2, LAMBDA w : ToSet(w) \subseteq Letter)

PuzzleForm(old, new) == new.pieces \in Int

\* An answer is normalized as it is typed.
CrosswordForm(old, new) ==
    Rows(old.entries, new.entries, 2, LAMBDA e : e.word = Normalized(e.word))

\* The board stays or is generated anew, two to ten cells a side.
SnakeLadderForm(old, new) ==
    LET board(c) == [c EXCEPT !.questions = <<>>]
        generated == [width |-> new.width, height |-> new.height, start |-> new.start,
                      end |-> new.end, links |-> new.links, questions |-> 0]
    IN /\ \/ board(new) = board(old)
          \/ SnakesContent(generated) /\ {new.width, new.height} \subseteq 2 .. 10
       /\ Rows(old.questions, new.questions, MinSnakesQuestions,
               LAMBDA q : Len(q.options) = 2 /\ q.correct \in 0 .. 1)

\* The form of the template, on contents of its shape.
FormWrites(template, old, new) ==
    /\ old.shape = template /\ new.shape = template
    /\ CASE template = "trivia" -> TriviaForm(old, new)
         [] template = "memory" -> MemoryForm(old, new)
         [] template = "fake_news" -> FakeNewsForm(old, new)
         [] template = "word_search" -> WordSearchForm(old, new)
         [] template = "puzzle" -> PuzzleForm(old, new)
         [] template = "crossword" -> CrosswordForm(old, new)
         [] template = "snakes_ladders" -> SnakeLadderForm(old, new)
=============================================================================
