---------------------------- MODULE LevelContent ----------------------------
(***************************************************************************)
(* The content of a level, three times over: what the editors let an author  *)
(* save (the zod schemas of packages/schema and of maker/registry.ts), what   *)
(* the server accepts (validateLevelInput in levels/service.go) and what the  *)
(* pages make of it before they mount a game (types.ts).                     *)
(*                                                                         *)
(* A raw content is [shape, ...]; its shape is the template whose fields it   *)
(* has, which an import may contradict.  A text is "empty", "blank" (spaces)  *)
(* or any other.  A word is a sequence of characters: "A" .. "Z" as such, "N~"   *)
(* for the letter that only the server keeps apart from "N", anything else a  *)
(* character that normalization drops.                                       *)
(***************************************************************************)
EXTENDS SnakesBoard, CrosswordLayout

CONSTANTS
    MinQuestions,       \* of a trivia level in the editor: 3
    MinPairs,           \* of a memory level: 4
    MinSide, MaxSide,   \* of a word search: 5 and 24
    MinPieces,          \* of a puzzle: 3
    MinSnakesQuestions, \* 8
    MaxCrosswordWords,  \* 30, in the server only
    Letter              \* the letters A to Z, those that occur

\* A memory game needs two pairs (hasPlayableContent), and its level has as many.
ASSUME MinimaAssumption ==
    /\ {MinQuestions, MinPairs, MinSide, MaxSide, MinPieces, MinSnakesQuestions} \subseteq Nat
    /\ MinPairs >= 2

\* No letter is the mark of a cell without one.
ASSUME LetterAssumption == "" \notin Letter

Template == {"trivia", "memory", "fake_news", "word_search", "puzzle", "crossword", "snakes_ladders"}

Given(text) == text # "empty"       \* a string that is not ''
Filled(text) == text \notin {"empty", "blank"} \* nor is what trim leaves of it

All(seq, Test(_)) == \A i \in DOMAIN seq : Test(seq[i])

\* What every content is, an imported one too: its lists are lists, its sizes
\* numbers (the interfaces of packages/schema; NormalizeSnakes apart).
IsArray(seq) == Len(seq) \in Nat /\ seq = [i \in 1 .. Len(seq) |-> seq[i]]
WellFormed(c) ==
    CASE c.shape = "trivia" -> IsArray(c.questions)
      [] c.shape = "memory" -> /\ IsArray(c.pairs)
                               /\ All(c.pairs, LAMBDA p : {"id", "content1", "content2"} \subseteq DOMAIN p)
      [] c.shape = "fake_news" -> IsArray(c.news)
      [] c.shape = "word_search" -> /\ IsArray(c.words) /\ All(c.words, IsArray)
                                    /\ c.width \in Nat /\ c.height \in Nat
      [] c.shape = "puzzle" -> c.pieces \in Nat
      [] c.shape = "crossword" -> IsArray(c.entries) /\ All(c.entries, LAMBDA e : IsArray(e.word))
      [] c.shape = "snakes_ladders" -> IsArray(c.questions)

\* normalizeCrosswordAnswer and normalizeWord of the engine: an N~ loses its tilde.
Normalized(word) ==
    Filter([i \in DOMAIN word |-> IF word[i] = "N~" THEN "N" ELSE word[i]],
           LAMBDA c : c \in Letter)

\* normalizeCrosswordAnswer of the server: an N~ is a letter of its own.
ServerNormalized(word) == Filter(word, LAMBDA c : c \in Letter \cup {"N~"})

\* canBuildConnectedCrossword: all of them find a place.
CanBuild(words) ==
    \E layout \in BuildCrosswordLayout(words) : IsBuildComplete(layout, words)

Distinct(seq) == \A i, j \in DOMAIN seq : seq[i] = seq[j] => i = j

----------------------------------------------------------------------------
(* The editors: `errors' is null exactly when this holds.                    *)

MakerAcceptsTrivia(c) ==
    /\ Len(c.questions) >= MinQuestions
    /\ All(c.questions, LAMBDA q : Given(q.question) /\ Len(q.options) \in 2 .. 4 /\ q.correct \in 0 .. 3)

\* The texts of a pair may be empty.
MakerAcceptsMemory(c) == Len(c.pairs) >= MinPairs

MakerAcceptsFakeNews(c) ==
    /\ Len(c.news) >= 1
    /\ All(c.news, LAMBDA n : Given(n.title) /\ Given(n.content))

MakerAcceptsWordSearch(c) ==
    /\ Len(c.words) >= 2 /\ All(c.words, LAMBDA w : Len(w) >= 2)
    /\ c.width \in MinSide .. MaxSide /\ c.height \in MinSide .. MaxSide

MakerAcceptsPuzzle(c) == Given(c.phrase) /\ c.pieces \in MinPieces .. 20

MakerAcceptsCrossword(c) ==
    LET words == [i \in DOMAIN c.entries |-> Normalized(c.entries[i].word)] IN
    /\ Len(c.entries) >= 2
    /\ All(c.entries, LAMBDA w : Len(w.word) >= 2 /\ Given(w.clue))
    /\ Distinct(words)
    /\ CanBuild(words)

\* What a snake or a ladder is; origins are distinct among both.
LinksOk(c) ==
    /\ \A l \in c.links : l.start # l.to
    /\ \A a, b \in c.links : a.start = b.start => a = b

MakerAcceptsSnakes(c) ==
    /\ c.width >= 1 /\ c.height >= 1 /\ c.start >= 1
    /\ c.end \in 1 .. c.width * c.height
    /\ LinksOk(c)
    /\ Len(c.questions) >= MinSnakesQuestions
    /\ All(c.questions, LAMBDA q : /\ Given(q.question) /\ Len(q.options) = 2
                                   /\ q.correct \in 0 .. Len(q.options) - 1
                                   /\ All(q.options, Filled))

MakerAccepts(template, c) ==
    /\ c.shape = template
    /\ CASE template = "trivia" -> MakerAcceptsTrivia(c)
         [] template = "memory" -> MakerAcceptsMemory(c)
         [] template = "fake_news" -> MakerAcceptsFakeNews(c)
         [] template = "word_search" -> MakerAcceptsWordSearch(c)
         [] template = "puzzle" -> MakerAcceptsPuzzle(c)
         [] template = "crossword" -> MakerAcceptsCrossword(c)
         [] template = "snakes_ladders" -> MakerAcceptsSnakes(c)

----------------------------------------------------------------------------
(* The server.                                                             *)

ServerAcceptsTrivia(c) ==
    /\ c.questions # <<>>
    /\ All(c.questions, LAMBDA q : /\ Filled(q.question) /\ Len(q.options) \in 2 .. 4
                                   /\ q.correct \in 0 .. Len(q.options) - 1
                                   /\ All(q.options, Filled))

\* Mutant: as the editor's schema, which does not look at the texts.
ServerAcceptsMemory_AnyText(c) ==
    /\ Len(c.pairs) >= MinPairs
    /\ All(c.pairs, LAMBDA p : Filled(p.id))

ServerAcceptsMemory(c) ==
    /\ Len(c.pairs) >= MinPairs
    /\ All(c.pairs, LAMBDA p : Filled(p.id) /\ Filled(p.content1) /\ Filled(p.content2))

ServerAcceptsFakeNews(c) ==
    /\ c.news # <<>>
    /\ All(c.news, LAMBDA n : Filled(n.title) /\ Filled(n.content) /\ Filled(n.reference))

ServerAcceptsWordSearch(c) ==
    /\ Len(c.words) >= 2 /\ All(c.words, LAMBDA w : Len(w) >= 2)
    /\ c.width \in MinSide .. MaxSide /\ c.height \in MinSide .. MaxSide

ServerAcceptsPuzzle(c) == Filled(c.phrase) /\ c.pieces \in MinPieces .. 20

ServerAcceptsCrossword(c) ==
    LET words == [i \in DOMAIN c.entries |-> ServerNormalized(c.entries[i].word)] IN
    /\ Len(c.entries) \in 2 .. MaxCrosswordWords
    /\ All(words, LAMBDA w : Len(w) >= 2)
    /\ All(c.entries, LAMBDA w : Filled(w.clue))
    /\ Distinct(words)
    /\ CanBuild(words)

ServerAcceptsSnakes(c) ==
    LET total == c.width * c.height IN
    /\ c.width >= 1 /\ c.height >= 1
    /\ c.start \in 1 .. total /\ c.end \in 1 .. total
    /\ LinksOk(c) /\ \A l \in c.links : l.start \in 1 .. total /\ l.to \in 1 .. total
    /\ Len(c.questions) >= MinSnakesQuestions
    /\ All(c.questions, LAMBDA q : /\ Filled(q.question) /\ Len(q.options) = 2
                                   /\ q.correct \in 0 .. Len(q.options) - 1
                                   /\ All(q.options, Filled))

ServerAccepts(template, c) ==
    /\ c.shape = template
    /\ CASE template = "trivia" -> ServerAcceptsTrivia(c)
         [] template = "memory" -> ServerAcceptsMemory(c)
         [] template = "fake_news" -> ServerAcceptsFakeNews(c)
         [] template = "word_search" -> ServerAcceptsWordSearch(c)
         [] template = "puzzle" -> ServerAcceptsPuzzle(c)
         [] template = "crossword" -> ServerAcceptsCrossword(c)
         [] template = "snakes_ladders" -> ServerAcceptsSnakes(c)

----------------------------------------------------------------------------
(* The pages: what is left of a content, as the game of its template wants   *)
(* it (the parameters of the games' modules).                                *)

NormalizeTrivia(c) ==
    [questions |-> Len(Filter(c.questions, LAMBDA q :
        Given(q.question) /\ Len(q.options) >= 2 /\ q.correct \in 0 .. Len(q.options) - 1))]

\* A blank identifier is replaced, pairs with an empty text are left out; two
\* pairs may keep one identifier.
NormalizeMemory(c) ==
    LET named == [i \in DOMAIN c.pairs |->
                    [c.pairs[i] EXCEPT !.id = IF @ \in {"empty", "blank"} THEN <<"pair", i>> ELSE <<@>>]]
        playable == Filter(named, LAMBDA p : Given(p.content1) /\ Given(p.content2))
    IN [ids |-> [i \in DOMAIN playable |-> playable[i].id]]

NormalizeFakeNews(c) ==
    LET items == Filter(c.news, LAMBDA n : Given(n.title) /\ Given(n.content))
    IN [fake |-> [i \in DOMAIN items |-> items[i].isFake]]

\* The engine then takes the words' letters.
NormalizeWordSearch(c) ==
    LET words == Filter(c.words, LAMBDA w : Len(w) >= 2)
    IN [words |-> [i \in DOMAIN words |-> Normalized(words[i])], width |-> c.width, height |-> c.height]

NormalizePuzzle(c) == [pieces |-> c.pieces, phrase |-> c.phrase]

NormalizeCrossword(c) ==
    LET words == Filter(c.entries, LAMBDA w : Len(w.word) >= 2 /\ Given(w.clue))
    IN [words |-> [i \in DOMAIN words |-> Normalized(words[i].word)]]

NormalizeSnakes(c) ==
    [width |-> c.width, height |-> c.height, start |-> c.start, end |-> c.end,
     links |-> c.links, questions |-> Len(c.questions)]

Normalize(template, c) ==
    CASE template = "trivia" -> NormalizeTrivia(c)
      [] template = "memory" -> NormalizeMemory(c)
      [] template = "fake_news" -> NormalizeFakeNews(c)
      [] template = "word_search" -> NormalizeWordSearch(c)
      [] template = "puzzle" -> NormalizePuzzle(c)
      [] template = "crossword" -> NormalizeCrossword(c)
      [] template = "snakes_ladders" -> NormalizeSnakes(c)

\* hasPlayableContent, which also decides whether a game is mounted.
HasPlayableContent(template, n) ==
    CASE template = "trivia" -> n.questions > 0
      [] template = "memory" -> Len(n.ids) >= 2
      [] template = "fake_news" -> n.fake # <<>>
      [] template = "word_search" -> n.words # <<>>
      [] template = "puzzle" -> Given(n.phrase)
      [] template = "crossword" -> Len(n.words) >= 2
      [] template = "snakes_ladders" -> TRUE

\* How many of the things the author wrote the player gets.  Of the words of a
\* word search nothing is said: its engine leaves out those that occur twice and
\* those it finds no place for, which nobody checks before the level is saved.
Size(template, c) ==
    CASE template \in {"trivia", "snakes_ladders"} -> Len(c.questions)
      [] template = "memory" -> Len(c.pairs)
      [] template = "fake_news" -> Len(c.news)
      [] template = "crossword" -> Len(c.entries)
      [] template = "puzzle" -> c.pieces
Kept(template, n) ==
    CASE template \in {"trivia", "snakes_ladders"} -> n.questions
      [] template = "memory" -> Len(n.ids)
      [] template = "fake_news" -> Len(n.fake)
      [] template = "crossword" -> Len(n.words)
      [] template = "puzzle" -> n.pieces

\* A game is mounted, and it plays all that the author wrote.
PlaysWhole(template, c) ==
    LET n == Normalize(template, c) IN
    /\ HasPlayableContent(template, n)
    /\ template # "word_search" => Kept(template, n) = Size(template, c)
    /\ template = "crossword" => CanBuild(n.words)
=============================================================================
