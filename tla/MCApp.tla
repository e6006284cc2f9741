-------------------------------- MODULE MCApp --------------------------------
(***************************************************************************)
(* Small contents: for every template one that everybody accepts and the      *)
(* ones on which editor, server and pages might disagree.                     *)
(***************************************************************************)
EXTENDS App

Q(question, options, correct) == [question |-> question, options |-> options, correct |-> correct]
Good == Q("text", <<"text", "text">>, 1)

Trivia1 == [shape |-> "trivia", questions |-> <<Good, Good>>]
\* An index past the options, and a blank option.
Trivia2 == [shape |-> "trivia", questions |-> <<Good, Q("text", <<"text", "text">>, 3)>>]
Trivia3 == [shape |-> "trivia", questions |-> <<Good, Q("text", <<"text", "blank">>, 0)>>]

Pair(id, text) == [id |-> id, content1 |-> "text", content2 |-> text]
Memory1 == [shape |-> "memory", pairs |-> <<Pair("text", "text"), Pair("other", "text")>>]
\* One identifier twice, one blank, and a pair without a text.
Memory2 == [shape |-> "memory", pairs |-> <<Pair("text", "text"), Pair("text", "text"), Pair("blank", "text")>>]
Memory3 == [shape |-> "memory", pairs |-> <<Pair("text", "text"), Pair("other", "empty")>>]

News(title, isFake, reference) ==
    [title |-> title, content |-> "text", isFake |-> isFake, reference |-> reference]
News1 == [shape |-> "fake_news", news |-> <<News("text", TRUE, "text"), News("text", FALSE, "text")>>]
News2 == [shape |-> "fake_news", news |-> <<News("blank", TRUE, "text"), News("text", FALSE, "empty")>>]

Search(words, width, height) ==
    [shape |-> "word_search", words |-> words, width |-> width, height |-> height]
Search1 == Search(<< <<"A", "B">>, <<"B", "A", "C">> >>, 3, 2)
\* A word that is no letters, and a board that is too small.
Search2 == Search(<< <<"A", "B">>, <<"1", "2">> >>, 2, 2)
Search3 == Search(<< <<"A", "B">>, <<"A">> >>, 1, 2)

Puzzle1 == [shape |-> "puzzle", phrase |-> "text", pieces |-> 3]
Puzzle2 == [shape |-> "puzzle", phrase |-> "blank", pieces |-> 3]

Entry(word) == [word |-> word, clue |-> "text"]
Cross(words) == [shape |-> "crossword", entries |-> [i \in DOMAIN words |-> Entry(words[i])]]
Cross1 == Cross(<< <<"A", "N">>, <<"N", "A">>, <<"A", "N", "A">> >>)
\* Two words for the server and one for the pages, and two without a crossing.
Cross2 == Cross(<< <<"A", "N~">>, <<"A", "N">> >>)
Cross3 == Cross(<< <<"A", "B">>, <<"C", "N">> >>)

Link(start, to) == [start |-> start, to |-> to]
Board(width, height, links, questions) ==
    [shape |-> "snakes_ladders", width |-> width, height |-> height, start |-> 1,
     end |-> width * height, links |-> links, questions |-> questions]
Board1 == Board(3, 3, {Link(3, 8), Link(7, 2)}, <<Good>>)
Board2 == Board(2, 2, {}, <<Good>>)
Board3 == Board(3, 2, {}, <<>>)

Everybodys == {Trivia1, Memory1, News1, Search1, Puzzle1, Board1, Board2, Search2, Cross2}
Others == {Cross1, Trivia2, Trivia3, Memory2, Memory3, News2, Search3, Puzzle2, Cross3, Board3}

MCContents == {Trivia1, Trivia3, Memory1, Memory3, News1, Search1, Puzzle1, Cross2, Cross3, Board1}
MCPlayed ==
    {<<c, "official">> : c \in Everybodys} \cup {<<c, "local">> : c \in Others}
        \cup {<<News1, "draft">>, <<Memory1, "draft">>}
MCSnakesLevels == {NormalizeSnakes(c) : c \in {Board1, Board2, Board3}}
=============================================================================
