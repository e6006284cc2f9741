------------------------------ MODULE Authoring ------------------------------
(***************************************************************************)
(* Writing levels: the administrators' page (AdminContentPage.tsx) with its   *)
(* form (LevelMakerForm.tsx) and the server's catalogue behind it             *)
(* (levels/service.go), and the makers' page (MakerPage.tsx) with the store   *)
(* of the browser, 'usbi_local_levels', that the dashboard lists.             *)
(*                                                                         *)
(* The form takes its template and content when it is mounted; the page       *)
(* keeps apart from it which level a save goes to (makerInitialData), and an  *)
(* answer to an older "Editar" may replace that while the form is open.       *)
(***************************************************************************)
EXTENDS LevelForms

CONSTANTS
    Contents,       \* what authors write: raw contents
    LevelIds,       \* ids the server gives to levels
    LocalIds,       \* ids the makers' page gives to drafts
    Nothing,        \* no id
    Imported        \* makerInitialData of an import, which has no id

ASSUME ContentsAssumption == \A c \in Contents : c.shape \in Template /\ WellFormed(c)

VARIABLES
    desk,           \* the administrator's page and form
    levels,         \* the server's catalogue
    maker,          \* the makers' page
    localLevels     \* 'usbi_local_levels', by metadata.id

authoringVars == <<desk, levels, maker, localLevels>>

Question == [question |-> "empty", options |-> <<"empty", "empty">>, correct |-> 0]
Times(n, x) == [i \in 1 .. n |-> x]

\* getDefaults of the registry (a word search is 12 cells wide and high there; the
\* links are what seed 2026 generates).
Defaults(template) ==
    CASE template = "trivia" -> [shape |-> template, questions |-> Times(MinQuestions, Question)]
      [] template = "memory" ->
            [shape |-> template, pairs |-> [i \in 1 .. MinPairs |->
                [id |-> "text", content1 |-> "empty", content2 |-> "empty"]]]
      [] template = "fake_news" ->
            [shape |-> template, news |-> <<[title |-> "empty", content |-> "empty", isFake |-> FALSE,
                                            reference |-> "empty"]>>]
      [] template = "word_search" ->
            [shape |-> template, words |-> << <<>>, <<>> >>, width |-> MaxSide, height |-> MaxSide]
      [] template = "puzzle" -> [shape |-> template, phrase |-> "empty", pieces |-> MinPieces]
      [] template = "crossword" ->
            [shape |-> template, entries |-> Times(2, [word |-> <<>>, clue |-> "empty"])]
      [] template = "snakes_ladders" ->
            [shape |-> template, width |-> 6, height |-> 6, start |-> 1, end |-> 36,
             links |-> {[start |-> 2, to |-> 1], [start |-> 4, to |-> 2], [start |-> 24, to |-> 12],
                        [start |-> 23, to |-> 33], [start |-> 8, to |-> 36], [start |-> 5, to |-> 11]},
             questions |-> Times(MinSnakesQuestions, Question)]

NoContent == [shape |-> "none"]
NoLevel == [state |-> "none", template |-> "none", content |-> NoContent, published |-> FALSE]
Level(template, content) ==
    [state |-> "alive", template |-> template, content |-> content, published |-> FALSE]

----------------------------------------------------------------------------
(* The server.                                                             *)

Alive == {id \in LevelIds : levels[id].state = "alive"}

\* CreateLevel and UpdateLevel, given a request: validation first, and an
\* update only finds what is not archived.  An update leaves is_published.
Stores(request) ==
    /\ ServerAccepts(request.template, request.content)
    /\ \/ /\ request.id = Nothing
          /\ \E id \in LevelIds :
                /\ levels[id].state = "none"
                /\ levels' = [levels EXCEPT ![id] = Level(request.template, request.content)]
       \/ /\ request.id \in Alive
          /\ levels' = [levels EXCEPT ![request.id].template = request.template,
                                    ![request.id].content = request.content]

----------------------------------------------------------------------------
(* The administrator's page.  `levels' is what the page lists: every          *)
(* successful request is followed by loadContent.                            *)

Closed == [shown |-> FALSE, template |-> "none", content |-> NoContent]
Open(template, content) == [shown |-> TRUE, template |-> template, content |-> content]

\* startLevelEdit: the button of the level last asked for is disabled.
StartLevelEdit(id) ==
    /\ ~desk.form.shown
    /\ id \in Alive /\ desk.loadingLevelID # id
    /\ desk' = [desk EXCEPT !.loads = @ \cup {id}, !.loadingLevelID = id]
    /\ UNCHANGED <<levels, maker, localLevels>>

\* Its answer: a form that is open already keeps its fields.
LevelLoaded(id) ==
    /\ id \in desk.loads
    /\ id \in Alive
    /\ desk' = [desk EXCEPT !.loads = @ \ {id}, !.loadingLevelID = Nothing, !.target = id,
                    !.form = IF @.shown THEN @ ELSE Open(levels[id].template, levels[id].content)]
    /\ UNCHANGED <<levels, maker, localLevels>>

EditFails(id) ==
    /\ id \in desk.loads
    /\ desk' = [desk EXCEPT !.loads = @ \ {id}, !.loadingLevelID = Nothing]
    /\ UNCHANGED <<levels, maker, localLevels>>

OpenCreator ==
    /\ ~desk.form.shown
    /\ desk' = [desk EXCEPT !.form = Open("trivia", Defaults("trivia"))]
    /\ UNCHANGED <<levels, maker, localLevels>>

\* onFileSelected: an export names its template 'template_type', and the import
\* reads 'templateType', so that it opens as a memory level.
Import(content) ==
    /\ ~desk.form.shown
    /\ desk' = [desk EXCEPT !.target = Imported, !.form = Open("memory", content)]
    /\ UNCHANGED <<levels, maker, localLevels>>

\* handleTemplateChange; the select is disabled while initialData is there.
ChangeTemplate(template) ==
    /\ desk.form.shown /\ desk.target = Nothing
    /\ desk' = [desk EXCEPT !.form = Open(template, Defaults(template))]
    /\ UNCHANGED <<levels, maker, localLevels>>

\* The fields of the form of the template.
EditContent(content) ==
    /\ desk.form.shown
    /\ FormWrites(desk.form.template, desk.form.content, content)
    /\ desk' = [desk EXCEPT !.form.content = content]
    /\ UNCHANGED <<levels, maker, localLevels>>

\* handleSave and handleMakerSave: a title aside, the content is valid and a
\* section chosen, which an import cannot do: its select is disabled too.
Save ==
    /\ desk.form.shown /\ desk.saving = {}
    /\ MakerAccepts(desk.form.template, desk.form.content)
    /\ desk.target # Imported
    /\ desk' = [desk EXCEPT !.saving =
                    {[id |-> desk.target, template |-> desk.form.template, content |-> desk.form.content]}]
    /\ UNCHANGED <<levels, maker, localLevels>>

SaveAnswered ==
    /\ \E request \in desk.saving : Stores(request)
    /\ desk' = [desk EXCEPT !.saving = {}, !.form = Closed, !.target = Nothing]
    /\ UNCHANGED <<maker, localLevels>>

\* Refused, or the request was lost: the form stays open.
SaveFails ==
    /\ desk.saving # {}
    /\ desk' = [desk EXCEPT !.saving = {}]
    /\ UNCHANGED <<levels, maker, localLevels>>

\* The server stored it and the answer was lost: another save stores it again.
SaveAnswerLost ==
    /\ \E request \in desk.saving : Stores(request)
    /\ desk' = [desk EXCEPT !.saving = {}]
    /\ UNCHANGED <<maker, localLevels>>

Cancel ==
    /\ desk.form.shown /\ desk.saving = {}
    /\ desk' = [desk EXCEPT !.form = Closed, !.target = Nothing]
    /\ UNCHANGED <<levels, maker, localLevels>>

\* publishLevel and unpublishLevel; neither looks at the content.
SetPublished(id, published) ==
    /\ ~desk.form.shown /\ id \in Alive
    /\ levels[id].published # published
    /\ levels' = [levels EXCEPT ![id].published = published]
    /\ UNCHANGED <<desk, maker, localLevels>>

\* archiveLevel, and archiveSection, which archives all of its levels.
ArchiveLevels(ids) ==
    /\ ~desk.form.shown /\ ids # {}
    /\ levels' = [id \in LevelIds |-> IF id \in ids THEN [NoLevel EXCEPT !.state = "archived"] ELSE levels[id]]
    /\ UNCHANGED <<desk, maker, localLevels>>

----------------------------------------------------------------------------
(* The makers' page and the dashboard's list.                                *)

\* handleTemplateChange
MakerTemplate(template) ==
    /\ maker.id # Nothing
    /\ maker' = [maker EXCEPT !.template = template, !.content = Defaults(template)]
    /\ UNCHANGED <<desk, levels, localLevels>>

MakerEdit(content) ==
    /\ maker.id # Nothing
    /\ FormWrites(maker.template, maker.content, content)
    /\ maker' = [maker EXCEPT !.content = content]
    /\ UNCHANGED <<desk, levels, localLevels>>

\* saveLocal: the page's draft replaces what it saved before.
SaveLocal ==
    /\ maker.id # Nothing
    /\ MakerAccepts(maker.template, maker.content)
    /\ localLevels' = [localLevels EXCEPT ![maker.id] = Level(maker.template, maker.content)]
    /\ UNCHANGED <<desk, levels, maker>>

\* Opening the page takes a new id.
OpenMaker ==
    /\ \E id \in LocalIds :
          /\ localLevels[id] = NoLevel /\ maker.id # id
          /\ maker' = [id |-> id, template |-> "trivia", content |-> Defaults("trivia")]
    /\ UNCHANGED <<desk, levels, localLevels>>

\* processImportedJSON: a file with an id, whatever its content.
ImportLocal(id, content) ==
    /\ localLevels' = [localLevels EXCEPT ![id] = Level(content.shape, content)]
    /\ UNCHANGED <<desk, levels, maker>>

\* handleDelete
DeleteLocal(id) ==
    /\ localLevels[id] # NoLevel
    /\ localLevels' = [localLevels EXCEPT ![id] = NoLevel]
    /\ UNCHANGED <<desk, levels, maker>>

----------------------------------------------------------------------------

NobodyWrites ==
    /\ desk = [form |-> Closed, target |-> Nothing, loads |-> {}, loadingLevelID |-> Nothing,
               saving |-> {}]
    /\ levels = [id \in LevelIds |-> NoLevel]
    /\ maker = [id |-> Nothing, template |-> "none", content |-> NoContent]
    /\ localLevels = [id \in LocalIds |-> NoLevel]

AdminStep ==
    \/ \E id \in LevelIds : StartLevelEdit(id) \/ LevelLoaded(id) \/ EditFails(id)
    \/ OpenCreator \/ Save \/ SaveAnswered \/ SaveFails \/ SaveAnswerLost \/ Cancel
    \/ \E c \in Contents : Import(c) \/ EditContent(c)
    \/ \E t \in Template : ChangeTemplate(t)
    \/ \E id \in LevelIds, b \in BOOLEAN : SetPublished(id, b)
    \/ \E ids \in {Alive} \cup {{id} : id \in Alive} : ArchiveLevels(ids)

MakerStep ==
    \/ \E t \in Template : MakerTemplate(t)
    \/ \E c \in Contents : MakerEdit(c)
    \/ SaveLocal \/ OpenMaker
    \/ \E id \in LocalIds, c \in Contents : ImportLocal(id, c)
    \/ \E id \in LocalIds : DeleteLocal(id)

----------------------------------------------------------------------------

DeskOK ==
    /\ desk.target \in LevelIds \cup {Nothing, Imported}
    /\ desk.loads \subseteq LevelIds
    /\ desk.form.shown => desk.form.template \in Template
    /\ ~desk.form.shown => desk.target = Nothing

\* Whatever is in the catalogue, published or about to be, mounts its game, and
\* that with everything its author wrote, however saves, imports, late answers
\* and lost ones are mixed; but a word search may do without some of its words,
\* whose places nobody looks for before it is played.  It takes both checks: the server's validators ask for what the
\* pages' normalizers keep, where the editor's schemas ask for less; but the words
\* that the server connects are not the page's where N~ is a letter, and only the
\* editor lays out those that will be played.
CatalogueIsPlayable ==
    \A id \in Alive : PlaysWhole(levels[id].template, levels[id].content)
=============================================================================
