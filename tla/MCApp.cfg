SPECIFICATION Spec
CONSTANTS
  MinQuestions = 2
  MinPairs = 2
  MinSide = 2
  MaxSide = 3
  MinPieces = 3
  MinSnakesQuestions = 1
  MaxCrosswordWords = 3
  Letter = {"A", "B", "C", "N"}
  SnakesLevels <- MCSnakesLevels
  Contents <- MCContents
  LevelIds = {A, B}
  LocalIds = {draft}
  Nothing = Nothing
  Imported = Imported
  Played <- MCPlayed
  TimePerQuestion = 1
  MaxReports = 2
  MaxMoves = 4
  Filler = {"Z"}
  Typed = {"A", "N"}
  MaxRefetches = 1
INVARIANTS
  TypeOK
  CatalogueIsPlayable
  ReportsAreEarned
  OneSubmission
  ShellReleased
  AiOnlyInTurn
  OnBoard
  OneClock
  Findable
  ReadsAsWords
PROPERTIES
  LockedStays
  OverIsPosted
CHECK_DEADLOCK FALSE
