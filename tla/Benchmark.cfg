SPECIFICATION MCSpec
CONSTANTS
  KEY_ID <- MCKeys
  Lines <- MCLines
  Words <- MCWords
  Filters <- MCFilters
  Queries = {"q01", "q02", "q03", "q04", "q05", "q06", "q07", "q08", "q09", "q10",
             "w01", "w02", "w03", "w04", "w05", "w06", "w07"}
  SeqSpan = 100
  MaxLines = 15
  TmplSpan = 65536
CHECK_DEADLOCK FALSE
INVARIANTS
  AnswersAreSolutions
  SolutionsAreAnswered
  NamedContextsSuffice
  SelectedSoFar
  CopyAnswersAlike
