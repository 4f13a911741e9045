SPECIFICATION MCSpec
CONSTANTS
  KEY_ID <- MCKeys
  Lines <- MCLines
  Words <- MCWords
  Filters <- MCFilters
  Queries = {"w04"}
  SeqSpan = 100
  MaxLines = 15
  TmplSpan = 65536
CHECK_DEADLOCK FALSE
INVARIANT LampionsAreLinked
