SPECIFICATION FairSpec
CONSTANTS
  a = a
  s = s
  v = v
  w = w
  nowhere = nowhere
  Variables = {a, s, v, w}
  UnknownURIs = {nowhere}
  KEY_ID <- MCKeys
  Lines <- MCLines
  ProvQueries <- MCProvQueries
  MainQueries <- MCMainQueries
  SeqSpan = 100
  MaxLines = 4
  TmplSpan = 65536
CHECK_DEADLOCK FALSE
INVARIANTS
  TypeOK
  InvertedIndexExact
  ProvIdxExact
  OneGroupPerProvenance
  TemplatesWellFormed
  LinesCovered
  StoreIsDataset
  RepetitionsKept
  AnswerIsReference
  ProvUrisAreReference
  ProvenanceSuffices
  NothingFromOutside
PROPERTIES
  RefinesQuadStore
  EveryRunAnswers
