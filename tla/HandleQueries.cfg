SPECIFICATION Spec
CONSTANTS
  KEY_ID <- MCKeys
  SeqSpan = 100
  TmplSpan = 65536
  Words <- MCWords
  SubTypes <- MCSubTypes
  Degrees <- MCDegrees
  nbOfNodes = 2
  LineOrders <- MCLineOrders
  Datasets <- MCDatasets
INVARIANTS
  AnswersAreSolutions
  SolutionsAreAnswered
  AgreedColumns
  LocalJoinsAreSound
  MoleculesNest
