SPECIFICATION TextSpec
CONSTANTS
  KEY_ID <- TextKeys
  SeqSpan = 100
  TmplSpan = 65536
  Words <- TextWords
  SubTypes <- MCSubTypes
  Degrees <- MCDegrees
  nbOfNodes = 2
  LineOrders <- TextOrders
  Datasets <- TextDatasets
INVARIANT SomeTextHolds
