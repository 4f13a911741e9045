SPECIFICATION MCSpec
CONSTANTS
  KEY_ID <- MCKeys
  Subjects <- MCKeys
  Lines <- MCLines
  SeqSpan = 10
  MaxLines = 6
  TmplSpan = 65536
  nbOfClients = 2
  PartitionerRange = 2
  NbsOfTypes <- MCNbsOfTypes
  MaxRuns = 2
  MaxFailures = 1
CHECK_DEADLOCK FALSE
INVARIANTS
  ClusterIsMaster
  NodeIsItsShare
  ClusterIsDataset
  NodeIndexesAgree
  OneRunIsInBounds
  Balanced
