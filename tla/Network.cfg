SPECIFICATION FairNetworkSpec
CONSTANTS
  nbOfClients = 2
  Results <- MCResults
  BufSize = 2
  SizeUnits = 2
  SizeSpan = 16
  Capacity = 2
  MaxTries = 2
  MaxResults = 2
  MaxRounds = 2
  MaxCrashes = 1
CHECK_DEADLOCK FALSE
INVARIANTS
  ResultsAreAnswers
  QueriesArriveWhole
  ConnectionsAreClean
PROPERTIES
  StartReturns
  EveryRoundEnds
  NodesEndWithMaster
