SPECIFICATION FairSpec
CONSTANTS
  People <- MCPeople
  Directory <- MCDirectory
  Partitions <- MCPartitions
  Threshold = 1
  NoRow = NoRow
  Calls = {"c1", "c2", "c3"}
  Offered <- FaultRequests
  NoRequest = NoRequest
  NoCall = NoCall
  Replicas = {"s1", "s2"}
  ServedBy <- TwoReplicas
  PoolSize = 1
  MaximumBatch = 2
  MaxInteger = 4
  MayFail = {"c1", "c2", "c3"}
  SeedRequisition <- FaultSeedRequisition
  SeedOrder <- FaultSeedOrder
  SeedInvoice <- Empty
INVARIANTS
  ChainIntact
  OneWinnerPerDecision
PROPERTIES
  DecisionsAreFinal
  EveryCallIsAnswered
