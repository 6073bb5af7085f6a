SPECIFICATION Spec
CONSTANTS
  People <- MCPeople
  Directory <- MCDirectory
  Partitions <- MCPartitions
  Threshold = 1
  NoRow = NoRow
  Calls = {c1, c2, c3}
  Offered <- RaceRequests
  NoRequest = NoRequest
  NoCall = NoCall
  Replicas = {s1}
  ServedBy <- OneReplica
  PoolSize = 4
  MaximumBatch = 2
  MaxInteger = 9
  MayFail = {}
  SeedRequisition <- MCSeedRequisition
  SeedOrder <- Empty
  SeedInvoice <- Empty
SYMMETRY CallSymmetry
INVARIANTS
  TypeOK
  ChainIntact
  MintsAreFresh
  OneWinnerPerDecision
  OneAnswerPerItem
  InvalidParamsWroteNothing
  NoSelfInflictedError
