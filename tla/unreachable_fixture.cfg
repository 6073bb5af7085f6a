SPECIFICATION Spec
CONSTANTS
  People = {"alice", "bob"}
  Directory <- MCDirectory
  Partitions = {"c1"}
  Threshold = 5000
  NoRow = NoRow
  Base = 3
  Width = 2
  Vendors = {"v1"}
  AmountLimit = 200
  Entries <- MCEntries
  MaxRows = 1
  MaxMints = 1
INVARIANTS
  EveryFixtureIsReachable
