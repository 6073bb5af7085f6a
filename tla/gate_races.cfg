SPECIFICATION FairSpec
CONSTANTS
  People = {"alice"}
  Directory <- MCDirectory
  Partitions = {"p1"}
  Threshold = 1
  NoRow = NoRow
  Kids = {"k1"}
  NoKid = "no kid"
  Subjects = {"alice", "mallory"}
  Leeway = 1
  Requests = {r1, r2}
  Asks <- FewAsks
  AllowedOrigins = {}
  ListingTTL = 2
  Cooldown = 1
  Timeout = 1
  NoAsk = NoAsk
INVARIANTS
  ListingDiesWithItsToken
  AbandonedByItsClient
PROPERTIES
  EveryRequestIsAnswered
