SPECIFICATION Spec
CONSTANTS
  People = {"alice"}
  Directory <- MCDirectory
  Partitions = {"p1"}
  Threshold = 1
  NoRow = NoRow
  Kids = {"k1", "k2"}
  NoKid = "no kid"
  Subjects = {"alice", "mallory"}
  Leeway = 1
  Requests = {r1}
  Asks <- KeyAsks
  AllowedOrigins = {}
  ListingTTL = 1
  Cooldown = 1
  Timeout = 1
  NoAsk = NoAsk
PROPERTIES
  KeysAreTheIssuers
