SPECIFICATION Spec
CONSTANTS
  People = {"alice"}
  Directory <- MCDirectory
  Partitions = {"p1"}
  Threshold = 1
  NoRow = NoRow
  Kids = {"k1"}
  NoKid = "no kid"
  Subjects = {"alice", "mallory"}
  Leeway = 1
  Requests = {r1}
  Asks <- OneAtATime
  AllowedOrigins = {}
  ListingTTL = 1
  Cooldown = 1
  Timeout = 1
  NoAsk = NoAsk
INVARIANTS
  TypeOK
  OnlyDiscoveryAnswersStrangers
  GatesLeaveNothingToFail
  OnlyOurTokensCostAFetch
PROPERTIES
  AdmissionSpec
  CauseIsTheFirst
