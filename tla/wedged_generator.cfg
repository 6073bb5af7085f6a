SPECIFICATION Spec
CONSTANTS
  Seeds <- SameNames
  Roles <- Role
  RealmIds <- Usable
INVARIANT RerunRepairs
