SPECIFICATION Spec
CONSTANTS
  Seeds <- Authored
  Roles <- Role
  RealmIds <- Usable
INVARIANTS TypeOK ShippedSeedsComeUp OneCentrePerPerson EveryUserResolves
