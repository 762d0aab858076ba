SPECIFICATION FairSpec
CONSTANTS
  Deployments = {{"aws", "k8s"}, {"gcp", "k8s"}}
  Versions <- MCVersions
  Reached <- MCReached
  UserARNs <- MCUsers
  RoleARNs <- MCRoles
  MaxChanges = 1
  MaxFaults = 1
INVARIANT
  TypeOK
PROPERTIES
  LevelsConverge
  FederationConnects
  CollectedRowReturns
