SPECIFICATION FairSpec
CONSTANTS
  Deployments = {{"gcp"}}
  Versions <- MCVersions
  Reached <- MCReached
  UserARNs <- MCUsers
  RoleARNs <- MCRoles
  MaxChanges = 0
  MaxFaults = 0
PROPERTY
  CriticalityIsKept
