SPECIFICATION FairSpec
CONSTANTS
  Deployments = {d1}
  Workers = {w1, w2}
  NoDeployment = NoDeployment
  MaxAttempts = 2
  BackoffBase = 1
  Cooldown = 1
  AgeCap = 1
  AuditMayFail = TRUE
  MaxIncidents = 2
  MaxGeneration = 1
  MaxRestarts = 0
PROPERTIES
  ClaimReleased
  IncidentEnds
