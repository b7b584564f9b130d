SPECIFICATION Spec
CONSTANTS
  Deployments = {d1}
  Workers = {w1}
  NoDeployment = NoDeployment
  MaxAttempts = 2
  BackoffBase = 1
  Cooldown = 2
  AgeCap = 2
  AuditMayFail = FALSE
  MaxIncidents = 3
  MaxGeneration = 3
  MaxRestarts = 0
PROPERTIES
  OnlyEditRearms
