SPECIFICATION Spec
CONSTANTS
  Deployments = {d1}
  Workers = {w1}
  NoDeployment = NoDeployment
  MaxAttempts = 3
  BackoffBase = 1
  Cooldown = 3
  AgeCap = 4
  AuditMayFail = FALSE
  MaxIncidents = 2
  MaxGeneration = 3
  MaxRestarts = 1
INVARIANTS
  TypeOK
  ClaimKeepsIncident
  ClaimExclusive
  BudgetHolds
  EvidenceFrozen
  AuditTruthful
  EndedIsLogged
PROPERTIES
  BackoffRespected
  ExhaustedSticky
  ImplementsPromise
