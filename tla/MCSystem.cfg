SPECIFICATION MCSpec
CONSTANTS
  Dep = Dep
  Worker = Worker
  NoDeployment = NoDeployment
  Budget = 2
  BackoffBase = 1
  Cooldown = 1
  AgeCap = 1
  MaxIncidents = 2
  MaxRestarts = 1
  t1 = t1
  t2 = t2
  Templates = {t1, t2}
  NoTemplate = NoTemplate
  Faults = {"crash", "lag"}
  MaxTries = 2
  MaxVersions = 3
INVARIANT ClaimCoversRemediation
INVARIANT RecoveredIsLogged
PROPERTY ImplementsIncident
