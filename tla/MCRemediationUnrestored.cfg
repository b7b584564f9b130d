SPECIFICATION Spec
CONSTANTS
  t1 = t1
  t2 = t2
  Templates = {t1, t2}
  NoTemplate = NoTemplate
  Faults = {"lag"}
  MaxAttempts = 1
  MaxVersions = 5
INVARIANT NotRecoveredIsRestored
