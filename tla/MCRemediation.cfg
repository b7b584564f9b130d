SPECIFICATION FairSpec
CONSTANTS
  t1 = t1
  t2 = t2
  Templates = {t1, t2}
  NoTemplate = NoTemplate
  Faults = {"encode", "sync", "read", "write", "lost", "cancel", "crash", "lag"}
  MaxAttempts = 2
  MaxVersions = 5
INVARIANT TypeOK
INVARIANT WriteAhead
INVARIANT RolledBackIsRestored
INVARIANT MovesBounded
INVARIANT UndoLeavesTemplate
PROPERTY LifecycleHolds
PROPERTY NoLostUpdate
PROPERTY AttemptEnds
