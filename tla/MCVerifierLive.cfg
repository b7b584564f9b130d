SPECIFICATION FairSpec
CONSTANTS
  u0 = u0
  u1 = u1
  UIDs = {u0, u1}
  Names = {1, 2}
  OriginalUID = u0
  OriginalName = 1
  NoUID = NoUID
  ReadinessTimeout = 1
  Window = 2
  PollInterval = 2
  MaxLate = 1
  MaxRestarts = 1
  Kinds = {"owned"}
  MayCancel = TRUE
  Lag = TRUE
  ReadsFail = TRUE
INVARIANT RecoveredWasStable
INVARIANT VerifyBounded
PROPERTY VerifyReturns
