SPECIFICATION Spec
CONSTANTS
  u0 = u0
  u1 = u1
  u2 = u2
  UIDs = {u0, u1, u2}
  Names = {1, 2, 3}
  OriginalUID = u0
  OriginalName = 1
  NoUID = NoUID
  ReadinessTimeout = 1
  Window = 2
  PollInterval = 1
  MaxLate = 0
  MaxRestarts = 1
  Kinds = {"owned", "foreign", "renamed"}
  MayCancel = FALSE
  Lag = FALSE
  ReadsFail = FALSE
SYMMETRY PodSymmetry
INVARIANT TypeOK
INVARIANT RecoveredWasStable
