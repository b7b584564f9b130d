SPECIFICATION MCFairSpec
CONSTANTS
  Inputs <- MCInputs
  Responses <- MCResponses
  Padded <- MCPadded
  Providers = {"anthropic", "mistral", "mock", "none"}
  NoResult = NoResult
INVARIANT TypeOK
INVARIANT ActionSupported
INVARIANT TargetIsIncident
INVARIANT NeverRejected
INVARIANT MockAgreesWithGuard
INVARIANT BlindEscalates
PROPERTY Answered
