SPECIFICATION MCFairSpec
CONSTANTS
  Inputs <- MCInputs
  Responses <- MCResponses
  Padded <- MCPadded
  Providers = {"anthropic"}
  NoResult = NoResult
INVARIANT RefusedTakesNoAction
