SPECIFICATION ProviderFairSpec
CONSTANTS
  None = None
  Contents = {a, b}
  Pin = a
  RivalPins = {None, a}
  BufferSize = 1
  MaxCrashes = 1
  Requests = {r1, r2}
  Streamed = {r1}
  Nobody = Nobody
  MaxTokens = 1
  OutSize = 1
INVARIANT ProviderTypeOK
INVARIANT WeightsAsPinned
INVARIANT NoEngineLeft
INVARIANT ContextOwned
INVARIANT AnswersTrue
PROPERTY ImplementsDepStream
PROPERTY StopEnds
PROPERTY ExitNoticed
PROPERTY Answered
