CONSTANTS
  PeriodSize <- MCPeriodSize
  MaxFrames <- MCMaxFrames
  MaxRequest <- MCMaxRequest
  ReadResults <- MCReadAny
  StereoReadResults <- MCReadOk
SPECIFICATION Spec
INVARIANT TypeOK
PROPERTY FifoRefinement CallReturns
