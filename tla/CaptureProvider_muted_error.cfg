CONSTANTS
  PeriodSize <- MCPeriodSize
  MaxFrames <- MCMaxFrames
  MaxRequest <- MCMaxRequest
  ReadResults <- MCReadAny
  StereoReadResults <- MCReadAny
SPECIFICATION Spec
PROPERTY MutedReadsSilent
