CONSTANTS
  Rates <- MCRates
  OutMasks <- MCOutMasks
  InMasks <- MCInMasks
  InFlags <- MCInFlags
  MaxCycles <- MCMaxCycles
  MaxRetries <- MCMaxRetries
SPECIFICATION Spec
CHECK_DEADLOCK FALSE
INVARIANT TypeOK
INVARIANT InputBufferSizesAgree
PROPERTY OpenEventuallySucceeds
