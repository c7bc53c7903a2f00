CONSTANTS
  PeriodSize <- MCPeriodSize
  Quantum <- MCQuantum
  Garbage <- MCGarbage
  MaxWritten <- MCMaxWritten
SPECIFICATION Spec
INVARIANT TypeOK
INVARIANT SleepBounded
PROPERTY PositionMonotonic
PROPERTY WriteReturns
