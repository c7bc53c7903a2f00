CONSTANTS
  PeriodSize <- MCPeriodSize
  Quantum <- MCQuantum
  Garbage <- MCGarbage
  MaxWritten <- MCMaxWritten
SPECIFICATION Spec
INVARIANT ThresholdWithinBuffer
