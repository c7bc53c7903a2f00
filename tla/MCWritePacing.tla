--------------------------- MODULE MCWritePacing ---------------------------
EXTENDS WritePacing

MCPeriodSize == 1024          \* OUT_PERIOD_SIZE
MCQuantum == 256              \* a quarter period, the smoothing step
\* An uninitialized int: far below zero, zero, and above the buffer size.
MCGarbage == {-2100, 0, 5000}
MCMaxWritten == 6 * 1024      \* six periods: start, underrun and restart
=============================================================================
