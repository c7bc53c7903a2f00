------------------------- MODULE MCCaptureProvider -------------------------
EXTENDS CaptureProvider

\* Three frames a period, so the in-place compaction moves samples twice.
MCPeriodSize == 3
\* Three periods of hardware frames.
MCMaxFrames == 9
\* Requests up to one frame more than a period.
MCMaxRequest == 4
MCReadOk == {"ok"}
MCReadAny == {"ok", "error"}
=============================================================================
