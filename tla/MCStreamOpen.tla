--------------------------- MODULE MCStreamOpen ----------------------------
EXTENDS StreamOpen

\* A voice rate, the hardware rate and a rate the hardware does not run at.
MCRates == {16000, 44100, 48000}
MCOutMasks == {"stereo", "mono"}
MCInMasks == {"mono", "stereo"}
MCInFlags == {"none", "fast"}
\* Two cycles: a stream is reopened after its close.
MCMaxCycles == 2
\* AudioFlinger retries once with the suggested configuration.
MCMaxRetries == 1
=============================================================================
