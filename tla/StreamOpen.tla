---------------------------- MODULE StreamOpen -----------------------------
(***************************************************************************)
(* Opening and closing the device and its streams                        *)
(* (src/libaudio/audio_hw.c): adev_open and adev_close around              *)
(* adev_open_output_stream, adev_open_input_stream, their close calls,    *)
(* and the buffer sizes the framework sizes its transfers by              *)
(* (adev_get_input_buffer_size, in_get_buffer_size).  An open with an     *)
(* unsupported configuration fails with -EINVAL and writes the            *)
(* configuration the HAL accepts back into *config; the framework then    *)
(* retries with it.  The heap is counted per stream type, so a stream     *)
(* allocated and never handed out shows up as a leak.                     *)
(***************************************************************************)
EXTENDS Integers

CONSTANTS
  Rates,        \* sample rates the framework asks for
  OutMasks,     \* output channel masks it asks for, from {"stereo", "mono"}
  InMasks,      \* input channel masks it asks for, from {"mono", "stereo"}
  InFlags,      \* input flags, from {"none", "fast"}
  MaxCycles,    \* bound on the open cycles the framework starts per stream
  MaxRetries    \* retries with the written-back configuration

OUT_SAMPLING_RATE == 44100
IN_SAMPLING_RATE == 44100
IN_PERIOD_SIZE == 1024
IN_PERIOD_SIZE_LOW_LATENCY == 512

VARIABLES
  adev,  \* "none", or "open" between adev_open and adev_close
  outPhase, outReq, outAsked, outStream, outAllocs, outTries, outCycles,
  inPhase, inReq, inStream, inAllocs, inTries, inCycles

outVars == <<outPhase, outReq, outAsked, outStream, outAllocs, outTries, outCycles>>
inVars == <<inPhase, inReq, inStream, inAllocs, inTries, inCycles>>
vars == <<adev, outVars, inVars>>

None == [rate |-> 0, period |-> 0]

ChannelCount(mask) == IF mask = "stereo" THEN 2 ELSE 1

\* A wrong rounding: one frame too many when size is a multiple of 16.
RoundUp16Over(size) == ((size + 16) \div 16) * 16

\* ((size + 15) / 16) * 16: the closest multiple of 16 frames above size.
RoundUp16(size) == ((size + 15) \div 16) * 16

\* adev_get_input_buffer_size: from pcm_config_in and the asked config.
AdevGetInputBufferSize(c) ==
  RoundUp16((IN_PERIOD_SIZE * c.rate) \div IN_SAMPLING_RATE)
    * ChannelCount(c.mask) * 2

\* pcm_config_in and pcm_config_in_low_latency, by the period size that
\* tells them apart (both are stereo at IN_SAMPLING_RATE).
PcmConfigIn == [period_size |-> IN_PERIOD_SIZE]
PcmConfigInLowLatency == [period_size |-> IN_PERIOD_SIZE_LOW_LATENCY]

\* in->pcm_config as adev_open_input_stream chooses it.
InPcmConfig(req) ==
  IF req.rate = IN_SAMPLING_RATE /\ req.flags = "fast"
  THEN PcmConfigInLowLatency ELSE PcmConfigIn

\* in_get_buffer_size: from the stream's own pcm_config, mono 16-bit frames.
InGetBufferSize(s) == RoundUp16((s.period * s.rate) \div IN_SAMPLING_RATE) * 2

-----------------------------------------------------------------------------
(* The device. *)

\* adev_open: only AUDIO_HARDWARE_INTERFACE is served (any other name is
\* -EINVAL and allocates nothing); calloc the device, install the entry
\* points, no routing, mode NORMAL.
AdevOpen ==
  /\ adev = "none"
  /\ adev' = "open"
  /\ UNCHANGED <<outVars, inVars>>

\* adev_close: free the device.  The framework closes the streams first.
AdevClose ==
  /\ adev = "open"
  /\ outPhase = "closed" /\ inPhase = "closed"
  /\ adev' = "none"
  /\ UNCHANGED <<outVars, inVars>>

-----------------------------------------------------------------------------
(* The framework starts an open cycle with a configuration of its choice. *)

RequestOutput ==
  /\ adev = "open"
  /\ outPhase = "closed" /\ outCycles < MaxCycles
  /\ \E r \in Rates, m \in OutMasks :
       /\ outReq' = [rate |-> r, mask |-> m]
       /\ outAsked' = [rate |-> r, mask |-> m]
  /\ outPhase' = "opening" /\ outTries' = 0 /\ outCycles' = outCycles + 1
  /\ UNCHANGED <<adev, outStream, outAllocs, inVars>>

RequestInput ==
  /\ adev = "open"
  /\ inPhase = "closed" /\ inCycles < MaxCycles
  /\ \E r \in Rates, m \in InMasks, f \in InFlags :
       inReq' = [rate |-> r, mask |-> m, flags |-> f]
  /\ inPhase' = "opening" /\ inTries' = 0 /\ inCycles' = inCycles + 1
  /\ UNCHANGED <<adev, inStream, inAllocs, outVars>>

\* After -EINVAL the framework retries with *config as the HAL left it,
\* up to MaxRetries times, then gives up.
AfterReject(tries) ==
  IF tries < MaxRetries THEN "opening" ELSE "closed"

\* The write-back of a rejected output open keeps the asked rate.
OutWriteBackMaskOnly(c) == [c EXCEPT !.mask = "stereo"]

\* config->channel_mask = STEREO; config->sample_rate = 44100
OutWriteBack(c) == [c EXCEPT !.mask = "stereo", !.rate = OUT_SAMPLING_RATE]

\* adev_open_output_stream: calloc first, then the check that returns
\* -EINVAL without freeing; on success the stream starts in standby at
\* the hardware rate.
AdevOpenOutputStream ==
  /\ outPhase = "opening"
  /\ outAllocs' = outAllocs + 1
  /\ IF outReq.mask # "stereo" \/ outReq.rate # OUT_SAMPLING_RATE
     THEN /\ outReq' = OutWriteBack(outReq)
          /\ outPhase' = AfterReject(outTries)
          /\ outTries' = outTries + 1
          /\ UNCHANGED outStream
     ELSE /\ outStream' = [rate |-> OUT_SAMPLING_RATE, period |-> 0]
          /\ outPhase' = "open"
          /\ UNCHANGED <<outReq, outTries>>
  /\ UNCHANGED <<adev, outAsked, outCycles, inVars>>

\* adev_close_output_stream: out_standby, then free.
AdevCloseOutputStream ==
  /\ outPhase = "open"
  /\ outAllocs' = outAllocs - 1
  /\ outStream' = None
  /\ outPhase' = "closed"
  /\ UNCHANGED <<adev, outReq, outAsked, outTries, outCycles, inVars>>

\* adev_open_input_stream: the mask check comes before calloc; any rate
\* is taken as requested_rate; FAST at 44100 selects the low-latency config.
AdevOpenInputStream ==
  /\ inPhase = "opening"
  /\ IF inReq.mask # "mono"
     THEN /\ inReq' = [inReq EXCEPT !.mask = "mono"]
          /\ inPhase' = AfterReject(inTries)
          /\ inTries' = inTries + 1
          /\ UNCHANGED <<inStream, inAllocs>>
     ELSE /\ inAllocs' = inAllocs + 1
          /\ inStream' =
               [rate |-> inReq.rate,
                period |-> InPcmConfig(inReq).period_size]
          /\ inPhase' = "open"
          /\ UNCHANGED <<inReq, inTries>>
  /\ UNCHANGED <<adev, inCycles, outVars>>

\* A close that drops the stream without freeing it.
AdevCloseInputStreamNoFree ==
  /\ inPhase = "open"
  /\ inStream' = None
  /\ inPhase' = "closed"
  /\ UNCHANGED <<adev, inAllocs, inReq, inTries, inCycles, outVars>>

\* adev_close_input_stream: in_standby, then free.
AdevCloseInputStream ==
  /\ inPhase = "open"
  /\ inAllocs' = inAllocs - 1
  /\ inStream' = None
  /\ inPhase' = "closed"
  /\ UNCHANGED <<adev, inReq, inTries, inCycles, outVars>>

Init ==
  /\ adev = "none"
  /\ outPhase = "closed" /\ inPhase = "closed"
  /\ outReq = [rate |-> 0, mask |-> "stereo"] /\ outAsked = outReq
  /\ inReq = [rate |-> 0, mask |-> "mono", flags |-> "none"]
  /\ outStream = None /\ inStream = None
  /\ outAllocs = 0 /\ inAllocs = 0
  /\ outTries = 0 /\ inTries = 0
  /\ outCycles = 0 /\ inCycles = 0

Next ==
  \/ AdevOpen \/ AdevClose
  \/ RequestOutput \/ AdevOpenOutputStream \/ AdevCloseOutputStream
  \/ RequestInput \/ AdevOpenInputStream \/ AdevCloseInputStream

\* The framework keeps calling an open it has started (its retry with the
\* written-back configuration); requesting and closing are its choice.
Fairness == WF_vars(AdevOpenOutputStream) /\ WF_vars(AdevOpenInputStream)

Spec == Init /\ [][Next]_vars /\ Fairness

-----------------------------------------------------------------------------
(* Properties. *)

TypeOK ==
  /\ adev \in {"none", "open"}
  /\ outPhase \in {"closed", "opening", "open"}
  /\ inPhase \in {"closed", "opening", "open"}
  /\ outReq \in [rate : Rates \cup {0, OUT_SAMPLING_RATE}, mask : OutMasks \cup {"stereo"}]
  /\ inReq \in [rate : Rates \cup {0}, mask : InMasks \cup {"mono"}, flags : InFlags \cup {"none"}]
  /\ outAllocs \in 0 .. MaxCycles * (MaxRetries + 1)
  /\ inAllocs \in 0 .. 1
  /\ outTries \in 0 .. MaxRetries + 1 /\ inTries \in 0 .. MaxRetries + 1
  /\ outCycles \in 0 .. MaxCycles /\ inCycles \in 0 .. MaxCycles

(* An open the framework starts succeeds, at the latest on its retry     *)
(* with the configuration the HAL wrote back after -EINVAL: the          *)
(* write-back of adev_open_output_stream and adev_open_input_stream is   *)
(* a configuration the same call accepts.                                *)
OpenEventuallySucceeds ==
  /\ outPhase = "opening" ~> outPhase = "open"
  /\ inPhase = "opening" ~> inPhase = "open"

(* The sizes the framework transfers by agree with the stream: the size  *)
(* in_get_buffer_size reports never exceeds what adev_get_input_buffer_  *)
(* size told the framework before the open, and without a resampler it  *)
(* is exactly one period of mono frames, so in_read's stereo pcm_read of *)
(* twice the bytes fills in->buffer (one stereo period) and no more.     *)
InputBufferSizesAgree ==
  inPhase = "open" =>
    /\ InGetBufferSize(inStream) <= AdevGetInputBufferSize(inReq)
    /\ inStream.rate = IN_SAMPLING_RATE =>
         InGetBufferSize(inStream) * 2 = inStream.period * 4

=============================================================================
