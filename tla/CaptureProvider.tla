-------------------------- MODULE CaptureProvider --------------------------
(***************************************************************************)
(* The capture data path of the input stream (src/libaudio/audio_hw.c):   *)
(* the buffer provider get_next_buffer / release_buffer through which the *)
(* resampler pulls frames in read_frames, the direct stereo read of        *)
(* in_read when no resampler is needed, and the standby and restart that  *)
(* free and reallocate in->buffer.  The hardware PCM is stereo and the    *)
(* stream mono: a raw period holds interleaved left and right samples and *)
(* the provider keeps the left ones.  All of it runs under in->lock, so   *)
(* the calls are sequential; the resampler is the consumer that asks for  *)
(* frames and releases exactly the frames it was given.  A read call ends *)
(* by zeroing its buffer when it succeeded and adev->mic_mute is set;     *)
(* adev_set_mic_mute puts the input in standby under in->lock but writes  *)
(* adev->mic_mute after releasing it, so the write can land mid-call.     *)
(***************************************************************************)
EXTENDS Integers, Sequences, FiniteSets

CONSTANTS
  PeriodSize,   \* in->pcm_config->period_size
  MaxFrames,    \* bound on the frames the hardware captures
  MaxRequest,   \* most input frames the resampler needs for one read call
  ReadResults,        \* outcomes of get_next_buffer's pcm_read, within {"ok", "error"}
  StereoReadResults   \* outcomes of in_read's stereo pcm_read, within {"ok", "error"}

ASSUME /\ PeriodSize \in Nat \ {0} /\ MaxFrames \in Nat /\ MaxRequest \in Nat \ {0}
       /\ ReadResults \subseteq {"ok", "error"}
       /\ StereoReadResults \subseteq {"ok", "error"}

VARIABLES
  standby,      \* in->standby
  resampler,    \* in->resampler # NULL: the requested rate is not 44100
  buffer,       \* in->buffer: the raw period, samples 0 .. 2*PeriodSize-1
  frames_in,    \* in->frames_in: frames of the period not yet consumed
  read_status,  \* in->read_status: "ok" or "error"
  pc,           \* "idle"; "reading" in read_frames; "held" between
                \* get_next_buffer and release_buffer
  frame_count,  \* buffer->frame_count handed to the resampler
  next,         \* the hardware: first frame not yet read
  taken,        \* frames the resampler took for the read call in progress
  delivered,    \* history: the frames the caller received, in order
  mic_mute,     \* adev->mic_mute
  mute_req,     \* {}, or {state} that adev_set_mic_mute is about to write
  in_call,      \* adev->mode = AUDIO_MODE_IN_CALL
  need          \* frames the resampler must pull before the call returns

vars == <<standby, resampler, buffer, frames_in, read_status, pc, frame_count,
          next, taken, delivered, mic_mute, mute_req, in_call, need>>

Slots == 0 .. 2 * PeriodSize - 1
NoSample == <<-1, "none">>       \* contents of freshly malloc'd memory

\* A period as pcm_read leaves it: frame a + j \div 2, left then right.
Interleaved(a) == [j \in Slots |-> <<a + j \div 2, IF j % 2 = 0 THEN "L" ELSE "R">>]

\* for (i = 1; i < frames_in; i++) in->buffer[i] = in->buffer[i * 2];
RECURSIVE DiscardRight(_, _)
DiscardRight(b, i) ==
  IF i >= PeriodSize THEN b ELSE DiscardRight([b EXCEPT ![i] = b[2 * i]], i + 1)

\* A view taken from the start of the period instead of its unconsumed tail.
ViewFromHead(b, fi, n) == [i \in 1 .. n |-> b[i - 1]]

\* buffer->i16 = in->buffer + (period_size - frames_in), frame_count frames
View(b, fi, n) == [i \in 1 .. n |-> b[PeriodSize - fi + i - 1]]

\* in_buffer[i] = in->buffer[i * 2] for i < frq
LeftOf(b, frq) == [i \in 1 .. frq |-> b[2 * (i - 1)]]

\* frame_count left as requested, not clipped to frames_in.
MinOfFirst(a, b) == a

\* A request larger than what is left answered with an empty view.
MinOfEmpty(a, b) == IF a > b THEN 0 ELSE a

\* (buffer->frame_count > in->frames_in) ? in->frames_in : buffer->frame_count
MinOf(a, b) == IF a < b THEN a ELSE b

Zero == <<-1, "zero">>

\* if (ret == 0 && adev->mic_mute) memset(buffer, 0, bytes)
Heard(s, mute) == IF mute THEN [i \in DOMAIN s |-> Zero] ELSE s

-----------------------------------------------------------------------------

\* do_in_standby: close the PCM, release the resampler, free in->buffer;
\* frames_in is left as it is.
DoInStandby ==
  /\ standby' = TRUE
  /\ buffer' = [j \in Slots |-> NoSample]

\* in_read entry under in->lock: start_input_stream when in standby
\* (allocate in->buffer, frames_in = 0); the stream is running after it.
StartIfStandby ==
  /\ standby' = FALSE
  /\ buffer' = IF standby THEN [j \in Slots |-> NoSample] ELSE buffer
  /\ frames_in' = IF standby THEN 0 ELSE frames_in

\* in_standby from the framework, under in->lock.
InStandby ==
  /\ pc = "idle"
  /\ ~standby
  /\ DoInStandby
  /\ UNCHANGED <<resampler, frames_in, read_status, pc, frame_count, next,
                 taken, delivered, mic_mute, mute_req, in_call, need>>

\* in_read with a resampler: leave standby if needed, then read_frames
\* lets the resampler pull from the provider until it has the input frames
\* it needs for the frames asked of it.
InReadBegin ==
  /\ pc = "idle"
  /\ resampler
  /\ StartIfStandby
  /\ pc' = "reading"
  /\ taken' = <<>>
  /\ need' \in 1 .. MaxRequest
  /\ UNCHANGED <<resampler, read_status, frame_count, next, delivered,
                 mic_mute, mute_req, in_call>>

\* get_next_buffer(n) called by the resampler: when the period is used up,
\* one pcm_read of a whole period (frames lost to an overrun before it are
\* skipped), keeping the left channel; then a view of at most n frames.  A
\* failed read returns a NULL buffer, the resampler stops, read_frames
\* returns the error, and in_read skips the mic_mute zeroing: the caller
\* keeps the frames the call had taken.
GetNextBuffer ==
  /\ pc = "reading"
  /\ Len(taken) < need
  /\ \E n \in 1 .. need - Len(taken) :
       IF frames_in = 0
       THEN \/ /\ "error" \in ReadResults
               /\ read_status' = "error"
               /\ delivered' = delivered \o taken
               /\ taken' = <<>>
               /\ pc' = "idle"
               /\ UNCHANGED <<buffer, frames_in, frame_count, next>>
            \/ /\ "ok" \in ReadResults
               /\ \E a \in next .. MaxFrames - PeriodSize :
                    /\ buffer' = DiscardRight(Interleaved(a), 1)
                    /\ next' = a + PeriodSize
                    /\ frames_in' = PeriodSize
                    /\ read_status' = "ok"
                    /\ frame_count' = MinOf(n, PeriodSize)
                    /\ pc' = "held"
                    /\ UNCHANGED <<taken, delivered>>
       ELSE /\ frame_count' = MinOf(n, frames_in)
            /\ pc' = "held"
            /\ UNCHANGED <<buffer, frames_in, read_status, next, taken, delivered>>
  /\ UNCHANGED <<standby, resampler, mic_mute, mute_req, in_call, need>>

\* The resampler copies the view, then release_buffer:
\* in->frames_in -= buffer->frame_count.
ReleaseBuffer ==
  /\ pc = "held"
  /\ taken' = taken \o View(buffer, frames_in, frame_count)
  /\ frames_in' = frames_in - frame_count
  /\ pc' = "reading"
  /\ UNCHANGED <<standby, resampler, buffer, read_status, frame_count, next,
                 delivered, mic_mute, mute_req, in_call, need>>

\* A return that hands on the frames whatever adev->mic_mute says.
InReadReturnUnmuted ==
  /\ pc = "reading" /\ Len(taken) = need
  /\ delivered' = delivered \o taken
  /\ taken' = <<>>
  /\ pc' = "idle"
  /\ UNCHANGED <<standby, resampler, buffer, frames_in, read_status,
                 frame_count, next, mic_mute, mute_req, in_call, need>>

\* The resampler has produced all frames: read_frames returns frames_wr,
\* in_read reads adev->mic_mute once and zeroes the whole buffer if set.
InReadReturn ==
  /\ pc = "reading" /\ Len(taken) = need
  /\ delivered' = delivered \o Heard(taken, mic_mute)
  /\ taken' = <<>>
  /\ pc' = "idle"
  /\ UNCHANGED <<standby, resampler, buffer, frames_in, read_status,
                 frame_count, next, mic_mute, mute_req, in_call, need>>

\* in_read without resampler: leave standby if needed, pcm_read of
\* bytes * 2 (frq stereo frames) into in->buffer, then in_buffer[i] =
\* in->buffer[i * 2] whatever pcm_read returned; zeroed when pcm_read
\* succeeded and mic_mute is set.
InReadStereo ==
  /\ pc = "idle"
  /\ ~resampler
  /\ standby' = FALSE
  /\ frames_in' = IF standby THEN 0 ELSE frames_in
  /\ LET b == IF standby THEN [j \in Slots |-> NoSample] ELSE buffer IN
     \E frq \in 1 .. PeriodSize :
       \/ /\ "ok" \in StereoReadResults
          /\ \E a \in next .. MaxFrames - frq :
               LET raw == [j \in Slots |-> IF j < 2 * frq THEN Interleaved(a)[j]
                                           ELSE b[j]]
               IN  /\ buffer' = raw
                   /\ delivered' = delivered \o Heard(LeftOf(raw, frq), mic_mute)
                   /\ next' = a + frq
       \/ /\ "error" \in StereoReadResults
          /\ buffer' = b
          /\ delivered' = delivered \o LeftOf(b, frq)
          /\ UNCHANGED next
  /\ UNCHANGED <<resampler, read_status, pc, frame_count, taken, mic_mute,
                 mute_req, in_call, need>>

\* adev_set_mic_mute(state), first part: with an active input, take
\* in->lock (so no read is in progress) and, unless in call, put the input
\* in standby.
AdevSetMicMute ==
  /\ pc = "idle" /\ mute_req = {}
  /\ \E s \in BOOLEAN : mute_req' = {s}
  /\ IF ~standby /\ ~in_call
     THEN DoInStandby
     ELSE UNCHANGED <<standby, buffer>>
  /\ UNCHANGED <<resampler, frames_in, read_status, pc, frame_count, next,
                 taken, delivered, mic_mute, in_call, need>>

\* adev_set_mic_mute, second part: after in_unlock, adev->mic_mute = state
\* is written without any lock, while a read may be in progress.
AdevWriteMicMute ==
  /\ \E s \in mute_req : mic_mute' = s
  /\ mute_req' = {}
  /\ UNCHANGED <<standby, resampler, buffer, frames_in, read_status, pc,
                 frame_count, next, taken, delivered, in_call, need>>

Init ==
  /\ standby = TRUE
  /\ resampler \in BOOLEAN
  /\ buffer = [j \in Slots |-> NoSample]
  /\ frames_in = 0
  /\ read_status = "ok"
  /\ pc = "idle"
  /\ frame_count = 0
  /\ next = 0
  /\ taken = <<>>
  /\ delivered = <<>>
  /\ mic_mute = FALSE
  /\ mute_req = {}
  /\ in_call \in BOOLEAN
  /\ need = 0

Next ==
  \/ InStandby \/ InReadBegin \/ GetNextBuffer \/ ReleaseBuffer
  \/ InReadReturn \/ InReadStereo \/ AdevSetMicMute \/ AdevWriteMicMute

\* The record thread that called in_read keeps running until the call
\* returns: each pcm_read it waits on completes, with frames or an error.
Fairness ==
  WF_vars(GetNextBuffer) /\ WF_vars(ReleaseBuffer) /\ WF_vars(InReadReturn)

Spec == Init /\ [][Next]_vars /\ Fairness

-----------------------------------------------------------------------------
(* Properties. *)

Samples == {<<f, c>> : f \in -1 .. MaxFrames, c \in {"L", "R", "none", "zero"}}

TypeOK ==
  /\ standby \in BOOLEAN /\ resampler \in BOOLEAN
  /\ buffer \in [Slots -> Samples]
  /\ frames_in \in 0 .. PeriodSize
  /\ read_status \in {"ok", "error"}
  /\ pc \in {"idle", "reading", "held"}
  /\ frame_count \in 0 .. MaxRequest
  /\ next \in 0 .. MaxFrames
  /\ taken \in Seq(Samples) /\ Len(taken) <= need
  /\ mic_mute \in BOOLEAN /\ mute_req \in SUBSET BOOLEAN /\ Cardinality(mute_req) <= 1
  /\ in_call \in BOOLEAN
  /\ need \in 0 .. MaxRequest

\* The frames waiting in the provider: the unconsumed tail of the period.
WaitingFrames ==
  IF standby THEN <<>> ELSE View(buffer, frames_in, frames_in)

Fifo == INSTANCE CaptureFifo WITH fifo <- WaitingFrames, pending <- taken

(* The provider implements the capture FIFO: across hardware reads,      *)
(* partial consumption by the resampler, read errors, standby and        *)
(* restart, the caller receives left-channel frames in capture order,    *)
(* none twice, and the provider reads only when its period is used up.  *)
FifoRefinement == Fifo!Spec

(* Once adev_set_mic_mute(true) has written adev->mic_mute, every read   *)
(* returns a zeroed buffer (spec, mic-mute scenario: "subsequent reads    *)
(* return zeroed buffers"), whatever pcm_read returned: in_read zeroes    *)
(* only when ret == 0, and returns bytes either way.                       *)
MutedReadsSilent ==
  [][mic_mute /\ mute_req = {} =>
       \A i \in Len(delivered) + 1 .. Len(delivered') : delivered'[i] = Zero]_vars

(* Every in_read that has started returns: the resampler's requests are  *)
(* clipped to the frames left in the period, never answered with an      *)
(* empty view while frames remain, so each get_next_buffer /              *)
(* release_buffer pair brings it closer to the frames it needs, and a     *)
(* used-up period is refilled by a pcm_read that succeeds or fails.       *)
CallReturns == pc # "idle" ~> pc = "idle"

=============================================================================
