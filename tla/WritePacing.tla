---------------------------- MODULE WritePacing ----------------------------
(***************************************************************************)
(* The data path of out_write (src/libaudio/audio_hw.c 857-975) for the    *)
(* one output stream, with the ALSA playback buffer it feeds and           *)
(* out_get_presentation_position: the buffer regime chosen from the       *)
(* screen state and the input registration, the pacing loop that sleeps   *)
(* while the kernel holds more than cur_write_threshold frames, the       *)
(* smoothing of cur_write_threshold, pcm_write and the written counter.   *)
(* The locking of out_write is the subject of AudioHal; here the calls of *)
(* the playback thread run under out->lock one at a time, while the       *)
(* hardware plays the buffer down concurrently.                           *)
(***************************************************************************)
EXTENDS Integers

CONSTANTS
  PeriodSize,   \* pcm_config_out.period_size (OUT_PERIOD_SIZE)
  Quantum,      \* the hardware pointer is observed in steps of Quantum frames
  Garbage,      \* values an uninitialized int local may hold
  MaxWritten    \* bound on out->written, in frames

\* period_size is a size_t of 32 bits; the conversions below rely on it
\* dividing 2^32.
ASSUME /\ PeriodSize \in {2^i : i \in 4..12}
       /\ Quantum \in Nat \ {0} /\ (PeriodSize \div 4) % Quantum = 0
       /\ Garbage \subseteq Int /\ Garbage # {}
       /\ MaxWritten \in Nat

OUT_SHORT_PERIOD_COUNT == 2
OUT_LONG_PERIOD_COUNT == 4
OUT_SAMPLING_RATE == 44100
MIN_WRITE_SLEEP_US == 2000
MAX_WRITE_SLEEP_US ==
  (PeriodSize * OUT_SHORT_PERIOD_COUNT * 1000000) \div OUT_SAMPLING_RATE

\* pcm_config_out: period_count is the long count; start_threshold two periods.
BufferSize == PeriodSize * OUT_LONG_PERIOD_COUNT

\* A start threshold one period past the end of the buffer.
StartThresholdPastBuffer == PeriodSize * (OUT_LONG_PERIOD_COUNT + 1)

StartThreshold == PeriodSize * OUT_SHORT_PERIOD_COUNT

\* The kernel buffer fill levels the model distinguishes.
Levels == {i * Quantum : i \in 0 .. BufferSize \div Quantum}

VARIABLES
  standby,              \* out->standby
  kstate,               \* the PCM: "closed", "setup" (opened or prepared,
                        \* not started), "running", "xrun"
  queued,               \* frames in the kernel buffer (buffer size - avail)
  written,              \* out->written
  buffer_type,          \* out->buffer_type
  write_threshold,      \* out->write_threshold
  cur_write_threshold,  \* out->cur_write_threshold
  screen_off,           \* adev->screen_off
  active_in,            \* adev->active_in # NULL
  pc,                   \* "idle", "pace" (sleep loop), "write" (pcm_write)
  kernel_frames,        \* local kernel_frames of out_write
  total_sleep,          \* local total_sleep_time_us
  slept,                \* history: microseconds slept by this call
  position              \* history: last position reported

vars == <<standby, kstate, queued, written, buffer_type, write_threshold,
          cur_write_threshold, screen_off, active_in, pc, kernel_frames,
          total_sleep, slept, position>>

-----------------------------------------------------------------------------
(* Arithmetic of the code. *)

\* (int)(((int64_t)(kernel_frames - cur) * 1000000) / rate) for a positive
\* difference; 1000000 / 44100 = 10000 / 441 keeps the product small.
SleepUs(k, cur) == ((k - cur) * 10000) \div 441

\* Frames the hardware plays in us microseconds.
Played(us) == (us * 441) \div 10000

\* Mutant of ClampSleep: the last sleep is not clamped.
ClampSleepNone(total, s) == s

\* if (total > MAX) sleep_time_us = MAX - (total - sleep_time_us)
ClampSleep(total, s) ==
  IF total > MAX_WRITE_SLEEP_US THEN MAX_WRITE_SLEEP_US - (total - s) ELSE s

\* (kernel_frames / period_size + 1) * period_size + period_size / 4:
\* kernel_frames is converted to the 32-bit size_t of period_size, so a
\* negative value divides as 2^32 + k; since period_size divides 2^32 the
\* int result is the floor quotient, which TLA+'s \div computes.
DepletedThreshold(k) == ((k \div PeriodSize) + 1) * PeriodSize + PeriodSize \div 4

\* The threshold smoothing after the pacing loop.
SmoothThreshold(cur, wt, k) ==
  CASE cur > wt -> IF cur - PeriodSize \div 4 < wt THEN wt ELSE cur - PeriodSize \div 4
    [] cur < wt -> IF cur + PeriodSize \div 4 > wt THEN wt ELSE cur + PeriodSize \div 4
    [] k < wt /\ wt - k > PeriodSize * OUT_SHORT_PERIOD_COUNT -> DepletedThreshold(k)
    [] OTHER -> cur

Regime == IF screen_off /\ ~active_in THEN "LONG" ELSE "SHORT"
PeriodCount(t) == IF t = "LONG" THEN OUT_LONG_PERIOD_COUNT ELSE OUT_SHORT_PERIOD_COUNT

-----------------------------------------------------------------------------
(* out_write. *)

\* Leaving standby (start_output_stream; its failure is covered by
\* AudioHal), then the buffer regime for the screen state and input
\* registration.  The local kernel_frames starts with whatever the stack
\* held.
OutWrite ==
  /\ pc = "idle"
  /\ written + PeriodSize <= MaxWritten
  /\ LET prevType == IF standby THEN "UNKNOWN" ELSE buffer_type
         type == Regime
         wt == PeriodSize * PeriodCount(type)
     IN  /\ standby' = FALSE
         /\ kstate' = IF standby THEN "setup" ELSE kstate
         /\ queued' = IF standby THEN 0 ELSE queued
         /\ buffer_type' = type
         /\ write_threshold' = IF type # prevType THEN wt ELSE write_threshold
         /\ cur_write_threshold' = IF type # prevType /\ prevType = "UNKNOWN"
                                   THEN wt ELSE cur_write_threshold
  /\ \E g \in Garbage : kernel_frames' = g
  /\ total_sleep' = 0
  /\ slept' = 0
  /\ pc' = "pace"
  /\ UNCHANGED <<written, screen_off, active_in, position>>

\* One pass of the pacing loop: pcm_get_htimestamp fails unless the PCM is
\* running; the sleep lets the hardware play at least the time slept.
OutWritePace ==
  /\ pc = "pace"
  /\ IF kstate # "running"
     THEN /\ pc' = "write"
          /\ UNCHANGED <<queued, kstate, kernel_frames, total_sleep, slept>>
     ELSE LET k == queued
              s == SleepUs(k, cur_write_threshold)
              t == total_sleep + s
              s2 == ClampSleep(t, s)
          IN  /\ kernel_frames' = k
              /\ IF k > cur_write_threshold /\ s >= MIN_WRITE_SLEEP_US
                 THEN /\ total_sleep' = t
                      /\ slept' = slept + s2
                      /\ \E q \in Levels :
                           /\ q <= queued - Played(s2) \/ q = 0
                           /\ queued' = q
                           /\ kstate' = IF q = 0 THEN "xrun" ELSE kstate
                      /\ pc' = IF t <= MAX_WRITE_SLEEP_US THEN "pace" ELSE "write"
                 ELSE /\ pc' = "write"
                      /\ UNCHANGED <<queued, kstate, total_sleep, slept>>
  /\ UNCHANGED <<standby, written, buffer_type, write_threshold,
                 cur_write_threshold, screen_off, active_in, position>>

\* Mutant of OutWriteIo: pcm_write queues without waiting for room.
OutWriteIoNoRoom ==
  /\ pc = "write"
  /\ cur_write_threshold' =
       SmoothThreshold(cur_write_threshold, write_threshold, kernel_frames)
  /\ IF kstate = "xrun"
     THEN /\ kstate' = "setup"
          /\ queued' = 0
          /\ UNCHANGED written
     ELSE /\ queued' = queued + PeriodSize
          /\ kstate' = IF queued + PeriodSize >= StartThreshold THEN "running"
                       ELSE kstate
          /\ written' = written + PeriodSize
  /\ pc' = "idle"
  /\ UNCHANGED <<standby, buffer_type, write_threshold, screen_off, active_in,
                 kernel_frames, total_sleep, slept, position>>

\* Threshold smoothing, then pcm_write of one period: it blocks while the
\* buffer has no room (only a started PCM drains it), returns -EPIPE after an underrun (PCM_NORESTART;
\* the next write prepares the PCM again), and otherwise queues the frames,
\* starting the PCM at start_threshold; out->written counts them.
OutWriteIo ==
  /\ pc = "write"
  /\ kstate # "xrun" => queued + PeriodSize <= BufferSize
  /\ cur_write_threshold' =
       SmoothThreshold(cur_write_threshold, write_threshold, kernel_frames)
  /\ IF kstate = "xrun"
     THEN /\ kstate' = "setup"
          /\ queued' = 0
          /\ UNCHANGED written
     ELSE /\ queued' = queued + PeriodSize
          /\ kstate' = IF queued + PeriodSize >= StartThreshold THEN "running"
                       ELSE kstate
          /\ written' = written + PeriodSize
  /\ pc' = "idle"
  /\ UNCHANGED <<standby, buffer_type, write_threshold, screen_off, active_in,
                 kernel_frames, total_sleep, slept, position>>

-----------------------------------------------------------------------------
(* The other calls and the environment. *)

\* Mutant of OutStandby: written is cleared with the handle.
OutStandbyClearsWritten ==
  /\ pc = "idle"
  /\ ~standby
  /\ standby' = TRUE
  /\ kstate' = "closed"
  /\ queued' = 0
  /\ written' = 0
  /\ UNCHANGED <<buffer_type, write_threshold, cur_write_threshold,
                 screen_off, active_in, pc, kernel_frames, total_sleep, slept,
                 position>>

\* out_standby / do_out_standby: pcm_close drops the queued frames; written
\* and the thresholds are kept.
OutStandby ==
  /\ pc = "idle"
  /\ ~standby
  /\ standby' = TRUE
  /\ kstate' = "closed"
  /\ queued' = 0
  /\ UNCHANGED <<written, buffer_type, write_threshold, cur_write_threshold,
                 screen_off, active_in, pc, kernel_frames, total_sleep, slept,
                 position>>

\* out_get_presentation_position: written - kernel_buffer_size + avail,
\* reported only when not negative.  The uint64_t arithmetic cannot wrap
\* below 2^63 and its conversion to int64_t gives the signed value.
GetPresentationPosition ==
  /\ pc = "idle"
  /\ ~standby
  /\ kstate = "running"
  /\ LET signed_frames == written - BufferSize + (BufferSize - queued)
     IN  /\ signed_frames >= 0
         /\ position' = signed_frames
  /\ UNCHANGED <<standby, kstate, queued, written, buffer_type, write_threshold,
                 cur_write_threshold, screen_off, active_in, pc, kernel_frames,
                 total_sleep, slept>>

\* The hardware plays frames; an empty buffer is an underrun (the stop
\* threshold is the buffer size).
Play ==
  /\ kstate = "running"
  /\ \E q \in Levels :
       /\ q < queued
       /\ queued' = q
       /\ kstate' = IF q = 0 THEN "xrun" ELSE kstate
  /\ UNCHANGED <<standby, written, buffer_type, write_threshold,
                 cur_write_threshold, screen_off, active_in, pc, kernel_frames,
                 total_sleep, slept, position>>

\* adev_set_parameters("screen_state"), written without any lock.
SetScreenState ==
  /\ \E b \in BOOLEAN : screen_off' = b
  /\ UNCHANGED <<standby, kstate, queued, written, buffer_type, write_threshold,
                 cur_write_threshold, active_in, pc, kernel_frames,
                 total_sleep, slept, position>>

\* The input stream registers and deregisters itself (see AudioHal).
InputRegistration ==
  /\ active_in' = ~active_in
  /\ UNCHANGED <<standby, kstate, queued, written, buffer_type, write_threshold,
                 cur_write_threshold, screen_off, pc, kernel_frames,
                 total_sleep, slept, position>>

Init ==
  /\ standby = TRUE
  /\ kstate = "closed"
  /\ queued = 0
  /\ written = 0
  /\ buffer_type = "UNKNOWN"
  /\ write_threshold = 0
  /\ cur_write_threshold = 0
  /\ screen_off = FALSE
  /\ active_in = FALSE
  /\ pc = "idle"
  /\ kernel_frames = 0
  /\ total_sleep = 0
  /\ slept = 0
  /\ position = 0

Next ==
  \/ OutWrite \/ OutWritePace \/ OutWriteIo
  \/ OutStandby \/ GetPresentationPosition
  \/ Play \/ SetScreenState \/ InputRegistration

\* A call in progress keeps running on the playback thread, and the
\* hardware keeps playing a started PCM.  The framework's calls and the
\* other threads' setters are its own choice.
Fairness == WF_vars(OutWritePace) /\ WF_vars(OutWriteIo) /\ WF_vars(Play)

Spec == Init /\ [][Next]_vars /\ Fairness

-----------------------------------------------------------------------------
(* Properties. *)

TypeOK ==
  /\ standby \in BOOLEAN
  /\ kstate \in {"closed", "setup", "running", "xrun"}
  /\ queued \in Levels
  /\ written \in 0 .. MaxWritten
  /\ buffer_type \in {"UNKNOWN", "SHORT", "LONG"}
  /\ write_threshold \in {0, PeriodSize * OUT_SHORT_PERIOD_COUNT,
                          PeriodSize * OUT_LONG_PERIOD_COUNT}
  /\ cur_write_threshold \in Int
  /\ screen_off \in BOOLEAN /\ active_in \in BOOLEAN
  /\ pc \in {"idle", "pace", "write"}
  /\ kernel_frames \in Int
  /\ total_sleep \in Nat /\ slept \in Nat
  /\ position \in Nat

(* One out_write never sleeps longer in its pacing loop than             *)
(* MAX_WRITE_SLEEP_US, one short period count of playback, whatever the *)
(* kernel reports and however far the hardware drains during a sleep:   *)
(* the last sleep is clamped so the total never exceeds the bound.       *)
SleepBounded == slept <= MAX_WRITE_SLEEP_US

(* The presentation position reported by out_get_presentation_position  *)
(* never goes backwards, across underruns, standby and restarts: written *)
(* survives standby and only counts frames pcm_write accepted.           *)
PositionMonotonic == [][position' >= position]_position

(* While the output runs, cur_write_threshold lies within the kernel     *)
(* buffer: the pacing loop keeps between one quarter period and the      *)
(* whole buffer queued, never asking the hardware to drain below empty.  *)
ThresholdWithinBuffer ==
  ~standby /\ buffer_type # "UNKNOWN" => cur_write_threshold \in 1 .. BufferSize

(* Every out_write returns: the pacing loop ends, and pcm_write, which   *)
(* blocks while the kernel buffer has no room, always finds room in the  *)
(* end, because start_threshold lets the PCM start (and so drain) before *)
(* the buffer is full.                                                   *)
WriteReturns == pc # "idle" ~> pc = "idle"

=============================================================================
