# TLA+ models of the p4 tegra audio HAL

This directory models `src/libaudio/audio_hw.c`, the Android audio HAL of the Samsung P4 (tegra) devices, in TLA+ and checks it with TLC. The HAL has one output stream and one input stream. They share one `struct audio_device` and one ALSA card.

## 1. The system

### Parts and their state

| Part | Code | State |
|---|---|---|
| Device | `struct audio_device` (105-123), `adev_open` (1668-1714) | `lock`, `mode`, `out_device`, `in_device`, `in_source`, `mic_mute`, `screen_off`, `active_out`, `active_in` |
| Output stream | `struct stream_out` (125-147), `out_*`, `start_output_stream`, `do_out_standby` | `lock`, `pcm`, `standby`, `sleep_req`, `written`, `buffer_type`, `write_threshold`, `cur_write_threshold`, resampler (dead: the rate is always 44100) |
| Input stream | `struct stream_in` (148-168), `in_*`, `start_input_stream`, `do_in_standby` | `lock`, `pcm`, `standby`, `sleep_req`, `buffer`, `frames_in`, `read_status`, resampler |
| Mixer routing | `select_devices` (206-278), `select_input_source` (280-340) | the tinyalsa controls "Playback Path", "Capture MIC Path" and "Input Source" |
| Capture provider | `get_next_buffer`, `release_buffer`, `read_frames` (481-577), the read branches and mic-mute zeroing of `in_read` (1286-1333) | `frames_in`, `buffer`, `read_status` |
| Write pacing | `out_write` 857-985, `out_get_presentation_position`, `adev_set_parameters` (screen_state) | thresholds, `kernel_frames`, sleep totals, `written` |
| Bootstrap / open / close | `adev_open*`, `adev_close*` | stream allocation, configuration negotiation |

### Operations and how the parts interact

The framework calls the HAL from three kinds of threads:

- the playback thread: `out_write`, `out_standby`, `out_set_parameters`, `out_get_presentation_position`, and finally `adev_close_output_stream`;
- the record thread: `in_read`, `in_standby`, `in_set_parameters`, and finally `adev_close_input_stream`;
- binder threads: `adev_set_mode`, `adev_set_mic_mute`, `adev_set_parameters`.

The card cannot be reconfigured while the other direction is open. So when one stream leaves standby, it stops the other, starts itself and restarts the other:

- **`out_write` (776-855).** It locks out, then adev. While `active_in` is running it drops adev, sets `in->sleep_req`, locks in and then adev. It forces the input to standby, starts the output, restarts the input and writes the mixer.
- **`in_read` (1214-1286).** It drops both adev and in, then locks out, in and adev in that order. It stops and restarts the output, then starts the input.

`sleep_req` makes the other stream's next call sleep 10 ms so that the arbitrating thread gets the lock. The lock order actually used is out → in → adev. The comment at 182-184 says the opposite.

### Hard behaviours (the hazards in PROJECT.json)

- Pointers to the other stream are read under adev->lock and used after it is dropped. `adev_set_mic_mute` reads `active_in` with no lock at all, and both close calls free streams.
- Error paths run after partial progress: a failed `pcm_open` in `start_output_stream` or `start_input_stream`, in the middle of the arbitration.
- `sleep_req` is a hint flag set and cleared by different threads.
- Routing changes go through standby, except during a call.
- Numeric edges: the pacing reads an uninitialized `kernel_frames` after standby, and the stereo read asks for twice the requested bytes.
- Progress of a read call: `read_frames` loops until the resampler has the frames it needs, so each pull must hand over frames while any are left.
- Error paths of the data transfer: a failed `pcm_read` still fills the caller's buffer; a rejected open still allocates.

## 2. Modules

### `AudioHal.tla`: lock protocol and stream lifecycle

There are three threads, `Play`, `Rec` and `Binder`. Each has a program counter `pc[t]` and the locals of its current call:

- `peer`: the pointer to the other stream;
- `restart`: `restart_input`;
- `peerLocked`: `in_locked` / `out_locked`;
- the call's arguments.

Every blocking mutex acquisition is its own step, and so is every access through a pointer read under a lock that was dropped since. Code that runs under the locks it needs between two such points is one action. The action runs the whole sequence in the code's order:

- stream state is a record (`Hw`);
- `do_standby`, `start_stream` and `set_standby` are functions on that record;
- `CommitHw` writes the result.

| Variable | Code |
|---|---|
| `owner[l]` | the holder of `out->lock`, `in->lock`, `adev->lock` |
| `standby`, `pcm`, `active` | `x->standby`, `x->pcm` (`"closed"` = a non-NULL handle already closed), `adev->active_x == x` |
| `sleepReq` | `x->sleep_req` |
| `alive` | the stream has not been freed by its close call (a freed stream stays a zombie, so a later access is visible) |
| `mode`, `out_device`, `in_device`, `in_source`, `mic_mute` | the `adev` fields |
| `mixer` | the last value written to each mixer control |
| `openOrder` | history: the open PCM handles in opening order |

Actions, one per step:

- `out_write`: `OutWrite`, `OutWriteLock`, `OutWriteAdev`, `OutWriteYield`, `OutWriteInLock`, `OutWriteRecheck`, `OutWriteStart`, `OutWriteIo`;
- `in_read`: `InRead`, `InReadLock`, `InReadAdev`, `InReadYield`, `InReadOutLock`, `InReadInLock`, `InReadRecheck`, `InReadStart`, `InReadIo`;
- standby and close: `OutStandby*`, `InStandby*`, `CloseOutput*`, `CloseInput*`;
- setters: `OutSetParameters*`, `InSetParameters*`, `GetPresentationPosition*`;
- binder: `SetMode`, `SetMicMute`, `MicMuteYield`, `MicMuteLock`, `MicMuteAdev`, `MicMuteSet`.

The outcome of `pcm_open` is chosen from `PcmOpenResults`. Sample data, the pacing loop and resampling are abstracted away: `OutWriteIo` and `InReadIo` release the stream lock and return, as every path of that code does.

`MCAudioHal.tla` gives the constants small values: device masks as sets of bits, two input sources, the modes NORMAL and IN_CALL, and `pcm_open` outcomes.

### `WritePacing.tla`: the output's buffer regime, pacing and position

One `out_write` is three steps, so that the screen state, the input registration and the hardware can change between them:

- `OutWrite` (737-875): leaving standby (`start_output_stream`; its failure is `AudioHal`'s business), then the regime. `buffer_type` is LONG when the screen is off and no input is active, else SHORT (857-858). On a change `write_threshold` becomes 2 or 4 periods, and `cur_write_threshold` snaps to it only when leaving standby (872-873). The local `kernel_frames` starts as any value of `Garbage`: it is declared at 748 without a value.
- `OutWritePace` (901-932): one pass of the pacing loop. `pcm_get_htimestamp` fails unless the PCM runs, and the loop breaks. Otherwise `kernel_frames` is the frames queued, and the call sleeps `(k - cur) * 10^6 / 44100` µs when that is at least `MIN_WRITE_SLEEP_US`, clamping the last sleep so that the total stays within `MAX_WRITE_SLEEP_US` (922-927). During the sleep the hardware plays at least what the time allows and possibly underruns.
- `OutWriteIo` (934-985): the threshold smoothing (`SmoothThreshold`: a quarter-period step toward `write_threshold`, or the depletion reset `DepletedThreshold` of 951-955), then `pcm_write` of one period. It blocks while the buffer has no room for the period, in any state, since a PCM that has not started does not drain. It returns -EPIPE after an underrun (`PCM_NORESTART`: the next write prepares the PCM again), and otherwise queues the period, starts the PCM at `start_threshold` (two periods) and adds to `written`.

`OutStandby`, `GetPresentationPosition` (`written - buffer_size + avail`, reported when not negative), `Play` (the hardware drains; an empty buffer is an underrun, because the stop threshold is the buffer size), `SetScreenState` (unlocked, at any time) and `InputRegistration` complete the module.

The arithmetic keeps the code's types where they matter. `kernel_frames / period_size` divides a (possibly negative) int by a 32-bit `size_t`; because `period_size` divides 2^32, the result is the floor quotient, which is TLA+'s `\div`. The position is computed in `uint64_t` and converted to `int64_t`, which gives back the mathematical value, so the model uses integers. The microsecond computation uses 10000/441 for 10^6/44100 to stay within TLC's 32-bit integers.

`MCWritePacing` uses the real period (1024 frames), queue levels in quarter periods, up to six periods written per behaviour, and three values for the uninitialized `kernel_frames`: -2100 (a negative stack value), 0, and 5000 (above the buffer).

### `CaptureFifo.tla` and `CaptureProvider.tla`: the capture data path and its refinement

`CaptureFifo` is the abstract promise of the capture path. The caller receives left-channel frames in capture order, each at most once. A hardware read fetches one period, and only when nothing fetched is still waiting (no read-ahead). A direct read bypasses the buffer only when it is empty. A restart drops what was waiting. The hardware may lose frames (an overrun) before any read.

A read call collects the frames it takes as `pending` and returns them at its end. After a successful read they are returned as silence when the mic is muted at that moment, and as they are otherwise. A call fails only when a hardware read was needed (nothing is waiting); it then returns its frames as they are. This follows the spec's read operation (section 4.3): zero the buffer "after a successful read".

`CaptureProvider` is the code:

- the raw period `buffer` of interleaved `<<frame, "L"/"R">>` samples;
- `frames_in`, `read_status`, `standby`;
- whether a resampler exists (the requested rate is not 44100);
- the read call in progress (`pc` is `"reading"` or `"held"`, `frame_count`, `taken`, the frames the resampler has pulled for it, and `need`, the input frames it needs for the call);
- `mic_mute`, and `mute_req`, the state `adev_set_mic_mute` has yet to write;
- `in_call`, fixed at Init;
- the history `delivered`.

Its actions:

- `InReadBegin` (1286-1294): `in_read` with a resampler, after `StartIfStandby` (the restart at 1215-1285), enters `read_frames`.
- `GetNextBuffer` (481-524): one `pcm_read` of a whole period when `frames_in` is 0, then the in-place compaction `DiscardRight`, a RECURSIVE operator that follows the loop at 514-515 one index at a time, so that an order error would show. Then a view clipped to `frames_in`. A failed read ends the whole call: `read_frames` returns the error, `in_read` skips the zeroing, and the caller keeps the frames taken so far.
- `ReleaseBuffer` (526-538): the resampler's copy of the view, then `frames_in -= frame_count`.
- `InReadReturn` (540-577, 1312-1320): the resampler has its frames; `in_read` reads `mic_mute` once and zeroes the whole buffer if it is set (`Heard`).
- `InReadStereo` (1295-1333): restart if needed, `pcm_read` of `2 * frq` frames, `in_buffer[i] = in->buffer[2i]` whatever `pcm_read` returned, and zeroing only after success.
- `InStandby` (`in_standby`, through `DoInStandby`).
- `AdevSetMicMute` (1520-1540): under `in->lock`, the active input goes to standby unless in call. `AdevWriteMicMute` (1542) is the unlocked write that follows, so it can land between the pulls of a read call.

The resampler is the consumer. At the start of a call it needs some number of input frames, up to `MaxRequest` (`need`). It asks for any count up to what it still lacks, releases exactly what it received, and lets the call return once it has them all. This is the audio_utils loop `while (frames_in < frames_needed) get_next_buffer(frames_needed - frames_in)`, with the request size left free.

The refinement is `Fifo == INSTANCE CaptureFifo WITH fifo <- WaitingFrames, pending <- taken`. `WaitingFrames` is the unconsumed tail of the compacted period, `buffer[P - frames_in ..]`, or empty while in standby. `FifoRefinement == Fifo!Spec` is checked as a PROPERTY. `MCCaptureProvider` uses three frames a period, so that the compaction moves samples twice, three periods of hardware frames, and requests up to one frame more than a period.

`CallReturns` is a liveness property: every `in_read` that has started returns. It holds because the clip at 519-520 hands over what is left of the period, never an empty view while frames remain, and because a used-up period is refilled by a `pcm_read` that either succeeds or fails. A clip that answered a too-large request with nothing would make the resampler ask again for ever.

`MutedReadsSilent` is an action property. It says that once `adev_set_mic_mute(true)` has written `mic_mute`, every frame handed to the caller is zero. The spec's mic-mute scenario (section 8) says that "subsequent reads return zeroed buffers".

### `StreamOpen.tla`: opening and closing the device and the streams

`AdevOpen` (1668-1714) allocates the device; any name but `AUDIO_HARDWARE_INTERFACE` is -EINVAL and allocates nothing. `AdevClose` (1655-1666) frees it. The framework opens streams only on an open device, and it closes the device only after closing its streams.

The framework starts an open cycle with a configuration of its choice (`RequestOutput`, `RequestInput`). After -EINVAL it retries with the configuration the HAL wrote back, up to `MaxRetries` times.

- `AdevOpenOutputStream` (1350-1418) callocs, then rejects anything but 44100 Hz stereo, writing those values back.
- `AdevOpenInputStream` (1573-1630) rejects a non-mono mask before calloc. It accepts any rate. `InPcmConfig` (1623-1624) picks `PcmConfigInLowLatency` (512 frames, 96-104) for FAST at 44100, and `PcmConfigIn` (1024 frames, 81-94) otherwise.
- The close calls free the stream.

`outAllocs` and `inAllocs` count the live allocations. `AdevGetInputBufferSize` and `InGetBufferSize` are the code's size computations, with the round-up to 16 frames.

`MCStreamOpen` uses three rates (16000, 44100, 48000), both masks of each direction, both input flags, two cycles per stream and one retry.

### Fairness

`Fairness` is strong fairness on each thread's in-call steps. No thread is ever forced to start a call. `pcm_write` and `pcm_read` run under the stream's own lock, so they do not give the other threads a window. What does is the `sleep_req` hand-off: a thread that wants the other stream's lock sets that stream's `sleep_req`, and the holder, on its next call, sleeps 10 ms before taking its lock (`out_write` 755-759, `in_read` 1195-1199). A waiting thread is therefore enabled again and again, though not continuously, and only strong fairness says that it then gets the lock.

`WritePacing` assumes weak fairness of the two later steps of a call in progress (`OutWritePace`, `OutWriteIo`), because the playback thread that is inside `out_write` keeps running. It also assumes weak fairness of `Play`, because the hardware plays a started PCM. Starting a write, standby, the screen state and the input registration stay optional. `CaptureProvider` assumes weak fairness of the steps of a read call in progress (`GetNextBuffer`, `ReleaseBuffer`, `InReadReturn`). The record thread inside `in_read` keeps running, and each `pcm_read` it waits on returns, with frames or with an error. Starting a read, standby and the mute stay optional: the framework is free to stop reading. `StreamOpen` assumes weak fairness of the open calls only: once the framework has started an open it calls the HAL (again, with the written-back configuration, as the spec's section 7 says the caller does). Requesting and closing streams stay optional, so its runs do not check deadlock: the framework may stop opening streams.

## 3. Runs

| Run | Module | Expect | Properties | Shows |
|---|---|---|---|---|
| core | MCAudioHal | pass | TypeOK, LocksReleasedOnReturn, ActiveStreamsConsistent, CaptureOpenedAfterPlayback, CallsReturn | see below |
| routing | MCAudioHal | pass | RoutingApplied | outside calls, the mixer matches adev's routing while a stream runs |
| openfail_locks | MCAudioHal | violation | LocksReleasedOnReturn | a failed `start_output_stream` leaves adev->lock (and in->lock) held (line 820) |
| openfail_state | MCAudioHal | violation | ActiveStreamsConsistent | a failed output restart in `in_read` still clears `out->standby` (1255) |
| close_race | MCAudioHal | violation | NoUseAfterFree | the `active_in` pointer of `adev_set_mic_mute` or the arbitration is used after `adev_close_input_stream` freed it |
| stale_yield | MCAudioHal | violation | NoStaleYieldRequest | `in->sleep_req` stays true when the input vanishes during `out_write`'s arbitration (812), and every later `in_read` sleeps 10 ms |
| routing_incall | MCAudioHal | violation | RoutingApplied | a routing change during IN_CALL leaves the mixer stale after the call (696) |
| pacing | MCWritePacing | pass | TypeOK, SleepBounded, PositionMonotonic, WriteReturns | one `out_write` sleeps at most `MAX_WRITE_SLEEP_US`; the presentation position never goes backwards across underruns, standby and restarts; every `out_write` returns, because the start threshold (two periods) is reached before the four-period buffer is full |
| threshold_uninit | MCWritePacing | violation | ThresholdWithinBuffer | the first write after standby smooths the threshold with the uninitialized `kernel_frames` (748/951): garbage -2100 gives `cur_write_threshold` = -1792 |
| capture_refinement | MCCaptureProvider | pass | TypeOK, FifoRefinement, CallReturns | the read calls (the resampler's pulls under any request size and read errors, the stereo read when it succeeds), standby, restart and the mute write landing mid-call implement `CaptureFifo`; every started read call returns |
| capture_muted_error | MCCaptureProvider | violation | MutedReadsSilent | muted, a failed read is not zeroed (1319). On the stereo path the caller gets `in->buffer` as it is: malloc'd memory after a restart, later the previous period again (1303-1307). On the resampler path it gets the frames pulled before the failure. The trace TLC shows is the stereo one. With `StereoReadResults <- MCReadOk` the run reaches the resampler case in seven steps. |
| open | MCStreamOpen | pass | TypeOK, InputBufferSizesAgree, OpenEventuallySucceeds | every open succeeds at the latest on the retry with the written-back configuration; `in_get_buffer_size` never exceeds `adev_get_input_buffer_size`, and is exactly one period without a resampler, so the stereo read of twice the bytes fits `in->buffer` |

The core run shows that with `pcm_open` succeeding:

- every call returns without a mutex;
- under the fairness above, every started call returns;
- standby, pcm and registration agree;
- the capture PCM is always opened after the playback PCM.

### Bounds

- **core.** Both modes, both sources, and one route per direction, whose value writes nothing to the mixer: 191k states in about a minute. Route values change only what is written to the mixer, which the routing run checks.
- **routing.** Three output routes (none, speaker, headset), three input routes and both sources, in NORMAL mode: 4.5M states in about 90 s. The routes differ in every mixer control, so every change of routing is exercised.
- **AudioHal violations.** Each keeps one route and one source, and turns on only what the property needs: `pcm_open` failure, or IN_CALL.
- **pacing.** The real period of 1024 frames and six periods written: 2.4M states in under two minutes with the liveness check. That is enough for standby, restart, an underrun, both regimes and a change between them.
- **capture_refinement.** 2.6M states in about two minutes with the liveness check. A call needs up to four input frames, one more than a period, so a call can span a refetch. Three periods let a period be consumed partly, across requests larger than what is left, and then refetched after a skip, with the mute toggled at any point of a call.
- **open.** 6k states.

AudioHal has no counter, so its state is finite. In the other modules every counter is bounded by a named constant in the guards (`MaxWritten`, `MaxFrames`, `MaxCycles`, `MaxRetries`).

Each property of a passing run has a mutant in PROJECT.json: a plausible bug in a mapped definition (a dropped unlock, a dropped loop test, a dropped standby, a missing registration reset, an unclamped sleep, `written` reset by standby, a write that does not wait for room, a view taken from the head of the period, an unclipped `frame_count`, a too-large request answered with an empty view, a write-back that keeps the rate, a round-up by 16 instead of 15, a close that does not free, a start threshold past the end of the buffer, a read call that is not zeroed when muted). TLC catches each one under the run's own configuration.

### Observations without a run

Three more disagreements were found while modelling. No run is kept for them, because each can be read directly off the code:

- `adev_open_output_stream` callocs the stream and then returns -EINVAL without freeing it (1360-1374; the `err_open` label is unreachable). `StreamOpen`'s `outAllocs` grows with every rejected open. The spec's section 7 says an open error leaves nothing allocated.
- The output accepts only 44100 Hz, so the output resampler (891-896) is dead. The spec's section 8 example of an output opened at 48000 Hz with a 942-frame resampler buffer does not happen.
- The spec (sections 3 and 8) says at most one direction is out of standby. The arbitration restarts the other direction right after starting its own, so both run together. `core` checks only the order in which the two are opened.

## 4. Not modelled

- **tinyalsa and the audio_utils resampler.** These are external libraries. They are modelled by their behaviour at the HAL's interface: the `pcm_open`/`pcm_read` outcomes, `pcm_write`'s blocking and -EPIPE, the htimestamp failure while not running, and a resampler that pulls any count and releases what it got.
- **Sample values.** A sample is the frame it came from, not its value. The output channel down-mix and the output resampler are left out because they are dead code: the open accepts only stereo at 44100.
- **Calloc failure** in `adev_open` and the open calls, and the module table, which is static data.
- **Logging and `lock_cnt`** (debug counters in the lock helpers).
- **Getters and stubs** that change no state: the stream getters (`out_get_sample_rate`, `in_get_channels` and the like), `out_get_latency`, `out_set_volume`, the effect, dump, gain and timestamp stubs, `in_get_input_frames_lost` (always 0, although the model lets the hardware lose frames), `in_get_parameters`, `adev_get_mic_mute` (an unlocked read of `mic_mute`), and `open_mixer`/`close_mixer`. None of them has an effect a property could observe.
- **Threshold convergence** toward `write_threshold` as a liveness property. It would need the framework to keep writing under a fixed regime, which the code cannot guarantee.
