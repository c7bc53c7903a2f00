------------------------------ MODULE AudioHal ------------------------------
(***************************************************************************)
(* The stream lifecycle and locking protocol of the tegra audio HAL        *)
(* (src/libaudio/audio_hw.c): one output stream, one input stream and the  *)
(* audio_device they share, driven by three framework threads:             *)
(*   Play   - the playback thread: out_write, out_standby,                 *)
(*            out_set_parameters, out_get_presentation_position and,       *)
(*            last, adev_close_output_stream;                              *)
(*   Rec    - the record thread: in_read, in_standby, in_set_parameters    *)
(*            and, last, adev_close_input_stream;                          *)
(*   Binder - adev_set_mode and adev_set_mic_mute.                         *)
(* Every blocking mutex acquisition and every unlocked access to another   *)
(* stream is a step of its own; code between two such points that runs    *)
(* under the locks it needs is one step.  Sample data, the pacing of       *)
(* out_write and the resampling of in_read are abstracted here (they are   *)
(* the subject of WritePacing and CaptureProvider).                        *)
(***************************************************************************)
EXTENDS Naturals, Sequences, SequencesExt

CONSTANTS
  OutRoutes,      \* values of the "routing" key given to out_set_parameters
  InRoutes,       \* values of the "routing" key given to in_set_parameters
  Sources,        \* values of the "input_source" key
  Modes,          \* audio modes passed to adev_set_mode
  PcmOpenResults  \* outcomes of pcm_open: "ok", and "fail" when it may fail

(* A device mask is the set of its bits; the empty set is the value 0. *)
OutDeviceBits == {"SPEAKER", "WIRED_HEADSET", "WIRED_HEADPHONE"}
InDeviceBits  == {"BUILTIN_MIC", "WIRED_HEADSET_MIC", "BLUETOOTH_SCO_HEADSET"}
BitIn == "BIT_IN"   \* AUDIO_DEVICE_BIT_IN, set in every raw input mask

ASSUME /\ OutRoutes \subseteq SUBSET OutDeviceBits
       /\ InRoutes \subseteq SUBSET (InDeviceBits \cup {BitIn})
       /\ "DEFAULT" \in Sources
       /\ Modes \subseteq {"NORMAL", "IN_CALL"} /\ "NORMAL" \in Modes
       /\ "ok" \in PcmOpenResults /\ PcmOpenResults \subseteq {"ok", "fail"}

Out == "out"
In == "in"
Adev == "adev"
Streams == {Out, In}
Locks == {Out, In, Adev}          \* out->lock, in->lock, adev->lock
Play == "play"
Rec == "rec"
Binder == "binder"
Threads == {Play, Rec, Binder}
NoThread == "nothread"
NoStream == "NULL"
NoKey == "nokey"                  \* the key is absent from kvpairs
NoChange == "nochange"            \* select_devices leaves the control alone
MixerCtls == {"Playback Path", "Capture MIC Path", "Input Source"}

VARIABLES
  owner,       \* owner[l]: the thread holding mutex l
  standby,     \* standby[s]: out->standby, in->standby
  pcm,         \* pcm[s]: "null", "open", or "closed" (non-NULL, already closed)
  active,      \* active[s]: adev->active_out = out, adev->active_in = in
  sleepReq,    \* sleepReq[s]: out->sleep_req, in->sleep_req
  alive,       \* alive[s]: the stream has not been freed by its close call
  mode,        \* adev->mode
  out_device,  \* adev->out_device
  in_device,   \* adev->in_device
  in_source,   \* adev->in_source
  mic_mute,    \* adev->mic_mute
  mixer,       \* value last written to each mixer control
  pc,          \* pc[t]: the step thread t executes next
  peer,        \* peer[t]: the other stream pointer held by t (in, out)
  restart,     \* restart[t]: restart_input of out_write
  peerLocked,  \* peerLocked[t]: in_locked of out_write, out_locked of in_read
  route,       \* route[t]: the routing value of a set_parameters call
  source,      \* source[t]: the input source value of in_set_parameters
  state,       \* state[t]: the argument of adev_set_mic_mute
  openOrder    \* history: the open PCM handles, in the order they were opened

vars == <<owner, standby, pcm, active, sleepReq, alive, mode, out_device,
          in_device, in_source, mic_mute, mixer, pc, peer, restart,
          peerLocked, route, source, state, openOrder>>

-----------------------------------------------------------------------------
(* Mixer routing: select_devices and select_input_source. *)

PlaybackPath(d) ==
  LET headphone == d \cap {"WIRED_HEADSET", "WIRED_HEADPHONE"} # {}
      speaker   == "SPEAKER" \in d
  IN  CASE speaker /\ headphone      -> "SPK_HP"
        [] speaker                   -> "SPK"
        [] "WIRED_HEADSET" \in d     -> "HP_NO_MIC"
        [] headphone                 -> "HP"
        [] OTHER                     -> NoChange

CapturePath(d) ==
  CASE "BUILTIN_MIC" \in d            -> "Main Mic"
    [] "WIRED_HEADSET_MIC" \in d      -> "Hands Free Mic"
    [] "BLUETOOTH_SCO_HEADSET" \in d  -> "BT Sco Mic"
    [] OTHER                          -> "MIC OFF"

SourceName(src) ==
  CASE src = "CAMCORDER"          -> "Camcorder"
    [] src = "VOICE_RECOGNITION"  -> "Voice Recognition"
    [] OTHER                      -> "Default"

select_devices(m) ==
  [m EXCEPT !["Playback Path"] = IF PlaybackPath(out_device) = NoChange
                                 THEN @ ELSE PlaybackPath(out_device),
            !["Capture MIC Path"] = CapturePath(in_device)]

select_input_source(m, src) == [m EXCEPT !["Input Source"] = SourceName(src)]

-----------------------------------------------------------------------------
(* The stream state a critical section rewrites, as a record, so that a    *)
(* sequence of calls is a composition of the functions below, in the       *)
(* code's order.                                                           *)

Hw == [standby |-> standby, pcm |-> pcm, active |-> active, order |-> openOrder]

CommitHw(h) ==
  /\ standby' = h.standby
  /\ pcm' = h.pcm
  /\ active' = h.active
  /\ openOrder' = h.order

\* Mutant of do_standby: the handle is closed but the stream stays registered.
do_standby_keeps_active(h, s) ==
  IF h.standby[s] THEN h
  ELSE [h EXCEPT !.pcm[s] = "null", !.standby[s] = TRUE, !.order = Remove(@, s)]

\* do_out_standby / do_in_standby: close the handle and deregister.
do_standby(h, s) ==
  IF h.standby[s] THEN h
  ELSE [h EXCEPT !.pcm[s] = "null", !.active[s] = FALSE,
                 !.standby[s] = TRUE, !.order = Remove(@, s)]

\* start_output_stream / start_input_stream with pcm_open outcome r.  On
\* failure the handle is closed but the pointer is not reset to NULL.
start_stream(h, s, r) ==
  IF r = "ok"
  THEN [h EXCEPT !.pcm[s] = "open", !.active[s] = TRUE, !.order = Append(@, s)]
  ELSE [h EXCEPT !.pcm[s] = "closed"]

set_standby(h, s, b) == [h EXCEPT !.standby[s] = b]

-----------------------------------------------------------------------------
(* Helpers for thread steps. *)

Goto(t, l) == pc' = [pc EXCEPT ![t] = l]

Take(o, l, t) == [o EXCEPT ![l] = t]
Release(o, ls) == [l \in Locks |-> IF l \in ls THEN NoThread ELSE o[l]]

\* Return to the caller, dropping the call's locals.
Return(t) ==
  /\ pc' = [pc EXCEPT ![t] = "idle"]
  /\ peer' = [peer EXCEPT ![t] = NoStream]
  /\ restart' = [restart EXCEPT ![t] = FALSE]
  /\ peerLocked' = [peerLocked EXCEPT ![t] = FALSE]
  /\ route' = [route EXCEPT ![t] = {}]
  /\ source' = [source EXCEPT ![t] = NoKey]
  /\ state' = [state EXCEPT ![t] = FALSE]

Args == <<route, source, state>>
Locals == <<peer, restart, peerLocked, Args>>
Device == <<mode, out_device, in_device, in_source, mic_mute, mixer>>
HwVars == <<standby, pcm, active, openOrder>>

\* The caller announces itself on s (x->sleep_req = true) and will lock s.
Request(t, s, l) ==
  /\ pc[t] = "idle"
  /\ sleepReq' = [sleepReq EXCEPT ![s] = TRUE]
  /\ Goto(t, l)
  /\ UNCHANGED <<owner, HwVars, alive, Device, peer, restart, peerLocked>>

\* x_lock(x); x->sleep_req = false;
LockAndClear(t, s, from, to) ==
  /\ pc[t] = from
  /\ owner[s] = NoThread
  /\ owner' = Take(owner, s, t)
  /\ sleepReq' = [sleepReq EXCEPT ![s] = FALSE]
  /\ Goto(t, to)
  /\ UNCHANGED <<HwVars, alive, Device, Locals>>

-----------------------------------------------------------------------------
(* out_write.  On leaving standby it takes adev->lock and, while an input  *)
(* is registered and not in standby, drops adev->lock, locks the input     *)
(* (out, then in, then adev), forces it to standby, starts the output and  *)
(* restarts the input.                                                     *)

OutWrite ==
  /\ pc[Play] = "idle"
  /\ Goto(Play, "w_lock")
  /\ UNCHANGED <<owner, HwVars, sleepReq, alive, Device, Locals>>

OutWriteLock ==
  /\ pc[Play] = "w_lock"
  /\ owner[Out] = NoThread
  /\ owner' = Take(owner, Out, Play)
  /\ Goto(Play, IF standby[Out] THEN "w_adev" ELSE "w_io")
  /\ UNCHANGED <<HwVars, sleepReq, alive, Device, Locals>>

\* Mutant of OutWriteAdev: the arbitration loop test is dropped.
OutWriteAdevNoLoop ==
  /\ pc[Play] = "w_adev"
  /\ owner[Adev] = NoThread
  /\ owner' = Take(owner, Adev, Play)
  /\ peer' = [peer EXCEPT ![Play] = IF active[In] THEN In ELSE NoStream]
  /\ Goto(Play, "w_start")
  /\ UNCHANGED <<HwVars, sleepReq, alive, Device, restart, peerLocked, Args>>

\* adev_lock; in = adev->active_in; loop test; first adev_unlock of the loop
OutWriteAdev ==
  /\ pc[Play] = "w_adev"
  /\ owner[Adev] = NoThread
  /\ LET in == IF active[In] THEN In ELSE NoStream
         loop == in # NoStream /\ ~standby[In]
     IN  /\ owner' = IF loop THEN owner ELSE Take(owner, Adev, Play)
         /\ peer' = [peer EXCEPT ![Play] = in]
         /\ Goto(Play, IF loop THEN "w_yield" ELSE "w_start")
  /\ UNCHANGED <<HwVars, sleepReq, alive, Device, restart, peerLocked, Args>>

\* in->sleep_req = true, through the pointer read under the released lock
OutWriteYield ==
  /\ pc[Play] = "w_yield"
  /\ sleepReq' = [sleepReq EXCEPT ![In] = TRUE]
  /\ Goto(Play, "w_inlock")
  /\ UNCHANGED <<owner, HwVars, alive, Device, Locals>>

OutWriteInLock ==
  /\ pc[Play] = "w_inlock"
  /\ owner[In] = NoThread
  /\ owner' = Take(owner, In, Play)
  /\ Goto(Play, "w_recheck")
  /\ UNCHANGED <<HwVars, sleepReq, alive, Device, Locals>>

\* adev_lock; if (in == adev->active_in) force standby and break; otherwise
\* in_unlock and re-read adev->active_in, which is then NULL (one input).
OutWriteRecheck ==
  /\ pc[Play] = "w_recheck"
  /\ owner[Adev] = NoThread
  /\ IF active[In]
     THEN /\ owner' = Take(owner, Adev, Play)
          /\ CommitHw(do_standby(Hw, In))
          /\ restart' = [restart EXCEPT ![Play] = ~standby[In]]
          /\ peerLocked' = [peerLocked EXCEPT ![Play] = TRUE]
          /\ UNCHANGED peer
     ELSE /\ owner' = Take(Release(owner, {In}), Adev, Play)
          /\ peer' = [peer EXCEPT ![Play] = NoStream]
          /\ UNCHANGED <<HwVars, restart, peerLocked>>
  /\ Goto(Play, "w_start")
  /\ UNCHANGED <<sleepReq, alive, Device, Args>>

\* start_output_stream; on failure "goto exit" releases only out->lock.
\* Otherwise restart the input, in_unlock, in->sleep_req = false,
\* select_devices, out->standby = false, adev_unlock.
OutWriteStart ==
  /\ pc[Play] = "w_start"
  /\ \E r1, r2 \in PcmOpenResults :
       IF r1 = "fail"
       THEN /\ CommitHw(start_stream(Hw, Out, "fail"))
            /\ owner' = Release(owner, {Out})
            /\ Return(Play)
            /\ UNCHANGED <<sleepReq, mixer>>
       ELSE LET h1 == start_stream(Hw, Out, "ok")
                in == peer[Play]
                h2 == IF in # NoStream /\ restart[Play] /\ h1.standby[In]
                      THEN IF r2 = "ok"
                           THEN set_standby(start_stream(h1, In, "ok"), In, FALSE)
                           ELSE start_stream(h1, In, "fail")
                      ELSE h1
            IN  /\ CommitHw(set_standby(h2, Out, FALSE))
                /\ owner' = Release(owner, {Adev} \cup
                                 IF in # NoStream /\ peerLocked[Play]
                                 THEN {In} ELSE {})
                /\ sleepReq' = IF in # NoStream
                               THEN [sleepReq EXCEPT ![In] = FALSE]
                               ELSE sleepReq
                /\ mixer' = select_devices(mixer)
                /\ Goto(Play, "w_io")
                /\ UNCHANGED Locals
  /\ UNCHANGED <<alive, mode, out_device, in_device, in_source, mic_mute>>

\* Mutant of OutWriteIo: the final out_unlock is missing.
OutWriteIoNoUnlock ==
  /\ pc[Play] = "w_io"
  /\ Return(Play)
  /\ UNCHANGED <<owner, HwVars, sleepReq, alive, Device>>

\* Buffer regime, pacing and pcm_write (see WritePacing), then out_unlock.
OutWriteIo ==
  /\ pc[Play] = "w_io"
  /\ owner' = Release(owner, {Out})
  /\ Return(Play)
  /\ UNCHANGED <<HwVars, sleepReq, alive, Device>>

-----------------------------------------------------------------------------
(* in_read.  On leaving standby it takes adev->lock and, while an output   *)
(* is registered and not in standby, drops adev->lock and in->lock, locks  *)
(* out, in, adev in that order, then stops and restarts the output before  *)
(* starting the input.                                                     *)

InRead ==
  /\ pc[Rec] = "idle"
  /\ Goto(Rec, "r_lock")
  /\ UNCHANGED <<owner, HwVars, sleepReq, alive, Device, Locals>>

InReadLock ==
  /\ pc[Rec] = "r_lock"
  /\ owner[In] = NoThread
  /\ owner' = Take(owner, In, Rec)
  /\ Goto(Rec, IF standby[In] THEN "r_adev" ELSE "r_io")
  /\ UNCHANGED <<HwVars, sleepReq, alive, Device, Locals>>

\* Mutant of InReadAdev: in->lock is kept while out->lock is taken.
InReadAdevKeepsIn ==
  /\ pc[Rec] = "r_adev"
  /\ owner[Adev] = NoThread
  /\ LET out == IF active[Out] THEN Out ELSE NoStream
         loop == out # NoStream /\ ~standby[Out]
     IN  /\ owner' = IF loop THEN owner ELSE Take(owner, Adev, Rec)
         /\ peer' = [peer EXCEPT ![Rec] = out]
         /\ Goto(Rec, IF loop THEN "r_yield" ELSE "r_start")
  /\ UNCHANGED <<HwVars, sleepReq, alive, Device, restart, peerLocked, Args>>

\* adev_lock; out = adev->active_out; loop test; adev_unlock; in_unlock
InReadAdev ==
  /\ pc[Rec] = "r_adev"
  /\ owner[Adev] = NoThread
  /\ LET out == IF active[Out] THEN Out ELSE NoStream
         loop == out # NoStream /\ ~standby[Out]
     IN  /\ owner' = IF loop THEN Release(owner, {In})
                     ELSE Take(owner, Adev, Rec)
         /\ peer' = [peer EXCEPT ![Rec] = out]
         /\ Goto(Rec, IF loop THEN "r_yield" ELSE "r_start")
  /\ UNCHANGED <<HwVars, sleepReq, alive, Device, restart, peerLocked, Args>>

InReadYield ==
  /\ pc[Rec] = "r_yield"
  /\ sleepReq' = [sleepReq EXCEPT ![Out] = TRUE]
  /\ Goto(Rec, "r_outlock")
  /\ UNCHANGED <<owner, HwVars, alive, Device, Locals>>

InReadOutLock ==
  /\ pc[Rec] = "r_outlock"
  /\ owner[Out] = NoThread
  /\ owner' = Take(owner, Out, Rec)
  /\ Goto(Rec, "r_inlock")
  /\ UNCHANGED <<HwVars, sleepReq, alive, Device, Locals>>

InReadInLock ==
  /\ pc[Rec] = "r_inlock"
  /\ owner[In] = NoThread
  /\ owner' = Take(owner, In, Rec)
  /\ Goto(Rec, "r_recheck")
  /\ UNCHANGED <<HwVars, sleepReq, alive, Device, Locals>>

\* adev_lock; if (out == adev->active_out) { out_locked = true; break; }
\* otherwise out_unlock and re-read adev->active_out, then NULL.
InReadRecheck ==
  /\ pc[Rec] = "r_recheck"
  /\ owner[Adev] = NoThread
  /\ IF active[Out]
     THEN /\ owner' = Take(owner, Adev, Rec)
          /\ peerLocked' = [peerLocked EXCEPT ![Rec] = TRUE]
          /\ UNCHANGED peer
     ELSE /\ owner' = Take(Release(owner, {Out}), Adev, Rec)
          /\ peer' = [peer EXCEPT ![Rec] = NoStream]
          /\ UNCHANGED peerLocked
  /\ Goto(Rec, "r_start")
  /\ UNCHANGED <<HwVars, sleepReq, alive, Device, restart, Args>>

\* If the output is up: do_out_standby, start_output_stream, and
\* out->standby = false whatever it returned; out_unlock and
\* out->sleep_req = false when out_locked.  Then start_input_stream,
\* select_devices, select_input_source, adev_unlock; on failure the call
\* ends through "exit", releasing in->lock.
InReadStart ==
  /\ pc[Rec] = "r_start"
  /\ \E r1, r2 \in PcmOpenResults :
       LET out == peer[Rec]
           restartOut == out # NoStream /\ ~standby[Out]
           h1 == IF restartOut
                 THEN set_standby(start_stream(do_standby(Hw, Out), Out, r1),
                                  Out, FALSE)
                 ELSE Hw
           h2 == IF r2 = "ok"
                 THEN set_standby(start_stream(h1, In, "ok"), In, FALSE)
                 ELSE start_stream(h1, In, "fail")
           unlockOut == restartOut /\ peerLocked[Rec]
       IN  /\ CommitHw(h2)
           /\ owner' = Release(owner, {Adev}
                                \cup (IF unlockOut THEN {Out} ELSE {})
                                \cup (IF r2 = "ok" THEN {} ELSE {In}))
           /\ sleepReq' = IF unlockOut THEN [sleepReq EXCEPT ![Out] = FALSE]
                          ELSE sleepReq
           /\ mixer' = select_input_source(select_devices(mixer), in_source)
           /\ IF r2 = "ok" THEN /\ Goto(Rec, "r_io")
                                /\ UNCHANGED Locals
                           ELSE Return(Rec)
  /\ UNCHANGED <<alive, mode, out_device, in_device, in_source, mic_mute>>

\* read_frames or pcm_read, zeroing when mic_mute (see CaptureProvider),
\* then in_unlock.
InReadIo ==
  /\ pc[Rec] = "r_io"
  /\ owner' = Release(owner, {In})
  /\ Return(Rec)
  /\ UNCHANGED <<HwVars, sleepReq, alive, Device>>

-----------------------------------------------------------------------------
(* Standby, set_parameters and close calls of the two stream threads. *)

\* adev_lock; do_x_standby; adev_unlock; x_unlock.  After the standby of
\* a close call the thread goes on to free the stream.
StandbyAdev(t, s, from) ==
  /\ pc[t] = from
  /\ owner[Adev] = NoThread
  /\ CommitHw(do_standby(Hw, s))
  /\ owner' = Release(owner, {s})
  /\ IF from \in {"oc_adev", "ic_adev"}
     THEN /\ Goto(t, IF s = Out THEN "oc_free" ELSE "ic_free")
          /\ UNCHANGED Locals
     ELSE Return(t)
  /\ UNCHANGED <<sleepReq, alive, Device>>

OutStandby == Request(Play, Out, "os_lock") /\ UNCHANGED Args
OutStandbyLock == LockAndClear(Play, Out, "os_lock", "os_adev")
OutStandbyAdev == StandbyAdev(Play, Out, "os_adev")

\* adev_close_output_stream: out_standby, then free
CloseOutputStream == Request(Play, Out, "oc_lock") /\ UNCHANGED Args
CloseOutputLock == LockAndClear(Play, Out, "oc_lock", "oc_adev")
CloseOutputStandby == StandbyAdev(Play, Out, "oc_adev")

\* adev_close_output_stream: free(stream)
CloseOutputFree ==
  /\ pc[Play] = "oc_free"
  /\ alive' = [alive EXCEPT ![Out] = FALSE]
  /\ Goto(Play, "gone")
  /\ UNCHANGED <<owner, HwVars, sleepReq, Device, Locals>>

OutSetParameters ==
  /\ Request(Play, Out, "op_lock")
  /\ \E v \in OutRoutes : route' = [route EXCEPT ![Play] = v]
  /\ UNCHANGED <<source, state>>
OutSetParametersLock == LockAndClear(Play, Out, "op_lock", "op_adev")

\* Mutant of OutSetParametersAdev: the new routing is stored without the
\* forced standby.
OutSetParametersAdevNoStandby ==
  /\ pc[Play] = "op_adev"
  /\ owner[Adev] = NoThread
  /\ out_device' = IF out_device # route[Play] /\ route[Play] # {}
                   THEN route[Play] ELSE out_device
  /\ owner' = Release(owner, {Out})
  /\ Return(Play)
  /\ UNCHANGED <<HwVars, sleepReq, alive, mode, in_device, in_source,
                 mic_mute, mixer>>

\* A new non-zero routing forces standby unless in call, then is stored.
OutSetParametersAdev ==
  /\ pc[Play] = "op_adev"
  /\ owner[Adev] = NoThread
  /\ LET val == route[Play]
     IN  IF out_device # val /\ val # {}
         THEN /\ CommitHw(IF mode # "IN_CALL" THEN do_standby(Hw, Out) ELSE Hw)
              /\ out_device' = val
         ELSE UNCHANGED <<HwVars, out_device>>
  /\ owner' = Release(owner, {Out})
  /\ Return(Play)
  /\ UNCHANGED <<sleepReq, alive, mode, in_device, in_source, mic_mute, mixer>>

\* out_get_presentation_position: lock, read the handle, unlock.
GetPresentationPosition == Request(Play, Out, "pp_lock") /\ UNCHANGED Args
GetPresentationPositionLock ==
  /\ pc[Play] = "pp_lock"
  /\ owner[Out] = NoThread
  /\ sleepReq' = [sleepReq EXCEPT ![Out] = FALSE]
  /\ Return(Play)
  /\ UNCHANGED <<owner, HwVars, alive, Device>>

InStandby == Request(Rec, In, "is_lock") /\ UNCHANGED Args
InStandbyLock == LockAndClear(Rec, In, "is_lock", "is_adev")
InStandbyAdev == StandbyAdev(Rec, In, "is_adev")

\* adev_close_input_stream: in_standby, then the free below
CloseInputStream == Request(Rec, In, "ic_lock") /\ UNCHANGED Args
CloseInputLock == LockAndClear(Rec, In, "ic_lock", "ic_adev")
CloseInputStandby == StandbyAdev(Rec, In, "ic_adev")

\* adev_close_input_stream: adev_lock; free; active_in = NULL; adev_unlock
CloseInputFree ==
  /\ pc[Rec] = "ic_free"
  /\ owner[Adev] = NoThread
  /\ alive' = [alive EXCEPT ![In] = FALSE]
  /\ active' = [active EXCEPT ![In] = FALSE]
  /\ Goto(Rec, "gone")
  /\ UNCHANGED <<owner, standby, pcm, openOrder, sleepReq, Device, Locals>>

InSetParameters ==
  /\ Request(Rec, In, "ip_lock")
  /\ \E src \in Sources \cup {NoKey} : source' = [source EXCEPT ![Rec] = src]
  /\ \E v \in InRoutes : route' = [route EXCEPT ![Rec] = v]
  /\ UNCHANGED state
InSetParametersLock == LockAndClear(Rec, In, "ip_lock", "ip_adev")

\* Mutant of InSetParametersAdev: AUDIO_DEVICE_BIT_IN is not cleared.
InSetParametersAdevKeepsBitIn ==
  /\ pc[Rec] = "ip_adev"
  /\ owner[Adev] = NoThread
  /\ LET src == source[Rec]
         val == route[Rec]
         newSource == src # NoKey /\ src # in_source
     IN  /\ in_source' = IF newSource THEN src ELSE in_source
         /\ mixer' = IF newSource THEN select_input_source(mixer, src)
                     ELSE mixer
         /\ IF in_device # val /\ val # {}
            THEN /\ CommitHw(IF mode # "IN_CALL" THEN do_standby(Hw, In) ELSE Hw)
                 /\ in_device' = val
            ELSE UNCHANGED <<HwVars, in_device>>
  /\ owner' = Release(owner, {In})
  /\ Return(Rec)
  /\ UNCHANGED <<sleepReq, alive, mode, out_device, mic_mute>>

\* A new input source is stored and applied to the mixer at once; a new
\* non-zero routing (BIT_IN cleared) forces standby unless in call.
InSetParametersAdev ==
  /\ pc[Rec] = "ip_adev"
  /\ owner[Adev] = NoThread
  /\ LET src == source[Rec]
         val == route[Rec] \ {BitIn}
         newSource == src # NoKey /\ src # in_source
     IN  /\ in_source' = IF newSource THEN src ELSE in_source
         /\ mixer' = IF newSource THEN select_input_source(mixer, src)
                     ELSE mixer
         /\ IF in_device # val /\ val # {}
            THEN /\ CommitHw(IF mode # "IN_CALL" THEN do_standby(Hw, In) ELSE Hw)
                 /\ in_device' = val
            ELSE UNCHANGED <<HwVars, in_device>>
  /\ owner' = Release(owner, {In})
  /\ Return(Rec)
  /\ UNCHANGED <<sleepReq, alive, mode, out_device, mic_mute>>

-----------------------------------------------------------------------------
(* Device calls of the binder thread. *)

\* adev_set_mode: adev_lock; mode = m; adev_unlock
SetMode ==
  /\ pc[Binder] = "idle"
  /\ owner[Adev] = NoThread
  /\ \E m \in Modes : mode' = m
  /\ UNCHANGED <<owner, HwVars, sleepReq, alive, pc, Locals, out_device,
                 in_device, in_source, mic_mute, mixer>>

\* adev_set_mic_mute: in = adev->active_in, read without any lock.
SetMicMute ==
  /\ pc[Binder] = "idle"
  /\ \E b \in BOOLEAN :
       /\ state' = [state EXCEPT ![Binder] = b]
       /\ peer' = [peer EXCEPT ![Binder] = IF active[In] THEN In ELSE NoStream]
       /\ Goto(Binder, IF active[In] THEN "mm_yield" ELSE "mm_set")
  /\ UNCHANGED <<owner, HwVars, sleepReq, alive, Device, restart, peerLocked,
                 route, source>>

MicMuteYield ==
  /\ pc[Binder] = "mm_yield"
  /\ sleepReq' = [sleepReq EXCEPT ![In] = TRUE]
  /\ Goto(Binder, "mm_lock")
  /\ UNCHANGED <<owner, HwVars, alive, Device, Locals>>

MicMuteLock == LockAndClear(Binder, In, "mm_lock", "mm_adev")

\* adev_lock; standby unless in call (the RIL mutes calls); adev_unlock;
\* in_unlock
MicMuteAdev ==
  /\ pc[Binder] = "mm_adev"
  /\ owner[Adev] = NoThread
  /\ CommitHw(IF mode # "IN_CALL" THEN do_standby(Hw, In) ELSE Hw)
  /\ owner' = Release(owner, {In})
  /\ Goto(Binder, "mm_set")
  /\ UNCHANGED <<sleepReq, alive, Device, Locals>>

\* adev->mic_mute = state, written without any lock
MicMuteSet ==
  /\ pc[Binder] = "mm_set"
  /\ mic_mute' = state[Binder]
  /\ Return(Binder)
  /\ UNCHANGED <<owner, HwVars, sleepReq, alive, mode, out_device,
                 in_device, in_source, mixer>>

-----------------------------------------------------------------------------
(* The specification. *)

Init ==
  /\ owner = [l \in Locks |-> NoThread]
  /\ standby = [s \in Streams |-> TRUE]
  /\ pcm = [s \in Streams |-> "null"]
  /\ active = [s \in Streams |-> FALSE]
  /\ sleepReq = [s \in Streams |-> FALSE]
  /\ alive = [s \in Streams |-> TRUE]
  /\ mode = "NORMAL"
  /\ out_device = {}
  /\ in_device = {}
  /\ in_source = "DEFAULT"
  /\ mic_mute = FALSE
  /\ mixer = [c \in MixerCtls |-> "boot"]
  /\ pc = [t \in Threads |-> "idle"]
  /\ peer = [t \in Threads |-> NoStream]
  /\ restart = [t \in Threads |-> FALSE]
  /\ peerLocked = [t \in Threads |-> FALSE]
  /\ route = [t \in Threads |-> {}]
  /\ source = [t \in Threads |-> NoKey]
  /\ state = [t \in Threads |-> FALSE]
  /\ openOrder = <<>>

\* Calls a thread may start when idle; the framework need not make any.
PlayCall == OutWrite \/ OutStandby \/ OutSetParameters
              \/ GetPresentationPosition \/ CloseOutputStream
RecCall == InRead \/ InStandby \/ InSetParameters \/ CloseInputStream
BinderCall == SetMode \/ SetMicMute

\* The steps of a call in progress.
PlayStep ==
  \/ OutWriteLock \/ OutWriteAdev \/ OutWriteYield \/ OutWriteInLock
  \/ OutWriteRecheck \/ OutWriteStart \/ OutWriteIo
  \/ OutStandbyLock \/ OutStandbyAdev
  \/ CloseOutputLock \/ CloseOutputStandby \/ CloseOutputFree
  \/ OutSetParametersLock \/ OutSetParametersAdev
  \/ GetPresentationPositionLock
RecStep ==
  \/ InReadLock \/ InReadAdev \/ InReadYield \/ InReadOutLock
  \/ InReadInLock \/ InReadRecheck \/ InReadStart \/ InReadIo
  \/ InStandbyLock \/ InStandbyAdev
  \/ CloseInputLock \/ CloseInputStandby \/ CloseInputFree
  \/ InSetParametersLock \/ InSetParametersAdev
BinderStep == MicMuteYield \/ MicMuteLock \/ MicMuteAdev \/ MicMuteSet

Next ==
  \/ PlayCall \/ RecCall \/ BinderCall
  \/ PlayStep \/ RecStep \/ BinderStep

(* A call in progress is not abandoned, and a thread waiting for a mutex  *)
(* that is released again and again eventually gets it.  pcm_write and    *)
(* pcm_read run under the stream lock; the window comes from sleep_req:   *)
(* the holder, asked to yield, sleeps 10 ms before taking its lock again  *)
(* (out_write 755-759, in_read 1195-1199).                                *)
Fairness ==
  /\ SF_vars(PlayStep)
  /\ SF_vars(RecStep)
  /\ SF_vars(BinderStep)

Spec == Init /\ [][Next]_vars /\ Fairness

-----------------------------------------------------------------------------
(* Properties. *)

Labels == {"idle", "gone", "w_lock", "w_adev", "w_yield", "w_inlock",
           "w_recheck", "w_start", "w_io", "r_lock", "r_adev", "r_yield",
           "r_outlock", "r_inlock", "r_recheck", "r_start", "r_io",
           "os_lock", "os_adev", "oc_lock", "oc_adev", "oc_free", "op_lock", "op_adev", "pp_lock",
           "is_lock", "is_adev", "ic_lock", "ic_adev", "ic_free", "ip_lock", "ip_adev",
           "mm_yield", "mm_lock", "mm_adev", "mm_set"}

TypeOK ==
  /\ owner \in [Locks -> Threads \cup {NoThread}]
  /\ standby \in [Streams -> BOOLEAN]
  /\ pcm \in [Streams -> {"null", "open", "closed"}]
  /\ active \in [Streams -> BOOLEAN]
  /\ sleepReq \in [Streams -> BOOLEAN]
  /\ alive \in [Streams -> BOOLEAN]
  /\ mode \in Modes
  /\ out_device \in SUBSET OutDeviceBits
  /\ in_device \in SUBSET InDeviceBits
  /\ in_source \in Sources
  /\ mic_mute \in BOOLEAN
  /\ pc \in [Threads -> Labels]
  /\ peer \in [Threads -> Streams \cup {NoStream}]
  /\ restart \in [Threads -> BOOLEAN]
  /\ peerLocked \in [Threads -> BOOLEAN]
  /\ route \in [Threads -> SUBSET (OutDeviceBits \cup InDeviceBits \cup {BitIn})]
  /\ source \in [Threads -> Sources \cup {NoKey}]
  /\ state \in [Threads -> BOOLEAN]
  /\ openOrder \in Seq(Streams)

Idle(t) == pc[t] \in {"idle", "gone"}

(* Every call returns with none of the three mutexes held: out_write,     *)
(* in_read and the setters release each lock they took on every path,    *)
(* including the arbitration loops and the error exits.                   *)
LocksReleasedOnReturn ==
  \A t \in Threads : Idle(t) => \A l \in Locks : owner[l] # t

(* A stream is out of standby exactly when it holds an open PCM handle    *)
(* and is the one registered in adev->active_out / active_in: the         *)
(* standby, start and restart sequences of out_write and in_read keep the *)
(* three pieces of state in step.                                         *)
ActiveStreamsConsistent ==
  \A s \in Streams :
    /\ ~standby[s] <=> pcm[s] = "open"
    /\ active[s] <=> ~standby[s]

(* Whenever both directions are open, the capture PCM was opened after    *)
(* the playback PCM: out_write stops the input before starting the output *)
(* and restarts it afterwards, and in_read restarts a running output      *)
(* before starting the input.                                             *)
CaptureOpenedAfterPlayback ==
  Len(openOrder) = 2 => openOrder = <<Out, In>>

(* Every call that has started eventually returns: the lock order out,    *)
(* in, adev and the retry loops of out_write and in_read cannot deadlock  *)
(* or spin forever.                                                       *)
CallsReturn == \A t \in Threads : ~Idle(t) ~> Idle(t)

(* While the output is running outside a call, the mixer's playback path  *)
(* is the one select_devices derives from adev->out_device, and while the *)
(* input is running, its capture path and input source match in_device    *)
(* and in_source: routing changes reach the mixer through the standby     *)
(* that set_parameters forces and the select_devices of the restart.      *)
RoutingApplied ==
  mode = "NORMAL" =>
    /\ ~standby[Out] /\ PlaybackPath(out_device) # NoChange
         => mixer["Playback Path"] = PlaybackPath(out_device)
    /\ ~standby[In]
         => /\ mixer["Capture MIC Path"] = CapturePath(in_device)
            /\ mixer["Input Source"] = SourceName(in_source)

(* The steps at which a thread holds a pointer to the other stream, read  *)
(* from adev->active_in / active_out, that it will dereference.           *)
HoldsPeer ==
  {"w_yield", "w_inlock", "w_recheck", "w_start", "r_yield", "r_outlock",
   "r_inlock", "r_recheck", "r_start", "mm_yield", "mm_lock", "mm_adev"}

(* No thread dereferences a stream that adev_close_input_stream or        *)
(* adev_close_output_stream has freed: the pointer a thread took from     *)
(* adev->active_in / active_out before dropping adev->lock still points   *)
(* at a live stream when it sets sleep_req on it or locks it.             *)
NoUseAfterFree ==
  \A t \in Threads :
    pc[t] \in HoldsPeer /\ peer[t] # NoStream => alive[peer[t]]

(* The stream whose sleep_req thread t has set and will clear or wait on. *)
YieldTarget(t) ==
  CASE pc[t] \in {"os_lock", "oc_lock", "op_lock", "pp_lock"} -> Out
    [] pc[t] \in {"is_lock", "ic_lock", "ip_lock", "mm_lock"} -> In
    [] pc[t] \in {"w_inlock", "w_recheck", "w_start", "r_outlock",
                  "r_inlock", "r_recheck", "r_start"}        -> peer[t]
    [] OTHER                                                 -> NoStream

(* The comment in out_write and in_read: sleep_req is true only while     *)
(* another thread is waiting to reconfigure the audio path, so the 10 ms  *)
(* sleep it causes is never paid without a reason.                        *)
NoStaleYieldRequest ==
  \A s \in Streams : sleepReq[s] => \E t \in Threads : YieldTarget(t) = s

====
