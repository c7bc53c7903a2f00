---------------------------- MODULE CaptureFifo ----------------------------
(***************************************************************************)
(* What the capture path of an input stream promises its caller: frames   *)
(* are handed on in the order the hardware captured them, left channel    *)
(* only, each at most once.  A hardware read fetches one period, and only *)
(* when nothing captured is still waiting (the provider never reads       *)
(* ahead); a direct read bypasses the buffer only when it is empty; a     *)
(* restart of the stream drops what was waiting.  The hardware may have   *)
(* lost frames (an overrun) before any read.                               *)
(*                                                                         *)
(* A read call collects frames as pending and returns them at its end:    *)
(* as silence when the microphone is muted at that moment, after a        *)
(* successful read; as they are when the call fails, which happens only  *)
(* when a hardware read was needed.                                       *)
(***************************************************************************)
EXTENDS Integers, Sequences

CONSTANTS
  PeriodSize,  \* frames fetched by one hardware read
  MaxFrames    \* bound on the frames the hardware captures

VARIABLES
  next,        \* the first frame the hardware has not yet handed over
  fifo,        \* frames fetched and not yet handed on
  pending,     \* frames taken by the read call in progress
  delivered,   \* frames handed on, in order
  mic_mute     \* the microphone is muted

Frame(f) == <<f, "L">>
Frames(a, n) == [i \in 1 .. n |-> Frame(a + i - 1)]
Zero == <<-1, "zero">>

\* What the caller hears of frames s returned by a successful read.
AsHeard(s) == IF mic_mute THEN [i \in DOMAIN s |-> Zero] ELSE s

Init ==
  /\ next = 0
  /\ fifo = <<>>
  /\ pending = <<>>
  /\ delivered = <<>>
  /\ mic_mute = FALSE

Fetch ==
  /\ fifo = <<>>
  /\ \E a \in next .. MaxFrames - PeriodSize :
       /\ fifo' = Frames(a, PeriodSize)
       /\ next' = a + PeriodSize
  /\ UNCHANGED <<pending, delivered, mic_mute>>

Take ==
  /\ \E k \in 1 .. Len(fifo) :
       /\ pending' = pending \o SubSeq(fifo, 1, k)
       /\ fifo' = SubSeq(fifo, k + 1, Len(fifo))
  /\ UNCHANGED <<next, delivered, mic_mute>>

Return ==
  /\ delivered' = delivered \o AsHeard(pending)
  /\ pending' = <<>>
  /\ UNCHANGED <<next, fifo, mic_mute>>

Fail ==
  /\ fifo = <<>>
  /\ delivered' = delivered \o pending
  /\ pending' = <<>>
  /\ UNCHANGED <<next, fifo, mic_mute>>

ReadDirect ==
  /\ fifo = <<>> /\ pending = <<>>
  /\ \E a \in next .. MaxFrames, n \in 1 .. PeriodSize :
       /\ a + n <= MaxFrames
       /\ delivered' = delivered \o AsHeard(Frames(a, n))
       /\ next' = a + n
  /\ UNCHANGED <<fifo, pending, mic_mute>>

Drop ==
  /\ pending = <<>>
  /\ fifo' = <<>>
  /\ UNCHANGED <<next, pending, delivered, mic_mute>>

Mute ==
  /\ mic_mute' \in BOOLEAN
  /\ UNCHANGED <<next, fifo, pending, delivered>>

Next == Fetch \/ Take \/ Return \/ Fail \/ ReadDirect \/ Drop \/ Mute

Spec == Init /\ [][Next]_<<next, fifo, pending, delivered, mic_mute>>

=============================================================================
