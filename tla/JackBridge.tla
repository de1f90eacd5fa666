----------------------------- MODULE JackBridge -----------------------------
(***************************************************************************)
(* The frame handshake between the shim and the JACK server: the shim's    *)
(* lib/schwung_jack_bridge.c on the SPI thread, and the shadow driver      *)
(* lib/jack2/shadow/JackShadowDriver.cpp in JACK's own process, over one   *)
(* page of shared memory and a futex.                                      *)
(*                                                                         *)
(* The shim wakes JACK once a frame by counting frame_counter up, and      *)
(* stops doing so when JACK has fallen behind; JACK's wait times out, so   *)
(* that it gets going again.  JACK may be killed and started at any time.  *)
(* A block of audio is two halves, each the parity of the JACK cycle that  *)
(* wrote it.                                                               *)
(***************************************************************************)
EXTENDS Integers

CONSTANTS
  FrameSpan  \* values of the uint32_t counters

ASSUME FrameAssumption == FrameSpan \in Nat /\ FrameSpan > 4

VARIABLES
  frame_counter,    \* shm->frame_counter
  jack_frame_done,  \* shm->jack_frame_done
  audio_ready,      \* the byte at offset 3940
  audio_out,        \* shm->audio_out: its left and its right half
  snapshot,         \* s_jack_audio_snapshot
  valid,            \* s_jack_audio_valid
  spi,              \* where the SPI thread is in its frame
  jack,             \* where JACK's driver thread is: pc, last, cycle
  late,             \* history: JACK's latest block came at a bad time
  replays           \* history: mixes since JACK last finished a block

shm     == <<frame_counter, jack_frame_done, audio_ready, audio_out>>
copied  == <<snapshot, valid>>
history == <<late, replays>>
vars    == <<shm, copied, spi, jack, history>>

(* 2 frames of grace, and one more that is under way. *)
Grace      == 2
MaxReplays == Grace + 1

Init ==
  /\ frame_counter = 0 /\ jack_frame_done = 0
  /\ audio_ready = FALSE
  /\ audio_out = [left |-> 0, right |-> 0]
  /\ snapshot = [left |-> 0, right |-> 0]
  /\ valid = FALSE
  /\ spi = "test"
  /\ jack = [pc |-> "gone", last |-> 0, cycle |-> 0]
  /\ late = FALSE /\ replays = 0

(* Frames JACK is behind, in the arithmetic of uint32_t. *)
Behind == (frame_counter - jack_frame_done) % FrameSpan

(* Mutant: one frame of grace too many. *)
ActiveLonger == Behind <= Grace + 1

(* jack_is_active *)
Active == Behind <= Grace

-----------------------------------------------------------------------------
(* The SPI thread: schwung_jack_bridge_wake, then the mix. *)

SpiGoes(from, to) == spi = from /\ spi' = to

(* Mutant: JACK is woken whether or not it keeps up. *)
WakeAlways ==
  /\ SpiGoes("test", IF audio_ready THEN "copy" ELSE "clear")
  /\ UNCHANGED <<shm, copied, jack, history>>

WakeTest ==
  /\ SpiGoes("test", IF ~Active THEN "mix"
                     ELSE IF audio_ready THEN "copy" ELSE "clear")
  /\ UNCHANGED <<shm, copied, jack, history>>

WakeCopyLeft ==
  /\ SpiGoes("copy", "rest")
  /\ snapshot' = [snapshot EXCEPT !.left = audio_out.left]
  /\ UNCHANGED <<shm, valid, jack, history>>

WakeCopyRight ==
  /\ SpiGoes("rest", "clear")
  /\ snapshot' = [snapshot EXCEPT !.right = audio_out.right]
  /\ valid' = TRUE
  /\ UNCHANGED <<shm, jack, history>>

(* Mutant: the flag of the block before stays up. *)
WakeKeeps ==
  /\ SpiGoes("clear", "count")
  /\ UNCHANGED <<shm, copied, jack, history>>

WakeClear ==
  /\ SpiGoes("clear", "count")
  /\ audio_ready' = FALSE
  /\ UNCHANGED <<frame_counter, jack_frame_done, audio_out, copied, jack,
                 history>>

NextFrame == (frame_counter + 1) % FrameSpan

WakeCount ==
  /\ SpiGoes("count", "mix")
  /\ frame_counter' = NextFrame
  /\ UNCHANGED <<jack_frame_done, audio_ready, audio_out, copied, jack,
                 history>>

(* Mutant: whatever was copied last is mixed. *)
MixAny ==
  /\ SpiGoes("mix", "test")
  /\ replays' = IF valid /\ replays <= MaxReplays THEN replays + 1 ELSE replays
  /\ UNCHANGED <<shm, copied, jack, late>>

(* schwung_jack_bridge_read_audio, in the mix: nothing is mixed when JACK  *)
(* is not active or nothing was copied yet.                                *)
Mix ==
  /\ SpiGoes("mix", "test")
  /\ replays' = IF Active /\ valid /\ replays <= MaxReplays
                THEN replays + 1 ELSE replays
  /\ UNCHANGED <<shm, copied, jack, late>>

InWake == spi \in {"copy", "rest", "clear", "count"}

SpiStep ==
  \/ WakeTest \/ WakeCopyLeft \/ WakeCopyRight \/ WakeClear \/ WakeCount \/ Mix

-----------------------------------------------------------------------------
(* JACK: JackShadowDriver::Attach and Process. *)

Attach ==
  /\ jack.pc = "gone"
  /\ jack' = [jack EXCEPT !.pc = "wait", !.last = frame_counter]
  /\ UNCHANGED <<shm, copied, spi, history>>

(* The server is stopped or crashes. *)
Dies ==
  /\ jack.pc # "gone"
  /\ jack' = [jack EXCEPT !.pc = "gone"]
  /\ UNCHANGED <<shm, copied, spi, history>>

NewCycle ==
  jack' = [pc |-> "left", last |-> frame_counter, cycle |-> 1 - jack.cycle]

(* futex_wait returns at once when the counter has moved already. *)
Woken ==
  /\ jack.pc = "wait"
  /\ frame_counter # jack.last
  /\ NewCycle
  /\ UNCHANGED <<shm, copied, spi, history>>

(* Mutant: the wait has no timeout. *)
NeverTimesOut ==
  /\ jack.pc = "wait"
  /\ FALSE
  /\ UNCHANGED vars

(* 10 ms without a wake. *)
TimesOut ==
  /\ jack.pc = "wait"
  /\ frame_counter = jack.last
  /\ NewCycle
  /\ late' = Active
  /\ UNCHANGED <<shm, copied, spi, replays>>

JackGoes(from, to) == jack.pc = from /\ jack' = [jack EXCEPT !.pc = to]

WriteLeft ==
  /\ JackGoes("left", "right")
  /\ audio_out' = [audio_out EXCEPT !.left = jack.cycle]
  /\ UNCHANGED <<frame_counter, jack_frame_done, audio_ready, copied, spi,
                 history>>

WriteRight ==
  /\ JackGoes("right", "ready")
  /\ audio_out' = [audio_out EXCEPT !.right = jack.cycle]
  /\ UNCHANGED <<frame_counter, jack_frame_done, audio_ready, copied, spi,
                 history>>

(* late: the next wake has passed the flag by, or is about to. *)
SignalReady ==
  /\ JackGoes("ready", "done")
  /\ audio_ready' = TRUE
  /\ late' = (frame_counter # jack.last \/ InWake)
  /\ UNCHANGED <<frame_counter, jack_frame_done, audio_out, copied, spi,
                 replays>>

SignalDone ==
  /\ JackGoes("done", "graph")
  /\ jack_frame_done' = jack.last
  /\ replays' = 0
  /\ UNCHANGED <<frame_counter, audio_ready, audio_out, copied, spi, late>>

(* The clients' callbacks, and back to the wait. *)
RunGraph ==
  /\ JackGoes("graph", "wait")
  /\ UNCHANGED <<shm, copied, spi, history>>

JackStep ==
  \/ Woken \/ TimesOut \/ WriteLeft \/ WriteRight \/ SignalReady \/ SignalDone
  \/ RunGraph

-----------------------------------------------------------------------------

Next == SpiStep \/ JackStep \/ Attach \/ Dies

Spec == Init /\ [][Next]_vars

(* A JACK that runs is scheduled, and the timer of its wait runs off. *)
FairSpec == Spec /\ WF_vars(JackStep)

-----------------------------------------------------------------------------
(* Properties *)

Block == [left : {0, 1}, right : {0, 1}]

TypeOK ==
  /\ frame_counter \in 0 .. FrameSpan - 1
  /\ jack_frame_done \in 0 .. FrameSpan - 1
  /\ audio_ready \in BOOLEAN
  /\ audio_out \in Block /\ snapshot \in Block
  /\ valid \in BOOLEAN
  /\ spi \in {"test", "copy", "rest", "clear", "count", "mix"}
  /\ jack \in [pc : {"gone", "wait", "left", "right", "ready", "done", "graph"},
               last : 0 .. FrameSpan - 1, cycle : {0, 1}]
  /\ late \in BOOLEAN
  /\ replays \in 0 .. MaxReplays + 1

(* The counter never runs away from JACK: it stops three frames ahead, so  *)
(* that the 32 bits cannot wrap round to a JACK that died long ago and     *)
(* make it look active.                                                    *)
NeverFarAhead == Behind <= MaxReplays

(* A JACK that has stopped, wherever it stopped, is heard for at most      *)
(* three frames more.                                                      *)
DeadIsSilent == replays <= MaxReplays

(* A JACK that misses the next wake with its block is skipped, and does    *)
(* not have half of one block and half of another played: the flag, not    *)
(* the futex, keeps the copy off a block in writing.  (Not when JACK's     *)
(* flag went up inside or after the next wake, nor when its wait ran out   *)
(* because the SPI thread was stuck: then the next cycle writes with the   *)
(* flag up.)                                                               *)
WholeUnlessLate ==
  [][spi = "rest" /\ spi' = "clear" /\ ~late =>
       snapshot'.left = snapshot'.right]_vars

(* A JACK that runs gets active again by itself, although nobody wakes one *)
(* that is not.                                                            *)
Recovers == jack.pc # "gone" /\ ~Active ~> Active \/ jack.pc = "gone"
=============================================================================
