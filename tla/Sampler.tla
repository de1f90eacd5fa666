------------------------------ MODULE Sampler -------------------------------
(***************************************************************************)
(* The quantized sampler: the state machine of host/shadow_sampler.c with  *)
(* the handlers of schwung_shim.c that drive it, on top of the recording   *)
(* machinery of SamplerWriter.                                             *)
(*                                                                         *)
(* Every action of this module runs on the SPI thread; only the writer's   *)
(* steps run beside it.  A handler that records a block or stops a         *)
(* recording is several steps (the writer interleaves with them), and      *)
(* "todo" is what the SPI thread goes on with afterwards: no other handler *)
(* starts before it is "none".                                             *)
(***************************************************************************)
EXTENDS SamplerWriter

CONSTANTS
  Durations,      \* sampler_duration_options: bars, 0 = until stopped
  PulsesPerBar,   \* 4 * 24
  BlocksPerBar,   \* audio blocks of a bar at the tempi sampler_get_bpm returns
  DoneFrames,     \* SAMPLER_OVERLAY_DONE_FRAMES
  MaxPulses       \* bound on the clocks counted in a recording without end

ASSUME SamplerAssumption ==
  /\ Durations \in Seq(Nat) /\ Durations # <<>>
  /\ PulsesPerBar \in Nat \ {0}
  /\ BlocksPerBar \subseteq Nat \ {0} /\ BlocksPerBar # {}
  /\ DoneFrames \in Nat \ {0}
  /\ MaxPulses \in Nat

VARIABLES
  state,            \* sampler_state
  todo,             \* how the SPI thread's current handler goes on
  duration_index,   \* sampler_duration_index, from 1
  preroll_enabled,  \* sampler_preroll_enabled
  pre,              \* the pre-roll counters
  rec,              \* the recording counters
  preroll_samples,  \* sampler_preroll_frames_captured, in samples
  fullscreen,       \* sampler_fullscreen_active
  overlay,          \* sampler_overlay_active
  overlay_timeout,  \* sampler_overlay_timeout
  saved,            \* how the last session's file ended
  recording_from    \* history: samples published when state became RECORDING

menuVars  == <<duration_index, preroll_enabled>>
uiVars    == <<fullscreen, overlay, overlay_timeout>>
smVars    == <<state, todo, menuVars, pre, rec, preroll_samples, uiVars, saved,
               recording_from>>
vars      == <<recVars, smVars>>

States == {"IDLE", "ARMED", "PREROLL", "RECORDING", "PAUSED"}
Todo   == {"none", "count", "save", "cancel"}

Bars == Durations[duration_index]

NoCount == [clocks |-> 0, blocks |-> 0, target_pulses |-> 0, target_blocks |-> 0]
NewRec  == [clocks |-> 0, blocks |-> 0, target_pulses |-> 0, target_blocks |-> 0,
            clock_received |-> FALSE]
NoFile  == [ending |-> "none", data |-> <<>>]

Init ==
  /\ RecInit
  /\ state = "IDLE"
  /\ todo = "none"
  /\ duration_index \in 1 .. Len(Durations)
  /\ preroll_enabled = FALSE
  /\ pre = NoCount
  /\ rec = NewRec
  /\ preroll_samples = 0
  /\ fullscreen = FALSE
  /\ overlay = FALSE
  /\ overlay_timeout = 0
  /\ saved = NoFile
  /\ recording_from = 0

(* The SPI thread is between two handlers. *)
Ready == spi = "idle" /\ todo = "none"

(* Counters for a recording of the chosen duration; the fallback length    *)
(* depends on the tempo found at that moment.                              *)
RecordingOf(bars, perBar) ==
  [NewRec EXCEPT !.target_pulses = bars * PulsesPerBar,
                 !.target_blocks = bars * perBar]

-----------------------------------------------------------------------------
(* Starting. *)

(* sampler_start_recording, on a trigger while armed without pre-roll. *)
StartRecording ==
  /\ StartWriter
  /\ state' = "RECORDING"
  /\ preroll_samples' = 0
  /\ \E b \in BlocksPerBar : rec' = RecordingOf(Bars, b)
  /\ overlay' = TRUE
  /\ overlay_timeout' = 0
  /\ saved' = NoFile
  /\ recording_from' = 0
  /\ UNCHANGED <<todo, menuVars, pre, fullscreen>>

(* sampler_start_preroll records already while it counts in. *)
StartPreroll ==
  /\ StartWriter
  /\ state' = "PREROLL"
  /\ preroll_samples' = 0
  /\ \E b \in BlocksPerBar :
       pre' = [NoCount EXCEPT !.target_pulses = Bars * PulsesPerBar,
                              !.target_blocks = Bars * b]
  /\ fullscreen' = TRUE
  /\ overlay' = TRUE
  /\ saved' = NoFile
  /\ UNCHANGED <<todo, menuVars, rec, overlay_timeout, recording_from>>

WantsPreroll == preroll_enabled /\ Bars > 0

(* A pad, a note of cable 2 or MIDI Start while armed. *)
Trigger ==
  /\ Ready
  /\ state = "ARMED"
  /\ IF WantsPreroll THEN StartPreroll ELSE StartRecording

(* The ring cannot be allocated, the file cannot be opened or the thread   *)
(* cannot be created: a pre-roll falls back to IDLE with the overlay as it *)
(* was, a plain recording stays armed.                                     *)
TriggerFails ==
  /\ Ready
  /\ state = "ARMED"
  /\ WantsPreroll
  /\ state' = "IDLE"
  /\ preroll_samples' = 0
  /\ \E b \in BlocksPerBar :
       pre' = [NoCount EXCEPT !.target_pulses = Bars * PulsesPerBar,
                              !.target_blocks = Bars * b]
  /\ saved' = NoFile
  /\ UNCHANGED <<recVars, todo, menuVars, rec, uiVars, recording_from>>

(* sampler_start_recording_to, for a tool of the shadow UI: sampler_cmd 1. *)
(* It leaves the overlay alone and records until it is stopped.            *)
ToolStart ==
  /\ Ready
  /\ StartWriter
  /\ state' = "RECORDING"
  /\ preroll_samples' = 0
  /\ rec' = NewRec
  /\ saved' = NoFile
  /\ recording_from' = 0
  /\ UNCHANGED <<todo, menuVars, pre, uiVars>>

-----------------------------------------------------------------------------
(* Stopping: sampler_stop_recording signals and joins the writer, then     *)
(* saves the file or, during pre-roll, removes it.                         *)

BeginStop(next) ==
  /\ RequestStop
  /\ todo' = next

(* The file is opened "wb", so the fread of the trimming loop returns 0    *)
(* and the loop ends before it has moved anything; ftruncate then cuts the *)
(* file to the length of the recording.                                    *)
TrimmedFile ==
  IF preroll_samples > 0 /\ preroll_samples < Len(file)
  THEN SubSeq(file, 1, Len(file) - preroll_samples)
  ELSE file

SaveFile ==
  /\ spi = "idle"
  /\ todo = "save"
  /\ ~running
  /\ saved' = [ending |-> "saved", data |-> TrimmedFile]
  /\ state' = "IDLE"
  /\ todo' = "none"
  /\ overlay' = TRUE
  /\ overlay_timeout' = DoneFrames
  /\ UNCHANGED <<recVars, menuVars, pre, rec, preroll_samples, fullscreen,
                 recording_from>>

RemoveFile ==
  /\ spi = "idle"
  /\ todo = "cancel"
  /\ ~running
  /\ saved' = [ending |-> "removed", data |-> <<>>]
  /\ state' = "ARMED"
  /\ todo' = "none"
  /\ UNCHANGED <<recVars, menuVars, pre, rec, preroll_samples, uiVars,
                 recording_from>>

(* Mutant: a count-in is saved like a recording. *)
StopSavesAlways ==
  /\ BeginStop("save")
  /\ UNCHANGED <<state, menuVars, pre, preroll_samples, uiVars, saved,
                 recording_from>>

StopRecording ==
  /\ BeginStop(IF state = "PREROLL" THEN "cancel" ELSE "save")
  /\ UNCHANGED <<state, menuVars, pre, preroll_samples, uiVars, saved,
                 recording_from>>

(* Shift+Sample or Sample while counting in or recording. *)
SampleButtonStops ==
  /\ Ready
  /\ state \in {"PREROLL", "RECORDING"}
  /\ StopRecording
  /\ UNCHANGED rec

(* MIDI Stop (0xFC); sampler_ext_stop holds it off a recording only. *)
MidiStop(external_stop_only) ==
  /\ Ready
  /\ \/ state = "PREROLL"
     \/ state = "RECORDING" /\ ~external_stop_only
  /\ StopRecording
  /\ UNCHANGED rec

(* sampler_cmd 2, 3 and 4. *)
ToolStop ==
  /\ Ready
  /\ state \in {"RECORDING", "PAUSED"}
  /\ StopRecording
  /\ UNCHANGED rec

ToolPause ==
  /\ Ready
  /\ state = "RECORDING"
  /\ state' = "PAUSED"
  /\ UNCHANGED <<recVars, todo, menuVars, pre, rec, preroll_samples, uiVars,
                 saved, recording_from>>

ToolResume ==
  /\ Ready
  /\ state = "PAUSED"
  /\ state' = "RECORDING"
  /\ UNCHANGED <<recVars, todo, menuVars, pre, rec, preroll_samples, uiVars,
                 saved, recording_from>>

-----------------------------------------------------------------------------
(* The clock and the audio frames that count in and count down. *)

(* The pre-roll is over: the machinery runs on, the counters start anew.   *)
Flip ==
  /\ overlay' = TRUE
  /\ overlay_timeout' = 0
  /\ recording_from' = published

CountedIn == pre.clocks + 1 >= pre.target_pulses

(* A clock pulse (0xF8) of cable 0.  The pulse that ends the pre-roll is   *)
(* also the first of the recording, in the same call.                      *)
PrerollClock ==
  /\ Ready
  /\ state = "PREROLL"
  /\ ~CountedIn
  /\ pre' = [pre EXCEPT !.clocks = @ + 1]
  /\ UNCHANGED <<recVars, state, todo, menuVars, rec, preroll_samples, uiVars,
                 saved, recording_from>>

Pulse(r) == [r EXCEPT !.clocks = @ + 1, !.clock_received = TRUE]

(* Mutant: one pulse too many. *)
ReachedLate(r) == r.target_pulses > 0 /\ r.clocks > r.target_pulses

Reached(r) == r.target_pulses > 0 /\ r.clocks >= r.target_pulses

FlipClock ==
  /\ Ready
  /\ state = "PREROLL"
  /\ CountedIn
  /\ pre' = [pre EXCEPT !.clocks = @ + 1]
  /\ state' = "RECORDING"
  /\ Flip
  /\ \E b \in BlocksPerBar : rec' = Pulse(RecordingOf(Bars, b))
  /\ IF Reached(rec')
     THEN BeginStop("save")
     ELSE UNCHANGED <<recVars, todo>>
  /\ UNCHANGED <<menuVars, preroll_samples, fullscreen, saved>>

RecordingClock ==
  /\ Ready
  /\ state = "RECORDING"
  /\ rec.clocks < MaxPulses
  /\ rec' = Pulse(rec)
  /\ IF Reached(rec')
     THEN StopRecording
     ELSE UNCHANGED <<recVars, state, todo, menuVars, pre, preroll_samples,
                      uiVars, saved, recording_from>>

(* One audio block: sampler_capture_audio_common.  It is dropped when the  *)
(* ring is full.                                                           *)
CaptureBlock ==
  /\ Ready
  /\ state \in {"PREROLL", "RECORDING"}
  /\ FillBlock
  /\ preroll_samples' = IF state = "PREROLL"
                        THEN preroll_samples + BlockSamples
                        ELSE preroll_samples
  /\ todo' = "count"
  /\ UNCHANGED <<state, menuVars, pre, rec, uiVars, saved, recording_from>>

(* Mutant: a dropped block counts as samples to trim. *)
DropCounted ==
  /\ Ready
  /\ state \in {"PREROLL", "RECORDING"}
  /\ ~RingHasRoom
  /\ preroll_samples' = IF state = "PREROLL"
                        THEN preroll_samples + BlockSamples
                        ELSE preroll_samples
  /\ todo' = "count"
  /\ UNCHANGED <<recVars, state, menuVars, pre, rec, uiVars, saved,
                 recording_from>>

DropBlock ==
  /\ Ready
  /\ state \in {"PREROLL", "RECORDING"}
  /\ ~RingHasRoom
  /\ todo' = "count"
  /\ UNCHANGED <<recVars, state, menuVars, pre, rec, preroll_samples, uiVars,
                 saved, recording_from>>

(* The rest of the frame: the fallback timer of a recording that has seen  *)
(* no clock, then sampler_tick_preroll.                                    *)
Counting == spi = "idle" /\ todo = "count"

(* Mutant: the fallback timer runs only once a clock was seen. *)
FallbackNeedsClock ==
  /\ Counting
  /\ state = "RECORDING"
  /\ IF rec.clock_received /\ rec.target_blocks > 0
     THEN /\ rec' = [rec EXCEPT !.blocks = @ + 1]
          /\ IF rec'.blocks >= rec.target_blocks
             THEN BeginStop("save")
             ELSE todo' = "none" /\ UNCHANGED recVars
     ELSE todo' = "none" /\ UNCHANGED <<recVars, rec>>
  /\ UNCHANGED <<state, menuVars, pre, preroll_samples, uiVars, saved,
                 recording_from>>

CountRecordingBlock ==
  /\ Counting
  /\ state = "RECORDING"
  /\ IF ~rec.clock_received /\ rec.target_blocks > 0
     THEN /\ rec' = [rec EXCEPT !.blocks = @ + 1]
          /\ IF rec'.blocks >= rec.target_blocks
             THEN BeginStop("save")
             ELSE todo' = "none" /\ UNCHANGED recVars
     ELSE todo' = "none" /\ UNCHANGED <<recVars, rec>>
  /\ UNCHANGED <<state, menuVars, pre, preroll_samples, uiVars, saved,
                 recording_from>>

(* Mutant: only the clock ends the count-in. *)
PrerollNeedsClock ==
  /\ Counting
  /\ state = "PREROLL"
  /\ pre' = [pre EXCEPT !.blocks = @ + 1]
  /\ todo' = "none"
  /\ UNCHANGED <<recVars, state, menuVars, rec, preroll_samples, uiVars, saved,
                 recording_from>>

CountPrerollBlock ==
  /\ Counting
  /\ state = "PREROLL"
  /\ pre' = [pre EXCEPT !.blocks = @ + 1]
  /\ IF pre'.blocks >= pre.target_blocks
     THEN /\ state' = "RECORDING"
          /\ Flip
          /\ \E b \in BlocksPerBar : rec' = RecordingOf(Bars, b)
     ELSE UNCHANGED <<state, rec, overlay, overlay_timeout, recording_from>>
  /\ todo' = "none"
  /\ UNCHANGED <<recVars, menuVars, preroll_samples, fullscreen, saved>>

-----------------------------------------------------------------------------
(* The sampler's buttons and its overlay. *)

Arm(display_mode) ==
  /\ Ready
  /\ state = "IDLE"
  /\ ~display_mode
  /\ state' = "ARMED"
  /\ fullscreen' = TRUE
  /\ overlay' = TRUE
  /\ overlay_timeout' = 0
  /\ UNCHANGED <<recVars, todo, menuVars, pre, rec, preroll_samples, saved,
                 recording_from>>

(* Shift+Sample with the sampler hidden shows it, whatever it is doing. *)
Show ==
  /\ Ready
  /\ state # "IDLE"
  /\ ~fullscreen
  /\ fullscreen' = TRUE
  /\ overlay' = TRUE
  /\ overlay_timeout' = 0
  /\ UNCHANGED <<recVars, state, todo, menuVars, pre, rec, preroll_samples,
                 saved, recording_from>>

(* Mutant: Shift+Sample abandons whatever the sampler is doing. *)
DisarmAlways ==
  /\ Ready
  /\ state # "IDLE"
  /\ fullscreen
  /\ state' = "IDLE"
  /\ fullscreen' = FALSE
  /\ overlay' = FALSE
  /\ UNCHANGED <<recVars, todo, menuVars, pre, rec, preroll_samples,
                 overlay_timeout, saved, recording_from>>

Disarm ==
  /\ Ready
  /\ state = "ARMED"
  /\ fullscreen
  /\ state' = "IDLE"
  /\ fullscreen' = FALSE
  /\ overlay' = FALSE
  /\ UNCHANGED <<recVars, todo, menuVars, pre, rec, preroll_samples,
                 overlay_timeout, saved, recording_from>>

(* Back hides it. *)
Hide ==
  /\ Ready
  /\ state # "IDLE"
  /\ fullscreen
  /\ fullscreen' = FALSE
  /\ overlay' = FALSE
  /\ overlay_timeout' = 0
  /\ UNCHANGED <<recVars, state, todo, menuVars, pre, rec, preroll_samples,
                 saved, recording_from>>

(* Jog click on the duration or the pre-roll line of the menu. *)
ChooseDuration ==
  /\ Ready
  /\ state = "ARMED"
  /\ fullscreen
  /\ duration_index' = (duration_index % Len(Durations)) + 1
  /\ UNCHANGED <<recVars, state, todo, preroll_enabled, pre, rec,
                 preroll_samples, uiVars, saved, recording_from>>

TogglePreroll ==
  /\ Ready
  /\ state = "ARMED"
  /\ fullscreen
  /\ preroll_enabled' = ~preroll_enabled
  /\ UNCHANGED <<recVars, state, todo, duration_index, pre, rec,
                 preroll_samples, uiVars, saved, recording_from>>

(* The "saved" message goes away after DoneFrames display frames. *)
OverlayTick ==
  /\ Ready
  /\ state = "IDLE"
  /\ overlay \/ fullscreen
  /\ overlay_timeout > 0
  /\ overlay_timeout' = overlay_timeout - 1
  /\ IF overlay_timeout' = 0
     THEN overlay' = FALSE /\ fullscreen' = FALSE
     ELSE UNCHANGED <<overlay, fullscreen>>
  /\ UNCHANGED <<recVars, state, todo, menuVars, pre, rec, preroll_samples,
                 saved, recording_from>>

-----------------------------------------------------------------------------

(* Steps of SamplerWriter under a handler in progress. *)
Machinery ==
  /\ \/ PublishBlock \/ SignalBlock("idle") \/ SignalExit \/ JoinWriter("idle")
     \/ WriterStep \/ SpuriousWake
  /\ UNCHANGED smVars

Frame == CaptureBlock \/ DropBlock

Count == CountRecordingBlock \/ CountPrerollBlock

Clock == PrerollClock \/ FlipClock \/ RecordingClock

Stop == SampleButtonStops \/ (\E e \in BOOLEAN : MidiStop(e)) \/ ToolStop

Buttons ==
  \/ \E d \in BOOLEAN : Arm(d)
  \/ Show \/ Disarm \/ Hide \/ ChooseDuration \/ TogglePreroll

Next ==
  \/ Trigger \/ TriggerFails \/ ToolStart
  \/ Stop \/ SaveFile \/ RemoveFile \/ ToolPause \/ ToolResume
  \/ Frame \/ Count \/ Clock
  \/ Buttons \/ OverlayTick
  \/ Machinery

Spec == Init /\ [][Next]_vars

(* The writer is scheduled; the SPI thread finishes the handler it is in   *)
(* and gets the mutex although the writer keeps taking it; audio frames    *)
(* keep coming between the other handlers.                                 *)
FinishHandler ==
  \/ Machinery /\ (PublishBlock \/ JoinWriter("idle"))
  \/ SaveFile \/ RemoveFile \/ Count

Fairness ==
  /\ WF_vars(Machinery /\ WriterStep)
  /\ WF_vars(FinishHandler)
  /\ SF_vars(Machinery /\ (SignalBlock("idle") \/ SignalExit))
  /\ SF_vars(Frame)

FairSpec == Spec /\ Fairness

-----------------------------------------------------------------------------
(* Properties *)

Counter == [clocks : Nat, blocks : Nat, target_pulses : Nat,
            target_blocks : Nat]

TypeOK ==
  /\ state \in States
  /\ todo \in Todo
  /\ duration_index \in 1 .. Len(Durations)
  /\ preroll_enabled \in BOOLEAN
  /\ pre \in Counter
  /\ rec \in [clocks : Nat, blocks : Nat, target_pulses : Nat,
             target_blocks : Nat, clock_received : BOOLEAN]
  /\ preroll_samples \in Nat
  /\ fullscreen \in BOOLEAN
  /\ overlay \in BOOLEAN
  /\ overlay_timeout \in 0 .. DoneFrames
  /\ saved \in [ending : {"none", "saved", "removed"},
               data : Seq(Nat \cup {NoSample})]
  /\ recording_from \in Nat

(* The writer thread lives exactly while the sampler counts in, records or *)
(* is paused: no path through the buttons, the clock, the timers, the tool *)
(* commands and the failures leaks the thread, the ring and the open file, *)
(* or is left in a state whose capture and stop would find them gone.      *)
MachineryMatchesState ==
  todo \notin {"save", "cancel"} =>
    (running <=> state \in {"PREROLL", "RECORDING", "PAUSED"})

(* Nothing is recorded past the chosen duration: neither the clock nor the *)
(* fallback timer is ever found at its target between two handlers, and a  *)
(* count-in that has reached one has been left.                            *)
NeverPastTarget ==
  Ready =>
    /\ state = "RECORDING" /\ rec.target_blocks > 0 =>
         rec.clocks < rec.target_pulses /\ rec.blocks < rec.target_blocks
    /\ state = "PREROLL" =>
         pre.clocks < pre.target_pulses /\ pre.blocks < pre.target_blocks

Recorded == published - recording_from

(* A saved file is as long as the recording proper, whatever stopped it:   *)
(* the count of samples to trim is right even when blocks were dropped. And *)
(* without a count-in it is everything that was recorded, from the first    *)
(* sample to the last.                                                     *)
SavedFileComplete ==
  saved.ending = "saved" =>
    /\ Recorded > 0 => Len(saved.data) = Recorded
    /\ recording_from = 0 => saved.data = [i \in 1 .. published |-> i - 1]

(* A cancelled count-in leaves no file, and leaves the sampler armed for   *)
(* the next trigger.                                                       *)
CancelRemovesFile ==
  [][state = "PREROLL" /\ state' \notin {"PREROLL", "RECORDING"} =>
       state' = "ARMED" /\ saved'.ending = "removed"]_vars

(* A recording of a chosen duration ends without any clock.                *)
FallbackEnds ==
  state = "RECORDING" /\ rec.target_blocks > 0 ~>
    state # "RECORDING" \/ rec.clock_received

(* The count-in ends, by the clock or by the fallback timer.               *)
PrerollEnds == state = "PREROLL" ~> state # "PREROLL"

(* "We rewrite it to contain only [actual recording]": the saved file is   *)
(* what was captured since the state became RECORDING.                     *)
SavedIsRecording ==
  saved.ending = "saved" /\ Recorded > 0 =>
    saved.data = [i \in 1 .. Recorded |-> recording_from + i - 1]
=============================================================================
