------------------------------ MODULE Skipback ------------------------------
(***************************************************************************)
(* The skipback of host/shadow_sampler.c: a rolling buffer of the latest   *)
(* audio that the SPI thread fills, a detached thread that saves it and    *)
(* detached threads that resize it.  skipback_saving is the only lock      *)
(* between them; it is tested and set in separate steps.                   *)
(*                                                                         *)
(* Lengths are in samples (the code's seconds times a constant).  The n-th *)
(* sample captured is the number n.  Two threads inside the buffer at once *)
(* are a data race, whose outcome C leaves undefined: the model stops      *)
(* there (Exclusive).                                                      *)
(***************************************************************************)
EXTENDS Integers, Sequences

CONSTANTS
  BlockSamples,   \* SAMPLER_FRAMES_PER_BLOCK * SAMPLER_NUM_CHANNELS
  Lengths,        \* the lengths the settings page offers
  DefaultLength,  \* skipback_seconds_setting at boot
  Resizers,       \* the resize threads that may run at a time
  MaxSaves,       \* bound on the saves
  MaxHeard,       \* bound on the samples captured
  MaxFailures     \* bound on the failures of the system's calls

ASSUME SkipbackAssumption ==
  /\ BlockSamples \in Nat \ {0}
  /\ Lengths \subseteq Nat
  /\ \A n \in Lengths : n > BlockSamples
  /\ DefaultLength \in Lengths
  /\ MaxSaves \in Nat /\ MaxHeard \in Nat /\ MaxFailures \in Nat

VARIABLES
  skipback_buffer,
  total_samples,     \* skipback_total_samples; 0 while there is no buffer
  write_pos,
  buffer_full,
  saving,            \* skipback_saving
  setting,           \* skipback_seconds_setting
  desired,           \* shadow_control->skipback_seconds
  spi,               \* where the SPI thread is: pc, and the total and position
                     \* skipback_capture has loaded
  saver,             \* where the thread of each save is
  saves,             \* saves triggered so far
  resizer,           \* where each resize thread is: pc, sec
  saved,             \* the samples of the last file written
  heard,             \* history: samples captured so far
  failures,          \* history: calls that have failed
  overtaken          \* history: a resize has taken the flag between a test
                     \* of the SPI thread and what that thread then did

ring    == <<skipback_buffer, total_samples, write_pos, buffer_full>>
wishes  == <<setting, desired>>
savers  == <<saver, saves, saved>>
vars    == <<ring, saving, wishes, spi, savers, resizer, heard, failures,
             overtaken>>

Places(total) == 0 .. total - 1

Blank(total) == [p \in Places(total) |-> 0]

Init ==
  /\ skipback_buffer = Blank(0) /\ total_samples = 0
  /\ write_pos = 0 /\ buffer_full = FALSE
  /\ saving = FALSE
  /\ setting = DefaultLength /\ desired = DefaultLength
  /\ spi = [pc |-> "idle", total |-> 0, wp |-> 0]
  /\ saver = [s \in 1 .. MaxSaves |-> "none"] /\ saves = 0 /\ saved = <<>>
  /\ resizer = [r \in Resizers |-> [pc |-> "none", sec |-> 0]]
  /\ heard = 0 /\ failures = 0 /\ overtaken = FALSE

Fails == failures < MaxFailures /\ failures' = failures + 1

-----------------------------------------------------------------------------
(* The SPI thread. *)

SpiIdle == spi.pc = "idle"

SpiGoes(to) == spi' = [spi EXCEPT !.pc = to]

(* skipback_init, called in every frame. *)
InitBuffer ==
  /\ SpiIdle /\ total_samples = 0
  /\ skipback_buffer' = Blank(setting)
  /\ total_samples' = setting
  /\ write_pos' = 0
  /\ buffer_full' = FALSE
  /\ UNCHANGED <<saving, wishes, spi, savers, resizer, heard, failures,
                 overtaken>>

(* skipback_capture: the test, the loads, the block. *)
CaptureTest ==
  /\ SpiIdle /\ total_samples > 0
  /\ ~saving
  /\ heard < MaxHeard
  /\ SpiGoes("capture")
  /\ UNCHANGED <<ring, saving, wishes, savers, resizer, heard, failures,
                 overtaken>>

CaptureLoad ==
  /\ spi.pc = "capture"
  /\ spi' = [pc |-> "write", total |-> total_samples, wp |-> write_pos]
  /\ UNCHANGED <<ring, saving, wishes, savers, resizer, heard, failures,
                 overtaken>>

Advance(wp, n, total) == (wp + n) % total

Wrapped(old, new) == new < old

CaptureBlock ==
  /\ spi.pc = "write"
  /\ LET after == Advance(spi.wp, BlockSamples, spi.total)
     IN /\ skipback_buffer' =
             [p \in DOMAIN skipback_buffer |->
                LET i == (p - spi.wp) % spi.total
                IN IF i < BlockSamples THEN heard + i + 1
                                       ELSE skipback_buffer[p]]
        /\ buffer_full' = (buffer_full \/ Wrapped(spi.wp, after))
        /\ write_pos' = after
  /\ heard' = heard + BlockSamples
  /\ SpiGoes("idle")
  /\ UNCHANGED <<total_samples, saving, wishes, savers, resizer, failures,
                 overtaken>>

(* skipback_trigger_save: the test, then the flag and the thread. *)
TriggerTest ==
  /\ SpiIdle /\ total_samples > 0
  /\ ~saving
  /\ saves < MaxSaves
  /\ SpiGoes("trigger")
  /\ UNCHANGED <<ring, saving, wishes, savers, resizer, heard, failures,
                 overtaken>>

TriggerSave ==
  /\ spi.pc = "trigger"
  /\ SpiGoes("idle")
  /\ \/ /\ saving' = TRUE
        /\ saves' = saves + 1
        /\ saver' = [saver EXCEPT ![saves + 1] = "open"]
        /\ UNCHANGED failures
     \/ /\ Fails
        /\ saving' = FALSE
        /\ UNCHANGED <<saver, saves>>
  /\ UNCHANGED <<ring, wishes, saved, resizer, heard, overtaken>>

(* The poll of shadow_control->skipback_seconds: one thread per new wish.  *)
PollLength ==
  /\ SpiIdle
  /\ desired # total_samples
  /\ setting # desired
  /\ setting' = desired
  /\ \/ /\ \E r \in Resizers :
             /\ resizer[r].pc = "none"
             /\ resizer' = [resizer EXCEPT ![r].pc = "start"]
        /\ UNCHANGED failures
     \/ Fails /\ UNCHANGED resizer
  /\ UNCHANGED <<ring, saving, desired, spi, savers, heard, overtaken>>

SpiStep ==
  \/ InitBuffer \/ CaptureTest \/ CaptureLoad \/ CaptureBlock
  \/ TriggerTest \/ TriggerSave \/ PollLength

-----------------------------------------------------------------------------
(* The settings page. *)

ChooseLength ==
  /\ desired' \in Lengths \ {desired}
  /\ UNCHANGED <<ring, saving, setting, spi, savers, resizer, heard, failures,
                 overtaken>>

-----------------------------------------------------------------------------
(* The thread of a save, skipback_writer_func. *)

(* The samples of the ring, oldest first. *)
Unrolled ==
  IF buffer_full
  THEN [i \in 1 .. total_samples |->
          skipback_buffer[(write_pos + i - 1) % total_samples]]
  ELSE [i \in 1 .. write_pos |-> skipback_buffer[i - 1]]

SaverGoes(s, from, to) ==
  saver[s] = from /\ saver' = [saver EXCEPT ![s] = to]

SaveOpens(s) ==
  /\ SaverGoes(s, "open", "read")
  /\ UNCHANGED <<ring, saving, wishes, spi, saves, saved, resizer, heard,
                 failures, overtaken>>

(* Mutant: the early return leaves the flag set. *)
SaveFailsHolding(s) ==
  /\ SaverGoes(s, "open", "none")
  /\ Fails
  /\ UNCHANGED <<ring, saving, wishes, spi, saves, saved, resizer, heard,
                 overtaken>>

(* No date, no directory, no file. *)
SaveFails(s) ==
  /\ SaverGoes(s, "open", "none")
  /\ Fails
  /\ saving' = FALSE
  /\ UNCHANGED <<ring, wishes, spi, saves, saved, resizer, heard, overtaken>>

SaveWrites(s) ==
  /\ SaverGoes(s, "read", "release")
  /\ saved' = IF Unrolled = <<>> THEN saved ELSE Unrolled
  /\ UNCHANGED <<ring, saving, wishes, spi, saves, resizer, heard, failures,
                 overtaken>>

SaveReleases(s) ==
  /\ SaverGoes(s, "release", "none")
  /\ saving' = FALSE
  /\ UNCHANGED <<ring, wishes, spi, saves, saved, resizer, heard, failures,
                 overtaken>>

SaveStep(s) ==
  SaveOpens(s) \/ SaveFails(s) \/ SaveWrites(s) \/ SaveReleases(s)

-----------------------------------------------------------------------------
(* A resize thread, skipback_resize. *)

ResizeGoes(r, from, to) ==
  resizer[r].pc = from /\ resizer' = [resizer EXCEPT ![r].pc = to]

(* The thread reads the setting before it waits for the mutex. *)
ResizeStarts(r) ==
  /\ resizer[r].pc = "start"
  /\ resizer' = [resizer EXCEPT ![r] = [pc |-> "lock", sec |-> setting]]
  /\ UNCHANGED <<ring, saving, wishes, spi, savers, heard, failures,
                 overtaken>>

InMutex ==
  {r \in Resizers : resizer[r].pc \in {"flag", "copy", "swap", "release"}}

ResizeLocks(r) ==
  /\ InMutex = {}
  /\ ResizeGoes(r, "lock",
                IF total_samples = 0 \/ resizer[r].sec = total_samples
                THEN "none" ELSE "flag")
  /\ UNCHANGED <<ring, saving, wishes, spi, savers, heard, failures,
                 overtaken>>

(* Mutant: the exchange does not compare. *)
ResizeTakesAnyway(r) ==
  /\ ResizeGoes(r, "flag", "copy")
  /\ saving' = TRUE
  /\ overtaken' = (overtaken \/ (~saving /\ ~SpiIdle))
  /\ UNCHANGED <<ring, wishes, spi, savers, heard, failures>>

(* The compare-and-swap of the flag; a save in progress defers the resize. *)
ResizeTakes(r) ==
  /\ ResizeGoes(r, "flag", IF saving THEN "none" ELSE "copy")
  /\ saving' = TRUE
  /\ overtaken' = (overtaken \/ (~saving /\ ~SpiIdle))
  /\ UNCHANGED <<ring, wishes, spi, savers, heard, failures>>

ResizeAllocates(r) ==
  /\ \/ ResizeGoes(r, "copy", "swap") /\ UNCHANGED failures
     \/ ResizeGoes(r, "copy", "release") /\ Fails
  /\ UNCHANGED <<ring, saving, wishes, spi, savers, heard, overtaken>>

(* Mutant: a smaller buffer gets the oldest samples. *)
KeptOldest(sec) ==
  SubSeq(Unrolled, 1, IF Len(Unrolled) < sec THEN Len(Unrolled) ELSE sec)

(* The samples a buffer of the new length takes over: the newest. *)
Kept(sec) ==
  LET keep == IF Len(Unrolled) < sec THEN Len(Unrolled) ELSE sec
  IN  SubSeq(Unrolled, Len(Unrolled) - keep + 1, Len(Unrolled))

ResizeSwaps(r) ==
  /\ ResizeGoes(r, "swap", "release")
  /\ LET sec == resizer[r].sec
         kept == Kept(sec)
     IN /\ skipback_buffer' = [p \in Places(sec) |->
                                 IF p < Len(kept) THEN kept[p + 1] ELSE 0]
        /\ total_samples' = sec
        /\ write_pos' = IF Len(kept) < sec THEN Len(kept) ELSE 0
        /\ buffer_full' = (Len(kept) = sec)
  /\ UNCHANGED <<saving, wishes, spi, savers, heard, failures, overtaken>>

ResizeReleases(r) ==
  /\ ResizeGoes(r, "release", "none")
  /\ saving' = FALSE
  /\ UNCHANGED <<ring, wishes, spi, savers, heard, failures, overtaken>>

ResizeStep(r) ==
  \/ ResizeStarts(r) \/ ResizeLocks(r) \/ ResizeTakes(r) \/ ResizeAllocates(r)
  \/ ResizeSwaps(r) \/ ResizeReleases(r)

-----------------------------------------------------------------------------

Reading  == {s \in 1 .. MaxSaves : saver[s] = "read"}
Swapping == {r \in Resizers : resizer[r].pc = "swap"}

(* "skipback_saving==1 now gates skipback_capture/amend on the audio       *)
(* thread": a thread that changes the buffer is alone inside it.           *)
Exclusive ==
  /\ spi.pc = "write" => Reading \cup Swapping = {}
  /\ Swapping # {} => Reading = {}

Next ==
  /\ Exclusive
  /\ \/ SpiStep
     \/ ChooseLength
     \/ \E s \in 1 .. MaxSaves : SaveStep(s)
     \/ \E r \in Resizers : ResizeStep(r)

Spec == Init /\ [][Next]_vars

(* The detached threads run, and the SPI thread comes round again and      *)
(* again to each of its tasks.                                             *)
FairSpec ==
  /\ Spec
  /\ WF_vars(Exclusive /\ (CaptureLoad \/ CaptureBlock \/ TriggerSave))
  /\ WF_vars(Exclusive /\ PollLength)
  /\ \A s \in 1 .. MaxSaves : WF_vars(Exclusive /\ SaveStep(s))
  /\ \A r \in Resizers : WF_vars(Exclusive /\ ResizeStep(r))

-----------------------------------------------------------------------------
(* Properties *)

TypeOK ==
  /\ total_samples \in Lengths \cup {0}
  /\ skipback_buffer \in [Places(total_samples) -> 0 .. heard]
  /\ write_pos \in 0 .. total_samples
  /\ total_samples > 0 => write_pos < total_samples
  /\ buffer_full \in BOOLEAN /\ saving \in BOOLEAN
  /\ setting \in Lengths /\ desired \in Lengths
  /\ spi \in [pc : {"idle", "capture", "write", "trigger"},
              total : Lengths \cup {0}, wp : Nat]
  /\ saver \in [1 .. MaxSaves -> {"none", "open", "read", "release"}]
  /\ saves \in 0 .. MaxSaves
  /\ resizer \in [Resizers -> [pc : {"none", "start", "lock", "flag", "copy",
                                     "swap", "release"},
                               sec : Lengths \cup {0}]]
  /\ saved \in Seq(1 .. heard)
  /\ heard \in Nat /\ failures \in 0 .. MaxFailures
  /\ overtaken \in BOOLEAN

(* Whatever is captured, saved and resized in whatever order, the buffer   *)
(* holds the latest samples, as many as its length allows, and a file is   *)
(* those samples in order: the modulo arithmetic of the three loops, the   *)
(* wrap flag and the bookkeeping after a resize agree with each other.     *)
Tape == INSTANCE RollingTape
          WITH capacity <- total_samples, Capacities <- Lengths,
               tape <- Unrolled

RollingSpec == Tape!TapeSpec

(* The flag keeps the threads apart, over any number of captures, saves,   *)
(* resizes and failures of them, with one exception: a resize that takes   *)
(* the flag after the SPI thread has found it free and before that thread  *)
(* has written its block or raised the flag for a save.  Otherwise a save  *)
(* and a resize never clear the flag of each other.                        *)
ExclusiveUnlessOvertaken == ~overtaken => Exclusive

(* The flag is not left set: no return path of the two threads forgets it, *)
(* after which nothing would be captured, saved or resized any more.       *)
FlagReleased == saving ~> ~saving \/ ~Exclusive
=============================================================================
