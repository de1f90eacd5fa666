----------------------------- MODULE MidiInject -----------------------------
(***************************************************************************)
(* Injection of MIDI into Move's MIDI_IN (host/shadow_midi.c): the queue   *)
(* of ShmQueue with a second writer, the SPI thread itself (MIDI FX in Pre *)
(* mode, the overtake module, the button releases at the end of overtake), *)
(* and a drain that waits for MIDI_IN to be quiet, takes at most           *)
(* MaxPerTick packets and carries the rest over.                           *)
(*                                                                         *)
(* The SPI thread is one thread: it writes only when it is not draining.   *)
(***************************************************************************)
EXTENDS ShmQueue

CONSTANTS
  MaxPerTick,   \* packets injected in one frame
  DeferFrames,  \* DEFER_FRAMES
  MaxChain,     \* bound on the packets the SPI thread writes
  MaxBusy       \* bound on the frames in which Move's hardware sends MIDI

ASSUME InjectAssumption ==
  /\ MaxPerTick \in Nat \ {0}
  /\ DeferFrames \in Nat
  /\ MaxChain \in Nat
  /\ MaxBusy \in Nat

VARIABLES
  spi,            \* where the SPI thread's writer is
  spi_offset,     \* its local wr
  chain_sent,     \* packets it has written
  defer_counter,  \* the drain's static of that name
  busy,           \* history: frames with hardware events so far
  quiet,          \* history: frames since the drain last saw one
  wrapped         \* history: write_idx has gone from its last value to 0

spiVars    == <<spi, spi_offset, chain_sent>>
deferVars  == <<defer_counter, busy, quiet>>
injectVars == <<queueVars, spiVars, deferVars, wrapped>>

InjectInit ==
  /\ QueueInit
  /\ spi = "idle"
  /\ spi_offset = 0
  /\ chain_sent = 0
  /\ defer_counter = 0
  /\ busy = 0
  /\ quiet = 0
  /\ wrapped = FALSE

(* The SPI thread is between two functions. *)
SpiFree == spi = "idle" /\ drain = "idle"

-----------------------------------------------------------------------------
(* shadow_chain_midi_inject: one packet, refused when the buffer is full.  *)

ChainPacket == [by |-> "chain", n |-> chain_sent + 1]

ChainWrite ==
  /\ SpiFree
  /\ chain_sent < MaxChain
  /\ write_idx + 1 <= Slots
  /\ buffer' = [buffer EXCEPT ![write_idx] = ChainPacket]
  /\ spi_offset' = write_idx
  /\ chain_sent' = chain_sent + 1
  /\ spi' = "store"
  /\ UNCHANGED <<write_idx, ready, uiVars, drainVars, deferVars, wrapped>>

ChainStore ==
  /\ spi = "store"
  /\ write_idx' = (spi_offset + 1) % IdxSpan
  /\ wrapped' = (wrapped \/ spi_offset + 1 = IdxSpan)
  /\ spi' = "signal"
  /\ UNCHANGED <<buffer, ready, uiVars, drainVars, spi_offset, chain_sent,
                 deferVars>>

ChainSignal ==
  /\ spi = "signal"
  /\ ready' = (ready + 1) % ReadySpan
  /\ spi' = "idle"
  /\ UNCHANGED <<buffer, write_idx, uiVars, drainVars, spi_offset, chain_sent,
                 deferVars, wrapped>>

ChainStep == ChainStore \/ ChainSignal

(* The shadow UI's writer, move_midi_inject_to_move. *)
JsStep ==
  /\ UiCall \/ UiStep
  /\ wrapped' = (wrapped \/ (ui = "store" /\ ui_offset + 1 = IdxSpan))
  /\ UNCHANGED <<spiVars, deferVars>>

-----------------------------------------------------------------------------
(* shadow_drain_midi_inject, once a frame. *)

(* Mutant: the frames of quiet need not follow the last hardware event.    *)
DrainForgetsBusy ==
  /\ SpiFree
  /\ busy < MaxBusy
  /\ busy' = busy + 1
  /\ quiet' = 0
  /\ UNCHANGED <<queueVars, spiVars, defer_counter, wrapped>>

(* Some MIDI_IN slot holds an event of the hardware. *)
DrainDefers ==
  /\ SpiFree
  /\ busy < MaxBusy
  /\ busy' = busy + 1
  /\ defer_counter' = 0
  /\ quiet' = 0
  /\ UNCHANGED <<queueVars, spiVars, wrapped>>

(* Quiet, but not for long enough. *)
DrainWaits ==
  /\ SpiFree
  /\ defer_counter < DeferFrames
  /\ defer_counter' = defer_counter + 1
  /\ quiet' = quiet + 1
  /\ UNCHANGED <<queueVars, spiVars, busy, wrapped>>

DrainBegins ==
  /\ spi = "idle"
  /\ defer_counter >= DeferFrames
  /\ Notice
  /\ UNCHANGED <<spiVars, deferVars, wrapped>>

DrainTakes ==
  /\ Snapshot \/ ResetIdx \/ Wipe
  /\ UNCHANGED <<spiVars, deferVars, wrapped>>

Least(a, b) == IF a < b THEN a ELSE b

(* The packets the free slots of MIDI_IN take in this frame. *)
Fits == Least(MaxPerTick, Len(local_buf))

(* At most IdxSpan - 1 packets are carried over. *)
Carried(taken) ==
  SubSeq(local_buf, taken + 1,
         taken + Least(Len(local_buf) - taken, IdxSpan - 1))

(* Mutant: what one frame does not take is dropped. *)
InjectDropsRest(taken) ==
  /\ drain = "deliver"
  /\ delivered' = delivered \o SubSeq(local_buf, 1, taken)
  /\ drain' = "idle"
  /\ local_buf' = <<>>
  /\ UNCHANGED <<buffer, write_idx, ready, uiVars, last_ready, spiVars,
                 defer_counter, wrapped>>

(* The first packets go to MIDI_IN, the rest back to the buffer. *)
Inject(taken) ==
  /\ drain = "deliver"
  /\ delivered' = delivered \o SubSeq(local_buf, 1, taken)
  /\ IF Carried(taken) = <<>>
     THEN drain' = "idle" /\ local_buf' = <<>> /\ UNCHANGED buffer
     ELSE /\ buffer' = [p \in Places |-> IF p < Len(Carried(taken))
                                         THEN Carried(taken)[p + 1]
                                         ELSE buffer[p]]
          /\ local_buf' = Carried(taken)
          /\ drain' = "rearm"
  /\ UNCHANGED <<write_idx, ready, uiVars, last_ready, spiVars,
                 defer_counter, wrapped>>

InjectFrame == Inject(Fits) /\ UNCHANGED <<busy, quiet>>

(* A hardware event appears in MIDI_IN after the check: the loop stops,    *)
(* and defer_counter stays.                                                *)
InjectInterrupted ==
  /\ busy < MaxBusy
  /\ \E taken \in 0 .. Fits - 1 : Inject(taken)
  /\ busy' = busy + 1
  /\ UNCHANGED quiet

(* Mutant: the carried packets are not announced. *)
RearmSilent ==
  /\ drain = "rearm"
  /\ write_idx' = Len(local_buf)
  /\ local_buf' = <<>>
  /\ drain' = "idle"
  /\ UNCHANGED <<buffer, ready, uiVars, last_ready, delivered, spiVars,
                 deferVars, wrapped>>

Rearm ==
  /\ drain = "rearm"
  /\ write_idx' = Len(local_buf)
  /\ ready' = (ready + 1) % ReadySpan
  /\ local_buf' = <<>>
  /\ drain' = "idle"
  /\ UNCHANGED <<buffer, uiVars, last_ready, delivered, spiVars, deferVars,
                 wrapped>>

DrainOn == DrainWaits \/ DrainBegins \/ DrainTakes \/ InjectFrame \/ Rearm

-----------------------------------------------------------------------------

InjectNext ==
  \/ ChainWrite \/ ChainStep \/ JsStep
  \/ DrainDefers \/ InjectInterrupted \/ DrainOn

InjectSpec == InjectInit /\ [][InjectNext]_injectVars

(* The SPI loop comes round to the drain; Move's hardware is quiet in the  *)
(* end (MaxBusy).                                                          *)
InjectFairSpec ==
  InjectSpec /\ WF_injectVars(DrainOn) /\ WF_injectVars(ChainStep)

-----------------------------------------------------------------------------
(* Properties *)

InjectTypeOK ==
  /\ QueueTypeOK
  /\ spi \in {"idle", "store", "signal"}
  /\ spi_offset \in 0 .. IdxSpan - 1
  /\ chain_sent \in 0 .. MaxChain
  /\ defer_counter \in 0 .. DeferFrames
  /\ busy \in 0 .. MaxBusy
  /\ quiet \in Nat
  /\ wrapped \in BOOLEAN

(* What the SPI thread has written and not yet handed on, oldest first.    *)
Waiting ==
  CASE drain \in {"reset", "wipe", "deliver", "rearm"} -> local_buf
    [] spi = "store" -> [i \in 1 .. write_idx + 1 |-> buffer[i - 1]]
    [] OTHER         -> [i \in 1 .. write_idx |-> buffer[i - 1]]

(* As long as the SPI thread is the only writer and write_idx has not      *)
(* wrapped, injection is a queue: every accepted packet is delivered once  *)
(* and in order, or waits, whatever the rate limit splits and carries.     *)
FifoUnlessWrapped ==
  sent = 0 /\ ui = "idle" /\ ~wrapped =>
    delivered \o Waiting =
      [i \in 1 .. chain_sent |-> [by |-> "chain", n |-> i]]

(* No interleaving of the two writers and the drain delivers a packet      *)
(* twice: not even a stale offset brings back what was handed on. And until *)
(* write_idx wraps, the packets of the SPI thread that arrive do so in the *)
(* order they were accepted, though the shadow UI may overwrite some: a    *)
(* note-off never overtakes its note-on.  (The shadow UI's own packets     *)
(* may: one written at offset 0 after the reset replaces a packet carried  *)
(* over, and is delivered before the others carried over.)                 *)
OnceInOrder ==
  \A i, j \in 1 .. Len(delivered) :
    i < j /\ delivered[i] # Empty =>
      /\ delivered[i] # delivered[j]
      /\ ~wrapped /\ delivered[i].by = "chain" /\ delivered[j].by = "chain"
         => delivered[i].n < delivered[j].n

(* Nothing is injected within DeferFrames frames of a frame in which the   *)
(* drain found a hardware event.                                           *)
InjectsInQuiet ==
  [][delivered' # delivered /\ busy > 0 => quiet >= DeferFrames]_injectVars

(* Once the hardware is quiet the queue empties, unless the shadow UI      *)
(* writes as well: the two writers' ready++ may undo each other, and what  *)
(* is in the queue then waits for the next writer.                         *)
UiQuiet == sent = 0 /\ ui = "idle"
InjectDrains == write_idx > 0 /\ UiQuiet ~> write_idx = 0 \/ ~UiQuiet
=============================================================================
