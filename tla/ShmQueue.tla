------------------------------ MODULE ShmQueue ------------------------------
(***************************************************************************)
(* The shared-memory packet queue between the shadow UI process and the    *)
(* shim's SPI thread: write_idx, ready and buffer of shadow_midi_dsp_t (and *)
(* of shadow_midi_inject_t, which module MidiInject builds on this one).   *)
(* Nothing guards the two sides but a barrier: each action is one access   *)
(* of the code to shared memory, and the two processes interleave freely.  *)
(*                                                                         *)
(* Spec is the queue of MIDI for the chain slots: shadow_send_midi_to_dsp  *)
(* writes it, shadow_drain_ui_midi_dsp empties it.                         *)
(***************************************************************************)
EXTENDS Integers, Sequences

CONSTANTS
  Slots,      \* packets the buffer holds
  IdxSpan,    \* packets after which the uint8_t write_idx is 0 again
  ReadySpan,  \* values of the uint8_t ready
  MaxBurst,   \* packets of one call of the shadow UI
  MaxSent     \* bound on the packets the shadow UI sends

ASSUME QueueAssumption ==
  /\ Slots \in Nat \ {0}
  /\ IdxSpan \in 1 .. Slots
  /\ ReadySpan \in Nat \ {0, 1}
  /\ MaxBurst \in Nat
  /\ MaxSent \in Nat

VARIABLES
  buffer,      \* shm->buffer
  write_idx,   \* shm->write_idx, in packets
  ready,       \* shm->ready
  last_ready,  \* the drain's static of that name
  ui,          \* where the shadow UI is in its send function
  ui_offset,   \* its local write_offset
  ui_ready,    \* the value ready++ has loaded
  ui_left,     \* packets of the call still to write
  sent,        \* packets the shadow UI has written to the buffer
  drain,       \* where the SPI thread is in its drain function
  local_buf,   \* the drain's snapshot
  delivered    \* history: the packets handed on, in order

uiVars    == <<ui, ui_offset, ui_ready, ui_left, sent>>
drainVars == <<last_ready, drain, local_buf, delivered>>
queueVars == <<buffer, write_idx, ready, uiVars, drainVars>>

Places == 0 .. Slots - 1

Empty     == [by |-> "none", n |-> 0]
UiPacket  == [by |-> "ui", n |-> sent + 1]

QueueInit ==
  /\ buffer = [p \in Places |-> Empty]
  /\ write_idx = 0
  /\ ready = 0
  /\ last_ready = 0
  /\ ui = "idle"
  /\ ui_offset = 0
  /\ ui_ready = 0
  /\ ui_left = 0
  /\ sent = 0
  /\ drain = "idle"
  /\ local_buf = <<>>
  /\ delivered = <<>>

-----------------------------------------------------------------------------
(* The shadow UI process. *)

UiCall ==
  /\ ui = "idle"
  /\ \E n \in 1 .. MaxBurst : sent + n <= MaxSent /\ ui_left' = n
  /\ ui' = "read"
  /\ UNCHANGED <<buffer, write_idx, ready, ui_offset, ui_ready, sent,
                 drainVars>>

(* write_idx is loaded once for the test and the copy. *)
UiRead ==
  /\ ui = "read"
  /\ write_idx + 1 <= Slots
  /\ ui_offset' = write_idx
  /\ ui' = "copy"
  /\ UNCHANGED <<buffer, write_idx, ready, ui_ready, ui_left, sent, drainVars>>

UiCopy ==
  /\ ui = "copy"
  /\ buffer' = [buffer EXCEPT ![ui_offset] = UiPacket]
  /\ sent' = sent + 1
  /\ ui' = "store"
  /\ UNCHANGED <<write_idx, ready, ui_offset, ui_ready, ui_left, drainVars>>

(* The sum is truncated to the uint8_t. *)
UiStore ==
  /\ ui = "store"
  /\ write_idx' = (ui_offset + 1) % IdxSpan
  /\ ui_left' = ui_left - 1
  /\ ui' = IF ui_left = 1 THEN "load" ELSE "read"
  /\ UNCHANGED <<buffer, ready, ui_offset, ui_ready, sent, drainVars>>

(* ready++ on a volatile is a load and a store. *)
UiLoadReady ==
  /\ ui = "load"
  /\ ui_ready' = ready
  /\ ui' = "signal"
  /\ UNCHANGED <<buffer, write_idx, ready, ui_offset, ui_left, sent, drainVars>>

UiSignal ==
  /\ ui = "signal"
  /\ ready' = (ui_ready + 1) % ReadySpan
  /\ ui' = "idle"
  /\ UNCHANGED <<buffer, write_idx, ui_offset, ui_ready, ui_left, sent,
                 drainVars>>

UiStep == UiRead \/ UiCopy \/ UiStore \/ UiLoadReady \/ UiSignal

-----------------------------------------------------------------------------
(* The SPI thread's drain. *)

Notice ==
  /\ drain = "idle"
  /\ ready # last_ready
  /\ last_ready' = ready
  /\ drain' = "snapshot"
  /\ UNCHANGED <<buffer, write_idx, ready, uiVars, local_buf, delivered>>

Snapshot ==
  /\ drain = "snapshot"
  /\ local_buf' = [i \in 1 .. write_idx |-> buffer[i - 1]]
  /\ drain' = "reset"
  /\ UNCHANGED <<buffer, write_idx, ready, uiVars, last_ready, delivered>>

ResetIdx ==
  /\ drain = "reset"
  /\ write_idx' = 0
  /\ drain' = "wipe"
  /\ UNCHANGED <<buffer, ready, uiVars, last_ready, local_buf, delivered>>

(* Mutant: the buffer keeps the packets it has handed over. *)
WipeNothing ==
  /\ drain = "wipe"
  /\ drain' = "deliver"
  /\ UNCHANGED <<buffer, write_idx, ready, uiVars, last_ready, local_buf,
                 delivered>>

Wipe ==
  /\ drain = "wipe"
  /\ buffer' = [p \in Places |-> Empty]
  /\ drain' = "deliver"
  /\ UNCHANGED <<write_idx, ready, uiVars, last_ready, local_buf, delivered>>

(* One round of the loop. A slot that was wiped under the writer has no     *)
(* status byte: it is skipped.                                             *)
Deliver ==
  /\ drain = "deliver"
  /\ local_buf # <<>>
  /\ delivered' = IF Head(local_buf) = Empty THEN delivered
                  ELSE Append(delivered, Head(local_buf))
  /\ local_buf' = Tail(local_buf)
  /\ UNCHANGED <<buffer, write_idx, ready, uiVars, last_ready, drain>>

Delivered ==
  /\ drain = "deliver"
  /\ local_buf = <<>>
  /\ drain' = "idle"
  /\ UNCHANGED <<buffer, write_idx, ready, uiVars, last_ready, local_buf,
                 delivered>>

DrainStep == Notice \/ Snapshot \/ ResetIdx \/ Wipe \/ Deliver \/ Delivered

-----------------------------------------------------------------------------

Init == QueueInit

Next == UiCall \/ UiStep \/ DrainStep

Spec == Init /\ [][Next]_queueVars

-----------------------------------------------------------------------------
(* Properties *)

Packets == [by : {"ui", "chain"}, n : Nat \ {0}] \cup {Empty}

QueueTypeOK ==
  /\ buffer \in [Places -> Packets]
  /\ write_idx \in 0 .. IdxSpan - 1
  /\ ready \in 0 .. ReadySpan - 1
  /\ last_ready \in 0 .. ReadySpan - 1
  /\ ui \in {"idle", "read", "copy", "store", "load", "signal"}
  /\ ui_offset \in 0 .. IdxSpan - 1
  /\ ui_ready \in 0 .. ReadySpan - 1
  /\ ui_left \in 0 .. MaxBurst
  /\ sent \in 0 .. MaxSent
  /\ drain \in {"idle", "snapshot", "reset", "wipe", "deliver", "rearm"}
  /\ local_buf \in Seq(Packets)
  /\ Len(local_buf) < IdxSpan
  /\ delivered \in Seq(Packets)

(* However the two processes interleave, the packets one writer sends      *)
(* arrive in the order it sent them and none arrives twice: wiping the     *)
(* buffer makes a stale offset of the writer reach empty slots, never old  *)
(* packets.                                                                *)
InOrderOnce ==
  \A i, j \in 1 .. Len(delivered) :
    i < j /\ delivered[i].by = delivered[j].by /\ delivered[i] # Empty =>
      delivered[i].n < delivered[j].n
=============================================================================
