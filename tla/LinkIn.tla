------------------------------- MODULE LinkIn -------------------------------
(***************************************************************************)
(* One channel of Move's audio on its way from the link-subscriber sidecar *)
(* (host/link_subscriber.cpp, on a thread of the Link SDK) to the shim's   *)
(* mix (host/shadow_link_audio.c, on the SPI thread): a ring in shared     *)
(* memory with free-running uint32_t positions and no lock.                *)
(*                                                                         *)
(* The sidecar never waits for the reader; the reader starves when there   *)
(* is less than a block, jumps when there is too much, and otherwise drops *)
(* or repeats a frame now and then to keep the backlog near a target.  All *)
(* amounts are stereo frames, and a frame is its number.                   *)
(***************************************************************************)
EXTENDS Integers, Sequences

CONSTANTS
  Ring,         \* frames in the ring: 2048
  PosSpan,      \* values of the positions: 2^31 frames
  Need,         \* frames in a block: 128
  CatchBlocks,  \* blocks of backlog that are too much: 12
  Target,       \* LATENCY_COMP_TARGET_SAMPLES: 400 frames
  DeadBand,     \* NUDGE_DEAD_BAND_SAMPLES: 16 frames
  Period,       \* NUDGE_PERIOD: 16 reads
  BurstOver,    \* NUDGE_BURST_THRESHOLD: 256 frames
  BurstFrames,  \* NUDGE_BURST_FRAMES: 8
  Buffers,      \* sizes of the buffers the SDK hands over
  MaxProduced   \* bound on the frames produced

ASSUME LinkAssumption ==
  /\ {Ring, PosSpan, Need, CatchBlocks, Period, BurstFrames} \subseteq Nat \ {0}
  /\ {Target, DeadBand, BurstOver, MaxProduced} \subseteq Nat
  /\ Buffers \subseteq 1 .. Ring
  /\ PosSpan % Ring = 0 /\ PosSpan > Ring
  /\ CatchBlocks * Need < Ring  \* the "MUST" of link_audio.h
  /\ Target <= CatchBlocks * Need

VARIABLES
  ring, write_pos, read_pos, active,  \* the slot in shared memory
  sidecar,       \* the buffer the sidecar has copied and not yet announced
  rebuild,       \* rebuild_prev: the mix was built from Link Audio last time
  comp,          \* latency_comp_active
  drops, dups,   \* nudge_drop_counter, nudge_dup_counter
  mix,           \* where the SPI thread is in its mix
  plan,          \* the block to copy: rp and n; without a wrap; all there
  produced, at,  \* history: write_pos and read_pos without a wrap
  heard,         \* history: the latest block, and where it should be from
  since          \* history: frames copied in under the read in progress

slot        == <<ring, write_pos, read_pos, active>>
nudge       == <<drops, dups>>
reader      == <<rebuild, comp, nudge, mix, plan>>
linkHistory == <<produced, at, heard, since>>
linkVars    == <<slot, sidecar, reader, linkHistory>>

NoFrame == -1
NoBlock == [at |-> 0, frames |-> <<>>, sound |-> TRUE]

LinkInit ==
  /\ ring = [p \in 0 .. Ring - 1 |-> NoFrame]
  /\ write_pos = 0 /\ read_pos = 0 /\ active = FALSE
  /\ sidecar = 0
  /\ rebuild = FALSE /\ comp = FALSE
  /\ drops = 0 /\ dups = 0
  /\ mix = "frame" /\ plan = [rp |-> 0, n |-> 0, at |-> 0, there |-> TRUE]
  /\ produced = 0 /\ at = 0 /\ heard = NoBlock /\ since = 0

-----------------------------------------------------------------------------
(* The sidecar. *)

(* Frames the ring holds after k more were copied to p and on. *)
Filled(p, k) ==
  [q \in 0 .. Ring - 1 |->
     IF (q - p) % Ring < k THEN produced + ((q - p) % Ring) ELSE ring[q]]

(* The SPI thread does not stand still until the positions wrap round,     *)
(* neither between two reads nor in one.                                   *)
InSpan(k) == rebuild => produced + k - at < PosSpan /\ since + k < PosSpan

SidecarCopies ==
  /\ sidecar = 0
  /\ \E k \in Buffers :
       /\ produced + k <= MaxProduced /\ InSpan(k)
       /\ ring' = Filled(write_pos, k)
       /\ sidecar' = k
       /\ since' = IF mix = "copy" THEN since + k ELSE since
  /\ UNCHANGED <<write_pos, read_pos, active, reader, produced, at, heard>>

SidecarPublishes ==
  /\ sidecar > 0
  /\ write_pos' = (write_pos + sidecar) % PosSpan
  /\ active' = TRUE
  /\ produced' = produced + sidecar
  /\ sidecar' = 0
  /\ UNCHANGED <<ring, read_pos, reader, at, heard, since>>

(* The channels have changed and are subscribed to anew. *)
Resubscribes ==
  /\ active
  /\ active' = FALSE
  /\ UNCHANGED <<ring, write_pos, read_pos, sidecar, reader, linkHistory>>

Sidecar == SidecarCopies \/ SidecarPublishes \/ Resubscribes

-----------------------------------------------------------------------------
(* The SPI thread. *)

(* "latency_comp_enabled" is set. *)
Toggle ==
  /\ mix = "frame"
  /\ comp' = ~comp
  /\ drops' = 0 /\ dups' = 0
  /\ UNCHANGED <<slot, sidecar, rebuild, mix, plan, linkHistory>>

(* What waited while nobody read is passed over; the toggle of the user is *)
(* latched.                                                                *)
EnterRebuild ==
  /\ mix = "frame" /\ ~rebuild /\ active
  /\ rebuild' = TRUE
  /\ read_pos' = write_pos /\ at' = produced
  /\ \/ UNCHANGED <<comp, nudge>>
     \/ comp' = ~comp /\ drops' = 0 /\ dups' = 0
  /\ mix' = "load"
  /\ UNCHANGED <<ring, write_pos, active, sidecar, plan, produced, heard, since>>

StayInRebuild ==
  /\ mix = "frame" /\ rebuild /\ active
  /\ mix' = "load"
  /\ UNCHANGED <<slot, sidecar, rebuild, comp, nudge, plan, linkHistory>>

(* Link Audio is switched off, or the channels are gone. *)
LeaveRebuild ==
  /\ mix = "frame" /\ rebuild
  /\ rebuild' = FALSE
  /\ comp' = FALSE
  /\ UNCHANGED <<slot, sidecar, nudge, mix, plan, linkHistory>>

(* Frames not read, in the arithmetic of uint32_t. *)
Avail == (write_pos - read_pos) % PosSpan

(* Mutant: the whole ring may wait. *)
RingFull == Avail > Ring

TooMuch == Avail > CatchBlocks * Need

(* rp after a jump to the latest block, if there is too much. *)
Caught   == IF TooMuch THEN (write_pos - Need) % PosSpan ELSE read_pos
CaughtAt == IF TooMuch THEN produced - Need ELSE at

AboveTarget == comp /\ Avail > Target + DeadBand
BelowTarget == comp /\ Avail + DeadBand < Target

Due(counter) == counter + 1 >= Period

(* The counter of reads on one side of the target. *)
Counted(side, counter) ==
  IF side /\ ~Due(counter) THEN counter + 1 ELSE 0

Correction(error) == IF error > BurstOver THEN BurstFrames ELSE 1

(* Frames to drop: the test that the ring has them is on the backlog       *)
(* before the jump.                                                        *)
Skip ==
  LET k == Correction(Avail - Target)
  IN  IF AboveTarget /\ Due(drops) /\ Avail >= Need + k THEN k ELSE 0

(* Frames to repeat at the end of the block. *)
Pad ==
  LET k == Correction(Target - Avail)
  IN  IF BelowTarget /\ Due(dups) /\ Need > k + 1 THEN k ELSE 0

(* Nothing to read: silence, or Move's own output. *)
Starve ==
  /\ mix = "load" /\ (~active \/ Avail < Need)
  /\ mix' = "frame"
  /\ UNCHANGED <<slot, sidecar, rebuild, comp, nudge, plan, linkHistory>>

Load ==
  /\ mix = "load" /\ active /\ Avail >= Need
  /\ plan' = [rp |-> (Caught + Skip) % PosSpan, n |-> Need - Pad,
              at |-> CaughtAt + Skip,
              there |-> CaughtAt + Skip + Need - Pad <= produced]
  /\ drops' = Counted(AboveTarget, drops)
  /\ dups' = Counted(BelowTarget, dups)
  /\ since' = sidecar
  /\ mix' = "copy"
  /\ UNCHANGED <<slot, sidecar, rebuild, comp, produced, at, heard>>

(* The room between the backlog a block is taken from and a full ring. *)
Margin == Ring - CatchBlocks * Need

(* Mutant: the last frame read is left for the next block. *)
UsedButLast == plan.n - 1

(* What read_pos moves on by: padding is not taken from the ring. *)
Used == plan.n

(* One step stands for the loop: a buffer the sidecar copies meanwhile is  *)
(* there before it or after it.                                            *)
Copy ==
  /\ mix = "copy"
  /\ heard' = [at |-> plan.at,
               frames |-> [i \in 1 .. plan.n |->
                             ring[(plan.rp + i - 1) % Ring]],
               sound |-> plan.there /\ since <= Margin]
  /\ read_pos' = (plan.rp + Used) % PosSpan
  /\ at' = plan.at + Used
  /\ mix' = "frame" /\ since' = 0
  /\ UNCHANGED <<ring, write_pos, active, sidecar, rebuild, comp, nudge, plan,
                 produced>>

Spi ==
  \/ Toggle \/ EnterRebuild \/ StayInRebuild \/ LeaveRebuild
  \/ Starve \/ Load \/ Copy

-----------------------------------------------------------------------------

LinkNext == Sidecar \/ Spi

LinkSpec == LinkInit /\ [][LinkNext]_linkVars

-----------------------------------------------------------------------------
(* Properties *)

LinkTypeOK ==
  /\ ring \in [0 .. Ring - 1 -> Nat \cup {NoFrame}]
  /\ write_pos \in 0 .. PosSpan - 1 /\ read_pos \in 0 .. PosSpan - 1
  /\ active \in BOOLEAN /\ rebuild \in BOOLEAN /\ comp \in BOOLEAN
  /\ sidecar \in Buffers \cup {0}
  /\ drops \in 0 .. Period - 1 /\ dups \in 0 .. Period - 1
  /\ mix \in {"frame", "load", "copy"}
  /\ plan \in [rp : 0 .. PosSpan - 1, n : 0 .. Need, at : Nat, there : BOOLEAN]
  /\ produced \in 0 .. MaxProduced /\ at \in Nat /\ since \in Nat
  /\ heard \in [at : Nat, frames : Seq(Nat \cup {NoFrame}), sound : BOOLEAN]

(* "MUST stay larger than the consumer catch-up threshold, otherwise       *)
(* bursts overrun the ring before catch-up trips and the consumer reads    *)
(* partially-overwritten samples": a block that was all there and under    *)
(* which no more than the margin was copied in is heard as it was          *)
(* produced, whatever bursts came before.                                  *)
HeardAsProduced ==
  heard.sound =>
    \A i \in 1 .. Len(heard.frames) : heard.frames[i] = heard.at + i - 1

(* What is heard is never older than the threshold: neither a channel that *)
(* went away and came back nor a reader that stood still leaves an old     *)
(* backlog behind.                                                         *)
NeverStale ==
  [][mix = "load" /\ mix' = "copy" =>
       produced - plan'.at <= CatchBlocks * Need]_linkVars

(* No frame is heard twice, but for the padding and for what follows a     *)
(* block that was not all there or was overwritten: over jumps, dropped    *)
(* frames, starving, and leaving and entering the rebuild.                 *)
NeverBack ==
  [][mix = "load" /\ mix' = "copy" /\ heard.sound =>
       plan'.at >= heard.at + Len(heard.frames)]_linkVars
=============================================================================
