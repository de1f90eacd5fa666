------------------------------ MODULE LedQueue ------------------------------
(***************************************************************************)
(* The LEDs of the device (host/shadow_led_queue.c, the MIDI-out side of   *)
(* host/shadow_midi.c, and the calls of shadow/shadow_ui.js). An LED shows *)
(* the colour of the last packet that reached it. Move sends packets as it *)
(* runs; a tool that takes over (overtake_mode 2) sends its own through    *)
(* the shadow UI's queue and the array of pending colours. At the entry    *)
(* the shim turns all LEDs off, in two passes, and keeps Move's packets    *)
(* away; at the exit it sends what it had seen of Move's colours, in two   *)
(* passes. A tool may ask to be left among Move's colours (skip_led_clear) *)
(* and may leave some buttons to Move (passthrough).                       *)
(*                                                                         *)
(* A frame is three steps (clear, inject, flush with the transfer), and    *)
(* the UI process stores its flags at any moment between them. The queue   *)
(* in shared memory is ShmQueue's and taken as whole here. Not modelled:   *)
(* the LEDs of JACK, the packets of Move for other cables, and LEDs that   *)
(* are in no list of the code.                                             *)
(***************************************************************************)
EXTENDS Integers, FiniteSets, Sequences

CONSTANTS
  NoteLeds, CcLeds, \* how many LEDs a note sets, and a controller
  MoveColours,    \* colours that Move uses
  ToolColours,    \* colours that a tool uses
  Slots,          \* packets of MIDI_OUT
  SafeSlots,      \* of which are used outside of overtake
  Budget,         \* pending colours sent in a frame outside of overtake
  MaxWaiting,     \* bound on the packets in the UI's queue
  MaxPackets,     \* bound on the packets of Move and of the tools
  MaxSessions     \* bound on the tools that are opened

\* LEDs are numbered in the order in which they are flushed.
Notes   == 1 .. NoteLeds
Ccs     == NoteLeds + 1 .. NoteLeds + CcLeds
LedCount == NoteLeds + CcLeds
Leds    == 1 .. LedCount
Off     == 0
None    == -1          \* nothing pending, or a colour never seen
Empty   == <<>>        \* a slot of MIDI_OUT
Other   == <<"other">> \* a packet that is for no LED
Led(l, c) == <<l, c>>
IsLed(p)  == Len(p) = 2
Palette == MoveColours \cup ToolColours \cup {Off}

ASSUME LedAssumption ==
  /\ NoteLeds \in Nat /\ CcLeds \in Nat
  /\ Palette \subseteq Nat
  /\ Slots \in Nat /\ SafeSlots \in 1 .. Slots
  /\ Budget \in Nat \ {0}
  /\ MaxWaiting \in Nat /\ MaxPackets \in Nat /\ MaxSessions \in Nat

VARIABLES
  overtake_mode, skip_led_clear, passthrough,  \* stored by the UI process
  ui,                      \* how far the UI process is with a tool
  queue,                   \* its packets in shared memory
  midi_out,                \* the slots of this frame
  step,                    \* which part of the frame is next
  prev_overtake_mode,
  move_led_state,          \* the colours the shim has seen Move send
  snapshot, snapshot_skip_restore,
  pending,                 \* shadow_pending_note_color and .._cc_color
  move_led_clear_pending, move_led_restore_pending, move_led_pass_count,
  lit,                     \* what the LEDs show
  moves,                   \* history: the last colour Move sent
  unknown,                 \* history: LEDs Move's colour of which the shim
                           \* is not in a position to restore
  asked,                   \* history: the last colour the tool asked for
  lost,                    \* history: LEDs the tool asked for too early
  packets, sessions        \* how many so far

flags == <<overtake_mode, skip_led_clear, passthrough>>
caches == <<prev_overtake_mode, move_led_state, snapshot,
            snapshot_skip_restore>>
passes == <<move_led_clear_pending, move_led_restore_pending,
            move_led_pass_count>>
counts == <<packets, sessions>>
ledVars == <<flags, ui, queue, midi_out, step, caches, pending, passes, lit,
             moves, unknown, asked, lost, counts>>

LedInit ==
  /\ overtake_mode = FALSE /\ skip_led_clear = FALSE /\ passthrough = {}
  /\ ui = "out"
  /\ queue = <<>>
  /\ midi_out = [s \in 1 .. Slots |-> Empty]
  /\ step = "clear"
  /\ prev_overtake_mode = FALSE
  /\ move_led_state = [l \in Leds |-> None]
  /\ snapshot = [l \in Leds |-> None]
  /\ snapshot_skip_restore = FALSE
  /\ pending = [l \in Leds |-> None]
  /\ move_led_clear_pending = FALSE /\ move_led_restore_pending = FALSE
  /\ move_led_pass_count = 0
  /\ lit = [l \in Leds |-> Off]
  /\ moves = [l \in Leds |-> Off]
  /\ unknown = {} /\ lost = {}
  /\ asked = [l \in Leds |-> None]
  /\ packets = 0 /\ sessions = 0

-----------------------------------------------------------------------------
(* MIDI_OUT *)

FreeSlots(out) == {s \in 1 .. Slots : out[s] = Empty}

FirstOf(S) == CHOOSE s \in S : \A t \in S : s <= t

ColoursOf(l, out) == {s \in 1 .. Slots : IsLed(out[s]) /\ out[s][1] = l}

\* The LEDs after the packets of a frame, which arrive in the order of slots.
Shown(old, out) ==
  [l \in Leds |->
     IF ColoursOf(l, out) = {} THEN old[l]
     ELSE out[CHOOSE s \in ColoursOf(l, out) :
                \A t \in ColoursOf(l, out) : t <= s][2]]

-----------------------------------------------------------------------------
(* Move, between two frames: one packet for an LED in a frame *)

MoveSends(l, c) ==
  /\ step = "clear"
  /\ packets < MaxPackets
  /\ FreeSlots(midi_out) # {}
  /\ ColoursOf(l, midi_out) = {}
  /\ midi_out' = [midi_out EXCEPT ![FirstOf(FreeSlots(midi_out))] = Led(l, c)]
  /\ packets' = packets + 1
  /\ moves' = [moves EXCEPT ![l] = c]
  /\ UNCHANGED <<flags, ui, queue, step, caches, pending, passes, lit,
                 unknown, asked, lost, sessions>>

-----------------------------------------------------------------------------
(* The UI process *)

UiUnchanged == UNCHANGED <<midi_out, step, caches, pending, passes, lit,
                           moves, unknown, asked, lost, packets>>

\* loadOvertakeModule stores the one flag before the other.
SetSkip ==
  /\ ui = "out"
  /\ sessions < MaxSessions
  /\ skip_led_clear' = TRUE
  /\ ui' = "opening"
  /\ UiUnchanged /\ UNCHANGED <<overtake_mode, passthrough, queue, sessions>>

SetOvertake ==
  /\ ui \in {"out", "opening"}
  /\ sessions < MaxSessions
  /\ overtake_mode' = TRUE
  /\ sessions' = sessions + 1
  /\ ui' = "loading"
  /\ UiUnchanged /\ UNCHANGED <<skip_led_clear, passthrough, queue>>

\* A blocking SET, served by the SPI thread between its other work.
SetPassthrough(S) ==
  /\ ui = "loading"
  /\ step = "clear"
  /\ passthrough' = S
  /\ ui' = "in"
  /\ UiUnchanged /\ UNCHANGED <<overtake_mode, skip_led_clear, queue, sessions>>

\* resumeOvertakeModule: the tool goes on at once, with the list it finds.
Resume ==
  /\ ui = "loading"
  /\ ui' = "in"
  /\ UiUnchanged /\ UNCHANGED <<flags, queue, sessions>>

\* The web server's "open in tool" loads a tool over the one that runs.
OpenOver ==
  /\ ui = "in"
  /\ sessions < MaxSessions
  /\ skip_led_clear' \in {skip_led_clear, TRUE}
  /\ sessions' = sessions + 1
  /\ ui' = "loading"
  /\ UiUnchanged /\ UNCHANGED <<overtake_mode, passthrough, queue>>

Asks(p) ==
  /\ ui = "in"
  /\ packets < MaxPackets
  /\ Len(queue) < MaxWaiting
  /\ queue' = Append(queue, p)
  /\ packets' = packets + 1
  /\ asked' = IF IsLed(p) THEN [asked EXCEPT ![p[1]] = p[2]] ELSE asked
  /\ UNCHANGED <<flags, ui, midi_out, step, caches, pending, passes, lit,
                 moves, unknown, lost, sessions>>

\* exitOvertakeMode empties the list a tick before it ends the overtake;
\* exitToolOvertake leaves it as it is.
ClearPassthrough ==
  /\ ui = "in"
  /\ step = "clear"
  /\ passthrough' = {}
  /\ ui' = "leaving"
  /\ UiUnchanged /\ UNCHANGED <<overtake_mode, skip_led_clear, queue, sessions>>

\* A tool that fails to load drops the mode only.
DropOvertake ==
  /\ ui \in {"in", "leaving", "loading"}
  /\ overtake_mode' = FALSE
  /\ ui' = IF ui = "loading" THEN "out" ELSE "left"
  /\ UiUnchanged /\ UNCHANGED <<skip_led_clear, passthrough, queue, sessions>>

DropSkip ==
  /\ ui = "left"
  /\ skip_led_clear' = FALSE
  /\ ui' = "out"
  /\ UiUnchanged /\ UNCHANGED <<overtake_mode, passthrough, queue, sessions>>

-----------------------------------------------------------------------------
(* The frame: shadow_clear_move_leds_if_overtake *)

\* Move's packet is taken out, unless the LED is left to Move.
Stripped(l) == overtake_mode /\ ~skip_led_clear /\ l \notin passthrough \cap Ccs

\* queue_hw_leds_off and queue_hw_leds_restore
Restorable == Leds \ (passthrough \cap Ccs)
AllOff(pend) == [l \in Leds |-> IF l \in Restorable THEN Off ELSE pend[l]]
FromSnapshot(pend) ==
  [l \in Leds |-> IF l \notin Restorable THEN pend[l]
                  ELSE IF snapshot[l] = None THEN Off ELSE snapshot[l]]

SeenFromMove ==
  IF overtake_mode /\ ~skip_led_clear THEN move_led_state
  ELSE Shown(move_led_state, midi_out)

Enters == overtake_mode /\ ~prev_overtake_mode
Leaves == ~overtake_mode /\ prev_overtake_mode

EnterOvertake ==
  /\ snapshot' = SeenFromMove
  /\ snapshot_skip_restore' = skip_led_clear
  /\ move_led_restore_pending' = FALSE
  /\ IF skip_led_clear
       THEN /\ move_led_clear_pending' = FALSE
            /\ move_led_pass_count' = 0
            /\ UNCHANGED pending
       ELSE /\ move_led_clear_pending' = TRUE
            /\ move_led_pass_count' = 1
            /\ pending' = AllOff(pending)

\* Mutant: the exit in the middle of the clearing goes on clearing.
ClearingGoesOn == UNCHANGED move_led_clear_pending

ClearingEnds == move_led_clear_pending' = FALSE

LeaveOvertake ==
  /\ snapshot_skip_restore' = FALSE
  /\ IF snapshot_skip_restore
       THEN UNCHANGED <<pending, passes>>
       ELSE /\ pending' = FromSnapshot(pending)
            /\ move_led_restore_pending' = TRUE
            /\ ClearingEnds
            /\ move_led_pass_count' = 1
  /\ UNCHANGED snapshot

\* History. Move's colour gets out of the shim's sight when it changes while
\* the shim does not look, or in a session that will be undone from the
\* snapshot, when an older one is still on its way to the LED, and when the
\* list of buttons left to Move is another at the exit than at the entry.
HeardLeds == {l \in Leds : ColoursOf(l, midi_out) # {}}
OutOfSight(l) ==
  IF overtake_mode THEN ~skip_led_clear \/ ~snapshot_skip_restore'
  ELSE move_led_restore_pending'
SightAfterClear ==
  (unknown \ HeardLeds)
    \cup {l \in HeardLeds : OutOfSight(l) \/ pending'[l] # None}
    \cup (IF Leaves THEN Leds \ Restorable ELSE {})

FrameClear ==
  /\ step = "clear"
  /\ step' = "inject"
  /\ move_led_state' = SeenFromMove
  /\ prev_overtake_mode' = overtake_mode
  /\ \/ Enters /\ EnterOvertake
     \/ Leaves /\ LeaveOvertake
     \/ ~Enters /\ ~Leaves
          /\ UNCHANGED <<pending, passes, snapshot, snapshot_skip_restore>>
  /\ midi_out' = [s \in 1 .. Slots |->
       IF IsLed(midi_out[s]) /\ Stripped(midi_out[s][1]) THEN Empty
       ELSE midi_out[s]]
  /\ unknown' = SightAfterClear
  /\ asked' = IF Leaves THEN [l \in Leds |-> None] ELSE asked
  /\ UNCHANGED <<flags, ui, queue, lit, moves, lost, counts>>

-----------------------------------------------------------------------------
(* shadow_inject_ui_midi_out: what is for an LED becomes its pending colour, *)
(* the last one wins; the first other packet without a slot ends the loop.   *)

\* Mutant: a colour that is pending keeps its place.
QueueFirst(pend, p) ==
  IF pend[p[1]] # None THEN pend ELSE [pend EXCEPT ![p[1]] = p[2]]

QueueLed(pend, p) == [pend EXCEPT ![p[1]] = p[2]]

Take(acc, p) ==
  IF acc.full THEN [acc EXCEPT !.dropped = @ \cup {p}]
  ELSE IF IsLed(p) THEN [acc EXCEPT !.pending = QueueLed(@, p)]
  ELSE IF FreeSlots(acc.out) = {}
    THEN [acc EXCEPT !.full = TRUE, !.dropped = {p}]
  ELSE [acc EXCEPT !.out[FirstOf(FreeSlots(acc.out))] = p]

Injected[n \in 0 .. Len(queue)] ==
  IF n = 0 THEN [pending |-> pending, out |-> midi_out, full |-> FALSE,
                 dropped |-> {}]
  ELSE Take(Injected[n - 1], queue[n])

LedsAmong(P) == {p[1] : p \in {q \in P : IsLed(q)}}
LedsIn(q) == LedsAmong({q[i] : i \in DOMAIN q})

FrameInject ==
  /\ step = "inject"
  /\ step' = "flush"
  /\ LET taken == Injected[Len(queue)]
         early == ~prev_overtake_mode \/ move_led_clear_pending
     IN  /\ pending' = taken.pending
         /\ midi_out' = taken.out
         /\ lost' = (lost \ LedsIn(queue)) \cup LedsAmong(taken.dropped)
                      \cup (IF early THEN LedsIn(queue) ELSE {})
  /\ queue' = <<>>
  /\ unknown' = IF prev_overtake_mode /\ ~snapshot_skip_restore THEN unknown
                ELSE unknown \cup LedsIn(queue)
  /\ UNCHANGED <<flags, ui, caches, passes, lit, moves, asked, counts>>

-----------------------------------------------------------------------------
(* shadow_flush_pending_leds, and the transfer *)

Used == Slots - Cardinality(FreeSlots(midi_out))
Available == (IF overtake_mode THEN Slots ELSE SafeSlots) - Used

\* In overtake 48 of 20 slots, and otherwise 16.
Allowance ==
  LET budget == IF overtake_mode THEN Slots ELSE Budget
  IN  IF skip_led_clear \/ budget <= Available THEN budget ELSE Available

Kind(l) == IF l \in Notes THEN "note" ELSE "cc"

\* A pending colour replaces Move's in place when Move's packets are let
\* through; otherwise, or if there is none, it takes an empty slot.
Place(acc, l) ==
  LET same == IF skip_led_clear THEN ColoursOf(l, acc.out) ELSE {}
      at   == IF same # {} THEN same ELSE FreeSlots(acc.out)
  IN  IF acc.pending[l] = None \/ acc.sent = Allowance \/ Kind(l) \in acc.stuck
        THEN acc
      ELSE IF at = {} THEN [acc EXCEPT !.stuck = @ \cup {Kind(l)}]
      ELSE [acc EXCEPT !.out[FirstOf(at)] = Led(l, acc.pending[l]),
                       !.pending[l] = None, !.sent = @ + 1]

Flushed[n \in 0 .. LedCount] ==
  IF n = 0 THEN [pending |-> pending, out |-> midi_out, sent |-> 0,
                 stuck |-> {}]
  ELSE Place(Flushed[n - 1], n)

\* Mutant: a pass that is repeated is not counted.
PassUncounted == move_led_pass_count

PassCounted == move_led_pass_count - 1

\* The end of a pass: another one, or none.
NextPass(pend) ==
  IF move_led_clear_pending \/ move_led_restore_pending
  THEN IF \E l \in Leds : pend[l] # None
       THEN pending' = pend /\ UNCHANGED passes
       ELSE IF move_led_pass_count > 0
       THEN /\ move_led_pass_count' = PassCounted
            /\ pending' = IF move_led_clear_pending
                          THEN AllOff(pend) ELSE FromSnapshot(pend)
            /\ UNCHANGED <<move_led_clear_pending, move_led_restore_pending>>
       ELSE /\ move_led_clear_pending' = FALSE
            /\ move_led_restore_pending' = FALSE
            /\ pending' = pend
            /\ UNCHANGED move_led_pass_count
  ELSE pending' = pend /\ UNCHANGED passes

FrameFlush ==
  /\ step = "flush"
  /\ step' = "clear"
  /\ IF ~skip_led_clear /\ Available <= 0
       THEN /\ lit' = Shown(lit, midi_out)
            /\ UNCHANGED <<pending, passes>>
       ELSE LET done == Flushed[LedCount]
            IN  /\ lit' = Shown(lit, done.out)
                /\ NextPass(done.pending)
  /\ midi_out' = [s \in 1 .. Slots |-> Empty]
  \* history: where Move's packet got through, the tool's colour need not
  /\ asked' = [l \in Leds |->
       IF l \in HeardLeds /\ (skip_led_clear => pending[l] = None) THEN None
       ELSE asked[l]]
  /\ UNCHANGED <<flags, ui, queue, caches, moves, unknown, lost, counts>>

-----------------------------------------------------------------------------
Frame == FrameClear \/ FrameInject \/ FrameFlush

UiProcess ==
  \/ SetSkip \/ SetOvertake \/ Resume \/ OpenOver \/ ClearPassthrough
  \/ DropOvertake \/ DropSkip
  \/ \E S \in SUBSET Ccs : SetPassthrough(S)
  \/ \E l \in Leds, c \in ToolColours : Asks(Led(l, c))
  \/ Asks(Other)

Move == \E l \in Leds, c \in MoveColours : MoveSends(l, c)

LedNext == Frame \/ UiProcess \/ Move

LedSpec == LedInit /\ [][LedNext]_ledVars
\* Frames go on. A step that changes "step" is a step of Frame, and one of
\* them is always possible.
FrameGoesOn ==
  step' = IF step = "clear" THEN "inject"
          ELSE IF step = "inject" THEN "flush" ELSE "clear"

FairLedSpec == LedSpec /\ WF_step(FrameGoesOn)

-----------------------------------------------------------------------------
(* The type invariant. A colour is pending for an LED or none is, and what   *)
(* a list of packets holds is for an LED and in one of the two palettes, or  *)
(* is something else.                                                        *)
LedPackets == {Led(l, c) : l \in Leds, c \in Palette}
Packet     == LedPackets \cup {Other}
MidiOut    == [1 .. Slots -> Packet \cup {Empty}]
Colours    == Palette \cup {None}

LedTypeOK ==
  /\ overtake_mode \in BOOLEAN /\ skip_led_clear \in BOOLEAN
  /\ passthrough \in SUBSET Ccs
  /\ ui \in {"out", "opening", "loading", "in", "leaving", "left"}
  /\ queue \in Seq(Packet)
  /\ midi_out \in MidiOut
  /\ step \in {"clear", "inject", "flush"}
  /\ prev_overtake_mode \in BOOLEAN
  /\ move_led_state \in [Leds -> Colours]
  /\ snapshot \in [Leds -> Colours]
  /\ snapshot_skip_restore \in BOOLEAN
  /\ pending \in [Leds -> Colours]
  /\ move_led_clear_pending \in BOOLEAN
  /\ move_led_restore_pending \in BOOLEAN
  /\ move_led_pass_count \in 0 .. 1
  /\ lit \in [Leds -> Palette]
  /\ moves \in [Leds -> Palette]
  /\ unknown \in SUBSET Leds
  /\ asked \in [Leds -> Colours]
  /\ lost \in SUBSET Leds
  /\ packets \in 0 .. MaxPackets /\ sessions \in 0 .. MaxSessions

Settled(l) == step = "clear" /\ pending[l] = None /\ l \notin LedsIn(queue)

(* After the session of a tool an LED shows again what Move last sent for    *)
(* it, wherever the flags changed in a frame, a pass or another session, if  *)
(* the shim was able to see it (unknown).                                    *)
MoveIsShown ==
  ~overtake_mode /\ ~prev_overtake_mode /\ ui = "out" =>
    \A l \in Leds : Settled(l) /\ l \notin HeardLeds /\ l \notin unknown
                      => lit[l] = moves[l]

(* In a session an LED shows what the tool asked for last, once the clearing *)
(* is over and unless the UI's packets were too many for the slots (lost).   *)
AskedIsShown ==
  overtake_mode /\ prev_overtake_mode =>
    \A l \in Leds :
      Settled(l) /\ asked[l] # None /\ l \notin lost
      => lit[l] = asked[l]

(* Every colour is sent and every pass ends when Move and the UI are silent. *)
LedsSettle ==
  <>[](/\ pending = [l \in Leds |-> None]
       /\ ~move_led_clear_pending /\ ~move_led_restore_pending)
=============================================================================
