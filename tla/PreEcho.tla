------------------------------ MODULE PreEcho ------------------------------
(***************************************************************************)
(* A chain slot in Pre mode (modules/chain/dsp/chain_host.c): what its     *)
(* MIDI effect makes of a pad is injected into Move, Move plays it and     *)
(* echoes it on the cable the pads come in by, and the slot must tell the  *)
(* echoes from the pads. It knows them by pitch: pre_injected_notes counts *)
(* the notes it injected, pre_pad_held those it takes for pads.            *)
(*                                                                         *)
(* Move answers in its own time, so pads fall between an injection and its *)
(* echo. Velocities, and all events but notes, are left out: the filter    *)
(* does not look at them.                                                  *)
(***************************************************************************)
EXTENDS Integers, Sequences, FiniteSets, SequencesExt

CONSTANTS
  Top,        \* the highest MIDI note
  Chord,      \* semitones of the chord above its root, from the lowest up
  Effects,    \* the effects the slot may hold
  Transpose,  \* slot:transpose, in semitones
  QueueMax,   \* packets the injection queue takes
  CountMax,   \* where the two uint8_t counts stop counting
  MaxPresses, \* bound on the pads pressed
  MaxLost,    \* bound on the echoes Move has no room for
  MaxToggles  \* bound on the switches between Pre and Post

ASSUME EchoAssumption ==
  /\ Top \in Nat
  /\ Chord \in Seq(Nat) /\ Len(Chord) > 0
  /\ Effects \subseteq {"chord", "strum_up", "strum_down", "arp"}
  /\ Transpose \in Int
  /\ QueueMax \in Nat \ {0}
  /\ CountMax \in Nat /\ QueueMax + Len(Chord) <= CountMax
  /\ MaxPresses \in Nat
  /\ MaxLost \in Nat
  /\ MaxToggles \in Nat

VARIABLES
  effect,              \* the effect loaded into the slot
  midi_fx_pre_mode,    \* TRUE: Pre
  pre_injected_notes,  \* the echo filter's count, for each pitch
  pre_pad_held,        \* the count of pads held, for each pitch
  pending,             \* the strum's queue: for each later voice, its notes
  held_notes,          \* the arpeggiator's notes
  last_note,           \* the note it last played, or NoNote
  inject,              \* injected events on their way to Move and back
  pads,                \* the pads that are down
  playing,             \* the pitches Move's track sounds
  presses, lost, toggles,  \* how many so far
  mistaken,            \* history: an echo went through the filter as a pad
  upset                \* history: the filter was given what it cannot tell

slotVars  == <<midi_fx_pre_mode, pre_injected_notes, pre_pad_held>>
fxVars    == <<pending, held_notes, last_note>>
moveVars  == <<inject, pads, playing>>
boundVars == <<presses, lost, toggles>>
echoVars == <<effect, slotVars, fxVars, moveVars, boundVars, mistaken, upset>>

Pitches == 0 .. Top
NoNote  == -1

On(n)  == [on |-> TRUE, note |-> n]
Off(n) == [on |-> FALSE, note |-> n]

InRange(e) == e.note \in Pitches

Events == [on : BOOLEAN, note : Pitches]

\* How often e is among the first n of s, and in all of s.
Among(s, n, e) == Cardinality({i \in 1 .. n : s[i] = e})
Occurs(s, e) == Among(s, Len(s), e)

LaterVoices == 2 .. Len(Chord)

EchoInit ==
  /\ effect \in Effects
  /\ midi_fx_pre_mode \in BOOLEAN
  /\ pre_injected_notes = [n \in Pitches |-> 0]
  /\ pre_pad_held = [n \in Pitches |-> 0]
  /\ pending = [i \in LaterVoices |-> <<>>]
  /\ held_notes = {}
  /\ last_note = NoNote
  /\ inject = <<>>
  /\ pads = {}
  /\ playing = {}
  /\ presses = 0 /\ lost = 0 /\ toggles = 0
  /\ mistaken = FALSE
  /\ upset = FALSE

-----------------------------------------------------------------------------
(* The effects. *)

Order == IF effect = "strum_down" THEN Reverse(Chord) ELSE Chord

Voice(i, e) == [e EXCEPT !.note = @ + Order[i]]

(* The strum delays every voice but the first by so many strum times. *)
VoicesNow ==
  CASE effect = "chord" -> Len(Chord)
    [] effect = "arp"   -> 0
    [] OTHER            -> 1

\* The loops that leave out the events that are not in S.
Only(s, S) ==
  LET kept[n \in 0 .. Len(s)] ==
        IF n = 0 THEN <<>>
        ELSE IF s[n] \in S THEN Append(kept[n - 1], s[n]) ELSE kept[n - 1]
  IN  kept[Len(s)]

Voices(e) == [i \in 1 .. VoicesNow |-> Voice(i, e)]

FxOutput(e) == Only(Voices(e), Events)

(* chord_process_midi and arp_process_midi: note-offs go the same way as   *)
(* note-ons.                                                               *)
FxProcess(e) ==
  /\ pending' = [i \in LaterVoices |->
       IF effect \in {"strum_up", "strum_down"} /\ InRange(Voice(i, e))
       THEN Append(pending[i], Voice(i, e))
       ELSE pending[i]]
  /\ held_notes' = IF effect # "arp" THEN held_notes
                   ELSE IF e.on THEN held_notes \cup {e.note}
                   ELSE held_notes \ {e.note}
  /\ UNCHANGED last_note

-----------------------------------------------------------------------------
(* Injecting and recognising. *)

Room(queue) == QueueMax - Len(queue)

Accepted(out, queue) ==
  SubSeq(out, 1, IF Room(queue) < Len(out) THEN Room(queue) ELSE Len(out))

Up(count, by) == IF count + by <= CountMax THEN count + by ELSE CountMax

(* pre_mode_track_inject: note-ons that the queue took are counted. *)
Tracked(sent) ==
  [n \in Pitches |-> Up(pre_injected_notes[n], Occurs(sent, On(n)))]

InjectAll(out, queue) ==
  LET sent == IF midi_fx_pre_mode THEN Accepted(out, queue) ELSE <<>>
  IN  /\ inject' = queue \o sent
      /\ pre_injected_notes' = Tracked(sent)

Refused(out, queue) == midi_fx_pre_mode /\ Room(queue) < Len(out)

(* pre_mode_is_echo *)
IsEcho(e) == midi_fx_pre_mode /\ pre_injected_notes[e.note] > 0

(* Mutant: it clears the count, as if chords did not overlap. *)
DropEchoClears(e) ==
  pre_injected_notes' =
    IF e.on THEN pre_injected_notes
    ELSE [pre_injected_notes EXCEPT ![e.note] = 0]

DropEcho(e) ==
  pre_injected_notes' =
    IF e.on THEN pre_injected_notes
    ELSE [pre_injected_notes EXCEPT ![e.note] = @ - 1]

CountPad(e) ==
  pre_pad_held' =
    IF ~midi_fx_pre_mode THEN pre_pad_held
    ELSE IF e.on THEN [pre_pad_held EXCEPT ![e.note] = Up(@, 1)]
    ELSE [pre_pad_held EXCEPT ![e.note] = IF @ > 0 THEN @ - 1 ELSE 0]

(* Mutant: the pad's own note is injected like the rest of its chord. *)
InputToo(e) == FxOutput(e)

(* The root of a chord is what the pad itself has made Move play. *)
NotTheInput(e) == Only(Voices(e), Events \ {e})

(* v2_on_midi for a note that arrives with queue waiting for Move *)
OnMidi(e, queue) ==
  \/ /\ IsEcho(e)
     /\ DropEcho(e)
     /\ inject' = queue
     /\ UNCHANGED <<pre_pad_held, fxVars>>
  \/ /\ ~IsEcho(e)
     /\ CountPad(e)
     /\ FxProcess(e)
     /\ InjectAll(NotTheInput(e), queue)

(* shadow_chain_dispatch_midi_to_slots on the way to the slot: the slot    *)
(* transposes all it hears; what leaves the range is dropped.              *)
Heard(e) == [e EXCEPT !.note = @ + Transpose]

Dispatch(e, queue) ==
  /\ UNCHANGED midi_fx_pre_mode
  /\ \/ InRange(Heard(e)) /\ OnMidi(Heard(e), queue)
     \/ /\ ~InRange(Heard(e))
        /\ inject' = queue
        /\ UNCHANGED <<pre_injected_notes, pre_pad_held, fxVars>>

(* A pad that is taken for an echo, which an arpeggiator is to rule out. *)
Eaten(e) == effect # "arp" /\ InRange(e) /\ IsEcho(e)

Passes(e) == InRange(Heard(e)) /\ ~IsEcho(Heard(e))

NoRoom(e, queue) == Passes(e) /\ Refused(NotTheInput(Heard(e)), queue)

-----------------------------------------------------------------------------
(* Pads and echoes. *)

Played(e) == IF e.on THEN playing \cup {e.note} ELSE playing \ {e.note}

Pad(e) ==
  /\ playing' = Played(e)
  /\ Dispatch(e, inject)
  /\ upset' = (upset \/ Eaten(Heard(e)) \/ NoRoom(e, inject))
  /\ UNCHANGED <<effect, lost, toggles, mistaken>>

PadDown(n) ==
  /\ n \notin pads
  /\ presses < MaxPresses
  /\ presses' = presses + 1
  /\ pads' = pads \cup {n}
  /\ Pad(On(n))

PadUp(n) ==
  /\ n \in pads
  /\ pads' = pads \ {n}
  /\ Pad(Off(n))
  /\ UNCHANGED presses

(* Move plays the next injected event and echoes it. *)
Echo ==
  /\ inject # <<>>
  /\ LET e == Head(inject)
     IN  /\ playing' = Played(e)
         /\ Dispatch(e, Tail(inject))
         /\ mistaken' = (mistaken \/ (midi_fx_pre_mode /\ Passes(e)))
         /\ upset' = (upset \/ NoRoom(e, Tail(inject)))
  /\ UNCHANGED <<effect, pads, boundVars>>

(* Its MIDI_OUT has no room for the echo. *)
LoseEcho ==
  /\ inject # <<>>
  /\ lost < MaxLost
  /\ lost' = lost + 1
  /\ playing' = Played(Head(inject))
  /\ inject' = Tail(inject)
  /\ upset' = TRUE
  /\ UNCHANGED <<effect, slotVars, fxVars, pads, presses, toggles, mistaken>>

-----------------------------------------------------------------------------
(* v2_tick_midi_fx *)

(* Mutant: the pads that are down are not looked at. *)
MayTickAny(e) == TRUE

(* A note-on of a pitch that a pad holds is not injected. *)
MayTick(e) == ~(e.on /\ pre_pad_held[e.note] > 0)

Ticked(out) == Only(out, {e \in Events : MayTick(e)})

TickInjects(out) ==
  /\ InjectAll(Ticked(out), inject)
  /\ upset' = (upset \/ Refused(Ticked(out), inject)
                     \/ (effect # "arp" /\ \E e \in ToSet(out) : ~MayTick(e)))
  /\ UNCHANGED <<effect, midi_fx_pre_mode, pre_pad_held, pads, playing,
                 boundVars, mistaken>>

(* chord_tick: the delay of a strummed voice is over. *)
StrumTick(i) ==
  /\ pending[i] # <<>>
  /\ pending' = [pending EXCEPT ![i] = Tail(@)]
  /\ TickInjects(<<Head(pending[i])>>)
  /\ UNCHANGED <<held_notes, last_note>>

ReleaseLast == IF last_note = NoNote THEN <<>> ELSE <<Off(last_note)>>

(* arp_trigger_step: the last note ends, the next begins. *)
ArpStep(n) ==
  /\ n \in held_notes
  /\ last_note' = n
  /\ TickInjects(Append(ReleaseLast, On(n)))
  /\ UNCHANGED <<pending, held_notes>>

(* arp_tick without a note to play *)
ArpRest ==
  /\ held_notes = {}
  /\ last_note # NoNote
  /\ last_note' = NoNote
  /\ TickInjects(ReleaseLast)
  /\ UNCHANGED <<pending, held_notes>>

-----------------------------------------------------------------------------
(* The setting. *)

Quiet ==
  /\ inject = <<>>
  /\ \A i \in LaterVoices : pending[i] = <<>>
  /\ pads = {}
  /\ last_note = NoNote

(* Mutant: the switch leaves the counts as they are. *)
ResetNothing == UNCHANGED <<pre_injected_notes, pre_pad_held>>

ResetCounts ==
  /\ pre_injected_notes' = [n \in Pitches |-> 0]
  /\ pre_pad_held' = [n \in Pitches |-> 0]

(* v2_set_param("midi_fx_pre_mode"). The history starts again when it      *)
(* finds nothing on its way and nothing sounding.                          *)
SetPreMode ==
  /\ toggles < MaxToggles
  /\ toggles' = toggles + 1
  /\ midi_fx_pre_mode' = ~midi_fx_pre_mode
  /\ ResetCounts
  /\ upset' = ~(Quiet /\ playing = {} /\ held_notes = {})
  /\ mistaken' = IF upset' THEN mistaken ELSE FALSE
  /\ UNCHANGED <<effect, fxVars, moveVars, presses, lost>>

-----------------------------------------------------------------------------

Tick == (\E i \in LaterVoices : StrumTick(i)) \/ ArpRest

EchoNext ==
  \/ \E n \in Pitches : PadDown(n) \/ PadUp(n) \/ ArpStep(n)
  \/ Echo
  \/ LoseEcho
  \/ Tick
  \/ SetPreMode

EchoSpec == EchoInit /\ [][EchoNext]_echoVars /\ WF_echoVars(Echo) /\ WF_echoVars(Tick)

-----------------------------------------------------------------------------
(* Properties *)

EchoTypeOK ==
  /\ effect \in Effects
  /\ midi_fx_pre_mode \in BOOLEAN
  /\ pre_injected_notes \in [Pitches -> 0 .. CountMax]
  /\ pre_pad_held \in [Pitches -> 0 .. CountMax]
  /\ pending \in [LaterVoices -> Seq(Events)]
  /\ held_notes \subseteq Pitches
  /\ last_note \in Pitches \cup {NoNote}
  /\ inject \in Seq(Events)
  /\ Len(inject) <= QueueMax
  /\ pads \subseteq Pitches
  /\ playing \subseteq Pitches

(* As long as no pad was itself taken for an echo, no echo was lost and    *)
(* nothing was refused, the filter lets no echo through to a chord:        *)
(* overlapping chords of several pads, and pads pressed and released       *)
(* between an injection and its echo, included. (The arpeggiator injects   *)
(* note-offs of notes it did not inject; their echoes do get through.)     *)
EchoesAreKnown == ~upset /\ effect # "arp" => ~mistaken

(* Then nothing sounds on Move's track, and nothing is left in the two     *)
(* counts, when the pads are up and the echoes are in: no release was      *)
(* swallowed, for no pitch.                                                *)
NothingHangs ==
  Quiet /\ ~upset /\ effect # "arp" =>
    /\ playing = {}
    /\ \A n \in Pitches : pre_injected_notes[n] = 0 /\ pre_pad_held[n] = 0

(* The arpeggiator plays no note whose pad is up: it injects none that a   *)
(* pad holds, so that the release of a pad is never taken for an echo.     *)
ArpEnds == ~upset => held_notes \subseteq pads

(* Injecting does not feed on itself: once the pads leave it alone, with   *)
(* echoes lost, pads mistaken and switches in between, what is injected    *)
(* runs dry (but for a running arpeggiator).                               *)
Settles == []<>(inject = <<>> \/ held_notes # {})
=============================================================================
