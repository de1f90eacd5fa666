---------------------------- MODULE MidiDispatch ----------------------------
(***************************************************************************)
(* Notes on their way to the chain slots (host/shadow_midi.c, and          *)
(* shadow_inprocess_process_midi of the shim). A note of an external       *)
(* keyboard is seen up to three times: in MIDI_IN, where it may stay for   *)
(* some frames, by the reader for THRU slots and the reader for the other  *)
(* slots, and in MIDI_OUT, where Move echoes it some frames later. Two     *)
(* rings keyed by the event's timestamp and one keyed by its content are   *)
(* to make every slot hear it once; a note-off is to close the voice that  *)
(* its note-on opened although the slot is transposed in between.          *)
(*                                                                         *)
(* A step is a frame of the SPI thread. Two slots stand for the two ways   *)
(* of routing: "thru" receives all channels and forwards as is, "chan"     *)
(* receives the keyboard's channel and forwards to Forward. Events other   *)
(* than notes, and the copies for the audio effects, are left out.         *)
(***************************************************************************)
EXTENDS Integers, Sequences

CONSTANTS
  Keys,        \* notes of the keyboard
  Transposes,  \* values of slot:transpose
  Top,         \* the highest MIDI note
  Forwards,    \* channels that the slot "chan" may forward to
  RingSize,    \* DISPATCHED_EXT_RING_SIZE
  EchoAge,     \* DISPATCHED_EXT_MAX_AGE_TICKS
  DedupSize,   \* EVENT_DEDUP_RING_SIZE
  DedupAge,    \* EVENT_DEDUP_MAX_AGE_TICKS
  Burst,       \* events of the keyboard that Move has not echoed
  MaxEvents,   \* bound on the events of the keyboard
  MaxPlayed,   \* bound on the notes of Move's own sequencer
  MaxSettings  \* bound on the changes of mode and transpose

ASSUME DispatchAssumption ==
  /\ Keys \subseteq Nat
  /\ Transposes \subseteq Int /\ 0 \in Transposes
  /\ Top \in Nat
  /\ Forwards \subseteq Nat
  /\ EchoAge \in Nat \ {0}
  /\ DedupAge \in Nat
  /\ Burst \in Nat \ {0}
  /\ RingSize \in Nat /\ DedupSize \in Nat
  /\ 2 * Burst <= RingSize  \* both readers enter an event into the ring
  /\ DedupAge < DedupSize     \* the keyboard sends one event a frame
  /\ MaxEvents \in Nat /\ MaxPlayed \in Nat /\ MaxSettings \in Nat

VARIABLES
  g_thru_dedup, g_ch_dedup,  \* timestamps dispatched, with their age
  g_dispatched_ext_ring,     \* contents dispatched, with their age
  slot_active_note,          \* for slot, channel and key: the note sent
  transpose,                 \* for each slot
  overtake,                  \* a tool has taken over, and is not suspended
  forward_channel,           \* of the slot "chan"
  midi_in,                   \* the keyboard's events in MIDI_IN, with age
  awaited,                   \* those Move has still to echo, with age
  down,                      \* the keyboard's keys that are down
  played,                    \* the sequencer's keys that are down
  stamp, plays, settings,    \* how many so far
  sounding,                  \* for each slot, its synth's voices
  heard,                     \* history: how often a slot was sent an event
  muddled                    \* history: what the code cannot tell has happened

dispatchVars == <<g_thru_dedup, g_ch_dedup, g_dispatched_ext_ring,
                  slot_active_note, sounding, heard>>
playerVars == <<midi_in, awaited, down, played, stamp, plays, muddled>>
vars == <<dispatchVars, playerVars, transpose, overtake, forward_channel,
          settings>>

Slots    == {"thru", "chan"}
Keyboard == 0
Channels == {Keyboard} \cup Forwards
Pitches  == 0 .. Top
Free     == -1
Stamps   == 1 .. MaxEvents
Unstamped == 0

Init ==
  /\ g_thru_dedup = <<>>
  /\ g_ch_dedup = <<>>
  /\ g_dispatched_ext_ring = <<>>
  /\ slot_active_note =
       [s \in Slots |-> [c \in Channels |-> [k \in Keys |-> Free]]]
  /\ transpose = [s \in Slots |-> 0]
  /\ overtake \in BOOLEAN
  /\ forward_channel \in Forwards
  /\ midi_in = <<>>
  /\ awaited = <<>>
  /\ down = {}
  /\ played = {}
  /\ stamp = 0 /\ plays = 0 /\ settings = 0
  /\ sounding = [s \in Slots |-> {}]
  /\ heard = [s \in Slots |-> [t \in Stamps |-> 0]]
  /\ muddled = FALSE

-----------------------------------------------------------------------------
(* Rings: newest last, as the head overwrites the oldest. An entry stays   *)
(* until then, but is not found once it is older than maxAge.              *)

Entry(what) == [what |-> what, age |-> 0]

Older(ring, maxAge) ==
  [i \in 1 .. Len(ring) |->
     [ring[i] EXCEPT !.age = IF @ > maxAge THEN @ ELSE @ + 1]]

Record(ring, what, size) ==
  Append(IF Len(ring) = size THEN Tail(ring) ELSE ring, Entry(what))

Has(ring, what, maxAge) ==
  \E i \in 1 .. Len(ring) : ring[i].what = what /\ ring[i].age <= maxAge

(* What the ring of contents compares: the two forms of a note-off are one,*)
(* velocities and channels are all alike here.                             *)
Content(e) == [on |-> e.on, key |-> e.key]

-----------------------------------------------------------------------------
(* A slot hears a note: channel, transposition, synth. The state of the    *)
(* dispatcher is passed along the frame as one record, st.                 *)

(* Mutant: the note-off is transposed by today's value. *)
SentNow(st, s, c, e) ==
  LET note == e.key + transpose[s]
  IN  IF note \in Pitches THEN note ELSE Free

(* shadow_chain_apply_transpose: the note to send, or Free for none *)
Sent(st, s, c, e) ==
  LET held == st.active[s][c][e.key]
      note == e.key + transpose[s]
  IN  IF ~e.on /\ held # Free THEN held
      ELSE IF note \in Pitches THEN note ELSE Free

Voices(st, s, c, e) ==
  LET note == Sent(st, s, c, e)
  IN  IF note = Free THEN st.sounding[s]
      ELSE IF e.on THEN st.sounding[s] \cup {<<c, note>>}
      ELSE st.sounding[s] \ {<<c, note>>}

(* What the tracker then has for the key. *)
Tracked(st, s, c, e) ==
  IF ~e.on THEN Free
  ELSE IF Sent(st, s, c, e) = Free THEN st.active[s][c][e.key]
  ELSE Sent(st, s, c, e)

Counted(st, s, e) ==
  IF e.stamp = Unstamped THEN st.heard[s]
  ELSE [st.heard[s] EXCEPT ![e.stamp] = @ + 1]

Deliver(st, s, c, e) ==
  [st EXCEPT !.active[s][c][e.key] = Tracked(st, s, c, e),
             !.sounding[s] = Voices(st, s, c, e),
             !.heard[s] = Counted(st, s, e)]

(* Mutant: an event is known by its bytes alone. *)
EventKeyBytes(e) == Content(e)

(* An event's identity: its bytes and its timestamp, which is its own. *)
EventKey(e) == e.stamp

(* shadow_dispatch_direct_external_midi for one event of MIDI_IN *)
DirectEvent(st, e) ==
  IF Has(st.thru, EventKey(e), DedupAge) THEN st
  ELSE Deliver([st EXCEPT !.thru = Record(@, EventKey(e), DedupSize),
                          !.ring = Record(@, Content(e), RingSize)],
               "thru", Keyboard, e)

(* Mutant: an event is dispatched as often as it is seen. *)
ChannelEventAgain(st, e) ==
  Deliver([st EXCEPT !.ring = Record(@, Content(e), RingSize)],
          "chan", Keyboard, e)

(* shadow_dispatch_cable2_channeled_slots for one event of MIDI_IN *)
ChannelEvent(st, e) ==
  IF Has(st.ch, EventKey(e), DedupAge) THEN st
  ELSE Deliver([st EXCEPT !.ch = Record(@, EventKey(e), DedupSize),
                          !.ring = Record(@, Content(e), RingSize)],
               "chan", Keyboard, e)

(* Is a packet of MIDI_OUT the echo of an external event? MIDI_IN is       *)
(* compared byte by byte, which a note-off in the other form fails.        *)
IsExternalEcho(st, e, events) ==
  \/ /\ ~e.rewritten
     /\ \E i \in 1 .. Len(events) : Content(events[i]) = Content(e)
  \/ Has(st.ring, Content(e), EchoAge)

(* shadow_inprocess_process_midi for one packet of MIDI_OUT *)
OutEvent(st, e, events) ==
  LET echo == IsExternalEcho(st, e, events)
      chan == Deliver(st, "chan", forward_channel, e)
  IN  IF echo /\ ~overtake THEN st
      ELSE IF echo THEN chan
      ELSE Deliver(chan, "thru", Keyboard, e)

-----------------------------------------------------------------------------
(* A frame. *)

(* A reader goes through the events one after the other. *)
Read(Reader(_, _), st, events) ==
  LET after[n \in 0 .. Len(events)] ==
        IF n = 0 THEN st ELSE Reader(after[n - 1], events[n])
  IN  after[Len(events)]

Event(seq) == [i \in 1 .. Len(seq) |-> seq[i].what]

(* What the keyboard adds to MIDI_IN: an event or none. *)
NewEvents ==
  {<<>>} \cup
  IF stamp = MaxEvents \/ Len(awaited) = Burst THEN {}
  ELSE {<<[on |-> k \notin down, key |-> k, stamp |-> stamp + 1]>> : k \in Keys}

(* What Move leaves in MIDI_IN: not longer than the dedup rings remember.  *)
Leftovers ==
  LET old  == Older(midi_in, DedupAge)
      Stay == {i \in 1 .. Len(old) + 1 :
                 \A j \in i .. Len(old) : old[j].age <= DedupAge}
  IN  {SubSeq(old, i, Len(old)) : i \in Stay}

OutPacket(e, rewritten) ==
  [on |-> e.on, key |-> e.key, stamp |-> e.stamp, rewritten |-> rewritten]

Echoes ==
  IF awaited = <<>> THEN {}
  ELSE {OutPacket(Head(awaited).what, r) : r \in {FALSE, ~Head(awaited).what.on}}

SequencerNotes ==
  IF plays = MaxPlayed /\ played = {} THEN {}
  ELSE {OutPacket([on |-> k \notin played, key |-> k, stamp |-> Unstamped], FALSE)
          : k \in IF plays = MaxPlayed THEN played ELSE Keys}

Pressed(keys, e) == IF e.on THEN keys \cup {e.key} ELSE keys \ {e.key}

(* A key that two players hold, as far as the slots have heard: the        *)
(* tracker has one note for it, and cannot keep two transpositions apart.  *)
Contested(keyboard, unheard, sequencer) ==
  \/ keyboard \cap sequencer # {}
  \/ \E i \in 1 .. Len(unheard) : unheard[i].what.key \in sequencer

(* The three readers in turn: MIDI_IN for the slot "thru", MIDI_IN for the *)
(* slot "chan" unless a tool has taken over, MIDI_OUT.                     *)
Dispatch(events, out) ==
  LET aged == [thru     |-> Older(g_thru_dedup, DedupAge),
               ch       |-> Older(g_ch_dedup, DedupAge),
               ring     |-> Older(g_dispatched_ext_ring, EchoAge),
               active   |-> slot_active_note,
               sounding |-> sounding,
               heard    |-> heard]
      direct  == Read(DirectEvent, aged, events)
      channel == IF overtake THEN direct ELSE Read(ChannelEvent, direct, events)
      last    == IF out = <<>> THEN channel
                 ELSE OutEvent(channel, out[1], events)
      False(e) == e.stamp = Unstamped /\ IsExternalEcho(channel, e, events)
  IN  /\ g_thru_dedup' = last.thru
      /\ g_ch_dedup' = last.ch
      /\ g_dispatched_ext_ring' = last.ring
      /\ slot_active_note' = last.active
      /\ sounding' = last.sounding
      /\ heard' = last.heard
      /\ muddled' = \/ muddled
                    \/ out # <<>> /\ False(out[1])
                    \/ settings > 0 /\ Contested(down \cup down', awaited \o awaited',
                                                played \cup played')

Arrive(events) ==
  /\ stamp' = stamp + Len(events)
  /\ down' = IF events = <<>> THEN down ELSE Pressed(down, events[1])

Entries(events) == [i \in 1 .. Len(events) |-> Entry(events[i])]

(* Move echoes what the keyboard sent, in order and within EchoAge frames. *)
Frame ==
  \E left \in Leftovers, new \in NewEvents,
     out \in {<<>>} \cup {<<e>> : e \in Echoes \cup SequencerNotes} :
    LET echoed == out # <<>> /\ out[1].stamp # Unstamped
        due    == IF echoed THEN Tail(awaited) ELSE awaited
        later  == Older(due, EchoAge)
    IN  /\ \A i \in 1 .. Len(later) : later[i].age < EchoAge
        /\ midi_in' = left \o Entries(new)
        /\ awaited' = later \o Entries(new)
        /\ Arrive(new)
        /\ IF out = <<>> \/ echoed
           THEN UNCHANGED <<played, plays>>
           ELSE /\ played' = Pressed(played, out[1])
                /\ plays' = plays + (IF out[1].on THEN 1 ELSE 0)
        /\ Dispatch(Event(left) \o new, out)
        /\ UNCHANGED <<transpose, overtake, forward_channel, settings>>

-----------------------------------------------------------------------------
(* Settings, between two frames. *)

(* slot:transpose *)
SetTranspose(s, t) ==
  /\ settings < MaxSettings
  /\ t # transpose[s]
  /\ settings' = settings + 1
  /\ transpose' = [transpose EXCEPT ![s] = t]
  /\ muddled' = (muddled \/ Contested(down, awaited, played))
  /\ UNCHANGED <<dispatchVars, overtake, forward_channel, midi_in, awaited,
                 down, played, stamp, plays>>

(* A tool takes over or leaves. An event that is dispatched in one mode    *)
(* and echoed in the other, and a key held on a slot with a forward        *)
(* channel of its own, are dispatched by two readers.                      *)
SwitchMode ==
  /\ settings < MaxSettings
  /\ settings' = settings + 1
  /\ overtake' = ~overtake
  /\ muddled' = (muddled \/ awaited # <<>> \/ midi_in # <<>>
                         \/ (down # {} /\ forward_channel # Keyboard))
  /\ UNCHANGED <<dispatchVars, transpose, forward_channel, midi_in, awaited,
                 down, played, stamp, plays>>

-----------------------------------------------------------------------------

Next ==
  \/ Frame
  \/ \E s \in Slots, t \in Transposes : SetTranspose(s, t)
  \/ SwitchMode

Spec == Init /\ [][Next]_vars

-----------------------------------------------------------------------------
(* Properties *)

Events == [on : BOOLEAN, key : Keys, stamp : Stamps]
Aged(what) == Seq([what : what, age : Nat])

TypeOK ==
  /\ g_thru_dedup \in Aged(Stamps) /\ Len(g_thru_dedup) <= DedupSize
  /\ g_ch_dedup \in Aged(Stamps) /\ Len(g_ch_dedup) <= DedupSize
  /\ g_dispatched_ext_ring \in Aged([on : BOOLEAN, key : Keys])
  /\ Len(g_dispatched_ext_ring) <= RingSize
  /\ slot_active_note \in [Slots -> [Channels -> [Keys -> Pitches \cup {Free}]]]
  /\ transpose \in [Slots -> Transposes]
  /\ overtake \in BOOLEAN
  /\ forward_channel \in Forwards
  /\ midi_in \in Aged(Events) /\ awaited \in Aged(Events)
  /\ down \subseteq Keys /\ played \subseteq Keys
  /\ stamp \in 0 .. MaxEvents /\ plays \in 0 .. MaxPlayed
  /\ settings \in 0 .. MaxSettings
  /\ sounding \in [Slots -> SUBSET (Channels \X Pitches)]
  /\ heard \in [Slots -> [Stamps -> Nat]]
  /\ muddled \in BOOLEAN

(* No slot is sent an event of the keyboard twice: neither because it      *)
(* stays in MIDI_IN for some frames, nor because Move echoes it, at the    *)
(* latest when the rings forget it.                                        *)
NeverTwice ==
  ~muddled => \A s \in Slots, t \in Stamps : heard[s][t] <= 1

(* By the time Move has echoed an event every slot has heard it.           *)
NeverMissed ==
  LET Over(t) == /\ t <= stamp
                 /\ \A i \in 1 .. Len(awaited) : awaited[i].what.stamp # t
  IN  ~muddled => \A s \in Slots, t \in Stamps : Over(t) => heard[s][t] >= 1

(* With all keys up and all echoes in, no slot has a voice left over,      *)
(* however it was transposed while they were down.                         *)
NoVoiceHangs ==
  down = {} /\ played = {} /\ awaited = <<>> /\ ~muddled =>
    \A s \in Slots : sounding[s] = {}
=============================================================================
