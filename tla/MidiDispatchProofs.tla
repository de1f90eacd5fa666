------------------------- MODULE MidiDispatchProofs -------------------------
(***************************************************************************)
(* Every slot hears every event of the keyboard once, and is left no voice *)
(* (MidiDispatch), for rings of every size and age that DispatchAssumption *)
(* allows and any number of keys, channels, events and settings.           *)
(*                                                                         *)
(* Every event that MIDI_IN still holds has its entry in the rings of its  *)
(* timestamp, of the same age, and at most as many entries behind it as it *)
(* is frames old; every event that Move has still to echo has an entry in  *)
(* the ring of contents, with at most two entries behind it for each later *)
(* event. So no entry is overwritten while it is needed (PlaceInv). Then   *)
(* the counts of what was heard follow (HeardInv), and so do the voices: a *)
(* voice sounds only with a key in the tracker that sent it, and the       *)
(* tracker has no key but those that are down as far as the slot has heard *)
(* (VoiceInv).                                                             *)
(***************************************************************************)
EXTENDS MidiDispatch, SequenceTheorems, WellFoundedInduction, TLAPS

-----------------------------------------------------------------------------
(* The inductive invariant, in parts that speak of a ring, of a queue of   *)
(* events q, of the keys down (at the keyboard) and played (by the         *)
(* sequencer), and of a tracker.                                           *)

(* A note-on that is to be echoed is followed by its note-off, or its key  *)
(* is down.                                                                *)
Alternate(q, keys) ==
  \A i \in 1 .. Len(q) : q[i].on =>
    \/ /\ q[i].key \in keys
       /\ \A k \in i + 1 .. Len(q) : q[k].key # q[i].key
    \/ \E j \in i + 1 .. Len(q) :
         /\ q[j].key = q[i].key /\ ~q[j].on
         /\ \A k \in i + 1 .. j - 1 : q[k].key # q[i].key

(* The keyboard, Move's sequencer, the settings.                           *)
PlayerTypes ==
  /\ transpose \in [Slots -> Transposes]
  /\ overtake \in BOOLEAN
  /\ forward_channel \in Forwards
  /\ midi_in \in Aged(Events) /\ awaited \in Aged(Events)
  /\ down \subseteq Keys /\ played \subseteq Keys
  /\ stamp \in 0 .. MaxEvents
  /\ settings \in Nat
  /\ muddled \in BOOLEAN

PlayerInv ==
  /\ PlayerTypes
  /\ Len(awaited) <= Burst /\ Len(awaited) <= stamp
  /\ \A i \in 1 .. Len(awaited) :
       /\ awaited[i].what.stamp = stamp - Len(awaited) + i
       /\ awaited[i].age < EchoAge
  /\ \A i \in 1 .. Len(midi_in) :
       /\ midi_in[i].what.stamp <= stamp
       /\ midi_in[i].age <= DedupAge
  /\ Alternate(Event(awaited), down)

(* The state of the dispatcher, as it is passed along a frame.             *)
Contents == [on : BOOLEAN, key : Keys]
Tracker  == [Slots -> [Channels -> [Keys -> Pitches \cup {Free}]]]
Synths   == [Slots -> SUBSET (Channels \X Pitches)]
Counts   == [Slots -> [Stamps -> Nat]]
States   == [thru : Aged(Stamps), ch : Aged(Stamps), ring : Aged(Contents),
             active : Tracker, sounding : Synths, heard : Counts]

DispatchTypes ==
  /\ g_thru_dedup \in Aged(Stamps) /\ Len(g_thru_dedup) <= DedupSize
  /\ g_ch_dedup \in Aged(Stamps) /\ Len(g_ch_dedup) <= DedupSize
  /\ g_dispatched_ext_ring \in Aged(Contents)
  /\ Len(g_dispatched_ext_ring) <= RingSize
  /\ slot_active_note \in Tracker
  /\ sounding \in Synths /\ heard \in Counts

(* A ring of timestamps: one entry for each frame at most.                 *)
OnePerFrame(ring, newest) ==
  \A i \in 1 .. Len(ring) :
    /\ ring[i].what <= newest
    /\ ring[i].age <= DedupAge => Len(ring) - i <= ring[i].age

(* It knows every event that MIDI_IN holds.                                *)
KnowsEvents(ring, queue) ==
  \A i \in 1 .. Len(queue) : \E j \in 1 .. Len(ring) :
    ring[j].what = queue[i].what.stamp /\ ring[j].age = queue[i].age

(* The ring of contents knows every event that is to be echoed.            *)
KnowsAwaited(ring, queue) ==
  \A i \in 1 .. Len(queue) : \E j \in 1 .. Len(ring) :
    /\ ring[j].what = Content(queue[i].what)
    /\ ring[j].age = queue[i].age
    /\ Len(ring) - j <= 2 * (Len(queue) - i) + 1

PlaceInv ==
  /\ OnePerFrame(g_thru_dedup, stamp) /\ OnePerFrame(g_ch_dedup, stamp)
  /\ KnowsEvents(g_thru_dedup, midi_in)
  /\ ~overtake => KnowsEvents(g_ch_dedup, midi_in)
  /\ KnowsAwaited(g_dispatched_ext_ring, awaited)

(* What a slot has been sent: THRU slots hear from MIDI_IN; the others do, *)
(* unless a tool has taken over, when they wait for the echo.              *)
Heard(counts, upToThru, upToChan) ==
  /\ \A t \in Stamps : /\ t <= upToThru => counts["thru"][t] = 1
                       /\ t > upToThru => counts["thru"][t] = 0
  /\ \A t \in Stamps : /\ t <= upToChan => counts["chan"][t] = 1
                       /\ t > upToChan => counts["chan"][t] = 0

EchoesHeard == IF overtake THEN stamp - Len(awaited) ELSE stamp

HeardInv == Heard(heard, stamp, EchoesHeard)

(* The keys that are down as far as the echoes tell.                       *)
EchoedDown(q, keys, k) ==
  \/ k \in keys /\ \A i \in 1 .. Len(q) : q[i].key # k
  \/ \E i \in 1 .. Len(q) :
       /\ q[i].key = k /\ ~q[i].on
       /\ \A j \in 1 .. i - 1 : q[j].key # k

(* What the tracker of a slot may hold: the channels and keys on which the *)
(* slot has heard a note-on and no note-off.                               *)
ThruHolds(keys, sequencer) == {Keyboard} \X (keys \cup sequencer)

ChanHolds(q, keys, sequencer) ==
  ({forward_channel} \X sequencer)
    \cup IF overtake
         THEN {forward_channel} \X {k \in Keys : EchoedDown(q, keys, k)}
         ELSE {Keyboard} \X keys

HeldIn(active, s, holds) ==
  \A c \in Channels, k \in Keys : active[s][c][k] # Free => <<c, k>> \in holds

(* Every voice has its key in the tracker.                                 *)
Voiced(active, voices) ==
  \A s \in Slots, c \in Channels, n \in Pitches :
    <<c, n>> \in voices[s] => \E k \in Keys : active[s][c][k] = n

(* Nothing was transposed yet: a key is its own note.                      *)
Plain(active) ==
  /\ \A s \in Slots : transpose[s] = 0
  /\ \A s \in Slots, c \in Channels, k \in Keys : active[s][c][k] \in {Free, k}

VoiceInv ==
  /\ settings = 0 \/ Contested(down, awaited, played) => Plain(slot_active_note)
  /\ HeldIn(slot_active_note, "thru", ThruHolds(down, played))
  /\ HeldIn(slot_active_note, "chan", ChanHolds(Event(awaited), down, played))
  /\ Voiced(slot_active_note, sounding)

DispatchInv == DispatchTypes /\ PlaceInv /\ HeardInv /\ VoiceInv

Inv == PlayerInv /\ (~muddled => DispatchInv)

-----------------------------------------------------------------------------
(* Induction, in a form that needs no operator: sets of numbers.           *)

LEMMA LeastNumber ==
  ASSUME NEW T \in SUBSET Nat, T # {}
  PROVE  \E x \in T : \A y \in T : x <= y
<1> DEFINE R == OpToRel(<, Nat)
<1>1. IsWellFoundedOn(R, Nat)
  BY NatLessThanWellFounded, Zenon
<1>2. \E x \in T : \A y \in T : ~ (<<y, x>> \in R)
  BY <1>1, WFMin, Zenon
<1>3. \A x, y \in Nat : y < x => <<y, x>> \in R
  BY DEF OpToRel
<1> HIDE DEF R
<1>4. PICK x \in T : \A y \in T : ~ (<<y, x>> \in R)
  BY <1>2, Zenon
<1>5. ASSUME NEW y \in T PROVE x <= y
  <2>1. x \in Nat /\ y \in Nat
    OBVIOUS
  <2>2. ~(y < x)
    BY <2>1, <1>3, <1>4, Zenon
  <2> QED
    BY <2>1, <2>2
<1> QED
  BY <1>5

LEMMA EveryNumber ==
  ASSUME NEW T, 0 \in T, \A n \in Nat : n \in T => n + 1 \in T
  PROVE  Nat \subseteq T
<1> DEFINE C == Nat \ T
<1> SUFFICES ASSUME C # {} PROVE FALSE
  OBVIOUS
<1>1. PICK x \in C : \A y \in C : x <= y
  BY LeastNumber
<1>2. x # 0 /\ x - 1 \in Nat /\ x - 1 \in T
  BY <1>1
<1> QED
  BY <1>1, <1>2

-----------------------------------------------------------------------------
(* The loops of the readers: a reader that passes over all events but the  *)
(* last does with them what it does with the last.                         *)

LEMMA ReadDirect ==
  ASSUME NEW st, NEW events, NEW N \in Nat, Len(events) = N,
         \A i \in 1 .. N : i < N => DirectEvent(st, events[i]) = st
  PROVE  /\ N = 0 => Read(DirectEvent, st, events) = st
         /\ N > 0 => Read(DirectEvent, st, events) = DirectEvent(st, events[N])
<1> DEFINE
      Step(f) == [n \in 0 .. Len(events) |->
                    IF n = 0 THEN st ELSE DirectEvent(f[n - 1], events[n])]
      g == [n \in 0 .. Len(events) |->
              IF n = 0 THEN st ELSE DirectEvent(st, events[n])]
      f == CHOOSE f : f = Step(f)
      T == {n \in Nat : n < N => f[n] = st}
<1>1. \A n \in 0 .. N : n < N => g[n] = st
  OBVIOUS
<1>2. g = Step(g)
  <2>1. ASSUME NEW n \in 0 .. N, n # 0 PROVE g[n - 1] = st
    <3>1. n - 1 \in 0 .. N /\ n - 1 < N
      BY <2>1
    <3> QED
      BY <3>1, <1>1
  <2> HIDE DEF g
  <2>2. \A n \in 0 .. N : g[n] = IF n = 0 THEN st ELSE DirectEvent(st, events[n])
    BY DEF g
  <2>3. g = [n \in 0 .. N |-> g[n]]
    BY DEF g
  <2>4. \A n \in 0 .. N : g[n] = Step(g)[n]
    BY <2>1, <2>2
  <2>5. Step(g) = [n \in 0 .. N |-> Step(g)[n]]
    OBVIOUS
  <2> QED
    BY <2>3, <2>4, <2>5
<1> HIDE DEF g
<1>3. f = Step(f)
  BY <1>2
<1>4. Read(DirectEvent, st, events) = f[N]
  BY DEF Read
<1> HIDE DEF f
<1>5. /\ f[0] = st
      /\ \A n \in 1 .. N : f[n] = DirectEvent(f[n - 1], events[n])
  BY <1>3
<1>6. 0 \in T
  BY <1>5
<1>7. \A n \in Nat : n \in T => n + 1 \in T
  <2> SUFFICES ASSUME NEW n \in Nat, n \in T, n + 1 < N
               PROVE  f[n + 1] = st
    OBVIOUS
  <2>1. f[n] = st /\ n + 1 \in 1 .. N /\ (n + 1) - 1 = n
    OBVIOUS
  <2> QED
    BY <2>1, <1>5
<1>8. \A n \in 0 .. N : n < N => f[n] = st
  <2>1. Nat \subseteq T
    <3> HIDE DEF T
    <3> QED BY <1>6, <1>7, EveryNumber
  <2> QED
    BY <2>1
<1>9. ASSUME N > 0 PROVE f[N] = DirectEvent(st, events[N])
  <2>1. N \in 1 .. N /\ N - 1 \in 0 .. N /\ N - 1 < N
    BY <1>9
  <2> QED
    BY <2>1, <1>5, <1>8
<1> QED
  BY <1>4, <1>5, <1>9

LEMMA ReadChannel ==
  ASSUME NEW st, NEW events, NEW N \in Nat, Len(events) = N,
         \A i \in 1 .. N : i < N => ChannelEvent(st, events[i]) = st
  PROVE  /\ N = 0 => Read(ChannelEvent, st, events) = st
         /\ N > 0 => Read(ChannelEvent, st, events) = ChannelEvent(st, events[N])
<1> DEFINE
      Step(f) == [n \in 0 .. Len(events) |->
                    IF n = 0 THEN st ELSE ChannelEvent(f[n - 1], events[n])]
      g == [n \in 0 .. Len(events) |->
              IF n = 0 THEN st ELSE ChannelEvent(st, events[n])]
      f == CHOOSE f : f = Step(f)
      T == {n \in Nat : n < N => f[n] = st}
<1>1. \A n \in 0 .. N : n < N => g[n] = st
  OBVIOUS
<1>2. g = Step(g)
  <2>1. ASSUME NEW n \in 0 .. N, n # 0 PROVE g[n - 1] = st
    <3>1. n - 1 \in 0 .. N /\ n - 1 < N
      BY <2>1
    <3> QED
      BY <3>1, <1>1
  <2> HIDE DEF g
  <2>2. \A n \in 0 .. N : g[n] = IF n = 0 THEN st ELSE ChannelEvent(st, events[n])
    BY DEF g
  <2>3. g = [n \in 0 .. N |-> g[n]]
    BY DEF g
  <2>4. \A n \in 0 .. N : g[n] = Step(g)[n]
    BY <2>1, <2>2
  <2>5. Step(g) = [n \in 0 .. N |-> Step(g)[n]]
    OBVIOUS
  <2> QED
    BY <2>3, <2>4, <2>5
<1> HIDE DEF g
<1>3. f = Step(f)
  BY <1>2
<1>4. Read(ChannelEvent, st, events) = f[N]
  BY DEF Read
<1> HIDE DEF f
<1>5. /\ f[0] = st
      /\ \A n \in 1 .. N : f[n] = ChannelEvent(f[n - 1], events[n])
  BY <1>3
<1>6. 0 \in T
  BY <1>5
<1>7. \A n \in Nat : n \in T => n + 1 \in T
  <2> SUFFICES ASSUME NEW n \in Nat, n \in T, n + 1 < N
               PROVE  f[n + 1] = st
    OBVIOUS
  <2>1. f[n] = st /\ n + 1 \in 1 .. N /\ (n + 1) - 1 = n
    OBVIOUS
  <2> QED
    BY <2>1, <1>5
<1>8. \A n \in 0 .. N : n < N => f[n] = st
  <2>1. Nat \subseteq T
    <3> HIDE DEF T
    <3> QED BY <1>6, <1>7, EveryNumber
  <2> QED
    BY <2>1
<1>9. ASSUME N > 0 PROVE f[N] = ChannelEvent(st, events[N])
  <2>1. N \in 1 .. N /\ N - 1 \in 0 .. N /\ N - 1 < N
    BY <1>9
  <2> QED
    BY <2>1, <1>5, <1>8
<1> QED
  BY <1>4, <1>5, <1>9

-----------------------------------------------------------------------------
(* The rings. *)

LEMMA AgedElement ==
  ASSUME NEW W, NEW ring \in Aged(W), NEW i \in 1 .. Len(ring)
  PROVE  /\ ring[i] \in [what : W, age : Nat]
         /\ ring[i].what \in W /\ ring[i].age \in Nat
<1> DEFINE E == [what : W, age : Nat]
<1>1. ring \in Seq(E)
  BY DEF Aged
<1> HIDE DEF E
<1>2. ring[i] \in E
  BY <1>1, ElementOfSeq
<1> QED
  BY <1>2 DEF E

LEMMA AgedRing ==
  ASSUME NEW W, NEW ring \in Aged(W)
  PROVE  /\ Len(ring) \in Nat
         /\ \A i \in 1 .. Len(ring) : ring[i].age \in Nat /\ ring[i].what \in W
<1>1. Len(ring) \in Nat
  BY DEF Aged
<1> QED
  BY <1>1, AgedElement

LEMMA OlderIs ==
  ASSUME NEW W, NEW ring \in Aged(W), NEW m \in Nat
  PROVE  /\ Older(ring, m) \in Aged(W)
         /\ Len(Older(ring, m)) = Len(ring)
         /\ \A i \in 1 .. Len(ring) :
              /\ Older(ring, m)[i].what = ring[i].what
              /\ ring[i].age <= m => Older(ring, m)[i].age = ring[i].age + 1
              /\ ring[i].age > m => Older(ring, m)[i].age = ring[i].age
<1>1. Len(ring) \in Nat
  BY DEF Aged
<1>2. \A i \in 1 .. Len(ring) : /\ ring[i].what \in W /\ ring[i].age \in Nat
                               /\ ring[i] \in [what : W, age : Nat]
  BY AgedElement
<1>3. \A i \in 1 .. Len(ring) :
        LET x == [ring[i] EXCEPT !.age = IF @ > m THEN @ ELSE @ + 1]
        IN  /\ x \in [what : W, age : Nat]
            /\ x.what = ring[i].what
            /\ ring[i].age <= m => x.age = ring[i].age + 1
            /\ ring[i].age > m => x.age = ring[i].age
  BY <1>2
<1>4. Older(ring, m) \in [1 .. Len(ring) -> [what : W, age : Nat]]
  BY <1>3 DEF Older
<1>5. Older(ring, m) \in Aged(W) /\ Len(Older(ring, m)) = Len(ring)
  BY <1>1, <1>4, IsASeq DEF Aged
<1> QED
  BY <1>3, <1>5 DEF Older

(* Recording drops at most the oldest entry. *)
LEMMA RecordIs ==
  ASSUME NEW W, NEW ring \in Aged(W), NEW w \in W,
         NEW size \in Nat \ {0}, Len(ring) <= size
  PROVE  /\ Record(ring, w, size) \in Aged(W)
         /\ Len(Record(ring, w, size)) <= size
         /\ Record(ring, w, size) # <<>>
         /\ Record(ring, w, size)[Len(Record(ring, w, size))] = Entry(w)
         /\ \E d \in {0, 1} :
              /\ d = 1 => Len(ring) = size
              /\ Len(Record(ring, w, size)) = Len(ring) - d + 1
              /\ \A i \in 1 .. Len(ring) - d :
                   Record(ring, w, size)[i] = ring[i + d]
<1> DEFINE E == [what : W, age : Nat]
           d == IF Len(ring) = size THEN 1 ELSE 0
           kept == IF Len(ring) = size THEN Tail(ring) ELSE ring
<1>1. ring \in Seq(E) /\ Len(ring) \in Nat
  BY DEF Aged
<1>2. Entry(w) \in E
  BY DEF Entry
<1>3. /\ kept \in Seq(E) /\ Len(kept) = Len(ring) - d
      /\ \A i \in 1 .. Len(ring) - d : kept[i] = ring[i + d]
  <2>1. CASE Len(ring) = size
    <3>1. ring # <<>>
      BY <1>1, <2>1
    <3> HIDE DEF E
    <3>2. Tail(ring) \in Seq(E) /\ Len(Tail(ring)) = Len(ring) - 1
          /\ \A i \in 1 .. Len(Tail(ring)) : Tail(ring)[i] = ring[i + 1]
      BY <1>1, <3>1, HeadTailProperties
    <3> QED
      BY <3>2, <2>1
  <2>2. CASE Len(ring) # size
    BY <1>1, <2>2
  <2> QED
    BY <2>1, <2>2
<1> HIDE DEF E, kept
<1>4. /\ Append(kept, Entry(w)) \in Seq(E)
      /\ Len(Append(kept, Entry(w))) = Len(kept) + 1
      /\ \A i \in 1 .. Len(kept) : Append(kept, Entry(w))[i] = kept[i]
      /\ Append(kept, Entry(w))[Len(kept) + 1] = Entry(w)
  BY <1>2, <1>3, AppendProperties
<1>5. Record(ring, w, size) = Append(kept, Entry(w))
  BY DEF Record, kept
<1>6. d \in {0, 1} /\ (d = 1 => Len(ring) = size)
  OBVIOUS
<1>7. Len(Append(kept, Entry(w))) = (Len(ring) - d) + 1
  BY <1>3, <1>4
<1>8. Len(Append(kept, Entry(w))) <= size
  BY <1>7, <1>1
<1>9. \A i \in 1 .. Len(ring) - d : Append(kept, Entry(w))[i] = ring[i + d]
  BY <1>3, <1>4
<1>10. Append(kept, Entry(w)) \in Aged(W)
  BY <1>4 DEF Aged, E
<1>11. Append(kept, Entry(w)) # <<>>
  <2>1. Len(Append(kept, Entry(w))) > 0
    BY <1>7, <1>1
  <2> QED
    BY <2>1, EmptySeq
<1> HIDE DEF d
<1> QED
  BY <1>4, <1>5, <1>6, <1>7, <1>8, <1>9, <1>10, <1>11, <1>3

-----------------------------------------------------------------------------
(* What one delivery changes.                                              *)

(* The rings stay. In the tracker only the key of the event changes: a      *)
(* note-off frees it, a note-on leaves it or enters the note it sends. The  *)
(* event is counted. And no voice is left without its key, unless a note-on *)
(* finds its key held with another note.                                    *)
Delivers(d, st, s, c, e) ==
  /\ d \in States
  /\ d.thru = st.thru /\ d.ch = st.ch /\ d.ring = st.ring
  /\ \A s1 \in Slots, c1 \in Channels, k1 \in Keys :
       s1 # s \/ c1 # c \/ k1 # e.key =>
         d.active[s1][c1][k1] = st.active[s1][c1][k1]
  /\ ~e.on => d.active[s][c][e.key] = Free
  /\ e.on => d.active[s][c][e.key] \in
               {st.active[s][c][e.key], e.key + transpose[s]}
  /\ \A s1 \in Slots, t \in Stamps :
       s1 # s \/ t # e.stamp => d.heard[s1][t] = st.heard[s1][t]
  /\ e.stamp \in Stamps =>
       d.heard[s][e.stamp] = st.heard[s][e.stamp] + 1
  /\ /\ e.on => st.active[s][c][e.key] \in {Free, e.key + transpose[s]}
     /\ Voiced(st.active, st.sounding)
     => Voiced(d.active, d.sounding)

LEMMA DeliverIs ==
  ASSUME NEW st \in States, NEW s \in Slots, NEW c \in Channels, NEW e,
         e.on \in BOOLEAN, e.key \in Keys, e.stamp \in Stamps \cup {Unstamped},
         transpose \in [Slots -> Transposes]
  PROVE  Delivers(Deliver(st, s, c, e), st, s, c, e)
<1> DEFINE d == Deliver(st, s, c, e)
           note == Sent(st, s, c, e)
           x == Tracked(st, s, c, e)
           h == Counted(st, s, e)
           v == Voices(st, s, c, e)
<1>1. /\ st.active \in Tracker /\ st.sounding \in Synths /\ st.heard \in Counts
  BY DEF States
<1>2. note \in Pitches \cup {Free}
  BY <1>1 DEF Sent, Tracker
<1>3. x \in Pitches \cup {Free}
  BY <1>1, <1>2 DEF Tracked, Tracker
<1>4. v \in SUBSET (Channels \X Pitches)
  <2>1. note # Free => <<c, note>> \in Channels \X Pitches
    BY <1>2
  <2> QED
    BY <1>1, <2>1 DEF Voices, Synths
<1>5. h \in [Stamps -> Nat]
  BY <1>1 DEF Counted, Counts
<1>6. /\ d.thru = st.thru /\ d.ch = st.ch /\ d.ring = st.ring
      /\ d.active = [st.active EXCEPT ![s][c][e.key] = x]
      /\ d.sounding = [st.sounding EXCEPT ![s] = v]
      /\ d.heard = [st.heard EXCEPT ![s] = h]
  BY DEF States, Deliver
<1>7. /\ [st.active EXCEPT ![s][c][e.key] = x] \in Tracker
      /\ [st.sounding EXCEPT ![s] = v] \in Synths
      /\ [st.heard EXCEPT ![s] = h] \in Counts
  BY <1>1, <1>3, <1>4, <1>5 DEF Tracker, Synths, Counts
<1>8. d \in States
  <2> HIDE DEF x, v, h
  <2> QED
    BY <1>7 DEF States, Deliver, x, v, h
<1>10. /\ \A s1 \in Slots, c1 \in Channels, k1 \in Keys :
            s1 # s \/ c1 # c \/ k1 # e.key =>
              d.active[s1][c1][k1] = st.active[s1][c1][k1]
       /\ d.active[s][c][e.key] = x
  <2> HIDE DEF d, x
  <2> QED
    BY <1>1, <1>6 DEF Tracker
<1>11. /\ ~e.on => x = Free
       /\ e.on => x \in {st.active[s][c][e.key], e.key + transpose[s]}
  BY DEF Tracked, Sent
<1>12. /\ \A s1 \in Slots, t \in Stamps :
            s1 # s \/ t # e.stamp => d.heard[s1][t] = st.heard[s1][t]
       /\ e.stamp \in Stamps => d.heard[s][e.stamp] = st.heard[s][e.stamp] + 1
  <2>1. Unstamped \notin Stamps
    BY DispatchAssumption DEF Unstamped, Stamps
  <2>2. \A t \in Stamps : /\ t # e.stamp => h[t] = st.heard[s][t]
                          /\ t = e.stamp => h[t] = st.heard[s][t] + 1
    BY <1>1, <2>1 DEF Counted, Counts
  <2> HIDE DEF d, h
  <2>3. /\ d.heard[s] = h
        /\ \A s1 \in Slots : s1 # s => d.heard[s1] = st.heard[s1]
    BY <1>1, <1>6 DEF Counts
  <2> QED
    BY <2>2, <2>3
<1>13. ASSUME e.on => st.active[s][c][e.key] \in {Free, e.key + transpose[s]},
              Voiced(st.active, st.sounding),
              NEW s1 \in Slots, NEW c1 \in Channels, NEW n \in Pitches,
              <<c1, n>> \in d.sounding[s1]
       PROVE  \E k \in Keys : d.active[s1][c1][k] = n
  <2>1. Free \notin Pitches
    BY DispatchAssumption DEF Free, Pitches
  <2>2. /\ e.on => note \in {Free, e.key + transpose[s]}
        /\ ~e.on /\ st.active[s][c][e.key] # Free => note = st.active[s][c][e.key]
        /\ ~e.on /\ note # Free => v = st.sounding[s] \ {<<c, note>>}
        /\ e.on /\ note # Free => v = st.sounding[s] \cup {<<c, note>>}
        /\ note = Free => v = st.sounding[s]
        /\ e.on /\ note # Free => x = note
        /\ e.on /\ note = Free => x = st.active[s][c][e.key]
    BY DEF Sent, Voices, Tracked
  <2> HIDE DEF d, note, x, v
  <2>3. /\ d.sounding[s] = v
        /\ \A s2 \in Slots : s2 # s => d.sounding[s2] = st.sounding[s2]
    BY <1>1, <1>6 DEF Synths
  <2>4. CASE <<c1, n>> \in st.sounding[s1]
    <3>1. PICK k \in Keys : st.active[s1][c1][k] = n
      BY <2>4, <1>13 DEF Voiced
    <3>2. CASE s1 # s \/ c1 # c \/ k # e.key
      BY <3>1, <3>2, <1>10
    <3>3. CASE s1 = s /\ c1 = c /\ k = e.key
      <4>1. st.active[s][c][e.key] = n /\ n # Free
        BY <3>1, <3>3, <2>1
      <4>2. e.on
        <5>1. ASSUME ~e.on PROVE FALSE
          <6>1. note = n /\ v = st.sounding[s] \ {<<c, n>>}
            BY <5>1, <4>1, <2>2
          <6>2. <<c, n>> \in v
            BY <2>3, <1>13, <3>3
          <6> QED
            BY <6>1, <6>2
        <5> QED
          BY <5>1
      <4>3. x = n
        BY <4>1, <4>2, <1>13, <2>2
      <4> QED
        BY <4>3, <3>3, <1>10
    <3> QED
      BY <3>2, <3>3
  <2>5. CASE <<c1, n>> \notin st.sounding[s1]
    <3>1. s1 = s /\ <<c1, n>> \in v /\ <<c1, n>> \notin st.sounding[s]
      BY <2>3, <2>5, <1>13
    <3>2. e.on /\ note # Free /\ <<c1, n>> = <<c, note>>
      BY <3>1, <2>2
    <3>3. c1 = c /\ n = note /\ d.active[s][c][e.key] = note
      BY <3>2, <2>2, <1>10
    <3> QED
      BY <3>1, <3>3
  <2> QED
    BY <2>4, <2>5
<1>14. (e.on => st.active[s][c][e.key] \in {Free, e.key + transpose[s]})
         /\ Voiced(st.active, st.sounding)
       => Voiced(d.active, d.sounding)
  <2> HIDE DEF d
  <2> QED
    BY <1>13 DEF Voiced
<1> HIDE DEF d
<1> QED
  BY <1>6, <1>8, <1>10, <1>11, <1>12, <1>14 DEF d, Delivers

LEMMA DeliverCounts ==
  ASSUME NEW st \in States, NEW s \in Slots, NEW c \in Channels, NEW e,
         e.on \in BOOLEAN, e.key \in Keys, e.stamp \in Stamps \cup {Unstamped},
         transpose \in [Slots -> Transposes],
         NEW counts, counts = Deliver(st, s, c, e).heard
  PROVE  /\ \A s1 \in Slots, t \in Stamps :
              s1 # s \/ t # e.stamp => counts[s1][t] = st.heard[s1][t]
         /\ e.stamp \in Stamps => counts[s][e.stamp] = st.heard[s][e.stamp] + 1
  BY DeliverIs DEF Delivers

(* An event takes a tracker that keeps to H to one that keeps to G.        *)
Follows(H, G, c, e) ==
  /\ e.on => <<c, e.key>> \in G
  /\ \A c1 \in Channels, k1 \in Keys :
       <<c1, k1>> \in H =>
         <<c1, k1>> \in G \/ (~e.on /\ c1 = c /\ k1 = e.key)

LEMMA KeysAreNumbers == \A k \in Keys : k + 0 = k
  BY DispatchAssumption

(* A tracker keeps to what its slot has heard.                             *)
LEMMA DeliverHolds ==
  ASSUME NEW st \in States, NEW s \in Slots, NEW c \in Channels, NEW e,
         e.on \in BOOLEAN, e.key \in Keys, e.stamp \in Stamps \cup {Unstamped},
         transpose \in [Slots -> Transposes],
         NEW H, HeldIn(st.active, s, H), Voiced(st.active, st.sounding),
         e.on => <<c, e.key>> \notin H \/ Plain(st.active),
         NEW G, Follows(H, G, c, e)
  PROVE  LET d == Deliver(st, s, c, e)
         IN  /\ HeldIn(d.active, s, G)
             /\ Voiced(d.active, d.sounding)
             /\ Plain(st.active) => Plain(d.active)
<1> DEFINE d == Deliver(st, s, c, e)
<1>1. /\ \A s1 \in Slots, c1 \in Channels, k1 \in Keys :
           s1 # s \/ c1 # c \/ k1 # e.key =>
             d.active[s1][c1][k1] = st.active[s1][c1][k1]
      /\ ~e.on => d.active[s][c][e.key] = Free
      /\ e.on => d.active[s][c][e.key] \in
                   {st.active[s][c][e.key], e.key + transpose[s]}
      /\ (e.on => st.active[s][c][e.key] \in {Free, e.key + transpose[s]})
           /\ Voiced(st.active, st.sounding)
         => Voiced(d.active, d.sounding)
  <2>1. Delivers(d, st, s, c, e)
    BY DeliverIs
  <2> HIDE DEF d
  <2> QED
    BY <2>1 DEF Delivers
<1> HIDE DEF d
<1>2. Plain(st.active) => e.key + transpose[s] = e.key
  <2>1. Plain(st.active) => transpose[s] = 0
    BY DEF Plain
  <2> QED
    BY <2>1, KeysAreNumbers
<1>3. e.on => st.active[s][c][e.key] \in {Free, e.key + transpose[s]}
  BY <1>2 DEF HeldIn, Plain
<1>4. Voiced(d.active, d.sounding)
  BY <1>1, <1>3
<1>5. Plain(st.active) => Plain(d.active)
  BY <1>1, <1>2 DEF Plain
<1>6. ASSUME NEW c1 \in Channels, NEW k1 \in Keys, d.active[s][c1][k1] # Free
      PROVE  <<c1, k1>> \in G
  <2>1. CASE c1 # c \/ k1 # e.key
    <3>1. <<c1, k1>> \in H
      BY <2>1, <1>1, <1>6 DEF HeldIn
    <3> QED
      BY <3>1, <2>1 DEF Follows
  <2>2. CASE c1 = c /\ k1 = e.key
    <3>1. e.on
      BY <2>2, <1>1, <1>6
    <3> QED
      BY <3>1, <2>2 DEF Follows
  <2> QED
    BY <2>1, <2>2
<1> QED
  BY <1>4, <1>5, <1>6 DEF HeldIn, d

(* The other slot's tracker stays.                                         *)
LEMMA DeliverElsewhere ==
  ASSUME NEW st \in States, NEW s \in Slots, NEW c \in Channels, NEW e,
         e.on \in BOOLEAN, e.key \in Keys, e.stamp \in Stamps \cup {Unstamped},
         transpose \in [Slots -> Transposes],
         NEW s1 \in Slots, s1 # s, NEW G, HeldIn(st.active, s1, G)
  PROVE  HeldIn(Deliver(st, s, c, e).active, s1, G)
<1>1. \A c1 \in Channels, k1 \in Keys :
        Deliver(st, s, c, e).active[s1][c1][k1] = st.active[s1][c1][k1]
  BY DeliverIs DEF Delivers
<1> QED
  BY <1>1 DEF HeldIn

-----------------------------------------------------------------------------
(* The events that are to be echoed.                                       *)

LEMMA AppendedEvent ==
  ASSUME NEW q \in Seq(Events), NEW keys, NEW e \in Events, e.on <=> e.key \notin keys
  PROVE  /\ Alternate(q, keys) => Alternate(Append(q, e), Pressed(keys, e))
         /\ \A k : EchoedDown(q, keys, k) =>
                  EchoedDown(Append(q, e), Pressed(keys, e), k)
<1> DEFINE p == Append(q, e)
           N == Len(q)
           after == Pressed(keys, e)
<1>1. /\ N \in Nat /\ Len(p) = N + 1
      /\ \A i \in 1 .. N : p[i] = q[i]
      /\ p[N + 1] = e
  BY AppendProperties
<1>2. /\ e.on \in BOOLEAN
      /\ e.on => e.key \in after /\ e.key \notin keys
      /\ ~e.on => e.key \notin after /\ e.key \in keys
      /\ \A k : k # e.key => (k \in after <=> k \in keys)
  BY DEF Pressed, Events
<1> HIDE DEF p, N, after
<1>3. ASSUME Alternate(q, keys), NEW i \in 1 .. Len(p), p[i].on
      PROVE  \/ /\ p[i].key \in after
                /\ \A k \in i + 1 .. Len(p) : p[k].key # p[i].key
             \/ \E j \in i + 1 .. Len(p) :
                  /\ p[j].key = p[i].key /\ ~p[j].on
                  /\ \A k \in i + 1 .. j - 1 : p[k].key # p[i].key
  <2>1. CASE i = N + 1
    <3>1. p[i].key \in after
      BY <2>1, <1>1, <1>2, <1>3
    <3>2. \A k \in i + 1 .. Len(p) : FALSE
      BY <2>1, <1>1
    <3> QED
      BY <3>1, <3>2
  <2>2. CASE i # N + 1
    <3>1. i \in 1 .. N /\ p[i] = q[i] /\ q[i].on
      BY <2>2, <1>1, <1>3
    <3>2. CASE /\ q[i].key \in keys
               /\ \A k \in i + 1 .. N : q[k].key # q[i].key
      <4>1. CASE e.key = q[i].key
        <5>1. ~e.on
          BY <4>1, <3>2, <1>2
        <5>2. N + 1 \in i + 1 .. Len(p) /\ p[N + 1].key = p[i].key /\ ~p[N + 1].on
          BY <5>1, <4>1, <3>1, <1>1
        <5>3. \A k \in i + 1 .. (N + 1) - 1 : p[k].key # p[i].key
          BY <3>1, <3>2, <1>1
        <5> QED
          BY <5>2, <5>3
      <4>2. CASE e.key # q[i].key
        <5>1. p[i].key \in after
          BY <4>2, <3>1, <3>2, <1>2
        <5>2. \A k \in i + 1 .. Len(p) : p[k].key # p[i].key
          BY <4>2, <3>1, <3>2, <1>1
        <5> QED
          BY <5>1, <5>2
      <4> QED
        BY <4>1, <4>2
    <3>3. CASE \E j \in i + 1 .. N :
                 /\ q[j].key = q[i].key /\ ~q[j].on
                 /\ \A k \in i + 1 .. j - 1 : q[k].key # q[i].key
      <4>1. PICK j \in i + 1 .. N :
                   /\ q[j].key = q[i].key /\ ~q[j].on
                   /\ \A k \in i + 1 .. j - 1 : q[k].key # q[i].key
        BY <3>3
      <4>2. j \in i + 1 .. Len(p) /\ p[j].key = p[i].key /\ ~p[j].on
        BY <4>1, <3>1, <1>1
      <4>3. \A k \in i + 1 .. j - 1 : p[k].key # p[i].key
        BY <4>1, <3>1, <1>1
      <4> QED
        BY <4>2, <4>3
    <3> QED
      BY <3>1, <3>2, <3>3, <1>3 DEF Alternate, N
  <2> QED
    BY <2>1, <2>2
<1>4. ASSUME NEW k, EchoedDown(q, keys, k)
      PROVE  EchoedDown(p, after, k)
  <2>1. CASE k \in keys /\ \A i \in 1 .. N : q[i].key # k
    <3>1. CASE k = e.key
      <4>1. /\ N + 1 \in 1 .. Len(p) /\ p[N + 1].key = k /\ ~p[N + 1].on
            /\ \A j \in 1 .. (N + 1) - 1 : p[j].key # k
        BY <2>1, <3>1, <1>1, <1>2
      <4> QED
        BY <4>1 DEF EchoedDown
    <3>2. CASE k # e.key
      <4>1. k \in after /\ \A i \in 1 .. Len(p) : p[i].key # k
        BY <2>1, <3>2, <1>1, <1>2
      <4> QED
        BY <4>1 DEF EchoedDown
    <3> QED
      BY <3>1, <3>2
  <2>2. CASE \E i \in 1 .. N : /\ q[i].key = k /\ ~q[i].on
                              /\ \A j \in 1 .. i - 1 : q[j].key # k
    <3>1. PICK i \in 1 .. N : /\ q[i].key = k /\ ~q[i].on
                             /\ \A j \in 1 .. i - 1 : q[j].key # k
      BY <2>2
    <3>2. /\ i \in 1 .. Len(p) /\ p[i].key = k /\ ~p[i].on
          /\ \A j \in 1 .. i - 1 : p[j].key # k
      BY <3>1, <1>1
    <3> QED
      BY <3>2 DEF EchoedDown
  <2> QED
    BY <1>4, <2>1, <2>2 DEF EchoedDown, N
<1> QED
  BY <1>3, <1>4 DEF Alternate, p, after

LEMMA RemovedEvent ==
  ASSUME NEW q \in Seq(Events), q # <<>>, NEW keys
  PROVE  /\ Alternate(q, keys) => Alternate(Tail(q), keys)
         /\ \A k : k # q[1].key /\ EchoedDown(q, keys, k) =>
                  EchoedDown(Tail(q), keys, k)
         /\ q[1].on => ~EchoedDown(q, keys, q[1].key)
         /\ q[1].on /\ Alternate(q, keys) => EchoedDown(Tail(q), keys, q[1].key)
<1> DEFINE p == Tail(q)
           N == Len(q)
<1>1. /\ N \in Nat \ {0} /\ Len(p) = N - 1
      /\ \A i \in 1 .. N - 1 : p[i] = q[i + 1]
  BY HeadTailProperties, EmptySeq
<1> HIDE DEF p, N
<1>2. ASSUME Alternate(q, keys), NEW i \in 1 .. Len(p), p[i].on
      PROVE  \/ /\ p[i].key \in keys
                /\ \A k \in i + 1 .. Len(p) : p[k].key # p[i].key
             \/ \E j \in i + 1 .. Len(p) :
                  /\ p[j].key = p[i].key /\ ~p[j].on
                  /\ \A k \in i + 1 .. j - 1 : p[k].key # p[i].key
  <2>1. i + 1 \in 1 .. N /\ q[i + 1] = p[i]
    BY <1>1
  <2>2. CASE /\ q[i + 1].key \in keys
             /\ \A k \in (i + 1) + 1 .. N : q[k].key # q[i + 1].key
    <3>1. ASSUME NEW k \in i + 1 .. Len(p) PROVE p[k].key # p[i].key
      <4>1. k + 1 \in (i + 1) + 1 .. N /\ p[k] = q[k + 1]
        BY <1>1
      <4> QED
        BY <4>1, <2>1, <2>2
    <3> QED
      BY <3>1, <2>1, <2>2
  <2>3. CASE \E j \in (i + 1) + 1 .. N :
               /\ q[j].key = q[i + 1].key /\ ~q[j].on
               /\ \A k \in (i + 1) + 1 .. j - 1 : q[k].key # q[i + 1].key
    <3>1. PICK j \in (i + 1) + 1 .. N :
                 /\ q[j].key = q[i + 1].key /\ ~q[j].on
                 /\ \A k \in (i + 1) + 1 .. j - 1 : q[k].key # q[i + 1].key
      BY <2>3
    <3>2. j - 1 \in i + 1 .. Len(p) /\ p[j - 1] = q[j]
      BY <1>1
    <3>3. ASSUME NEW k \in i + 1 .. (j - 1) - 1 PROVE p[k].key # p[i].key
      <4>1. k + 1 \in (i + 1) + 1 .. j - 1 /\ p[k] = q[k + 1]
        BY <1>1
      <4> QED
        BY <4>1, <2>1, <3>1
    <3> QED
      BY <3>1, <3>2, <3>3, <2>1
  <2> QED
    BY <1>2, <2>1, <2>2, <2>3 DEF Alternate, N
<1>3. ASSUME NEW k, k # q[1].key, EchoedDown(q, keys, k)
      PROVE  EchoedDown(p, keys, k)
  <2>1. CASE k \in keys /\ \A i \in 1 .. N : q[i].key # k
    <3>1. k \in keys /\ \A i \in 1 .. Len(p) : p[i].key # k
      BY <2>1, <1>1
    <3> QED
      BY <3>1 DEF EchoedDown
  <2>2. CASE \E i \in 1 .. N : /\ q[i].key = k /\ ~q[i].on
                              /\ \A j \in 1 .. i - 1 : q[j].key # k
    <3>1. PICK i \in 1 .. N : /\ q[i].key = k /\ ~q[i].on
                             /\ \A j \in 1 .. i - 1 : q[j].key # k
      BY <2>2
    <3>2. i # 1
      BY <3>1, <1>3
    <3>3. i - 1 \in 1 .. Len(p) /\ p[i - 1] = q[i]
      BY <3>2, <1>1
    <3>4. ASSUME NEW j \in 1 .. (i - 1) - 1 PROVE p[j].key # k
      <4>1. j + 1 \in 1 .. i - 1 /\ p[j] = q[j + 1]
        BY <1>1
      <4> QED
        BY <4>1, <3>1
    <3> QED
      BY <3>1, <3>3, <3>4 DEF EchoedDown
  <2> QED
    BY <1>3, <2>1, <2>2 DEF EchoedDown, N
<1>4. ASSUME q[1].on PROVE ~EchoedDown(q, keys, q[1].key)
  <2>1. 1 \in 1 .. N
    BY <1>1
  <2>2. ASSUME NEW i \in 1 .. N, ~q[i].on, \A j \in 1 .. i - 1 : q[j].key # q[1].key
        PROVE  FALSE
    <3>1. i # 1
      BY <2>2, <1>4
    <3>2. 1 \in 1 .. i - 1
      BY <3>1, <1>1
    <3> QED
      BY <3>2, <2>2
  <2> QED
    BY <2>1, <2>2 DEF EchoedDown, N
<1>5. ASSUME q[1].on, Alternate(q, keys)
      PROVE  EchoedDown(p, keys, q[1].key)
  <2>1. 1 \in 1 .. N
    BY <1>1
  <2>2. CASE /\ q[1].key \in keys
             /\ \A k \in 1 + 1 .. N : q[k].key # q[1].key
    <3>1. ASSUME NEW i \in 1 .. Len(p) PROVE p[i].key # q[1].key
      <4>1. i + 1 \in 1 + 1 .. N /\ p[i] = q[i + 1]
        BY <1>1
      <4> QED
        BY <4>1, <2>2
    <3> QED
      BY <3>1, <2>2 DEF EchoedDown
  <2>3. CASE \E j \in 1 + 1 .. N :
               /\ q[j].key = q[1].key /\ ~q[j].on
               /\ \A k \in 1 + 1 .. j - 1 : q[k].key # q[1].key
    <3>1. PICK j \in 1 + 1 .. N :
                 /\ q[j].key = q[1].key /\ ~q[j].on
                 /\ \A k \in 1 + 1 .. j - 1 : q[k].key # q[1].key
      BY <2>3
    <3>2. j - 1 \in 1 .. Len(p) /\ p[j - 1] = q[j]
      BY <1>1
    <3>3. ASSUME NEW k \in 1 .. (j - 1) - 1 PROVE p[k].key # q[1].key
      <4>1. k + 1 \in 1 + 1 .. j - 1 /\ p[k] = q[k + 1]
        BY <1>1
      <4> QED
        BY <4>1, <3>1
    <3> QED
      BY <3>1, <3>2, <3>3 DEF EchoedDown
  <2> QED
    BY <1>5, <2>1, <2>2, <2>3 DEF Alternate, N
<1> QED
  BY <1>2, <1>3, <1>4, <1>5 DEF Alternate, p

-----------------------------------------------------------------------------
(* The three readers, for one event each.                                  *)

LEMMA Sizes == RingSize \in Nat \ {0} /\ DedupSize \in Nat \ {0}
<1>1. 2 * Burst > 0
  BY DispatchAssumption
<1> QED
  BY <1>1, DispatchAssumption

LEMMA DirectIs ==
  ASSUME NEW st \in States, NEW e \in Events,
         Len(st.thru) <= DedupSize, Len(st.ring) <= RingSize
  PROVE  /\ Has(st.thru, e.stamp, DedupAge) => DirectEvent(st, e) = st
         /\ ~Has(st.thru, e.stamp, DedupAge) =>
              \E m \in States :
                /\ DirectEvent(st, e) = Deliver(m, "thru", Keyboard, e)
                /\ m.thru = Record(st.thru, e.stamp, DedupSize)
                /\ m.ch = st.ch
                /\ m.ring = Record(st.ring, Content(e), RingSize)
                /\ m.active = st.active /\ m.sounding = st.sounding
                /\ m.heard = st.heard
<1> DEFINE th == Record(st.thru, e.stamp, DedupSize)
           r == Record(st.ring, Content(e), RingSize)
           m == [st EXCEPT !.thru = th, !.ring = r]
<1>1. e.stamp \in Stamps /\ Content(e) \in Contents
  BY DEF Events, Content, Contents
<1>2. st.thru \in Aged(Stamps) /\ st.ring \in Aged(Contents)
  BY DEF States
<1>3. th \in Aged(Stamps) /\ r \in Aged(Contents)
  BY <1>1, <1>2, RecordIs, Sizes
<1>4. DirectEvent(st, e) = IF Has(st.thru, e.stamp, DedupAge) THEN st
                           ELSE Deliver(m, "thru", Keyboard, e)
  BY DEF DirectEvent, EventKey
<1> HIDE DEF th, r
<1>5. /\ m \in States /\ m.thru = th /\ m.ch = st.ch /\ m.ring = r
      /\ m.active = st.active /\ m.sounding = st.sounding /\ m.heard = st.heard
  BY <1>3 DEF States
<1> HIDE DEF m
<1> QED
  BY <1>4, <1>5 DEF th, r

LEMMA ChannelIs ==
  ASSUME NEW st \in States, NEW e \in Events,
         Len(st.ch) <= DedupSize, Len(st.ring) <= RingSize
  PROVE  /\ Has(st.ch, e.stamp, DedupAge) => ChannelEvent(st, e) = st
         /\ ~Has(st.ch, e.stamp, DedupAge) =>
              \E m \in States :
                /\ ChannelEvent(st, e) = Deliver(m, "chan", Keyboard, e)
                /\ m.ch = Record(st.ch, e.stamp, DedupSize)
                /\ m.thru = st.thru
                /\ m.ring = Record(st.ring, Content(e), RingSize)
                /\ m.active = st.active /\ m.sounding = st.sounding
                /\ m.heard = st.heard
<1> DEFINE h == Record(st.ch, e.stamp, DedupSize)
           r == Record(st.ring, Content(e), RingSize)
           m == [st EXCEPT !.ch = h, !.ring = r]
<1>1. e.stamp \in Stamps /\ Content(e) \in Contents
  BY DEF Events, Content, Contents
<1>2. st.ch \in Aged(Stamps) /\ st.ring \in Aged(Contents)
  BY DEF States
<1>3. h \in Aged(Stamps) /\ r \in Aged(Contents)
  BY <1>1, <1>2, RecordIs, Sizes
<1>4. ChannelEvent(st, e) = IF Has(st.ch, e.stamp, DedupAge) THEN st
                            ELSE Deliver(m, "chan", Keyboard, e)
  BY DEF ChannelEvent, EventKey
<1> HIDE DEF h, r
<1>5. /\ m \in States /\ m.ch = h /\ m.thru = st.thru /\ m.ring = r
      /\ m.active = st.active /\ m.sounding = st.sounding /\ m.heard = st.heard
  BY <1>3 DEF States
<1> HIDE DEF m
<1> QED
  BY <1>4, <1>5 DEF h, r

(* An event of the keyboard to the slot "thru".                            *)
LEMMA ThruHears ==
  ASSUME PlayerTypes, NEW st \in States, NEW e \in Events,
         NEW keys, NEW sequencer, e.on <=> e.key \notin keys,
         HeldIn(st.active, "thru", ThruHolds(keys, sequencer)),
         Voiced(st.active, st.sounding),
         e.key \notin sequencer \/ Plain(st.active)
  PROVE  LET d == Deliver(st, "thru", Keyboard, e)
         IN  /\ HeldIn(d.active, "thru", ThruHolds(Pressed(keys, e), sequencer))
             /\ Voiced(d.active, d.sounding)
             /\ Plain(st.active) => Plain(d.active)
<1> DEFINE H == ThruHolds(keys, sequencer)
           G == ThruHolds(Pressed(keys, e), sequencer)
<1>1. /\ e.on \in BOOLEAN /\ e.key \in Keys /\ e.stamp \in Stamps \cup {Unstamped}
      /\ transpose \in [Slots -> Transposes]
      /\ Keyboard \in Channels /\ "thru" \in Slots
  BY DEF Events, PlayerTypes, Channels, Slots
<1>2. /\ Follows(H, G, Keyboard, e)
      /\ e.on => <<Keyboard, e.key>> \notin H \/ Plain(st.active)
  BY DEF Follows, ThruHolds, Pressed
<1>3. HeldIn(st.active, "thru", H)
  OBVIOUS
<1> HIDE DEF H, G
<1> QED
  BY <1>1, <1>2, <1>3, DeliverHolds DEF G

(* ... and, unless a tool has taken over, to the slot "chan".              *)
LEMMA ChanHears ==
  ASSUME PlayerTypes, NEW st \in States, NEW e \in Events, NEW q \in Seq(Events),
         NEW keys, NEW sequencer, e.on <=> e.key \notin keys, ~overtake,
         HeldIn(st.active, "chan", ChanHolds(q, keys, sequencer)),
         Voiced(st.active, st.sounding),
         e.key \notin sequencer \/ Plain(st.active)
  PROVE  LET d == Deliver(st, "chan", Keyboard, e)
         IN  /\ HeldIn(d.active, "chan",
                       ChanHolds(Append(q, e), Pressed(keys, e), sequencer))
             /\ Voiced(d.active, d.sounding)
             /\ Plain(st.active) => Plain(d.active)
<1> DEFINE H == ChanHolds(q, keys, sequencer)
           G == ChanHolds(Append(q, e), Pressed(keys, e), sequencer)
<1>1. /\ e.on \in BOOLEAN /\ e.key \in Keys /\ e.stamp \in Stamps \cup {Unstamped}
      /\ transpose \in [Slots -> Transposes]
      /\ Keyboard \in Channels /\ "chan" \in Slots
  BY DEF Events, PlayerTypes, Channels, Slots
<1>2. /\ Follows(H, G, Keyboard, e)
      /\ e.on => <<Keyboard, e.key>> \notin H \/ Plain(st.active)
  BY DEF Follows, ChanHolds, Pressed
<1>3. HeldIn(st.active, "chan", H)
  OBVIOUS
<1> HIDE DEF H, G
<1> QED
  BY <1>1, <1>2, <1>3, DeliverHolds DEF G

LEMMA ChanWaits ==
  ASSUME NEW active, NEW e \in Events, NEW q \in Seq(Events),
         NEW keys, NEW sequencer, e.on <=> e.key \notin keys, overtake,
         HeldIn(active, "chan", ChanHolds(q, keys, sequencer))
  PROVE  HeldIn(active, "chan",
                ChanHolds(Append(q, e), Pressed(keys, e), sequencer))
<1>1. \A k : EchoedDown(q, keys, k) =>
             EchoedDown(Append(q, e), Pressed(keys, e), k)
  BY AppendedEvent
<1> QED
  BY <1>1 DEF HeldIn, ChanHolds

(* What an echo changes in the keys that are down as far as echoes tell.   *)
Passes(q, rest, keys, e) ==
  /\ \A k : k # e.key /\ EchoedDown(q, keys, k) => EchoedDown(rest, keys, k)
  /\ e.on => ~EchoedDown(q, keys, e.key) /\ EchoedDown(rest, keys, e.key)

LEMMA EchoPasses ==
  ASSUME NEW q \in Seq(Events), q # <<>>, NEW e,
         e.on <=> q[1].on, e.key = q[1].key, NEW keys, Alternate(q, keys)
  PROVE  Passes(q, Tail(q), keys, e)
  BY RemovedEvent DEF Passes

(* An echo to the slot "chan", when a tool has taken over.                 *)
LEMMA ChanHearsEcho ==
  ASSUME PlayerTypes, NEW st \in States, NEW q, NEW rest, NEW e,
         e.on \in BOOLEAN, e.key \in Keys, e.stamp \in Stamps \cup {Unstamped},
         NEW keys, NEW sequencer, Passes(q, rest, keys, e), overtake,
         HeldIn(st.active, "chan", ChanHolds(q, keys, sequencer)),
         Voiced(st.active, st.sounding),
         e.key \notin sequencer \/ Plain(st.active)
  PROVE  LET d == Deliver(st, "chan", forward_channel, e)
         IN  /\ HeldIn(d.active, "chan", ChanHolds(rest, keys, sequencer))
             /\ Voiced(d.active, d.sounding)
             /\ Plain(st.active) => Plain(d.active)
<1> DEFINE H == ChanHolds(q, keys, sequencer)
           G == ChanHolds(rest, keys, sequencer)
<1>1. /\ transpose \in [Slots -> Transposes]
      /\ forward_channel \in Channels /\ "chan" \in Slots
  BY DEF PlayerTypes, Channels, Slots
<1>2. /\ Follows(H, G, forward_channel, e)
      /\ e.on => <<forward_channel, e.key>> \notin H \/ Plain(st.active)
  BY <1>1 DEF Follows, ChanHolds, Passes
<1>3. HeldIn(st.active, "chan", H)
  OBVIOUS
<1> HIDE DEF H, G
<1> QED
  BY <1>1, <1>2, <1>3, DeliverHolds DEF G

(* A note of Move's sequencer, to the slot "chan" and then to "thru".      *)
LEMMA ChanHearsNote ==
  ASSUME PlayerTypes, NEW st \in States, NEW e, NEW q, NEW keys, NEW sequencer,
         e.on \in BOOLEAN, e.key \in Keys, e.stamp = Unstamped,
         e.on <=> e.key \notin sequencer,
         HeldIn(st.active, "chan", ChanHolds(q, keys, sequencer)),
         Voiced(st.active, st.sounding),
         \/ e.key \notin keys /\ \A i \in 1 .. Len(q) : q[i].key # e.key
         \/ Plain(st.active)
  PROVE  LET d == Deliver(st, "chan", forward_channel, e)
         IN  /\ HeldIn(d.active, "chan",
                       ChanHolds(q, keys, Pressed(sequencer, e)))
             /\ Voiced(d.active, d.sounding)
             /\ Plain(st.active) => Plain(d.active)
<1> DEFINE H == ChanHolds(q, keys, sequencer)
           G == ChanHolds(q, keys, Pressed(sequencer, e))
<1>1. /\ e.stamp \in Stamps \cup {Unstamped}
      /\ transpose \in [Slots -> Transposes]
      /\ forward_channel \in Channels /\ "chan" \in Slots
  BY DEF PlayerTypes, Channels, Slots
<1>2. Follows(H, G, forward_channel, e)
  BY DEF Follows, ChanHolds, Pressed
<1>3. e.on => <<forward_channel, e.key>> \notin H \/ Plain(st.active)
  BY DEF ChanHolds, EchoedDown
<1>4. HeldIn(st.active, "chan", H)
  OBVIOUS
<1> HIDE DEF H, G
<1> QED
  BY <1>1, <1>2, <1>3, <1>4, DeliverHolds DEF G

LEMMA ThruHearsNote ==
  ASSUME PlayerTypes, NEW st \in States, NEW e, NEW keys, NEW sequencer,
         e.on \in BOOLEAN, e.key \in Keys, e.stamp = Unstamped,
         e.on <=> e.key \notin sequencer,
         HeldIn(st.active, "thru", ThruHolds(keys, sequencer)),
         Voiced(st.active, st.sounding),
         e.key \notin keys \/ Plain(st.active)
  PROVE  LET d == Deliver(st, "thru", Keyboard, e)
         IN  /\ HeldIn(d.active, "thru", ThruHolds(keys, Pressed(sequencer, e)))
             /\ Voiced(d.active, d.sounding)
             /\ Plain(st.active) => Plain(d.active)
<1> DEFINE H == ThruHolds(keys, sequencer)
           G == ThruHolds(keys, Pressed(sequencer, e))
<1>1. /\ e.stamp \in Stamps \cup {Unstamped}
      /\ transpose \in [Slots -> Transposes]
      /\ Keyboard \in Channels /\ "thru" \in Slots
  BY DEF PlayerTypes, Channels, Slots
<1>2. /\ Follows(H, G, Keyboard, e)
      /\ e.on => <<Keyboard, e.key>> \notin H \/ Plain(st.active)
  BY DEF Follows, ThruHolds, Pressed
<1>3. HeldIn(st.active, "thru", H)
  OBVIOUS
<1> HIDE DEF H, G
<1> QED
  BY <1>1, <1>2, <1>3, DeliverHolds DEF G

-----------------------------------------------------------------------------
(* The rings in a frame.                                                   *)

(* An entry that is not the oldest of a full ring stays, a place further   *)
(* from the end.                                                           *)
Keeps(r, ring, j) ==
  \E k \in 1 .. Len(r) : r[k] = ring[j] /\ Len(r) - k = (Len(ring) - j) + 1

LEMMA RecordKeeps ==
  ASSUME NEW W, NEW ring \in Aged(W), NEW w \in W,
         NEW size \in Nat \ {0}, Len(ring) <= size,
         NEW j \in 1 .. Len(ring), (Len(ring) - j) + 2 <= size
  PROVE  Keeps(Record(ring, w, size), ring, j)
<1> DEFINE r == Record(ring, w, size)
<1>1. Len(ring) \in Nat
  BY DEF Aged
<1>2. PICK d \in {0, 1} : /\ d = 1 => Len(ring) = size
                          /\ Len(r) = Len(ring) - d + 1
                          /\ \A i \in 1 .. Len(ring) - d : r[i] = ring[i + d]
  BY RecordIs
<1> HIDE DEF r
<1>3. j - d \in 1 .. Len(ring) - d /\ (j - d) + d = j
  BY <1>1, <1>2
<1>4. r[j - d] = ring[j]
  BY <1>2, <1>3
<1>5. j - d \in 1 .. Len(r) /\ Len(r) - (j - d) = (Len(ring) - j) + 1
  BY <1>1, <1>2, <1>3
<1> QED
  BY <1>4, <1>5 DEF r, Keeps

LEMMA StampsAreNumbers == Stamps \subseteq Nat \ {0}
  BY DispatchAssumption DEF Stamps

LEMMA StampRing ==
  ASSUME NEW ring \in Aged(Stamps)
  PROVE  /\ Len(ring) \in Nat
         /\ \A i \in 1 .. Len(ring) : ring[i].age \in Nat /\ ring[i].what \in Nat
<1>1. \A i \in 1 .. Len(ring) : ring[i].age \in Nat /\ ring[i].what \in Stamps
  BY AgedElement
<1>2. Len(ring) \in Nat
  BY DEF Aged
<1> QED
  BY <1>1, <1>2, StampsAreNumbers

LEMMA OneMoreFrame ==
  ASSUME NEW ring \in Aged(Stamps), NEW n \in Nat, OnePerFrame(ring, n)
  PROVE  OnePerFrame(ring, n + 1)
<1>1. \A i \in 1 .. Len(ring) : ring[i].what \in Nat
  BY StampRing
<1>2. \A i \in 1 .. Len(ring) : ring[i].what <= n + 1
  BY <1>1 DEF OnePerFrame
<1> QED
  BY <1>2 DEF OnePerFrame

(* The events of MIDI_IN that are still there are a frame older.           *)
Remaining(left, queue) ==
  \A i \in 1 .. Len(left) :
    /\ left[i].age \in Nat /\ left[i].age <= DedupAge
    /\ \E j \in 1 .. Len(queue) : /\ left[i].what = queue[j].what
                                  /\ left[i].age = queue[j].age + 1

LEMMA DedupAges ==
  ASSUME NEW ring \in Aged(Stamps), NEW newest \in Nat,
         OnePerFrame(ring, newest),
         NEW queue \in Aged(Events), KnowsEvents(ring, queue),
         NEW left \in Aged(Events), Remaining(left, queue)
  PROVE  LET r == Older(ring, DedupAge)
         IN  /\ OnePerFrame(r, newest) /\ KnowsEvents(r, left)
             /\ \A i \in 1 .. Len(r) :
                  r[i].age <= DedupAge => Len(r) - i < r[i].age
<1> DEFINE r == Older(ring, DedupAge)
<1>1. /\ r \in Aged(Stamps) /\ Len(r) = Len(ring)
      /\ \A i \in 1 .. Len(ring) :
           /\ r[i].what = ring[i].what
           /\ ring[i].age <= DedupAge => r[i].age = ring[i].age + 1
           /\ ring[i].age > DedupAge => r[i].age = ring[i].age
  BY OlderIs, DispatchAssumption
<1>2. /\ Len(ring) \in Nat /\ DedupAge \in Nat
      /\ \A i \in 1 .. Len(ring) : ring[i].age \in Nat /\ ring[i].what \in Nat
  BY StampRing, DispatchAssumption
<1>3. /\ Len(queue) \in Nat /\ Len(left) \in Nat
      /\ \A j \in 1 .. Len(queue) : queue[j].age \in Nat
  BY AgedRing
<1> HIDE DEF r
<1>4. \A i \in 1 .. Len(r) : r[i].what <= newest
  BY <1>1, <1>2 DEF OnePerFrame
<1>8. \A i \in 1 .. Len(r) : r[i].age <= DedupAge => Len(r) - i < r[i].age
  BY <1>1, <1>2 DEF OnePerFrame
<1>5. OnePerFrame(r, newest)
  <2>1. \A i \in 1 .. Len(r) : r[i].age \in Nat
    BY <1>1, <1>2
  <2> QED
    BY <1>1, <1>2, <1>4, <1>8, <2>1 DEF OnePerFrame
<1>6. ASSUME NEW i \in 1 .. Len(left)
      PROVE  \E j \in 1 .. Len(r) :
               r[j].what = left[i].what.stamp /\ r[j].age = left[i].age
  <2>1. PICK k \in 1 .. Len(queue) : /\ left[i].what = queue[k].what
                                     /\ left[i].age = queue[k].age + 1
                                     /\ left[i].age <= DedupAge
    BY DEF Remaining
  <2>2. PICK j \in 1 .. Len(ring) : /\ ring[j].what = queue[k].what.stamp
                                    /\ ring[j].age = queue[k].age
    BY DEF KnowsEvents
  <2>3. ring[j].age <= DedupAge
    BY <2>1, <2>2, <1>2, <1>3
  <2> QED
    BY <2>1, <2>2, <2>3, <1>1
<1>7. KnowsEvents(r, left)
  BY <1>6 DEF KnowsEvents
<1> QED
  BY <1>5, <1>7, <1>8 DEF r

(* A reader skips what is left over, and takes the new event.              *)
LEMMA DedupTells ==
  ASSUME NEW ring \in Aged(Stamps), NEW newest \in Nat,
         OnePerFrame(ring, newest)
  PROVE  /\ ~Has(ring, newest + 1, DedupAge)
         /\ \A left \in Aged(Events) : \A queue :
              KnowsEvents(ring, left) /\ Remaining(left, queue) =>
                \A i \in 1 .. Len(left) : Has(ring, left[i].what.stamp, DedupAge)
<1>1. ~Has(ring, newest + 1, DedupAge)
  <2>1. \A i \in 1 .. Len(ring) : ring[i].what \in Stamps
    <3> TAKE i \in 1 .. Len(ring)
    <3> QED
      BY AgedElement
  <2>2. \A i \in 1 .. Len(ring) : ring[i].what \in Int
    <3>1. \A t \in Stamps : t \in Int
      BY StampsAreNumbers
    <3> QED
      BY <2>1, <3>1
  <2> QED
    BY <2>2 DEF Has, OnePerFrame
<1>2. ASSUME NEW left \in Aged(Events), NEW queue,
             KnowsEvents(ring, left), Remaining(left, queue),
             NEW i \in 1 .. Len(left)
      PROVE  Has(ring, left[i].what.stamp, DedupAge)
  <2>1. PICK j \in 1 .. Len(ring) :
          ring[j].what = left[i].what.stamp /\ ring[j].age = left[i].age
    BY <1>2 DEF KnowsEvents
  <2>2. left[i].age <= DedupAge
    BY <1>2 DEF Remaining
  <2> QED
    BY <2>1, <2>2 DEF Has
<1> QED
  BY <1>1, <1>2

LEMMA DedupRecorded ==
  ASSUME NEW ring \in Aged(Stamps), NEW newest \in Nat,
         Len(ring) <= DedupSize, newest + 1 \in Stamps,
         \A i \in 1 .. Len(ring) :
           /\ ring[i].what <= newest
           /\ ring[i].age <= DedupAge => Len(ring) - i < ring[i].age,
         NEW left \in Aged(Events), KnowsEvents(ring, left),
         \A i \in 1 .. Len(left) : left[i].age <= DedupAge,
         NEW e \in Events, e.stamp = newest + 1
  PROVE  LET r == Record(ring, newest + 1, DedupSize)
         IN  /\ OnePerFrame(r, newest + 1)
             /\ KnowsEvents(r, Append(left, Entry(e)))
<1> DEFINE r == Record(ring, newest + 1, DedupSize)
           all == Append(left, Entry(e))
<1>1. PICK d \in {0, 1} : /\ d = 1 => Len(ring) = DedupSize
                          /\ Len(r) = Len(ring) - d + 1
                          /\ \A i \in 1 .. Len(ring) - d : r[i] = ring[i + d]
  BY RecordIs, Sizes
<1>2. r[Len(r)] = Entry(newest + 1)
  BY RecordIs, Sizes
<1>3. /\ Len(ring) \in Nat /\ Len(left) \in Nat /\ DedupAge \in Nat
      /\ DedupSize \in Nat \ {0} /\ DedupAge < DedupSize
      /\ \A i \in 1 .. Len(ring) : ring[i].age \in Nat /\ ring[i].what \in Nat
      /\ \A i \in 1 .. Len(left) : left[i].age \in Nat
  <2>1. /\ Len(left) \in Nat
        /\ \A i \in 1 .. Len(left) : left[i].age \in Nat
    BY AgedRing
  <2> QED
    BY <2>1, StampRing, Sizes, DispatchAssumption
<1>4. /\ Entry(newest + 1).what = newest + 1 /\ Entry(newest + 1).age = 0
      /\ Entry(e).what.stamp = newest + 1 /\ Entry(e).age = 0
  BY DEF Entry
<1>5. /\ Len(all) = Len(left) + 1 /\ all[Len(left) + 1] = Entry(e)
      /\ \A i \in 1 .. Len(left) : all[i] = left[i]
  <2>1. Entry(e) \in [what : Events, age : Nat]
    BY DEF Entry
  <2> QED
    BY <2>1, AppendProperties DEF Aged
<1>6. \A j \in 1 .. Len(ring) :
        (Len(ring) - j) + 2 <= DedupSize =>
          \E k \in 1 .. Len(r) : r[k] = ring[j]
  <2>1. \A j \in 1 .. Len(ring) :
          (Len(ring) - j) + 2 <= DedupSize => Keeps(r, ring, j)
    <3>1. newest + 1 \in Stamps /\ DedupSize \in Nat \ {0}
      BY Sizes
    <3> QED
      BY <3>1, RecordKeeps
  <2> QED
    BY <2>1 DEF Keeps
<1> HIDE DEF r, all
<1>7. OnePerFrame(r, newest + 1)
  <2> SUFFICES ASSUME NEW i \in 1 .. Len(r)
               PROVE  /\ r[i].what <= newest + 1
                      /\ r[i].age <= DedupAge => Len(r) - i <= r[i].age
    BY DEF OnePerFrame
  <2>1. CASE i = Len(r)
    BY <2>1, <1>1, <1>2, <1>3, <1>4
  <2>2. CASE i # Len(r)
    <3>1. /\ i + d \in 1 .. Len(ring) /\ r[i] = ring[i + d]
          /\ Len(r) - i = (Len(ring) - (i + d)) + 1
      BY <2>2, <1>1, <1>3
    <3>2. /\ ring[i + d].age \in Nat /\ ring[i + d].what \in Nat
          /\ ring[i + d].what <= newest
          /\ ring[i + d].age <= DedupAge => Len(ring) - (i + d) < ring[i + d].age
      BY <3>1, <1>3
    <3>3. r[i].what = ring[i + d].what /\ r[i].age = ring[i + d].age
      BY <3>1
    <3>4. r[i].what <= newest + 1
      BY <3>2, <3>3
    <3>5. r[i].age <= DedupAge => Len(ring) - (i + d) < r[i].age
      BY <3>2, <3>3
    <3>6. Len(ring) - (i + d) \in Int /\ r[i].age \in Int
      BY <3>1, <3>2, <3>3, <1>3
    <3>7. r[i].age <= DedupAge => (Len(ring) - (i + d)) + 1 <= r[i].age
      BY <3>5, <3>6
    <3> QED
      BY <3>1, <3>4, <3>7
  <2> QED
    BY <2>1, <2>2
<1>8. KnowsEvents(r, all)
  <2> SUFFICES ASSUME NEW i \in 1 .. Len(all)
               PROVE  \E j \in 1 .. Len(r) :
                        r[j].what = all[i].what.stamp /\ r[j].age = all[i].age
    BY DEF KnowsEvents
  <2>1. CASE i = Len(left) + 1
    <3>1. Len(r) \in 1 .. Len(r)
      BY <1>1, <1>3
    <3> QED
      BY <3>1, <2>1, <1>2, <1>4, <1>5
  <2>2. CASE i # Len(left) + 1
    <3>1. i \in 1 .. Len(left) /\ all[i] = left[i]
      BY <2>2, <1>3, <1>5
    <3>2. PICK j \in 1 .. Len(ring) :
            ring[j].what = left[i].what.stamp /\ ring[j].age = left[i].age
      BY <3>1 DEF KnowsEvents
    <3>3. ring[j].age <= DedupAge /\ Len(ring) - j < ring[j].age
      BY <3>1, <3>2, <1>3
    <3>4. (Len(ring) - j) + 2 <= DedupSize
      BY <3>3, <1>3
    <3> QED
      BY <3>1, <3>2, <3>4, <1>6
  <2> QED
    BY <2>1, <2>2
<1> QED
  BY <1>7, <1>8 DEF r, all

(* The ring of contents: an entry for every event of the queue, a frame    *)
(* later, with x entries that are newer than all of the queue.             *)
Behind(ring, queue, x) ==
  \A i \in 1 .. Len(queue) : \E j \in 1 .. Len(ring) :
    /\ ring[j].what = Content(queue[i].what)
    /\ ring[j].age = queue[i].age + 1
    /\ Len(ring) - j <= 2 * (Len(queue) - i) + 1 + x

LEMMA ContentAges ==
  ASSUME NEW ring \in Aged(Contents), NEW queue \in Aged(Events),
         KnowsAwaited(ring, queue),
         \A i \in 1 .. Len(queue) : queue[i].age < EchoAge
  PROVE  Behind(Older(ring, EchoAge), queue, 0)
<1> DEFINE r == Older(ring, EchoAge)
<1>1. /\ Len(r) = Len(ring)
      /\ \A i \in 1 .. Len(ring) :
           /\ r[i].what = ring[i].what
           /\ ring[i].age <= EchoAge => r[i].age = ring[i].age + 1
  BY OlderIs, DispatchAssumption
<1>2. /\ Len(queue) \in Nat /\ Len(ring) \in Nat /\ EchoAge \in Nat
      /\ \A i \in 1 .. Len(queue) : queue[i].age \in Nat
  BY AgedRing, DispatchAssumption
<1> HIDE DEF r
<1>3. ASSUME NEW i \in 1 .. Len(queue)
      PROVE  \E j \in 1 .. Len(r) :
               /\ r[j].what = Content(queue[i].what)
               /\ r[j].age = queue[i].age + 1
               /\ Len(r) - j <= 2 * (Len(queue) - i) + 1 + 0
  <2>1. PICK j \in 1 .. Len(ring) :
               /\ ring[j].what = Content(queue[i].what)
               /\ ring[j].age = queue[i].age
               /\ Len(ring) - j <= 2 * (Len(queue) - i) + 1
    BY DEF KnowsAwaited
  <2>2. /\ r[j].what = ring[j].what /\ r[j].age = ring[j].age + 1
        /\ j \in 1 .. Len(r)
    BY <2>1, <1>1, <1>2
  <2> QED
    BY <2>1, <2>2, <1>1, <1>2
<1> QED
  BY <1>3 DEF Behind, r

LEMMA BehindRecorded ==
  ASSUME NEW ring \in Aged(Contents), Len(ring) <= RingSize,
         NEW queue \in Aged(Events), Len(queue) < Burst,
         NEW x \in {0, 1}, Behind(ring, queue, x), NEW w \in Contents
  PROVE  Behind(Record(ring, w, RingSize), queue, x + 1)
<1> DEFINE r == Record(ring, w, RingSize)
<1>1. ASSUME NEW j \in 1 .. Len(ring), (Len(ring) - j) + 2 <= RingSize
      PROVE  Keeps(r, ring, j)
  <2>1. RingSize \in Nat \ {0}
    BY Sizes
  <2> QED
    BY <1>1, <2>1, RecordKeeps
<1> HIDE DEF r
<1>2. /\ Len(queue) \in Nat /\ Len(ring) \in Nat
      /\ RingSize \in Nat /\ Burst \in Nat /\ 2 * Burst <= RingSize
  BY AgedRing, DispatchAssumption
<1>3. ASSUME NEW i \in 1 .. Len(queue)
      PROVE  \E k \in 1 .. Len(r) :
               /\ r[k].what = Content(queue[i].what)
               /\ r[k].age = queue[i].age + 1
               /\ Len(r) - k <= 2 * (Len(queue) - i) + 1 + (x + 1)
  <2>1. PICK j \in 1 .. Len(ring) :
               /\ ring[j].what = Content(queue[i].what)
               /\ ring[j].age = queue[i].age + 1
               /\ Len(ring) - j <= 2 * (Len(queue) - i) + 1 + x
    BY DEF Behind
  <2>2. (Len(ring) - j) + 2 <= RingSize
    BY <2>1, <1>2
  <2>3. PICK k \in 1 .. Len(r) : /\ r[k] = ring[j]
                                 /\ Len(r) - k = (Len(ring) - j) + 1
    BY <2>2, <1>1 DEF Keeps
  <2>4. Len(r) - k <= 2 * (Len(queue) - i) + 1 + (x + 1)
    BY <2>1, <2>3, <1>2
  <2> QED
    BY <2>1, <2>3, <2>4
<1> QED
  BY <1>3 DEF Behind, r

LEMMA EchoFound ==
  ASSUME NEW ring \in Aged(Contents), NEW queue \in Aged(Events), queue # <<>>,
         NEW x \in 0 .. 2, Behind(ring, queue, x), queue[1].age < EchoAge
  PROVE  Has(ring, Content(queue[1].what), EchoAge)
<1>1. Len(queue) \in Nat \ {0}
  BY AgedRing, EmptySeq DEF Aged
<1>2. 1 \in 1 .. Len(queue) /\ queue[1].age \in Nat /\ EchoAge \in Nat
  BY <1>1, AgedRing, DispatchAssumption
<1>3. PICK j \in 1 .. Len(ring) : /\ ring[j].what = Content(queue[1].what)
                                  /\ ring[j].age = queue[1].age + 1
  BY <1>2 DEF Behind
<1>4. ring[j].age <= EchoAge
  BY <1>2, <1>3
<1> QED
  BY <1>3, <1>4 DEF Has

(* The queue a frame later, its first event echoed or not.                 *)
Later(later, queue) ==
  \E x \in {0, 1} :
    /\ Len(later) = Len(queue) - x
    /\ \A i \in 1 .. Len(later) : /\ later[i].what = queue[i + x].what
                                  /\ later[i].age = queue[i + x].age + 1

LEMMA AwaitedKnown ==
  ASSUME NEW ring, Len(ring) \in Nat,
         NEW queue \in Aged(Events), NEW later \in Aged(Events),
         Later(later, queue)
  PROVE  /\ Behind(ring, queue, 0) => KnowsAwaited(ring, later)
         /\ \A e \in Events :
              Behind(ring, queue, 2) /\ Len(ring) > 0
                /\ ring[Len(ring)] = Entry(Content(e))
              => KnowsAwaited(ring, Append(later, Entry(e)))
<1>1. PICK x \in {0, 1} :
        /\ Len(later) = Len(queue) - x
        /\ \A i \in 1 .. Len(later) : /\ later[i].what = queue[i + x].what
                                      /\ later[i].age = queue[i + x].age + 1
  BY DEF Later
<1>2. Len(queue) \in Nat /\ Len(later) \in Nat
  BY AgedRing
<1>3. \A i \in 1 .. Len(later) : i + x \in 1 .. Len(queue)
  BY <1>1, <1>2
<1>4. ASSUME NEW y \in Nat, Behind(ring, queue, y), NEW i \in 1 .. Len(later)
      PROVE  \E j \in 1 .. Len(ring) :
               /\ ring[j].what = Content(later[i].what)
               /\ ring[j].age = later[i].age
               /\ Len(ring) - j <= (2 * (Len(later) - i) + 1) + y
  <2>1. PICK j \in 1 .. Len(ring) :
               /\ ring[j].what = Content(queue[i + x].what)
               /\ ring[j].age = queue[i + x].age + 1
               /\ Len(ring) - j <= 2 * (Len(queue) - (i + x)) + 1 + y
    BY <1>3, <1>4 DEF Behind
  <2>2. Len(queue) - (i + x) = Len(later) - i
    BY <1>1, <1>2
  <2>3. Len(ring) - j <= (2 * (Len(later) - i) + 1) + y
    BY <2>1, <2>2, <1>2
  <2> QED
    BY <2>1, <2>3, <1>1
<1>5. ASSUME Behind(ring, queue, 0) PROVE KnowsAwaited(ring, later)
  <2>1. ASSUME NEW i \in 1 .. Len(later)
        PROVE  \E j \in 1 .. Len(ring) :
                 /\ ring[j].what = Content(later[i].what)
                 /\ ring[j].age = later[i].age
                 /\ Len(ring) - j <= 2 * (Len(later) - i) + 1
    <3>1. PICK j \in 1 .. Len(ring) :
                 /\ ring[j].what = Content(later[i].what)
                 /\ ring[j].age = later[i].age
                 /\ Len(ring) - j <= (2 * (Len(later) - i) + 1) + 0
      BY <1>4, <1>5
    <3>2. (2 * (Len(later) - i) + 1) + 0 = 2 * (Len(later) - i) + 1
      BY <1>2
    <3> QED
      BY <3>1, <3>2
  <2> QED
    BY <2>1 DEF KnowsAwaited
<1>6. ASSUME NEW e \in Events, Behind(ring, queue, 2), Len(ring) > 0,
             ring[Len(ring)] = Entry(Content(e))
      PROVE  KnowsAwaited(ring, Append(later, Entry(e)))
  <2> DEFINE all == Append(later, Entry(e))
  <2>1. /\ Len(all) = Len(later) + 1 /\ all[Len(later) + 1] = Entry(e)
        /\ \A i \in 1 .. Len(later) : all[i] = later[i]
    <3>1. Entry(e) \in [what : Events, age : Nat]
      BY DEF Entry
    <3> QED
      BY <3>1, AppendProperties DEF Aged
  <2> HIDE DEF all
  <2> SUFFICES ASSUME NEW i \in 1 .. Len(all)
               PROVE  \E j \in 1 .. Len(ring) :
                        /\ ring[j].what = Content(all[i].what)
                        /\ ring[j].age = all[i].age
                        /\ Len(ring) - j <= 2 * (Len(all) - i) + 1
    BY DEF KnowsAwaited, all
  <2>2. CASE i = Len(later) + 1
    <3>1. Len(ring) \in 1 .. Len(ring) /\ Len(ring) - Len(ring) = 0
      BY <1>6
    <3>2. 2 * (Len(all) - i) + 1 = 1
      BY <2>1, <2>2, <1>2
    <3>3. ring[Len(ring)].what = Content(all[i].what)
          /\ ring[Len(ring)].age = all[i].age
      BY <2>1, <2>2, <1>6 DEF Entry
    <3> QED
      BY <3>1, <3>2, <3>3
  <2>3. CASE i # Len(later) + 1
    <3>1. i \in 1 .. Len(later) /\ all[i] = later[i]
      BY <2>1, <2>3, <1>2
    <3>2. PICK j \in 1 .. Len(ring) :
                 /\ ring[j].what = Content(later[i].what)
                 /\ ring[j].age = later[i].age
                 /\ Len(ring) - j <= (2 * (Len(later) - i) + 1) + 2
      BY <1>4, <1>6, <3>1
    <3>3. Len(ring) - j <= 2 * (Len(all) - i) + 1
      BY <3>2, <2>1, <1>2
    <3> QED
      BY <3>1, <3>2, <3>3
  <2> QED
    BY <2>2, <2>3
<1> QED
  BY <1>5, <1>6

-----------------------------------------------------------------------------
(* The queues in a frame.                                                  *)

LEMMA EventIs ==
  ASSUME NEW queue \in Aged(Events)
  PROVE  /\ Event(queue) \in Seq(Events)
         /\ Len(Event(queue)) = Len(queue)
         /\ \A i \in 1 .. Len(queue) : Event(queue)[i] = queue[i].what
<1>1. /\ Len(queue) \in Nat
      /\ \A i \in 1 .. Len(queue) : queue[i].what \in Events
  BY AgedRing
<1>2. Event(queue) \in [1 .. Len(queue) -> Events]
  BY <1>1 DEF Event
<1>3. Event(queue) \in Seq(Events) /\ Len(Event(queue)) = Len(queue)
  BY <1>1, <1>2, IsASeq
<1> QED
  BY <1>3 DEF Event

(* One more event, or none.                                                *)
LEMMA EntriesNone ==
  ASSUME NEW queue \in Aged(Events)
  PROVE  queue \o Entries(<<>>) = queue
<1> DEFINE E == [what : Events, age : Nat]
<1>1. queue \in Seq(E)
  BY DEF Aged
<1>2. Entries(<<>>) = <<>>
  BY DEF Entries
<1> HIDE DEF E
<1> QED
  BY <1>1, <1>2, ConcatEmptySeq

LEMMA EntriesOne ==
  ASSUME NEW queue \in Aged(Events), NEW e \in Events
  PROVE  queue \o Entries(<<e>>) = Append(queue, Entry(e))
<1> DEFINE E == [what : Events, age : Nat]
           x == Entry(e)
<1>1. queue \in Seq(E) /\ x \in E
  BY DEF Aged, Entry
<1>2. Entries(<<e>>) = <<x>>
  BY DEF Entries
<1> HIDE DEF E, x
<1> QED
  BY <1>1, <1>2, AppendIsConcat DEF x

LEMMA EventAppended ==
  ASSUME NEW queue \in Aged(Events), NEW e \in Events
  PROVE  /\ Append(queue, Entry(e)) \in Aged(Events)
         /\ Event(Append(queue, Entry(e))) = Append(Event(queue), e)
<1> DEFINE E == [what : Events, age : Nat]
           all == Append(queue, Entry(e))
           a == Event(all)
           b == Append(Event(queue), e)
<1>1. Entry(e) \in E /\ Entry(e).what = e /\ queue \in Seq(E)
  BY DEF Aged, Entry
<1>2. all \in Seq(E)
  <2> HIDE DEF E
  <2> QED
    BY <1>1, AppendProperties
<1>3. all \in Aged(Events)
  BY <1>2 DEF Aged
<1>4. /\ Len(all) = Len(queue) + 1 /\ all[Len(queue) + 1] = Entry(e)
      /\ \A i \in 1 .. Len(queue) : all[i] = queue[i]
  <2> HIDE DEF E
  <2> QED
    BY <1>1, AppendProperties
<1> HIDE DEF all
<1>5. /\ a \in Seq(Events) /\ Len(a) = Len(all)
      /\ \A i \in 1 .. Len(all) : a[i] = all[i].what
  BY <1>3, EventIs
<1>6. /\ Event(queue) \in Seq(Events) /\ Len(Event(queue)) = Len(queue)
      /\ \A i \in 1 .. Len(queue) : Event(queue)[i] = queue[i].what
  BY EventIs
<1>7. /\ b \in Seq(Events) /\ Len(b) = Len(queue) + 1 /\ b[Len(queue) + 1] = e
      /\ \A i \in 1 .. Len(queue) : b[i] = queue[i].what
  BY <1>6, AppendProperties
<1>8. Len(queue) \in Nat
  BY AgedRing
<1> HIDE DEF a, b
<1>9. \A i \in 1 .. Len(a) : a[i] = b[i]
  BY <1>1, <1>4, <1>5, <1>7, <1>8, SMTT(30)
<1>10. a = b
  BY <1>4, <1>5, <1>7, <1>9, SeqEqual
<1> QED
  BY <1>3, <1>10 DEF a, b, all

(* What is left of MIDI_IN.                                                *)
LEMMA LeftIs ==
  ASSUME midi_in \in Aged(Events),
         \A i \in 1 .. Len(midi_in) : midi_in[i].age <= DedupAge,
         NEW left \in Leftovers
  PROVE  left \in Aged(Events) /\ Remaining(left, midi_in)
<1> DEFINE E == [what : Events, age : Nat]
           old == Older(midi_in, DedupAge)
<1>1. /\ Len(midi_in) \in Nat /\ DedupAge \in Nat
      /\ \A i \in 1 .. Len(midi_in) : midi_in[i].age \in Nat
  BY AgedRing, DispatchAssumption
<1>2. /\ old \in Aged(Events) /\ Len(old) = Len(midi_in)
      /\ \A i \in 1 .. Len(midi_in) : /\ old[i].what = midi_in[i].what
                                      /\ old[i].age = midi_in[i].age + 1
  BY OlderIs, <1>1
<1>3. PICK m \in 1 .. Len(midi_in) + 1 :
        /\ \A j \in m .. Len(midi_in) : old[j].age <= DedupAge
        /\ left = SubSeq(old, m, Len(midi_in))
  BY <1>2 DEF Leftovers
<1>4. \A i \in 1 .. Len(old) : old[i] \in E
  BY <1>2, AgedElement
<1> HIDE DEF old, E
<1>5. /\ left \in Seq(E)
      /\ Len(left) = IF m <= Len(midi_in) THEN Len(midi_in) - m + 1 ELSE 0
      /\ \A i \in 1 .. Len(midi_in) - m + 1 : left[i] = old[m + i - 1]
  <2>1. \A i \in m .. Len(midi_in) : old[i] \in E
    BY <1>1, <1>2, <1>4
  <2>2. m \in Int /\ Len(midi_in) \in Int
    BY <1>1
  <2> HIDE DEF E
  <2> QED
    BY <1>3, <2>1, <2>2, SubSeqProperties
<1>6. ASSUME NEW i \in 1 .. Len(left)
      PROVE  /\ left[i].age \in Nat /\ left[i].age <= DedupAge
             /\ \E j \in 1 .. Len(midi_in) : /\ left[i].what = midi_in[j].what
                                             /\ left[i].age = midi_in[j].age + 1
  <2>1. PICK j \in m .. Len(midi_in) : left[i] = old[j]
    <3>1. i \in 1 .. Len(midi_in) - m + 1 /\ m + i - 1 \in m .. Len(midi_in)
      BY <1>1, <1>5
    <3> QED
      BY <3>1, <1>5
  <2>2. j \in 1 .. Len(midi_in) /\ old[j].age <= DedupAge
    BY <2>1, <1>1, <1>3
  <2>3. /\ midi_in[j].age \in Nat /\ old[j].age = midi_in[j].age + 1
        /\ old[j].what = midi_in[j].what
    BY <2>2, <1>1, <1>2
  <2> QED
    BY <2>1, <2>2, <2>3
<1> QED
  BY <1>5, <1>6 DEF Aged, Remaining, E

(* What the keyboard adds.                                                 *)
LEMMA NewIs ==
  ASSUME PlayerTypes, NEW new \in NewEvents
  PROVE  \/ new = <<>>
         \/ \E e \in Events : /\ new = <<e>>
                              /\ e.on <=> e.key \notin down
                              /\ e.stamp = stamp + 1
                              /\ stamp < MaxEvents
                              /\ Len(awaited) # Burst
<1>1. CASE new = <<>>
  BY <1>1
<1>2. CASE new # <<>>
  <2>1. /\ stamp # MaxEvents /\ Len(awaited) # Burst
        /\ \E k \in Keys :
             new = <<[on |-> k \notin down, key |-> k, stamp |-> stamp + 1]>>
    BY <1>2 DEF NewEvents
  <2>2. PICK k \in Keys :
          new = <<[on |-> k \notin down, key |-> k, stamp |-> stamp + 1]>>
    BY <2>1
  <2>3. stamp < MaxEvents /\ stamp + 1 \in Stamps
    BY <2>1, DispatchAssumption DEF PlayerTypes, Stamps
  <2> DEFINE e == [on |-> k \notin down, key |-> k, stamp |-> stamp + 1]
  <2>4. e \in Events
    BY <2>3 DEF Events
  <2> QED
    BY <2>1, <2>2, <2>3, <2>4
<1> QED
  BY <1>1, <1>2

(* What Move sends to MIDI_OUT.                                            *)
IsEcho(e) ==
  /\ awaited # <<>>
  /\ e.on \in BOOLEAN /\ (e.on <=> awaited[1].what.on)
  /\ e.key = awaited[1].what.key /\ e.stamp = awaited[1].what.stamp
  /\ e.key \in Keys /\ e.stamp \in Stamps

IsNote(e) ==
  /\ e.on \in BOOLEAN /\ (e.on <=> e.key \notin played)
  /\ e.key \in Keys /\ e.stamp = Unstamped

LEMMA OutIs ==
  ASSUME PlayerTypes,
         NEW out \in {<<>>} \cup {<<e>> : e \in Echoes \cup SequencerNotes}
  PROVE  \/ out = <<>>
         \/ \E e : out = <<e>> /\ (IsEcho(e) \/ IsNote(e))
<1>1. ASSUME NEW e \in Echoes PROVE IsEcho(e)
  <2>1. /\ awaited # <<>>
        /\ \E r : e = OutPacket(Head(awaited).what, r)
    BY DEF Echoes
  <2>2. awaited[1].what \in Events
    <3>1. 1 \in 1 .. Len(awaited)
      BY <2>1, EmptySeq DEF PlayerTypes, Aged
    <3> QED
      BY <3>1, AgedRing DEF PlayerTypes
  <2>3. Head(awaited) = awaited[1]
    BY <2>1 DEF PlayerTypes, Aged
  <2>4. /\ e.on = awaited[1].what.on /\ e.key = awaited[1].what.key
        /\ e.stamp = awaited[1].what.stamp
    BY <2>1, <2>3 DEF OutPacket
  <2>5. /\ awaited[1].what.on \in BOOLEAN /\ awaited[1].what.key \in Keys
        /\ awaited[1].what.stamp \in Stamps
    BY <2>2 DEF Events
  <2> QED
    BY <2>1, <2>4, <2>5 DEF IsEcho
<1>2. ASSUME NEW e \in SequencerNotes PROVE IsNote(e)
  <2>1. PICK k \in Keys :
          e = OutPacket([on |-> k \notin played, key |-> k, stamp |-> Unstamped],
                        FALSE)
    BY DEF SequencerNotes, PlayerTypes
  <2>2. \E x \in BOOLEAN : /\ x <=> k \notin played
                           /\ e = OutPacket([on |-> x, key |-> k,
                                             stamp |-> Unstamped], FALSE)
    BY <2>1
  <2>3. PICK x \in BOOLEAN :
          /\ x <=> k \notin played
          /\ e = OutPacket([on |-> x, key |-> k, stamp |-> Unstamped], FALSE)
    BY <2>2
  <2>4. e.on = x /\ e.key = k /\ e.stamp = Unstamped
    BY <2>3 DEF OutPacket
  <2> QED
    BY <2>3, <2>4 DEF IsNote
<1> QED
  BY <1>1, <1>2

LEMMA LaterIs ==
  ASSUME awaited \in Aged(Events), NEW later,
         \A i \in 1 .. Len(awaited) : awaited[i].age < EchoAge
  PROVE  /\ later = Older(awaited, EchoAge) =>
              /\ later \in Aged(Events) /\ Len(later) = Len(awaited)
              /\ Later(later, awaited) /\ Event(later) = Event(awaited)
         /\ awaited # <<>> /\ later = Older(Tail(awaited), EchoAge) =>
              /\ later \in Aged(Events) /\ Len(later) = Len(awaited) - 1
              /\ Later(later, awaited) /\ Event(later) = Tail(Event(awaited))
<1> DEFINE E == [what : Events, age : Nat]
<1>1. /\ Len(awaited) \in Nat /\ EchoAge \in Nat
      /\ \A i \in 1 .. Len(awaited) : awaited[i].age \in Nat
  BY AgedRing, DispatchAssumption
<1>2. /\ Event(awaited) \in Seq(Events) /\ Len(Event(awaited)) = Len(awaited)
      /\ \A i \in 1 .. Len(awaited) : Event(awaited)[i] = awaited[i].what
  BY EventIs
<1>3. ASSUME later = Older(awaited, EchoAge)
      PROVE  /\ later \in Aged(Events) /\ Len(later) = Len(awaited)
             /\ Later(later, awaited) /\ Event(later) = Event(awaited)
  <2>1. /\ later \in Aged(Events) /\ Len(later) = Len(awaited)
        /\ \A i \in 1 .. Len(awaited) :
             /\ later[i].what = awaited[i].what
             /\ awaited[i].age <= EchoAge => later[i].age = awaited[i].age + 1
    BY <1>1, <1>3, OlderIs
  <2>2. \A i \in 1 .. Len(later) : /\ i + 0 = i
                                   /\ later[i].what = awaited[i + 0].what
                                   /\ later[i].age = awaited[i + 0].age + 1
    BY <2>1, <1>1
  <2>3. Later(later, awaited)
    <3>1. Len(later) = Len(awaited) - 0
      BY <2>1, <1>1
    <3> QED
      BY <3>1, <2>2 DEF Later
  <2>4. Event(later) = Event(awaited)
    BY <2>1 DEF Event
  <2> QED
    BY <2>1, <2>3, <2>4
<1>4. ASSUME awaited # <<>>, later = Older(Tail(awaited), EchoAge)
      PROVE  /\ later \in Aged(Events) /\ Len(later) = Len(awaited) - 1
             /\ Later(later, awaited) /\ Event(later) = Tail(Event(awaited))
  <2> DEFINE rest == Tail(awaited)
  <2>1. /\ rest \in Aged(Events) /\ Len(rest) = Len(awaited) - 1
        /\ \A i \in 1 .. Len(rest) : rest[i] = awaited[i + 1]
    <3>1. awaited \in Seq(E)
      BY DEF Aged
    <3> HIDE DEF E
    <3>2. /\ rest \in Seq(E) /\ Len(rest) = Len(awaited) - 1
          /\ \A i \in 1 .. Len(rest) : rest[i] = awaited[i + 1]
      BY <3>1, <1>4, HeadTailProperties
    <3> QED
      BY <3>2 DEF Aged, E
  <2> HIDE DEF rest
  <2>2. /\ later \in Aged(Events) /\ Len(later) = Len(rest)
        /\ \A i \in 1 .. Len(rest) :
             /\ later[i].what = rest[i].what
             /\ rest[i].age <= EchoAge => later[i].age = rest[i].age + 1
    BY <1>1, <1>4, <2>1, OlderIs DEF rest
  <2>3. \A i \in 1 .. Len(later) : /\ i + 1 \in 1 .. Len(awaited)
                                   /\ later[i].what = awaited[i + 1].what
                                   /\ later[i].age = awaited[i + 1].age + 1
    BY <2>1, <2>2, <1>1
  <2>4. Later(later, awaited)
    BY <2>1, <2>2, <2>3 DEF Later
  <2>5. Event(later) = Tail(Event(awaited))
    <3> DEFINE a == Event(later)
               b == Tail(Event(awaited))
    <3>1. /\ a \in Seq(Events) /\ Len(a) = Len(later)
          /\ \A i \in 1 .. Len(later) : a[i] = later[i].what
      BY <2>2, EventIs
    <3>2. Event(awaited) # <<>>
      BY <1>2, <2>1, <2>2, EmptySeq, <3>1
    <3>3. /\ b \in Seq(Events) /\ Len(b) = Len(Event(awaited)) - 1
          /\ \A i \in 1 .. Len(b) : b[i] = Event(awaited)[i + 1]
      BY <1>2, <3>2, HeadTailProperties
    <3> HIDE DEF a, b
    <3>4. Len(a) = Len(b) /\ \A i \in 1 .. Len(a) : a[i] = b[i]
      BY <3>1, <3>3, <2>1, <2>2, <2>3, <1>1, <1>2
    <3>5. a = b
      BY <3>1, <3>3, <3>4, SeqEqual
    <3> QED
      BY <3>5 DEF a, b
  <2> QED
    BY <2>1, <2>2, <2>4, <2>5
<1> QED
  BY <1>3, <1>4

(* What a frame does to the queues, and to the keys of Move's sequencer ... *)
OutDoes(out, later) ==
  /\ later \in Aged(Events) /\ Later(later, awaited)
  /\ \A i \in 1 .. Len(later) : later[i].age < EchoAge
  /\ \/ /\ out = <<>> \/ \E e : /\ out = <<e>> /\ IsNote(e)
                               /\ played' = Pressed(played, e)
        /\ out = <<>> => played' = played
        /\ Len(later) = Len(awaited) /\ Event(later) = Event(awaited)
     \/ /\ \E e : out = <<e>> /\ IsEcho(e)
        /\ played' = played
        /\ Len(later) = Len(awaited) - 1 /\ Event(later) = Tail(Event(awaited))

(* ... and of the keyboard.                                                *)
IsNew(e) ==
  /\ e \in Events /\ (e.on <=> e.key \notin down) /\ e.stamp = stamp + 1
  /\ stamp < MaxEvents /\ Len(awaited) # Burst

NewDoes(new, left, later) ==
  /\ left \in Aged(Events) /\ Remaining(left, midi_in)
  /\ \/ /\ new = <<>> /\ midi_in' = left /\ awaited' = later
        /\ stamp' = stamp /\ down' = down
     \/ \E e : /\ IsNew(e) /\ new = <<e>>
               /\ midi_in' = Append(left, Entry(e))
               /\ awaited' = Append(later, Entry(e))
               /\ stamp' = stamp + 1 /\ down' = Pressed(down, e)

LEMMA FrameIs ==
  ASSUME PlayerInv, Frame
  PROVE  \E left, new, out, later :
           /\ OutDoes(out, later) /\ NewDoes(new, left, later)
           /\ Dispatch(Event(left) \o new, out)
           /\ UNCHANGED <<transpose, overtake, forward_channel, settings>>
<1> DEFINE Outs == {<<>>} \cup {<<e>> : e \in Echoes \cup SequencerNotes}
           echoed(out) == out # <<>> /\ out[1].stamp # Unstamped
           due(out) == IF echoed(out) THEN Tail(awaited) ELSE awaited
           later(out) == Older(due(out), EchoAge)
<1>1. PICK left \in Leftovers, new \in NewEvents, out \in Outs :
        /\ \A i \in 1 .. Len(later(out)) : later(out)[i].age < EchoAge
        /\ midi_in' = left \o Entries(new)
        /\ awaited' = later(out) \o Entries(new)
        /\ Arrive(new)
        /\ out = <<>> \/ echoed(out) => played' = played
        /\ ~(out = <<>> \/ echoed(out)) => played' = Pressed(played, out[1])
        /\ Dispatch(Event(left) \o new, out)
        /\ UNCHANGED <<transpose, overtake, forward_channel, settings>>
  BY DEF Frame
<1>2. /\ midi_in \in Aged(Events) /\ awaited \in Aged(Events)
      /\ \A i \in 1 .. Len(midi_in) : midi_in[i].age <= DedupAge
      /\ \A i \in 1 .. Len(awaited) : awaited[i].age < EchoAge
      /\ PlayerTypes /\ stamp \in Nat
  BY DEF PlayerInv, PlayerTypes
<1>3. left \in Aged(Events) /\ Remaining(left, midi_in)
  BY <1>2, LeftIs
<1>4. out = <<>> \/ \E e : out = <<e>> /\ (IsEcho(e) \/ IsNote(e))
  BY <1>2, OutIs
<1> DEFINE l == later(out)
<1>5. OutDoes(out, l)
  <2>1. CASE out = <<>>
    <3>1. l = Older(awaited, EchoAge) /\ played' = played
      BY <2>1, <1>1
    <3> HIDE DEF l
    <3>2. /\ l \in Aged(Events) /\ Len(l) = Len(awaited)
          /\ Later(l, awaited) /\ Event(l) = Event(awaited)
      BY <3>1, <1>2, LaterIs
    <3> QED
      BY <3>1, <3>2, <2>1, <1>1 DEF OutDoes, l
  <2>2. ASSUME NEW e, out = <<e>>, IsNote(e) PROVE OutDoes(out, l)
    <3>1. l = Older(awaited, EchoAge) /\ played' = Pressed(played, e)
      BY <2>2, <1>1 DEF IsNote
    <3> HIDE DEF l
    <3>2. /\ l \in Aged(Events) /\ Len(l) = Len(awaited)
          /\ Later(l, awaited) /\ Event(l) = Event(awaited)
      BY <3>1, <1>2, LaterIs
    <3> QED
      BY <3>1, <3>2, <2>2, <1>1 DEF OutDoes, l
  <2>3. ASSUME NEW e, out = <<e>>, IsEcho(e) PROVE OutDoes(out, l)
    <3>1. e.stamp # Unstamped /\ awaited # <<>>
      BY <2>3, StampsAreNumbers DEF IsEcho, Unstamped
    <3>2. l = Older(Tail(awaited), EchoAge) /\ played' = played
      BY <3>1, <2>3, <1>1
    <3> HIDE DEF l
    <3>3. /\ l \in Aged(Events) /\ Len(l) = Len(awaited) - 1
          /\ Later(l, awaited) /\ Event(l) = Tail(Event(awaited))
      BY <3>1, <3>2, <1>2, LaterIs
    <3> QED
      BY <3>2, <3>3, <2>3, <1>1 DEF OutDoes, l
  <2> QED
    BY <1>4, <2>1, <2>2, <2>3
<1>6. NewDoes(new, left, l)
  <2>1. l \in Aged(Events)
    BY <1>5 DEF OutDoes
  <2>2. midi_in' = left \o Entries(new) /\ awaited' = l \o Entries(new)
    BY <1>1
  <2> HIDE DEF l
  <2>3. CASE new = <<>>
    <3>1. midi_in' = left /\ awaited' = l
      BY <2>1, <2>2, <2>3, <1>3, EntriesNone
    <3>2. stamp' = stamp /\ down' = down
      <4>1. Len(new) = 0
        BY <2>3
      <4> QED
        BY <4>1, <2>3, <1>1, <1>2 DEF Arrive
    <3> QED
      BY <3>1, <3>2, <2>3, <1>3 DEF NewDoes
  <2>4. ASSUME NEW e, IsNew(e), new = <<e>> PROVE NewDoes(new, left, l)
    <3>1. e \in Events
      BY <2>4 DEF IsNew
    <3>2. midi_in' = Append(left, Entry(e)) /\ awaited' = Append(l, Entry(e))
      BY <3>1, <2>1, <2>2, <2>4, <1>3, EntriesOne
    <3>3. stamp' = stamp + 1 /\ down' = Pressed(down, e)
      <4>1. Len(new) = 1 /\ new # <<>> /\ new[1] = e
        BY <2>4
      <4> QED
        BY <4>1, <1>1 DEF Arrive
    <3> QED
      BY <3>2, <3>3, <2>4, <1>3 DEF NewDoes
  <2> QED
    BY <2>3, <2>4, <1>2, NewIs DEF IsNew
<1> QED
  BY <1>1, <1>5, <1>6

(* The queues before the new event: as PlayerInv has them.                 *)
LEMMA PlayerLater ==
  ASSUME PlayerInv, NEW out, NEW later, OutDoes(out, later)
  PROVE  /\ Len(later) <= Len(awaited) /\ Len(awaited) <= Len(later) + 1
         /\ \A i \in 1 .. Len(later) :
              later[i].what.stamp = stamp - Len(later) + i
         /\ Alternate(Event(later), down)
<1>1. PICK x \in {0, 1} :
        /\ Len(later) = Len(awaited) - x
        /\ \A i \in 1 .. Len(later) : later[i].what = awaited[i + x].what
  BY DEF OutDoes, Later
<1>2. /\ awaited \in Aged(Events) /\ later \in Aged(Events) /\ stamp \in Nat
      /\ \A i \in 1 .. Len(awaited) :
           awaited[i].what.stamp = stamp - Len(awaited) + i
      /\ Alternate(Event(awaited), down)
  BY DEF PlayerInv, PlayerTypes, OutDoes
<1>3. Len(awaited) \in Nat /\ Len(later) \in Nat
  BY <1>2, AgedRing
<1>4. \A i \in 1 .. Len(later) : later[i].what.stamp = stamp - Len(later) + i
  <2> TAKE i \in 1 .. Len(later)
  <2>1. i + x \in 1 .. Len(awaited) /\ later[i].what = awaited[i + x].what
    BY <1>1, <1>3
  <2>2. awaited[i + x].what.stamp = stamp - Len(awaited) + (i + x)
    BY <2>1, <1>2
  <2> QED
    BY <2>1, <2>2, <1>1, <1>2, <1>3
<1>5. Alternate(Event(later), down)
  <2>1. CASE Event(later) = Event(awaited)
    BY <2>1, <1>2
  <2>2. CASE /\ \E e : out = <<e>> /\ IsEcho(e)
             /\ Event(later) = Tail(Event(awaited))
    <3> DEFINE q == Event(awaited)
    <3>1. q \in Seq(Events) /\ Len(q) = Len(awaited)
      BY <1>2, EventIs
    <3>2. awaited # <<>>
      BY <2>2 DEF IsEcho
    <3>3. q # <<>>
      BY <3>1, <3>2, <1>2, EmptySeq DEF Aged
    <3> HIDE DEF q
    <3>4. Alternate(q, down)
      BY <1>2 DEF q
    <3>5. Alternate(Tail(q), down)
      BY <3>1, <3>3, <3>4, RemovedEvent
    <3> QED
      BY <3>5, <2>2 DEF q
  <2> QED
    BY <2>1, <2>2 DEF OutDoes
<1> QED
  BY <1>1, <1>3, <1>4, <1>5

LEMMA PlayerFrame ==
  ASSUME PlayerInv, Frame
  PROVE  PlayerInv'
<1>1. PICK left, new, out, later :
        /\ OutDoes(out, later) /\ NewDoes(new, left, later)
        /\ Dispatch(Event(left) \o new, out)
        /\ UNCHANGED <<transpose, overtake, forward_channel, settings>>
  BY FrameIs
<1>2. /\ PlayerTypes /\ stamp \in Nat
      /\ Len(awaited) <= Burst /\ Len(awaited) <= stamp
      /\ \A i \in 1 .. Len(midi_in) : /\ midi_in[i].what.stamp <= stamp
                                      /\ midi_in[i].age <= DedupAge
  BY DEF PlayerInv, PlayerTypes
<1>3. /\ Len(later) <= Len(awaited) /\ Len(awaited) <= Len(later) + 1
      /\ \A i \in 1 .. Len(later) : later[i].what.stamp = stamp - Len(later) + i
      /\ Alternate(Event(later), down)
  BY <1>1, PlayerLater
<1>4. /\ later \in Aged(Events) /\ left \in Aged(Events)
      /\ \A i \in 1 .. Len(later) : later[i].age < EchoAge
      /\ Remaining(left, midi_in)
  BY <1>1 DEF OutDoes, NewDoes
<1>5. /\ Len(later) \in Nat /\ Len(left) \in Nat /\ Len(awaited) \in Nat
      /\ Burst \in Nat /\ MaxEvents \in Nat /\ EchoAge \in Nat \ {0}
      /\ DedupAge \in Nat
  BY <1>2, <1>4, AgedRing, DispatchAssumption DEF PlayerTypes
<1>6. \A i \in 1 .. Len(left) : /\ left[i].what.stamp <= stamp
                               /\ left[i].age <= DedupAge
  BY <1>2, <1>4 DEF Remaining
<1>7. played' \subseteq Keys /\ muddled' \in BOOLEAN
      /\ transpose' \in [Slots -> Transposes] /\ overtake' \in BOOLEAN
      /\ forward_channel' \in Forwards /\ settings' \in Nat
  <2>1. played' \subseteq Keys
    <3>1. \A e : IsNote(e) => Pressed(played, e) \subseteq Keys
      BY <1>2 DEF IsNote, Pressed, PlayerTypes
    <3> QED
      BY <3>1, <1>1, <1>2 DEF OutDoes, PlayerTypes
  <2>2. muddled' \in BOOLEAN
    BY <1>1, <1>2 DEF Dispatch, PlayerTypes
  <2> QED
    BY <2>1, <2>2, <1>1, <1>2 DEF PlayerTypes
<1>8. CASE /\ midi_in' = left /\ awaited' = later
           /\ stamp' = stamp /\ down' = down
  <2>1. PlayerTypes'
    BY <1>8, <1>2, <1>4, <1>7 DEF PlayerTypes
  <2>2. /\ Len(later) <= Burst /\ Len(later) <= stamp
    BY <1>2, <1>3, <1>5
  <2> QED
    BY <2>1, <2>2, <1>3, <1>4, <1>6, <1>8 DEF PlayerInv
<1>9. ASSUME NEW e, IsNew(e),
             midi_in' = Append(left, Entry(e)), awaited' = Append(later, Entry(e)),
             stamp' = stamp + 1, down' = Pressed(down, e)
      PROVE  PlayerInv'
  <2> DEFINE m == Append(left, Entry(e))
             a == Append(later, Entry(e))
  <2>1. /\ e \in Events /\ (e.on <=> e.key \notin down) /\ e.stamp = stamp + 1
        /\ stamp < MaxEvents /\ Len(awaited) # Burst
    BY <1>9 DEF IsNew
  <2>2. /\ m \in Aged(Events) /\ a \in Aged(Events)
        /\ Event(a) = Append(Event(later), e)
    BY <2>1, <1>4, EventAppended
  <2>3. /\ Len(m) = Len(left) + 1 /\ m[Len(left) + 1] = Entry(e)
        /\ \A i \in 1 .. Len(left) : m[i] = left[i]
        /\ Len(a) = Len(later) + 1 /\ a[Len(later) + 1] = Entry(e)
        /\ \A i \in 1 .. Len(later) : a[i] = later[i]
    <3> DEFINE E == [what : Events, age : Nat]
    <3>1. Entry(e) \in E /\ left \in Seq(E) /\ later \in Seq(E)
      BY <2>1, <1>4 DEF Aged, Entry
    <3> HIDE DEF E
    <3> QED
      BY <3>1, AppendProperties
  <2>4. Entry(e).what.stamp = stamp + 1 /\ Entry(e).age = 0
    BY <2>1 DEF Entry
  <2> HIDE DEF m, a
  <2>5. /\ Pressed(down, e) \subseteq Keys /\ stamp + 1 \in 0 .. MaxEvents
    BY <2>1, <1>2, <1>5 DEF PlayerTypes, Pressed, Events
  <2>6. PlayerTypes'
    BY <2>2, <2>5, <1>7, <1>9 DEF PlayerTypes, m, a
  <2>7. Len(a) <= Burst /\ Len(a) <= stamp + 1
    BY <2>1, <2>3, <1>2, <1>3, <1>5
  <2>8. \A i \in 1 .. Len(a) : /\ a[i].what.stamp = (stamp + 1) - Len(a) + i
                              /\ a[i].age < EchoAge
    <3> TAKE i \in 1 .. Len(a)
    <3>1. CASE i = Len(later) + 1
      BY <3>1, <2>3, <2>4, <1>2, <1>5
    <3>2. CASE i # Len(later) + 1
      <4>1. i \in 1 .. Len(later) /\ a[i] = later[i]
        BY <3>2, <2>3, <1>5
      <4>2. later[i].what.stamp = stamp - Len(later) + i /\ later[i].age < EchoAge
        BY <4>1, <1>3, <1>4
      <4> QED
        BY <4>1, <4>2, <2>3, <1>2, <1>5
    <3> QED
      BY <3>1, <3>2
  <2>9. \A i \in 1 .. Len(m) : /\ m[i].what.stamp <= stamp + 1
                              /\ m[i].age <= DedupAge
    <3> TAKE i \in 1 .. Len(m)
    <3>1. CASE i = Len(left) + 1
      BY <3>1, <2>3, <2>4, <1>2, <1>5
    <3>2. CASE i # Len(left) + 1
      <4>1. i \in 1 .. Len(left) /\ m[i] = left[i]
        BY <3>2, <2>3, <1>5
      <4>2. left[i].what.stamp \in Nat
        <5>1. left[i].what \in Events
          BY <4>1, <1>4, AgedRing
        <5> QED
          BY <5>1, StampsAreNumbers DEF Events
      <4> QED
        BY <4>1, <4>2, <1>6, <1>2
    <3> QED
      BY <3>1, <3>2
  <2>10. Alternate(Event(a), Pressed(down, e))
    <3>1. Event(later) \in Seq(Events)
      BY <1>4, EventIs
    <3>2. Alternate(Append(Event(later), e), Pressed(down, e))
      BY <3>1, <2>1, <1>3, AppendedEvent
    <3> QED
      BY <3>2, <2>2
  <2> QED
    BY <2>6, <2>7, <2>8, <2>9, <2>10, <1>9 DEF PlayerInv, m, a
<1> QED
  BY <1>1, <1>8, <1>9 DEF NewDoes

-----------------------------------------------------------------------------
(* The readers in a frame.                                                 *)

AgedState ==
  [thru     |-> Older(g_thru_dedup, DedupAge),
   ch       |-> Older(g_ch_dedup, DedupAge),
   ring     |-> Older(g_dispatched_ext_ring, EchoAge),
   active   |-> slot_active_note,
   sounding |-> sounding,
   heard    |-> heard]

AfterDirect(events) == Read(DirectEvent, AgedState, events)

AfterChannel(events) ==
  IF overtake THEN AfterDirect(events)
  ELSE Read(ChannelEvent, AfterDirect(events), events)

LEMMA AgedStateIs ==
  ASSUME DispatchTypes
  PROVE  /\ AgedState \in States
         /\ Len(AgedState.thru) <= DedupSize /\ Len(AgedState.ch) <= DedupSize
         /\ Len(AgedState.ring) <= RingSize
         /\ AgedState.thru = Older(g_thru_dedup, DedupAge)
         /\ AgedState.ch = Older(g_ch_dedup, DedupAge)
         /\ AgedState.ring = Older(g_dispatched_ext_ring, EchoAge)
         /\ AgedState.active = slot_active_note
         /\ AgedState.sounding = sounding /\ AgedState.heard = heard
<1> DEFINE a == Older(g_thru_dedup, DedupAge)
           b == Older(g_ch_dedup, DedupAge)
           r == Older(g_dispatched_ext_ring, EchoAge)
<1>1. DedupAge \in Nat /\ EchoAge \in Nat
  BY DispatchAssumption
<1>2. /\ g_thru_dedup \in Aged(Stamps) /\ g_ch_dedup \in Aged(Stamps)
      /\ g_dispatched_ext_ring \in Aged(Contents)
      /\ Len(g_thru_dedup) <= DedupSize /\ Len(g_ch_dedup) <= DedupSize
      /\ Len(g_dispatched_ext_ring) <= RingSize
      /\ slot_active_note \in Tracker /\ sounding \in Synths /\ heard \in Counts
  BY DEF DispatchTypes
<1>3. /\ a \in Aged(Stamps) /\ Len(a) = Len(g_thru_dedup)
      /\ b \in Aged(Stamps) /\ Len(b) = Len(g_ch_dedup)
      /\ r \in Aged(Contents) /\ Len(r) = Len(g_dispatched_ext_ring)
  BY <1>1, <1>2, OlderIs
<1> HIDE DEF a, b, r
<1>4. AgedState = [thru |-> a, ch |-> b, ring |-> r, active |-> slot_active_note,
                   sounding |-> sounding, heard |-> heard]
  BY DEF AgedState, a, b, r
<1>5. AgedState \in States
  BY <1>2, <1>3, <1>4 DEF States
<1> QED
  BY <1>2, <1>3, <1>4, <1>5 DEF a, b, r

LEMMA EventsAre ==
  ASSUME NEW left \in Aged(Events)
  PROVE  /\ Len(Event(left) \o <<>>) = Len(left)
         /\ \A i \in 1 .. Len(left) : (Event(left) \o <<>>)[i] = left[i].what
         /\ \A e \in Events :
              /\ Len(Event(left) \o <<e>>) = Len(left) + 1
              /\ (Event(left) \o <<e>>)[Len(left) + 1] = e
              /\ \A i \in 1 .. Len(left) :
                   (Event(left) \o <<e>>)[i] = left[i].what
<1>1. /\ Event(left) \in Seq(Events) /\ Len(Event(left)) = Len(left)
      /\ \A i \in 1 .. Len(left) : Event(left)[i] = left[i].what
  BY EventIs
<1>2. Event(left) \o <<>> = Event(left)
  BY <1>1, ConcatEmptySeq
<1>3. ASSUME NEW e \in Events
      PROVE  Event(left) \o <<e>> = Append(Event(left), e)
  BY <1>1, AppendIsConcat
<1>4. ASSUME NEW e \in Events
      PROVE  /\ Len(Append(Event(left), e)) = Len(left) + 1
             /\ Append(Event(left), e)[Len(left) + 1] = e
             /\ \A i \in 1 .. Len(left) : Append(Event(left), e)[i] = left[i].what
  BY <1>1, AppendProperties
<1> QED
  BY <1>1, <1>2, <1>3, <1>4

(* Both rings of timestamps, a frame older, know what is left in MIDI_IN.  *)
LEMMA BothKnow ==
  ASSUME PlayerInv, DispatchTypes, PlaceInv,
         NEW left \in Aged(Events), Remaining(left, midi_in)
  PROVE  /\ OnePerFrame(AgedState.thru, stamp) /\ KnowsEvents(AgedState.thru, left)
         /\ \A i \in 1 .. Len(AgedState.thru) :
              AgedState.thru[i].age <= DedupAge =>
                Len(AgedState.thru) - i < AgedState.thru[i].age
         /\ OnePerFrame(AgedState.ch, stamp)
         /\ ~overtake =>
              /\ KnowsEvents(AgedState.ch, left)
              /\ \A i \in 1 .. Len(AgedState.ch) :
                   AgedState.ch[i].age <= DedupAge =>
                     Len(AgedState.ch) - i < AgedState.ch[i].age
<1>1. /\ midi_in \in Aged(Events) /\ stamp \in Nat
      /\ g_thru_dedup \in Aged(Stamps) /\ g_ch_dedup \in Aged(Stamps)
      /\ OnePerFrame(g_thru_dedup, stamp) /\ OnePerFrame(g_ch_dedup, stamp)
      /\ KnowsEvents(g_thru_dedup, midi_in)
      /\ ~overtake => KnowsEvents(g_ch_dedup, midi_in)
  BY DEF PlayerInv, PlayerTypes, DispatchTypes, PlaceInv
<1>2. /\ AgedState.thru = Older(g_thru_dedup, DedupAge)
      /\ AgedState.ch = Older(g_ch_dedup, DedupAge)
  BY AgedStateIs
<1>3. /\ OnePerFrame(AgedState.thru, stamp) /\ KnowsEvents(AgedState.thru, left)
      /\ \A i \in 1 .. Len(AgedState.thru) :
           AgedState.thru[i].age <= DedupAge =>
             Len(AgedState.thru) - i < AgedState.thru[i].age
  BY <1>1, <1>2, DedupAges
<1>4. ASSUME ~overtake
      PROVE  /\ KnowsEvents(AgedState.ch, left)
             /\ \A i \in 1 .. Len(AgedState.ch) :
                  AgedState.ch[i].age <= DedupAge =>
                    Len(AgedState.ch) - i < AgedState.ch[i].age
  BY <1>1, <1>2, <1>4, DedupAges
<1>5. OnePerFrame(AgedState.ch, stamp)
  <2>1. <<>> \in Aged(Events)
    BY DEF Aged
  <2>2. KnowsEvents(g_ch_dedup, <<>>) /\ Remaining(<<>>, <<>>)
    BY DEF KnowsEvents, Remaining
  <2> QED
    BY <1>1, <1>2, <2>1, <2>2, DedupAges
<1> QED
  BY <1>3, <1>4, <1>5

LEMMA ReadersNone ==
  ASSUME PlayerInv, DispatchTypes, PlaceInv,
         NEW left \in Aged(Events), Remaining(left, midi_in)
  PROVE  AfterChannel(Event(left) \o <<>>) = AgedState
<1> DEFINE events == Event(left) \o <<>>
           N == Len(left)
<1>1. /\ Len(events) = N /\ N \in Nat
      /\ \A i \in 1 .. N : events[i] = left[i].what /\ left[i].what \in Events
  BY EventsAre, AgedRing
<1>2. /\ AgedState \in States /\ stamp \in Nat
      /\ Len(AgedState.thru) <= DedupSize /\ Len(AgedState.ch) <= DedupSize
      /\ Len(AgedState.ring) <= RingSize
      /\ AgedState.thru \in Aged(Stamps) /\ AgedState.ch \in Aged(Stamps)
  BY AgedStateIs DEF PlayerInv, PlayerTypes, States
<1>3. \A i \in 1 .. N : Has(AgedState.thru, left[i].what.stamp, DedupAge)
  BY <1>2, BothKnow, DedupTells
<1>4. ~overtake =>
        \A i \in 1 .. N : Has(AgedState.ch, left[i].what.stamp, DedupAge)
  BY <1>2, BothKnow, DedupTells
<1> HIDE DEF events, N
<1>5. \A i \in 1 .. N : DirectEvent(AgedState, events[i]) = AgedState
  BY <1>1, <1>2, <1>3, DirectIs
<1>6. AfterDirect(events) = AgedState
  <2>1. N > 0 => N \in 1 .. N
    BY <1>1
  <2>2. N = 0 \/ N > 0
    BY <1>1
  <2> QED
    BY <1>1, <1>5, <2>1, <2>2, ReadDirect DEF AfterDirect
<1>7. ASSUME ~overtake PROVE Read(ChannelEvent, AgedState, events) = AgedState
  <2>1. \A i \in 1 .. N : ChannelEvent(AgedState, events[i]) = AgedState
    BY <1>1, <1>2, <1>4, <1>7, ChannelIs
  <2>2. N > 0 => N \in 1 .. N
    BY <1>1
  <2>3. N = 0 \/ N > 0
    BY <1>1
  <2> QED
    BY <1>1, <2>1, <2>2, <2>3, ReadChannel
<1> QED
  BY <1>6, <1>7 DEF AfterChannel, events

(* st with the event recorded, as the two readers do.                      *)
ThruRecorded(m, st, e) ==
  /\ m.thru = Record(st.thru, e.stamp, DedupSize) /\ m.ch = st.ch
  /\ m.ring = Record(st.ring, Content(e), RingSize)
  /\ m.active = st.active /\ m.sounding = st.sounding /\ m.heard = st.heard

ChanRecorded(m, st, e) ==
  /\ m.ch = Record(st.ch, e.stamp, DedupSize) /\ m.thru = st.thru
  /\ m.ring = Record(st.ring, Content(e), RingSize)
  /\ m.active = st.active /\ m.sounding = st.sounding /\ m.heard = st.heard

(* The state after the first reader, d1, and after the second, d2.         *)
ReadBoth(e, d1, d2) ==
  /\ \E m \in States : /\ ThruRecorded(m, AgedState, e)
                       /\ d1 = Deliver(m, "thru", Keyboard, e)
  /\ overtake => d2 = d1
  /\ ~overtake => \E m \in States : /\ ChanRecorded(m, d1, e)
                                    /\ d2 = Deliver(m, "chan", Keyboard, e)

LEMMA Delivered ==
  ASSUME PlayerTypes, NEW st \in States, NEW s \in Slots, NEW e \in Events
  PROVE  LET d == Deliver(st, s, Keyboard, e)
         IN  d \in States /\ d.thru = st.thru /\ d.ch = st.ch /\ d.ring = st.ring
<1>1. /\ e.on \in BOOLEAN /\ e.key \in Keys /\ e.stamp \in Stamps \cup {Unstamped}
      /\ transpose \in [Slots -> Transposes] /\ Keyboard \in Channels
  BY DEF Events, PlayerTypes, Channels
<1> QED
  BY <1>1, DeliverIs DEF Delivers

LEMMA ReadersOne ==
  ASSUME PlayerInv, DispatchTypes, PlaceInv,
         NEW left \in Aged(Events), Remaining(left, midi_in),
         NEW e \in Events, e.stamp = stamp + 1
  PROVE  \E d1 \in States : ReadBoth(e, d1, AfterChannel(Event(left) \o <<e>>))
<1> DEFINE events == Event(left) \o <<e>>
           N == Len(left)
           d1 == AfterDirect(events)
<1>1. /\ N \in Nat /\ Len(events) = N + 1 /\ events[N + 1] = e
      /\ \A i \in 1 .. N : events[i] = left[i].what /\ left[i].what \in Events
  BY EventsAre, AgedRing
<1>2. /\ AgedState \in States /\ stamp \in Nat /\ PlayerTypes
      /\ Len(AgedState.thru) <= DedupSize /\ Len(AgedState.ch) <= DedupSize
      /\ Len(AgedState.ring) <= RingSize
      /\ AgedState.thru \in Aged(Stamps) /\ AgedState.ch \in Aged(Stamps)
      /\ AgedState.ring \in Aged(Contents)
  BY AgedStateIs DEF PlayerInv, PlayerTypes, States
<1>3. /\ \A i \in 1 .. N : Has(AgedState.thru, left[i].what.stamp, DedupAge)
      /\ ~Has(AgedState.thru, e.stamp, DedupAge)
      /\ ~Has(AgedState.ch, e.stamp, DedupAge)
  BY <1>2, BothKnow, DedupTells
<1>4. ~overtake =>
        \A i \in 1 .. N : Has(AgedState.ch, left[i].what.stamp, DedupAge)
  BY <1>2, BothKnow, DedupTells
<1> HIDE DEF events, N
<1>5. \A i \in 1 .. N + 1 : i < N + 1 => i \in 1 .. N
  BY <1>1
<1>6. d1 = DirectEvent(AgedState, e)
  <2>1. \A i \in 1 .. N : DirectEvent(AgedState, events[i]) = AgedState
    BY <1>1, <1>2, <1>3, DirectIs
  <2>2. \A i \in 1 .. N + 1 : i < N + 1 => DirectEvent(AgedState, events[i]) = AgedState
    BY <2>1, <1>5
  <2>3. N + 1 \in Nat /\ N + 1 > 0
    BY <1>1
  <2> QED
    BY <1>1, <2>2, <2>3, ReadDirect DEF AfterDirect
<1> HIDE DEF d1
<1>7. PICK m \in States : /\ d1 = Deliver(m, "thru", Keyboard, e)
                          /\ ThruRecorded(m, AgedState, e)
  BY <1>2, <1>3, <1>6, DirectIs DEF ThruRecorded
<1>8. /\ d1 \in States /\ d1.thru = m.thru /\ d1.ch = m.ch /\ d1.ring = m.ring
  BY <1>2, <1>7, Delivered DEF Slots
<1>9. /\ d1.ch = AgedState.ch /\ Len(d1.ring) <= RingSize
  <2>1. Content(e) \in Contents
    BY DEF Content, Contents, Events
  <2> QED
    BY <1>2, <1>7, <1>8, <2>1, RecordIs, Sizes DEF ThruRecorded
<1>10. CASE overtake
  BY <1>7, <1>8, <1>10 DEF ReadBoth, AfterChannel, d1, events
<1>11. CASE ~overtake
  <2> DEFINE d2 == Read(ChannelEvent, d1, events)
  <2>1. \A i \in 1 .. N : ChannelEvent(d1, events[i]) = d1
    BY <1>1, <1>2, <1>4, <1>8, <1>9, <1>11, ChannelIs
  <2>2. \A i \in 1 .. N + 1 : i < N + 1 => ChannelEvent(d1, events[i]) = d1
    BY <2>1, <1>5
  <2>3. N + 1 \in Nat /\ N + 1 > 0
    BY <1>1
  <2>4. d2 = ChannelEvent(d1, e)
    BY <1>1, <2>2, <2>3, ReadChannel
  <2> HIDE DEF d2
  <2>5. \E m2 \in States : /\ d2 = Deliver(m2, "chan", Keyboard, e)
                           /\ ChanRecorded(m2, d1, e)
    BY <1>2, <1>3, <1>8, <1>9, <2>4, ChannelIs DEF ChanRecorded
  <2>6. AfterChannel(events) = d2
    BY <1>11 DEF AfterChannel, d1, d2
  <2> QED
    BY <1>7, <1>8, <1>11, <2>5, <2>6 DEF ReadBoth, events
<1> QED
  BY <1>2, <1>10, <1>11 DEF PlayerTypes

(* What the readers leave of a new event: in the rings, ...                *)
LEMMA OneRecorded ==
  ASSUME PlayerTypes, DispatchTypes, NEW e \in Events, NEW d1 \in States, NEW d2,
         ReadBoth(e, d1, d2)
  PROVE  /\ d2 \in States
         /\ d2.thru = Record(AgedState.thru, e.stamp, DedupSize)
         /\ overtake => d2.ch = AgedState.ch
         /\ ~overtake => d2.ch = Record(AgedState.ch, e.stamp, DedupSize)
         /\ d1.ring = Record(AgedState.ring, Content(e), RingSize)
         /\ overtake => d2.ring = d1.ring
         /\ ~overtake => d2.ring = Record(d1.ring, Content(e), RingSize)
         /\ Len(d2.thru) <= DedupSize /\ Len(d2.ch) <= DedupSize
         /\ Len(d2.ring) <= RingSize
<1>1. PICK m \in States : /\ ThruRecorded(m, AgedState, e)
                          /\ d1 = Deliver(m, "thru", Keyboard, e)
  BY DEF ReadBoth
<1>2. d1.thru = m.thru /\ d1.ch = m.ch /\ d1.ring = m.ring
  BY <1>1, Delivered DEF Slots
<1>3. /\ d1.thru = Record(AgedState.thru, e.stamp, DedupSize)
      /\ d1.ch = AgedState.ch
      /\ d1.ring = Record(AgedState.ring, Content(e), RingSize)
  BY <1>1, <1>2 DEF ThruRecorded
<1>4. /\ AgedState \in States
      /\ AgedState.thru \in Aged(Stamps) /\ AgedState.ch \in Aged(Stamps)
      /\ AgedState.ring \in Aged(Contents)
      /\ Len(AgedState.thru) <= DedupSize /\ Len(AgedState.ch) <= DedupSize
      /\ Len(AgedState.ring) <= RingSize
      /\ e.stamp \in Stamps /\ Content(e) \in Contents
      /\ RingSize \in Nat \ {0} /\ DedupSize \in Nat \ {0}
  BY AgedStateIs, Sizes DEF States, Events, Content, Contents
<1>5. /\ Len(d1.thru) <= DedupSize /\ Len(d1.ch) <= DedupSize
      /\ d1.ring \in Aged(Contents) /\ Len(d1.ring) <= RingSize
  BY <1>3, <1>4, RecordIs
<1>6. CASE overtake
  <2>1. d2 = d1
    BY <1>6 DEF ReadBoth
  <2> QED
    BY <2>1, <1>3, <1>5, <1>6
<1>7. CASE ~overtake
  <2>1. PICK m2 \in States : /\ ChanRecorded(m2, d1, e)
                             /\ d2 = Deliver(m2, "chan", Keyboard, e)
    BY <1>7 DEF ReadBoth
  <2>2. /\ d2 \in States /\ d2.thru = m2.thru /\ d2.ch = m2.ch /\ d2.ring = m2.ring
    BY <2>1, Delivered DEF Slots
  <2>3. /\ d2.thru = Record(AgedState.thru, e.stamp, DedupSize)
        /\ d2.ch = Record(AgedState.ch, e.stamp, DedupSize)
        /\ d2.ring = Record(d1.ring, Content(e), RingSize)
    BY <2>1, <2>2, <1>3 DEF ChanRecorded
  <2>4. /\ Len(d2.thru) <= DedupSize /\ Len(d2.ch) <= DedupSize
        /\ Len(d2.ring) <= RingSize
    BY <2>3, <1>4, <1>5, RecordIs, SMTT(30)
  <2> QED
    BY <2>2, <2>3, <2>4, <1>3, <1>7
<1> QED
  BY <1>6, <1>7 DEF PlayerTypes

(* ... in the counts, ...                                                  *)
LEMMA OneHeard ==
  ASSUME PlayerTypes, DispatchTypes, NEW e \in Events, NEW d1 \in States, NEW d2,
         ReadBoth(e, d1, d2), NEW k \in Nat,
         Heard(heard, e.stamp - 1, k), ~overtake => k = e.stamp - 1
  PROVE  Heard(d2.heard, e.stamp, IF overtake THEN k ELSE e.stamp)
<1>1. /\ e.on \in BOOLEAN /\ e.key \in Keys /\ e.stamp \in Stamps \cup {Unstamped}
      /\ transpose \in [Slots -> Transposes] /\ Keyboard \in Channels
      /\ "thru" \in Slots /\ "chan" \in Slots /\ e.stamp \in Stamps
  BY DEF Events, PlayerTypes, Channels, Slots
<1>2. PICK m \in States : /\ ThruRecorded(m, AgedState, e)
                          /\ d1 = Deliver(m, "thru", Keyboard, e)
  BY DEF ReadBoth
<1>3. m.heard = heard
  BY <1>2, AgedStateIs DEF ThruRecorded
<1>4. /\ \A s1 \in Slots, t \in Stamps :
           s1 # "thru" \/ t # e.stamp => d1.heard[s1][t] = heard[s1][t]
      /\ d1.heard["thru"][e.stamp] = heard["thru"][e.stamp] + 1
  <2>1. d1.heard = Deliver(m, "thru", Keyboard, e).heard
    BY <1>2
  <2> QED
    BY <1>1, <1>3, <2>1, DeliverCounts
<1>5. \A t \in Stamps : t \in Nat
  BY StampsAreNumbers
<1>6. Heard(d1.heard, e.stamp, k)
  BY <1>1, <1>4, <1>5 DEF Heard
<1>7. CASE overtake
  BY <1>6, <1>7 DEF ReadBoth
<1>8. CASE ~overtake
  <2>1. PICK m2 \in States : /\ ChanRecorded(m2, d1, e)
                             /\ d2 = Deliver(m2, "chan", Keyboard, e)
    BY <1>8 DEF ReadBoth
  <2>2. m2.heard = d1.heard
    BY <2>1 DEF ChanRecorded
  <2>3. /\ \A s1 \in Slots, t \in Stamps :
             s1 # "chan" \/ t # e.stamp => d2.heard[s1][t] = d1.heard[s1][t]
        /\ d2.heard["chan"][e.stamp] = d1.heard["chan"][e.stamp] + 1
    <3>1. d2.heard = Deliver(m2, "chan", Keyboard, e).heard
      BY <2>1
    <3> QED
      BY <1>1, <2>2, <3>1, DeliverCounts
  <2>4. Heard(d1.heard, e.stamp, e.stamp - 1)
    BY <1>6, <1>8
  <2>5. Heard(d2.heard, e.stamp, e.stamp)
    BY <1>1, <1>5, <2>3, <2>4 DEF Heard
  <2> QED
    BY <2>5, <1>8
<1> QED
  BY <1>7, <1>8 DEF PlayerTypes

(* ... and in the voices.                                                  *)
LEMMA OneVoices ==
  ASSUME PlayerTypes, DispatchTypes, NEW e \in Events, NEW d1 \in States, NEW d2,
         ReadBoth(e, d1, d2), e.on <=> e.key \notin down,
         NEW q \in Seq(Events),
         HeldIn(slot_active_note, "thru", ThruHolds(down, played)),
         HeldIn(slot_active_note, "chan", ChanHolds(q, down, played)),
         Voiced(slot_active_note, sounding),
         e.key \notin played \/ Plain(slot_active_note)
  PROVE  /\ HeldIn(d2.active, "thru", ThruHolds(Pressed(down, e), played))
         /\ HeldIn(d2.active, "chan",
                   ChanHolds(Append(q, e), Pressed(down, e), played))
         /\ Voiced(d2.active, d2.sounding)
         /\ Plain(slot_active_note) => Plain(d2.active)
<1>1. /\ e.on \in BOOLEAN /\ e.key \in Keys /\ e.stamp \in Stamps \cup {Unstamped}
      /\ transpose \in [Slots -> Transposes] /\ Keyboard \in Channels
      /\ "thru" \in Slots /\ "chan" \in Slots
  BY DEF Events, PlayerTypes, Channels, Slots
<1>2. PICK m \in States : /\ ThruRecorded(m, AgedState, e)
                          /\ d1 = Deliver(m, "thru", Keyboard, e)
  BY DEF ReadBoth
<1>3. m.active = slot_active_note /\ m.sounding = sounding
  BY <1>2, AgedStateIs DEF ThruRecorded
<1>4. /\ HeldIn(m.active, "thru", ThruHolds(down, played))
      /\ HeldIn(m.active, "chan", ChanHolds(q, down, played))
      /\ Voiced(m.active, m.sounding)
      /\ e.key \notin played \/ Plain(m.active)
  BY <1>3
<1>5. /\ HeldIn(d1.active, "thru", ThruHolds(Pressed(down, e), played))
      /\ Voiced(d1.active, d1.sounding)
      /\ Plain(m.active) => Plain(d1.active)
  BY <1>2, <1>4, ThruHears
<1>6. HeldIn(d1.active, "chan", ChanHolds(q, down, played))
  BY <1>1, <1>2, <1>4, DeliverElsewhere, SMTT(30)
<1>7. CASE overtake
  <2>1. d2 = d1
    BY <1>7 DEF ReadBoth
  <2>2. HeldIn(d1.active, "chan",
               ChanHolds(Append(q, e), Pressed(down, e), played))
    BY <1>6, <1>7, ChanWaits
  <2> QED
    BY <2>1, <2>2, <1>3, <1>5
<1>8. CASE ~overtake
  <2>1. PICK m2 \in States : /\ ChanRecorded(m2, d1, e)
                             /\ d2 = Deliver(m2, "chan", Keyboard, e)
    BY <1>8 DEF ReadBoth
  <2>2. m2.active = d1.active /\ m2.sounding = d1.sounding
    BY <2>1 DEF ChanRecorded
  <2>3. /\ HeldIn(m2.active, "thru", ThruHolds(Pressed(down, e), played))
        /\ HeldIn(m2.active, "chan", ChanHolds(q, down, played))
        /\ Voiced(m2.active, m2.sounding)
        /\ e.key \notin played \/ Plain(m2.active)
    BY <2>2, <1>4, <1>5, <1>6
  <2>4. /\ HeldIn(d2.active, "chan",
                  ChanHolds(Append(q, e), Pressed(down, e), played))
        /\ Voiced(d2.active, d2.sounding)
        /\ Plain(m2.active) => Plain(d2.active)
    BY <2>1, <2>3, <1>8, ChanHears
  <2>5. HeldIn(d2.active, "thru", ThruHolds(Pressed(down, e), played))
    <3> DEFINE G == ThruHolds(Pressed(down, e), played)
    <3>1. HeldIn(m2.active, "thru", G)
      BY <2>3
    <3> HIDE DEF G
    <3>2. HeldIn(Deliver(m2, "chan", Keyboard, e).active, "thru", G)
      BY <1>1, <3>1, DeliverElsewhere
    <3> QED
      BY <2>1, <3>2 DEF G
  <2> QED
    BY <2>2, <2>4, <2>5, <1>3, <1>5
<1> QED
  BY <1>7, <1>8 DEF PlayerTypes

(* The invariant between the readers of MIDI_IN and that of MIDI_OUT, with *)
(* q the events to be echoed, the new one included.                        *)
Placed(c) ==
  /\ c \in States
  /\ Len(c.thru) <= DedupSize /\ Len(c.ch) <= DedupSize
  /\ Len(c.ring) <= RingSize
  /\ OnePerFrame(c.thru, stamp') /\ OnePerFrame(c.ch, stamp')
  /\ KnowsEvents(c.thru, midi_in')
  /\ ~overtake => KnowsEvents(c.ch, midi_in')
  /\ KnowsAwaited(c.ring, awaited')

Between(c, q) ==
  /\ Placed(c)
  /\ awaited # <<>> => Has(c.ring, Content(awaited[1].what), EchoAge)
  /\ Heard(c.heard, stamp', IF overtake THEN stamp - Len(awaited) ELSE stamp')
  /\ HeldIn(c.active, "thru", ThruHolds(down', played))
  /\ HeldIn(c.active, "chan", ChanHolds(q, down', played))
  /\ Voiced(c.active, c.sounding)
  /\ Plain(slot_active_note) => Plain(c.active)

LEMMA ReadNone ==
  ASSUME PlayerInv, DispatchInv, NEW out, NEW left, NEW later,
         OutDoes(out, later), left \in Aged(Events), Remaining(left, midi_in),
         midi_in' = left, awaited' = later, stamp' = stamp, down' = down
  PROVE  Between(AfterChannel(Event(left) \o <<>>), Event(awaited))
<1>1. /\ DispatchTypes /\ PlaceInv /\ HeardInv /\ VoiceInv /\ PlayerTypes
      /\ g_dispatched_ext_ring \in Aged(Contents) /\ awaited \in Aged(Events)
      /\ KnowsAwaited(g_dispatched_ext_ring, awaited)
      /\ \A i \in 1 .. Len(awaited) : awaited[i].age < EchoAge
      /\ later \in Aged(Events) /\ Later(later, awaited)
  BY DEF DispatchInv, DispatchTypes, PlaceInv, PlayerInv, PlayerTypes, OutDoes
<1>2. AfterChannel(Event(left) \o <<>>) = AgedState
  BY <1>1, ReadersNone
<1>3. /\ AgedState \in States
      /\ Len(AgedState.thru) <= DedupSize /\ Len(AgedState.ch) <= DedupSize
      /\ Len(AgedState.ring) <= RingSize
      /\ AgedState.ring = Older(g_dispatched_ext_ring, EchoAge)
      /\ AgedState.active = slot_active_note
      /\ AgedState.sounding = sounding /\ AgedState.heard = heard
  BY <1>1, AgedStateIs
<1>4. AgedState.ring \in Aged(Contents) /\ Len(AgedState.ring) \in Nat
  BY <1>3, AgedRing DEF States
<1>5. Behind(AgedState.ring, awaited, 0)
  BY <1>1, <1>3, ContentAges
<1>6. KnowsAwaited(AgedState.ring, later)
  BY <1>1, <1>4, <1>5, AwaitedKnown
<1>7. Placed(AgedState)
  BY <1>1, <1>3, <1>6, BothKnow DEF Placed
<1>8. awaited # <<>> => Has(AgedState.ring, Content(awaited[1].what), EchoAge)
  <2> SUFFICES ASSUME awaited # <<>>
               PROVE  Has(AgedState.ring, Content(awaited[1].what), EchoAge)
    OBVIOUS
  <2>1. awaited[1].age < EchoAge
    <3>1. 1 \in 1 .. Len(awaited)
      BY <1>1, EmptySeq DEF Aged
    <3> QED
      BY <3>1, <1>1
  <2> QED
    BY <2>1, <1>1, <1>4, <1>5, EchoFound
<1>9. Heard(AgedState.heard, stamp', IF overtake THEN stamp - Len(awaited) ELSE stamp')
  BY <1>1, <1>3 DEF HeardInv, EchoesHeard
<1>10. /\ HeldIn(AgedState.active, "thru", ThruHolds(down', played))
       /\ HeldIn(AgedState.active, "chan", ChanHolds(Event(awaited), down', played))
       /\ Voiced(AgedState.active, AgedState.sounding)
       /\ Plain(slot_active_note) => Plain(AgedState.active)
  BY <1>1, <1>3 DEF VoiceInv
<1> QED
  BY <1>2, <1>7, <1>8, <1>9, <1>10 DEF Between

LEMMA ReadOne ==
  ASSUME PlayerInv, DispatchInv, NEW out, NEW left, NEW later, NEW e,
         OutDoes(out, later), left \in Aged(Events), Remaining(left, midi_in),
         IsNew(e), e.key \notin played \/ Plain(slot_active_note),
         midi_in' = Append(left, Entry(e)), awaited' = Append(later, Entry(e)),
         stamp' = stamp + 1, down' = Pressed(down, e)
  PROVE  Between(AfterChannel(Event(left) \o <<e>>), Append(Event(awaited), e))
<1> DEFINE c == AfterChannel(Event(left) \o <<e>>)
<1>1. /\ DispatchTypes /\ PlaceInv /\ HeardInv /\ VoiceInv /\ PlayerTypes
      /\ g_dispatched_ext_ring \in Aged(Contents) /\ awaited \in Aged(Events)
      /\ KnowsAwaited(g_dispatched_ext_ring, awaited)
      /\ \A i \in 1 .. Len(awaited) : awaited[i].age < EchoAge
      /\ later \in Aged(Events) /\ Later(later, awaited)
      /\ stamp \in Nat /\ Len(awaited) <= Burst /\ Len(awaited) <= stamp
  BY DEF DispatchInv, DispatchTypes, PlaceInv, PlayerInv, PlayerTypes, OutDoes
<1>2. /\ e \in Events /\ (e.on <=> e.key \notin down) /\ e.stamp = stamp + 1
      /\ stamp + 1 \in Stamps /\ Content(e) \in Contents
  <2>1. /\ e \in Events /\ (e.on <=> e.key \notin down) /\ e.stamp = stamp + 1
    BY DEF IsNew
  <2> QED
    BY <2>1 DEF Events, Content, Contents
<1>3. PICK d1 \in States : ReadBoth(e, d1, c)
  BY <1>1, <1>2, ReadersOne
<1> HIDE DEF c
<1>4. /\ AgedState \in States
      /\ AgedState.thru \in Aged(Stamps) /\ AgedState.ch \in Aged(Stamps)
      /\ Len(AgedState.thru) <= DedupSize /\ Len(AgedState.ch) <= DedupSize
      /\ Len(AgedState.ring) <= RingSize /\ AgedState.ring \in Aged(Contents)
      /\ AgedState.ring = Older(g_dispatched_ext_ring, EchoAge)
  BY <1>1, AgedStateIs DEF States
<1>5. /\ c \in States
      /\ c.thru = Record(AgedState.thru, e.stamp, DedupSize)
      /\ overtake => c.ch = AgedState.ch
      /\ ~overtake => c.ch = Record(AgedState.ch, e.stamp, DedupSize)
      /\ d1.ring = Record(AgedState.ring, Content(e), RingSize)
      /\ overtake => c.ring = d1.ring
      /\ ~overtake => c.ring = Record(d1.ring, Content(e), RingSize)
      /\ Len(c.thru) <= DedupSize /\ Len(c.ch) <= DedupSize
      /\ Len(c.ring) <= RingSize
  BY <1>1, <1>2, <1>3, OneRecorded
<1>6. /\ OnePerFrame(AgedState.thru, stamp) /\ KnowsEvents(AgedState.thru, left)
      /\ \A i \in 1 .. Len(AgedState.thru) :
           AgedState.thru[i].age <= DedupAge =>
             Len(AgedState.thru) - i < AgedState.thru[i].age
      /\ OnePerFrame(AgedState.ch, stamp)
      /\ ~overtake =>
           /\ KnowsEvents(AgedState.ch, left)
           /\ \A i \in 1 .. Len(AgedState.ch) :
                AgedState.ch[i].age <= DedupAge =>
                  Len(AgedState.ch) - i < AgedState.ch[i].age
  BY <1>1, BothKnow
<1>7. \A i \in 1 .. Len(left) : left[i].age <= DedupAge
  BY DEF Remaining
<1>8. /\ OnePerFrame(c.thru, stamp + 1)
      /\ KnowsEvents(c.thru, Append(left, Entry(e)))
  <2>1. \A i \in 1 .. Len(AgedState.thru) :
          /\ AgedState.thru[i].what <= stamp
          /\ AgedState.thru[i].age <= DedupAge =>
               Len(AgedState.thru) - i < AgedState.thru[i].age
    BY <1>6 DEF OnePerFrame
  <2> QED
    BY <2>1, <1>1, <1>2, <1>4, <1>5, <1>6, <1>7, DedupRecorded
<1>9. ASSUME ~overtake
      PROVE  /\ OnePerFrame(c.ch, stamp + 1)
             /\ KnowsEvents(c.ch, Append(left, Entry(e)))
  <2>1. \A i \in 1 .. Len(AgedState.ch) :
          /\ AgedState.ch[i].what <= stamp
          /\ AgedState.ch[i].age <= DedupAge =>
               Len(AgedState.ch) - i < AgedState.ch[i].age
    BY <1>6, <1>9 DEF OnePerFrame
  <2> QED
    BY <2>1, <1>1, <1>2, <1>4, <1>5, <1>6, <1>7, <1>9, DedupRecorded
<1>10. ASSUME overtake PROVE OnePerFrame(c.ch, stamp + 1)
  <2>1. OnePerFrame(AgedState.ch, stamp + 1)
    BY <1>1, <1>4, <1>6, OneMoreFrame
  <2> QED
    BY <2>1, <1>5, <1>10
<1>11. Behind(c.ring, awaited, 2) /\ Len(c.ring) > 0
       /\ c.ring[Len(c.ring)] = Entry(Content(e))
  <2>1. Behind(AgedState.ring, awaited, 0)
    BY <1>1, <1>4, ContentAges
  <2>2. Len(awaited) < Burst
    BY <1>1, DispatchAssumption, AgedRing DEF IsNew
  <2>3. Behind(d1.ring, awaited, 0 + 1)
    BY <2>1, <2>2, <1>1, <1>2, <1>4, <1>5, BehindRecorded
  <2>4. /\ d1.ring \in Aged(Contents) /\ Len(d1.ring) <= RingSize
        /\ d1.ring # <<>> /\ d1.ring[Len(d1.ring)] = Entry(Content(e))
    BY <1>2, <1>4, <1>5, RecordIs, Sizes
  <2>5. Len(d1.ring) > 0 /\ Len(awaited) \in Nat /\ Len(d1.ring) \in Nat
    BY <2>4, <1>1, EmptySeq, AgedRing DEF Aged
  <2>6. CASE overtake
    <3>1. Behind(d1.ring, awaited, 2)
      <4> SUFFICES ASSUME NEW i \in 1 .. Len(awaited)
                   PROVE  \E j \in 1 .. Len(d1.ring) :
                            /\ d1.ring[j].what = Content(awaited[i].what)
                            /\ d1.ring[j].age = awaited[i].age + 1
                            /\ Len(d1.ring) - j <= 2 * (Len(awaited) - i) + 1 + 2
        BY DEF Behind
      <4>1. PICK j \in 1 .. Len(d1.ring) :
                   /\ d1.ring[j].what = Content(awaited[i].what)
                   /\ d1.ring[j].age = awaited[i].age + 1
                   /\ Len(d1.ring) - j <= 2 * (Len(awaited) - i) + 1 + (0 + 1)
        BY <2>3 DEF Behind
      <4>2. Len(d1.ring) - j <= 2 * (Len(awaited) - i) + 1 + 2
        BY <4>1, <2>5
      <4> QED
        BY <4>1, <4>2
    <3> QED
      BY <3>1, <2>4, <2>5, <2>6, <1>5
  <2>7. CASE ~overtake
    <3>1. Behind(d1.ring, awaited, 1)
      BY <2>3
    <3>2. Behind(Record(d1.ring, Content(e), RingSize), awaited, 1 + 1)
      BY <3>1, <2>2, <2>4, <1>1, <1>2, BehindRecorded
    <3>3. Behind(c.ring, awaited, 2)
      BY <3>2, <2>7, <1>5
    <3>4. c.ring \in Aged(Contents) /\ c.ring # <<>>
          /\ c.ring[Len(c.ring)] = Entry(Content(e))
      BY <2>4, <2>7, <1>2, <1>5, RecordIs, Sizes
    <3>5. Len(c.ring) > 0
      BY <3>4, EmptySeq DEF Aged
    <3> QED
      BY <3>3, <3>4, <3>5
  <2> QED
    BY <2>6, <2>7
<1>12. c.ring \in Aged(Contents) /\ Len(c.ring) \in Nat
  BY <1>5, AgedRing DEF States
<1>13. KnowsAwaited(c.ring, Append(later, Entry(e)))
  BY <1>1, <1>2, <1>11, <1>12, AwaitedKnown
<1>14. Placed(c)
  BY <1>5, <1>8, <1>9, <1>10, <1>13, <1>1 DEF Placed, PlayerTypes
<1>15. awaited # <<>> => Has(c.ring, Content(awaited[1].what), EchoAge)
  <2> SUFFICES ASSUME awaited # <<>>
               PROVE  Has(c.ring, Content(awaited[1].what), EchoAge)
    OBVIOUS
  <2>1. awaited[1].age < EchoAge
    <3>1. 1 \in 1 .. Len(awaited)
      BY <1>1, EmptySeq DEF Aged
    <3> QED
      BY <3>1, <1>1
  <2> QED
    BY <2>1, <1>1, <1>11, <1>12, EchoFound
<1>16. Heard(c.heard, stamp', IF overtake THEN stamp - Len(awaited) ELSE stamp')
  <2>1. e.stamp - 1 = stamp /\ stamp' = e.stamp
    BY <1>1, <1>2
  <2>2. Heard(heard, e.stamp - 1, EchoesHeard)
    BY <2>1, <1>1 DEF HeardInv
  <2>3. EchoesHeard \in Nat /\ (~overtake => EchoesHeard = e.stamp - 1)
    BY <2>1, <1>1, AgedRing DEF EchoesHeard
  <2>4. Heard(c.heard, e.stamp, IF overtake THEN EchoesHeard ELSE e.stamp)
    BY <2>2, <2>3, <1>1, <1>2, <1>3, OneHeard
  <2> QED
    BY <2>1, <2>4 DEF EchoesHeard
<1>17. /\ HeldIn(c.active, "thru", ThruHolds(down', played))
       /\ HeldIn(c.active, "chan",
                 ChanHolds(Append(Event(awaited), e), down', played))
       /\ Voiced(c.active, c.sounding)
       /\ Plain(slot_active_note) => Plain(c.active)
  <2>1. Event(awaited) \in Seq(Events)
    BY <1>1, EventIs
  <2>2. /\ HeldIn(slot_active_note, "thru", ThruHolds(down, played))
        /\ HeldIn(slot_active_note, "chan", ChanHolds(Event(awaited), down, played))
        /\ Voiced(slot_active_note, sounding)
    BY <1>1 DEF VoiceInv
  <2> QED
    BY <2>1, <2>2, <1>1, <1>2, <1>3, OneVoices
<1> QED
  BY <1>14, <1>15, <1>16, <1>17 DEF Between, c

-----------------------------------------------------------------------------
(* The reader of MIDI_OUT.                                                 *)

(* The invariant after it; q is then the queue of the next frame.          *)
After(d, q) ==
  /\ Placed(d)
  /\ Heard(d.heard, stamp', EchoesHeard')
  /\ HeldIn(d.active, "thru", ThruHolds(down', played'))
  /\ HeldIn(d.active, "chan", ChanHolds(q, down', played'))
  /\ Voiced(d.active, d.sounding)
  /\ Plain(slot_active_note) => Plain(d.active)

LEMMA OutNone ==
  ASSUME NEW c, NEW q, Between(c, q), played' = played, overtake' = overtake,
         overtake => EchoesHeard' = stamp - Len(awaited)
  PROVE  After(c, q)
<1>1. EchoesHeard' = IF overtake THEN stamp - Len(awaited) ELSE stamp'
  BY DEF EchoesHeard
<1> QED
  BY <1>1 DEF Between, After

(* The rings are not touched.                                              *)
LEMMA PlacedKept ==
  ASSUME NEW c, Placed(c), NEW d \in States,
         d.thru = c.thru, d.ch = c.ch, d.ring = c.ring
  PROVE  Placed(d)
  BY DEF Placed

LEMMA EchoIsKnown ==
  ASSUME PlayerInv, NEW c, NEW q, Between(c, q), NEW e, IsEcho(e), NEW events
  PROVE  IsExternalEcho(c, e, events)
<1>1. awaited # <<>> /\ Content(e) = Content(awaited[1].what)
  <2>1. awaited[1].what.on \in BOOLEAN
    <3>1. awaited \in Aged(Events) /\ awaited # <<>>
      BY DEF PlayerInv, PlayerTypes, IsEcho
    <3>2. 1 \in 1 .. Len(awaited)
      BY <3>1, EmptySeq DEF Aged
    <3>3. awaited[1].what \in Events
      BY <3>1, <3>2, AgedRing
    <3> QED
      BY <3>3 DEF Events
  <2>2. e.on = awaited[1].what.on
    BY <2>1 DEF IsEcho
  <2> QED
    BY <2>2 DEF IsEcho, Content
<1> QED
  BY <1>1 DEF Between, IsExternalEcho

LEMMA OutEcho ==
  ASSUME PlayerInv, NEW c, NEW q \in Seq(Events), q # <<>>, Between(c, q),
         NEW e, IsEcho(e), NEW events,
         q[1] = awaited[1].what, Alternate(q, down'),
         played' = played, overtake' = overtake,
         overtake => EchoesHeard' = (stamp - Len(awaited)) + 1,
         e.key \notin played \/ Plain(slot_active_note)
  PROVE  After(OutEvent(c, e, events), Tail(q))
<1>1. IsExternalEcho(c, e, events)
  BY EchoIsKnown
<1>2. c \in States /\ Placed(c) /\ PlayerTypes /\ overtake \in BOOLEAN
  BY DEF Between, Placed, PlayerInv, PlayerTypes
<1>3. CASE ~overtake
  <2>1. OutEvent(c, e, events) = c
    BY <1>1, <1>3 DEF OutEvent
  <2>2. EchoesHeard' = stamp'
    BY <1>3 DEF EchoesHeard
  <2>3. ChanHolds(Tail(q), down', played) = ChanHolds(q, down', played)
    BY <1>3 DEF ChanHolds
  <2> QED
    BY <2>1, <2>2, <2>3, <1>3 DEF Between, After
<1>4. CASE overtake
  <2> DEFINE d == Deliver(c, "chan", forward_channel, e)
  <2>1. OutEvent(c, e, events) = d
    BY <1>1, <1>4 DEF OutEvent
  <2>2. /\ e.on \in BOOLEAN /\ e.key \in Keys /\ e.stamp \in Stamps \cup {Unstamped}
        /\ transpose \in [Slots -> Transposes] /\ forward_channel \in Channels
        /\ "thru" \in Slots /\ "chan" \in Slots /\ e.stamp \in Stamps
    BY <1>2 DEF IsEcho, PlayerTypes, Channels, Slots
  <2>3. d \in States /\ d.thru = c.thru /\ d.ch = c.ch /\ d.ring = c.ring
    <3>1. Delivers(d, c, "chan", forward_channel, e)
      BY <1>2, <2>2, DeliverIs
    <3> HIDE DEF d
    <3> QED
      BY <3>1 DEF Delivers
  <2>4. Placed(d)
    BY <1>2, <2>3, PlacedKept
  <2>5. Heard(d.heard, stamp', EchoesHeard')
    <3>1. e.stamp - 1 = stamp - Len(awaited) /\ e.stamp = EchoesHeard'
      <4>1. awaited \in Aged(Events) /\ awaited # <<>> /\ stamp \in Nat
        BY DEF PlayerInv, PlayerTypes, IsEcho
      <4>2. 1 \in 1 .. Len(awaited) /\ Len(awaited) \in Nat
        BY <4>1, EmptySeq DEF Aged
      <4>3. awaited[1].what.stamp = stamp - Len(awaited) + 1
        BY <4>2 DEF PlayerInv
      <4> QED
        BY <4>1, <4>2, <4>3, <1>4 DEF IsEcho
    <3>2. Heard(c.heard, stamp', e.stamp - 1)
      BY <3>1, <1>4 DEF Between
    <3>3. /\ \A s1 \in Slots, t \in Stamps :
               s1 # "chan" \/ t # e.stamp => d.heard[s1][t] = c.heard[s1][t]
          /\ d.heard["chan"][e.stamp] = c.heard["chan"][e.stamp] + 1
      BY <1>2, <2>2, DeliverCounts
    <3>4. \A t \in Stamps : t \in Nat
      BY StampsAreNumbers
    <3> HIDE DEF d
    <3>5. Heard(d.heard, stamp', e.stamp)
      BY <2>2, <3>2, <3>3, <3>4, SMTT(30) DEF Heard
    <3> QED
      BY <3>1, <3>5
  <2>6. /\ HeldIn(d.active, "chan", ChanHolds(Tail(q), down', played))
        /\ Voiced(d.active, d.sounding)
        /\ Plain(c.active) => Plain(d.active)
    <3>1. Passes(q, Tail(q), down', e)
      BY EchoPasses DEF IsEcho
    <3>2. /\ HeldIn(c.active, "chan", ChanHolds(q, down', played))
          /\ Voiced(c.active, c.sounding)
          /\ e.key \notin played \/ Plain(c.active)
      BY DEF Between
    <3> QED
      BY <1>2, <1>4, <2>2, <3>1, <3>2, ChanHearsEcho
  <2>7. HeldIn(d.active, "thru", ThruHolds(down', played))
    <3> DEFINE G == ThruHolds(down', played)
    <3>1. HeldIn(c.active, "thru", G)
      BY DEF Between
    <3> HIDE DEF G
    <3>2. HeldIn(d.active, "thru", G)
      BY <1>2, <2>2, <3>1, DeliverElsewhere, SMTT(30)
    <3> QED
      BY <3>2 DEF G
  <2> HIDE DEF d
  <2>8. Plain(slot_active_note) => Plain(c.active)
    BY DEF Between
  <2> QED
    BY <2>1, <2>4, <2>5, <2>6, <2>7, <2>8, <1>4 DEF After
<1> QED
  BY <1>2, <1>3, <1>4

LEMMA OutNote ==
  ASSUME PlayerInv, NEW c, NEW q, Between(c, q),
         NEW e, IsNote(e), NEW events, ~IsExternalEcho(c, e, events),
         played' = Pressed(played, e), overtake' = overtake,
         overtake => EchoesHeard' = stamp - Len(awaited),
         \/ e.key \notin down' /\ \A i \in 1 .. Len(q) : q[i].key # e.key
         \/ Plain(slot_active_note)
  PROVE  After(OutEvent(c, e, events), q)
<1> DEFINE d1 == Deliver(c, "chan", forward_channel, e)
           d2 == Deliver(d1, "thru", Keyboard, e)
<1>1. OutEvent(c, e, events) = d2
  BY DEF OutEvent
<1>2. c \in States /\ Placed(c) /\ PlayerTypes /\ overtake \in BOOLEAN
  BY DEF Between, Placed, PlayerInv, PlayerTypes
<1>3. /\ e.on \in BOOLEAN /\ e.key \in Keys /\ e.stamp = Unstamped
      /\ e.stamp \in Stamps \cup {Unstamped}
      /\ e.on <=> e.key \notin played
      /\ transpose \in [Slots -> Transposes] /\ forward_channel \in Channels
      /\ Keyboard \in Channels /\ "thru" \in Slots /\ "chan" \in Slots
  BY <1>2 DEF IsNote, PlayerTypes, Channels, Slots
<1>4. \A t \in Stamps : t # e.stamp
  BY <1>3, StampsAreNumbers DEF Unstamped
<1>5. /\ d1 \in States /\ d1.thru = c.thru /\ d1.ch = c.ch /\ d1.ring = c.ring
  <2>1. Delivers(d1, c, "chan", forward_channel, e)
    BY <1>2, <1>3, DeliverIs
  <2> HIDE DEF d1
  <2> QED
    BY <2>1 DEF Delivers
<1>6. \A s1 \in Slots, t \in Stamps : d1.heard[s1][t] = c.heard[s1][t]
  BY <1>2, <1>3, <1>4, DeliverCounts
<1>7. /\ HeldIn(c.active, "thru", ThruHolds(down', played))
      /\ HeldIn(c.active, "chan", ChanHolds(q, down', played))
      /\ Voiced(c.active, c.sounding)
      /\ Plain(slot_active_note) => Plain(c.active)
  BY DEF Between
<1>8. /\ HeldIn(d1.active, "chan", ChanHolds(q, down', Pressed(played, e)))
      /\ Voiced(d1.active, d1.sounding)
      /\ Plain(c.active) => Plain(d1.active)
  BY <1>2, <1>3, <1>7, ChanHearsNote
<1>9. HeldIn(d1.active, "thru", ThruHolds(down', played))
  <2> DEFINE G == ThruHolds(down', played)
  <2>1. HeldIn(c.active, "thru", G)
    BY <1>7
  <2> HIDE DEF G
  <2>2. HeldIn(d1.active, "thru", G)
    BY <1>2, <1>3, <2>1, DeliverElsewhere
  <2> QED
    BY <2>2 DEF G
<1> HIDE DEF d1
<1>10. /\ d2 \in States /\ d2.thru = d1.thru /\ d2.ch = d1.ch /\ d2.ring = d1.ring
  <2>1. Delivers(d2, d1, "thru", Keyboard, e)
    BY <1>3, <1>5, DeliverIs
  <2> QED
    BY <2>1 DEF Delivers
<1>11. \A s1 \in Slots, t \in Stamps : d2.heard[s1][t] = d1.heard[s1][t]
  BY <1>3, <1>4, <1>5, DeliverCounts
<1>12. /\ HeldIn(d2.active, "thru", ThruHolds(down', Pressed(played, e)))
       /\ Voiced(d2.active, d2.sounding)
       /\ Plain(d1.active) => Plain(d2.active)
  <2>1. e.key \notin down' \/ Plain(d1.active)
    BY <1>7, <1>8
  <2> QED
    BY <1>2, <1>3, <1>5, <1>8, <1>9, <2>1, ThruHearsNote
<1>13. HeldIn(d2.active, "chan", ChanHolds(q, down', Pressed(played, e)))
  <2> DEFINE G == ChanHolds(q, down', Pressed(played, e))
  <2>1. HeldIn(d1.active, "chan", G)
    BY <1>8
  <2> HIDE DEF G
  <2>2. HeldIn(d2.active, "chan", G)
    BY <1>3, <1>5, <2>1, DeliverElsewhere
  <2> QED
    BY <2>2 DEF G
<1> HIDE DEF d2
<1>14. Placed(d2)
  BY <1>2, <1>5, <1>10, PlacedKept
<1>15. Heard(d2.heard, stamp', EchoesHeard')
  <2>1. EchoesHeard' = IF overtake THEN stamp - Len(awaited) ELSE stamp'
    BY DEF EchoesHeard
  <2>2. Heard(c.heard, stamp', EchoesHeard')
    BY <2>1 DEF Between
  <2> QED
    BY <2>2, <1>3, <1>6, <1>11 DEF Heard
<1> QED
  BY <1>1, <1>7, <1>8, <1>12, <1>13, <1>14, <1>15 DEF After

-----------------------------------------------------------------------------
(* A frame.                                                                *)

LEMMA TailAppended ==
  ASSUME NEW q \in Seq(Events), q # <<>>, NEW e \in Events
  PROVE  Append(Tail(q), e) = Tail(Append(q, e))
<1> DEFINE a == Append(Tail(q), e)
           b == Tail(Append(q, e))
<1>1. Len(q) \in Nat \ {0}
  BY EmptySeq
<1>2. /\ Tail(q) \in Seq(Events) /\ Len(Tail(q)) = Len(q) - 1
      /\ \A i \in 1 .. Len(Tail(q)) : Tail(q)[i] = q[i + 1]
  BY HeadTailProperties
<1>3. /\ a \in Seq(Events) /\ Len(a) = Len(q)
      /\ \A i \in 1 .. Len(q) - 1 : a[i] = q[i + 1]
      /\ a[Len(q)] = e
  <2>1. /\ a \in Seq(Events) /\ Len(a) = Len(Tail(q)) + 1
        /\ \A i \in 1 .. Len(Tail(q)) : a[i] = Tail(q)[i]
        /\ a[Len(Tail(q)) + 1] = e
    BY <1>2, AppendProperties
  <2> HIDE DEF a
  <2>2. (Len(q) - 1) + 1 = Len(q)
    BY <1>1
  <2> QED
    BY <1>2, <2>1, <2>2
<1>4. /\ Append(q, e) \in Seq(Events) /\ Len(Append(q, e)) = Len(q) + 1
      /\ \A i \in 1 .. Len(q) : Append(q, e)[i] = q[i]
      /\ Append(q, e)[Len(q) + 1] = e
  BY AppendProperties
<1>5. Append(q, e) # <<>>
  <2>1. Len(Append(q, e)) > 0
    BY <1>1, <1>4
  <2> QED
    BY <2>1, EmptySeq
<1>6. /\ b \in Seq(Events) /\ Len(b) = Len(Append(q, e)) - 1
      /\ \A i \in 1 .. Len(b) : b[i] = Append(q, e)[i + 1]
  BY <1>4, <1>5, HeadTailProperties
<1> HIDE DEF a, b
<1>7. Len(a) = Len(b)
  BY <1>1, <1>3, <1>4, <1>6
<1>8. \A i \in 1 .. Len(a) : a[i] = b[i]
  <2> TAKE i \in 1 .. Len(a)
  <2>1. CASE i = Len(q)
    BY <2>1, <1>1, <1>3, <1>4, <1>6, <1>7
  <2>2. CASE i # Len(q)
    <3>1. i \in 1 .. Len(q) - 1 /\ i + 1 \in 1 .. Len(q)
      BY <2>2, <1>1, <1>3
    <3> QED
      BY <3>1, <1>3, <1>4, <1>6, <1>7
  <2> QED
    BY <2>1, <2>2
<1>9. a = b
  BY <1>3, <1>6, <1>7, <1>8, SeqEqual
<1> QED
  BY <1>9 DEF a, b

(* The queue of the echoes with the new event, and that of the next frame. *)
QueueIs(q, later) ==
  /\ q \in Seq(Events) /\ Alternate(q, down')
  /\ Len(awaited) <= Len(q)
  /\ \A i \in 1 .. Len(q) : /\ i <= Len(awaited) => q[i] = awaited[i].what
                            /\ i > Len(awaited) => q[i].key \in down \cup down'
  /\ Event(later) = Event(awaited) /\ Len(later) = Len(awaited) =>
       /\ Event(awaited') = q
       /\ stamp' - Len(awaited') = stamp - Len(awaited)
  /\ /\ Event(later) = Tail(Event(awaited)) /\ Len(later) = Len(awaited) - 1
     /\ awaited # <<>>
     => /\ Event(awaited') = Tail(q)
        /\ stamp' - Len(awaited') = (stamp - Len(awaited)) + 1

LEMMA QueueNone ==
  ASSUME PlayerInv, NEW later \in Aged(Events),
         awaited' = later, stamp' = stamp, down' = down
  PROVE  QueueIs(Event(awaited), later)
<1>1. /\ awaited \in Aged(Events) /\ stamp \in Nat
      /\ Alternate(Event(awaited), down)
  BY DEF PlayerInv, PlayerTypes
<1>2. Len(awaited) \in Nat /\ Len(later) \in Nat
  BY <1>1, AgedRing
<1>3. /\ Event(awaited) \in Seq(Events) /\ Len(Event(awaited)) = Len(awaited)
      /\ \A i \in 1 .. Len(awaited) : Event(awaited)[i] = awaited[i].what
  BY <1>1, EventIs
<1>4. \A i \in 1 .. Len(Event(awaited)) :
        /\ i <= Len(awaited) => Event(awaited)[i] = awaited[i].what
        /\ i > Len(awaited) => Event(awaited)[i].key \in down \cup down'
  BY <1>2, <1>3
<1>5. Len(later) = Len(awaited) - 1 =>
        stamp' - Len(awaited') = (stamp - Len(awaited)) + 1
  BY <1>1, <1>2
<1>6. Event(awaited') = Event(later) /\ Len(awaited') = Len(later)
  OBVIOUS
<1>7. Event(awaited) \in Seq(Events) /\ Alternate(Event(awaited), down')
  BY <1>1, <1>3
<1>8. Len(awaited) <= Len(Event(awaited))
  BY <1>2, <1>3
<1> QED
  BY <1>4, <1>5, <1>6, <1>7, <1>8 DEF QueueIs

LEMMA QueueOne ==
  ASSUME PlayerInv, NEW later \in Aged(Events), NEW e, IsNew(e),
         awaited' = Append(later, Entry(e)), stamp' = stamp + 1,
         down' = Pressed(down, e)
  PROVE  QueueIs(Append(Event(awaited), e), later)
<1> DEFINE q == Append(Event(awaited), e)
<1>1. /\ awaited \in Aged(Events) /\ stamp \in Nat
      /\ Alternate(Event(awaited), down)
      /\ e \in Events /\ (e.on <=> e.key \notin down)
  BY DEF PlayerInv, PlayerTypes, IsNew
<1>2. Len(awaited) \in Nat /\ Len(later) \in Nat
  BY <1>1, AgedRing
<1>3. /\ Event(awaited) \in Seq(Events) /\ Len(Event(awaited)) = Len(awaited)
      /\ \A i \in 1 .. Len(awaited) : Event(awaited)[i] = awaited[i].what
  BY <1>1, EventIs
<1>4. /\ q \in Seq(Events) /\ Len(q) = Len(awaited) + 1 /\ q[Len(awaited) + 1] = e
      /\ \A i \in 1 .. Len(awaited) : q[i] = awaited[i].what
  BY <1>1, <1>3, AppendProperties
<1>5. Alternate(q, down')
  BY <1>1, <1>3, AppendedEvent
<1>6. /\ Len(awaited') = Len(later) + 1
      /\ Event(awaited') = Append(Event(later), e)
  <2> DEFINE E == [what : Events, age : Nat]
  <2>1. later \in Seq(E) /\ Entry(e) \in E
    BY <1>1 DEF Aged, Entry
  <2> HIDE DEF E
  <2>2. Len(Append(later, Entry(e))) = Len(later) + 1
    BY <2>1, AppendProperties
  <2>3. Event(Append(later, Entry(e))) = Append(Event(later), e)
    BY <1>1, EventAppended
  <2> QED
    BY <2>2, <2>3
<1>7. ASSUME awaited # <<>>
      PROVE  Append(Tail(Event(awaited)), e) = Tail(q)
  <2>1. Event(awaited) # <<>>
    BY <1>1, <1>3, <1>7, EmptySeq DEF Aged
  <2> QED
    BY <2>1, <1>1, <1>3, TailAppended
<1>8. e.key \in down \cup down'
  BY <1>1 DEF Pressed, Events
<1> HIDE DEF q
<1>9. /\ Len(awaited) <= Len(q)
      /\ \A i \in 1 .. Len(q) : /\ i <= Len(awaited) => q[i] = awaited[i].what
                                /\ i > Len(awaited) => q[i].key \in down \cup down'
  <2>1. \A i \in 1 .. Len(q) : i <= Len(awaited) => i \in 1 .. Len(awaited)
    BY <1>2, <1>4
  <2>2. \A i \in 1 .. Len(q) : i > Len(awaited) => i = Len(awaited) + 1
    BY <1>2, <1>4
  <2>3. Len(awaited) <= Len(q)
    BY <1>2, <1>4
  <2> QED
    BY <2>1, <2>2, <2>3, <1>4, <1>8
<1>10. /\ Len(later) = Len(awaited) =>
            stamp' - Len(awaited') = stamp - Len(awaited)
       /\ Len(later) = Len(awaited) - 1 =>
            stamp' - Len(awaited') = (stamp - Len(awaited)) + 1
  <2> DEFINE a == Len(awaited)
             b == Len(awaited')
             l == Len(later)
  <2>1. a \in Nat /\ l \in Nat /\ b = l + 1 /\ stamp \in Nat /\ stamp' = stamp + 1
    BY <1>1, <1>2, <1>6
  <2> HIDE DEF a, b, l
  <2>2. /\ l = a => stamp' - b = stamp - a
        /\ l = a - 1 => stamp' - b = (stamp - a) + 1
    BY <2>1
  <2> QED
    BY <2>2 DEF a, b, l
<1>11. Event(later) = Event(awaited) => Event(awaited') = q
  BY <1>6 DEF q
<1>12. Event(later) = Tail(Event(awaited)) /\ awaited # <<>> =>
         Event(awaited') = Tail(q)
  BY <1>6, <1>7
<1>13. QueueIs(q, later)
  BY <1>4, <1>5, <1>9, <1>10, <1>11, <1>12 DEF QueueIs
<1> QED
  BY <1>13 DEF q

(* No key is held by both players, during the whole frame.                 *)
LEMMA Uncontested ==
  ASSUME awaited \in Aged(Events), awaited' \in Aged(Events),
         ~Contested(down \cup down', awaited \o awaited', played \cup played')
  PROVE  /\ \A k \in down \cup down' : k \notin played \cup played'
         /\ \A i \in 1 .. Len(awaited) :
              awaited[i].what.key \notin played \cup played'
         /\ ~Contested(down', awaited', played')
<1> DEFINE E == [what : Events, age : Nat]
           all == awaited \o awaited'
           n == Len(awaited)
           m == Len(awaited')
<1>1. /\ awaited \in Seq(E) /\ awaited' \in Seq(E) /\ n \in Nat /\ m \in Nat
  BY DEF Aged
<1> HIDE DEF E
<1>2. /\ Len(all) = n + m
      /\ \A i \in 1 .. n + m : all[i] = IF i <= n THEN awaited[i] ELSE awaited'[i - n]
  BY <1>1, ConcatProperties
<1>3. /\ \A k \in down \cup down' : k \notin played \cup played'
      /\ \A i \in 1 .. Len(all) : all[i].what.key \notin played \cup played'
  BY DEF Contested
<1> HIDE DEF all, n, m
<1>4. \A i \in 1 .. n : awaited[i].what.key \notin played \cup played'
  <2> TAKE i \in 1 .. n
  <2>1. i \in 1 .. n + m /\ i <= n
    BY <1>1
  <2> QED
    BY <2>1, <1>2, <1>3
<1>5. \A i \in 1 .. m : awaited'[i].what.key \notin played \cup played'
  <2> TAKE i \in 1 .. m
  <2>1. n + i \in 1 .. n + m /\ ~(n + i <= n) /\ (n + i) - n = i
    BY <1>1
  <2>2. all[n + i] = awaited'[i]
    BY <2>1, <1>2
  <2> QED
    BY <2>1, <2>2, <1>2, <1>3
<1>6. ~Contested(down', awaited', played')
  BY <1>3, <1>5 DEF Contested, m
<1> QED
  BY <1>3, <1>4, <1>6 DEF n

(* The frame's queue, and the invariant between its readers.               *)
LEMMA FrameReads ==
  ASSUME PlayerInv, DispatchInv, awaited' \in Aged(Events),
         NEW left, NEW new, NEW out, NEW later,
         OutDoes(out, later), NewDoes(new, left, later),
         ~Plain(slot_active_note) =>
           ~Contested(down \cup down', awaited \o awaited', played \cup played')
  PROVE  \E q : /\ QueueIs(q, later)
                /\ Between(AfterChannel(Event(left) \o new), q)
<1>1. /\ later \in Aged(Events) /\ left \in Aged(Events)
      /\ Remaining(left, midi_in) /\ awaited \in Aged(Events)
  BY DEF OutDoes, NewDoes, PlayerInv, PlayerTypes
<1>2. CASE /\ new = <<>> /\ midi_in' = left /\ awaited' = later
           /\ stamp' = stamp /\ down' = down
  <2>1. QueueIs(Event(awaited), later)
    BY <1>1, <1>2, QueueNone
  <2>2. Between(AfterChannel(Event(left) \o <<>>), Event(awaited))
    BY <1>1, <1>2, ReadNone
  <2> QED
    BY <2>1, <2>2, <1>2
<1>3. ASSUME NEW e, IsNew(e), new = <<e>>,
             midi_in' = Append(left, Entry(e)), awaited' = Append(later, Entry(e)),
             stamp' = stamp + 1, down' = Pressed(down, e)
      PROVE  \E q : /\ QueueIs(q, later)
                    /\ Between(AfterChannel(Event(left) \o new), q)
  <2>1. QueueIs(Append(Event(awaited), e), later)
    BY <1>1, <1>3, QueueOne
  <2>2. e.key \in down \cup down'
    BY <1>3 DEF IsNew, Pressed, Events
  <2>3. e.key \notin played \/ Plain(slot_active_note)
    BY <1>1, <2>2, Uncontested
  <2>4. Between(AfterChannel(Event(left) \o <<e>>), Append(Event(awaited), e))
    BY <1>1, <1>3, <2>3, ReadOne
  <2> QED
    BY <2>1, <2>4, <1>3
<1> QED
  BY <1>2, <1>3 DEF NewDoes

LEMMA FrameSends ==
  ASSUME PlayerInv, DispatchInv, awaited' \in Aged(Events), overtake' = overtake,
         NEW out, NEW later, NEW c, NEW q, NEW events,
         OutDoes(out, later), QueueIs(q, later), Between(c, q),
         out # <<>> /\ out[1].stamp = Unstamped =>
           ~IsExternalEcho(c, out[1], events),
         ~Plain(slot_active_note) =>
           ~Contested(down \cup down', awaited \o awaited', played \cup played')
  PROVE  After(IF out = <<>> THEN c ELSE OutEvent(c, out[1], events),
               Event(awaited'))
<1>1. /\ later \in Aged(Events) /\ awaited \in Aged(Events)
      /\ stamp \in Nat
  BY DEF OutDoes, PlayerInv, PlayerTypes
<1>2. Len(awaited) \in Nat /\ Len(later) \in Nat
  BY <1>1, AgedRing
<1>3. /\ q \in Seq(Events) /\ Alternate(q, down') /\ Len(awaited) <= Len(q)
      /\ \A i \in 1 .. Len(q) :
           /\ i <= Len(awaited) => q[i] = awaited[i].what
           /\ i > Len(awaited) => q[i].key \in down \cup down'
  BY DEF QueueIs
<1>4. overtake => EchoesHeard' = stamp' - Len(awaited')
  BY DEF EchoesHeard
<1>5. ASSUME Len(later) = Len(awaited), Event(later) = Event(awaited)
      PROVE  Event(awaited') = q /\ (overtake => EchoesHeard' = stamp - Len(awaited))
  BY <1>4, <1>5 DEF QueueIs
<1>6. CASE out = <<>>
  <2>1. /\ Len(later) = Len(awaited) /\ Event(later) = Event(awaited)
        /\ played' = played
    BY <1>6 DEF OutDoes
  <2>2. After(c, q)
    BY <1>5, <2>1, OutNone
  <2> QED
    BY <1>5, <1>6, <2>1, <2>2
<1>7. ASSUME NEW e, out = <<e>>, IsNote(e), played' = Pressed(played, e),
             Len(later) = Len(awaited), Event(later) = Event(awaited)
      PROVE  After(IF out = <<>> THEN c ELSE OutEvent(c, out[1], events),
                   Event(awaited'))
  <2>1. out # <<>> /\ out[1] = e
    BY <1>7
  <2>2. ~IsExternalEcho(c, e, events)
    BY <1>7, <2>1 DEF IsNote
  <2>3. e.key \in played \cup played'
    BY <1>7 DEF IsNote, Pressed
  <2>4. ASSUME ~Plain(slot_active_note)
        PROVE  e.key \notin down' /\ \A i \in 1 .. Len(q) : q[i].key # e.key
    <3>1. /\ \A k \in down \cup down' : k \notin played \cup played'
          /\ \A i \in 1 .. Len(awaited) :
               awaited[i].what.key \notin played \cup played'
      BY <1>1, <2>4, Uncontested
    <3>2. ASSUME NEW i \in 1 .. Len(q) PROVE q[i].key # e.key
      <4>1. CASE i <= Len(awaited)
        <5>1. i \in 1 .. Len(awaited) /\ q[i] = awaited[i].what
          BY <4>1, <1>2, <1>3
        <5> QED
          BY <5>1, <3>1, <2>3
      <4>2. CASE i > Len(awaited)
        BY <4>2, <3>1, <2>3, <1>3
      <4> QED
        BY <4>1, <4>2, <1>2, <1>3
    <3> QED
      BY <3>1, <3>2, <2>3
  <2>5. overtake => EchoesHeard' = stamp - Len(awaited)
    BY <1>5, <1>7
  <2>6. After(OutEvent(c, e, events), q)
    BY <1>7, <2>2, <2>4, <2>5, OutNote
  <2> QED
    BY <1>5, <1>7, <2>1, <2>6
<1>8. ASSUME NEW e, out = <<e>>, IsEcho(e), played' = played,
             Len(later) = Len(awaited) - 1, Event(later) = Tail(Event(awaited))
      PROVE  After(IF out = <<>> THEN c ELSE OutEvent(c, out[1], events),
                   Event(awaited'))
  <2>1. out # <<>> /\ out[1] = e
    BY <1>8
  <2>2. awaited # <<>> /\ 1 \in 1 .. Len(awaited)
    BY <1>1, <1>8, EmptySeq DEF IsEcho, Aged
  <2>3. /\ Event(awaited') = Tail(q)
        /\ overtake => EchoesHeard' = (stamp - Len(awaited)) + 1
    BY <1>4, <1>8, <2>2 DEF QueueIs
  <2>4. q # <<>> /\ q[1] = awaited[1].what
    <3>1. 1 \in 1 .. Len(q) /\ 1 <= Len(awaited)
      BY <1>2, <1>3, <2>2
    <3> QED
      BY <3>1, <1>3, EmptySeq
  <2>5. e.key \notin played \/ Plain(slot_active_note)
    <3>1. e.key = awaited[1].what.key
      BY <1>8 DEF IsEcho
    <3> QED
      BY <3>1, <2>2, <1>1, Uncontested
  <2>6. After(OutEvent(c, e, events), Tail(q))
    BY <1>3, <1>8, <2>3, <2>4, <2>5, OutEcho
  <2> QED
    BY <2>1, <2>3, <2>6
<1> QED
  BY <1>6, <1>7, <1>8 DEF OutDoes

LEMMA DispatchFrame ==
  ASSUME PlayerInv, ~muddled => DispatchInv, Frame, ~muddled'
  PROVE  DispatchInv'
<1>1. PICK left, new, out, later :
        /\ OutDoes(out, later) /\ NewDoes(new, left, later)
        /\ Dispatch(Event(left) \o new, out)
        /\ UNCHANGED <<transpose, overtake, forward_channel, settings>>
  BY FrameIs
<1> DEFINE events == Event(left) \o new
           c == AfterChannel(events)
           d == IF out = <<>> THEN c ELSE OutEvent(c, out[1], events)
<1>2. /\ g_thru_dedup' = d.thru /\ g_ch_dedup' = d.ch
      /\ g_dispatched_ext_ring' = d.ring /\ slot_active_note' = d.active
      /\ sounding' = d.sounding /\ heard' = d.heard
      /\ ~muddled
      /\ out # <<>> /\ out[1].stamp = Unstamped =>
           ~IsExternalEcho(c, out[1], events)
      /\ settings > 0 =>
           ~Contested(down \cup down', awaited \o awaited', played \cup played')
  BY <1>1 DEF Dispatch, AfterChannel, AfterDirect, AgedState
<1> HIDE DEF events, c
<1>3. DispatchInv /\ PlayerInv' /\ settings \in Nat
  BY <1>2, PlayerFrame DEF PlayerInv, PlayerTypes
<1>4. settings = 0 => Plain(slot_active_note)
  BY <1>3 DEF DispatchInv, VoiceInv
<1>5. ~Plain(slot_active_note) =>
        ~Contested(down \cup down', awaited \o awaited', played \cup played')
  BY <1>2, <1>3, <1>4
<1>6. awaited' \in Aged(Events) /\ awaited \in Aged(Events)
  BY <1>3 DEF PlayerInv, PlayerTypes
<1>7. PICK q : QueueIs(q, later) /\ Between(c, q)
  BY <1>1, <1>3, <1>5, <1>6, FrameReads DEF c, events
<1>8. After(d, Event(awaited'))
  BY <1>1, <1>2, <1>3, <1>5, <1>6, <1>7, FrameSends
<1> HIDE DEF d
<1>9. /\ Placed(d) /\ d \in States
      /\ Heard(d.heard, stamp', EchoesHeard')
      /\ HeldIn(d.active, "thru", ThruHolds(down', played'))
      /\ HeldIn(d.active, "chan", ChanHolds(Event(awaited'), down', played'))
      /\ Voiced(d.active, d.sounding)
      /\ Plain(slot_active_note) => Plain(d.active)
  BY <1>8 DEF After, Placed
<1>10. DispatchTypes' /\ PlaceInv'
  BY <1>1, <1>2, <1>9 DEF Placed, States, DispatchTypes, PlaceInv
<1>11. HeardInv'
  BY <1>2, <1>9 DEF HeardInv
<1>12. VoiceInv'
  <2>1. Plain(d.active) => Plain(slot_active_note)'
    BY <1>1, <1>2 DEF Plain
  <2>2. settings' = 0 \/ Contested(down', awaited', played') =>
          Plain(slot_active_note)
    BY <1>1, <1>4, <1>5, <1>6, Uncontested
  <2>3. ChanHolds(Event(awaited'), down', played')
          = ChanHolds(Event(awaited), down, played)'
    BY <1>1 DEF ChanHolds, ThruHolds
  <2> QED
    BY <1>2, <1>9, <2>1, <2>2, <2>3 DEF VoiceInv, HeldIn, Voiced, ThruHolds
<1> QED
  BY <1>10, <1>11, <1>12 DEF DispatchInv

-----------------------------------------------------------------------------
(* The invariant.                                                          *)

LEMMA InitInv ==
  ASSUME Init
  PROVE  Inv
<1>1. /\ MaxEvents \in Nat /\ Burst \in Nat /\ EchoAge \in Nat /\ DedupSize \in Nat
      /\ RingSize \in Nat /\ 0 \in Transposes
  BY DispatchAssumption
<1>2. /\ midi_in = <<>> /\ awaited = <<>> /\ down = {} /\ played = {}
      /\ stamp = 0 /\ settings = 0 /\ muddled = FALSE
      /\ overtake \in BOOLEAN /\ forward_channel \in Forwards
      /\ transpose = [s \in Slots |-> 0]
      /\ g_thru_dedup = <<>> /\ g_ch_dedup = <<>> /\ g_dispatched_ext_ring = <<>>
      /\ slot_active_note =
           [s \in Slots |-> [c \in Channels |-> [k \in Keys |-> Free]]]
      /\ sounding = [s \in Slots |-> {}]
      /\ heard = [s \in Slots |-> [t \in Stamps |-> 0]]
  BY DEF Init
<1>3. \A W : <<>> \in Aged(W)
  BY DEF Aged
<1>4. Len(<<>>) = 0 /\ Len(Event(<<>>)) = 0
  BY DEF Event
<1>5. PlayerInv
  <2>1. PlayerTypes
    <3>1. midi_in \in Aged(Events) /\ awaited \in Aged(Events)
      BY <1>2, <1>3
    <3>2. transpose \in [Slots -> Transposes]
      BY <1>1, <1>2
    <3>3. stamp \in 0 .. MaxEvents /\ settings \in Nat
      BY <1>1, <1>2
    <3>4. /\ overtake \in BOOLEAN /\ forward_channel \in Forwards
          /\ down \subseteq Keys /\ played \subseteq Keys /\ muddled \in BOOLEAN
      BY <1>2
    <3> QED
      BY <3>1, <3>2, <3>3, <3>4 DEF PlayerTypes
  <2>2. Alternate(Event(awaited), down)
    BY <1>2, <1>4 DEF Alternate
  <2> QED
    BY <2>1, <2>2, <1>1, <1>2, <1>4 DEF PlayerInv
<1>6. DispatchTypes
  <2>1. slot_active_note \in Tracker /\ sounding \in Synths /\ heard \in Counts
    BY <1>2 DEF Tracker, Synths, Counts
  <2> QED
    BY <2>1, <1>1, <1>2, <1>3, <1>4 DEF DispatchTypes
<1>7. PlaceInv
  BY <1>2, <1>4 DEF PlaceInv, OnePerFrame, KnowsEvents, KnowsAwaited
<1>8. HeardInv
  <2>1. EchoesHeard = 0
    <3>1. stamp = 0 /\ Len(awaited) = 0
      BY <1>2, <1>4
    <3>2. stamp - Len(awaited) = 0
      BY <3>1
    <3> QED
      BY <3>1, <3>2 DEF EchoesHeard
  <2>2. \A t \in Stamps : ~(t <= 0)
    BY StampsAreNumbers
  <2>3. \A s \in Slots, t \in Stamps : heard[s][t] = 0
    BY <1>2
  <2> QED
    BY <2>1, <2>2, <2>3, <1>2 DEF HeardInv, Heard, Slots
<1>9. VoiceInv
  <2>1. \A s \in Slots, c \in Channels, k \in Keys : slot_active_note[s][c][k] = Free
    BY <1>2
  <2>2. "thru" \in Slots /\ "chan" \in Slots
    BY DEF Slots
  <2>3. /\ HeldIn(slot_active_note, "thru", ThruHolds(down, played))
        /\ HeldIn(slot_active_note, "chan", ChanHolds(Event(awaited), down, played))
    BY <2>1, <2>2 DEF HeldIn
  <2>4. Voiced(slot_active_note, sounding)
    BY <1>2 DEF Voiced
  <2>5. Plain(slot_active_note)
    BY <1>2, <2>1 DEF Plain
  <2> QED
    BY <2>3, <2>4, <2>5 DEF VoiceInv
<1> QED
  BY <1>5, <1>6, <1>7, <1>8, <1>9 DEF Inv, DispatchInv

LEMMA SetTransposeInv ==
  ASSUME Inv, NEW s \in Slots, NEW t \in Transposes, SetTranspose(s, t)
  PROVE  Inv'
<1>1. /\ UNCHANGED <<overtake, forward_channel, midi_in, awaited, down, played,
                     stamp, plays>>
      /\ UNCHANGED <<g_thru_dedup, g_ch_dedup, g_dispatched_ext_ring,
                     slot_active_note, sounding, heard>>
      /\ settings' = settings + 1
      /\ transpose' = [transpose EXCEPT ![s] = t]
      /\ muddled' = (muddled \/ Contested(down, awaited, played))
  BY DEF SetTranspose, dispatchVars
<1>2. PlayerInv
  BY DEF Inv
<1>3. PlayerTypes'
  BY <1>1, <1>2 DEF PlayerInv, PlayerTypes
<1>4. PlayerInv'
  <2>1. Alternate(Event(awaited), down)' = Alternate(Event(awaited), down)
    BY <1>1 DEF Alternate, Event
  <2> QED
    BY <2>1, <1>1, <1>2, <1>3 DEF PlayerInv
<1>5. ASSUME ~muddled' PROVE DispatchInv'
  <2>1. DispatchInv /\ ~Contested(down, awaited, played)
    BY <1>1, <1>5 DEF Inv
  <2>2. settings' # 0
    BY <1>1, <1>2 DEF PlayerInv, PlayerTypes
  <2>3. DispatchTypes' /\ PlaceInv' /\ HeardInv'
    BY <2>1, <1>1 DEF DispatchInv, DispatchTypes, PlaceInv, HeardInv, EchoesHeard
  <2>4. /\ ChanHolds(Event(awaited), down, played)'
             = ChanHolds(Event(awaited), down, played)
        /\ Contested(down, awaited, played)' = Contested(down, awaited, played)
    BY <1>1 DEF ChanHolds, Event, Contested
  <2>5. VoiceInv'
    BY <2>1, <2>2, <2>4, <1>1 DEF DispatchInv, VoiceInv, HeldIn, Voiced, ThruHolds
  <2> QED
    BY <2>3, <2>5 DEF DispatchInv
<1> QED
  BY <1>4, <1>5 DEF Inv

LEMMA SwitchModeInv ==
  ASSUME Inv, SwitchMode
  PROVE  Inv'
<1>1. /\ UNCHANGED <<transpose, forward_channel, midi_in, awaited, down, played,
                     stamp, plays>>
      /\ UNCHANGED <<g_thru_dedup, g_ch_dedup, g_dispatched_ext_ring,
                     slot_active_note, sounding, heard>>
      /\ settings' = settings + 1 /\ overtake' = ~overtake
      /\ muddled' = (muddled \/ awaited # <<>> \/ midi_in # <<>>
                             \/ (down # {} /\ forward_channel # Keyboard))
  BY DEF SwitchMode, dispatchVars
<1>2. PlayerInv
  BY DEF Inv
<1>3. PlayerTypes'
  BY <1>1, <1>2 DEF PlayerInv, PlayerTypes
<1>4. PlayerInv'
  <2>1. Alternate(Event(awaited), down)' = Alternate(Event(awaited), down)
    BY <1>1 DEF Alternate, Event
  <2> QED
    BY <2>1, <1>1, <1>2, <1>3 DEF PlayerInv
<1>5. ASSUME ~muddled' PROVE DispatchInv'
  <2>1. /\ DispatchInv /\ awaited = <<>> /\ midi_in = <<>>
        /\ down = {} \/ forward_channel = Keyboard
    BY <1>1, <1>5 DEF Inv
  <2>2. settings' # 0 /\ stamp \in Nat /\ overtake \in BOOLEAN
    BY <1>1, <1>2 DEF PlayerInv, PlayerTypes
  <2>3. Len(midi_in) = 0 /\ Len(awaited) = 0 /\ Len(Event(awaited)) = 0
    BY <2>1 DEF Event
  <2>4. DispatchTypes'
    BY <2>1, <1>1 DEF DispatchInv, DispatchTypes
  <2>5. PlaceInv'
    <3>1. KnowsEvents(g_ch_dedup, midi_in)
      BY <2>3 DEF KnowsEvents
    <3> QED
      BY <3>1, <2>1, <1>1 DEF DispatchInv, PlaceInv
  <2>6. HeardInv'
    <3>1. EchoesHeard = stamp
      BY <2>2, <2>3 DEF EchoesHeard
    <3>2. EchoesHeard' = stamp
      BY <1>1, <2>2, <2>3 DEF EchoesHeard
    <3> QED
      BY <3>1, <3>2, <2>1, <1>1 DEF DispatchInv, HeardInv
  <2>7. VoiceInv'
    <3>1. \A k : EchoedDown(Event(awaited), down, k) <=> k \in down
      BY <2>3 DEF EchoedDown
    <3>2. ChanHolds(Event(awaited), down, played) =
            ({forward_channel} \X played) \cup ({Keyboard} \X down)
      <4>1. down \subseteq Keys
        BY <1>2 DEF PlayerInv, PlayerTypes
      <4> QED
        BY <3>1, <2>1, <4>1 DEF ChanHolds
    <3>3. ChanHolds(Event(awaited), down, played)' =
            ({forward_channel} \X played) \cup ({Keyboard} \X down)
      <4>1. down \subseteq Keys
        BY <1>2 DEF PlayerInv, PlayerTypes
      <4>2. Event(awaited)' = Event(awaited)
        BY <1>1 DEF Event
      <4>3. \A k : EchoedDown(Event(awaited)', down, k) <=> k \in down
        BY <3>1, <4>2
      <4> QED
        BY <4>1, <4>3, <1>1, <2>1 DEF ChanHolds
    <3>4. Contested(down, awaited, played)' = Contested(down, awaited, played)
      BY <1>1 DEF Contested
    <3>5. Plain(slot_active_note)' = Plain(slot_active_note)
      BY <1>1 DEF Plain
    <3> QED
      BY <2>1, <2>2, <3>2, <3>3, <3>4, <3>5, <1>1
         DEF DispatchInv, VoiceInv, HeldIn, Voiced, ThruHolds
  <2> QED
    BY <2>4, <2>5, <2>6, <2>7 DEF DispatchInv
<1> QED
  BY <1>4, <1>5 DEF Inv

LEMMA StutterInv ==
  ASSUME Inv, UNCHANGED vars
  PROVE  Inv'
<1>1. /\ UNCHANGED <<g_thru_dedup, g_ch_dedup, g_dispatched_ext_ring,
                     slot_active_note, sounding, heard>>
      /\ UNCHANGED <<midi_in, awaited, down, played, stamp, muddled>>
      /\ UNCHANGED <<transpose, overtake, forward_channel, settings>>
  BY DEF vars, dispatchVars, playerVars
<1>2. Event(awaited)' = Event(awaited)
  BY <1>1 DEF Event
<1>3. PlayerInv'
  <2>1. PlayerTypes'
    BY <1>1 DEF Inv, PlayerInv, PlayerTypes
  <2>2. Alternate(Event(awaited), down)'
    BY <1>1, <1>2 DEF Inv, PlayerInv, Alternate
  <2> QED
    BY <1>1, <2>1, <2>2 DEF Inv, PlayerInv
<1>4. ASSUME DispatchInv
      PROVE  DispatchInv'
  <2>1. DispatchTypes'
    BY <1>1, <1>4 DEF DispatchInv, DispatchTypes
  <2>2. PlaceInv'
    BY <1>1, <1>4 DEF DispatchInv, PlaceInv
  <2>3. HeardInv'
    <3>1. EchoesHeard' = EchoesHeard
      BY <1>1 DEF EchoesHeard
    <3> QED
      BY <1>1, <1>4, <3>1 DEF DispatchInv, HeardInv
  <2>4. VoiceInv'
    <3>1. ChanHolds(Event(awaited), down, played)'
            = ChanHolds(Event(awaited), down, played)
      BY <1>1, <1>2 DEF ChanHolds
    <3>2. Contested(down, awaited, played)' <=> Contested(down, awaited, played)
      BY <1>1 DEF Contested
    <3>3. Plain(slot_active_note)' <=> Plain(slot_active_note)
      BY <1>1 DEF Plain
    <3> QED
      BY <1>1, <1>4, <3>1, <3>2, <3>3
         DEF DispatchInv, VoiceInv, HeldIn, Voiced, ThruHolds
  <2> QED
    BY <2>1, <2>2, <2>3, <2>4 DEF DispatchInv
<1> QED
  BY <1>1, <1>3, <1>4 DEF Inv

(* The invariant holds in every state.                                     *)
THEOREM InvAlways == Spec => []Inv
<1>1. Init => Inv
  BY InitInv
<1>2. Inv /\ [Next]_vars => Inv'
  <2> SUFFICES ASSUME Inv, [Next]_vars PROVE Inv'
    OBVIOUS
  <2>1. CASE Frame
    BY <2>1, PlayerFrame, DispatchFrame DEF Inv
  <2>2. CASE \E s \in Slots, t \in Transposes : SetTranspose(s, t)
    BY <2>2, SetTransposeInv
  <2>3. CASE SwitchMode
    BY <2>3, SwitchModeInv
  <2>4. CASE UNCHANGED vars
    BY <2>4, StutterInv
  <2> QED
    BY <2>1, <2>2, <2>3, <2>4 DEF Next
<1> QED
  BY <1>1, <1>2, PTL DEF Spec

-----------------------------------------------------------------------------
(* The properties of the runs.                                             *)

(* NeverTwice: a slot is sent an event of the keyboard once at most,       *)
(* however long MIDI_IN and the echo keep it.                              *)
THEOREM NeverTwiceEver == Spec => []NeverTwice
<1>1. Inv => NeverTwice
  <2> SUFFICES ASSUME Inv, ~muddled, NEW s \in Slots, NEW t \in Stamps
               PROVE  heard[s][t] <= 1
    BY DEF NeverTwice
  <2>1. Heard(heard, stamp, EchoesHeard) /\ stamp \in Nat /\ awaited \in Aged(Events)
    BY DEF Inv, DispatchInv, HeardInv, PlayerInv, PlayerTypes
  <2>2. t \in Nat /\ EchoesHeard \in Int
    BY <2>1, StampsAreNumbers, AgedRing DEF EchoesHeard
  <2> QED
    BY <2>1, <2>2 DEF Heard, Slots
<1> QED
  BY <1>1, InvAlways, PTL

(* NeverMissed: when Move has echoed an event, every slot has heard it.    *)
THEOREM NeverMissedEver == Spec => []NeverMissed
<1>1. Inv => NeverMissed
  <2> SUFFICES ASSUME Inv, ~muddled, NEW s \in Slots, NEW t \in Stamps, t <= stamp,
                      \A i \in 1 .. Len(awaited) : awaited[i].what.stamp # t
               PROVE  heard[s][t] >= 1
    BY DEF NeverMissed
  <2>1. /\ Heard(heard, stamp, EchoesHeard) /\ stamp \in Nat
        /\ awaited \in Aged(Events) /\ overtake \in BOOLEAN
        /\ \A i \in 1 .. Len(awaited) :
             awaited[i].what.stamp = stamp - Len(awaited) + i
    BY DEF Inv, DispatchInv, HeardInv, PlayerInv, PlayerTypes
  <2>2. t \in Nat /\ Len(awaited) \in Nat
    BY <2>1, StampsAreNumbers, AgedRing
  <2>3. t <= stamp - Len(awaited)
    <3> SUFFICES ASSUME t > stamp - Len(awaited) PROVE FALSE
      BY <2>1, <2>2
    <3> DEFINE i == t - (stamp - Len(awaited))
    <3>1. i \in 1 .. Len(awaited) /\ stamp - Len(awaited) + i = t
      BY <2>1, <2>2
    <3> HIDE DEF i
    <3> QED
      BY <3>1, <2>1
  <2>4. t <= EchoesHeard
    BY <2>1, <2>3 DEF EchoesHeard
  <2> QED
    BY <2>1, <2>4 DEF Heard, Slots
<1> QED
  BY <1>1, InvAlways, PTL

(* NoVoiceHangs: with all keys up and all echoes in, all is silent.        *)
THEOREM NoVoiceEverHangs == Spec => []NoVoiceHangs
<1>1. Inv => NoVoiceHangs
  <2> SUFFICES ASSUME Inv, down = {}, played = {}, awaited = <<>>, ~muddled,
                      NEW s \in Slots, NEW v \in sounding[s]
               PROVE  FALSE
    BY DEF NoVoiceHangs
  <2>1. /\ HeldIn(slot_active_note, "thru", ThruHolds({}, {}))
        /\ HeldIn(slot_active_note, "chan", ChanHolds(Event(<<>>), {}, {}))
        /\ Voiced(slot_active_note, sounding)
        /\ sounding \in Synths
    BY DEF Inv, DispatchInv, VoiceInv, DispatchTypes
  <2>2. Len(Event(<<>>)) = 0
    BY DEF Event
  <2>3. ThruHolds({}, {}) = {}
    BY DEF ThruHolds
  <2>4. ChanHolds(Event(<<>>), {}, {}) = {}
    <3>1. \A k : ~EchoedDown(Event(<<>>), {}, k)
      BY <2>2 DEF EchoedDown
    <3> QED
      BY <3>1 DEF ChanHolds
  <2>5. \A c \in Channels, k \in Keys : slot_active_note[s][c][k] = Free
    BY <2>1, <2>3, <2>4 DEF HeldIn, Slots
  <2>6. PICK c \in Channels, n \in Pitches : v = <<c, n>>
    BY <2>1 DEF Synths
  <2>7. Free \notin Pitches
    BY DispatchAssumption DEF Free, Pitches
  <2> QED
    BY <2>1, <2>5, <2>6, <2>7 DEF Voiced
<1> QED
  BY <1>1, InvAlways, PTL

=============================================================================
