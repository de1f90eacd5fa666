--------------------------- MODULE LedQueueProofs ---------------------------
(***************************************************************************)
(* The LEDs of the device (LedQueue) for any number of LEDs, slots of      *)
(* MIDI_OUT, colours and tools: after a session an LED shows what Move     *)
(* last sent for it, and in a session what the tool asked for last.        *)
(*                                                                         *)
(* Both follow a colour from where it is sent to the LED.  LedInv says at  *)
(* which of its places it is: in a packet of this frame, in the shim's     *)
(* record of Move's colours, in the snapshot, in the queue of the UI, in   *)
(* the array of pending colours, or on the LED.  The two loops of a frame  *)
(* are recursive functions; what they do is an invariant of their turns.   *)
(***************************************************************************)
EXTENDS LedQueue, WellFoundedInduction, TLAPS

(* A set of numbers has a least one. *)
LEMMA LeastNumber ==
  ASSUME NEW T \in SUBSET Nat, T # {}
  PROVE  \E x \in T : \A y \in T : x <= y
<1> DEFINE R == OpToRel(<, Nat)
<1>1. IsWellFoundedOn(R, Nat)
  BY NatLessThanWellFounded, Zenon
<1>2. \E x \in T : \A y \in T : ~ (<<y, x>> \in R)
  BY <1>1, WFMin, Zenon
<1>3. \A x, y \in Nat : y < x => <<y, x>> \in R
  BY DEF OpToRel
<1> HIDE DEF R
<1>4. PICK x \in T : \A y \in T : ~ (<<y, x>> \in R)
  BY <1>2, Zenon
<1>5. ASSUME NEW y \in T PROVE x <= y
  <2>1. x \in Nat /\ y \in Nat
    OBVIOUS
  <2>2. ~(y < x)
    BY <2>1, <1>3, <1>4, Zenon
  <2> QED
    BY <2>1, <2>2
<1> QED
  BY <1>5

(* Induction over a set of numbers. *)
LEMMA EveryNumber ==
  ASSUME NEW T, 0 \in T, \A n \in Nat : n \in T => n + 1 \in T
  PROVE  Nat \subseteq T
<1> DEFINE C == Nat \ T
<1> SUFFICES ASSUME C # {} PROVE FALSE
  OBVIOUS
<1>1. PICK x \in C : \A y \in C : x <= y
  BY LeastNumber
<1>2. x # 0 /\ x - 1 \in Nat /\ x - 1 \in T
  BY <1>1
<1> QED
  BY <1>1, <1>2

-----------------------------------------------------------------------------
(* Loops. What holds before the first turn and is kept by each turn holds    *)
(* after every turn; and a loop whose turns are functions has a result.      *)

LEMMA EveryTurn ==
  ASSUME NEW N \in Nat, NEW f, NEW G, f[0] \in G[0],
         \A n \in 1 .. N : f[n - 1] \in G[n - 1] => f[n] \in G[n]
  PROVE  \A n \in 0 .. N : f[n] \in G[n]
<1> DEFINE T == {n \in Nat : n <= N => f[n] \in G[n]}
<1>1. 0 \in T
  OBVIOUS
<1>2. ASSUME NEW n \in Nat, n \in T PROVE n + 1 \in T
  <2>1. CASE n + 1 <= N
    <3>1. n + 1 \in 1 .. N /\ (n + 1) - 1 = n /\ n <= N
      BY <2>1
    <3>2. f[n] \in G[n]
      BY <3>1, <1>2
    <3>3. f[n + 1] \in G[n + 1]
      BY <3>1, <3>2
    <3> QED
      BY <3>3
  <2>2. CASE ~(n + 1 <= N)
    BY <2>2
  <2> QED
    BY <2>1, <2>2
<1> HIDE DEF T
<1>3. Nat \subseteq T
  BY <1>1, <1>2, EveryNumber
<1> QED
  BY <1>3 DEF T

Turns(N, A) == [1 .. N -> [A -> A]]

(* g is the result of a loop of N turns that begins with b and whose turn  *)
(* n applies F[n].                                                         *)
Runs(N, A, b, F, g) ==
  /\ g \in [0 .. N -> A]
  /\ g[0] = b
  /\ \A n \in 1 .. N : g[n] = F[n][g[n - 1]]

(* Such a loop has a result: what a recursive function of the model needs  *)
(* so that its equation may be used.                                       *)
LEMMA TurnsExist ==
  ASSUME NEW N \in Nat, NEW A, NEW b \in A, NEW F \in Turns(N, A)
  PROVE  \E g : Runs(N, A, b, F, g)
<1> USE DEF Turns, Runs
<1> DEFINE Upto(k) == \E g \in [0 .. k -> A] :
                        g[0] = b /\ \A n \in 1 .. k : g[n] = F[n][g[n - 1]]
           T == {k \in Nat : k <= N => Upto(k)}
<1>1. 0 \in T
  <2> DEFINE h == [n \in 0 .. 0 |-> b]
  <2>1. h \in [0 .. 0 -> A] /\ h[0] = b
    OBVIOUS
  <2>3. \A n \in 1 .. 0 : h[n] = F[n][h[n - 1]]
    OBVIOUS
  <2> HIDE DEF h
  <2>2. Upto(0)
    BY <2>1, <2>3
  <2> QED
    BY <2>2
<1>2. ASSUME NEW k \in Nat, k \in T PROVE k + 1 \in T
  <2> SUFFICES ASSUME k + 1 <= N PROVE Upto(k + 1)
    OBVIOUS
  <2>1. Upto(k)
    BY <1>2
  <2>2. PICK g \in [0 .. k -> A] :
          g[0] = b /\ \A n \in 1 .. k : g[n] = F[n][g[n - 1]]
    BY <2>1
  <2> DEFINE h == [n \in 0 .. k + 1 |-> IF n = k + 1 THEN F[k + 1][g[k]] ELSE g[n]]
  <2>3. k + 1 \in 1 .. N /\ k \in 0 .. k
    OBVIOUS
  <2>4. F[k + 1][g[k]] \in A
    BY <2>2, <2>3
  <2>5. h \in [0 .. k + 1 -> A]
    BY <2>2, <2>4
  <2>6. h[0] = b
    BY <2>2
  <2>7. ASSUME NEW n \in 1 .. k + 1 PROVE h[n] = F[n][h[n - 1]]
    <3>1. n - 1 \in 0 .. k + 1 /\ n - 1 # k + 1 /\ n - 1 <= k /\ n \in 0 .. k + 1
      BY <2>7
    <3>2. h[n - 1] = g[n - 1]
      BY <3>1
    <3>3. CASE n = k + 1
      <4>1. h[n] = F[k + 1][g[k]] /\ n - 1 = k
        BY <3>1, <3>3
      <4> QED
        BY <4>1, <3>2, <3>3
    <3>4. CASE n # k + 1
      <4>1. n \in 1 .. k /\ h[n] = g[n]
        BY <3>1, <3>4
      <4> QED
        BY <4>1, <3>2, <2>2
    <3> QED
      BY <3>3, <3>4
  <2> HIDE DEF h
  <2> QED
    BY <2>5, <2>6, <2>7
<1> HIDE DEF T
<1>3. Nat \subseteq T
  BY <1>1, <1>2, EveryNumber
<1>4. N \in T
  BY <1>3
<1> QED
  BY <1>4 DEF T

-----------------------------------------------------------------------------
(* Packets and slots *)

(* A packet is for an LED in one of its colours, or it is the other one. *)
LEMMA PacketFacts ==
  ASSUME NEW p \in Packet \cup {Empty}
  PROVE  /\ IsLed(p) <=> p \in LedPackets
         /\ IsLed(p) => p[1] \in Leds /\ p[2] \in Palette
         /\ p # Empty /\ ~IsLed(p) => p = Other
<1>1. CASE p \in LedPackets
  BY <1>1 DEF LedPackets, Led, IsLed, Empty, Other
<1>2. CASE p = Other
  BY <1>2 DEF LedPackets, Led, IsLed, Empty, Other
<1>3. CASE p = Empty
  BY <1>3 DEF LedPackets, Led, IsLed, Empty, Other
<1> QED
  BY <1>1, <1>2, <1>3 DEF Packet

LEMMA LedFacts ==
  ASSUME NEW l, NEW c
  PROVE  /\ IsLed(Led(l, c)) /\ Led(l, c)[1] = l /\ Led(l, c)[2] = c
         /\ Led(l, c) # Empty /\ ~IsLed(Other) /\ ~IsLed(Empty)
         /\ Other # Empty
  BY DEF Led, IsLed, Empty, Other

(* The first slot of a set of slots is one of them. *)
LEMMA FirstIn ==
  ASSUME NEW S \in SUBSET (1 .. Slots), S # {}
  PROVE  FirstOf(S) \in S
<1>1. S \in SUBSET Nat
  OBVIOUS
<1>2. \E x \in S : \A y \in S : x <= y
  BY <1>1, LeastNumber
<1> QED
  BY <1>2 DEF FirstOf

(* The last slot of a set of slots is one of them. *)
LEMMA LastIn ==
  ASSUME NEW S \in SUBSET (1 .. Slots), S # {}
  PROVE  (CHOOSE s \in S : \A t \in S : t <= s) \in S
<1> USE LedAssumption DEF LedAssumption
<1> DEFINE D == {Slots - s : s \in S}
<1>1. D \in SUBSET Nat /\ D # {}
  <2>1. \A s \in S : Slots - s \in Nat
    OBVIOUS
  <2>2. PICK s \in S : TRUE
    OBVIOUS
  <2>3. Slots - s \in D
    BY <2>2
  <2> QED
    BY <2>1, <2>3
<1>2. PICK x \in D : \A y \in D : x <= y
  BY <1>1, LeastNumber
<1>3. PICK s \in S : x = Slots - s
  OBVIOUS
<1>4. ASSUME NEW t \in S PROVE t <= s
  <2>1. Slots - t \in D
    OBVIOUS
  <2>2. x <= Slots - t
    BY <2>1, <1>2
  <2> QED
    BY <2>2, <1>3
<1>5. \E u \in S : \A t \in S : t <= u
  BY <1>4
<1> QED
  BY <1>5

\* An LED without a packet keeps its colour; if all its packets have the same
\* one, it has that.
ShownWell(old, out, new) ==
  /\ \A l \in Leds : ColoursOf(l, out) = {} => new[l] = old[l]
  /\ \A l \in Leds, c \in Palette :
       ColoursOf(l, out) # {} /\ (\A s \in ColoursOf(l, out) : out[s][2] = c)
         => new[l] = c

LEMMA ShownFacts ==
  ASSUME NEW D, Palette \subseteq D, NEW old \in [Leds -> D], NEW out \in MidiOut
  PROVE  /\ Shown(old, out) \in [Leds -> D]
         /\ ShownWell(old, out, Shown(old, out))
<1>1. ASSUME NEW l \in Leds, ColoursOf(l, out) # {}
      PROVE  /\ Shown(old, out)[l] \in Palette
             /\ \E s \in ColoursOf(l, out) : Shown(old, out)[l] = out[s][2]
  <2> DEFINE s == CHOOSE s \in ColoursOf(l, out) :
                    \A t \in ColoursOf(l, out) : t <= s
  <2>1. ColoursOf(l, out) \in SUBSET (1 .. Slots)
    BY DEF ColoursOf
  <2>2. s \in ColoursOf(l, out)
    BY <2>1, <1>1, LastIn
  <2>3. Shown(old, out)[l] = out[s][2]
    BY <1>1 DEF Shown
  <2>4. out[s][2] \in Palette
    <3>1. s \in 1 .. Slots /\ IsLed(out[s])
      BY <2>2 DEF ColoursOf
    <3>2. out[s] \in Packet \cup {Empty}
      BY <3>1 DEF MidiOut
    <3> QED
      BY <3>1, <3>2, PacketFacts
  <2> QED
    BY <2>2, <2>3, <2>4
<1>2. ASSUME NEW l \in Leds, ColoursOf(l, out) = {}
      PROVE  Shown(old, out)[l] = old[l]
  BY <1>2 DEF Shown
<1>3. Shown(old, out) \in [Leds -> D]
  <2>1. \A l \in Leds : Shown(old, out)[l] \in D
    BY <1>1, <1>2
  <2> QED
    BY <2>1 DEF Shown
<1> QED
  BY <1>1, <1>2, <1>3 DEF ShownWell

-----------------------------------------------------------------------------
(* The loop that takes the packets of the UI's queue. *)

TakeState == [pending : [Leds -> Colours], out : MidiOut,
              full : BOOLEAN, dropped : SUBSET Packet]

(* The loop before its first packet. *)
TakeStart == [pending |-> pending, out |-> midi_out, full |-> FALSE,
              dropped |-> {}]

(* The slot that is taken was free. *)
LEMMA FreeFacts ==
  ASSUME NEW out
  PROVE  /\ FreeSlots(out) \in SUBSET (1 .. Slots)
         /\ FreeSlots(out) # {} =>
              /\ FirstOf(FreeSlots(out)) \in 1 .. Slots
              /\ out[FirstOf(FreeSlots(out))] = Empty
<1>1. FreeSlots(out) \in SUBSET (1 .. Slots)
  BY DEF FreeSlots
<1>2. FreeSlots(out) # {} => FirstOf(FreeSlots(out)) \in FreeSlots(out)
  BY <1>1, FirstIn
<1> QED
  BY <1>1, <1>2 DEF FreeSlots

\* The packets for LEDs keep their slots.
SameLeds(old, out) ==
  \A s \in 1 .. Slots : IsLed(old[s]) \/ IsLed(out[s]) => out[s] = old[s]

LEMMA SameLedsFacts ==
  ASSUME NEW old, NEW out, SameLeds(old, out)
  PROVE  \A l \in Leds :
           /\ ColoursOf(l, out) = ColoursOf(l, old)
           /\ \A s \in ColoursOf(l, old) : out[s] = old[s]
  BY DEF SameLeds, ColoursOf

LEMMA TakeFacts ==
  ASSUME NEW acc \in TakeState, NEW p \in Packet
  PROVE  Take(acc, p) \in TakeState
<1> USE DEF TakeState
<1>1. CASE acc.full
  BY <1>1 DEF Take
<1>2. CASE ~acc.full /\ IsLed(p)
  <2>1. p[1] \in Leds /\ p[2] \in Colours
    BY <1>2, PacketFacts DEF Colours
  <2>2. QueueLed(acc.pending, p) \in [Leds -> Colours]
    BY <2>1 DEF QueueLed
  <2> QED
    BY <1>2, <2>2 DEF Take
<1>3. CASE ~acc.full /\ ~IsLed(p) /\ FreeSlots(acc.out) = {}
  BY <1>3 DEF Take
<1>4. CASE ~acc.full /\ ~IsLed(p) /\ FreeSlots(acc.out) # {}
  <2> DEFINE k == FirstOf(FreeSlots(acc.out))
  <2>1. k \in 1 .. Slots
    BY <1>4, FreeFacts
  <2>2. [acc.out EXCEPT ![k] = p] \in MidiOut
    BY <2>1 DEF MidiOut
  <2> QED
    BY <1>4, <2>2 DEF Take
<1> QED
  BY <1>1, <1>2, <1>3, <1>4

(* The loop of shadow_inject_ui_midi_out, unfolded. *)
LEMMA InjectedTurns ==
  ASSUME LedTypeOK
  PROVE  /\ Injected[0] = TakeStart
         /\ \A n \in 1 .. Len(queue) :
              Injected[n] = Take(Injected[n - 1], queue[n])
         /\ \A n \in 0 .. Len(queue) : Injected[n] \in TakeState
<1> DEFINE N == Len(queue)
           F == [n \in 1 .. N |-> [a \in TakeState |-> Take(a, queue[n])]]
<1>1. N \in Nat /\ \A n \in 1 .. N : queue[n] \in Packet
  BY DEF LedTypeOK
<1>2. TakeStart \in TakeState
  BY DEF LedTypeOK, TakeStart, TakeState
<1>3. F \in Turns(N, TakeState)
  BY <1>1, TakeFacts DEF Turns
<1> HIDE DEF F, N
<1>4. PICK g : Runs(N, TakeState, TakeStart, F, g)
  BY <1>1, <1>2, <1>3, TurnsExist
<1> USE DEF Runs
<1>5. \A n \in 1 .. N : g[n] = Take(g[n - 1], queue[n])
  <2> TAKE n \in 1 .. N
  <2>1. n - 1 \in 0 .. N
    BY <1>1
  <2>2. g[n - 1] \in TakeState
    BY <2>1, <1>4
  <2> QED
    BY <2>2, <1>4 DEF F
<1> DEFINE Step(f) == [n \in 0 .. N |->
                         IF n = 0 THEN TakeStart ELSE Take(f[n - 1], queue[n])]
<1>6. g = Step(g)
  <2>1. \A n \in 0 .. N : g[n] = Step(g)[n]
    BY <1>1, <1>4, <1>5
  <2> QED
    BY <2>1, <1>4
<1> DEFINE f == CHOOSE f : f = Step(f)
<1>7. f = Step(f)
  BY <1>6
<1>8. Injected = f
  BY DEF Injected, TakeStart, N
<1> HIDE DEF f
<1>9. Injected[0] = TakeStart
  BY <1>1, <1>7, <1>8
<1>10. \A n \in 1 .. N : Injected[n] = Take(Injected[n - 1], queue[n])
  BY <1>1, <1>7, <1>8
<1>11. \A n \in 0 .. N : Injected[n] \in TakeState
  <2> DEFINE G == [n \in 0 .. N |-> TakeState]
  <2>1. Injected[0] \in G[0]
    BY <1>1, <1>2, <1>9
  <2>2. ASSUME NEW n \in 1 .. N, Injected[n - 1] \in G[n - 1]
        PROVE  Injected[n] \in G[n]
    <3>1. n - 1 \in 0 .. N /\ n \in 0 .. N
      BY <1>1
    <3>2. Injected[n - 1] \in TakeState
      BY <3>1, <2>2
    <3>3. Take(Injected[n - 1], queue[n]) \in TakeState
      BY <3>2, <1>1, TakeFacts
    <3> QED
      BY <3>1, <3>3, <1>10
  <2> HIDE DEF G
  <2>3. \A n \in 0 .. N : Injected[n] \in G[n]
    BY <1>1, <2>1, <2>2, EveryTurn
  <2> QED
    BY <2>3 DEF G
<1> QED
  BY <1>9, <1>10, <1>11 DEF N

(* p sets the colour of l. *)
About(p, l) == IsLed(p) /\ p[1] = l

\* Packet i is the last one for l among the first n.
LastFor(l, n, i) ==
  /\ i \in 1 .. n
  /\ About(queue[i], l)
  /\ \A j \in 1 .. n : About(queue[j], l) => j <= i

NoneFor(l, n) == \A i \in 1 .. n : ~About(queue[i], l)

(* The loop's invariant: the packets for LEDs stay where they were in      *)
(* MIDI_OUT, and an LED has its last colour pending or is among what was   *)
(* dropped.                                                                *)
TakeInv(n, acc) ==
  /\ SameLeds(midi_out, acc.out)
  /\ ~acc.full => acc.dropped = {}
  /\ \A l \in Leds : NoneFor(l, n) => acc.pending[l] = pending[l]
  /\ \A l \in Leds, i \in 1 .. n :
       LastFor(l, n, i) => \/ acc.pending[l] = queue[i][2]
                           \/ l \in LedsAmong(acc.dropped)

(* How the last packet for an LED is that of a queue longer by one. *)
LEMMA LastForStep ==
  ASSUME NEW n \in Nat, NEW l
  PROVE  /\ NoneFor(l, n + 1) => NoneFor(l, n) /\ ~About(queue[n + 1], l)
         /\ \A i \in 1 .. n + 1 :
              LastFor(l, n + 1, i) =>
                \/ i = n + 1 /\ About(queue[n + 1], l)
                \/ i \in 1 .. n /\ LastFor(l, n, i) /\ ~About(queue[n + 1], l)
<1>1. n + 1 \in 1 .. n + 1 /\ \A i \in 1 .. n : i \in 1 .. n + 1
  OBVIOUS
<1>2. NoneFor(l, n + 1) => NoneFor(l, n) /\ ~About(queue[n + 1], l)
  BY <1>1 DEF NoneFor
<1>3. ASSUME NEW i \in 1 .. n + 1, LastFor(l, n + 1, i)
      PROVE  \/ i = n + 1 /\ About(queue[n + 1], l)
             \/ i \in 1 .. n /\ LastFor(l, n, i) /\ ~About(queue[n + 1], l)
  <2>1. CASE i = n + 1
    BY <2>1, <1>3 DEF LastFor
  <2>2. CASE i # n + 1
    <3>1. i \in 1 .. n
      BY <2>2
    <3>2. ~About(queue[n + 1], l)
      BY <1>1, <3>1, <1>3 DEF LastFor
    <3>3. LastFor(l, n, i)
      BY <1>1, <3>1, <1>3 DEF LastFor
    <3> QED
      BY <3>1, <3>2, <3>3
  <2> QED
    BY <2>1, <2>2
<1> QED
  BY <1>2, <1>3

LEMMA TakeKeeps ==
  ASSUME LedTypeOK, NEW n \in Nat, n + 1 <= Len(queue),
         NEW acc \in TakeState, TakeInv(n, acc)
  PROVE  TakeInv(n + 1, Take(acc, queue[n + 1]))
<1> DEFINE p == queue[n + 1]
           new == Take(acc, p)
<1>0. p \in Packet
  BY DEF LedTypeOK
<1>1. CASE acc.full
  <2>1. /\ new.out = acc.out /\ new.full = acc.full /\ new.pending = acc.pending
        /\ new.dropped = acc.dropped \cup {p}
    BY <1>1 DEF Take, TakeState
  <2>2. /\ \A l \in LedsAmong(acc.dropped) : l \in LedsAmong(new.dropped)
        /\ \A l : About(p, l) => l \in LedsAmong(new.dropped)
    BY <2>1 DEF LedsAmong, About
  <2> HIDE DEF new, p
  <2>3. \A l \in Leds : NoneFor(l, n + 1) => new.pending[l] = pending[l]
    BY <2>1, LastForStep DEF TakeInv
  <2>4. ASSUME NEW l \in Leds, NEW i \in 1 .. n + 1, LastFor(l, n + 1, i)
        PROVE  \/ new.pending[l] = queue[i][2]
               \/ l \in LedsAmong(new.dropped)
    <3>1. CASE i = n + 1 /\ About(queue[n + 1], l)
      BY <3>1, <2>2 DEF p
    <3>2. CASE i \in 1 .. n /\ LastFor(l, n, i)
      BY <3>2, <2>1, <2>2 DEF TakeInv
    <3> QED
      BY <3>1, <3>2, <2>4, LastForStep
  <2> QED
    BY <1>1, <2>1, <2>3, <2>4 DEF TakeInv, new, p
<1>2. CASE ~acc.full /\ IsLed(p)
  <2>1. /\ new.out = acc.out /\ new.full = acc.full
        /\ new.pending = [acc.pending EXCEPT ![p[1]] = p[2]]
        /\ new.dropped = acc.dropped
    BY <1>2 DEF Take, TakeState, QueueLed
  <2>2. \A l \in Leds : new.pending[l] = IF About(p, l) THEN p[2]
                                         ELSE acc.pending[l]
    BY <2>1, <1>2 DEF About, TakeState
  <2> HIDE DEF new, p
  <2>3. \A l \in Leds : NoneFor(l, n + 1) => new.pending[l] = pending[l]
    BY <2>2, LastForStep DEF TakeInv, p
  <2>4. ASSUME NEW l \in Leds, NEW i \in 1 .. n + 1, LastFor(l, n + 1, i)
        PROVE  \/ new.pending[l] = queue[i][2]
               \/ l \in LedsAmong(new.dropped)
    <3>1. CASE i = n + 1 /\ About(queue[n + 1], l)
      BY <3>1, <2>2 DEF p
    <3>2. CASE i \in 1 .. n /\ LastFor(l, n, i) /\ ~About(queue[n + 1], l)
      BY <3>2, <2>1, <2>2 DEF TakeInv, p
    <3> QED
      BY <3>1, <3>2, <2>4, LastForStep
  <2> QED
    BY <1>2, <2>1, <2>3, <2>4 DEF TakeInv, new, p
<1>3. CASE ~acc.full /\ ~IsLed(p)
  <2>1. new.pending = acc.pending
    BY <1>3 DEF Take, TakeState
  <2>2. ~new.full => new.dropped = {}
    BY <1>3 DEF Take, TakeState, TakeInv
  <2>3. SameLeds(midi_out, new.out)
    <3>1. CASE FreeSlots(acc.out) = {}
      <4>1. new.out = acc.out
        BY <1>3, <3>1 DEF Take, TakeState
      <4> QED
        BY <4>1 DEF TakeInv
    <3>2. CASE FreeSlots(acc.out) # {}
      <4> DEFINE k == FirstOf(FreeSlots(acc.out))
      <4>1. k \in 1 .. Slots /\ acc.out[k] = Empty
        BY <3>2, FreeFacts
      <4>2. new.out = [acc.out EXCEPT ![k] = p]
        BY <1>3, <3>2 DEF Take, TakeState
      <4> HIDE DEF k, new, p
      <4>3. \A s \in 1 .. Slots : new.out[s] = IF s = k THEN p ELSE acc.out[s]
        BY <4>1, <4>2 DEF TakeState, MidiOut
      <4>4. ~IsLed(Empty)
        BY LedFacts
      <4>5. ASSUME NEW s \in 1 .. Slots, IsLed(midi_out[s]) \/ IsLed(new.out[s])
            PROVE  new.out[s] = midi_out[s]
        <5>1. s # k
          <6>1. ASSUME s = k PROVE FALSE
            <7>1. IsLed(midi_out[s])
              BY <6>1, <4>3, <4>5, <1>3
            <7>2. acc.out[s] = midi_out[s]
              BY <7>1 DEF TakeInv, SameLeds
            <7> QED
              BY <7>1, <7>2, <6>1, <4>1, <4>4
          <6> QED
            BY <6>1
        <5>2. new.out[s] = acc.out[s]
          BY <5>1, <4>3
        <5> QED
          BY <5>2, <4>5 DEF TakeInv, SameLeds
      <4> QED
        BY <4>5 DEF SameLeds
    <3> QED
      BY <3>1, <3>2
  <2>4. acc.dropped = {}
    BY <1>3 DEF TakeInv
  <2>5. \A l : ~About(p, l)
    BY <1>3 DEF About
  <2>6. \A l : l \notin LedsAmong(acc.dropped)
    BY <2>4 DEF LedsAmong
  <2> HIDE DEF new, p
  <2>7. \A l \in Leds : NoneFor(l, n + 1) => new.pending[l] = pending[l]
    BY <2>1, LastForStep DEF TakeInv, p
  <2>8. ASSUME NEW l \in Leds, NEW i \in 1 .. n + 1, LastFor(l, n + 1, i)
        PROVE  new.pending[l] = queue[i][2]
    <3>1. i \in 1 .. n /\ LastFor(l, n, i)
      BY <2>8, <2>5, LastForStep DEF p
    <3> QED
      BY <3>1, <2>1, <2>6 DEF TakeInv
  <2> QED
    BY <2>2, <2>3, <2>7, <2>8 DEF TakeInv, new, p
<1> QED
  BY <1>1, <1>2, <1>3

(* What the loop does: packets for LEDs are where they were in MIDI_OUT, and *)
(* an LED that was asked for has its last colour pending, or is left out.    *)
LEMMA InjectedFacts ==
  ASSUME LedTypeOK
  PROVE  LET taken == Injected[Len(queue)]
         IN  /\ taken \in TakeState
             /\ TakeInv(Len(queue), taken)
<1>1. Len(queue) \in Nat
  BY DEF LedTypeOK
<1> DEFINE N == Len(queue)
           G == [n \in 0 .. N |-> {a \in TakeState : TakeInv(n, a)}]
<1>2. \A n \in 0 .. N : Injected[n] \in TakeState
  BY InjectedTurns
<1>3. Injected[0] \in G[0]
  <2>1. Injected[0] = TakeStart /\ TakeStart \in TakeState
    BY <1>1, <1>2, InjectedTurns
  <2>2. TakeInv(0, TakeStart)
    BY DEF TakeInv, TakeStart, SameLeds
  <2> QED
    BY <1>1, <2>1, <2>2
<1>4. ASSUME NEW n \in 1 .. N, Injected[n - 1] \in G[n - 1]
      PROVE  Injected[n] \in G[n]
  <2> DEFINE m == n - 1
  <2>1. m \in Nat /\ m + 1 = n /\ m + 1 <= N /\ m \in 0 .. N /\ n \in 0 .. N
    BY <1>1
  <2>2. Injected[m] \in TakeState /\ TakeInv(m, Injected[m])
    BY <2>1, <1>4
  <2>3. Injected[n] = Take(Injected[m], queue[n])
    BY <1>1, InjectedTurns
  <2> HIDE DEF m
  <2>4. TakeInv(m + 1, Take(Injected[m], queue[m + 1]))
    BY <2>1, <2>2, TakeKeeps
  <2>5. TakeInv(n, Injected[n])
    BY <2>1, <2>3, <2>4
  <2> QED
    BY <2>1, <2>5, <1>2
<1> HIDE DEF G, N
<1>5. \A n \in 0 .. N : Injected[n] \in G[n]
  BY <1>1, <1>3, <1>4, EveryTurn DEF N
<1> QED
  BY <1>1, <1>5 DEF G, N
-----------------------------------------------------------------------------
(* The loop that sends the pending colours. *)

FlushState == [pending : [Leds -> Colours], out : MidiOut, sent : Nat,
               stuck : SUBSET {"note", "cc"}]

FlushStart == [pending |-> pending, out |-> midi_out, sent |-> 0,
               stuck |-> {}]

(* MIDI_OUT has at most one packet for an LED. *)
OneSlot(out) ==
  \A l \in Leds : \A s, t \in ColoursOf(l, out) : s = t

\* Nothing has been done with l.
Untouched(l, acc) ==
  /\ acc.pending[l] = pending[l]
  /\ ColoursOf(l, acc.out) = ColoursOf(l, midi_out)
  /\ \A s \in ColoursOf(l, midi_out) : acc.out[s] = midi_out[s]

\* The colour that was pending for l is on its way.
SentOff(l, acc) ==
  /\ pending[l] # None /\ acc.pending[l] = None
  /\ ColoursOf(l, acc.out) # {}
  /\ skip_led_clear \/ l \notin HeardLeds =>
       \A s \in ColoursOf(l, acc.out) : acc.out[s][2] = pending[l]

\* What the turn of l does: nothing, or slot k takes its colour.
PlacedAt(acc, l, k, new) ==
  /\ k \in 1 .. Slots
  /\ \/ skip_led_clear /\ k \in ColoursOf(l, acc.out)
     \/ acc.out[k] = Empty /\ (skip_led_clear => ColoursOf(l, acc.out) = {})
  /\ acc.pending[l] # None
  /\ new.out = [acc.out EXCEPT ![k] = Led(l, acc.pending[l])]
  /\ new.pending = [acc.pending EXCEPT ![l] = None]

(* A turn places the colour in a slot or leaves everything as it is. *)
LEMMA PlaceFacts ==
  ASSUME NEW acc \in FlushState, NEW l \in Leds
  PROVE  /\ Place(acc, l) \in FlushState
         /\ \/ Place(acc, l).out = acc.out /\ Place(acc, l).pending = acc.pending
            \/ \E k : PlacedAt(acc, l, k, Place(acc, l))
<1> DEFINE same == IF skip_led_clear THEN ColoursOf(l, acc.out) ELSE {}
           at   == IF same # {} THEN same ELSE FreeSlots(acc.out)
           new  == Place(acc, l)
           k    == FirstOf(at)
<1>1. CASE acc.pending[l] = None \/ acc.sent = Allowance \/ Kind(l) \in acc.stuck
  <2>1. new = acc
    BY <1>1 DEF Place
  <2> QED
    BY <2>1
<1>2. CASE ~(acc.pending[l] = None \/ acc.sent = Allowance
             \/ Kind(l) \in acc.stuck) /\ at = {}
  <2>1. new = [acc EXCEPT !.stuck = @ \cup {Kind(l)}]
    BY <1>2 DEF Place
  <2>2. Kind(l) \in {"note", "cc"}
    BY DEF Kind
  <2> QED
    BY <2>1, <2>2 DEF FlushState
<1>3. CASE ~(acc.pending[l] = None \/ acc.sent = Allowance
             \/ Kind(l) \in acc.stuck) /\ at # {}
  <2>1. new = [acc EXCEPT !.out[k] = Led(l, acc.pending[l]),
                          !.pending[l] = None, !.sent = @ + 1]
    BY <1>3 DEF Place
  <2>2. at \in SUBSET (1 .. Slots)
    BY DEF ColoursOf, FreeSlots
  <2>3. k \in at
    BY <1>3, <2>2, FirstIn
  <2>4. /\ new.out = [acc.out EXCEPT ![k] = Led(l, acc.pending[l])]
        /\ new.pending = [acc.pending EXCEPT ![l] = None]
        /\ new = [pending |-> new.pending, out |-> new.out,
                  sent |-> acc.sent + 1, stuck |-> acc.stuck]
    BY <2>1 DEF FlushState
  <2>5. \/ skip_led_clear /\ k \in ColoursOf(l, acc.out)
        \/ acc.out[k] = Empty /\ (skip_led_clear => ColoursOf(l, acc.out) = {})
    <3>1. CASE same # {}
      BY <2>3, <3>1
    <3>2. CASE same = {}
      BY <2>3, <3>2 DEF FreeSlots
    <3> QED
      BY <3>1, <3>2
  <2>6. acc.pending[l] \in Palette
    BY <1>3 DEF FlushState, Colours
  <2>7. Led(l, acc.pending[l]) \in Packet
    BY <2>6 DEF Packet, LedPackets
  <2>8. new.out \in MidiOut /\ new.pending \in [Leds -> Colours]
    BY <2>2, <2>3, <2>4, <2>7 DEF FlushState, MidiOut, Colours
  <2>9. new \in FlushState
    BY <2>4, <2>8 DEF FlushState
  <2>10. PlacedAt(acc, l, k, new)
    BY <1>3, <2>2, <2>3, <2>4, <2>5 DEF PlacedAt
  <2> HIDE DEF k, new
  <2>11. \E i : PlacedAt(acc, l, i, new)
    BY <2>10
  <2> QED
    BY <2>9, <2>11 DEF new
<1> QED
  BY <1>1, <1>2, <1>3

(* The loop of shadow_flush_pending_leds, unfolded. *)
LEMMA FlushedTurns ==
  ASSUME LedTypeOK
  PROVE  /\ Flushed[0] = FlushStart
         /\ \A n \in 1 .. LedCount : Flushed[n] = Place(Flushed[n - 1], n)
         /\ \A n \in 0 .. LedCount : Flushed[n] \in FlushState
<1> DEFINE N == LedCount
           F == [n \in 1 .. N |-> [a \in FlushState |-> Place(a, n)]]
<1>1. N \in Nat /\ \A n \in 1 .. N : n \in Leds
  BY LedAssumption DEF LedAssumption, LedCount, Leds
<1>2. FlushStart \in FlushState
  BY DEF LedTypeOK, FlushStart, FlushState
<1>3. F \in Turns(N, FlushState)
  BY <1>1, PlaceFacts DEF Turns
<1> HIDE DEF F, N
<1>4. PICK g : Runs(N, FlushState, FlushStart, F, g)
  BY <1>1, <1>2, <1>3, TurnsExist
<1> USE DEF Runs
<1>5. \A n \in 1 .. N : g[n] = Place(g[n - 1], n)
  <2> TAKE n \in 1 .. N
  <2>1. n - 1 \in 0 .. N
    BY <1>1
  <2>2. g[n - 1] \in FlushState
    BY <2>1, <1>4
  <2> QED
    BY <2>2, <1>4 DEF F
<1> DEFINE Step(f) == [n \in 0 .. N |->
                         IF n = 0 THEN FlushStart ELSE Place(f[n - 1], n)]
<1>6. g = Step(g)
  <2>1. \A n \in 0 .. N : g[n] = Step(g)[n]
    BY <1>1, <1>4, <1>5
  <2> QED
    BY <2>1, <1>4
<1> DEFINE f == CHOOSE f : f = Step(f)
<1>7. f = Step(f)
  BY <1>6
<1>8. Flushed = f
  BY DEF Flushed, FlushStart, N
<1> HIDE DEF f
<1>9. Flushed[0] = FlushStart
  BY <1>1, <1>7, <1>8
<1>10. \A n \in 1 .. N : Flushed[n] = Place(Flushed[n - 1], n)
  BY <1>1, <1>7, <1>8
<1>11. \A n \in 0 .. N : Flushed[n] \in FlushState
  <2> DEFINE G == [n \in 0 .. N |-> FlushState]
  <2>1. Flushed[0] \in G[0]
    BY <1>1, <1>2, <1>9
  <2>2. ASSUME NEW n \in 1 .. N, Flushed[n - 1] \in G[n - 1]
        PROVE  Flushed[n] \in G[n]
    <3>1. n - 1 \in 0 .. N /\ n \in 0 .. N
      BY <1>1
    <3>2. Flushed[n - 1] \in FlushState
      BY <3>1, <2>2
    <3>3. Place(Flushed[n - 1], n) \in FlushState
      BY <3>2, <1>1, PlaceFacts
    <3> QED
      BY <3>1, <3>3, <1>10
  <2> HIDE DEF G
  <2>3. \A n \in 0 .. N : Flushed[n] \in G[n]
    BY <1>1, <2>1, <2>2, EveryTurn
  <2> QED
    BY <2>3 DEF G
<1> QED
  BY <1>9, <1>10, <1>11 DEF N

\* After n turns.
FlushInv(n, acc) ==
  \A l \in Leds : \/ Untouched(l, acc)
                  \/ l <= n /\ SentOff(l, acc)

LEMMA PlaceKeeps ==
  ASSUME LedTypeOK, OneSlot(midi_out), NEW n \in Nat, n + 1 \in Leds,
         NEW acc \in FlushState, FlushInv(n, acc)
  PROVE  FlushInv(n + 1, Place(acc, n + 1))
<1> DEFINE m == n + 1
           new == Place(acc, m)
<1>0. \A l \in Leds : l \in Nat
  BY DEF Leds
<1>1. CASE new.out = acc.out /\ new.pending = acc.pending
  <2> HIDE DEF new
  <2>1. FlushInv(n, new)
    BY <1>1 DEF FlushInv, Untouched, SentOff
  <2> QED
    BY <2>1, <1>0 DEF FlushInv, new
<1>2. CASE \E k : PlacedAt(acc, m, k, new)
  <2>1. PICK k : PlacedAt(acc, m, k, new)
    BY <1>2
  <2> HIDE DEF new, m
  <2>2. /\ k \in 1 .. Slots /\ m \in Leds /\ m \in Nat
        /\ new.out = [acc.out EXCEPT ![k] = Led(m, acc.pending[m])]
        /\ new.pending = [acc.pending EXCEPT ![m] = None]
        /\ acc.pending[m] # None
    BY <2>1, <1>0 DEF PlacedAt, m
  <2>3. /\ \A s \in 1 .. Slots : new.out[s] = IF s = k THEN Led(m, acc.pending[m])
                                              ELSE acc.out[s]
        /\ \A l \in Leds : new.pending[l] = IF l = m THEN None ELSE acc.pending[l]
    BY <2>2 DEF FlushState, MidiOut
  <2>4. /\ IsLed(new.out[k]) /\ new.out[k][1] = m
        /\ new.out[k][2] = acc.pending[m] /\ ~IsLed(Empty)
    BY <2>2, <2>3, LedFacts
  <2>5. ASSUME NEW l \in Leds, l # m
        PROVE  /\ ColoursOf(l, new.out) = ColoursOf(l, acc.out)
               /\ \A s \in ColoursOf(l, acc.out) : new.out[s] = acc.out[s]
               /\ new.pending[l] = acc.pending[l]
    <3>1. k \notin ColoursOf(l, new.out)
      BY <2>4, <2>5 DEF ColoursOf
    <3>2. k \notin ColoursOf(l, acc.out)
      BY <2>1, <2>4, <2>5 DEF ColoursOf, PlacedAt
    <3>3. \A s \in 1 .. Slots : s # k => new.out[s] = acc.out[s]
      BY <2>3
    <3>4. ColoursOf(l, new.out) = ColoursOf(l, acc.out)
      BY <3>1, <3>2, <3>3 DEF ColoursOf
    <3>5. \A s \in ColoursOf(l, acc.out) : s \in 1 .. Slots
      BY DEF ColoursOf
    <3> QED
      BY <3>2, <3>3, <3>4, <3>5, <2>3, <2>5
  <2>6. ASSUME NEW l \in Leds, l # m
        PROVE  Untouched(l, new) \/ (l <= m /\ SentOff(l, new))
    <3>1. CASE Untouched(l, acc)
      <4>1. Untouched(l, new)
        BY <3>1, <2>5, <2>6 DEF Untouched
      <4> QED
        BY <4>1
    <3>2. CASE l <= n /\ SentOff(l, acc)
      <4>1. SentOff(l, new)
        BY <3>2, <2>5, <2>6 DEF SentOff
      <4>2. l <= m
        BY <3>2, <1>0 DEF m
      <4> QED
        BY <4>1, <4>2
    <3> QED
      BY <3>1, <3>2 DEF FlushInv
  <2>7. SentOff(m, new)
    <3>0. ~(m <= n)
      BY DEF m
    <3>1. Untouched(m, acc)
      BY <2>2, <3>0 DEF FlushInv
    <3>2. pending[m] # None /\ new.pending[m] = None /\ acc.pending[m] = pending[m]
      BY <2>2, <2>3, <3>1 DEF Untouched
    <3>3. k \in ColoursOf(m, new.out)
      BY <2>2, <2>4 DEF ColoursOf
    <3>4. ASSUME skip_led_clear \/ m \notin HeardLeds,
                 NEW s \in ColoursOf(m, new.out)
          PROVE  new.out[s][2] = pending[m]
      <4>1. CASE s = k
        BY <4>1, <2>4, <3>2
      <4>2. CASE s # k
        <5>1. s \in 1 .. Slots /\ new.out[s] = acc.out[s]
          BY <4>2, <2>3 DEF ColoursOf
        <5>2. s \in ColoursOf(m, acc.out)
          BY <5>1 DEF ColoursOf
        <5>3. s \in ColoursOf(m, midi_out)
          BY <5>2, <3>1 DEF Untouched
        <5>4. m \in HeardLeds
          BY <5>3, <2>2 DEF HeardLeds
        <5>5. k \in ColoursOf(m, acc.out)
          BY <5>2, <5>4, <3>4, <2>1 DEF PlacedAt
        <5>6. k \in ColoursOf(m, midi_out)
          BY <5>5, <3>1 DEF Untouched
        <5> QED
          BY <5>3, <5>6, <4>2, <2>2 DEF OneSlot
      <4> QED
        BY <4>1, <4>2
    <3> QED
      BY <3>2, <3>3, <3>4 DEF SentOff
  <2>8. \A l \in Leds : Untouched(l, new) \/ (l <= m /\ SentOff(l, new))
    BY <2>6, <2>7, <2>2
  <2> QED
    BY <2>8 DEF FlushInv, new, m
<1>3. acc \in FlushState /\ m \in Leds
  OBVIOUS
<1> QED
  BY <1>1, <1>2, <1>3, PlaceFacts

(* What the loop does: every LED is left alone, or its colour is sent.       *)
LEMMA FlushedFacts ==
  ASSUME LedTypeOK, OneSlot(midi_out)
  PROVE  /\ Flushed[LedCount] \in FlushState
         /\ \A l \in Leds : \/ Untouched(l, Flushed[LedCount])
                            \/ SentOff(l, Flushed[LedCount])
<1>1. LedCount \in Nat /\ \A n \in 1 .. LedCount : n \in Leds
  BY LedAssumption DEF LedAssumption, LedCount, Leds
<1> DEFINE N == LedCount
           G == [n \in 0 .. N |-> {a \in FlushState : FlushInv(n, a)}]
<1>2. \A n \in 0 .. N : Flushed[n] \in FlushState
  BY FlushedTurns
<1>3. Flushed[0] \in G[0]
  <2>1. Flushed[0] = FlushStart /\ FlushStart \in FlushState
    BY <1>1, <1>2, FlushedTurns
  <2>2. FlushInv(0, FlushStart)
    BY DEF FlushInv, FlushStart, Untouched
  <2> QED
    BY <1>1, <2>1, <2>2
<1>4. ASSUME NEW n \in 1 .. N, Flushed[n - 1] \in G[n - 1]
      PROVE  Flushed[n] \in G[n]
  <2> DEFINE m == n - 1
  <2>1. /\ m \in Nat /\ m + 1 = n /\ m \in 0 .. N /\ n \in 0 .. N
        /\ m + 1 \in Leds
    BY <1>1
  <2>2. Flushed[m] \in FlushState /\ FlushInv(m, Flushed[m])
    BY <2>1, <1>4
  <2>3. Flushed[n] = Place(Flushed[m], n)
    BY <1>1, FlushedTurns
  <2> HIDE DEF m
  <2>4. FlushInv(m + 1, Place(Flushed[m], m + 1))
    BY <2>1, <2>2, PlaceKeeps
  <2>5. FlushInv(n, Flushed[n])
    BY <2>1, <2>3, <2>4
  <2> QED
    BY <2>1, <2>5, <1>2
<1> HIDE DEF G, N
<1>5. \A n \in 0 .. N : Flushed[n] \in G[n]
  BY <1>1, <1>3, <1>4, EveryTurn DEF N
<1>6. Flushed[N] \in FlushState /\ FlushInv(N, Flushed[N])
  BY <1>1, <1>5 DEF G, N
<1> QED
  BY <1>6 DEF FlushInv, N
-----------------------------------------------------------------------------
(* The two long steps of a frame, in the words of the invariants.            *)

\* l keeps the colour that is pending, or its colour is sent.
KeptAs(l, pend, shown) ==
  /\ pend[l] = pending[l]
  /\ l \notin HeardLeds => shown[l] = lit[l]
  /\ l \in HeardLeds =>
       \A c \in Palette :
         (\A s \in ColoursOf(l, midi_out) : midi_out[s][2] = c) => shown[l] = c

(* l was sent: it shows the colour that was pending. *)
SentAs(l, pend, shown) ==
  /\ pending[l] # None /\ pend[l] = None
  /\ skip_led_clear \/ l \notin HeardLeds => shown[l] = pending[l]

\* What the end of a flush makes of the pending colours.
PassEffect(pend) ==
  \/ pending' = pend /\ move_led_clear_pending' = move_led_clear_pending
       /\ move_led_restore_pending' = move_led_restore_pending
  \/ pending' = pend /\ move_led_clear_pending' = FALSE
       /\ move_led_restore_pending' = FALSE
  \/ /\ move_led_clear_pending \/ move_led_restore_pending
     /\ pending' = IF move_led_clear_pending
                   THEN AllOff(pend) ELSE FromSnapshot(pend)
     /\ move_led_clear_pending' = move_led_clear_pending
     /\ move_led_restore_pending' = move_led_restore_pending

(* The counters that the model bounds. *)
CountsOK ==
  /\ ui \in {"out", "opening", "loading", "in", "leaving", "left"}
  /\ move_led_pass_count \in 0 .. 1
  /\ packets \in 0 .. MaxPackets /\ sessions \in 0 .. MaxSessions

LEMMA NoneFacts ==
  /\ None \notin Palette /\ Off \in Palette /\ Palette \subseteq Colours
  /\ None \in Colours /\ Off # None
  BY LedAssumption DEF LedAssumption, None, Palette, Colours, Off

LEMMA PassTypes ==
  ASSUME LedTypeOK, NEW pend \in [Leds -> Colours]
  PROVE  /\ AllOff(pend) \in [Leds -> Colours]
         /\ FromSnapshot(pend) \in [Leds -> Colours]
  BY NoneFacts DEF LedTypeOK, AllOff, FromSnapshot

(* FrameFlush: every LED is kept or sent, and then the pass goes on. *)
LEMMA FlushEffect ==
  ASSUME LedTypeOK, OneSlot(midi_out), FrameFlush
  PROVE  /\ lit' \in [Leds -> Palette]
         /\ \E pend \in [Leds -> Colours] :
              /\ PassEffect(pend)
              /\ \A l \in Leds : KeptAs(l, pend, lit') \/ SentAs(l, pend, lit')
<1>0. /\ lit \in [Leds -> Palette] /\ midi_out \in MidiOut
      /\ pending \in [Leds -> Colours]
  BY DEF LedTypeOK
<1>00. \A l \in Leds : l \in HeardLeds <=> ColoursOf(l, midi_out) # {}
  BY DEF HeardLeds
<1>1. CASE ~skip_led_clear /\ Available <= 0
  <2>1. lit' = Shown(lit, midi_out) /\ UNCHANGED <<pending, passes>>
    BY <1>1 DEF FrameFlush
  <2>2. PassEffect(pending)
    BY <2>1 DEF PassEffect, passes
  <2>4. lit' \in [Leds -> Palette] /\ ShownWell(lit, midi_out, lit')
    BY <1>0, <2>1, ShownFacts
  <2>3. \A l \in Leds : KeptAs(l, pending, lit')
    BY <1>00, <2>4 DEF KeptAs, ShownWell
  <2> QED
    BY <1>0, <2>2, <2>3, <2>4
<1>2. CASE ~(~skip_led_clear /\ Available <= 0)
  <2> DEFINE done == Flushed[LedCount]
  <2>1. lit' = Shown(lit, done.out) /\ NextPass(done.pending)
    BY <1>2 DEF FrameFlush
  <2>2. /\ done \in FlushState
        /\ \A l \in Leds : Untouched(l, done) \/ SentOff(l, done)
    BY FlushedFacts
  <2> HIDE DEF done
  <2>3. done.out \in MidiOut /\ done.pending \in [Leds -> Colours]
    BY <2>2 DEF FlushState
  <2>4. lit' \in [Leds -> Palette] /\ ShownWell(lit, done.out, lit')
    BY <1>0, <2>1, <2>3, ShownFacts
  <2>5. ASSUME NEW l \in Leds, Untouched(l, done)
        PROVE  KeptAs(l, done.pending, lit')
    <3>1. /\ done.pending[l] = pending[l]
          /\ ColoursOf(l, done.out) = ColoursOf(l, midi_out)
          /\ \A s \in ColoursOf(l, midi_out) : done.out[s] = midi_out[s]
      BY <2>5 DEF Untouched
    <3>2. l \notin HeardLeds => lit'[l] = lit[l]
      BY <3>1, <2>4, <1>00 DEF ShownWell
    <3>3. ASSUME l \in HeardLeds, NEW c \in Palette,
                 \A s \in ColoursOf(l, midi_out) : midi_out[s][2] = c
          PROVE  lit'[l] = c
      <4>1. ColoursOf(l, done.out) # {}
        BY <3>1, <3>3, <1>00
      <4>2. \A s \in ColoursOf(l, done.out) : done.out[s][2] = c
        BY <3>1, <3>3
      <4> QED
        BY <4>1, <4>2, <2>4 DEF ShownWell
    <3> QED
      BY <3>1, <3>2, <3>3 DEF KeptAs
  <2>6. ASSUME NEW l \in Leds, SentOff(l, done)
        PROVE  SentAs(l, done.pending, lit')
    <3>1. pending[l] \in Palette
      BY <2>6, <1>0 DEF SentOff, Colours
    <3>2. ASSUME skip_led_clear \/ l \notin HeardLeds
          PROVE  lit'[l] = pending[l]
      <4>1. /\ ColoursOf(l, done.out) # {}
            /\ \A s \in ColoursOf(l, done.out) : done.out[s][2] = pending[l]
        BY <2>6, <3>2 DEF SentOff
      <4> QED
        BY <4>1, <3>1, <2>4 DEF ShownWell
    <3> QED
      BY <2>6, <3>2 DEF SentAs, SentOff
  <2>7. PassEffect(done.pending)
    BY <2>1 DEF NextPass, PassEffect, passes
  <2> QED
    BY <2>1, <2>2, <2>3, <2>4, <2>5, <2>6, <2>7
<1> QED
  BY <1>1, <1>2

(* FrameInject: an LED that is not asked for is as it was, and one that is *)
(* has the last colour pending, unless it is counted as lost.              *)
LEMMA InjectEffect ==
  ASSUME LedTypeOK, FrameInject
  PROVE  /\ pending' \in [Leds -> Colours]
         /\ midi_out' \in MidiOut
         /\ SameLeds(midi_out, midi_out')
         /\ lost' \in SUBSET Leds
         /\ \A l \in Leds : l \notin LedsIn(queue) =>
              /\ pending'[l] = pending[l]
              /\ l \notin lost' => l \notin lost
         /\ \A l \in Leds, i \in 1 .. Len(queue) :
              LastFor(l, Len(queue), i) /\ l \notin lost' =>
                /\ pending'[l] = queue[i][2]
                /\ prev_overtake_mode /\ ~move_led_clear_pending
<1> DEFINE taken == Injected[Len(queue)]
           early == ~prev_overtake_mode \/ move_led_clear_pending
<1>1. /\ pending' = taken.pending /\ midi_out' = taken.out
      /\ lost' = (lost \ LedsIn(queue)) \cup LedsAmong(taken.dropped)
                   \cup (IF early THEN LedsIn(queue) ELSE {})
  BY DEF FrameInject
<1>2. taken \in TakeState /\ TakeInv(Len(queue), taken)
  BY InjectedFacts
<1> HIDE DEF taken
<1>3. pending' \in [Leds -> Colours] /\ midi_out' \in MidiOut
  BY <1>1, <1>2 DEF TakeState
<1>4. SameLeds(midi_out, midi_out')
  BY <1>1, <1>2 DEF TakeInv
<1>5. \A l : l \notin LedsIn(queue) => NoneFor(l, Len(queue))
  BY DEF LedsIn, LedsAmong, NoneFor, About, LedTypeOK
<1>6. \A P \in SUBSET Packet : LedsAmong(P) \in SUBSET Leds
  BY PacketFacts DEF LedsAmong
<1>7. LedsIn(queue) \in SUBSET Leds
  <2>1. {queue[i] : i \in DOMAIN queue} \in SUBSET Packet
    BY DEF LedTypeOK
  <2> QED
    BY <2>1, <1>6 DEF LedsIn
<1>8. LedsAmong(taken.dropped) \in SUBSET Leds
  BY <1>2, <1>6 DEF TakeState
<1>9. lost' \in SUBSET Leds
  BY <1>1, <1>7, <1>8 DEF LedTypeOK
<1>10. ASSUME NEW l \in Leds, NEW i \in 1 .. Len(queue),
              LastFor(l, Len(queue), i), l \notin lost'
       PROVE  /\ pending'[l] = queue[i][2]
              /\ prev_overtake_mode /\ ~move_led_clear_pending
  <2>1. l \in LedsIn(queue)
    BY <1>10 DEF LastFor, About, LedsIn, LedsAmong, LedTypeOK
  <2>2. ~early /\ l \notin LedsAmong(taken.dropped)
    BY <1>1, <1>10, <2>1
  <2> QED
    BY <1>1, <1>2, <1>10, <2>2 DEF TakeInv
<1>11. ASSUME NEW l \in Leds, l \notin LedsIn(queue)
       PROVE  pending'[l] = pending[l] /\ (l \notin lost' => l \notin lost)
  BY <1>1, <1>2, <1>5, <1>11 DEF TakeInv
<1> QED
  BY <1>3, <1>4, <1>9, <1>10, <1>11
-----------------------------------------------------------------------------
(* Types are kept. *)

LEMMA SeenTypes ==
  ASSUME LedTypeOK
  PROVE  /\ SeenFromMove \in [Leds -> Colours]
         /\ ~(overtake_mode /\ ~skip_led_clear) =>
              ShownWell(move_led_state, midi_out, SeenFromMove)
<1>1. move_led_state \in [Leds -> Colours] /\ midi_out \in MidiOut
  BY DEF LedTypeOK
<1>2. Palette \subseteq Colours
  BY NoneFacts
<1> QED
  BY <1>1, <1>2, ShownFacts DEF SeenFromMove

LEMMA ClearTypes ==
  ASSUME LedTypeOK, FrameClear
  PROVE  LedTypeOK'
<1>1. /\ move_led_state' \in [Leds -> Colours]
      /\ prev_overtake_mode' \in BOOLEAN
      /\ step' = "inject"
  BY SeenTypes DEF FrameClear, LedTypeOK
<1>2. midi_out' \in MidiOut
  BY DEF FrameClear, LedTypeOK, MidiOut
<1>3. /\ snapshot' \in [Leds -> Colours] /\ snapshot_skip_restore' \in BOOLEAN
      /\ pending' \in [Leds -> Colours]
      /\ move_led_clear_pending' \in BOOLEAN
      /\ move_led_restore_pending' \in BOOLEAN
  <2>0. /\ snapshot \in [Leds -> Colours] /\ snapshot_skip_restore \in BOOLEAN
        /\ pending \in [Leds -> Colours] /\ skip_led_clear \in BOOLEAN
        /\ move_led_clear_pending \in BOOLEAN
        /\ move_led_restore_pending \in BOOLEAN
    BY DEF LedTypeOK
  <2>1. CASE Enters /\ EnterOvertake
    BY <2>0, <2>1, SeenTypes, PassTypes DEF EnterOvertake
  <2>2. CASE Leaves /\ LeaveOvertake
    BY <2>0, <2>2, PassTypes DEF LeaveOvertake, passes, ClearingEnds
  <2>3. CASE UNCHANGED <<pending, passes, snapshot, snapshot_skip_restore>>
    BY <2>0, <2>3 DEF passes
  <2> QED
    BY <2>1, <2>2, <2>3 DEF FrameClear
<1>4. unknown' \in SUBSET Leds
  BY DEF FrameClear, SightAfterClear, HeardLeds, LedTypeOK
<1>5. asked' \in [Leds -> Colours]
  BY NoneFacts DEF FrameClear, LedTypeOK
<1>6. UNCHANGED <<flags, ui, queue, lit, moves, lost, counts>>
  BY DEF FrameClear
<1>7. CountsOK'
  <2>1. move_led_pass_count' \in 0 .. 1
    BY DEF FrameClear, EnterOvertake, LeaveOvertake, passes, LedTypeOK
  <2> QED
    BY <1>6, <2>1 DEF CountsOK, LedTypeOK, counts
<1> QED
  BY <1>1, <1>2, <1>3, <1>4, <1>5, <1>6, <1>7 DEF LedTypeOK, flags, CountsOK

LEMMA InjectTypes ==
  ASSUME LedTypeOK, FrameInject
  PROVE  LedTypeOK'
<1>1. /\ pending' \in [Leds -> Colours] /\ midi_out' \in MidiOut
      /\ lost' \in SUBSET Leds
  BY InjectEffect
<1>2. unknown' \in SUBSET Leds
  <2>1. {queue[i] : i \in DOMAIN queue} \in SUBSET Packet
    BY DEF LedTypeOK
  <2>2. LedsIn(queue) \in SUBSET Leds
    BY <2>1, PacketFacts DEF LedsIn, LedsAmong
  <2> QED
    BY <2>2 DEF FrameInject, LedTypeOK
<1>3. queue' \in Seq(Packet) /\ step' = "flush"
  BY DEF FrameInject
<1>4. UNCHANGED <<flags, ui, caches, passes, lit, moves, asked, counts>>
  BY DEF FrameInject
<1> QED
  BY <1>1, <1>2, <1>3, <1>4 DEF LedTypeOK, flags, caches, passes, counts

LEMMA FlushTypes ==
  ASSUME LedTypeOK, OneSlot(midi_out), FrameFlush
  PROVE  LedTypeOK'
<1>1. PICK pend \in [Leds -> Colours] : PassEffect(pend)
  BY FlushEffect
<1>2. /\ pending' \in [Leds -> Colours]
      /\ move_led_clear_pending' \in BOOLEAN
      /\ move_led_restore_pending' \in BOOLEAN
  BY <1>1, PassTypes DEF PassEffect, LedTypeOK
<1>3. lit' \in [Leds -> Palette]
  BY FlushEffect
<1>4. midi_out' \in MidiOut
  BY DEF FrameFlush, MidiOut
<1>5. asked' \in [Leds -> Colours]
  BY NoneFacts DEF FrameFlush, LedTypeOK
<1>6. /\ UNCHANGED <<flags, ui, queue, caches, moves, unknown, lost, counts>>
      /\ step' = "clear"
  BY DEF FrameFlush
<1>7. move_led_pass_count' \in 0 .. 1
  BY DEF FrameFlush, NextPass, PassCounted, passes, LedTypeOK
<1> QED
  BY <1>2, <1>3, <1>4, <1>5, <1>6, <1>7 DEF LedTypeOK, flags, caches, counts

LEMMA MoveTypes ==
  ASSUME LedTypeOK, NEW l \in Leds, NEW c \in MoveColours, MoveSends(l, c)
  PROVE  LedTypeOK'
<1>1. c \in Palette
  BY DEF Palette
<1>2. Led(l, c) \in Packet
  BY <1>1 DEF Packet, LedPackets
<1>3. midi_out' \in MidiOut
  BY <1>2, FreeFacts DEF MoveSends, LedTypeOK, MidiOut
<1>4. moves' \in [Leds -> Palette]
  BY <1>1 DEF MoveSends, LedTypeOK
<1>5. packets' \in 0 .. MaxPackets
  BY LedAssumption DEF MoveSends, LedTypeOK
<1> QED
  BY <1>3, <1>4, <1>5 DEF MoveSends, LedTypeOK, flags, caches, passes

LEMMA AskTypes ==
  ASSUME LedTypeOK, NEW p \in Packet, Asks(p)
  PROVE  LedTypeOK'
<1>1. queue' \in Seq(Packet)
  BY DEF Asks, LedTypeOK
<1>2. asked' \in [Leds -> Colours]
  BY PacketFacts, NoneFacts DEF Asks, LedTypeOK
<1>3. packets' \in 0 .. MaxPackets
  BY LedAssumption DEF Asks, LedTypeOK
<1> QED
  BY <1>1, <1>2, <1>3 DEF Asks, LedTypeOK, flags, caches, passes

\* What the UI process does but for asking for colours.
UiFlags ==
  \/ SetSkip \/ SetOvertake \/ Resume \/ OpenOver \/ ClearPassthrough
  \/ DropOvertake \/ DropSkip
  \/ \E S \in SUBSET Ccs : SetPassthrough(S)

(* The flags are all that changes. *)
LEMMA UiFlagsFacts ==
  ASSUME LedTypeOK, UiFlags
  PROVE  /\ overtake_mode' \in BOOLEAN /\ skip_led_clear' \in BOOLEAN
         /\ passthrough' \in SUBSET Ccs
         /\ CountsOK'
         /\ UNCHANGED <<midi_out, step, caches, pending, passes, lit,
                        moves, unknown, asked, lost, queue>>
<1> USE LedAssumption DEF UiUnchanged, LedTypeOK, flags, CountsOK, passes
<1>1. CASE SetSkip
  BY <1>1 DEF SetSkip
<1>2. CASE SetOvertake
  BY <1>2 DEF SetOvertake
<1>3. CASE Resume
  BY <1>3 DEF Resume
<1>4. CASE OpenOver
  <2>1. CountsOK'
    BY <1>4 DEF OpenOver
  <2>2. skip_led_clear' \in BOOLEAN
    BY <1>4, Zenon DEF OpenOver
  <2> QED
    BY <1>4, <2>1, <2>2 DEF OpenOver
<1>5. CASE ClearPassthrough
  BY <1>5 DEF ClearPassthrough
<1>6. CASE DropOvertake
  BY <1>6 DEF DropOvertake
<1>7. CASE DropSkip
  BY <1>7 DEF DropSkip
<1>8. ASSUME NEW S \in SUBSET Ccs, SetPassthrough(S)
      PROVE  /\ overtake_mode' \in BOOLEAN /\ skip_led_clear' \in BOOLEAN
             /\ passthrough' \in SUBSET Ccs
             /\ CountsOK'
             /\ UNCHANGED <<midi_out, step, caches, pending, passes, lit,
                            moves, unknown, asked, lost, queue>>
  BY <1>8 DEF SetPassthrough
<1> QED
  BY <1>1, <1>2, <1>3, <1>4, <1>5, <1>6, <1>7, <1>8 DEF UiFlags

LEMMA UiFlagsTypes ==
  ASSUME LedTypeOK, UiFlags
  PROVE  LedTypeOK'
  BY UiFlagsFacts DEF LedTypeOK, caches, passes, CountsOK

\* The steps, in the cases of the proofs below.
LEMMA StepCases ==
  ASSUME LedNext
  PROVE  \/ FrameClear \/ FrameInject \/ FrameFlush \/ UiFlags
         \/ \E p \in Packet : Asks(p)
         \/ \E l \in Leds, c \in MoveColours : MoveSends(l, c)
<1>1. \A l \in Leds, c \in ToolColours : Led(l, c) \in Packet
  BY DEF Packet, LedPackets, Palette
<1>2. Other \in Packet
  BY DEF Packet
<1> QED
  BY <1>1, <1>2 DEF LedNext, Frame, UiProcess, UiFlags, Move
-----------------------------------------------------------------------------
(* The inductive invariant. *)

\* The session of a tool whose exit will bring the snapshot back.
Undone == prev_overtake_mode /\ ~snapshot_skip_restore

(* The clearing belongs to a session that will be undone, and the          *)
(* restoring comes after it: at most one of them runs.                     *)
PassesApart ==
  /\ prev_overtake_mode => ~move_led_restore_pending
  /\ move_led_clear_pending => Undone

\* A colour on its way is the last one that the tool asked for ...
AskedWaits ==
  \A l \in Leds, i \in 1 .. Len(queue) :
    asked[l] # None /\ LastFor(l, Len(queue), i) => queue[i][2] = asked[l]

\* ... and so is the one that is pending, or is shown if none is.
AskedArrives ==
  \A l \in Leds :
    asked[l] # None /\ l \notin lost /\ l \notin LedsIn(queue) =>
      /\ prev_overtake_mode /\ ~move_led_clear_pending
      /\ pending[l] # None => pending[l] = asked[l]
      /\ pending[l] = None => lit[l] = asked[l]

(* A colour never seen is shown, and restored, as Off. *)
ColourOf(c) == IF c = None THEN Off ELSE c

\* What is in MIDI_OUT for l was given to the shim before this step.
Looked(l) == step # "clear" \/ l \notin HeardLeds

\* Between two steps MIDI_OUT has packets of Move only, with its last colours.
PacketsAreMoves ==
  \A l \in Leds : \A s \in ColoursOf(l, midi_out) : midi_out[s][2] = moves[l]

\* The shim knows Move's colour: from its cache, and from the snapshot while
\* that is to be brought back.
MoveKnown(l) ==
  /\ Looked(l) => ColourOf(move_led_state[l]) = moves[l]
  /\ Looked(l) /\ (Undone \/ move_led_restore_pending) =>
       ColourOf(snapshot[l]) = moves[l]

\* When nothing is to be undone, Move's colour is pending, is shown, or its
\* packet is the only one that will arrive.
MoveArrives(l) ==
  /\ ~Undone /\ l \notin HeardLeds =>
       /\ pending[l] # None => pending[l] = moves[l]
       /\ pending[l] = None => lit[l] = moves[l]
  /\ step # "clear" /\ l \in HeardLeds =>
       pending[l] = None /\ ~Undone /\ ~move_led_restore_pending

MoveSafe == \A l \in Leds \ unknown : MoveKnown(l) /\ MoveArrives(l)

LedInv ==
  /\ LedTypeOK /\ OneSlot(midi_out) /\ PacketsAreMoves
  /\ PassesApart /\ AskedWaits /\ AskedArrives /\ MoveSafe

(* The inductive invariant holds at first. *)
LEMMA LedInvInit ==
  ASSUME LedInit
  PROVE  LedInv
<1>1. LedTypeOK
  <2>1. /\ midi_out \in MidiOut
        /\ queue \in Seq(Packet)
    BY DEF LedInit, MidiOut
  <2>2. /\ move_led_state \in [Leds -> Colours]
        /\ snapshot \in [Leds -> Colours]
        /\ pending \in [Leds -> Colours]
        /\ asked \in [Leds -> Colours]
        /\ lit \in [Leds -> Palette]
        /\ moves \in [Leds -> Palette]
    BY NoneFacts DEF LedInit
  <2>3. CountsOK
    BY LedAssumption DEF LedInit, CountsOK
  <2>4. passthrough \in SUBSET Ccs /\ unknown \in SUBSET Leds
        /\ lost \in SUBSET Leds
    BY DEF LedInit
  <2> QED
    BY <2>1, <2>2, <2>3, <2>4 DEF LedInit, LedTypeOK, CountsOK
<1>2. \A l : ColoursOf(l, midi_out) = {}
  BY LedFacts DEF LedInit, ColoursOf
<1>3. OneSlot(midi_out) /\ PacketsAreMoves
  BY <1>2 DEF OneSlot, PacketsAreMoves
<1>4. PassesApart
  BY DEF LedInit, PassesApart, Undone
<1>5. AskedWaits /\ AskedArrives
  BY DEF LedInit, AskedWaits, AskedArrives
<1>6. MoveSafe
  BY <1>2 DEF LedInit, MoveSafe, MoveKnown, MoveArrives, HeardLeds, ColourOf,
              Looked, Undone
<1> QED
  BY <1>1, <1>3, <1>4, <1>5, <1>6 DEF LedInv

-----------------------------------------------------------------------------
(* A frame has at most one packet of Move for an LED.                        *)

\* Fewer packets, or the same.
Fewer(out, old) ==
  \A l \in Leds : ColoursOf(l, out) \subseteq ColoursOf(l, old)

LEMMA FewerFacts ==
  /\ LedTypeOK /\ FrameClear => Fewer(midi_out', midi_out)
  /\ LedTypeOK /\ FrameInject => Fewer(midi_out', midi_out)
  /\ FrameFlush => \A l : ColoursOf(l, midi_out') = {}
<1>1. LedTypeOK /\ FrameClear => Fewer(midi_out', midi_out)
  BY LedFacts DEF FrameClear, Fewer, ColoursOf
<1>2. LedTypeOK /\ FrameInject => Fewer(midi_out', midi_out)
  BY InjectEffect, SameLedsFacts DEF Fewer
<1>3. FrameFlush => \A l : ColoursOf(l, midi_out') = {}
  BY LedFacts DEF FrameFlush, ColoursOf
<1> QED
  BY <1>1, <1>2, <1>3

\* Move's packet for l takes a slot of its own.
LEMMA MoveSlot ==
  ASSUME LedTypeOK, NEW l \in Leds, NEW c \in MoveColours, MoveSends(l, c)
  PROVE  \E k \in 1 .. Slots :
           /\ ColoursOf(l, midi_out') = {k} /\ midi_out'[k][2] = c
           /\ \A m \in Leds : m # l =>
                /\ ColoursOf(m, midi_out') = ColoursOf(m, midi_out)
                /\ \A s \in ColoursOf(m, midi_out) : midi_out'[s] = midi_out[s]
<1> DEFINE k == FirstOf(FreeSlots(midi_out))
<1>1. /\ k \in 1 .. Slots /\ midi_out[k] = Empty
      /\ midi_out' = [midi_out EXCEPT ![k] = Led(l, c)]
      /\ ColoursOf(l, midi_out) = {}
  BY FreeFacts DEF MoveSends
<1> HIDE DEF k
<1>2. \A s \in 1 .. Slots : midi_out'[s] = IF s = k THEN Led(l, c) ELSE midi_out[s]
  BY <1>1 DEF LedTypeOK, MidiOut
<1>3. /\ IsLed(Led(l, c)) /\ Led(l, c)[1] = l /\ Led(l, c)[2] = c
      /\ ~IsLed(Empty)
  BY LedFacts
<1>4. ColoursOf(l, midi_out') = {k}
  BY <1>1, <1>2, <1>3 DEF ColoursOf
<1>5. ASSUME NEW m \in Leds, m # l
      PROVE  /\ ColoursOf(m, midi_out') = ColoursOf(m, midi_out)
             /\ \A s \in ColoursOf(m, midi_out) : midi_out'[s] = midi_out[s]
  BY <1>1, <1>2, <1>3, <1>5 DEF ColoursOf
<1> QED
  BY <1>1, <1>2, <1>3, <1>4, <1>5

LEMMA OneSlotKept ==
  ASSUME LedTypeOK, OneSlot(midi_out), LedNext
  PROVE  OneSlot(midi_out)'
<1>1. ASSUME Fewer(midi_out', midi_out) PROVE OneSlot(midi_out)'
  BY <1>1 DEF Fewer, OneSlot
<1>2. CASE FrameClear \/ FrameInject
  BY <1>1, <1>2, FewerFacts
<1>3. CASE FrameFlush
  BY <1>3, FewerFacts DEF OneSlot
<1>4. CASE UiFlags
  BY <1>4, UiFlagsFacts DEF OneSlot, ColoursOf
<1>5. ASSUME NEW p \in Packet, Asks(p) PROVE OneSlot(midi_out)'
  BY <1>5 DEF Asks, OneSlot, ColoursOf
<1>6. ASSUME NEW l \in Leds, NEW c \in MoveColours, MoveSends(l, c)
      PROVE  OneSlot(midi_out)'
  BY <1>6, MoveSlot DEF OneSlot
<1> QED
  BY <1>2, <1>3, <1>4, <1>5, <1>6, StepCases

LEMMA TypesKept ==
  ASSUME LedTypeOK, OneSlot(midi_out), LedNext
  PROVE  LedTypeOK'
  BY StepCases, ClearTypes, InjectTypes, FlushTypes, UiFlagsTypes, AskTypes,
     MoveTypes

(* PassesApart is kept. *)
LEMMA PassesKept ==
  ASSUME LedTypeOK, OneSlot(midi_out), PassesApart, LedNext
  PROVE  PassesApart'
<1> USE DEF PassesApart, Undone
<1>1. CASE FrameClear
  <2>1. CASE Enters /\ EnterOvertake
    BY <1>1, <2>1 DEF FrameClear, EnterOvertake, Enters
  <2>2. CASE Leaves /\ LeaveOvertake
    BY <1>1, <2>2 DEF FrameClear, LeaveOvertake, Leaves, ClearingEnds, passes,
                      LedTypeOK
  <2>3. CASE /\ ~Enters /\ ~Leaves
             /\ UNCHANGED <<pending, passes, snapshot, snapshot_skip_restore>>
    BY <1>1, <2>3 DEF FrameClear, Enters, Leaves, passes, LedTypeOK
  <2> QED
    BY <1>1, <2>1, <2>2, <2>3 DEF FrameClear
<1>2. CASE FrameInject
  BY <1>2 DEF FrameInject, caches, passes
<1>3. CASE FrameFlush
  <2>1. UNCHANGED caches
    BY <1>3 DEF FrameFlush
  <2>2. /\ move_led_clear_pending' => move_led_clear_pending
        /\ move_led_restore_pending' => move_led_restore_pending
    <3>1. PICK pend \in [Leds -> Colours] : PassEffect(pend)
      BY <1>3, FlushEffect
    <3> QED
      BY <3>1 DEF PassEffect
  <2> QED
    BY <2>1, <2>2 DEF caches
<1>4. CASE UiFlags
  BY <1>4, UiFlagsFacts DEF caches, passes
<1>5. ASSUME NEW p \in Packet, Asks(p) PROVE PassesApart'
  BY <1>5 DEF Asks, caches, passes
<1>6. ASSUME NEW l \in Leds, NEW c \in MoveColours, MoveSends(l, c)
      PROVE  PassesApart'
  BY <1>6 DEF MoveSends, caches, passes
<1> QED
  BY <1>1, <1>2, <1>3, <1>4, <1>5, <1>6, StepCases
-----------------------------------------------------------------------------
(* What the tool asked for.                                                  *)

\* A tool's packet joins the end of the queue.
LEMMA AskFacts ==
  ASSUME LedTypeOK, NEW p \in Packet, Asks(p)
  PROVE  /\ Len(queue') = Len(queue) + 1
         /\ queue'[Len(queue) + 1] = p
         /\ \A i \in 1 .. Len(queue) : queue'[i] = queue[i]
         /\ \A l \in Leds : asked'[l] = IF About(p, l) THEN p[2] ELSE asked[l]
<1>1. queue' = Append(queue, p) /\ queue \in Seq(Packet)
  BY DEF Asks, LedTypeOK
<1>2. \A l \in Leds : asked'[l] = IF About(p, l) THEN p[2] ELSE asked[l]
  BY DEF Asks, LedTypeOK, About
<1> QED
  BY <1>1, <1>2

(* AskedWaits is kept. *)
LEMMA WaitsKept ==
  ASSUME LedInv, LedNext
  PROVE  AskedWaits'
<1>0. LedTypeOK /\ AskedWaits
  BY DEF LedInv
<1>1. ASSUME queue' = queue,
             \A l \in Leds : asked'[l] = asked[l] \/ asked'[l] = None
      PROVE  AskedWaits'
  BY <1>0, <1>1 DEF AskedWaits, LastFor
<1>2. CASE FrameClear
  BY <1>0, <1>1, <1>2 DEF FrameClear, LedTypeOK
<1>3. CASE FrameInject
  BY <1>3 DEF FrameInject, AskedWaits
<1>4. CASE FrameFlush
  BY <1>1, <1>4 DEF FrameFlush
<1>5. CASE UiFlags
  BY <1>0, <1>1, <1>5, UiFlagsFacts
<1>6. ASSUME NEW p \in Packet, Asks(p) PROVE AskedWaits'
  <2>0. PICK n \in Nat : n = Len(queue)
    BY <1>0 DEF LedTypeOK
  <2>1. /\ Len(queue') = n + 1 /\ queue'[n + 1] = p
        /\ \A i \in 1 .. n : queue'[i] = queue[i]
        /\ \A l \in Leds : asked'[l] = IF About(p, l) THEN p[2] ELSE asked[l]
    BY <1>0, <1>6, <2>0, AskFacts
  <2>2. ASSUME NEW l \in Leds, NEW i \in 1 .. n + 1, asked'[l] # None,
               LastFor(l, n + 1, i)'
        PROVE  queue'[i][2] = asked'[l]
    <3>1. /\ About(queue'[i], l)
          /\ \A j \in 1 .. n + 1 : About(queue'[j], l) => j <= i
      BY <2>2 DEF LastFor
    <3>2. CASE i = n + 1
      BY <2>1, <3>1, <3>2
    <3>3. CASE i # n + 1
      <4>1. i \in 1 .. n /\ n + 1 \in 1 .. n + 1 /\ ~(n + 1 <= i)
        BY <2>0, <3>3
      <4>2. ~About(p, l)
        BY <2>1, <3>1, <4>1
      <4>3. /\ About(queue[i], l)
            /\ \A j \in 1 .. n : About(queue[j], l) => j <= i
        BY <2>0, <2>1, <3>1, <4>1
      <4>4. LastFor(l, n, i)
        BY <4>1, <4>3 DEF LastFor
      <4> QED
        BY <1>0, <2>1, <2>2, <4>1, <4>2, <4>4, <2>0 DEF AskedWaits
    <3> QED
      BY <3>2, <3>3
  <2> QED
    BY <2>1, <2>2 DEF AskedWaits
<1>7. ASSUME NEW l \in Leds, NEW c \in MoveColours, MoveSends(l, c)
      PROVE  AskedWaits'
  BY <1>1, <1>7 DEF MoveSends
<1> QED
  BY <1>2, <1>3, <1>4, <1>5, <1>6, <1>7, StepCases

\* An LED of the queue has a last packet there.
LEMMA LastExists ==
  ASSUME LedTypeOK, NEW l \in LedsIn(queue)
  PROVE  \E i \in 1 .. Len(queue) : LastFor(l, Len(queue), i)
<1> DEFINE N == Len(queue)
           S == {i \in 1 .. N : About(queue[i], l)}
           D == {N - i : i \in S}
<1>0. N \in Nat
  BY DEF LedTypeOK
<1>1. PICK i \in 1 .. N : About(queue[i], l)
  BY DEF LedsIn, LedsAmong, About, LedTypeOK
<1>2. D \in SUBSET Nat
  BY <1>0
<1>3. N - i \in D
  BY <1>1
<1>4. PICK x \in D : \A y \in D : x <= y
  BY <1>2, <1>3, LeastNumber
<1>5. PICK k \in S : x = N - k
  BY <1>4
<1>6. ASSUME NEW j \in 1 .. N, About(queue[j], l) PROVE j <= k
  <2>1. N - j \in D
    BY <1>6
  <2>2. N - k <= N - j
    BY <2>1, <1>4, <1>5
  <2> QED
    BY <1>0, <1>5, <2>2
<1> QED
  BY <1>5, <1>6 DEF LastFor

(* AskedArrives is kept: FrameInject takes the last colour into pending,   *)
(* FrameFlush from there to the LED, and what Move puts in between is no   *)
(* longer asked for.                                                       *)
LEMMA AskedKept ==
  ASSUME LedInv, LedNext
  PROVE  AskedArrives'
<1>0. LedTypeOK /\ OneSlot(midi_out) /\ PassesApart /\ AskedWaits /\ AskedArrives
  BY DEF LedInv
<1>1. CASE FrameClear
  <2>0. UNCHANGED <<queue, lost, lit>> /\ prev_overtake_mode' = overtake_mode
    BY <1>1 DEF FrameClear
  <2>1. CASE Enters
    <3>1. asked' = asked /\ ~prev_overtake_mode
      BY <1>1, <2>1 DEF FrameClear, Enters, Leaves
    <3> QED
      BY <1>0, <2>0, <3>1 DEF AskedArrives
  <2>2. CASE Leaves
    <3>1. \A l \in Leds : asked'[l] = None
      BY <1>1, <2>2 DEF FrameClear
    <3> QED
      BY <3>1 DEF AskedArrives
  <2>3. CASE ~Enters /\ ~Leaves
    <3>1. /\ asked' = asked /\ prev_overtake_mode' = prev_overtake_mode
          /\ UNCHANGED <<pending, passes>>
      BY <1>0, <1>1, <2>3 DEF FrameClear, Enters, Leaves, LedTypeOK
    <3> QED
      BY <1>0, <2>0, <3>1 DEF AskedArrives, passes
  <2> QED
    BY <2>1, <2>2, <2>3
<1>2. CASE FrameInject
  <2>1. UNCHANGED <<caches, passes, lit, asked>> /\ queue' = <<>>
    BY <1>2 DEF FrameInject
  <2>2. ASSUME NEW l \in Leds, asked[l] # None, l \notin lost'
        PROVE  /\ prev_overtake_mode /\ ~move_led_clear_pending
               /\ pending'[l] # None => pending'[l] = asked[l]
               /\ pending'[l] = None => lit[l] = asked[l]
    <3>1. CASE l \in LedsIn(queue)
      <4>1. PICK i \in 1 .. Len(queue) : LastFor(l, Len(queue), i)
        BY <1>0, <3>1, LastExists
      <4>2. /\ pending'[l] = queue[i][2]
            /\ prev_overtake_mode /\ ~move_led_clear_pending
        BY <1>0, <1>2, <2>2, <4>1, InjectEffect
      <4>3. queue[i][2] = asked[l]
        BY <1>0, <2>2, <4>1 DEF AskedWaits
      <4> QED
        BY <2>2, <4>2, <4>3
    <3>2. CASE l \notin LedsIn(queue)
      <4>1. pending'[l] = pending[l] /\ l \notin lost
        BY <1>0, <1>2, <2>2, <3>2, InjectEffect
      <4> QED
        BY <1>0, <2>2, <3>2, <4>1 DEF AskedArrives
    <3> QED
      BY <3>1, <3>2
  <2> QED
    BY <2>1, <2>2 DEF AskedArrives, caches, passes
<1>3. CASE FrameFlush
  <2>1. UNCHANGED <<queue, caches, lost>>
    BY <1>3 DEF FrameFlush
  <2>2. PICK pend \in [Leds -> Colours] :
          /\ PassEffect(pend)
          /\ \A l \in Leds : KeptAs(l, pend, lit') \/ SentAs(l, pend, lit')
    BY <1>0, <1>3, FlushEffect
  <2>3. ASSUME NEW l \in Leds, asked'[l] # None, l \notin lost,
               l \notin LedsIn(queue)
        PROVE  /\ prev_overtake_mode /\ ~move_led_clear_pending'
               /\ pending'[l] # None => pending'[l] = asked'[l]
               /\ pending'[l] = None => lit'[l] = asked'[l]
    <3>1. /\ asked'[l] = asked[l]
          /\ ~(l \in HeardLeds /\ (skip_led_clear => pending[l] = None))
      BY <1>3, <2>3 DEF FrameFlush
    <3>2. /\ prev_overtake_mode /\ ~move_led_clear_pending
          /\ pending[l] # None => pending[l] = asked[l]
          /\ pending[l] = None => lit[l] = asked[l]
      BY <1>0, <2>3, <3>1 DEF AskedArrives
    <3>3. pending' = pend /\ ~move_led_clear_pending'
      BY <1>0, <2>2, <3>2 DEF PassEffect, PassesApart
    <3>4. CASE KeptAs(l, pend, lit')
      BY <3>1, <3>2, <3>3, <3>4 DEF KeptAs
    <3>5. CASE SentAs(l, pend, lit')
      BY <3>1, <3>2, <3>3, <3>5 DEF SentAs
    <3> QED
      BY <2>2, <3>4, <3>5
  <2> QED
    BY <2>1, <2>3 DEF AskedArrives, caches
<1>4. CASE UiFlags
  BY <1>0, <1>4, UiFlagsFacts DEF AskedArrives, caches, passes
<1>5. ASSUME NEW p \in Packet, Asks(p) PROVE AskedArrives'
  <2>1. UNCHANGED <<caches, passes, pending, lit, lost>>
    BY <1>5 DEF Asks
  <2>2. /\ Len(queue') = Len(queue) + 1 /\ queue'[Len(queue) + 1] = p
        /\ \A i \in 1 .. Len(queue) : queue'[i] = queue[i]
        /\ \A l \in Leds : asked'[l] = IF About(p, l) THEN p[2] ELSE asked[l]
    BY <1>0, <1>5, AskFacts
  <2>3. /\ Len(queue) \in Nat /\ DOMAIN queue = 1 .. Len(queue)
        /\ DOMAIN queue' = 1 .. Len(queue) + 1
    <3>1. queue \in Seq(Packet) /\ queue' \in Seq(Packet)
      BY <1>0, <1>5, AskTypes DEF LedTypeOK
    <3> QED
      BY <3>1, <2>2
  <2>4. ASSUME NEW l \in Leds, l \notin LedsIn(queue')
        PROVE  l \notin LedsIn(queue) /\ asked'[l] = asked[l]
    <3>1. \A i \in DOMAIN queue' : ~About(queue'[i], l)
      BY <2>4 DEF LedsIn, LedsAmong, About
    <3>2. ~About(p, l)
      BY <2>2, <2>3, <3>1
    <3>3. \A i \in DOMAIN queue : ~About(queue[i], l)
      BY <2>2, <2>3, <3>1
    <3> QED
      BY <2>2, <3>2, <3>3 DEF LedsIn, LedsAmong, About
  <2> QED
    BY <1>0, <2>1, <2>4 DEF AskedArrives, caches, passes
<1>6. ASSUME NEW l \in Leds, NEW c \in MoveColours, MoveSends(l, c)
      PROVE  AskedArrives'
  BY <1>0, <1>6 DEF MoveSends, AskedArrives, caches, passes
<1> QED
  BY <1>1, <1>2, <1>3, <1>4, <1>5, <1>6, StepCases
-----------------------------------------------------------------------------
(* What Move last sent.                                                      *)

LEMMA HeardMeans ==
  \A l \in Leds : l \in HeardLeds <=> ColoursOf(l, midi_out) # {}
  BY DEF HeardLeds

(* PacketsAreMoves is kept. *)
LEMMA PacketsKept ==
  ASSUME LedInv, LedNext
  PROVE  PacketsAreMoves'
<1>0. LedTypeOK /\ PacketsAreMoves
  BY DEF LedInv
<1>1. CASE FrameClear
  <2>1. moves' = moves
    BY <1>1 DEF FrameClear
  <2>2. \A l \in Leds : \A s \in ColoursOf(l, midi_out') :
          s \in ColoursOf(l, midi_out) /\ midi_out'[s] = midi_out[s]
    BY <1>1, LedFacts DEF FrameClear, ColoursOf
  <2> QED
    BY <1>0, <2>1, <2>2 DEF PacketsAreMoves
<1>2. CASE FrameInject
  <2>1. moves' = moves
    BY <1>2 DEF FrameInject
  <2>2. \A l \in Leds : /\ ColoursOf(l, midi_out') = ColoursOf(l, midi_out)
                        /\ \A s \in ColoursOf(l, midi_out) : midi_out'[s] = midi_out[s]
    BY <1>0, <1>2, InjectEffect, SameLedsFacts
  <2> QED
    BY <1>0, <2>1, <2>2 DEF PacketsAreMoves
<1>3. CASE FrameFlush
  BY <1>3, FewerFacts DEF PacketsAreMoves
<1>4. CASE UiFlags
  BY <1>0, <1>4, UiFlagsFacts DEF PacketsAreMoves, ColoursOf
<1>5. ASSUME NEW p \in Packet, Asks(p) PROVE PacketsAreMoves'
  BY <1>0, <1>5 DEF Asks, PacketsAreMoves, ColoursOf
<1>6. ASSUME NEW l \in Leds, NEW c \in MoveColours, MoveSends(l, c)
      PROVE  PacketsAreMoves'
  <2>1. \A m \in Leds : moves'[m] = IF m = l THEN c ELSE moves[m]
    BY <1>0, <1>6 DEF MoveSends, LedTypeOK
  <2>2. PICK k \in 1 .. Slots :
          /\ ColoursOf(l, midi_out') = {k} /\ midi_out'[k][2] = c
          /\ \A m \in Leds : m # l =>
               /\ ColoursOf(m, midi_out') = ColoursOf(m, midi_out)
               /\ \A s \in ColoursOf(m, midi_out) : midi_out'[s] = midi_out[s]
    BY <1>0, <1>6, MoveSlot
  <2> QED
    BY <1>0, <2>1, <2>2 DEF PacketsAreMoves
<1> QED
  BY <1>1, <1>2, <1>3, <1>4, <1>5, <1>6, StepCases

LEMMA MoveColourFacts ==
  ASSUME LedTypeOK, NEW l \in Leds
  PROVE  /\ moves[l] \in Palette /\ moves[l] # None
         /\ ColourOf(moves[l]) = moves[l]
         /\ ColourOf(snapshot[l]) # None
  BY NoneFacts DEF LedTypeOK, ColourOf, Colours

\* A packet that the shim looked at, and passed on.
LEMMA ClearHeard ==
  ASSUME LedInv, FrameClear, PassesApart', NEW l \in Leds, l \notin unknown',
         l \in HeardLeds
  PROVE  MoveKnown(l)' /\ MoveArrives(l)'
<1>0. LedTypeOK /\ PacketsAreMoves
  BY DEF LedInv
<1>1. ~OutOfSight(l) /\ pending'[l] = None
  BY DEF FrameClear, SightAfterClear
<1>2. ~(overtake_mode /\ ~skip_led_clear)
  BY <1>1 DEF OutOfSight
<1>3. prev_overtake_mode' = overtake_mode /\ step' = "inject" /\ moves' = moves
  BY DEF FrameClear
<1>4. ~Undone'
  BY <1>1, <1>3 DEF OutOfSight, Undone
<1>5. ~move_led_restore_pending'
  BY <1>1, <1>3 DEF OutOfSight, PassesApart
<1>6. move_led_state'[l] = moves[l]
  <2>1. ShownWell(move_led_state, midi_out, SeenFromMove)
    BY <1>0, <1>2, SeenTypes
  <2>2. moves[l] \in Palette /\ ColoursOf(l, midi_out) # {}
    BY <1>0, HeardMeans, MoveColourFacts
  <2>3. \A s \in ColoursOf(l, midi_out) : midi_out[s][2] = moves[l]
    BY <1>0 DEF PacketsAreMoves
  <2>4. SeenFromMove[l] = moves[l]
    BY <2>1, <2>2, <2>3 DEF ShownWell
  <2> QED
    BY <2>4 DEF FrameClear
<1>7. l \in HeardLeds'
  <2>1. PICK s \in ColoursOf(l, midi_out) : TRUE
    BY HeardMeans
  <2>2. s \in 1 .. Slots /\ ~Stripped(midi_out[s][1])
    BY <2>1, <1>2 DEF Stripped, ColoursOf
  <2>3. midi_out'[s] = midi_out[s]
    BY <2>2 DEF FrameClear
  <2>4. s \in ColoursOf(l, midi_out')
    BY <2>1, <2>3 DEF ColoursOf
  <2> QED
    BY <2>4 DEF HeardLeds
<1>8. MoveKnown(l)'
  BY <1>0, <1>3, <1>4, <1>5, <1>6, MoveColourFacts DEF MoveKnown
<1>9. MoveArrives(l)'
  BY <1>1, <1>3, <1>4, <1>5, <1>7 DEF MoveArrives
<1> QED
  BY <1>8, <1>9

\* An LED that Move left alone.
LEMMA ClearUnheard ==
  ASSUME LedInv, FrameClear, PassesApart', NEW l \in Leds, l \notin unknown',
         l \notin HeardLeds
  PROVE  MoveKnown(l)' /\ MoveArrives(l)'
<1>0. LedTypeOK /\ PassesApart /\ MoveSafe
  BY DEF LedInv
<1>1. l \notin unknown /\ (Leaves => l \in Restorable)
  BY DEF FrameClear, SightAfterClear
<1>2. /\ ColourOf(move_led_state[l]) = moves[l]
      /\ Undone \/ move_led_restore_pending => ColourOf(snapshot[l]) = moves[l]
      /\ ~Undone => /\ pending[l] # None => pending[l] = moves[l]
                    /\ pending[l] = None => lit[l] = moves[l]
  BY <1>0, <1>1 DEF MoveSafe, MoveKnown, MoveArrives, Looked
<1>3. /\ prev_overtake_mode' = overtake_mode /\ step' = "inject"
      /\ moves' = moves /\ lit' = lit /\ move_led_state' = SeenFromMove
  BY DEF FrameClear
<1>4. SeenFromMove[l] = move_led_state[l]
  BY <1>0, SeenTypes, HeardMeans DEF SeenFromMove, ShownWell
<1>5. l \notin HeardLeds'
  <2>1. ColoursOf(l, midi_out') \subseteq ColoursOf(l, midi_out)
    BY <1>0, FewerFacts DEF Fewer
  <2>2. ColoursOf(l, midi_out') = {}
    BY <2>1, HeardMeans
  <2> QED
    BY <2>2 DEF HeardLeds
<1>6. /\ Undone' \/ move_led_restore_pending' => ColourOf(snapshot'[l]) = moves[l]
      /\ ~Undone' => /\ pending'[l] # None => pending'[l] = moves[l]
                     /\ pending'[l] = None => lit[l] = moves[l]
  <2>1. CASE Enters /\ EnterOvertake
    <3>1. /\ snapshot' = SeenFromMove /\ snapshot_skip_restore' = skip_led_clear
          /\ ~Undone /\ overtake_mode
          /\ skip_led_clear => pending' = pending
      BY <2>1 DEF Enters, EnterOvertake, Undone
    <3>2. ~Undone' => pending' = pending
      BY <1>3, <3>1 DEF Undone
    <3> QED
      BY <1>2, <1>4, <3>1, <3>2
  <2>2. CASE Leaves /\ LeaveOvertake
    <3>1. snapshot' = snapshot /\ ~Undone' /\ prev_overtake_mode
      BY <1>3, <2>2 DEF Leaves, LeaveOvertake, Undone
    <3>2. CASE snapshot_skip_restore
      <4>1. pending' = pending /\ UNCHANGED passes /\ ~Undone
        BY <2>2, <3>2 DEF LeaveOvertake, Undone
      <4>2. ~move_led_restore_pending'
        BY <1>0, <3>1, <4>1 DEF PassesApart, passes
      <4> QED
        BY <1>2, <3>1, <4>1, <4>2
    <3>3. CASE ~snapshot_skip_restore
      <4>1. pending' = FromSnapshot(pending) /\ Undone
        BY <2>2, <3>1, <3>3 DEF LeaveOvertake, Undone
      <4>2. pending'[l] = ColourOf(snapshot[l])
        BY <1>1, <2>2, <4>1 DEF FromSnapshot, ColourOf
      <4> QED
        BY <1>0, <1>2, <3>1, <4>1, <4>2, MoveColourFacts
    <3> QED
      BY <3>2, <3>3
  <2>3. CASE /\ ~Enters /\ ~Leaves
             /\ UNCHANGED <<pending, passes, snapshot, snapshot_skip_restore>>
    <3>1. Undone' = Undone
      BY <1>0, <1>3, <2>3 DEF Enters, Leaves, Undone, LedTypeOK
    <3> QED
      BY <1>2, <2>3, <3>1 DEF passes
  <2> QED
    BY <2>1, <2>2, <2>3 DEF FrameClear
<1>7. MoveKnown(l)'
  BY <1>2, <1>3, <1>4, <1>6 DEF MoveKnown
<1>8. MoveArrives(l)'
  BY <1>3, <1>5, <1>6 DEF MoveArrives
<1> QED
  BY <1>7, <1>8

(* FrameInject: outside of a session nothing that is asked for is safe. *)
LEMMA InjectSafe ==
  ASSUME LedInv, FrameInject, NEW l \in Leds, l \notin unknown'
  PROVE  MoveKnown(l)' /\ MoveArrives(l)'
<1>0. LedTypeOK /\ MoveSafe
  BY DEF LedInv
<1>1. /\ step = "inject" /\ step' = "flush"
      /\ UNCHANGED <<caches, passes, lit, moves>>
      /\ l \notin unknown /\ (~Undone => l \notin LedsIn(queue))
  BY DEF FrameInject, Undone
<1>2. MoveKnown(l) /\ MoveArrives(l)
  BY <1>0, <1>1 DEF MoveSafe
<1>3. l \in HeardLeds' <=> l \in HeardLeds
  BY <1>0, InjectEffect, SameLedsFacts DEF HeardLeds
<1>4. ~Undone => pending'[l] = pending[l]
  BY <1>0, <1>1, InjectEffect
<1>5. Undone' <=> Undone
  BY <1>1 DEF Undone, caches
<1>6. MoveKnown(l)'
  BY <1>1, <1>2, <1>5 DEF MoveKnown, Looked, caches, passes
<1>7. MoveArrives(l)'
  BY <1>1, <1>2, <1>3, <1>4, <1>5 DEF MoveArrives, passes
<1> QED
  BY <1>6, <1>7

(* FrameFlush: what was pending is shown, and a pass makes the same        *)
(* colours pending again.                                                  *)
LEMMA FlushSafe ==
  ASSUME LedInv, FrameFlush, NEW l \in Leds, l \notin unknown'
  PROVE  MoveKnown(l)' /\ MoveArrives(l)'
<1>0. /\ LedTypeOK /\ OneSlot(midi_out) /\ PacketsAreMoves /\ PassesApart
      /\ MoveSafe
  BY DEF LedInv
<1>1. step = "flush" /\ UNCHANGED <<caches, moves, unknown>>
  BY DEF FrameFlush
<1>2. MoveKnown(l) /\ MoveArrives(l)
  BY <1>0, <1>1 DEF MoveSafe
<1>3. PICK pend \in [Leds -> Colours] :
        /\ PassEffect(pend)
        /\ KeptAs(l, pend, lit') \/ SentAs(l, pend, lit')
  BY <1>0, FlushEffect
<1>4. Undone' <=> Undone
  BY <1>1 DEF Undone, caches
<1>5. move_led_restore_pending' => move_led_restore_pending
  BY <1>3 DEF PassEffect
<1>6. /\ ColourOf(move_led_state[l]) = moves[l]
      /\ Undone \/ move_led_restore_pending => ColourOf(snapshot[l]) = moves[l]
  BY <1>1, <1>2 DEF MoveKnown, Looked
<1>7. MoveKnown(l)'
  BY <1>1, <1>4, <1>5, <1>6 DEF MoveKnown, caches
<1>8. ASSUME ~Undone
      PROVE  /\ pending'[l] # None => pending'[l] = moves[l]
             /\ pending'[l] = None => lit'[l] = moves[l]
  <2>1. ~move_led_clear_pending
    BY <1>0, <1>8 DEF PassesApart
  <2>2. CASE l \in HeardLeds
    <3>1. pending[l] = None /\ ~move_led_restore_pending
      BY <1>1, <1>2, <2>2 DEF MoveArrives
    <3>2. pending' = pend
      BY <1>3, <2>1, <3>1 DEF PassEffect
    <3>3. KeptAs(l, pend, lit')
      BY <1>3, <3>1 DEF SentAs
    <3>4. moves[l] \in Palette
      BY <1>0, MoveColourFacts
    <3>5. \A s \in ColoursOf(l, midi_out) : midi_out[s][2] = moves[l]
      BY <1>0 DEF PacketsAreMoves
    <3>6. lit'[l] = moves[l]
      BY <2>2, <3>3, <3>4, <3>5 DEF KeptAs
    <3>7. pend[l] = None
      BY <3>1, <3>3 DEF KeptAs
    <3> QED
      BY <3>2, <3>6, <3>7
  <2>3. CASE l \notin HeardLeds
    <3>1. /\ pending[l] # None => pending[l] = moves[l]
          /\ pending[l] = None => lit[l] = moves[l]
      BY <1>2, <1>8, <2>3 DEF MoveArrives
    <3>2. /\ pend[l] # None => pend[l] = moves[l]
          /\ pend[l] = None => lit'[l] = moves[l]
      BY <1>3, <2>3, <3>1 DEF KeptAs, SentAs
    <3>3. CASE pending' = pend
      BY <3>2, <3>3
    <3>4. CASE move_led_restore_pending /\ pending' = FromSnapshot(pend)
      <4>1. pending'[l] = IF l \in Restorable THEN ColourOf(snapshot[l])
                          ELSE pend[l]
        BY <3>4 DEF FromSnapshot, ColourOf
      <4> QED
        BY <1>0, <1>6, <3>2, <3>4, <4>1, MoveColourFacts
    <3> QED
      BY <1>3, <2>1, <3>3, <3>4 DEF PassEffect
  <2> QED
    BY <2>2, <2>3
<1>9. step' = "clear"
  BY DEF FrameFlush
<1>10. MoveArrives(l)'
  <2>1. ~Undone' => /\ pending'[l] # None => pending'[l] = moves'[l]
                    /\ pending'[l] = None => lit'[l] = moves'[l]
    BY <1>1, <1>4, <1>8
  <2> QED
    BY <1>9, <2>1 DEF MoveArrives
<1> QED
  BY <1>7, <1>10

(* MoveSends. *)
LEMMA SendSafe ==
  ASSUME LedInv, NEW l \in Leds, NEW c \in MoveColours, MoveSends(l, c)
  PROVE  MoveSafe'
<1>0. LedTypeOK /\ MoveSafe
  BY DEF LedInv
<1>1. PICK k \in 1 .. Slots :
        /\ ColoursOf(l, midi_out') = {k}
        /\ \A m \in Leds : m # l => ColoursOf(m, midi_out') = ColoursOf(m, midi_out)
  BY <1>0, MoveSlot
<1>2. /\ step = "clear" /\ UNCHANGED <<step, caches, passes, pending, lit, unknown>>
      /\ \A m \in Leds : m # l => moves'[m] = moves[m]
  BY <1>0 DEF MoveSends, LedTypeOK
<1>3. /\ l \in HeardLeds'
      /\ \A m \in Leds : m # l => (m \in HeardLeds' <=> m \in HeardLeds)
  BY <1>1 DEF HeardLeds
<1>4. ASSUME NEW m \in Leds, m \notin unknown', m # l
      PROVE  MoveKnown(m)' /\ MoveArrives(m)'
  <2>1. MoveKnown(m) /\ MoveArrives(m)
    BY <1>0, <1>2, <1>4 DEF MoveSafe
  <2>2. (m \in HeardLeds' <=> m \in HeardLeds) /\ moves'[m] = moves[m]
    BY <1>2, <1>3, <1>4
  <2> QED
    BY <1>2, <2>1, <2>2 DEF MoveKnown, MoveArrives, Looked, Undone, caches, passes
<1>5. MoveKnown(l)' /\ MoveArrives(l)'
  BY <1>2, <1>3 DEF MoveKnown, MoveArrives, Looked
<1> QED
  BY <1>4, <1>5 DEF MoveSafe

(* MoveSafe is kept. *)
LEMMA SafeKept ==
  ASSUME LedInv, LedNext, PassesApart'
  PROVE  MoveSafe'
<1>1. CASE FrameClear
  BY <1>1, ClearHeard, ClearUnheard DEF MoveSafe
<1>2. CASE FrameInject
  BY <1>2, InjectSafe DEF MoveSafe
<1>3. CASE FrameFlush
  BY <1>3, FlushSafe DEF MoveSafe
<1>4. ASSUME UNCHANGED <<midi_out, step, caches, pending, passes, lit, moves, unknown>>
      PROVE  MoveSafe'
  <2>1. MoveSafe
    BY DEF LedInv
  <2>2. HeardLeds' = HeardLeds
    BY <1>4 DEF HeardLeds, ColoursOf
  <2> QED
    BY <1>4, <2>1, <2>2 DEF MoveSafe, MoveKnown, MoveArrives, Looked, Undone,
                            caches, passes
<1>5. CASE UiFlags
  BY <1>4, <1>5, UiFlagsFacts DEF LedInv
<1>6. ASSUME NEW p \in Packet, Asks(p) PROVE MoveSafe'
  BY <1>4, <1>6 DEF Asks
<1>7. ASSUME NEW l \in Leds, NEW c \in MoveColours, MoveSends(l, c)
      PROVE  MoveSafe'
  BY <1>7, SendSafe
<1> QED
  BY <1>1, <1>2, <1>3, <1>5, <1>6, <1>7, StepCases

-----------------------------------------------------------------------------
(* The inductive invariant holds in every state.                             *)
THEOREM LedInvariance == LedSpec => []LedInv
<1>1. LedInit => LedInv
  BY LedInvInit
<1>2. LedInv /\ [LedNext]_ledVars => LedInv'
  <2>1. ASSUME LedInv, LedNext PROVE LedInv'
    <3>1. LedTypeOK /\ OneSlot(midi_out) /\ PassesApart
      BY <2>1 DEF LedInv
    <3>2. LedTypeOK' /\ OneSlot(midi_out)' /\ PassesApart'
      BY <2>1, <3>1, TypesKept, OneSlotKept, PassesKept
    <3>3. PacketsAreMoves' /\ AskedWaits' /\ AskedArrives' /\ MoveSafe'
      BY <2>1, <3>2, PacketsKept, WaitsKept, AskedKept, SafeKept
    <3> QED
      BY <3>2, <3>3 DEF LedInv
  <2>2. ASSUME LedInv, UNCHANGED ledVars PROVE LedInv'
    BY <2>2 DEF LedInv, ledVars, flags, caches, passes, counts, LedTypeOK,
         OneSlot, PacketsAreMoves, PassesApart, AskedWaits, AskedArrives,
         MoveSafe, MoveKnown, MoveArrives, Looked, Undone, HeardLeds,
         ColoursOf, LastFor, LedsIn
  <2> QED
    BY <2>1, <2>2
<1> QED
  BY <1>1, <1>2, PTL DEF LedSpec

(* After the session of a tool an LED shows again what Move last sent for    *)
(* it.                                                                       *)
THEOREM MoveIsAlwaysShown == LedSpec => []MoveIsShown
<1>1. LedInv => MoveIsShown
  BY DEF LedInv, MoveSafe, MoveIsShown, MoveArrives, Settled, Undone
<1> QED
  BY <1>1, LedInvariance, PTL

(* In a session an LED shows what the tool asked for last.                   *)
THEOREM AskedIsAlwaysShown == LedSpec => []AskedIsShown
<1>1. LedInv => AskedIsShown
  BY DEF LedInv, AskedArrives, AskedIsShown, Settled
<1> QED
  BY <1>1, LedInvariance, PTL
=============================================================================
