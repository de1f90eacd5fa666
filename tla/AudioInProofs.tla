---------------------------- MODULE AudioInProofs ----------------------------
(***************************************************************************)
(* Proofs about the two ways audio of other processes takes into the mix   *)
(* of the SPI thread, JackBridge and LinkIn, which share nothing but that  *)
(* thread.                                                                 *)
(*                                                                         *)
(* JackBridge, for every width of the counters: the shim never runs away   *)
(* from JACK, a JACK that has stopped falls silent, and a block that was   *)
(* in time is copied whole.                                                *)
(*                                                                         *)
(* LinkIn, for rings, blocks and buffers of every size and positions of    *)
(* every width the ring divides: a block that was all there and not        *)
(* overrun is heard as it was produced, none is older than the threshold,  *)
(* and none is heard again.                                                *)
(***************************************************************************)
EXTENDS JackBridge, LinkIn, TLAPS

-----------------------------------------------------------------------------
(* JackBridge *)

(* b to a, going round the counter. *)
Ahead(a, b) == (a - b) % FrameSpan

Frames == 0 .. FrameSpan - 1

(* The remainder without the division: what the provers can reason about.  *)
LEMMA AheadIs ==
  ASSUME NEW a \in Frames, NEW b \in Frames
  PROVE  Ahead(a, b) = IF a >= b THEN a - b ELSE a - b + FrameSpan
<1>1. a - b \in Int /\ FrameSpan \in Nat /\ FrameSpan > 0
  BY FrameAssumption DEF Frames
<1>2. CASE a >= b
  <2>1. a - b \in 0 .. FrameSpan - 1
    BY <1>1, <1>2 DEF Frames
  <2>2. (a - b) % FrameSpan = a - b
    BY <1>1, <2>1
  <2> QED BY <1>2, <2>2 DEF Ahead
<1>3. CASE a < b
  <2>1. a - b + FrameSpan \in 0 .. FrameSpan - 1
    BY <1>1, <1>3 DEF Frames
  <2>2. (a - b) % FrameSpan = a - b + FrameSpan
    BY <1>1, <2>1
  <2> QED BY <1>3, <2>2 DEF Ahead, Frames
<1> QED BY <1>2, <1>3 DEF Frames

(* The counter that is counted up stays in its range. *)
LEMMA NextIs ==
  ASSUME NEW a \in Frames
  PROVE  (a + 1) % FrameSpan = IF a = FrameSpan - 1 THEN 0 ELSE a + 1
<1>1. CASE a = FrameSpan - 1
  BY <1>1, FrameAssumption DEF Frames
<1>2. CASE a # FrameSpan - 1
  BY <1>2, FrameAssumption DEF Frames
<1> QED BY <1>1, <1>2

(* Counting up takes the counter one further ahead of everything that is   *)
(* not a whole round behind.                                               *)
LEMMA OneFurther ==
  ASSUME NEW a \in Frames, NEW b \in Frames, Ahead(a, b) <= Grace
  PROVE  /\ (a + 1) % FrameSpan \in Frames
         /\ Ahead((a + 1) % FrameSpan, b) = Ahead(a, b) + 1
<1> DEFINE n == (a + 1) % FrameSpan
<1>1. n = IF a = FrameSpan - 1 THEN 0 ELSE a + 1
  BY NextIs
<1>2. n \in Frames
  BY <1>1, FrameAssumption DEF Frames
<1> HIDE DEF n
<1>3. Ahead(n, b) = IF n >= b THEN n - b ELSE n - b + FrameSpan
  BY <1>2, AheadIs
<1>4. Ahead(a, b) = IF a >= b THEN a - b ELSE a - b + FrameSpan
  BY AheadIs
<1>5. Ahead(n, b) = Ahead(a, b) + 1
  BY <1>1, <1>3, <1>4, FrameAssumption DEF Frames, Grace
<1> QED BY <1>2, <1>5 DEF n

-----------------------------------------------------------------------------
(* Why JACK is never left far behind: the counter only moves when it is at *)
(* most Grace ahead, and what JACK has seen lies between what it has done  *)
(* and the counter, so that finishing a cycle never sets it back.          *)

AheadInv ==
  /\ Ahead(frame_counter, jack.last) <= Ahead(frame_counter, jack_frame_done)
  /\ Ahead(frame_counter, jack_frame_done) <= MaxReplays
  /\ InWake => Ahead(frame_counter, jack_frame_done) <= Grace

(* Why a dead JACK is mixed three times at most: a mix leaves one more     *)
(* replay than the counter is ahead, and the counter moves in between.     *)
ReplayInv ==
  /\ replays <= MaxReplays
  /\ spi # "mix" => replays <= Behind + 1
  /\ spi = "mix" /\ Active => replays <= Behind

JackInv == TypeOK /\ AheadInv /\ ReplayInv

(* What TypeOK says of the counters. *)
LEMMA Counters ==
  ASSUME TypeOK
  PROVE  /\ frame_counter \in Frames /\ jack_frame_done \in Frames
         /\ jack.last \in Frames
         /\ Behind = Ahead(frame_counter, jack_frame_done)
         /\ Ahead(frame_counter, jack_frame_done) \in Nat
         /\ Ahead(frame_counter, jack.last) \in Nat
         /\ Ahead(frame_counter, frame_counter) = 0
<1>1. /\ frame_counter \in Frames /\ jack_frame_done \in Frames
      /\ jack.last \in Frames
  BY DEF TypeOK, Frames
<1>2. /\ Ahead(frame_counter, jack_frame_done) \in Nat
      /\ Ahead(frame_counter, jack.last) \in Nat
      /\ Ahead(frame_counter, frame_counter) = 0
  <2>1. \A a, b \in Frames : Ahead(a, b) \in Nat /\ Ahead(a, a) = 0
    <3> SUFFICES ASSUME NEW a \in Frames, NEW b \in Frames
                 PROVE  Ahead(a, b) \in Nat /\ Ahead(a, a) = 0
      OBVIOUS
    <3>1. /\ Ahead(a, b) = IF a >= b THEN a - b ELSE a - b + FrameSpan
          /\ Ahead(a, a) = IF a >= a THEN a - a ELSE a - a + FrameSpan
      BY AheadIs
    <3> QED BY <3>1, FrameAssumption DEF Frames
  <2> QED BY <1>1, <2>1
<1> QED BY <1>1, <1>2 DEF Behind, Ahead

(* Everything starts at zero. *)
LEMMA JackInvInit == Init => JackInv
<1> SUFFICES ASSUME Init PROVE JackInv
  OBVIOUS
<1>1. TypeOK
  <2>1. 0 \in 0 .. FrameSpan - 1
    BY FrameAssumption
  <2>2. jack \in [pc : {"gone", "wait", "left", "right", "ready", "done", "graph"},
                 last : 0 .. FrameSpan - 1, cycle : {0, 1}]
    BY <2>1 DEF Init
  <2>3. audio_out \in Block /\ snapshot \in Block
    BY DEF Init, Block
  <2>4. /\ frame_counter \in 0 .. FrameSpan - 1
        /\ jack_frame_done \in 0 .. FrameSpan - 1
    BY <2>1 DEF Init
  <2>5. replays \in 0 .. MaxReplays + 1
    BY DEF Init, MaxReplays, Grace
  <2>6. /\ audio_ready \in BOOLEAN /\ valid \in BOOLEAN /\ late \in BOOLEAN
        /\ spi \in {"test", "copy", "rest", "clear", "count", "mix"}
    BY DEF Init
  <2> QED BY <2>2, <2>3, <2>4, <2>5, <2>6, Zenon DEF TypeOK
<1>2. Ahead(frame_counter, jack.last) = 0 /\ Behind = 0
      /\ Ahead(frame_counter, jack_frame_done) = 0
  BY <1>1, Counters DEF Init
<1>3. AheadInv
  BY <1>2 DEF Init, AheadInv, InWake, MaxReplays, Grace
<1>4. ReplayInv
  BY <1>2 DEF Init, ReplayInv, MaxReplays, Grace
<1> QED BY <1>1, <1>3, <1>4 DEF JackInv

(* The type invariant, one action at a time. *)
LEMMA TypeStep == TypeOK /\ [Next]_vars => TypeOK'
<1> SUFFICES ASSUME TypeOK, [Next]_vars PROVE TypeOK'
  OBVIOUS
<1> USE DEF TypeOK, Block, shm, copied, history
<1>1. CASE WakeTest
  BY <1>1 DEF WakeTest, SpiGoes
<1>2. CASE WakeCopyLeft
  BY <1>2 DEF WakeCopyLeft, SpiGoes
<1>3. CASE WakeCopyRight
  BY <1>3 DEF WakeCopyRight, SpiGoes
<1>4. CASE WakeClear
  BY <1>4 DEF WakeClear, SpiGoes
<1>5. CASE WakeCount
  <2>1. frame_counter' \in 0 .. FrameSpan - 1
    BY <1>5, NextIs, FrameAssumption DEF WakeCount, NextFrame, Frames
  <2> QED BY <1>5, <2>1 DEF WakeCount, SpiGoes
<1>6. CASE Mix
  BY <1>6 DEF Mix, SpiGoes, MaxReplays, Grace
<1>7. CASE Attach
  BY <1>7 DEF Attach
<1>8. CASE Dies
  BY <1>8 DEF Dies
<1>9. CASE Woken \/ TimesOut
  <2>1. jack' \in [pc : {"left"}, last : 0 .. FrameSpan - 1, cycle : {0, 1}]
    BY <1>9 DEF Woken, TimesOut, NewCycle
  <2>2. late' \in BOOLEAN
    <3>1. CASE Woken
      BY <3>1 DEF Woken
    <3>2. CASE TimesOut
      <4>1. Active \in BOOLEAN
        BY DEF Active
      <4> QED BY <3>2, <4>1, Zenon DEF TimesOut
    <3> QED BY <1>9, <3>1, <3>2
  <2> QED BY <1>9, <2>1, <2>2 DEF Woken, TimesOut
<1>10. CASE WriteLeft \/ WriteRight
  BY <1>10 DEF WriteLeft, WriteRight, JackGoes
<1>11. CASE SignalReady
  BY <1>11 DEF SignalReady, JackGoes, InWake
<1>12. CASE SignalDone \/ RunGraph
  BY <1>12 DEF SignalDone, RunGraph, JackGoes, MaxReplays, Grace
<1>13. CASE UNCHANGED vars
  BY <1>13 DEF vars
<1> QED
  BY <1>1, <1>2, <1>3, <1>4, <1>5, <1>6, <1>7, <1>8, <1>9, <1>10, <1>11,
     <1>12, <1>13 DEF Next, SpiStep, JackStep

(* A step that leaves the counters and what JACK has seen alone leaves the *)
(* distances alone.                                                        *)
LEMMA SameDistances ==
  ASSUME UNCHANGED <<frame_counter, jack_frame_done, jack.last>>
  PROVE  /\ Ahead(frame_counter, jack_frame_done)'
              = Ahead(frame_counter, jack_frame_done)
         /\ Ahead(frame_counter, jack.last)' = Ahead(frame_counter, jack.last)
         /\ Behind' = Behind /\ Active' = Active
BY DEF Ahead, Behind, Active

(* Both bounds, one action at a time: only WakeCount and SignalDone move   *)
(* the distance to what is done, and only a new cycle or an attach moves   *)
(* what JACK has seen, up to the counter.                                  *)
LEMMA BoundsStep == JackInv /\ [Next]_vars => AheadInv' /\ ReplayInv'
<1> SUFFICES ASSUME JackInv, [Next]_vars PROVE AheadInv' /\ ReplayInv'
  OBVIOUS
<1> DEFINE done == Ahead(frame_counter, jack_frame_done)
           seen == Ahead(frame_counter, jack.last)
<1>1. /\ TypeOK /\ TypeOK'
      /\ frame_counter \in Frames /\ jack_frame_done \in Frames
      /\ jack.last \in Frames
      /\ Behind = done /\ done \in Nat /\ seen \in Nat
      /\ Behind' = done' /\ done' \in Nat /\ seen' \in Nat
      /\ replays \in Nat
  <2>1. TypeOK /\ TypeOK'
    BY TypeStep DEF JackInv
  <2>2. replays \in Nat
    BY <2>1 DEF TypeOK, MaxReplays, Grace
  <2>3. /\ frame_counter' \in Frames /\ jack_frame_done' \in Frames
        /\ jack.last' \in Frames
    BY <2>1 DEF TypeOK, Frames
  <2>4. Behind' = done' /\ done' \in Nat /\ seen' \in Nat
    <3>1. \A a, b \in Frames : Ahead(a, b) \in Nat
      <4> SUFFICES ASSUME NEW a \in Frames, NEW b \in Frames
                   PROVE  Ahead(a, b) \in Nat
        OBVIOUS
      <4> QED BY AheadIs, FrameAssumption DEF Frames
    <3> QED BY <2>3, <3>1 DEF Behind, Ahead
  <2> QED BY <2>1, <2>2, <2>4, Counters
<1>2. /\ seen <= done /\ done <= MaxReplays /\ (InWake => done <= Grace)
      /\ replays <= MaxReplays
      /\ (spi # "mix" => replays <= done + 1)
      /\ (spi = "mix" /\ done <= Grace => replays <= done)
  BY <1>1 DEF JackInv, AheadInv, ReplayInv, Active
<1>3. SUFFICES
        /\ seen' <= done' /\ done' <= MaxReplays /\ (InWake' => done' <= Grace)
        /\ replays' <= MaxReplays
        /\ (spi' # "mix" => replays' <= done' + 1)
        /\ (spi' = "mix" /\ done' <= Grace => replays' <= done')
  BY <1>1 DEF AheadInv, ReplayInv, Active, MaxReplays
<1> USE DEF MaxReplays, Grace
<1> HIDE DEF done, seen
<1>4. ASSUME UNCHANGED <<frame_counter, jack_frame_done, jack.last>>
      PROVE  done' = done /\ seen' = seen
  BY <1>4, SameDistances DEF done, seen
<1>5. CASE WakeTest
  <2>1. done' = done /\ seen' = seen
    BY <1>5, <1>4 DEF WakeTest, shm
  <2>2. UNCHANGED replays /\ spi = "test"
    BY <1>5 DEF WakeTest, SpiGoes, history
  <2>3. CASE done <= 2
    <3>1. spi' # "mix"
      BY <1>5, <1>1, <2>3 DEF WakeTest, SpiGoes, Active
    <3> QED BY <1>1, <1>2, <2>1, <2>2, <2>3, <3>1
  <2>4. CASE done > 2
    <3>1. spi' = "mix"
      BY <1>5, <1>1, <2>4 DEF WakeTest, SpiGoes, Active
    <3>2. ~InWake'
      BY <3>1 DEF InWake
    <3> QED BY <1>1, <1>2, <2>1, <2>2, <2>4, <3>1, <3>2
  <2> QED BY <1>1, <2>3, <2>4
<1>6. CASE WakeCopyLeft \/ WakeCopyRight \/ WakeClear
  <2>1. done' = done /\ seen' = seen /\ UNCHANGED replays
    BY <1>6, <1>4 DEF WakeCopyLeft, WakeCopyRight, WakeClear, shm, history
  <2>2. InWake /\ spi # "mix" /\ spi' # "mix"
    BY <1>6 DEF WakeCopyLeft, WakeCopyRight, WakeClear, SpiGoes, InWake
  <2> QED BY <1>1, <1>2, <2>1, <2>2
<1>7. CASE WakeCount
  <2>1. spi = "count" /\ spi' = "mix" /\ InWake /\ ~InWake'
        /\ UNCHANGED <<jack, jack_frame_done, replays>>
        /\ frame_counter' = (frame_counter + 1) % FrameSpan
    BY <1>7 DEF WakeCount, SpiGoes, InWake, NextFrame, history
  <2>2. done <= Grace /\ seen <= Grace
    BY <1>1, <1>2, <2>1
  <2>3. done' = done + 1 /\ seen' = seen + 1
    BY <1>1, <2>1, <2>2, OneFurther DEF done, seen
  <2> QED BY <1>1, <1>2, <2>1, <2>2, <2>3
<1>8. CASE Mix
  <2>1. done' = done /\ seen' = seen
    BY <1>8, <1>4 DEF Mix, shm
  <2>2. spi = "mix" /\ spi' = "test" /\ ~InWake'
    BY <1>8 DEF Mix, SpiGoes, InWake
  <2>3. replays' = replays \/ (done <= 2 /\ replays' = replays + 1)
    BY <1>8, <1>1 DEF Mix, Active
  <2> QED BY <1>1, <1>2, <2>1, <2>2, <2>3
<1>9. CASE Attach \/ Woken \/ TimesOut
  <2>1. UNCHANGED <<frame_counter, jack_frame_done, spi, replays>>
        /\ jack.last' = frame_counter
    <3>1. CASE Attach
      BY <3>1, <1>1 DEF Attach, shm, history, TypeOK
    <3>2. CASE Woken \/ TimesOut
      <4>1. NewCycle /\ UNCHANGED <<shm, spi, replays>>
        BY <3>2, Zenon DEF Woken, TimesOut, history
      <4> QED BY <4>1 DEF NewCycle, shm
    <3> QED BY <1>9, <3>1, <3>2
  <2>2. done' = done /\ seen' = 0
    BY <1>1, <2>1, Counters DEF done, seen
  <2>3. InWake' = InWake
    BY <2>1 DEF InWake
  <2> QED BY <1>1, <1>2, <2>1, <2>2, <2>3
<1>10. CASE Dies \/ WriteLeft \/ WriteRight \/ SignalReady \/ RunGraph
  <2>1. UNCHANGED <<frame_counter, jack_frame_done, spi, replays, jack.last>>
    BY <1>10, <1>1 DEF Dies, WriteLeft, WriteRight, SignalReady, RunGraph,
                       JackGoes, shm, history, TypeOK
  <2>2. done' = done /\ seen' = seen
    BY <1>4, <2>1
  <2>3. InWake' = InWake
    BY <2>1 DEF InWake
  <2> QED BY <1>1, <1>2, <2>1, <2>2, <2>3
<1>11. CASE SignalDone
  <2>1. UNCHANGED <<frame_counter, spi, jack.last>> /\ replays' = 0
        /\ jack_frame_done' = jack.last
    BY <1>11, <1>1 DEF SignalDone, JackGoes, TypeOK
  <2>2. done' = seen /\ seen' = seen
    BY <2>1 DEF done, seen
  <2>3. InWake' = InWake
    BY <2>1 DEF InWake
  <2> QED BY <1>1, <1>2, <2>1, <2>2, <2>3
<1>12. CASE UNCHANGED vars
  <2>1. UNCHANGED <<frame_counter, jack_frame_done, spi, replays, jack>>
    BY <1>12 DEF vars, shm, history
  <2>2. done' = done /\ seen' = seen
    BY <1>4, <2>1
  <2>3. InWake' = InWake
    BY <2>1 DEF InWake
  <2> QED BY <1>1, <1>2, <2>1, <2>2, <2>3
<1> QED
  BY <1>5, <1>6, <1>7, <1>8, <1>9, <1>10, <1>11, <1>12
  DEF Next, SpiStep, JackStep

(* JackInv holds at every moment.                                          *)
THEOREM JackInvariance == Spec => []JackInv
<1>1. JackInv /\ [Next]_vars => JackInv'
  BY TypeStep, BoundsStep DEF JackInv
<1> QED BY JackInvInit, <1>1, PTL DEF Spec

-----------------------------------------------------------------------------

(* jack_is_active and the test in schwung_jack_bridge_wake: whenever JACK  *)
(* dies, hangs or comes back, the shim is three frames ahead of it at      *)
(* most.                                                                   *)
THEOREM NeverFarAheadAlways == Spec => []NeverFarAhead
<1>1. JackInv => NeverFarAhead
  BY Counters DEF JackInv, AheadInv, NeverFarAhead
<1> QED BY JackInvariance, <1>1, PTL

(* schwung_jack_bridge_read_audio: the last block of a JACK that died is   *)
(* mixed three times at most.                                              *)
THEOREM DeadIsSilentAlways == Spec => []DeadIsSilent
<1>1. JackInv => DeadIsSilent
  BY DEF JackInv, ReplayInv, DeadIsSilent
<1> QED BY JackInvariance, <1>1, PTL
-----------------------------------------------------------------------------
(* Why a block is whole: from the flag to the copy JACK sits at its wait,  *)
(* or is gone, with nothing to wake it but the counter that the copy comes *)
(* before.                                                                 *)

Whole == audio_out.left = audio_out.right

Writing == jack.pc \in {"left", "right", "ready"}

CycleInv ==
  /\ jack.pc \in {"right", "ready"} => audio_out.left = jack.cycle
  /\ jack.pc = "ready" => audio_out.right = jack.cycle

FlagInv ==
  audio_ready /\ ~late /\ (Active \/ jack.pc = "done") =>
    /\ Whole /\ ~Writing
    /\ jack.pc # "gone" => jack.last = frame_counter

CopyInv ==
  /\ spi \in {"copy", "rest"} => audio_ready
  /\ spi = "count" /\ audio_ready => late
  /\ spi = "rest" /\ ~late => snapshot.left = audio_out.left

WholeInv == CycleInv /\ FlagInv /\ CopyInv

LEMMA WholeInvInit == Init => WholeInv
BY DEF Init, WholeInv, CycleInv, FlagInv, CopyInv

(* The shim never looks at a block unless JACK is active.                  *)
LEMMA WakesTheActive == JackInv /\ InWake => Active
BY Counters DEF JackInv, AheadInv, Active

LEMMA WholeInvNext ==
  ASSUME JackInv, WholeInv, [Next]_vars
  PROVE  WholeInv'
<1> USE DEF WholeInv
<1>1. /\ jack \in [pc : {"gone", "wait", "left", "right", "ready", "done", "graph"},
                   last : 0 .. FrameSpan - 1, cycle : {0, 1}]
      /\ audio_out \in [left : {0, 1}, right : {0, 1}]
      /\ snapshot \in [left : {0, 1}, right : {0, 1}]
  BY DEF JackInv, TypeOK, Block
<1>2. CASE WakeTest \/ Mix
  <2>1. /\ UNCHANGED <<frame_counter, jack_frame_done, audio_ready, audio_out,
                       snapshot, jack, late>>
        /\ spi' \in {"copy", "clear", "mix", "test"}
        /\ spi' = "copy" => audio_ready
    BY <1>2, Zenon DEF WakeTest, Mix, SpiGoes, shm, copied, history
  <2>2. Active' = Active
    BY <2>1, SameDistances
  <2>3. CycleInv' /\ FlagInv'
    BY <2>1, <2>2 DEF CycleInv, FlagInv, Whole, Writing
  <2>4. CopyInv'
    BY <2>1 DEF CopyInv
  <2> QED BY <2>3, <2>4
<1>3. CASE WakeCopyLeft \/ WakeCopyRight
  <2>1. /\ UNCHANGED <<frame_counter, jack_frame_done, audio_ready, audio_out,
                       jack, late>>
        /\ \/ spi = "copy" /\ spi' = "rest" /\ snapshot'.left = audio_out.left
           \/ spi' = "clear"
    BY <1>1, <1>3 DEF WakeCopyLeft, WakeCopyRight, SpiGoes, shm, history
  <2>2. Active' = Active
    BY <2>1, SameDistances
  <2>3. CycleInv' /\ FlagInv'
    BY <2>1, <2>2 DEF CycleInv, FlagInv, Whole, Writing
  <2>4. CopyInv'
    BY <2>1 DEF CopyInv
  <2> QED BY <2>3, <2>4
<1>4. CASE WakeClear
  <2>1. spi' = "count" /\ ~audio_ready' /\ UNCHANGED <<audio_out, jack>>
    BY <1>4 DEF WakeClear, SpiGoes
  <2> QED BY <2>1 DEF CycleInv, FlagInv, CopyInv
<1>5. CASE WakeCount
  <2>1. spi = "count" /\ spi' = "mix"
        /\ UNCHANGED <<audio_ready, audio_out, jack, late>>
    BY <1>5 DEF WakeCount, SpiGoes, history
  <2>2. ~(audio_ready' /\ ~late')
    BY <2>1 DEF CopyInv
  <2> QED BY <2>1, <2>2 DEF CycleInv, FlagInv, CopyInv
<1>6. CASE Attach \/ Dies \/ RunGraph
  <2>1. /\ UNCHANGED <<frame_counter, jack_frame_done, audio_ready, audio_out,
                       snapshot, spi, late>>
        /\ jack'.pc \in {"gone", "wait"}
        /\ \/ jack'.pc = "gone"
           \/ jack'.last = frame_counter
           \/ jack.pc = "graph" /\ jack'.last = jack.last
    BY <1>1, <1>6 DEF Attach, Dies, RunGraph, JackGoes, shm, copied, history
  <2>2. Active' = Active
    BY <2>1 DEF Active, Behind
  <2>3. CASE jack.pc = "done"
    BY <1>6, <2>1, <2>2, <2>3 DEF Attach, Dies, RunGraph, JackGoes,
                                  CycleInv, FlagInv, CopyInv, Whole, Writing
  <2>4. CASE jack.pc # "done"
    <3>1. CycleInv' /\ CopyInv'
      BY <2>1 DEF CycleInv, CopyInv
    <3>2. audio_ready /\ ~late /\ Active =>
            Whole /\ (jack.pc # "gone" => jack.last = frame_counter)
      BY DEF FlagInv
    <3>3. jack'.pc # "gone" => jack'.last = frame_counter \/ jack.pc # "gone"
      BY <2>1
    <3> QED BY <2>1, <2>2, <3>1, <3>2, <3>3 DEF FlagInv, Whole, Writing
  <2> QED BY <2>3, <2>4
<1>7. CASE Woken \/ TimesOut
  <2>1. /\ UNCHANGED <<frame_counter, jack_frame_done, audio_ready, audio_out,
                       snapshot, spi>>
        /\ jack.pc = "wait" /\ jack'.pc = "left"
    <3>1. /\ jack.pc = "wait" /\ NewCycle
          /\ UNCHANGED shm /\ UNCHANGED copied /\ UNCHANGED spi
      BY <1>7, Zenon DEF Woken, TimesOut
    <3> QED BY <3>1 DEF NewCycle, shm, copied
  <2>2. Active' = Active
    BY <2>1 DEF Active, Behind
  <2>3. ~(audio_ready /\ ~late' /\ Active) /\ (late => late' \/ ~Active)
    <3>1. CASE Woken
      <4>1. late' = late /\ frame_counter # jack.last
        BY <3>1 DEF Woken, history
      <4> QED BY <2>1, <4>1 DEF FlagInv
    <3>2. CASE TimesOut
      <4>1. late' = Active
        BY <3>2, Zenon DEF TimesOut
      <4> QED BY <4>1
    <3> QED BY <1>7, <3>1, <3>2
  <2>4. CycleInv' /\ FlagInv'
    BY <2>1, <2>2, <2>3 DEF CycleInv, FlagInv
  <2>5. CopyInv'
    <3>1. InWake => Active
      BY WakesTheActive
    <3> QED BY <2>1, <2>3, <3>1 DEF CopyInv, InWake
  <2> QED BY <2>4, <2>5
<1>8. CASE WriteLeft \/ WriteRight
  <2>1. /\ UNCHANGED <<frame_counter, jack_frame_done, audio_ready, snapshot,
                       spi, late>>
        /\ Writing /\ jack'.pc \in {"right", "ready"}
        /\ jack'.cycle = jack.cycle
        /\ \/ /\ jack'.pc = "right" /\ audio_out'.left = jack.cycle
           \/ /\ jack.pc = "right" /\ audio_out'.right = jack.cycle
              /\ audio_out'.left = audio_out.left
    BY <1>1, <1>8 DEF WriteLeft, WriteRight, JackGoes, copied, history, Writing
  <2>2. Active' = Active
    BY <2>1 DEF Active, Behind
  <2>3. ~(audio_ready /\ ~late /\ Active)
    BY <2>1 DEF FlagInv
  <2>4. CycleInv'
    BY <2>1 DEF CycleInv
  <2>5. FlagInv'
    BY <2>1, <2>2, <2>3 DEF FlagInv
  <2>6. CopyInv'
    <3>1. InWake => Active
      BY WakesTheActive
    <3> QED BY <2>1, <2>3, <3>1 DEF CopyInv, InWake
  <2> QED BY <2>4, <2>5, <2>6
<1>9. CASE SignalReady
  <2>1. /\ UNCHANGED <<frame_counter, audio_out, spi>>
        /\ jack.pc = "ready" /\ jack'.pc = "done" /\ jack'.last = jack.last
        /\ audio_ready' /\ (~late' => frame_counter = jack.last /\ ~InWake)
    BY <1>1, <1>9 DEF SignalReady, JackGoes
  <2>2. Whole' /\ ~Writing'
    BY <2>1 DEF CycleInv, Whole, Writing
  <2> QED BY <2>1, <2>2 DEF CycleInv, FlagInv, CopyInv, InWake
<1>10. CASE SignalDone
  <2>1. /\ UNCHANGED <<frame_counter, audio_ready, audio_out, snapshot, spi, late>>
        /\ jack.pc = "done" /\ jack'.pc = "graph" /\ jack'.last = jack.last
    BY <1>1, <1>10 DEF SignalDone, JackGoes, copied
  <2> QED BY <2>1 DEF CycleInv, FlagInv, CopyInv, Whole, Writing
<1>11. CASE UNCHANGED vars
  <2>1. UNCHANGED <<frame_counter, jack_frame_done, audio_ready, audio_out,
                    snapshot, spi, late, jack>>
    BY <1>11 DEF vars, shm, copied, history
  <2>2. Active' = Active
    BY <2>1 DEF Active, Behind
  <2> QED BY <2>1, <2>2 DEF CycleInv, FlagInv, CopyInv, Whole, Writing
<1> QED
  BY <1>2, <1>3, <1>4, <1>5, <1>6, <1>7, <1>8, <1>9, <1>10, <1>11
  DEF Next, SpiStep, JackStep

(* memcpy of s_jack_audio_snapshot: a block whose flag went up in time is  *)
(* copied whole.                                                           *)
THEOREM AlwaysWholeUnlessLate == Spec => WholeUnlessLate
<1>1. WholeInv /\ JackInv /\ [Next]_vars => WholeInv'
  BY WholeInvNext
<1>2. ASSUME WholeInv, JackInv, [Next]_vars,
             spi = "rest", spi' = "clear", ~late
      PROVE  snapshot'.left = snapshot'.right
  <2>1. WakeCopyRight
    BY <1>2 DEF Next, SpiStep, JackStep, WakeTest, WakeCopyLeft, WakeClear,
                WakeCount, Mix, SpiGoes, Attach, Dies, Woken, TimesOut,
                WriteLeft, WriteRight, SignalReady, SignalDone, RunGraph, vars
  <2>2. snapshot' = [snapshot EXCEPT !.right = audio_out.right]
    BY <2>1 DEF WakeCopyRight
  <2>3. snapshot \in [left : {0, 1}, right : {0, 1}]
    BY <1>2 DEF JackInv, TypeOK, Block
  <2>4. Active
    BY <1>2, WakesTheActive DEF InWake
  <2>5. snapshot.left = audio_out.left /\ audio_ready
    BY <1>2 DEF WholeInv, CopyInv
  <2>6. audio_out.left = audio_out.right
    BY <1>2, <2>4, <2>5 DEF WholeInv, FlagInv, Whole
  <2> QED BY <2>2, <2>3, <2>5, <2>6
<1>3. WholeInv /\ JackInv /\ [Next]_vars =>
        [spi = "rest" /\ spi' = "clear" /\ ~late =>
           snapshot'.left = snapshot'.right]_vars
  BY <1>2
<1> QED
  BY <1>1, <1>3, WholeInvInit, JackInvariance, PTL DEF Spec, WholeUnlessLate

-----------------------------------------------------------------------------
(* LinkIn *)

(* Arithmetic modulo n, from the quotient and the remainder. *)
LEMMA DivMod ==
  ASSUME NEW n \in Nat \ {0}, NEW a \in Int
  PROVE  /\ a \div n \in Int /\ a % n \in 0 .. n - 1
         /\ a = ((a \div n) * n) + (a % n)
  OBVIOUS

(* The next multiple is n further at least. *)
LEMMA NextMultiple ==
  ASSUME NEW n \in Nat \ {0}, NEW p \in Int, NEW q \in Int, p < q
  PROVE  (p * n) + n <= q * n
<1>1. (q - p - 1) * n >= 0
  OBVIOUS
<1> QED
  BY <1>1

(* Quotient and remainder are unique. *)
LEMMA ModIs ==
  ASSUME NEW n \in Nat \ {0}, NEW q \in Int, NEW r \in 0 .. n - 1
  PROVE  ((q * n) + r) % n = r
<1> DEFINE a == (q * n) + r
           p == a \div n
<1>1. a \in Int /\ q * n \in Int
  OBVIOUS
<1>2. p \in Int /\ a % n \in 0 .. n - 1 /\ a = (p * n) + (a % n)
  BY <1>1, DivMod
<1>3. p * n \in Int
  BY <1>2
<1> HIDE DEF p
<1>4. CASE p < q
  <2>1. (p * n) + n <= q * n
    BY <1>2, <1>4, NextMultiple
  <2> QED
    BY <1>1, <1>2, <1>3, <2>1
<1>5. CASE q < p
  <2>1. (q * n) + n <= p * n
    BY <1>2, <1>5, NextMultiple
  <2> QED
    BY <1>1, <1>2, <1>3, <2>1
<1>6. CASE p = q
  BY <1>1, <1>2, <1>6
<1> QED
  BY <1>2, <1>4, <1>5, <1>6

(* What differs by a multiple of n is the same modulo n.                   *)
LEMMA ModShift ==
  ASSUME NEW n \in Nat \ {0}, NEW q \in Int, NEW a \in Int
  PROVE  ((q * n) + a) % n = a % n
<1>1. PICK p \in Int, r \in 0 .. n - 1 : a = (p * n) + r /\ r = a % n
  BY DivMod
<1>2. (q * n) + a = ((q + p) * n) + r
  BY <1>1
<1>3. (((q + p) * n) + r) % n = r
  <2> DEFINE m == q + p
  <2>1. m \in Int
    BY <1>1
  <2> HIDE DEF m
  <2>2. ((m * n) + r) % n = r
    BY <1>1, <2>1, ModIs
  <2> QED
    BY <2>2 DEF m
<1> QED
  BY <1>1, <1>2, <1>3

(* Adding to a remainder is adding to the number. *)
LEMMA ModPlus ==
  ASSUME NEW n \in Nat \ {0}, NEW a \in Int, NEW k \in Int
  PROVE  ((a % n) + k) % n = (a + k) % n
<1>1. PICK q \in Int, r \in 0 .. n - 1 : a = (q * n) + r /\ r = a % n
  BY DivMod
<1>2. a + k = (q * n) + (r + k)
  BY <1>1
<1>3. ((q * n) + (r + k)) % n = (r + k) % n
  <2> DEFINE m == r + k
  <2>1. m \in Int
    BY <1>1
  <2> HIDE DEF m
  <2>2. ((q * n) + m) % n = m % n
    BY <1>1, <2>1, ModShift
  <2> QED
    BY <2>2 DEF m
<1> QED
  BY <1>1, <1>2, <1>3

(* The difference of two remainders is that of the numbers. *)
LEMMA ModMinus ==
  ASSUME NEW n \in Nat \ {0}, NEW a \in Int, NEW b \in Int
  PROVE  ((a % n) - (b % n)) % n = (a - b) % n
<1>1. PICK q \in Int, r \in 0 .. n - 1 : b = (q * n) + r /\ r = b % n
  BY DivMod
<1>2. ((a % n) - r) % n = (a - r) % n
  <2> DEFINE k == 0 - r
  <2>1. k \in Int /\ a % n \in Int
    BY <1>1, DivMod
  <2>2. (a % n) - r = (a % n) + k /\ a - r = a + k
    BY <1>1, <2>1
  <2> HIDE DEF k
  <2>3. ((a % n) + k) % n = (a + k) % n
    BY <2>1, ModPlus
  <2> QED
    BY <2>2, <2>3
<1>3. a - r = (q * n) + (a - b)
  <2> DEFINE x == q * n
  <2>1. x \in Int /\ b = x + r /\ r \in Int
    BY <1>1
  <2> HIDE DEF x
  <2>2. a - r = x + (a - b)
    BY <2>1
  <2> QED
    BY <2>2 DEF x
<1>4. ((q * n) + (a - b)) % n = (a - b) % n
  <2> DEFINE m == a - b
  <2>1. m \in Int
    OBVIOUS
  <2> HIDE DEF m
  <2>2. ((q * n) + m) % n = m % n
    BY <1>1, <2>1, ModShift
  <2> QED
    BY <2>2 DEF m
<1> QED
  BY <1>1, <1>2, <1>3, <1>4

(* What is below n is its own remainder. *)
LEMMA ModSmall ==
  ASSUME NEW n \in Nat \ {0}, NEW a \in 0 .. n - 1
  PROVE  a % n = a
  OBVIOUS

(* The ring divides the span of the positions.                             *)
LEMMA ModOfSpan ==
  ASSUME NEW a \in Int
  PROVE  (a % PosSpan) % Ring = a % Ring
<1>1. Ring \in Nat \ {0} /\ PosSpan \in Nat \ {0} /\ PosSpan % Ring = 0
  BY LinkAssumption
<1>2. PICK c \in Int : PosSpan = c * Ring
  <2>1. /\ PosSpan \div Ring \in Int
        /\ PosSpan = ((PosSpan \div Ring) * Ring) + (PosSpan % Ring)
    BY <1>1, DivMod
  <2> DEFINE d == PosSpan \div Ring
  <2> HIDE DEF d
  <2>2. d \in Int /\ PosSpan = d * Ring
    BY <1>1, <2>1 DEF d
  <2> QED
    BY <2>2
<1>3. PICK q \in Int, r \in 0 .. PosSpan - 1 :
        a = (q * PosSpan) + r /\ r = a % PosSpan
  BY <1>1, DivMod
<1>4. q * PosSpan = (q * c) * Ring
  BY <1>1, <1>2, <1>3
<1>5. (((q * c) * Ring) + r) % Ring = r % Ring
  <2> DEFINE m == q * c
  <2>1. m \in Int /\ r \in Int
    BY <1>2, <1>3, <1>1
  <2> HIDE DEF m
  <2>2. ((m * Ring) + r) % Ring = r % Ring
    BY <1>1, <1>3, <2>1, ModShift
  <2> QED
    BY <2>2 DEF m
<1> QED
  BY <1>3, <1>4, <1>5
-----------------------------------------------------------------------------

(* A backlog of more than this many frames is jumped over. *)
Threshold == CatchBlocks * Need

(* The threshold is a block at least and leaves room in the ring. *)
LEMMA ThresholdIs ==
  /\ Threshold \in Nat /\ Need <= Threshold /\ Threshold < Ring
  /\ Target <= Threshold
  /\ TooMuch <=> Avail > Threshold
  /\ Margin = Ring - Threshold
<1>1. Need \in Nat \ {0} /\ CatchBlocks \in Nat \ {0}
  BY LinkAssumption
<1>2. CatchBlocks * Need \in Nat /\ (CatchBlocks - 1) * Need >= 0
  BY <1>1
<1>3. CatchBlocks * Need = ((CatchBlocks - 1) * Need) + Need
  BY <1>1
<1>4. CatchBlocks * Need >= Need
  BY <1>1, <1>2, <1>3
<1> QED
  BY <1>2, <1>4, LinkAssumption DEF Threshold, TooMuch, Margin

(* Where a block that has been heard ends. *)
HeardTo == heard.at + Len(heard.frames)

(* All that was copied into the ring, announced or not. *)
Stored == produced + sidecar

(* Announced when the block being copied was chosen, plus what the sidecar *)
(* had in hand then.                                                       *)
StoredAtLoad == Stored - since

CountInv ==
  /\ produced \in Nat /\ at \in Nat /\ since \in Nat
  /\ sidecar \in Buffers \cup {0}
  /\ mix \in {"frame", "load", "copy"}
  /\ rebuild \in BOOLEAN
  /\ mix # "frame" => rebuild
  /\ mix # "copy" => since = 0

(* The positions in shared memory are the true ones modulo their width.    *)
PositionInv ==
  /\ write_pos = produced % PosSpan
  /\ read_pos = at % PosSpan

(* The ring holds the last frames stored. *)
RingInv ==
  \A m \in Nat : m < Stored /\ Stored - Ring <= m => ring[m % Ring] = m

(* While it is read the reader is not a whole turn of the positions        *)
(* behind; where it has overshot, a block has been produced before.        *)
SpanInv ==
  /\ rebuild => Stored - at < PosSpan
  /\ at <= produced \/ produced >= Need

(* The block to be copied lies within the threshold of what was there when *)
(* it was chosen.                                                          *)
PlanInv ==
  mix = "copy" =>
    /\ plan.n \in 1 .. Need /\ plan.at \in Nat
    /\ plan.rp = plan.at % PosSpan
    /\ sidecar <= since /\ since < PosSpan
    /\ plan.there => plan.at + plan.n <= StoredAtLoad
    /\ StoredAtLoad - Threshold <= plan.at
    /\ plan.at + plan.n >= at \/ plan.at + plan.n >= StoredAtLoad
    /\ plan.at + plan.n <= produced \/ produced >= Need

(* Unless the last block was not all there, the next frame to read comes   *)
(* after it and has been, or will next be, produced.                       *)
HeardInv ==
  /\ HeardTo \in Nat
  /\ heard.sound => HeardTo <= at /\ at <= produced
  /\ HeardAsProduced

LinkInv ==
  CountInv /\ PositionInv /\ RingInv /\ SpanInv /\ PlanInv /\ HeardInv

(* At the start nothing has been produced.                                 *)
LEMMA LinkInvInit == LinkInit => LinkInv
<1> SUFFICES ASSUME LinkInit PROVE LinkInv
  OBVIOUS
<1> USE DEF LinkInit, Stored, HeardTo, NoBlock
<1>1. PosSpan \in Nat \ {0} /\ Ring \in Nat /\ Need \in Nat
  BY LinkAssumption
<1>2. CountInv
  BY DEF CountInv
<1>3. PositionInv
  BY <1>1, ModSmall DEF PositionInv
<1>4. RingInv /\ SpanInv /\ PlanInv
  BY <1>1 DEF RingInv, SpanInv, PlanInv
<1>5. HeardInv
  BY DEF HeardInv, HeardAsProduced
<1> QED
  BY <1>2, <1>3, <1>4, <1>5 DEF LinkInv

(* The constants and counters, and that what is stored is counted.         *)
LEMMA LinkNumbers ==
  ASSUME LinkInv
  PROVE  /\ Ring \in Nat \ {0} /\ PosSpan \in Nat \ {0} /\ Ring < PosSpan
         /\ Need \in Nat \ {0}
         /\ sidecar \in 0 .. Ring
         /\ produced \in Nat /\ at \in Nat /\ since \in Nat
         /\ Stored \in Nat /\ produced <= Stored
         /\ Avail \in 0 .. PosSpan - 1
<1>1. Ring \in Nat \ {0} /\ PosSpan \in Nat \ {0} /\ Ring < PosSpan
      /\ Need \in Nat \ {0}
  BY LinkAssumption
<1>2. sidecar \in 0 .. Ring /\ produced \in Nat /\ at \in Nat /\ since \in Nat
  BY <1>1, LinkAssumption DEF LinkInv, CountInv
<1>3. write_pos \in Int /\ read_pos \in Int
  BY <1>1, <1>2, DivMod DEF LinkInv, PositionInv
<1>4. Avail \in 0 .. PosSpan - 1
  <2> DEFINE d == write_pos - read_pos
  <2>1. d \in Int
    BY <1>3
  <2> HIDE DEF d
  <2>2. d % PosSpan \in 0 .. PosSpan - 1
    BY <1>1, <2>1, DivMod
  <2> QED
    BY <2>2 DEF d, Avail
<1> QED
  BY <1>1, <1>2, <1>4 DEF Stored

(* A reader that has not overshot sees the backlog as it is.               *)
LEMMA AvailIs ==
  ASSUME LinkInv, rebuild, at <= produced
  PROVE  Avail = produced - at
<1>1. Avail = (produced - at) % PosSpan
  BY LinkNumbers, ModMinus DEF Avail, LinkInv, PositionInv
<1>2. produced - at \in 0 .. PosSpan - 1
  BY LinkNumbers DEF LinkInv, SpanInv, Stored
<1> DEFINE d == produced - at
<1> HIDE DEF d
<1>3. d \in 0 .. PosSpan - 1 => d % PosSpan = d
  BY LinkNumbers, ModSmall
<1> QED
  BY <1>1, <1>2, <1>3 DEF d

(* What may be dropped is there, what is repeated leaves something to      *)
(* repeat, and after a jump nothing is.                                    *)
LEMMA Corrections ==
  ASSUME LinkInv
  PROVE  /\ Skip \in Nat /\ (Skip > 0 => Avail >= Need + Skip)
         /\ Pad \in Nat /\ Need - Pad \in 1 .. Need
         /\ TooMuch => Pad = 0
<1>1. Need \in Nat \ {0} /\ Avail \in Nat
  BY LinkNumbers
<1>2. DeadBand \in Nat /\ Target \in Nat /\ BurstFrames \in Nat \ {0}
  BY LinkAssumption
<1>3. \A e : Correction(e) \in Nat \ {0}
  BY <1>2 DEF Correction
<1>4. Skip \in Nat /\ (Skip > 0 => Avail >= Need + Skip)
  BY <1>3 DEF Skip
<1>5. Pad \in Nat /\ Need - Pad \in 1 .. Need
  BY <1>1, <1>3 DEF Pad
<1>6. TooMuch => ~BelowTarget
  BY <1>1, <1>2, ThresholdIs DEF BelowTarget
<1>7. TooMuch => Pad = 0
  BY <1>6 DEF Pad
<1> QED
  BY <1>4, <1>5, <1>7

(* The block chosen by a read.                                             *)
LEMMA LoadPlan ==
  ASSUME LinkInv, Load
  PROVE  /\ plan'.n \in 1 .. Need /\ plan'.at \in Nat
         /\ plan'.rp = plan'.at % PosSpan
         /\ plan'.there => plan'.at + plan'.n <= produced
         /\ produced - Threshold <= plan'.at
         /\ plan'.at + plan'.n >= at \/ plan'.at + plan'.n >= produced
         /\ plan'.at + plan'.n <= produced \/ produced >= Need
         /\ heard.sound => plan'.at >= HeardTo
<1>1. /\ plan'.rp = (Caught + Skip) % PosSpan /\ plan'.n = Need - Pad
      /\ plan'.at = CaughtAt + Skip
      /\ plan'.there => CaughtAt + Skip + Need - Pad <= produced
      /\ Avail >= Need /\ rebuild
  BY DEF Load, LinkInv, CountInv
<1>2. /\ Skip \in Nat /\ (Skip > 0 => Avail >= Need + Skip)
      /\ Pad \in Nat /\ Need - Pad \in 1 .. Need
      /\ TooMuch => Pad = 0
  BY Corrections
<1>3. /\ produced \in Nat /\ at \in Nat /\ Need \in Nat \ {0}
      /\ PosSpan \in Nat \ {0} /\ Avail \in Nat
  BY LinkNumbers
<1>4. /\ Threshold \in Nat /\ Need <= Threshold
      /\ TooMuch <=> Avail > Threshold
  BY ThresholdIs
<1>5. at <= produced => Avail = produced - at
  BY <1>1, AvailIs
<1>6. at <= produced \/ produced >= Need
  BY DEF LinkInv, SpanInv
<1>7. heard.sound => HeardTo <= at /\ at <= produced
  BY DEF LinkInv, HeardInv
<1>8. HeardTo \in Nat
  BY DEF LinkInv, HeardInv
<1>9. CaughtAt \in Int /\ Caught = CaughtAt % PosSpan
  <2>1. CASE TooMuch
    <3>1. Caught = ((produced % PosSpan) - Need) % PosSpan
          /\ CaughtAt = produced - Need
      BY <2>1 DEF Caught, CaughtAt, LinkInv, PositionInv
    <3> DEFINE k == 0 - Need
    <3>2. k \in Int /\ produced - Need = produced + k
          /\ (produced % PosSpan) - Need = (produced % PosSpan) + k
      BY <1>3, DivMod
    <3> HIDE DEF k
    <3>3. ((produced % PosSpan) + k) % PosSpan = (produced + k) % PosSpan
      <4>1. produced \in Int
        BY <1>3
      <4> QED
        BY <1>3, <3>2, <4>1, ModPlus, Zenon
    <3> QED
      BY <1>3, <3>1, <3>2, <3>3
  <2>2. CASE ~TooMuch
    BY <1>3, <2>2 DEF Caught, CaughtAt, LinkInv, PositionInv
  <2> QED
    BY <2>1, <2>2
<1>10. plan'.rp = plan'.at % PosSpan
  <2>1. Skip \in Int
    BY <1>2
  <2>2. ((CaughtAt % PosSpan) + Skip) % PosSpan = (CaughtAt + Skip) % PosSpan
    BY <1>3, <1>9, <2>1, ModPlus, Zenon
  <2> QED
    BY <1>1, <1>9, <2>2, Zenon
<1>11. CASE TooMuch
  <2>1. CaughtAt = produced - Need /\ Pad = 0
    BY <1>2, <1>11 DEF CaughtAt
  <2>2. produced >= Need
    BY <1>3, <1>4, <1>5, <1>6, <1>11
  <2>3. heard.sound => produced - Need >= at
    BY <1>3, <1>4, <1>5, <1>7, <1>11
  <2> QED
    BY <1>1, <1>2, <1>3, <1>4, <1>7, <1>8, <1>10, <2>1, <2>2, <2>3
<1>12. CASE ~TooMuch
  <2>1. CaughtAt = at
    BY <1>12 DEF CaughtAt
  <2>2. at > produced \/ (Avail = produced - at /\ Avail <= Threshold)
    BY <1>3, <1>4, <1>5, <1>12
  <2> QED
    BY <1>1, <1>2, <1>3, <1>4, <1>6, <1>7, <1>8, <1>10, <2>1, <2>2
<1> QED
  BY <1>11, <1>12

(* A buffer of the sidecar goes where the ring continues.                  *)
LEMMA StoresNext ==
  ASSUME LinkInv, SidecarCopies
  PROVE  RingInv'
<1>1. PICK k \in Buffers :
        ring' = Filled(write_pos, k) /\ sidecar' = k /\ produced' = produced
  BY DEF SidecarCopies
<1>2. /\ sidecar = 0 /\ k \in 1 .. Ring /\ Ring \in Nat \ {0}
      /\ produced \in Nat /\ PosSpan \in Nat \ {0}
  BY LinkNumbers, LinkAssumption DEF SidecarCopies
<1> SUFFICES ASSUME NEW m \in Nat, m < produced + k,
                    produced + k - Ring <= m
             PROVE  ring'[m % Ring] = m
  <2>1. Stored' = produced + k
    BY <1>1 DEF Stored
  <2> QED
    BY <1>1, <1>2, <2>1 DEF RingInv
<1> DEFINE d == m - produced
           q == m % Ring
<1>3. d \in Int /\ d < k /\ k - Ring <= d
  BY <1>2
<1>4. q \in 0 .. Ring - 1
  BY <1>2, DivMod
<1>5. (q - write_pos) % Ring = d % Ring
  <2>1. write_pos \in Int /\ write_pos % Ring = produced % Ring
    <3>1. produced \in Int /\ write_pos = produced % PosSpan
      BY <1>2 DEF LinkInv, PositionInv
    <3>2. produced % PosSpan \in Int
      BY <1>2, <3>1, DivMod
    <3> QED
      BY <3>1, <3>2, ModOfSpan, Zenon
  <2>2. q % Ring = q
    BY <1>2, <1>4, ModSmall
  <2>3. (q - write_pos) % Ring = ((q % Ring) - (write_pos % Ring)) % Ring
    <3> HIDE DEF q
    <3>1. q \in Int
      BY <1>4
    <3> QED
      BY <1>2, <2>1, <3>1, ModMinus, Zenon
  <2>4. (m - produced) % Ring = ((m % Ring) - (produced % Ring)) % Ring
    <3>1. m \in Int /\ produced \in Int
      BY <1>2
    <3> QED
      BY <1>2, <3>1, ModMinus, Zenon
  <2> QED
    BY <2>1, <2>2, <2>3, <2>4
<1>6. ring'[q] = IF d % Ring < k THEN produced + (d % Ring) ELSE ring[q]
  BY <1>1, <1>4, <1>5 DEF Filled
<1>7. CASE d >= 0
  <2>1. d \in 0 .. Ring - 1
    BY <1>2, <1>3, <1>7
  <2>2. d % Ring = d
    BY <1>2, <2>1, ModSmall
  <2> QED
    BY <1>2, <1>3, <1>6, <2>2
<1>8. CASE d < 0
  <2>1. d + Ring \in 0 .. Ring - 1
    BY <1>2, <1>3, <1>8
  <2>2. d % Ring = d + Ring
    <3>1. (d + Ring) % Ring = d + Ring
      BY <1>2, <2>1, ModSmall
    <3>2. ((1 * Ring) + d) % Ring = d % Ring
      <4> HIDE DEF d
      <4>1. 1 \in Int
        OBVIOUS
      <4> QED
        BY <1>2, <1>3, <4>1, ModShift, Zenon
    <3>3. (1 * Ring) + d = d + Ring
      BY <1>2, <1>3
    <3> QED
      BY <3>1, <3>2, <3>3
  <2>3. ring[q] = m
    <3>1. m < Stored /\ Stored - Ring <= m
      BY <1>2, <1>3, <1>8 DEF Stored
    <3> QED
      BY <3>1 DEF LinkInv, RingInv
  <2> QED
    BY <1>2, <1>3, <1>6, <2>2, <2>3
<1> QED
  BY <1>3, <1>7, <1>8

(* What a block copies out of the ring.                                    *)
LEMMA CopiesProduced ==
  ASSUME LinkInv, Copy
  PROVE  /\ HeardTo' = plan.at + plan.n
         /\ heard'.sound => plan.at + plan.n <= produced
         /\ HeardAsProduced'
<1>1. heard' = [at |-> plan.at,
                frames |-> [i \in 1 .. plan.n |->
                              ring[(plan.rp + i - 1) % Ring]],
                sound |-> plan.there /\ since <= Margin]
  BY DEF Copy
<1>2. /\ plan.n \in 1 .. Need /\ plan.at \in Nat
      /\ plan.rp = plan.at % PosSpan
      /\ sidecar <= since
      /\ plan.there => plan.at + plan.n <= StoredAtLoad
      /\ StoredAtLoad - Threshold <= plan.at
  BY DEF Copy, LinkInv, PlanInv
<1>3. /\ Ring \in Nat \ {0} /\ PosSpan \in Nat \ {0} /\ produced \in Nat
      /\ sidecar \in Nat /\ since \in Nat /\ Need \in Nat
      /\ StoredAtLoad = produced + sidecar - since
      /\ Stored = produced + sidecar
  BY LinkNumbers DEF StoredAtLoad, Stored
<1>4. Len(heard'.frames) = plan.n /\ heard'.at = plan.at
  BY <1>1, <1>2, <1>3
<1>5. HeardAsProduced'
  <2> SUFFICES ASSUME heard'.sound, NEW i \in 1 .. plan.n
               PROVE  heard'.frames[i] = plan.at + i - 1
    BY <1>4 DEF HeardAsProduced
  <2> DEFINE m == plan.at + i - 1
  <2>1. m \in Nat /\ i \in Int /\ i >= 1 /\ i <= plan.n
    BY <1>2, <1>3
  <2>2. plan.there /\ since <= Ring - Threshold
    BY <1>1, ThresholdIs
  <2>3. m < Stored /\ Stored - Ring <= m
    BY <1>2, <1>3, <2>1, <2>2, ThresholdIs
  <2>4. ring[m % Ring] = m
    BY <2>1, <2>3 DEF LinkInv, RingInv
  <2>5. (plan.rp + i - 1) % Ring = m % Ring
    <3> DEFINE k == i - 1
    <3>0. plan.at \in Int /\ plan.rp \in Int
      <4>1. plan.at \in Int
        BY <1>2
      <4>2. plan.at % PosSpan \in 0 .. PosSpan - 1
        BY <1>3, <4>1, DivMod, Zenon
      <4> QED
        BY <1>2, <1>3, <4>1, <4>2
    <3>1. k \in Int /\ m = plan.at + k /\ plan.rp + i - 1 = plan.rp + k
      BY <2>1, <3>0
    <3> HIDE DEF k, m
    <3>2. (plan.rp + k) % Ring = ((plan.rp % Ring) + k) % Ring
      BY <1>3, <3>0, <3>1, ModPlus, Zenon
    <3>3. plan.rp % Ring = plan.at % Ring
      BY <1>2, <3>0, ModOfSpan, Zenon
    <3>4. (plan.at + k) % Ring = ((plan.at % Ring) + k) % Ring
      BY <1>3, <3>0, <3>1, ModPlus, Zenon
    <3> QED
      BY <3>1, <3>2, <3>3, <3>4
  <2>6. heard'.frames[i] = ring[(plan.rp + i - 1) % Ring]
    BY <1>1
  <2> QED
    BY <2>4, <2>5, <2>6
<1>6. heard'.sound => plan.at + plan.n <= produced
  <2> SUFFICES ASSUME heard'.sound PROVE plan.at + plan.n <= produced
    OBVIOUS
  <2>1. plan.at + plan.n <= StoredAtLoad
    BY <1>1, <1>2
  <2> QED
    BY <1>2, <1>3, <2>1
<1> QED
  BY <1>4, <1>5, <1>6 DEF HeardTo

(* Every step of the sidecar and of the SPI thread keeps LinkInv.          *)
LEMMA LinkInvStep ==
  ASSUME LinkInv, [LinkNext]_linkVars
  PROVE  LinkInv'
<1>1. /\ CountInv /\ PositionInv /\ RingInv /\ SpanInv /\ PlanInv /\ HeardInv
      /\ Ring \in Nat \ {0} /\ PosSpan \in Nat \ {0} /\ Ring < PosSpan
      /\ Need \in Nat \ {0} /\ sidecar \in 0 .. Ring
      /\ produced \in Nat /\ at \in Nat /\ since \in Nat
  BY LinkNumbers DEF LinkInv
<1>2. CASE SidecarCopies
  <2>1. PICK k \in Buffers :
          /\ InSpan(k) /\ sidecar' = k
          /\ since' = IF mix = "copy" THEN since + k ELSE since
    BY <1>2 DEF SidecarCopies
  <2>2. /\ sidecar = 0 /\ k \in 1 .. Ring
        /\ UNCHANGED <<write_pos, read_pos, rebuild, mix, plan, produced, at,
                       heard>>
    BY <1>2, LinkAssumption DEF SidecarCopies, reader
  <2>3. CountInv'
    BY <1>1, <2>1, <2>2 DEF CountInv
  <2>4. PositionInv' /\ HeardInv'
    BY <1>1, <2>2 DEF PositionInv, HeardInv, HeardTo, HeardAsProduced
  <2>5. SpanInv'
    BY <1>1, <2>1, <2>2 DEF SpanInv, Stored, InSpan
  <2>6. PlanInv'
    <3> SUFFICES ASSUME mix = "copy" PROVE PlanInv'
      BY <2>2 DEF PlanInv
    <3>1. since' = since + k /\ since + k < PosSpan
      BY <1>1, <2>1 DEF InSpan, CountInv
    <3>2. StoredAtLoad' = StoredAtLoad
      BY <1>1, <2>1, <2>2, <3>1 DEF StoredAtLoad, Stored
    <3> QED
      BY <1>1, <2>1, <2>2, <3>1, <3>2 DEF PlanInv
  <2>7. RingInv'
    BY <1>2, StoresNext
  <2> QED
    BY <2>3, <2>4, <2>5, <2>6, <2>7 DEF LinkInv
<1>3. CASE SidecarPublishes
  <2>1. /\ sidecar > 0 /\ sidecar' = 0 /\ produced' = produced + sidecar
        /\ write_pos' = (write_pos + sidecar) % PosSpan
        /\ UNCHANGED <<ring, read_pos, rebuild, mix, plan, at, heard, since>>
    BY <1>3 DEF SidecarPublishes, reader
  <2>2. CountInv'
    BY <1>1, <2>1 DEF CountInv
  <2>3. PositionInv'
    <3>1. sidecar \in Int /\ produced \in Int
      BY <1>1
    <3>2. ((produced % PosSpan) + sidecar) % PosSpan
            = (produced + sidecar) % PosSpan
      BY <1>1, <3>1, ModPlus, Zenon
    <3> QED
      BY <1>1, <2>1, <3>2 DEF PositionInv
  <2>4. Stored' = Stored /\ StoredAtLoad' = StoredAtLoad
    BY <1>1, <2>1 DEF Stored, StoredAtLoad
  <2>5. RingInv'
    BY <1>1, <2>1, <2>4 DEF RingInv
  <2>6. SpanInv'
    BY <1>1, <2>1, <2>4 DEF SpanInv
  <2>7. PlanInv'
    BY <1>1, <2>1, <2>4 DEF PlanInv
  <2>8. HeardInv'
    BY <1>1, <2>1 DEF HeardInv, HeardTo, HeardAsProduced
  <2> QED
    BY <2>2, <2>3, <2>5, <2>6, <2>7, <2>8 DEF LinkInv
<1>4. CASE \/ Resubscribes \/ Toggle \/ StayInRebuild \/ LeaveRebuild
           \/ Starve \/ UNCHANGED linkVars
  <2>1. /\ UNCHANGED <<ring, write_pos, read_pos, sidecar, plan, linkHistory>>
        /\ mix' # "copy" \/ mix' = mix
        /\ mix # "copy" \/ mix' = mix
        /\ mix' \in {"frame", "load", mix}
        /\ UNCHANGED rebuild \/ (rebuild' = FALSE /\ mix' = "frame")
        /\ mix' # "frame" => mix # "frame" \/ rebuild
    BY <1>1, <1>4 DEF Resubscribes, Toggle, StayInRebuild, LeaveRebuild,
       Starve, linkVars, slot, reader, linkHistory, CountInv
  <2>2. UNCHANGED <<produced, at, heard, since>>
    BY <2>1 DEF linkHistory
  <2>3. CountInv'
    <3>1. mix' \in {"frame", "load", "copy"}
          /\ (mix' # "copy" => since' = 0)
      BY <1>1, <2>1, <2>2 DEF CountInv
    <3>2. CASE UNCHANGED rebuild
      BY <1>1, <2>1, <2>2, <3>1, <3>2 DEF CountInv
    <3>3. CASE rebuild' = FALSE /\ mix' = "frame"
      BY <1>1, <2>1, <2>2, <3>1, <3>3 DEF CountInv
    <3> QED
      BY <2>1, <3>2, <3>3
  <2>4. PositionInv' /\ RingInv'
    BY <1>1, <2>1, <2>2 DEF PositionInv, RingInv, Stored
  <2>5. SpanInv' /\ PlanInv'
    <3>1. Stored' = Stored /\ StoredAtLoad' = StoredAtLoad
      BY <2>1, <2>2 DEF Stored, StoredAtLoad
    <3>2. SpanInv'
      BY <1>1, <2>1, <2>2, <3>1 DEF SpanInv
    <3>3. PlanInv'
      BY <1>1, <2>1, <2>2, <3>1 DEF PlanInv
    <3> QED
      BY <3>2, <3>3
  <2>6. HeardInv'
    BY <1>1, <2>2 DEF HeardInv, HeardTo, HeardAsProduced
  <2> QED
    BY <2>3, <2>4, <2>5, <2>6 DEF LinkInv
<1>5. CASE EnterRebuild
  <2>1. /\ mix = "frame" /\ mix' = "load" /\ rebuild' = TRUE
        /\ read_pos' = write_pos /\ at' = produced
        /\ UNCHANGED <<ring, write_pos, sidecar, plan, produced, heard, since>>
    BY <1>5 DEF EnterRebuild
  <2>2. CountInv' /\ PlanInv'
    BY <1>1, <2>1 DEF CountInv, PlanInv
  <2>3. PositionInv' /\ RingInv'
    BY <1>1, <2>1 DEF PositionInv, RingInv, Stored
  <2>4. SpanInv'
    BY <1>1, <2>1 DEF SpanInv, Stored
  <2>5. HeardInv'
    <3>1. HeardTo' = HeardTo /\ heard'.sound = heard.sound
          /\ (HeardAsProduced' <=> HeardAsProduced)
      BY <2>1 DEF HeardTo, HeardAsProduced
    <3> QED
      BY <1>1, <2>1, <3>1 DEF HeardInv
  <2> QED
    BY <2>2, <2>3, <2>4, <2>5 DEF LinkInv
<1>6. CASE Load
  <2>1. /\ mix' = "copy" /\ since' = sidecar /\ rebuild
        /\ UNCHANGED <<ring, write_pos, read_pos, sidecar, rebuild, produced,
                       at, heard>>
    BY <1>1, <1>6 DEF Load, slot, CountInv
  <2>2. PlanInv'
    <3>1. StoredAtLoad' = produced
      BY <1>1, <2>1 DEF StoredAtLoad, Stored
    <3> QED
      BY <1>1, <1>6, <2>1, <3>1, LoadPlan DEF PlanInv
  <2> QED
    BY <1>1, <2>1, <2>2 DEF LinkInv, CountInv, PositionInv, RingInv, SpanInv,
       HeardInv, HeardTo, HeardAsProduced, Stored
<1>7. CASE Copy
  <2>1. /\ mix = "copy" /\ mix' = "frame" /\ since' = 0
        /\ read_pos' = (plan.rp + plan.n) % PosSpan /\ at' = plan.at + plan.n
        /\ UNCHANGED <<ring, write_pos, sidecar, rebuild, produced>>
    BY <1>7 DEF Copy, Used
  <2>2. /\ plan.n \in 1 .. Need /\ plan.at \in Nat
        /\ plan.rp = plan.at % PosSpan
        /\ sidecar <= since /\ since < PosSpan
        /\ plan.at + plan.n >= at \/ plan.at + plan.n >= StoredAtLoad
        /\ plan.at + plan.n <= produced \/ produced >= Need
    BY <1>1, <2>1 DEF PlanInv
  <2>3. CountInv'
    BY <1>1, <2>1, <2>2 DEF CountInv
  <2>4. PositionInv'
    <3>1. plan.n \in Int /\ plan.at \in Int
      BY <2>2
    <3>2. ((plan.at % PosSpan) + plan.n) % PosSpan
            = (plan.at + plan.n) % PosSpan
      BY <1>1, <3>1, ModPlus, Zenon
    <3> QED
      BY <1>1, <2>1, <2>2, <3>2 DEF PositionInv
  <2>5. RingInv'
    BY <1>1, <2>1 DEF RingInv, Stored
  <2>6. SpanInv'
    BY <1>1, <2>1, <2>2 DEF SpanInv, Stored, StoredAtLoad
  <2>7. PlanInv'
    BY <2>1 DEF PlanInv
  <2>8. HeardInv'
    BY <1>1, <1>7, <2>1, <2>2, CopiesProduced DEF HeardInv
  <2> QED
    BY <2>3, <2>4, <2>5, <2>6, <2>7, <2>8 DEF LinkInv
<1> QED
  BY <1>2, <1>3, <1>4, <1>5, <1>6, <1>7 DEF LinkNext, Sidecar, Spi

(* So it holds for ever. *)
LEMMA LinkInvariance == LinkSpec => []LinkInv
  BY LinkInvInit, LinkInvStep, PTL DEF LinkSpec

-----------------------------------------------------------------------------

(* Whatever the sizes, bursts, corrections, jumps and re-entries, a block  *)
(* that was all there when it was chosen and was not overrun by more than  *)
(* the ring's margin is heard frame by frame as it was produced.           *)
THEOREM AlwaysHeardAsProduced == LinkSpec => []HeardAsProduced
<1>1. LinkInv => HeardAsProduced
  BY DEF LinkInv, HeardInv
<1> QED
  BY <1>1, LinkInvariance, PTL

(* No block is chosen further back than the threshold of the catch-up.     *)
THEOREM NeverStaleEver == LinkSpec => NeverStale
<1>1. LinkInv /\ [LinkNext]_linkVars =>
        [mix = "load" /\ mix' = "copy" =>
           produced - plan'.at <= CatchBlocks * Need]_linkVars
  <2> SUFFICES ASSUME LinkInv, LinkNext, mix = "load", mix' = "copy"
               PROVE  produced - plan'.at <= CatchBlocks * Need
    OBVIOUS
  <2>1. Load
    BY DEF LinkNext, Sidecar, Spi, SidecarCopies, SidecarPublishes, Resubscribes,
       Toggle, EnterRebuild, StayInRebuild, LeaveRebuild, Starve, Copy, reader
  <2> QED
    BY <2>1, LoadPlan, LinkNumbers, ThresholdIs DEF Threshold
<1> QED
  BY <1>1, LinkInvariance, PTL DEF LinkSpec, NeverStale

(* After a block that was heard as produced, what is read comes after it.  *)
THEOREM NeverBackEver == LinkSpec => NeverBack
<1>1. LinkInv /\ [LinkNext]_linkVars =>
        [mix = "load" /\ mix' = "copy" /\ heard.sound =>
           plan'.at >= heard.at + Len(heard.frames)]_linkVars
  <2> SUFFICES ASSUME LinkInv, LinkNext, mix = "load", mix' = "copy", heard.sound
               PROVE  plan'.at >= heard.at + Len(heard.frames)
    OBVIOUS
  <2>1. Load
    BY DEF LinkNext, Sidecar, Spi, SidecarCopies, SidecarPublishes, Resubscribes,
       Toggle, EnterRebuild, StayInRebuild, LeaveRebuild, Starve, Copy, reader
  <2> QED
    BY <2>1, LoadPlan DEF HeardTo
<1> QED
  BY <1>1, LinkInvariance, PTL DEF LinkSpec, NeverBack
=============================================================================
