---------------------------- MODULE SamplerProofs ---------------------------
(***************************************************************************)
(* Proofs about SamplerWriter and Sampler, for every ring size, block      *)
(* size, wake-up threshold and session length.  First the machinery: the   *)
(* ring and the writer thread deliver to the WAV file exactly what the SPI *)
(* thread published, in order, and implement RecorderSpec.  Then the state *)
(* machine: it drives the machinery only in ways SamplerWriter allows, so  *)
(* that all this holds under the buttons, the clock and the commands of    *)
(* tools; it never loses track of whether the machinery runs, never        *)
(* records past its target, and keeps a file that is all that was          *)
(* recorded.                                                               *)
(***************************************************************************)
EXTENDS Sampler, SequenceTheorems, TLAPS

-----------------------------------------------------------------------------
(* The machinery: SamplerWriter. *)

(* The cursor arithmetic of the ring, read off the code's two branches.    *)
LEMMA RingArithmetic ==
  ASSUME NEW p \in Positions, NEW q \in Positions,
         NEW k \in 0 .. RingSamples
  PROVE  /\ Advance(p, k) \in Positions
         /\ Distance(p, q) \in 0 .. RingSamples - 1
         /\ Distance(p, q) = 0 <=> p = q
  BY RingAssumption DEF Positions, Advance, Distance

(* Moving the write cursor forward lengthens the unread part by as much.   *)
LEMMA AdvanceWrite ==
  ASSUME NEW r \in Positions, NEW w \in Positions,
         NEW k \in Nat, Distance(r, w) + k < RingSamples
  PROVE  /\ Distance(r, Advance(w, k)) = Distance(r, w) + k
         /\ \A p \in Positions :
              /\ Distance(w, p) < k =>
                   Distance(r, p) = Distance(r, w) + Distance(w, p)
              /\ Distance(r, p) >= Distance(r, w) /\ Distance(r, p) < Distance(r, w) + k
                   => Distance(w, p) < k
  BY RingAssumption DEF Positions, Advance, Distance

(* Moving the read cursor forward shortens it by as much.                  *)
LEMMA AdvanceRead ==
  ASSUME NEW r \in Positions, NEW w \in Positions,
         NEW k \in Nat, k <= Distance(r, w)
  PROVE  /\ Distance(Advance(r, k), w) = Distance(r, w) - k
         /\ \A p \in Positions :
              Distance(Advance(r, k), p) < Distance(r, w) - k =>
                Distance(r, p) = Distance(Advance(r, k), p) + k
  BY RingAssumption DEF Positions, Advance, Distance

(* What one fwrite adds to the file.                                       *)
LEMMA FileGrows ==
  ASSUME RecInv, WriterCopy
  PROVE  /\ ToWrite \in 1 .. available
         /\ read_pos + ToWrite <= RingSamples
         /\ file' \in Seq(Nat \cup {NoSample})
         /\ Len(file') = Len(file) + ToWrite
         /\ Len(file') <= published
         /\ \A i \in 1 .. Len(file') : file'[i] = i - 1
<1> DEFINE chunk == [i \in 1 .. ToWrite |-> ring[read_pos + i - 1]]
<1>1. /\ available \in 1 .. AvailableRead
      /\ file \in Seq(Nat \cup {NoSample})
      /\ writer = "copy"
      /\ read_pos \in Positions
      /\ write_pos \in Positions
      /\ file' = file \o chunk
      /\ ring \in [Positions -> Nat \cup {NoSample}]
  BY DEF RecInv, RecTypeOK, CopyInv, WriterCopy
<1>2. AvailableRead \in 0 .. RingSamples - 1
  BY <1>1, RingArithmetic, RingAssumption DEF AvailableRead
<1>3. ToWrite \in 1 .. available /\ read_pos + ToWrite <= RingSamples
  BY <1>1, <1>2, RingAssumption DEF ToWrite, Positions
<1>4. \A i \in 1 .. ToWrite :
        /\ read_pos + i - 1 \in Positions
        /\ Distance(read_pos, read_pos + i - 1) = i - 1
  BY <1>1, <1>2, <1>3, RingAssumption DEF Positions, Distance
<1>5. \A i \in 1 .. ToWrite : ring[read_pos + i - 1] = Len(file) + i - 1
  <2> TAKE i \in 1 .. ToWrite
  <2>1. Distance(read_pos, read_pos + i - 1) < AvailableRead
    BY <1>1, <1>2, <1>3, <1>4
  <2>2. Copied = Len(file)
    BY <1>1 DEF Copied
  <2> QED
    BY <1>1, <1>4, <2>1, <2>2 DEF RecInv, RingInv
<1>6. chunk \in Seq(Nat \cup {NoSample}) /\ Len(chunk) = ToWrite
  <2>1. chunk \in [1 .. ToWrite -> Nat \cup {NoSample}]
    BY <1>1, <1>4
  <2>2. ToWrite \in Nat
    BY <1>1, <1>2, <1>3
  <2> QED
    BY <2>1, <2>2
<1>7. /\ file' \in Seq(Nat \cup {NoSample})
      /\ Len(file') = Len(file) + ToWrite
      /\ \A i \in 1 .. Len(file') :
           file'[i] = IF i <= Len(file) THEN file[i] ELSE chunk[i - Len(file)]
  <2> HIDE DEF chunk
  <2>1. /\ file \o chunk \in Seq(Nat \cup {NoSample})
        /\ Len(file \o chunk) = Len(file) + Len(chunk)
        /\ \A i \in 1 .. Len(file) + Len(chunk) : (file \o chunk)[i] =
             IF i <= Len(file) THEN file[i] ELSE chunk[i - Len(file)]
    BY <1>1, <1>6, ConcatProperties, Zenon
  <2> QED
    BY <1>1, <1>6, <2>1
<1>8. Len(file') <= published
  <2>1. published = Len(file) + AvailableRead
    BY <1>1 DEF RecInv, RingInv, Copied
  <2> QED
    BY <1>1, <1>2, <1>3, <1>7, <2>1, LenProperties
<1>9. \A i \in 1 .. Len(file') : file'[i] = i - 1
  <2> HIDE DEF chunk
  <2> TAKE i \in 1 .. Len(file')
  <2>1. Len(file) \in Nat /\ ToWrite \in Nat /\ i \in Nat
    BY <1>1, <1>2, <1>3, <1>7, LenProperties
  <2>2. CASE i <= Len(file)
    <3>1. i \in 1 .. Len(file) /\ file'[i] = file[i]
      BY <1>7, <2>1, <2>2
    <3> QED
      BY <3>1 DEF RecInv, FileIsPrefix
  <2>3. CASE i > Len(file)
    <3>1. i - Len(file) \in 1 .. ToWrite
      BY <1>7, <2>1, <2>3
    <3>2. file'[i] = chunk[i - Len(file)]
      BY <1>7, <2>1, <2>3
    <3>3. chunk[i - Len(file)] = ring[read_pos + (i - Len(file)) - 1]
      BY <3>1 DEF chunk
    <3>4. ring[read_pos + (i - Len(file)) - 1] = Len(file) + (i - Len(file)) - 1
      BY <1>5, <3>1
    <3> QED
      BY <2>1, <3>2, <3>3, <3>4
  <2> QED
    BY <2>1, <2>2, <2>3
<1> QED
  BY <1>3, <1>7, <1>8, <1>9

(* Before the first recording there is no thread and nothing in the ring.  *)
THEOREM RecInvInit == RecInit => RecInv
<1> SUFFICES ASSUME RecInit PROVE RecInv
  OBVIOUS
<1>1. RecTypeOK
  BY RingAssumption DEF RecInit, RecTypeOK, Positions, NoSample
<1>2. AvailableRead = 0 /\ Len(file) = 0 /\ published = 0 /\ Copied = 0
  BY DEF RecInit, AvailableRead, Distance, Copied
<1>3. RingInv
  BY <1>2, RingAssumption DEF RecInit, RingInv, Positions, Distance
<1>4. FileIsPrefix
  BY <1>2 DEF FileIsPrefix
<1>5. MutexInv /\ ThreadInv /\ FillInv /\ CopyInv /\ WakeInv
  BY DEF RecInit, MutexInv, ThreadInv, FillInv, CopyInv, WakeInv
<1> QED
  BY <1>1, <1>3, <1>4, <1>5 DEF RecInv

(* The numbers the ring's operators return. *)
LEMMA RingNumbers ==
  ASSUME RecTypeOK
  PROVE  /\ AvailableRead \in 0 .. RingSamples - 1
         /\ AvailableWrite = RingSamples - AvailableRead - 1
         /\ Len(file) \in Nat
         /\ available > 0 => ToWrite \in 1 .. available
         /\ ToWrite \in Nat
         /\ ToWrite <= RingSamples - read_pos
         /\ Copied \in Int
  BY RingAssumption, LenProperties
     DEF RecTypeOK, AvailableRead, AvailableWrite, Distance, Positions, ToWrite,
         Copied

(* Starting a session establishes the invariant afresh. *)
LEMMA StartPreserves == RecInv /\ StartWriter => RecInv'
<1> SUFFICES ASSUME RecInv, StartWriter PROVE RecInv'
  OBVIOUS
<1>1. RecTypeOK'
  BY RingAssumption DEF RecInv, StartWriter, RecTypeOK, Positions, NoSample
<1>2. /\ AvailableRead' = 0 /\ Len(file') = 0 /\ published' = 0
      /\ Copied' = 0
  BY DEF StartWriter, AvailableRead, Distance, Copied
<1>3. RingInv'
  BY <1>2, RingAssumption DEF StartWriter, RingInv, Positions, Distance
<1>4. FileIsPrefix'
  BY <1>2 DEF FileIsPrefix
<1>5. MutexInv' /\ ThreadInv' /\ FillInv' /\ CopyInv' /\ WakeInv'
  BY DEF RecInv, StartWriter, MutexInv, ThreadInv, FillInv, CopyInv, WakeInv
<1> QED
  BY <1>1, <1>3, <1>4, <1>5 DEF RecInv

(* The slots a block is written to are none of the unread ones. *)
LEMMA FillPreserves == RecInv /\ FillBlock => RecInv'
<1> SUFFICES ASSUME RecInv, FillBlock PROVE RecInv'
  OBVIOUS
<1> USE DEF RecInv, FillBlock
<1>1. RecTypeOK'
  BY RingAssumption DEF RecTypeOK, Positions, Distance, writerVars
<1>2. /\ AvailableRead' = AvailableRead /\ ToWrite' = ToWrite
      /\ AvailableWrite' = AvailableWrite /\ Copied' = Copied
  BY DEF AvailableRead, AvailableWrite, ToWrite, Copied, writerVars
<1>3. RingInv'
  <2>1. \A p \in Positions : Distance(read_pos, p) < AvailableRead =>
          ~(Distance(write_pos, p) < BlockSamples)
    BY RingAssumption
       DEF RecTypeOK, RingHasRoom, AvailableWrite, AvailableRead, Distance,
           Positions
  <2> QED
    BY <1>2, <2>1 DEF RingInv
<1>4. FillInv'
  BY <1>2 DEF FillInv, RingHasRoom
<1>5. MutexInv' /\ ThreadInv' /\ CopyInv' /\ FileIsPrefix' /\ WakeInv'
  BY <1>2 DEF MutexInv, ThreadInv, CopyInv, FileIsPrefix, WakeInv, writerVars
<1> QED
  BY <1>1, <1>3, <1>4, <1>5

(* Publishing turns the filled slots into unread ones. *)
LEMMA PublishPreserves == RecInv /\ PublishBlock => RecInv'
<1> SUFFICES ASSUME RecInv, PublishBlock PROVE RecInv'
  OBVIOUS
<1> USE DEF RecInv, PublishBlock
<1>1. AvailableRead + BlockSamples < RingSamples
  BY RingNumbers, RingAssumption DEF FillInv, RingHasRoom
<1>2. RecTypeOK'
  BY <1>1, RingNumbers, RingAssumption, RingArithmetic
     DEF RecTypeOK, Positions, writerVars, Advance
<1>3. /\ AvailableRead' = AvailableRead + BlockSamples
      /\ ToWrite' = ToWrite /\ Copied' = Copied
  BY <1>1, AdvanceWrite, RingAssumption
     DEF RecTypeOK, AvailableRead, ToWrite, Copied, writerVars
<1>4. RingInv'
  <2>1. published' = Copied' + AvailableRead'
    BY <1>3, RingNumbers, RingAssumption DEF RingInv
  <2>2. ASSUME NEW p \in Positions, Distance(read_pos, p) < AvailableRead'
        PROVE  ring[p] = Copied + Distance(read_pos, p)
    <3>1. CASE Distance(read_pos, p) < AvailableRead
      BY <3>1 DEF RingInv
    <3>2. CASE ~(Distance(read_pos, p) < AvailableRead)
      <4>1. /\ Distance(write_pos, p) < BlockSamples
            /\ Distance(read_pos, p) = AvailableRead + Distance(write_pos, p)
            /\ Distance(write_pos, p) \in Nat
        <5>1. /\ read_pos \in Positions /\ write_pos \in Positions
              /\ BlockSamples \in Nat
          BY RingAssumption DEF RecTypeOK
        <5>2. /\ Distance(read_pos, p) \in 0 .. RingSamples - 1
              /\ Distance(write_pos, p) \in 0 .. RingSamples - 1
              /\ AvailableRead \in Nat
          BY <5>1, RingArithmetic, RingNumbers, RingAssumption
        <5>3. /\ Distance(read_pos, p) >= AvailableRead
              /\ Distance(read_pos, p) < AvailableRead + BlockSamples
          BY <1>3, <2>2, <3>2, <5>1, <5>2, RingAssumption
        <5>4. Distance(write_pos, p) < BlockSamples
          BY <1>1, <5>1, <5>3, AdvanceWrite DEF AvailableRead
        <5> QED
          BY <1>1, <5>1, <5>2, <5>4, AdvanceWrite DEF AvailableRead
      <4>2. ring[p] = published + Distance(write_pos, p)
        BY <4>1 DEF FillInv
      <4> QED
        BY <4>1, <4>2, RingNumbers, SMTT(20) DEF RingInv, Copied, RecTypeOK
    <3> QED
      BY <3>1, <3>2
  <2> QED
    BY <1>3, <2>1, <2>2 DEF RingInv
<1>5. FileIsPrefix'
  BY RingAssumption, RingNumbers DEF FileIsPrefix, RecTypeOK
<1>6. CopyInv'
  BY <1>3, RingNumbers, RingAssumption DEF CopyInv, ThreadInv, writerVars
<1>7. MutexInv' /\ ThreadInv' /\ FillInv' /\ WakeInv'
  BY DEF MutexInv, ThreadInv, FillInv, WakeInv, writerVars
<1> QED
  BY <1>2, <1>4, <1>5, <1>6, <1>7

(* The SPI thread's steps that do not touch the ring. *)
LEMMA SpiPreserves ==
  RecInv /\ (SignalBlock("idle") \/ RequestStop \/ SignalExit \/ JoinWriter("idle"))
    => RecInv'
<1> SUFFICES ASSUME RecInv,
                    SignalBlock("idle") \/ RequestStop \/ SignalExit
                      \/ JoinWriter("idle")
             PROVE  RecInv'
  OBVIOUS
<1> USE DEF RecInv, SignalBlock, RequestStop, SignalExit, JoinWriter, ringVars,
            writerVars
<1>1. RecTypeOK'
  BY DEF RecTypeOK, Woken
<1>2. /\ AvailableRead' = AvailableRead /\ AvailableWrite' = AvailableWrite
      /\ ToWrite' = ToWrite
  BY DEF AvailableRead, AvailableWrite, ToWrite
<1>3. Copied' = Copied
  BY <1>2 DEF Copied, Woken
<1>4. RingInv'
  BY <1>2, <1>3 DEF RingInv
<1>5. MutexInv' /\ ThreadInv'
  BY DEF MutexInv, ThreadInv, Woken, RecTypeOK
<1>6. FillInv' /\ CopyInv' /\ FileIsPrefix'
  BY <1>2 DEF FillInv, CopyInv, FileIsPrefix, Woken
<1>7. WakeInv'
  BY <1>2 DEF WakeInv, MutexInv, ThreadInv, Woken
<1> QED
  BY <1>1, <1>4, <1>5, <1>6, <1>7

(* The writer's steps around the condition variable. *)
LEMMA WaitPreserves ==
  RecInv /\ (WriterLock \/ WriterTest \/ WriterSleep \/ WriterUnlock
             \/ WriterLoad \/ SpuriousWake)
    => RecInv'
<1> SUFFICES ASSUME RecInv,
                    WriterLock \/ WriterTest \/ WriterSleep \/ WriterUnlock
                      \/ WriterLoad \/ SpuriousWake
             PROVE  RecInv'
  OBVIOUS
<1> USE DEF RecInv, WriterLock, WriterTest, WriterSleep, WriterUnlock,
            WriterLoad, SpuriousWake, ringVars
<1>1. RecTypeOK'
  <2>1. AvailableRead \in Nat
    BY RingNumbers, RingAssumption
  <2>2. available' \in Nat /\ exiting' \in BOOLEAN
    BY <2>1 DEF RecTypeOK
  <2> QED
    BY <2>2 DEF RecTypeOK
<1>2. /\ AvailableRead' = AvailableRead /\ AvailableWrite' = AvailableWrite
  BY DEF AvailableRead, AvailableWrite
<1>3. Copied' = Copied
  BY DEF Copied
<1>4. RingInv'
  BY <1>2, <1>3 DEF RingInv
<1>5. MutexInv' /\ ThreadInv'
  BY DEF MutexInv, ThreadInv, RecTypeOK
<1>6. FillInv' /\ FileIsPrefix'
  BY <1>2 DEF FillInv, FileIsPrefix, RingHasRoom
<1>7. CopyInv'
  BY <1>2, RingNumbers DEF CopyInv
<1>8. WakeInv'
  <2>1. AvailableRead \in Nat /\ WriteChunk \in Nat
    BY RingNumbers, RingAssumption
  <2>2. CASE WriterTest
    BY <1>2, <2>1, <2>2 DEF WakeInv
  <2>3. CASE ~WriterTest
    BY <1>2, <2>3 DEF WakeInv
  <2> QED
    BY <2>2, <2>3
<1> QED
  BY <1>1, <1>4, <1>5, <1>6, <1>7, <1>8

(* Copying out and giving the slots back. *)
LEMMA CopyPreserves == RecInv /\ WriterCopy => RecInv'
<1> SUFFICES ASSUME RecInv, WriterCopy PROVE RecInv'
  OBVIOUS
<1>1. RecTypeOK'
  BY FileGrows DEF RecInv, WriterCopy, RecTypeOK, ringVars
<1>2. /\ AvailableRead' = AvailableRead /\ AvailableWrite' = AvailableWrite
      /\ ToWrite' = ToWrite
  BY DEF WriterCopy, AvailableRead, AvailableWrite, ToWrite, ringVars
<1>3. Copied' = Copied
  BY <1>2, FileGrows, RingNumbers DEF WriterCopy, Copied, RecInv
<1>4. RingInv'
  BY <1>2, <1>3 DEF RecInv, WriterCopy, RingInv, ringVars
<1>5. FileIsPrefix'
  BY FileGrows DEF FileIsPrefix, WriterCopy
<1>6. CopyInv'
  BY <1>2 DEF RecInv, WriterCopy, CopyInv
<1>7. MutexInv' /\ ThreadInv' /\ FillInv' /\ WakeInv'
  BY <1>2 DEF RecInv, WriterCopy, MutexInv, ThreadInv, FillInv, WakeInv,
              RingHasRoom, ringVars
<1> QED
  BY <1>1, <1>4, <1>5, <1>6, <1>7 DEF RecInv

(* Moving read_pos gives the slots just written to the file back to the    *)
(* SPI thread.                                                             *)
LEMMA AdvancePreserves == RecInv /\ WriterAdvance => RecInv'
<1> SUFFICES ASSUME RecInv, WriterAdvance PROVE RecInv'
  OBVIOUS
<1> USE DEF RecInv, WriterAdvance
<1>1. /\ ToWrite \in Nat /\ ToWrite <= AvailableRead
      /\ ToWrite <= RingSamples - read_pos
      /\ read_pos \in Positions /\ write_pos \in Positions
      /\ AvailableRead \in 0 .. RingSamples - 1
  BY RingNumbers, RingAssumption DEF CopyInv, RecTypeOK, Positions
<1>2. read_pos' \in Positions
  BY <1>1, RingAssumption DEF Positions, Advance
<1>3. RecTypeOK'
  BY <1>2 DEF RecTypeOK
<1>4. AvailableRead' = AvailableRead - ToWrite
  BY <1>1, AdvanceRead DEF AvailableRead
<1>5. Copied = Len(file) - ToWrite /\ Copied' = Len(file) /\ Len(file) \in Nat
  BY RingNumbers DEF Copied
<1>6. RingInv'
  <2>1. published' = Copied' + AvailableRead'
    BY <1>1, <1>4, <1>5 DEF RingInv
  <2>2. ASSUME NEW p \in Positions, Distance(read_pos', p) < AvailableRead'
        PROVE  ring[p] = Copied' + Distance(read_pos', p)
    <3>1. Distance(read_pos, p) = Distance(read_pos', p) + ToWrite
      BY <1>1, <1>4, <2>2, AdvanceRead DEF AvailableRead
    <3>2. Distance(read_pos', p) \in Nat
      BY <1>2, RingArithmetic, RingAssumption
    <3>3. ring[p] = Copied + Distance(read_pos, p)
      BY <1>1, <1>4, <2>2, <3>1, <3>2 DEF RingInv
    <3> QED
      BY <1>1, <1>5, <3>1, <3>2, <3>3
  <2> QED
    BY <2>1, <2>2 DEF RingInv
<1>7. FillInv'
  <2>1. RingHasRoom => RingHasRoom'
    <3>1. AvailableWrite = RingSamples - AvailableRead - 1
      BY RingNumbers
    <3>2. AvailableWrite' = RingSamples - AvailableRead' - 1
      BY <1>1, <1>2, RingAssumption
         DEF AvailableWrite, AvailableRead, Distance, Positions
    <3> QED
      BY <1>1, <1>4, <3>1, <3>2, RingAssumption DEF RingHasRoom
  <2> QED
    BY <2>1 DEF FillInv
<1>8. WakeInv' /\ CopyInv'
  BY DEF WakeInv, CopyInv
<1>9. MutexInv' /\ ThreadInv' /\ FileIsPrefix'
  BY DEF MutexInv, ThreadInv, FileIsPrefix
<1> QED
  BY <1>3, <1>6, <1>7, <1>8, <1>9

(* The invariant is inductive: the steps of both threads together.         *)
LEMMA RecInvStep == RecInv /\ [RecNext]_recVars => RecInv'
<1> SUFFICES ASSUME RecInv, [RecNext]_recVars PROVE RecInv'
  OBVIOUS
<1>1. CASE SpiStep
  BY <1>1, StartPreserves, FillPreserves, PublishPreserves, SpiPreserves
     DEF SpiStep
<1>2. CASE WriterStep \/ SpuriousWake
  BY <1>2, WaitPreserves, CopyPreserves, AdvancePreserves DEF WriterStep
<1>3. CASE UNCHANGED recVars
  BY <1>3 DEF recVars, RecInv, RecTypeOK, MutexInv, ThreadInv, RingInv,
              FillInv, CopyInv, FileIsPrefix, WakeInv, Copied, ToWrite,
              AvailableRead, AvailableWrite, RingHasRoom
<1> QED
  BY <1>1, <1>2, <1>3 DEF RecNext

(* The inductive invariant holds in every reachable state, for every ring  *)
(* size, block size, threshold and session length.                         *)
THEOREM RecInvariance == RecSpec => []RecInv
  BY RecInvInit, RecInvStep, PTL DEF RecSpec

(* The WAV file is always a prefix of what the SPI thread published.       *)
THEOREM FileIsPrefixAlways == RecSpec => []FileIsPrefix
<1>1. RecInv => FileIsPrefix
  BY DEF RecInv
<1> QED
  BY <1>1, RecInvariance, PTL

(* When the writer has returned, everything published is in the file.      *)
THEOREM NothingLost == RecSpec => []NothingLostAtJoin
<1>1. RecInv => NothingLostAtJoin
  BY RingNumbers DEF RecInv, NothingLostAtJoin, CopyInv, RingInv, Copied
<1> QED
  BY <1>1, RecInvariance, PTL

(* The writer never sleeps through a full chunk.                           *)
THEOREM NoLostWakeupEver == RecSpec => []NoLostWakeup
<1>1. RecInv => NoLostWakeup
  BY DEF RecInv, NoLostWakeup, WakeInv
<1> QED
  BY <1>1, RecInvariance, PTL

(* The filled block and the copied region never share a slot of the ring.  *)
THEOREM NoDataRace == RecSpec => []NoOverlap
<1>1. RecInv => NoOverlap
  <2> SUFFICES ASSUME RecInv, spi = "filled", writer \in {"copy", "advance"},
                      NEW p \in read_pos .. read_pos + ToWrite - 1
               PROVE  Distance(write_pos, p) >= BlockSamples
    BY DEF NoOverlap
  <2>1. /\ ToWrite \in Nat /\ ToWrite <= AvailableRead
        /\ ToWrite <= RingSamples - read_pos
        /\ read_pos \in Positions /\ write_pos \in Positions
        /\ AvailableRead + BlockSamples < RingSamples
    <3>1. RecTypeOK /\ RingHasRoom /\ available \in 1 .. AvailableRead
      BY DEF RecInv, CopyInv, FillInv
    <3>2. AvailableRead + BlockSamples < RingSamples
      BY <3>1, RingNumbers, RingAssumption DEF RingHasRoom
    <3>3. /\ AvailableRead \in Nat /\ available \in Nat
          /\ ToWrite \in 1 .. available /\ ToWrite <= RingSamples - read_pos
      BY <3>1, RingNumbers
    <3>4. read_pos \in Positions /\ write_pos \in Positions
      BY <3>1 DEF RecTypeOK
    <3> QED
      BY <3>1, <3>2, <3>3, <3>4
  <2> QED
    BY <2>1, RingAssumption, SMTT(30) DEF AvailableRead, Distance, Positions
<1> QED
  BY <1>1, RecInvariance, PTL

(* Every step of the machinery is a step of the recorder or a stutter.     *)
LEMMA RecorderStep ==
  RecInv /\ [RecNext]_recVars => [Recorder!Next]_(Recorder!vars)
<1> SUFFICES ASSUME RecInv, [RecNext]_recVars
             PROVE  Recorder!Next \/ UNCHANGED Recorder!vars
  OBVIOUS
<1> USE DEF Recorder!vars
<1>1. CASE StartWriter
  BY <1>1 DEF StartWriter, Recorder!Next, Recorder!Open
<1>2. CASE PublishBlock
  BY <1>2 DEF PublishBlock, RecInv, ThreadInv, Recorder!Next, Recorder!Take
<1>3. CASE JoinWriter("idle")
  <2>1. running /\ Len(file) = published
    BY <1>3, RingNumbers DEF JoinWriter, RecInv, ThreadInv, CopyInv, RingInv, Copied
  <2> QED
    BY <1>3, <2>1 DEF JoinWriter, Recorder!Next, Recorder!Close
<1>4. CASE WriterCopy
  <2>1. /\ running
        /\ Len(file) \in Nat /\ published \in Nat
        /\ file' \in Seq(Nat \cup {NoSample})
        /\ Len(file') \in Len(file) .. published
        /\ \A i \in 1 .. Len(file') : file'[i] = i - 1
    <3>1. Len(file) \in Nat /\ published \in Nat /\ ToWrite \in Nat
      BY RingNumbers DEF RecInv, RecTypeOK
    <3>2. running
      BY <1>4 DEF RecInv, ThreadInv, WriterCopy
    <3> QED
      BY <1>4, <3>1, <3>2, FileGrows
  <2>2. file' = [i \in 1 .. Len(file') |-> i - 1]
    BY <2>1
  <2> QED
    BY <1>4, <2>1, <2>2 DEF WriterCopy, Recorder!Next, Recorder!Persist
<1>5. CASE FillBlock \/ SignalBlock("idle") \/ RequestStop \/ SignalExit
  BY <1>5 DEF FillBlock, SignalBlock, RequestStop, SignalExit
<1>6. CASE \/ WriterLock \/ WriterTest \/ WriterSleep \/ WriterUnlock
          \/ WriterLoad \/ WriterAdvance \/ SpuriousWake
  BY <1>6 DEF WriterLock, WriterTest, WriterSleep, WriterUnlock, WriterLoad,
              WriterAdvance, SpuriousWake
<1>7. CASE UNCHANGED recVars
  BY <1>7 DEF recVars
<1> QED
  BY <1>1, <1>2, <1>3, <1>4, <1>5, <1>6, <1>7
     DEF RecNext, SpiStep, WriterStep

(* The ring, the thread and the condition variable together implement the  *)
(* recorder that hands samples over in order and loses none at the stop.   *)
THEOREM ImplementsRecorder == RecSpec => RecorderPromise
<1>1. RecInit => Recorder!Init
  BY DEF RecInit, Recorder!Init
<1> QED
  BY <1>1, RecInvariance, RecorderStep, PTL
     DEF RecSpec, RecorderPromise, Recorder!Spec

-----------------------------------------------------------------------------
(* The state machine: Sampler. *)

(* Every step of the sampler is a step of the machinery or leaves it alone.*)
LEMMA SamplerDrivesMachinery ==
  ASSUME [Next]_vars
  PROVE  [RecNext]_recVars
<1> USE DEF RecNext, SpiStep
<1>1. CASE Trigger
  BY <1>1 DEF Trigger, StartPreroll, StartRecording
<1>2. CASE TriggerFails
  BY <1>2 DEF TriggerFails
<1>3. CASE ToolStart
  BY <1>3 DEF ToolStart
<1>4. CASE Stop
  BY <1>4 DEF Stop, SampleButtonStops, MidiStop, ToolStop, StopRecording,
              BeginStop
<1>5. CASE SaveFile \/ RemoveFile \/ ToolPause \/ ToolResume
  BY <1>5 DEF SaveFile, RemoveFile, ToolPause, ToolResume
<1>6. CASE Frame
  BY <1>6 DEF Frame, CaptureBlock, DropBlock
<1>7. CASE Count
  BY <1>7 DEF Count, CountRecordingBlock, CountPrerollBlock, BeginStop
<1>8. CASE Clock
  BY <1>8 DEF Clock, PrerollClock, FlipClock, RecordingClock, StopRecording,
              BeginStop
<1>9. CASE Buttons \/ OverlayTick
  BY <1>9 DEF Buttons, Arm, Show, Disarm, Hide, ChooseDuration, TogglePreroll,
              OverlayTick
<1>10. CASE Machinery
  BY <1>10 DEF Machinery
<1>11. CASE UNCHANGED vars
  BY <1>11 DEF vars
<1> QED
  BY <1>1, <1>2, <1>3, <1>4, <1>5, <1>6, <1>7, <1>8, <1>9, <1>10, <1>11
     DEF Next

(* The sampler implements the machinery's specification, so the recorder's *)
(* promise holds of it: whatever button, clock or command stops it, the    *)
(* file holds what was taken, in order, and all of it when it is closed.   *)
THEOREM SamplerImplementsWriter == Spec => RecSpec
<1>1. Init => RecInit
  BY DEF Init
<1>2. [Next]_vars => [RecNext]_recVars
  BY SamplerDrivesMachinery
<1> QED
  BY <1>1, <1>2, PTL DEF Spec, RecSpec

(* What the user may rely on, of the whole sampler: blocks captured reach  *)
(* the file in order, and a closed file has all of them.                   *)
THEOREM SamplerKeepsPromise == Spec => RecorderPromise
  BY SamplerImplementsWriter, ImplementsRecorder

-----------------------------------------------------------------------------

(* Between the start and the end of a stop, MachineryMatchesState says     *)
(* nothing: these conjuncts carry what a handler in progress remembers.    *)
StateInv ==
  /\ state \in States /\ todo \in Todo
  /\ MachineryMatchesState
  /\ spi \in {"filled", "signal"} => todo = "count"
  /\ spi \in {"stop", "join"} => todo \in {"save", "cancel"}
  /\ todo \in {"save", "cancel"} /\ spi = "idle" => ~running
  /\ todo = "count" => state \in {"PREROLL", "RECORDING"}

(* At the start the sampler is idle and no thread runs.                    *)
LEMMA StateInvInit == Init => StateInv
  BY DEF Init, RecInit, StateInv, MachineryMatchesState, States, Todo

(* Every handler, clock and block keeps StateInv, one action at a time.    *)
LEMMA StateInvStep ==
  ASSUME StateInv, [Next]_vars
  PROVE  StateInv'
<1> USE DEF StateInv, MachineryMatchesState, States, Todo
<1>1. CASE Trigger
  BY <1>1 DEF Trigger, StartPreroll, StartRecording, StartWriter, Ready
<1>2. CASE TriggerFails
  BY <1>2 DEF TriggerFails, Ready, recVars
<1>3. CASE ToolStart
  BY <1>3 DEF ToolStart, StartWriter, Ready
<1>4. CASE Stop
  BY <1>4 DEF Stop, SampleButtonStops, MidiStop, ToolStop, StopRecording,
              BeginStop, RequestStop, Ready
<1>5. CASE SaveFile \/ RemoveFile
  BY <1>5 DEF SaveFile, RemoveFile, recVars
<1>6. CASE ToolPause \/ ToolResume
  BY <1>6 DEF ToolPause, ToolResume, recVars, Ready
<1>7. CASE CaptureBlock
  BY <1>7 DEF CaptureBlock, FillBlock, Ready
<1>8. CASE DropBlock
  BY <1>8 DEF DropBlock, Ready, recVars
<1>9. CASE CountRecordingBlock
  BY <1>9 DEF CountRecordingBlock, Counting, BeginStop, RequestStop, recVars
<1>10. CASE CountPrerollBlock
  BY <1>10 DEF CountPrerollBlock, Counting, recVars
<1>11. CASE PrerollClock
  BY <1>11 DEF PrerollClock, Ready, recVars
<1>12. CASE FlipClock
  BY <1>12 DEF FlipClock, BeginStop, RequestStop, Ready, recVars
<1>13. CASE RecordingClock
  BY <1>13 DEF RecordingClock, StopRecording, BeginStop, RequestStop, Ready,
               recVars
<1>14. CASE Buttons
  BY <1>14 DEF Buttons, Arm, Show, Disarm, Hide, ChooseDuration,
               TogglePreroll, Ready, recVars
<1>15. CASE OverlayTick
  BY <1>15 DEF OverlayTick, Ready, recVars
<1>16. CASE Machinery
  <2>1. UNCHANGED <<state, todo>>
    BY <1>16 DEF Machinery, smVars
  <2>2. CASE PublishBlock \/ SignalBlock("idle") \/ SignalExit
    BY <2>1, <2>2 DEF PublishBlock, SignalBlock, SignalExit
  <2>3. CASE JoinWriter("idle")
    BY <2>1, <2>3 DEF JoinWriter
  <2>4. CASE WriterStep \/ SpuriousWake
    BY <2>1, <2>4 DEF WriterStep, WriterLock, WriterTest, WriterSleep,
       WriterUnlock, WriterLoad, WriterCopy, WriterAdvance, SpuriousWake,
       ringVars
  <2> QED
    BY <1>16, <2>2, <2>3, <2>4 DEF Machinery
<1>17. CASE UNCHANGED vars
  BY <1>17 DEF vars, smVars, recVars
<1> QED
  BY <1>1, <1>2, <1>3, <1>4, <1>5, <1>6, <1>7, <1>8, <1>9, <1>10, <1>11,
     <1>12, <1>13, <1>14, <1>15, <1>16, <1>17
     DEF Next, Frame, Count, Clock

(* No path through the handlers of the sampler leaves its state saying     *)
(* that it records while the writer is gone, or the writer running while   *)
(* the state says idle or armed.                                           *)
THEOREM MachineryAlwaysMatches == Spec => []MachineryMatchesState
<1>1. Spec => []StateInv
  BY StateInvInit, StateInvStep, PTL DEF Spec
<1>2. StateInv => MachineryMatchesState
  BY DEF StateInv
<1> QED
  BY <1>1, <1>2, PTL

-----------------------------------------------------------------------------
(* Cancelling the count-in.                                                *)

(* A handler that will save has left the count-in behind: RemoveFile is    *)
(* then the only way out of it besides the flip to the recording.          *)
CancelInv ==
  /\ StateInv
  /\ todo = "save" => state # "PREROLL"

(* The state a handler leaves has no save of a count-in pending, and a     *)
(* count-in it ends without recording is removed.                          *)
LEMMA CancelInvStep ==
  ASSUME CancelInv, [Next]_vars
  PROVE  /\ CancelInv'
         /\ state = "PREROLL" /\ state' \notin {"PREROLL", "RECORDING"} =>
              state' = "ARMED" /\ saved'.ending = "removed"
<1> USE DEF CancelInv
<1>1. StateInv'
  BY StateInvStep
<1> HIDE DEF CancelInv
<1>2. /\ todo' = "save" => state' # "PREROLL"
      /\ state = "PREROLL" /\ state' \notin {"PREROLL", "RECORDING"} =>
           state' = "ARMED" /\ saved'.ending = "removed"
  <2> USE DEF CancelInv, StateInv
  <2>1. CASE Trigger
    BY <2>1 DEF Trigger, StartPreroll, StartRecording, Ready
  <2>2. CASE TriggerFails
    BY <2>2 DEF TriggerFails, Ready
  <2>3. CASE ToolStart
    BY <2>3 DEF ToolStart, Ready
  <2>4. CASE Stop
    BY <2>4 DEF Stop, SampleButtonStops, MidiStop, ToolStop, StopRecording,
                BeginStop, Ready
  <2>5. CASE SaveFile \/ RemoveFile
    BY <2>5 DEF SaveFile, RemoveFile
  <2>6. CASE ToolPause \/ ToolResume
    BY <2>6 DEF ToolPause, ToolResume, Ready
  <2>7. CASE Frame
    BY <2>7 DEF Frame, CaptureBlock, DropBlock, Ready
  <2>8. CASE CountRecordingBlock
    BY <2>8 DEF CountRecordingBlock, Counting, BeginStop
  <2>9. CASE CountPrerollBlock
    BY <2>9 DEF CountPrerollBlock, Counting
  <2>10. CASE PrerollClock
    BY <2>10 DEF PrerollClock, Ready
  <2>11. CASE FlipClock
    BY <2>11 DEF FlipClock, Ready
  <2>12. CASE RecordingClock
    BY <2>12 DEF RecordingClock, StopRecording, BeginStop, Ready
  <2>13. CASE Buttons
    BY <2>13 DEF Buttons, Arm, Show, Disarm, Hide, ChooseDuration,
                 TogglePreroll, Ready
  <2>14. CASE OverlayTick
    BY <2>14 DEF OverlayTick, Ready
  <2>15. CASE Machinery
    BY <2>15 DEF Machinery, smVars
  <2>16. CASE UNCHANGED vars
    BY <2>16 DEF vars, smVars
  <2> QED
    BY <2>1, <2>2, <2>3, <2>4, <2>5, <2>6, <2>7, <2>8, <2>9, <2>10, <2>11,
       <2>12, <2>13, <2>14, <2>15, <2>16
       DEF Next, Count, Clock
<1> QED
  BY <1>1, <1>2 DEF CancelInv

(* A count-in that any button, clock or command ends before it is over     *)
(* leaves the sampler armed and no file behind.                            *)
THEOREM CancelAlwaysRemovesFile == Spec => CancelRemovesFile
<1>1. Init => CancelInv
  BY StateInvInit DEF Init, CancelInv
<1>2. CancelInv /\ [Next]_vars => CancelInv'
  BY CancelInvStep
<1>3. CancelInv /\ [Next]_vars =>
        [state = "PREROLL" /\ state' \notin {"PREROLL", "RECORDING"} =>
           state' = "ARMED" /\ saved'.ending = "removed"]_vars
  BY CancelInvStep
<1> QED
  BY <1>1, <1>2, <1>3, PTL DEF Spec, CancelRemovesFile

-----------------------------------------------------------------------------

RecCounter == [clocks : Nat, blocks : Nat, target_pulses : Nat,
               target_blocks : Nat, clock_received : BOOLEAN]

Stopping == todo \in {"save", "cancel"}

(* NeverPastTarget speaks of the moments between two handlers.  TargetInv  *)
(* carries it through a handler that has yet to count its block, and       *)
(* through a pause, which keeps the counters for the resumed recording.    *)
TargetInv ==
  /\ duration_index \in 1 .. Len(Durations)
  /\ pre \in Counter /\ rec \in RecCounter
  /\ state \in {"RECORDING", "PAUSED"} /\ ~Stopping /\ rec.target_blocks > 0 =>
       rec.clocks < rec.target_pulses /\ rec.blocks < rec.target_blocks
  /\ state = "PREROLL" /\ ~Stopping =>
       pre.clocks < pre.target_pulses /\ pre.blocks < pre.target_blocks

(* A recording of the chosen duration has both its targets or neither.     *)
LEMMA BothTargets ==
  ASSUME duration_index \in 1 .. Len(Durations), NEW b \in BlocksPerBar
  PROVE  /\ Bars * PulsesPerBar \in Nat /\ Bars * b \in Nat
         /\ Bars > 0 => Bars * PulsesPerBar > 0 /\ Bars * b > 0
         /\ Bars * b > 0 => Bars * PulsesPerBar > 0
<1>1. Bars \in Nat
  BY SamplerAssumption DEF Bars
<1>2. PulsesPerBar \in Nat \ {0} /\ b \in Nat \ {0}
  BY SamplerAssumption
<1>3. ASSUME NEW x \in Nat, NEW y \in Nat \ {0}
      PROVE  x * y \in Nat /\ (x > 0 => x * y > 0) /\ (x = 0 => x * y = 0)
  BY <1>3
<1>4. CASE Bars > 0
  BY <1>1, <1>2, <1>3, <1>4
<1>5. CASE Bars = 0
  BY <1>1, <1>2, <1>3, <1>5
<1> QED
  BY <1>1, <1>4, <1>5

(* A pulse counts one clock, and keeps what else the recording counts.     *)
LEMMA PulseCounts ==
  ASSUME NEW r \in RecCounter
  PROVE  /\ Pulse(r) \in RecCounter
         /\ Pulse(r).clocks = r.clocks + 1 /\ Pulse(r).blocks = r.blocks
         /\ Pulse(r).target_pulses = r.target_pulses
         /\ Pulse(r).target_blocks = r.target_blocks
<1> DEFINE q == [r EXCEPT !.clocks = r.clocks + 1]
<1>1. /\ q \in RecCounter /\ q.clocks = r.clocks + 1 /\ q.blocks = r.blocks
      /\ q.target_pulses = r.target_pulses
      /\ q.target_blocks = r.target_blocks
  BY DEF RecCounter
<1>2. Pulse(r) = [q EXCEPT !.clock_received = TRUE]
  BY DEF Pulse
<1> HIDE DEF q
<1> QED
  BY <1>1, <1>2 DEF RecCounter

(* So does a block of the fallback timer.                                  *)
LEMMA BlockCounts ==
  ASSUME NEW r \in RecCounter, NEW s, s = [r EXCEPT !.blocks = @ + 1]
  PROVE  /\ s \in RecCounter /\ s.blocks = r.blocks + 1
         /\ s.clocks = r.clocks /\ s.target_pulses = r.target_pulses
         /\ s.target_blocks = r.target_blocks
  BY DEF RecCounter

(* At the start every counter is zero and the sampler is idle.             *)
LEMMA TargetInvInit == Init => TargetInv
  BY DEF Init, TargetInv, Counter, RecCounter, NoCount, NewRec, Stopping

(* Every handler keeps TargetInv.                                          *)
LEMMA TargetInvStep ==
  ASSUME TargetInv, [Next]_vars
  PROVE  TargetInv'
<1> USE DEF TargetInv, Counter, RecCounter, Stopping
<1>1. CASE Trigger /\ WantsPreroll
  <2>1. PICK b \in BlocksPerBar :
          pre' = [NoCount EXCEPT !.target_pulses = Bars * PulsesPerBar,
                                 !.target_blocks = Bars * b]
    BY <1>1 DEF Trigger, StartPreroll
  <2>2. /\ pre' = [clocks |-> 0, blocks |-> 0,
                   target_pulses |-> Bars * PulsesPerBar,
                   target_blocks |-> Bars * b]
        /\ UNCHANGED <<rec, duration_index>> /\ state' = "PREROLL"
    BY <1>1, <2>1 DEF Trigger, StartPreroll, NoCount, menuVars
  <2> QED
    BY <1>1, <2>2, BothTargets DEF WantsPreroll
<1>2. CASE Trigger /\ ~WantsPreroll
  <2>1. PICK b \in BlocksPerBar : rec' = RecordingOf(Bars, b)
    BY <1>2 DEF Trigger, StartRecording
  <2>2. /\ rec' = [clocks |-> 0, blocks |-> 0,
                   target_pulses |-> Bars * PulsesPerBar,
                   target_blocks |-> Bars * b, clock_received |-> FALSE]
        /\ UNCHANGED <<pre, duration_index>> /\ state' = "RECORDING"
    BY <1>2, <2>1 DEF Trigger, StartRecording, RecordingOf, NewRec, menuVars
  <2> QED
    BY <2>2, BothTargets
<1>3. CASE TriggerFails
  <2>1. PICK b \in BlocksPerBar :
          pre' = [NoCount EXCEPT !.target_pulses = Bars * PulsesPerBar,
                                 !.target_blocks = Bars * b]
    BY <1>3 DEF TriggerFails
  <2>2. /\ pre' = [clocks |-> 0, blocks |-> 0,
                   target_pulses |-> Bars * PulsesPerBar,
                   target_blocks |-> Bars * b]
        /\ UNCHANGED <<rec, duration_index>> /\ state' = "IDLE"
    BY <1>3, <2>1 DEF TriggerFails, NoCount, menuVars
  <2> QED
    BY <2>2, BothTargets
<1>4. CASE ToolStart
  BY <1>4 DEF ToolStart, NewRec, menuVars
<1>5. CASE Stop
  BY <1>5 DEF Stop, SampleButtonStops, MidiStop, ToolStop, StopRecording,
              BeginStop, menuVars
<1>6. CASE SaveFile \/ RemoveFile
  BY <1>6 DEF SaveFile, RemoveFile, menuVars
<1>7. CASE ToolPause \/ ToolResume
  BY <1>7 DEF ToolPause, ToolResume, menuVars
<1>8. CASE Frame
  BY <1>8 DEF Frame, CaptureBlock, DropBlock, Ready, menuVars
<1>9. CASE CountRecordingBlock
  <2>1. UNCHANGED <<state, duration_index, pre>> /\ state = "RECORDING"
        /\ ~Stopping
    BY <1>9 DEF CountRecordingBlock, menuVars, Counting
  <2>2. CASE ~rec.clock_received /\ rec.target_blocks > 0
    <3>1. rec' = [rec EXCEPT !.blocks = @ + 1]
      BY <1>9, <2>2 DEF CountRecordingBlock
    <3>2. rec' \in RecCounter /\ rec'.blocks = rec.blocks + 1
          /\ rec'.clocks = rec.clocks /\ rec'.target_pulses = rec.target_pulses
          /\ rec'.target_blocks = rec.target_blocks
      BY <3>1, BlockCounts, Zenon
    <3>3. rec'.blocks >= rec.target_blocks => todo' = "save"
      BY <1>9, <2>2 DEF CountRecordingBlock, BeginStop
    <3> QED
      BY <2>1, <2>2, <3>2, <3>3
  <2>3. CASE ~(~rec.clock_received /\ rec.target_blocks > 0)
    BY <1>9, <2>1, <2>3 DEF CountRecordingBlock
  <2> QED
    BY <2>2, <2>3
<1>10. CASE CountPrerollBlock
  <2>1. /\ pre' = [pre EXCEPT !.blocks = @ + 1] /\ UNCHANGED duration_index
        /\ state = "PREROLL" /\ ~Stopping
    BY <1>10 DEF CountPrerollBlock, menuVars, Counting
  <2>2. /\ pre' \in Counter /\ pre'.blocks = pre.blocks + 1
        /\ pre'.clocks = pre.clocks /\ pre'.target_pulses = pre.target_pulses
        /\ pre'.target_blocks = pre.target_blocks
    BY <2>1
  <2>3. CASE pre'.blocks >= pre.target_blocks
    <3>1. PICK b \in BlocksPerBar : rec' = RecordingOf(Bars, b)
      BY <1>10, <2>3 DEF CountPrerollBlock
    <3>2. /\ rec' = [clocks |-> 0, blocks |-> 0,
                     target_pulses |-> Bars * PulsesPerBar,
                     target_blocks |-> Bars * b, clock_received |-> FALSE]
          /\ state' = "RECORDING"
      BY <1>10, <2>3, <3>1 DEF CountPrerollBlock, RecordingOf, NewRec
    <3> QED
      BY <2>1, <2>2, <3>2, BothTargets
  <2>4. CASE ~(pre'.blocks >= pre.target_blocks)
    <3>1. UNCHANGED <<state, rec>>
      BY <1>10, <2>4 DEF CountPrerollBlock
    <3>2. pre'.blocks < pre'.target_blocks
      BY <2>2, <2>4
    <3>3. pre'.clocks < pre'.target_pulses
      BY <2>1, <2>2
    <3> QED
      BY <2>1, <2>2, <3>1, <3>2, <3>3
  <2> QED
    BY <2>3, <2>4
<1>11. CASE PrerollClock
  <2>1. /\ pre' = [pre EXCEPT !.clocks = @ + 1]
        /\ UNCHANGED <<duration_index, rec, state, todo>>
        /\ pre.clocks + 1 < pre.target_pulses
    BY <1>11 DEF PrerollClock, menuVars, CountedIn
  <2>2. /\ pre' \in Counter /\ pre'.clocks = pre.clocks + 1
        /\ pre'.blocks = pre.blocks /\ pre'.target_pulses = pre.target_pulses
        /\ pre'.target_blocks = pre.target_blocks
    BY <2>1
  <2> QED
    BY <2>1, <2>2
<1>12. CASE FlipClock
  <2>1. PICK b \in BlocksPerBar : rec' = Pulse(RecordingOf(Bars, b))
    BY <1>12 DEF FlipClock
  <2>2. PICK r : r = RecordingOf(Bars, b)
    OBVIOUS
  <2>3. r = [clocks |-> 0, blocks |-> 0, target_pulses |-> Bars * PulsesPerBar,
             target_blocks |-> Bars * b, clock_received |-> FALSE]
    BY <2>2 DEF RecordingOf, NewRec
  <2>4. state' = "RECORDING" /\ UNCHANGED duration_index /\ pre' \in Counter
    <3>1. state' = "RECORDING" /\ UNCHANGED duration_index
          /\ pre' = [pre EXCEPT !.clocks = @ + 1]
      BY <1>12 DEF FlipClock, menuVars
    <3> QED
      BY <3>1
  <2>5. Reached(rec') => Stopping'
    BY <1>12 DEF FlipClock, BeginStop
  <2>6. r \in RecCounter
    BY <2>3, BothTargets
  <2>7. /\ rec' \in RecCounter /\ rec'.clocks = 1 /\ rec'.blocks = 0
        /\ rec'.target_pulses = Bars * PulsesPerBar
        /\ rec'.target_blocks = Bars * b
    <3>1. rec' = Pulse(r)
      BY <2>1, <2>2, Zenon
    <3>2. /\ rec' \in RecCounter /\ rec'.clocks = r.clocks + 1
          /\ rec'.blocks = r.blocks /\ rec'.target_pulses = r.target_pulses
          /\ rec'.target_blocks = r.target_blocks
      BY <3>1, <2>6, PulseCounts, Zenon
    <3> QED
      BY <2>3, <3>2
  <2>8. rec'.target_blocks > 0 /\ ~Stopping' =>
          rec'.clocks < rec'.target_pulses /\ rec'.blocks < rec'.target_blocks
    <3>1. SUFFICES ASSUME Bars * b > 0, ~Stopping'
                   PROVE  1 < Bars * PulsesPerBar
      BY <2>7
    <3>2. Bars * PulsesPerBar \in Nat /\ Bars * PulsesPerBar > 0
      BY <3>1, BothTargets
    <3> QED
      BY <2>5, <2>7, <3>1, <3>2 DEF Reached
  <2> QED
    BY <2>4, <2>7, <2>8
<1>13. CASE RecordingClock
  <2>1. /\ rec' = Pulse(rec) /\ UNCHANGED <<duration_index, pre>>
        /\ state' = "RECORDING" /\ state = "RECORDING" /\ ~Stopping
    BY <1>13 DEF RecordingClock, StopRecording, menuVars, Ready
  <2>2. Reached(rec') => Stopping'
    BY <1>13 DEF RecordingClock, StopRecording, BeginStop
  <2>3. /\ rec' \in RecCounter /\ rec'.clocks = rec.clocks + 1
        /\ rec'.blocks = rec.blocks /\ rec'.target_pulses = rec.target_pulses
        /\ rec'.target_blocks = rec.target_blocks
    BY <2>1, PulseCounts
  <2> QED
    BY <2>1, <2>2, <2>3 DEF Reached
<1>14. CASE Buttons
  <2>1. UNCHANGED <<pre, rec>>
        /\ state' \in {state, "IDLE", "ARMED"} /\ UNCHANGED todo
    BY <1>14 DEF Buttons, Arm, Show, Disarm, Hide, ChooseDuration,
                 TogglePreroll
  <2>2. duration_index' \in 1 .. Len(Durations)
    <3>1. CASE ChooseDuration
      <4>1. Len(Durations) \in Nat \ {0}
        BY SamplerAssumption
      <4>2. ASSUME NEW n \in Nat \ {0}, NEW i \in 1 .. n
            PROVE  (i % n) + 1 \in 1 .. n
        BY <4>2
      <4> QED
        BY <3>1, <4>1, <4>2 DEF ChooseDuration
    <3>2. CASE UNCHANGED duration_index
      BY <3>2
    <3> QED
      BY <1>14, <3>1, <3>2 DEF Buttons, Arm, Show, Disarm, Hide,
         TogglePreroll, menuVars
  <2> QED
    BY <2>1, <2>2
<1>15. CASE OverlayTick
  BY <1>15 DEF OverlayTick, menuVars
<1>16. CASE Machinery
  BY <1>16 DEF Machinery, smVars, menuVars
<1>17. CASE UNCHANGED vars
  BY <1>17 DEF vars, smVars, menuVars
<1> QED
  BY <1>1, <1>2, <1>3, <1>4, <1>5, <1>6, <1>7, <1>8, <1>9, <1>10, <1>11,
     <1>12, <1>13, <1>14, <1>15, <1>16, <1>17 DEF Next, Count, Clock

(* Nothing is recorded past the chosen duration and no count-in outlives   *)
(* its bar, for durations, tempi and pulse counts of every size, with the  *)
(* clock and the fallback timer taking turns and a pause in between.       *)
THEOREM NeverPastTargetEver == Spec => []NeverPastTarget
<1>1. Spec => []TargetInv
  BY TargetInvInit, TargetInvStep, PTL DEF Spec
<1>2. TargetInv => NeverPastTarget
  BY DEF TargetInv, NeverPastTarget, Ready, Stopping
<1> QED
  BY <1>1, <1>2, PTL

-----------------------------------------------------------------------------

Recordings == {"RECORDING", "PAUSED"}

(* The counter of samples to trim runs ahead of the ring while a block of  *)
(* the count-in is on its way, and stands still from the flip on; nothing  *)
(* that a saved file is compared with moves before the next session.       *)
TrimInv ==
  /\ preroll_samples \in Nat
  /\ state = "PREROLL" =>
       preroll_samples =
         IF spi = "filled" THEN published + BlockSamples ELSE published
  /\ state \in Recordings => recording_from = preroll_samples

EndInv ==
  /\ ~running => Len(file) = published
  /\ todo = "save" => state \in Recordings
  /\ todo = "cancel" => state = "PREROLL"
  /\ saved.ending = "saved" => state \in {"IDLE", "ARMED"}

SaveInv == TrimInv /\ EndInv /\ SavedFileComplete

(* At the start no session has recorded or saved anything.                 *)
LEMMA SaveInvInit == Init => SaveInv
  BY DEF Init, RecInit, SaveInv, TrimInv, EndInv, SavedFileComplete, NoFile,
         Recordings

(* What a stop saves of a file that holds all that was captured.           *)
LEMMA TrimmedFileIs ==
  ASSUME RecInv, Len(file) = published, preroll_samples \in Nat,
         recording_from = preroll_samples
  PROVE  /\ Recorded > 0 => Len(TrimmedFile) = Recorded
         /\ recording_from = 0 =>
              TrimmedFile = [i \in 1 .. published |-> i - 1]
<1>1. /\ file \in Seq(Nat \cup {NoSample}) /\ published \in Nat
      /\ \A i \in 1 .. Len(file) : file[i] = i - 1
  BY DEF RecInv, RecTypeOK, FileIsPrefix
<1>2. file = [i \in 1 .. published |-> i - 1]
  BY <1>1
<1>3. CASE preroll_samples > 0 /\ preroll_samples < published
  <2> DEFINE n == published - preroll_samples
  <2>1. n \in Nat /\ n <= Len(file)
    BY <1>1, <1>3
  <2>2. Len(SubSeq(file, 1, n)) = n
    BY <1>1, <2>1
  <2>3. TrimmedFile = SubSeq(file, 1, n)
    BY <1>3 DEF TrimmedFile
  <2> QED
    BY <1>3, <2>2, <2>3 DEF Recorded
<1>4. CASE ~(preroll_samples > 0 /\ preroll_samples < published)
  BY <1>1, <1>2, <1>4 DEF TrimmedFile, Recorded
<1> QED
  BY <1>3, <1>4

(* Every step keeps SaveInv.                                               *)
LEMMA SaveInvStep ==
  ASSUME RecInv, StateInv, SaveInv, [Next]_vars
  PROVE  SaveInv'
<1> USE DEF SaveInv, TrimInv, EndInv, SavedFileComplete, Recordings, Recorded
<1>1. published \in Nat /\ BlockSamples \in Nat
      /\ (~running => spi = "idle" /\ writer = "none")
  BY RingAssumption DEF RecInv, RecTypeOK, ThreadInv
<1>2. CASE Trigger
  <2>1. state' \in {"PREROLL", "RECORDING"} /\ preroll_samples' = 0
        /\ published' = 0 /\ spi' = "idle" /\ running' /\ todo' = "none"
        /\ saved' = NoFile
        /\ (state' = "RECORDING" => recording_from' = 0)
    BY <1>2 DEF Trigger, StartPreroll, StartRecording, StartWriter, Ready
  <2> QED
    BY <2>1 DEF NoFile
<1>3. CASE TriggerFails
  BY <1>3 DEF TriggerFails, Ready, NoFile, recVars
<1>4. CASE ToolStart
  BY <1>4 DEF ToolStart, StartWriter, Ready, NoFile
<1>5. CASE Stop
  BY <1>1, <1>5 DEF Stop, SampleButtonStops, MidiStop, ToolStop, StopRecording,
     BeginStop, RequestStop, Ready, ringVars
<1>6. CASE SaveFile
  <2>1. Len(file) = published /\ recording_from = preroll_samples
    BY <1>6 DEF SaveFile
  <2>2. /\ saved' = [ending |-> "saved", data |-> TrimmedFile]
        /\ UNCHANGED <<published, recording_from, preroll_samples, file,
                       running>>
        /\ state' = "IDLE" /\ todo' = "none"
    BY <1>6 DEF SaveFile, recVars
  <2>3. SavedFileComplete'
    BY <2>1, <2>2, TrimmedFileIs
  <2> QED
    BY <2>2, <2>3
<1>7. CASE RemoveFile
  BY <1>7 DEF RemoveFile, recVars
<1>8. CASE ToolPause \/ ToolResume
  BY <1>8 DEF ToolPause, ToolResume, recVars, Ready
<1>9. CASE CaptureBlock
  BY <1>1, <1>9 DEF CaptureBlock, FillBlock, Ready
<1>10. CASE DropBlock
  BY <1>10 DEF DropBlock, recVars
<1>11. CASE CountRecordingBlock
  BY <1>1, <1>11 DEF CountRecordingBlock, Counting, BeginStop, RequestStop,
     recVars, ringVars
<1>12. CASE CountPrerollBlock
  BY <1>12 DEF CountPrerollBlock, Counting, Flip, recVars
<1>13. CASE PrerollClock
  BY <1>13 DEF PrerollClock, recVars
<1>14. CASE FlipClock
  BY <1>1, <1>14 DEF FlipClock, Flip, BeginStop, RequestStop, Ready, recVars
<1>15. CASE RecordingClock
  BY <1>1, <1>15 DEF RecordingClock, StopRecording, BeginStop, RequestStop,
     Ready, recVars
<1>16. CASE Buttons
  BY <1>16 DEF Buttons, Arm, Show, Disarm, Hide, ChooseDuration, TogglePreroll,
     Ready, recVars
<1>17. CASE OverlayTick
  BY <1>17 DEF OverlayTick, recVars
<1>18. CASE Machinery
  <2>1. UNCHANGED <<state, todo, preroll_samples, saved, recording_from>>
    BY <1>18 DEF Machinery, smVars
  <2>2. CASE PublishBlock
    <3>1. running /\ saved.ending # "saved" /\ running'
      BY <1>1, <2>2 DEF PublishBlock, StateInv, MachineryMatchesState
    <3> QED
      BY <1>1, <2>1, <2>2, <3>1 DEF PublishBlock
  <2>3. CASE SignalBlock("idle") \/ SignalExit
    BY <1>1, <2>1, <2>3 DEF SignalBlock, SignalExit
  <2>4. CASE JoinWriter("idle")
    <3>1. Len(file) = published
      BY <2>4, RingNumbers DEF JoinWriter, RecInv, CopyInv, RingInv, Copied
    <3> QED
      BY <2>1, <2>4, <3>1 DEF JoinWriter
  <2>5. CASE WriterStep \/ SpuriousWake
    <3>1. running /\ UNCHANGED <<running, spi, published>>
      BY <1>1, <2>5 DEF WriterStep, WriterLock, WriterTest, WriterSleep,
         WriterUnlock, WriterLoad, WriterCopy, WriterAdvance, SpuriousWake,
         ringVars
    <3> QED
      BY <2>1, <3>1
  <2> QED
    BY <1>18, <2>2, <2>3, <2>4, <2>5 DEF Machinery
<1>19. CASE UNCHANGED vars
  BY <1>19 DEF vars, smVars, recVars
<1> QED
  BY <1>2, <1>3, <1>4, <1>5, <1>6, <1>7, <1>8, <1>9, <1>10, <1>11, <1>12,
     <1>13, <1>14, <1>15, <1>16, <1>17, <1>18, <1>19
     DEF Next, Frame, Count, Clock

(* Whatever stopped it and however many blocks were dropped, a saved file  *)
(* is as long as the recording proper, and without a count-in it is all    *)
(* that was captured.                                                      *)
THEOREM SavedFileAlwaysComplete == Spec => []SavedFileComplete
<1>1. Spec => []RecInv
  BY SamplerImplementsWriter, RecInvariance, PTL
<1>2. Spec => []StateInv
  BY StateInvInit, StateInvStep, PTL DEF Spec
<1>3. Spec => []SaveInv
  BY <1>1, <1>2, SaveInvInit, SaveInvStep, PTL DEF Spec
<1>4. SaveInv => SavedFileComplete
  BY DEF SaveInv
<1> QED
  BY <1>3, <1>4, PTL
=============================================================================
