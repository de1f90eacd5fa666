--------------------------- MODULE SkipbackProofs ---------------------------
(***************************************************************************)
(* Proofs about Skipback, for buffers and blocks of every size and any     *)
(* number of threads: the ring and its arithmetic implement RollingTape,   *)
(* what the ring holds and what is saved are the latest samples without a  *)
(* gap, and the flag keeps the threads apart unless a resize takes it      *)
(* between a test of the SPI thread and what that thread then does.        *)
(***************************************************************************)
EXTENDS Skipback, SequenceTheorems, TLAPS

-----------------------------------------------------------------------------
(* Places of a ring. *)

(* A place that is less than one turn on.                                  *)
LEMMA ModNear ==
  ASSUME NEW n \in Nat \ {0}, NEW k \in 0 .. (2 * n) - 1
  PROVE  (k < n => k % n = k) /\ (k >= n => k % n = k - n)
  OBVIOUS

(* The distance from one place forward to another.                         *)
LEMMA ModDistance ==
  ASSUME NEW n \in Nat \ {0}, NEW p \in 0 .. n - 1, NEW q \in 0 .. n - 1
  PROVE  /\ q <= p => (p - q) % n = p - q
         /\ q > p => (p - q) % n = p - q + n
  OBVIOUS

(* The i-th sample of a full ring whose next place is w.                   *)
LEMMA ModTurn ==
  ASSUME NEW n \in Nat \ {0}, NEW w \in 0 .. n - 1, NEW i \in 1 .. n
  PROVE  /\ (w + i - 1) % n \in 0 .. n - 1
         /\ (w + i - 1) % n
              = IF w + i - 1 < n THEN w + i - 1 ELSE w + i - 1 - n
<1> DEFINE k == w + i - 1
<1>1. k \in 0 .. (2 * n) - 1
  OBVIOUS
<1> HIDE DEF k
<1>2. (k < n => k % n = k) /\ (k >= n => k % n = k - n)
  BY <1>1, ModNear
<1> QED
  BY <1>1, <1>2 DEF k

(* The newest n of s are s without the d that are too many.                *)
LEMMA NewestOf ==
  ASSUME NEW s \in Seq(Nat), NEW n \in Nat, NEW d \in Nat,
         Len(s) > n => d = Len(s) - n, Len(s) <= n => d = 0
  PROVE  /\ Tape!Newest(s, n) \in Seq(Nat)
         /\ Len(Tape!Newest(s, n)) = Len(s) - d
         /\ \A i \in 1 .. Len(s) - d : Tape!Newest(s, n)[i] = s[d + i]
<1> DEFINE k == Len(s)
           m == d + 1
<1>1. k \in Nat /\ m \in Nat
  OBVIOUS
<1>2. CASE k > n
  <2>1. m <= k + 1 /\ k - m + 1 = k - d /\ m = k - n + 1
    BY <1>1, <1>2
  <2>2. \A i \in m .. k : s[i] \in Nat
    BY <1>1
  <2>3. Tape!Newest(s, n) = SubSeq(s, m, k)
    BY <1>2, <2>1 DEF Tape!Newest
  <2> DEFINE t == SubSeq(s, m, k)
  <2> HIDE DEF m, k
  <2>4. /\ t \in Seq(Nat) /\ Len(t) = IF m <= k THEN k - m + 1 ELSE 0
        /\ \A i \in 1 .. k - m + 1 : t[i] = s[m + i - 1]
    BY <1>1, <2>2, SubSeqProperties
  <2> HIDE DEF t
  <2>5. Len(t) = k - d
    BY <1>1, <2>1, <2>4
  <2>6. ASSUME NEW i \in 1 .. k - d
        PROVE  t[i] = s[d + i]
    <3>1. m + i - 1 = d + i
      BY DEF m
    <3> QED
      BY <2>1, <2>4, <3>1
  <2> QED
    BY <2>3, <2>4, <2>5, <2>6 DEF k, t
<1>3. CASE ~(k > n)
  BY <1>3 DEF Tape!Newest
<1> QED
  BY <1>2, <1>3

(* So it is with what follows s.                                           *)
LEMMA NewestConcat ==
  ASSUME NEW s \in Seq(Nat), NEW b \in Seq(Nat), NEW n \in Nat, NEW d \in Nat,
         Len(s) + Len(b) > n => d = Len(s) + Len(b) - n,
         Len(s) + Len(b) <= n => d = 0
  PROVE  /\ Tape!Newest(s \o b, n) \in Seq(Nat)
         /\ Len(Tape!Newest(s \o b, n)) = Len(s) + Len(b) - d
         /\ \A i \in 1 .. Len(s) + Len(b) - d :
              Tape!Newest(s \o b, n)[i] = IF d + i <= Len(s) THEN s[d + i]
                                          ELSE b[d + i - Len(s)]
<1> DEFINE all == Len(s) + Len(b)
<1> DEFINE c == s \o b
<1>1. /\ c \in Seq(Nat) /\ Len(c) = all
      /\ \A j \in 1 .. all :
           c[j] = IF j <= Len(s) THEN s[j] ELSE b[j - Len(s)]
  BY ConcatProperties
<1> HIDE DEF c
<1>2. /\ Tape!Newest(c, n) \in Seq(Nat) /\ Len(Tape!Newest(c, n)) = all - d
      /\ \A i \in 1 .. all - d : Tape!Newest(c, n)[i] = c[d + i]
  <2>1. (Len(c) > n => d = Len(c) - n) /\ (Len(c) <= n => d = 0)
    BY <1>1
  <2>2. /\ Tape!Newest(c, n) \in Seq(Nat)
        /\ Len(Tape!Newest(c, n)) = Len(c) - d
        /\ \A i \in 1 .. Len(c) - d : Tape!Newest(c, n)[i] = c[d + i]
    BY <1>1, <2>1, NewestOf, Zenon
  <2> QED
    BY <1>1, <2>2, Zenon
<1>3. \A i \in 1 .. all - d : d + i \in 1 .. all
  OBVIOUS
<1> QED
  BY <1>1, <1>2, <1>3 DEF c

-----------------------------------------------------------------------------
(* What always holds. *)

RingInv ==
  /\ total_samples \in Lengths \cup {0}
  /\ skipback_buffer \in [Places(total_samples) -> Nat]
  /\ write_pos \in Nat /\ buffer_full \in BOOLEAN
  /\ total_samples > 0 => write_pos < total_samples
  /\ total_samples = 0 => write_pos = 0 /\ ~buffer_full
  /\ heard \in Nat /\ setting \in Lengths /\ desired \in Lengths

(* While a thread works on the ring it exists, and what the SPI thread has *)
(* loaded of it is still so when it writes.                                *)
SpiInv ==
  /\ spi \in [pc : {"idle", "capture", "write", "trigger"},
              total : Lengths \cup {0}, wp : Nat]
  /\ spi.pc \in {"capture", "write"} => total_samples > 0
  /\ spi.pc = "write" => spi.total = total_samples /\ spi.wp = write_pos

ResizeInv ==
  /\ resizer \in [Resizers -> [pc : {"none", "start", "lock", "flag", "copy",
                                     "swap", "release"},
                               sec : Lengths \cup {0}]]
  /\ \A r \in Resizers :
       /\ resizer[r].pc \notin {"none", "start"} => resizer[r].sec \in Lengths
       /\ resizer[r].pc \in {"flag", "copy", "swap"} => total_samples > 0

(* Lengths are larger than a block, and so than 0. *)
LEMMA LengthsArePositive ==
  /\ 0 \notin Lengths /\ Lengths \subseteq Nat
  /\ \A n \in Lengths : BlockSamples < n
  /\ BlockSamples \in Nat \ {0}
  BY SkipbackAssumption

(* What the ring holds, as a save or a resize reads it.                    *)
Reads ==
  /\ Unrolled \in Seq(Nat)
  /\ buffer_full =>
       /\ Len(Unrolled) = total_samples
       /\ \A i \in 1 .. total_samples :
            Unrolled[i] =
              skipback_buffer[IF write_pos + i - 1 < total_samples
                              THEN write_pos + i - 1
                              ELSE write_pos + i - 1 - total_samples]
  /\ ~buffer_full =>
       /\ Len(Unrolled) = write_pos
       /\ \A i \in 1 .. write_pos : Unrolled[i] = skipback_buffer[i - 1]

LEMMA UnrolledIs == RingInv => Reads
<1> SUFFICES ASSUME RingInv PROVE Reads
  OBVIOUS
<1> USE DEF Reads
<1>1. total_samples \in Nat
  BY LengthsArePositive DEF RingInv
<1>2. CASE buffer_full
  <2>1. /\ total_samples \in Nat \ {0} /\ write_pos \in 0 .. total_samples - 1
        /\ skipback_buffer \in [0 .. total_samples - 1 -> Nat]
    BY <1>1, <1>2 DEF RingInv, Places
  <2>2. ASSUME NEW i \in 1 .. total_samples
        PROVE  /\ (write_pos + i - 1) % total_samples
                    \in 0 .. total_samples - 1
               /\ (write_pos + i - 1) % total_samples
                    = IF write_pos + i - 1 < total_samples
                      THEN write_pos + i - 1
                      ELSE write_pos + i - 1 - total_samples
    BY <2>1, ModTurn
  <2>3. Unrolled = [i \in 1 .. total_samples |->
                      skipback_buffer[(write_pos + i - 1) % total_samples]]
    BY <1>2 DEF Unrolled
  <2>4. Unrolled \in [1 .. total_samples -> Nat]
    BY <2>1, <2>2, <2>3
  <2>5. Unrolled \in Seq(Nat) /\ Len(Unrolled) = total_samples
    BY <1>1, <2>4
  <2> QED
    BY <1>2, <2>2, <2>3, <2>5
<1>3. CASE ~buffer_full
  <2>1. /\ write_pos \in 0 .. total_samples
        /\ skipback_buffer \in [0 .. total_samples - 1 -> Nat]
    BY <1>1 DEF RingInv, Places
  <2>2. Unrolled = [i \in 1 .. write_pos |-> skipback_buffer[i - 1]]
    BY <1>3 DEF Unrolled
  <2> QED
    BY <1>1, <1>3, <2>1, <2>2
<1> QED
  BY <1>2, <1>3 DEF RingInv

LEMMA UnrolledNext == RingInv' => Reads'
  BY UnrolledIs, PTL

-----------------------------------------------------------------------------
(* The capture. *)

(* Where a block goes: the places from the write position on, round the    *)
(* end; all others keep what they had.                                     *)
LEMMA BlockGoes ==
  ASSUME RingInv, SpiInv, CaptureBlock
  PROVE  /\ write_pos + BlockSamples < total_samples =>
              /\ write_pos' = write_pos + BlockSamples
              /\ (buffer_full' <=> buffer_full)
         /\ write_pos + BlockSamples >= total_samples =>
              /\ write_pos' = write_pos + BlockSamples - total_samples
              /\ buffer_full'
         /\ skipback_buffer' \in [Places(total_samples) -> Nat]
         /\ \A p \in Places(total_samples) :
              /\ p >= write_pos /\ p - write_pos < BlockSamples =>
                   skipback_buffer'[p] = heard + (p - write_pos) + 1
              /\ p >= write_pos /\ p - write_pos >= BlockSamples =>
                   skipback_buffer'[p] = skipback_buffer[p]
              /\ p < write_pos
                   /\ p - write_pos + total_samples < BlockSamples =>
                   skipback_buffer'[p]
                     = heard + (p - write_pos + total_samples) + 1
              /\ p < write_pos
                   /\ p - write_pos + total_samples >= BlockSamples =>
                   skipback_buffer'[p] = skipback_buffer[p]
<1> DEFINE t == total_samples
           w == write_pos
           B == BlockSamples
           Stored(p, wp, total) ==
             IF (p - wp) % total < B THEN heard + ((p - wp) % total) + 1
                                     ELSE skipback_buffer[p]
<1>1. /\ t \in Nat \ {0} /\ w \in 0 .. t - 1
      /\ B \in Nat \ {0} /\ B < t
      /\ spi.total = t /\ spi.wp = w /\ heard \in Nat
      /\ buffer_full \in BOOLEAN
      /\ skipback_buffer \in [0 .. t - 1 -> Nat]
  <2>1. spi.pc = "write"
    BY DEF CaptureBlock
  <2>2. t > 0 /\ spi.total = t /\ spi.wp = w
    BY <2>1 DEF SpiInv
  <2>3. t \in Lengths
    BY <2>2, LengthsArePositive DEF RingInv
  <2> QED
    BY <2>2, <2>3, LengthsArePositive DEF RingInv, Places
<1>2. /\ write_pos' = (w + B) % t
      /\ buffer_full' = (buffer_full \/ (w + B) % t < w)
      /\ skipback_buffer' = [p \in 0 .. t - 1 |-> Stored(p, w, t)]
  <2>1. DOMAIN skipback_buffer = 0 .. t - 1
    BY <1>1
  <2>2. spi.total = t /\ spi.wp = w
    BY <1>1
  <2>3. write_pos' = (w + B) % t
    BY <2>2 DEF CaptureBlock, Advance
  <2>4. buffer_full' = (buffer_full \/ (w + B) % t < w)
    BY <2>2 DEF CaptureBlock, Advance, Wrapped
  <2>5. skipback_buffer' = [p \in 0 .. t - 1 |-> Stored(p, w, t)]
    <3>1. skipback_buffer' =
            [p \in DOMAIN skipback_buffer |->
               IF (p - spi.wp) % spi.total < BlockSamples
               THEN heard + ((p - spi.wp) % spi.total) + 1
               ELSE skipback_buffer[p]]
      BY DEF CaptureBlock
    <3> QED
      BY <2>1, <2>2, <3>1
  <2> QED
    BY <2>3, <2>4, <2>5
<1> HIDE DEF t, w, B
<1>3. /\ w + B \in 0 .. (2 * t) - 1
  BY <1>1
<1>4. /\ w + B < t => (w + B) % t = w + B
      /\ w + B >= t => (w + B) % t = w + B - t
  <2> DEFINE k == w + B
  <2>1. k \in 0 .. (2 * t) - 1 /\ t \in Nat \ {0}
    BY <1>1, <1>3
  <2> HIDE DEF k
  <2>2. (k < t => k % t = k) /\ (k >= t => k % t = k - t)
    BY <2>1, ModNear
  <2> QED
    BY <1>1, <2>2 DEF k
<1>5. /\ w + B < t => write_pos' = w + B /\ (buffer_full' <=> buffer_full)
      /\ w + B >= t => write_pos' = w + B - t /\ buffer_full'
  <2>1. w + B < t => (w + B) % t = w + B
    BY <1>1, <1>4
  <2>2. w + B >= t => (w + B) % t = w + B - t
    BY <1>1, <1>4
  <2>3. w + B < t => ~(w + B < w)
    BY <1>1
  <2>4. w + B >= t => w + B - t < w
    BY <1>1
  <2> QED
    BY <1>1, <1>2, <2>1, <2>2, <2>3, <2>4
<1>6. ASSUME NEW p \in 0 .. t - 1
      PROVE  /\ p >= w => (p - w) % t = p - w
             /\ p < w => (p - w) % t = p - w + t
             /\ (p - w) % t \in Nat
  <2>1. /\ w <= p => (p - w) % t = p - w
        /\ w > p => (p - w) % t = p - w + t
    BY <1>1, ModDistance
  <2> QED
    BY <1>1, <2>1
<1>7. skipback_buffer' \in [0 .. t - 1 -> Nat]
  BY <1>1, <1>2, <1>6
<1>8. ASSUME NEW p \in 0 .. t - 1
      PROVE  /\ p >= w /\ p - w < B =>
                  skipback_buffer'[p] = heard + (p - w) + 1
             /\ p >= w /\ p - w >= B =>
                  skipback_buffer'[p] = skipback_buffer[p]
             /\ p < w /\ p - w + t < B =>
                  skipback_buffer'[p] = heard + (p - w + t) + 1
             /\ p < w /\ p - w + t >= B =>
                  skipback_buffer'[p] = skipback_buffer[p]
  <2> DEFINE m == (p - w) % t
  <2>1. skipback_buffer'[p] = IF m < B THEN heard + m + 1
                                       ELSE skipback_buffer[p]
    BY <1>1, <1>2
  <2>2. (p >= w => m = p - w) /\ (p < w => m = p - w + t) /\ m \in Nat
    BY <1>6
  <2> HIDE DEF m
  <2>3. /\ m < B => skipback_buffer'[p] = heard + m + 1
        /\ m >= B => skipback_buffer'[p] = skipback_buffer[p]
    BY <1>1, <2>1, <2>2
  <2> QED
    BY <1>1, <2>2, <2>3
<1> QED
  BY <1>5, <1>7, <1>8 DEF t, w, B, Places

LEMMA CaptureKeepsRing ==
  ASSUME RingInv, SpiInv, CaptureBlock
  PROVE  RingInv'
<1>1. /\ total_samples \in Nat \ {0}
      /\ write_pos \in 0 .. total_samples - 1
      /\ BlockSamples \in Nat \ {0} /\ BlockSamples < total_samples
      /\ heard \in Nat /\ buffer_full \in BOOLEAN
  BY LengthsArePositive DEF RingInv, SpiInv, CaptureBlock
<1>2. write_pos' \in 0 .. total_samples - 1
  <2>1. /\ write_pos + BlockSamples < total_samples =>
             write_pos' = write_pos + BlockSamples
        /\ write_pos + BlockSamples >= total_samples =>
             write_pos' = write_pos + BlockSamples - total_samples
    BY BlockGoes
  <2> QED
    BY <1>1, <2>1
<1>3. skipback_buffer' \in [Places(total_samples) -> Nat]
  BY BlockGoes
<1>4. buffer_full' \in BOOLEAN
  BY <1>1 DEF CaptureBlock
<1>5. UNCHANGED <<total_samples, setting, desired>>
      /\ heard' = heard + BlockSamples
  BY DEF CaptureBlock, wishes
<1> QED
  BY <1>1, <1>2, <1>3, <1>4, <1>5 DEF RingInv

LEMMA NextBlockIs ==
  ASSUME heard \in Nat
  PROVE  /\ Tape!NextBlock \in Seq(Nat)
         /\ Len(Tape!NextBlock) = BlockSamples
         /\ \A i \in 1 .. BlockSamples : Tape!NextBlock[i] = heard + i
  BY LengthsArePositive DEF Tape!NextBlock

LEMMA CaptureHears ==
  ASSUME RingInv, SpiInv, CaptureBlock
  PROVE  Tape!Hear
<1> DEFINE t == total_samples
           w == write_pos
           B == BlockSamples
           u == Unrolled
           b == Tape!NextBlock
           N == Tape!Newest(u \o b, t)
<1>1. /\ t \in Nat \ {0} /\ w \in 0 .. t - 1
      /\ B \in Nat \ {0} /\ B < t
      /\ heard \in Nat /\ buffer_full \in BOOLEAN
  BY LengthsArePositive DEF RingInv, SpiInv, CaptureBlock
<1>2. Reads /\ Reads'
  BY CaptureKeepsRing, UnrolledIs, UnrolledNext
<1>3. /\ b \in Seq(Nat) /\ Len(b) = B
      /\ \A i \in 1 .. B : b[i] = heard + i
  BY <1>1, NextBlockIs
<1>4. UNCHANGED <<total_samples, saved>> /\ heard' = heard + B
  BY DEF CaptureBlock, savers
<1>5. \A p \in 0 .. t - 1 :
        /\ p >= w /\ p - w < B => skipback_buffer'[p] = heard + (p - w) + 1
        /\ p >= w /\ p - w >= B => skipback_buffer'[p] = skipback_buffer[p]
        /\ p < w /\ p - w + t < B =>
             skipback_buffer'[p] = heard + (p - w + t) + 1
        /\ p < w /\ p - w + t >= B => skipback_buffer'[p] = skipback_buffer[p]
  BY BlockGoes DEF Places
<1>6. /\ w + B < t => write_pos' = w + B /\ (buffer_full' <=> buffer_full)
      /\ w + B >= t => write_pos' = w + B - t /\ buffer_full'
  BY BlockGoes
<1>7. /\ u \in Seq(Nat) /\ Unrolled' \in Seq(Nat)
      /\ buffer_full =>
           /\ Len(u) = t
           /\ \A i \in 1 .. t :
                u[i] = skipback_buffer[IF w + i - 1 < t THEN w + i - 1
                                                        ELSE w + i - 1 - t]
      /\ ~buffer_full =>
           Len(u) = w /\ \A i \in 1 .. w : u[i] = skipback_buffer[i - 1]
      /\ buffer_full' =>
           /\ Len(Unrolled') = t
           /\ \A i \in 1 .. t :
                Unrolled'[i] = skipback_buffer'[IF write_pos' + i - 1 < t
                                                THEN write_pos' + i - 1
                                                ELSE write_pos' + i - 1 - t]
      /\ ~buffer_full' =>
           /\ Len(Unrolled') = write_pos'
           /\ \A i \in 1 .. write_pos' : Unrolled'[i] = skipback_buffer'[i - 1]
  BY <1>2, <1>4 DEF Reads
<1> HIDE DEF t, w, B, u, b
<1>8. ASSUME NEW d \in Nat, Len(u) + Len(b) > t => d = Len(u) + Len(b) - t,
             Len(u) + Len(b) <= t => d = 0
      PROVE  /\ N \in Seq(Nat) /\ Len(N) = Len(u) + Len(b) - d
             /\ \A i \in 1 .. Len(u) + Len(b) - d :
                  N[i] = IF d + i <= Len(u) THEN u[d + i]
                         ELSE b[d + i - Len(u)]
  <2>1. u \in Seq(Nat) /\ b \in Seq(Nat) /\ t \in Nat
    BY <1>1, <1>3, <1>7
  <2> QED
    BY <1>8, <2>1, NewestConcat, Zenon
<1> HIDE DEF N
<1>9. Unrolled' = N
  <2>1. CASE ~buffer_full /\ w + B < t
    <3>1. /\ N \in Seq(Nat) /\ Len(N) = w + B
          /\ \A i \in 1 .. w + B :
               N[i] = IF i <= w THEN u[i] ELSE b[i - w]
      <4>1. Len(u) = w /\ w + B <= t
        BY <1>1, <1>7, <2>1
      <4>2. /\ Len(u) + Len(b) > t => 0 = Len(u) + Len(b) - t
            /\ Len(u) + Len(b) <= t => 0 = 0
            /\ 0 \in Nat
        BY <1>1, <1>3, <1>7, <4>1
      <4>3. /\ N \in Seq(Nat) /\ Len(N) = Len(u) + Len(b) - 0
            /\ \A i \in 1 .. Len(u) + Len(b) - 0 :
                 N[i] = IF 0 + i <= Len(u) THEN u[0 + i]
                        ELSE b[0 + i - Len(u)]
        BY <1>8, <4>2, Zenon
      <4> QED
        BY <1>1, <1>3, <4>1, <4>3
    <3>2. Len(Unrolled') = w + B
      BY <1>1, <1>6, <1>7, <2>1
    <3>3. ASSUME NEW i \in 1 .. w + B
          PROVE  Unrolled'[i] = N[i]
      <4>1. Unrolled'[i] = skipback_buffer'[i - 1]
        BY <1>1, <1>6, <1>7, <2>1
      <4>2. CASE i <= w
        <5>1. skipback_buffer'[i - 1] = skipback_buffer[i - 1]
          BY <1>1, <1>5, <2>1, <4>2
        <5>2. i \in 1 .. w
          BY <1>1, <4>2
        <5>3. u[i] = skipback_buffer[i - 1]
          BY <1>7, <2>1, <5>2
        <5>4. N[i] = u[i]
          BY <3>1, <4>2
        <5> QED
          BY <4>1, <5>1, <5>3, <5>4
      <4>3. CASE i > w
        <5>1. skipback_buffer'[i - 1] = heard + (i - w)
          BY <1>1, <1>5, <2>1, <4>3
        <5> QED
          BY <1>1, <1>3, <3>1, <4>1, <4>3, <5>1
      <4> QED
        BY <1>1, <4>2, <4>3
    <3> QED
      BY <1>7, <3>1, <3>2, <3>3, SeqEqual
  <2>2. CASE ~buffer_full /\ w + B >= t
    <3> DEFINE v == w + B - t
    <3>1. v \in Nat /\ v < w /\ write_pos' = v /\ buffer_full'
      BY <1>1, <1>6, <2>2
    <3>2. /\ N \in Seq(Nat) /\ Len(N) = t
          /\ \A i \in 1 .. t :
               N[i] = IF v + i <= w THEN u[v + i] ELSE b[v + i - w]
      <4>1. Len(u) = w /\ w + B - v = t
        BY <1>1, <1>7, <2>2
      <4> HIDE DEF v
      <4>2. /\ Len(u) + Len(b) > t => v = Len(u) + Len(b) - t
            /\ Len(u) + Len(b) <= t => v = 0
            /\ v \in Nat
        BY <1>1, <1>3, <1>7, <2>2, <3>1, <4>1
      <4>3. /\ N \in Seq(Nat) /\ Len(N) = Len(u) + Len(b) - v
            /\ \A i \in 1 .. Len(u) + Len(b) - v :
                 N[i] = IF v + i <= Len(u) THEN u[v + i]
                        ELSE b[v + i - Len(u)]
        BY <1>8, <4>2, Zenon
      <4> QED
        BY <1>1, <1>3, <4>1, <4>3
    <3>3. Len(Unrolled') = t
      BY <1>7, <3>1
    <3>4. ASSUME NEW i \in 1 .. t
          PROVE  Unrolled'[i] = N[i]
      <4>1. /\ v + i - 1 < t => Unrolled'[i] = skipback_buffer'[v + i - 1]
            /\ v + i - 1 >= t => Unrolled'[i] = skipback_buffer'[v + i - 1 - t]
        <5>1. Unrolled'[i] = skipback_buffer'[IF v + i - 1 < t THEN v + i - 1
                                              ELSE v + i - 1 - t]
          BY <1>7, <3>1
        <5> QED
          BY <1>1, <3>1, <5>1
      <4>2. CASE v + i <= w
        <5>1. skipback_buffer'[v + i - 1] = skipback_buffer[v + i - 1]
          BY <1>1, <1>5, <2>2, <4>2
        <5>2. u[v + i] = skipback_buffer[v + i - 1]
          BY <1>1, <1>7, <2>2, <3>1, <4>2
        <5> QED
          BY <1>1, <3>1, <3>2, <4>1, <4>2, <5>1, <5>2
      <4>3. CASE v + i > w
        <5>1. b[v + i - w] = heard + (v + i - w)
          BY <1>1, <1>3, <4>3
        <5>2. CASE v + i - 1 < t
          BY <1>1, <1>5, <3>1, <3>2, <4>1, <4>3, <5>1, <5>2
        <5>3. CASE v + i - 1 >= t
          BY <1>1, <1>5, <3>1, <3>2, <4>1, <4>3, <5>1, <5>3
        <5> QED
          BY <1>1, <3>1, <5>2, <5>3
      <4> QED
        BY <1>1, <3>1, <4>2, <4>3
    <3> QED
      BY <1>7, <3>2, <3>3, <3>4, SeqEqual
  <2>3. CASE buffer_full
    <3>1. buffer_full'
      BY <1>1, <1>6, <2>3
    <3>2. /\ N \in Seq(Nat) /\ Len(N) = t
          /\ \A i \in 1 .. t :
               N[i] = IF B + i <= t THEN u[B + i] ELSE b[B + i - t]
      <4>1. Len(u) = t /\ t + B - B = t
        <5>1. Len(u) = t
          BY <1>7, <2>3
        <5>2. t + B - B = t
          BY <1>1
        <5> QED
          BY <5>1, <5>2
      <4>2. /\ Len(u) + Len(b) > t => B = Len(u) + Len(b) - t
            /\ Len(u) + Len(b) <= t => B = 0
            /\ B \in Nat
        BY <1>1, <1>3, <1>7, <4>1
      <4>3. /\ N \in Seq(Nat) /\ Len(N) = Len(u) + Len(b) - B
            /\ \A i \in 1 .. Len(u) + Len(b) - B :
                 N[i] = IF B + i <= Len(u) THEN u[B + i]
                        ELSE b[B + i - Len(u)]
        BY <1>8, <4>2, Zenon
      <4> QED
        BY <1>1, <1>3, <4>1, <4>3
    <3>3. Len(Unrolled') = t
      BY <1>7, <3>1
    <3>4. ASSUME NEW i \in 1 .. t
          PROVE  Unrolled'[i] = N[i]
      <4> DEFINE v == write_pos'
      <4>1. /\ v \in 0 .. t - 1
            /\ w + B < t => v = w + B
            /\ w + B >= t => v = w + B - t
        BY <1>1, <1>6
      <4>2. Unrolled'[i] = skipback_buffer'[IF v + i - 1 < t THEN v + i - 1
                                            ELSE v + i - 1 - t]
        BY <1>7, <3>1
      <4> HIDE DEF v
      <4>3. /\ v + i - 1 < t => Unrolled'[i] = skipback_buffer'[v + i - 1]
            /\ v + i - 1 >= t => Unrolled'[i] = skipback_buffer'[v + i - 1 - t]
        BY <1>1, <4>1, <4>2
      <4>4. CASE B + i <= t
        <5> DEFINE k == w + B + i - 1
        <5>1. u[B + i] = skipback_buffer[IF w + (B + i) - 1 < t
                                         THEN w + (B + i) - 1
                                         ELSE w + (B + i) - 1 - t]
          <6>1. B + i \in 1 .. t
            BY <1>1, <4>4
          <6> QED
            BY <1>7, <2>3, <6>1
        <5>2. CASE k < t
          <6>1. u[B + i] = skipback_buffer[k]
            BY <1>1, <5>1, <5>2
          <6>2. Unrolled'[i] = skipback_buffer'[k]
            BY <1>1, <4>1, <4>3, <5>2
          <6>3. skipback_buffer'[k] = skipback_buffer[k]
            BY <1>1, <1>5, <5>2
          <6> QED
            BY <3>2, <4>4, <6>1, <6>2, <6>3
        <5>3. CASE k >= t
          <6>1. u[B + i] = skipback_buffer[k - t]
            BY <1>1, <5>1, <5>3
          <6>2. Unrolled'[i] = skipback_buffer'[k - t]
            BY <1>1, <4>1, <4>3, <4>4, <5>3
          <6>3. skipback_buffer'[k - t] = skipback_buffer[k - t]
            BY <1>1, <1>5, <4>4, <5>3
          <6> QED
            BY <3>2, <4>4, <6>1, <6>2, <6>3
        <5> QED
          BY <1>1, <5>2, <5>3
      <4>5. CASE B + i > t
        <5>1. N[i] = heard + (B + i - t)
          BY <1>1, <1>3, <3>2, <4>5
        <5> DEFINE k == w + B + i - 1 - t
        <5>2. CASE k < t
          <6>1. Unrolled'[i] = skipback_buffer'[k]
            BY <1>1, <4>1, <4>3, <4>5, <5>2
          <6>2. skipback_buffer'[k] = heard + (B + i - t)
            BY <1>1, <1>5, <4>5, <5>2
          <6> QED
            BY <5>1, <6>1, <6>2
        <5>3. CASE k >= t
          <6>1. Unrolled'[i] = skipback_buffer'[k - t]
            BY <1>1, <4>1, <4>3, <4>5, <5>3
          <6>2. skipback_buffer'[k - t] = heard + (B + i - t)
            BY <1>1, <1>5, <4>5, <5>3
          <6> QED
            BY <5>1, <6>1, <6>2
        <5> QED
          BY <1>1, <5>2, <5>3
      <4> QED
        BY <1>1, <4>4, <4>5
    <3> QED
      BY <1>7, <3>2, <3>3, <3>4, SeqEqual
  <2> QED
    BY <1>1, <2>1, <2>2, <2>3
<1> QED
  BY <1>1, <1>4, <1>9 DEF Tape!Hear, N, t, u, b, B

-----------------------------------------------------------------------------
(* The resize. *)

(* What a resize takes over are the newest samples.                        *)
LEMMA KeptIsNewest ==
  ASSUME RingInv, NEW n \in Nat
  PROVE  /\ Kept(n) = Tape!Newest(Unrolled, n)
         /\ Kept(n) \in Seq(Nat) /\ Len(Kept(n)) <= n
<1> DEFINE u == Unrolled
           k == Len(u)
<1>1. u \in Seq(Nat)
  BY UnrolledIs DEF Reads
<1>2. k \in Nat
  BY <1>1
<1>3. CASE k > n
  <2>1. Kept(n) = SubSeq(u, k - n + 1, k)
    <3>1. (IF k < n THEN k ELSE n) = n
      BY <1>2, <1>3
    <3> QED
      BY <3>1 DEF Kept
  <2>2. Tape!Newest(u, n) = SubSeq(u, k - n + 1, k)
    BY <1>3 DEF Tape!Newest
  <2>3. /\ k > n => k - n = k - n
        /\ k <= n => k - n = 0
        /\ k - n \in Nat
    BY <1>2, <1>3
  <2>4. Tape!Newest(u, n) \in Seq(Nat) /\ Len(Tape!Newest(u, n)) = k - (k - n)
    BY <1>1, <2>3, NewestOf, Zenon
  <2> QED
    BY <1>2, <2>1, <2>2, <2>4
<1>4. CASE k <= n
  <2>1. Tape!Newest(u, n) = u
    BY <1>2, <1>4 DEF Tape!Newest
  <2>2. Kept(n) = SubSeq(u, 1, k)
    <3>1. (IF k < n THEN k ELSE n) = k
      BY <1>2, <1>4
    <3>2. k - k + 1 = 1
      BY <1>2
    <3> QED
      BY <3>1, <3>2 DEF Kept
  <2>3. SubSeq(u, 1, k) = u
    <3>1. /\ SubSeq(u, 1, k) \in Seq(Nat) /\ Len(SubSeq(u, 1, k)) = k
          /\ \A i \in 1 .. k : SubSeq(u, 1, k)[i] = u[i]
      BY <1>1, <1>2, SubSeqProperties
    <3> QED
      BY <1>1, <3>1, SeqEqual
  <2> QED
    BY <1>1, <1>4, <2>1, <2>2, <2>3
<1> QED
  BY <1>2, <1>3, <1>4

LEMMA SwapSets ==
  ASSUME RingInv, ResizeInv, NEW r \in Resizers, ResizeSwaps(r)
  PROVE  RingInv' /\ Tape!SetLength
<1> DEFINE sec == resizer[r].sec
           kept == Kept(sec)
           k == Len(kept)
<1>1. /\ resizer[r].pc = "swap"
      /\ skipback_buffer' = [p \in Places(sec) |->
                               IF p < k THEN kept[p + 1] ELSE 0]
      /\ total_samples' = sec
      /\ write_pos' = IF k < sec THEN k ELSE 0
      /\ buffer_full' = (k = sec)
      /\ UNCHANGED <<setting, desired, saved, heard>>
  BY DEF ResizeSwaps, ResizeGoes, wishes, savers
<1>2. sec \in Lengths /\ total_samples > 0
  BY <1>1 DEF ResizeInv
<1>3. sec \in Nat \ {0}
  BY <1>2, LengthsArePositive
<1>4. kept = Tape!Newest(Unrolled, sec) /\ kept \in Seq(Nat) /\ k <= sec
  BY <1>3, KeptIsNewest
<1>5. k \in Nat
  BY <1>4
<1> HIDE DEF kept
<1>6. RingInv'
  <2>1. skipback_buffer' \in [Places(sec) -> Nat]
    <3>1. \A p \in Places(sec) : p < k => kept[p + 1] \in Nat
      BY <1>3, <1>4, <1>5 DEF Places
    <3> QED
      BY <1>1, <3>1
  <2>2. write_pos' \in Nat /\ write_pos' < sec /\ buffer_full' \in BOOLEAN
    BY <1>1, <1>3, <1>5
  <2> QED
    BY <1>1, <1>2, <1>3, <2>1, <2>2 DEF RingInv
<1>7. Unrolled' = kept
  <2>1. Reads'
    BY <1>6, UnrolledNext
  <2>2. \A p \in 0 .. k - 1 : skipback_buffer'[p] = kept[p + 1]
    BY <1>1, <1>3, <1>4, <1>5 DEF Places
  <2>3. CASE k = sec
    <3>1. Len(Unrolled') = k /\ Unrolled' \in Seq(Nat)
      BY <1>1, <2>1, <2>3 DEF Reads
    <3>2. ASSUME NEW i \in 1 .. k
          PROVE  Unrolled'[i] = kept[i]
      <4>1. Unrolled'[i] =
              skipback_buffer'[IF write_pos' + i - 1 < sec THEN write_pos' + i - 1
                               ELSE write_pos' + i - 1 - sec]
        BY <1>1, <2>1, <2>3 DEF Reads
      <4>2. write_pos' = 0
        BY <1>1, <1>5, <2>3
      <4>3. Unrolled'[i] = skipback_buffer'[i - 1]
        BY <1>5, <2>3, <4>1, <4>2
      <4> QED
        BY <1>5, <2>2, <4>3
    <3> QED
      BY <1>4, <3>1, <3>2, SeqEqual
  <2>4. CASE k # sec
    <3>1. ~buffer_full' /\ write_pos' = k
      <4>1. k < sec
        BY <1>3, <1>4, <1>5, <2>4
      <4> QED
        BY <1>1, <2>4, <4>1
    <3>2. Len(Unrolled') = k /\ Unrolled' \in Seq(Nat)
      BY <2>1, <3>1 DEF Reads
    <3>3. ASSUME NEW i \in 1 .. k
          PROVE  Unrolled'[i] = kept[i]
      <4>1. Unrolled'[i] = skipback_buffer'[i - 1]
        BY <2>1, <3>1 DEF Reads
      <4> QED
        BY <1>5, <2>2, <4>1
    <3> QED
      BY <1>4, <3>2, <3>3, SeqEqual
  <2> QED
    BY <2>3, <2>4
<1> QED
  BY <1>1, <1>2, <1>4, <1>6, <1>7 DEF Tape!SetLength

-----------------------------------------------------------------------------
(* The flag is a lock, as long as no resize has overtaken the SPI thread:  *)
(* whoever saves or changes the buffer holds it and holds it alone, and    *)
(* the SPI thread, having found it free, finds it so until it is done.     *)

SaverHolds(s) == saver[s] # "none"
ResizerHolds(r) == resizer[r].pc \in {"copy", "swap", "release"}

NobodyHolds ==
  /\ \A s \in 1 .. MaxSaves : ~SaverHolds(s)
  /\ \A r \in Resizers : ~ResizerHolds(r)

OneHolds ==
  /\ \A s1, s2 \in 1 .. MaxSaves : SaverHolds(s1) /\ SaverHolds(s2) => s1 = s2
  /\ \A r1, r2 \in Resizers : ResizerHolds(r1) /\ ResizerHolds(r2) => r1 = r2
  /\ \A s \in 1 .. MaxSaves, r \in Resizers : ~(SaverHolds(s) /\ ResizerHolds(r))

FlagInv ==
  /\ saver \in [1 .. MaxSaves -> {"none", "open", "read", "release"}]
  /\ saving \in BOOLEAN /\ overtaken \in BOOLEAN
  /\ ~overtaken =>
       /\ ~saving => NobodyHolds
       /\ OneHolds
       /\ spi.pc # "idle" => ~saving

Inv == RingInv /\ SpiInv /\ ResizeInv /\ FlagInv

(* The invariant holds at first.                                           *)
LEMMA InitInv == Init => Inv /\ Tape!TapeInit
<1> SUFFICES ASSUME Init PROVE Inv /\ Tape!TapeInit
  OBVIOUS
<1>1. RingInv
  <2>1. /\ total_samples = 0 /\ write_pos = 0 /\ buffer_full = FALSE
        /\ heard = 0 /\ setting \in Lengths /\ desired \in Lengths
    BY SkipbackAssumption DEF Init
  <2>2. skipback_buffer \in [Places(0) -> Nat]
    BY DEF Init, Blank
  <2> QED
    BY <2>1, <2>2 DEF RingInv
<1>2. SpiInv /\ ResizeInv /\ FlagInv
  BY DEF Init, SpiInv, ResizeInv, FlagInv, NobodyHolds, OneHolds, SaverHolds,
         ResizerHolds
<1>3. Unrolled = <<>>
  <2>1. Reads /\ ~buffer_full /\ write_pos = 0
    BY <1>1, UnrolledIs DEF Init
  <2>2. Unrolled \in Seq(Nat) /\ Len(Unrolled) = 0
    BY <2>1 DEF Reads
  <2> QED
    BY <2>2
<1> QED
  BY <1>1, <1>2, <1>3 DEF Inv, Init, Tape!TapeInit

(* Three steps change the ring; the others at most save it.                *)
LEMMA RingSteps ==
  ASSUME Next
  PROVE  \/ InitBuffer
         \/ CaptureBlock
         \/ \E r \in Resizers : ResizeSwaps(r)
         \/ /\ UNCHANGED <<ring, heard>>
            /\ UNCHANGED saved \/ \E s \in 1 .. MaxSaves : SaveWrites(s)
<1> DEFINE Still == UNCHANGED <<ring, heard, saved>>
<1>1. SpiStep => InitBuffer \/ CaptureBlock \/ Still
  BY DEF SpiStep, CaptureTest, CaptureLoad, TriggerTest, TriggerSave,
         PollLength, savers
<1>2. ChooseLength => Still
  BY DEF ChooseLength, savers
<1>3. ASSUME NEW s \in 1 .. MaxSaves, SaveStep(s)
      PROVE  Still \/ (SaveWrites(s) /\ UNCHANGED <<ring, heard>>)
  BY <1>3 DEF SaveStep, SaveOpens, SaveFails, SaveWrites, SaveReleases, savers
<1>4. ASSUME NEW r \in Resizers, ResizeStep(r)
      PROVE  Still \/ ResizeSwaps(r)
  BY <1>4 DEF ResizeStep, ResizeStarts, ResizeLocks, ResizeTakes,
              ResizeAllocates, ResizeReleases, savers
<1> QED
  BY <1>1, <1>2, <1>3, <1>4 DEF Next

(* The settings offer nothing but lengths.                                 *)
LEMMA WishSteps ==
  ASSUME RingInv, Next
  PROVE  setting' \in Lengths /\ desired' \in Lengths
  BY DEF RingInv, Next, SpiStep, InitBuffer, CaptureTest, CaptureLoad,
         CaptureBlock, TriggerTest, TriggerSave, PollLength, ChooseLength,
         SaveStep, SaveOpens, SaveFails, SaveWrites, SaveReleases, ResizeStep,
         ResizeStarts, ResizeLocks, ResizeTakes, ResizeAllocates, ResizeSwaps,
         ResizeReleases, wishes

(* Each step of the threads is a step of the tape, or none.                *)
LEMMA StepsOfTape ==
  ASSUME Inv, [Next]_vars
  PROVE  RingInv' /\ [Tape!TapeNext]_(Tape!tapeVars)
<1> USE DEF Inv
<1>1. CASE InitBuffer
  <2>1. /\ total_samples = 0 /\ total_samples' = setting
        /\ write_pos' = 0 /\ buffer_full' = FALSE
        /\ skipback_buffer' = Blank(setting)
        /\ UNCHANGED <<setting, desired, heard, saved>>
    BY <1>1 DEF InitBuffer, wishes, savers
  <2>2. setting \in Lengths /\ setting \in Nat \ {0}
    BY LengthsArePositive DEF RingInv
  <2>3. RingInv'
    <3>1. skipback_buffer' \in [Places(setting) -> Nat]
      BY <2>1 DEF Blank
    <3> QED
      BY <2>1, <2>2, <3>1 DEF RingInv
  <2>4. /\ Unrolled \in Seq(Nat) /\ Len(Unrolled) = 0
        /\ Unrolled' \in Seq(Nat) /\ Len(Unrolled') = 0
    BY <2>1, <2>3, UnrolledIs, UnrolledNext DEF RingInv, Reads
  <2>5. Unrolled = <<>> /\ Unrolled' = <<>>
    BY <2>4
  <2> QED
    BY <2>1, <2>2, <2>3, <2>5 DEF Tape!TapeNext, Tape!Allocate
<1>2. CASE CaptureBlock
  BY <1>2, CaptureKeepsRing, CaptureHears DEF Tape!TapeNext
<1>3. ASSUME NEW r \in Resizers, ResizeSwaps(r)
      PROVE  RingInv' /\ [Tape!TapeNext]_(Tape!tapeVars)
  BY <1>3, SwapSets DEF Tape!TapeNext
<1>4. CASE /\ UNCHANGED <<ring, heard>> /\ setting' \in Lengths
           /\ desired' \in Lengths
           /\ UNCHANGED saved \/ \E s \in 1 .. MaxSaves : SaveWrites(s)
  <2>1. RingInv'
    BY <1>4 DEF RingInv, ring
  <2>2. UNCHANGED <<total_samples, Unrolled>>
    BY <1>4 DEF Unrolled, ring
  <2>3. UNCHANGED saved \/ (saved' = Unrolled /\ Unrolled # <<>>)
    BY <1>4 DEF SaveWrites
  <2> QED
    BY <1>4, <2>1, <2>2, <2>3 DEF Tape!TapeNext, Tape!Save, Tape!tapeVars
<1>5. CASE UNCHANGED vars
  <2>1. /\ UNCHANGED <<ring, heard, saved, setting, desired>>
    BY <1>5 DEF vars, savers, wishes
  <2> QED
    BY <1>4, <2>1 DEF RingInv
<1> QED
  BY <1>1, <1>2, <1>3, <1>4, <1>5, RingSteps, WishSteps

LEMMA StepKeepsSpi ==
  ASSUME Inv, [Next]_vars
  PROVE  SpiInv'
<1> USE DEF Inv
<1>1. CASE UNCHANGED vars
  BY <1>1 DEF vars, ring, SpiInv
<1>2. CASE Exclusive /\ SpiStep
  <2>1. CASE InitBuffer
    BY <2>1, LengthsArePositive DEF InitBuffer, SpiInv, SpiIdle
  <2>2. CASE CaptureTest
    BY <2>2 DEF CaptureTest, SpiIdle, SpiGoes, SpiInv, ring
  <2>3. CASE CaptureLoad
    BY <2>3 DEF CaptureLoad, SpiInv, RingInv, ring
  <2>4. CASE CaptureBlock
    BY <2>4 DEF CaptureBlock, SpiGoes, SpiInv
  <2>5. CASE TriggerTest \/ TriggerSave
    BY <2>5 DEF TriggerTest, TriggerSave, SpiIdle, SpiGoes, SpiInv
  <2>6. CASE PollLength
    BY <2>6 DEF PollLength, SpiInv, ring
  <2> QED
    BY <1>2, <2>1, <2>2, <2>3, <2>4, <2>5, <2>6 DEF SpiStep
<1>3. CASE ChooseLength
  BY <1>3 DEF ChooseLength, SpiInv, ring
<1>4. CASE \E s \in 1 .. MaxSaves : SaveStep(s)
  BY <1>4 DEF SaveStep, SaveOpens, SaveFails, SaveWrites, SaveReleases, SpiInv,
              ring
<1>5. CASE Exclusive /\ \E r \in Resizers : ResizeStep(r)
  <2> SUFFICES ASSUME NEW r \in Resizers, ResizeStep(r)
               PROVE  SpiInv'
    BY <1>5
  <2>1. CASE ResizeSwaps(r)
    <3>1. resizer[r].pc = "swap"
      BY <2>1 DEF ResizeSwaps, ResizeGoes
    <3>2. spi.pc # "write"
      BY <1>5, <3>1 DEF Exclusive, Swapping
    <3>3. total_samples' > 0
      <4>1. total_samples' = resizer[r].sec
        BY <2>1 DEF ResizeSwaps
      <4> QED
        BY <3>1, <4>1, LengthsArePositive DEF ResizeInv
    <3>4. spi' = spi
      BY <2>1 DEF ResizeSwaps
    <3> QED
      BY <3>2, <3>3, <3>4 DEF SpiInv
  <2>2. CASE ~ResizeSwaps(r)
    BY <2>2 DEF ResizeStep, ResizeStarts, ResizeLocks, ResizeTakes,
                ResizeAllocates, ResizeReleases, SpiInv, ring
  <2> QED
    BY <2>1, <2>2
<1> QED
  BY <1>1, <1>2, <1>3, <1>4, <1>5 DEF Next

LEMMA StepKeepsResize ==
  ASSUME Inv, [Next]_vars
  PROVE  ResizeInv'
<1> USE DEF Inv
<1>1. total_samples > 0 => total_samples' > 0
  <2>1. total_samples' = total_samples \/ total_samples' \in Lengths
    <3>1. CASE InitBuffer
      BY <3>1 DEF InitBuffer, RingInv
    <3>2. ASSUME NEW r \in Resizers, ResizeSwaps(r)
          PROVE  total_samples' \in Lengths
      BY <3>2 DEF ResizeSwaps, ResizeGoes, ResizeInv
    <3> QED
      BY <3>1, <3>2, RingSteps DEF ring, vars, CaptureBlock
  <2>2. \A n \in Lengths : n > 0
    BY LengthsArePositive
  <2> QED
    BY <2>1, <2>2
<1>2. CASE resizer' = resizer
  BY <1>1, <1>2 DEF ResizeInv
<1>3. CASE PollLength
  BY <1>1, <1>3 DEF PollLength, ResizeInv, ring
<1>4. ASSUME NEW r \in Resizers, ResizeStep(r)
      PROVE  ResizeInv'
  <2>1. CASE ResizeStarts(r)
    BY <1>1, <2>1 DEF ResizeStarts, ResizeInv, RingInv, ring
  <2>2. CASE ResizeLocks(r)
    BY <1>1, <2>2, LengthsArePositive
       DEF ResizeLocks, ResizeGoes, ResizeInv, RingInv, ring
  <2>3. CASE ResizeTakes(r) \/ ResizeAllocates(r)
    BY <1>1, <2>3 DEF ResizeTakes, ResizeAllocates, ResizeGoes, ResizeInv, ring
  <2>4. CASE ResizeSwaps(r) \/ ResizeReleases(r)
    BY <1>1, <2>4 DEF ResizeSwaps, ResizeReleases, ResizeGoes, ResizeInv
  <2> QED
    BY <1>4, <2>1, <2>2, <2>3, <2>4 DEF ResizeStep
<1>5. resizer' = resizer \/ PollLength \/ \E r \in Resizers : ResizeStep(r)
  BY DEF vars, Next, SpiStep, InitBuffer, CaptureTest, CaptureLoad,
         CaptureBlock, TriggerTest, TriggerSave, ChooseLength, SaveStep,
         SaveOpens, SaveFails, SaveWrites, SaveReleases
<1> QED
  BY <1>2, <1>3, <1>4, <1>5

(* Who holds the flag keeps it while nobody begins or ends.                *)
LEMMA HoldersStay ==
  ASSUME Inv, saver' = saver, saving' = saving, overtaken' = overtaken,
         \A r \in Resizers : ResizerHolds(r)' <=> ResizerHolds(r),
         spi'.pc = "idle" \/ spi'.pc = spi.pc \/ ~saving
            \/ (spi.pc # "idle" /\ ~overtaken)
  PROVE  FlagInv'
<1>1. ~overtaken /\ spi'.pc # "idle" => ~saving
  BY DEF Inv, FlagInv
<1>2. \A s \in 1 .. MaxSaves : SaverHolds(s)' <=> SaverHolds(s)
  BY DEF SaverHolds
<1>3. (NobodyHolds => NobodyHolds') /\ (OneHolds => OneHolds')
  BY <1>2 DEF NobodyHolds, OneHolds
<1> QED
  BY <1>1, <1>3 DEF Inv, FlagInv

LEMMA StepKeepsFlag ==
  ASSUME Inv, [Next]_vars
  PROVE  FlagInv'
<1> USE DEF Inv
<1>0. resizer' = resizer => \A r \in Resizers : ResizerHolds(r)' <=> ResizerHolds(r)
  BY DEF ResizerHolds
<1>1. CASE UNCHANGED vars
  BY <1>0, <1>1, HoldersStay DEF vars, savers
<1>2. CASE SpiStep
  <2>1. CASE InitBuffer \/ CaptureTest \/ CaptureLoad \/ CaptureBlock \/ TriggerTest
    <3>1. UNCHANGED <<saver, saving, overtaken, resizer>>
      BY <2>1 DEF InitBuffer, CaptureTest, CaptureLoad, CaptureBlock,
                  TriggerTest, savers
    <3>2. CASE InitBuffer
      BY <1>0, <3>1, <3>2, HoldersStay DEF InitBuffer
    <3>3. CASE CaptureTest \/ TriggerTest
      BY <1>0, <3>1, <3>3, HoldersStay DEF CaptureTest, TriggerTest
    <3>4. CASE CaptureLoad
      <4>1. spi.pc = "capture" /\ spi'.pc = "write"
        BY <3>4 DEF CaptureLoad
      <4> QED
        BY <1>0, <3>1, <4>1 DEF FlagInv, NobodyHolds, OneHolds, SaverHolds
    <3>5. CASE CaptureBlock
      <4>1. spi'.pc = "idle"
        BY <3>5 DEF CaptureBlock, SpiGoes, SpiInv
      <4> QED
        BY <1>0, <3>1, <4>1, HoldersStay
    <3> QED
      BY <2>1, <3>2, <3>3, <3>4, <3>5
  <2>2. CASE TriggerSave
    <3>1. spi'.pc = "idle" /\ spi.pc = "trigger"
      BY <2>2 DEF TriggerSave, SpiGoes, SpiInv
    <3>2. UNCHANGED <<overtaken, resizer>> /\ saving' \in BOOLEAN
      BY <2>2 DEF TriggerSave
    <3>3. ~overtaken => NobodyHolds
      BY <3>1 DEF FlagInv
    <3>4. CASE saver' = saver
      BY <1>0, <3>1, <3>2, <3>3, <3>4
         DEF FlagInv, NobodyHolds, OneHolds, SaverHolds
    <3>5. CASE saver' = [saver EXCEPT ![saves + 1] = "open"] /\ saving'
      <4>1. \A s \in 1 .. MaxSaves : saver'[s] # saver[s] => s = saves + 1
        BY <3>5 DEF FlagInv
      <4>2. saver' \in [1 .. MaxSaves -> {"none", "open", "read", "release"}]
        BY <3>5 DEF FlagInv
      <4>3. ~overtaken => OneHolds'
        BY <1>0, <3>2, <3>3, <4>1 DEF NobodyHolds, OneHolds, SaverHolds
      <4> QED
        BY <3>1, <3>2, <3>5, <4>2, <4>3 DEF FlagInv
    <3> QED
      BY <2>2, <3>4, <3>5 DEF TriggerSave
  <2>3. CASE PollLength
    <3>1. \A r \in Resizers : ResizerHolds(r)' <=> ResizerHolds(r)
      BY <2>3 DEF PollLength, ResizeInv, ResizerHolds
    <3> QED
      BY <2>3, <3>1, HoldersStay DEF PollLength, savers
  <2> QED
    BY <1>2, <2>1, <2>2, <2>3 DEF SpiStep
<1>3. CASE ChooseLength
  BY <1>0, <1>3, HoldersStay DEF ChooseLength, savers
<1>4. ASSUME NEW s \in 1 .. MaxSaves, SaveStep(s)
      PROVE  FlagInv'
  <2>1. SaverHolds(s) /\ UNCHANGED <<spi, resizer, overtaken>>
    BY <1>4 DEF SaveStep, SaveOpens, SaveFails, SaveWrites, SaveReleases,
                SaverGoes, SaverHolds
  <2>2. CASE SaveOpens(s) \/ SaveWrites(s)
    <3>1. /\ saving' = saving
          /\ saver' \in [1 .. MaxSaves -> {"none", "open", "read", "release"}]
          /\ \A s1 \in 1 .. MaxSaves : SaverHolds(s1)' <=> SaverHolds(s1)
      BY <2>2 DEF SaveOpens, SaveWrites, SaverGoes, FlagInv, SaverHolds
    <3> QED
      BY <1>0, <2>1, <3>1 DEF FlagInv, NobodyHolds, OneHolds
  <2>3. CASE SaveFails(s) \/ SaveReleases(s)
    <3>1. /\ ~saving'
          /\ saver' \in [1 .. MaxSaves -> {"none", "open", "read", "release"}]
          /\ ~SaverHolds(s)'
          /\ \A s1 \in 1 .. MaxSaves : s1 # s => (SaverHolds(s1)' <=> SaverHolds(s1))
      BY <2>3 DEF SaveFails, SaveReleases, SaverGoes, FlagInv, SaverHolds
    <3>2. ~overtaken => NobodyHolds'
      BY <1>0, <2>1, <3>1 DEF FlagInv, NobodyHolds, OneHolds
    <3>3. NobodyHolds' => OneHolds'
      BY DEF NobodyHolds, OneHolds
    <3>4. saving' \in BOOLEAN
      BY <2>3 DEF SaveFails, SaveReleases
    <3> QED
      BY <2>1, <3>1, <3>2, <3>3, <3>4 DEF FlagInv
  <2> QED
    BY <1>4, <2>2, <2>3 DEF SaveStep
<1>5. ASSUME NEW r \in Resizers, ResizeStep(r)
      PROVE  FlagInv'
  <2>1. UNCHANGED <<saver, spi>> /\ resizer \in [Resizers -> [pc : {"none", "start",
            "lock", "flag", "copy", "swap", "release"}, sec : Lengths \cup {0}]]
    BY <1>5 DEF ResizeStep, ResizeStarts, ResizeLocks, ResizeTakes,
                ResizeAllocates, ResizeSwaps, ResizeReleases, savers, ResizeInv
  <2>2. CASE ResizeStarts(r) \/ ResizeLocks(r) \/ ResizeAllocates(r) \/ ResizeSwaps(r)
    <3>1. UNCHANGED <<saving, overtaken>>
      BY <2>2 DEF ResizeStarts, ResizeLocks, ResizeAllocates, ResizeSwaps
    <3>2. \A q \in Resizers : ResizerHolds(q)' <=> ResizerHolds(q)
      BY <2>1, <2>2 DEF ResizeStarts, ResizeLocks, ResizeAllocates, ResizeSwaps,
                        ResizeGoes, ResizerHolds
    <3> QED
      BY <2>1, <3>1, <3>2, HoldersStay
  <2>3. CASE ResizeTakes(r)
    <3>1. /\ saving' = TRUE
          /\ overtaken' = (overtaken \/ (~saving /\ spi.pc # "idle"))
      BY <2>3 DEF ResizeTakes, SpiIdle
    <3>2. \A q \in Resizers : q # r => (ResizerHolds(q)' <=> ResizerHolds(q))
      BY <2>1, <2>3 DEF ResizeTakes, ResizeGoes, ResizerHolds
    <3>3. ~ResizerHolds(r) /\ (saving => ~ResizerHolds(r)')
      BY <2>1, <2>3 DEF ResizeTakes, ResizeGoes, ResizerHolds
    <3>4. \A s \in 1 .. MaxSaves : SaverHolds(s)' <=> SaverHolds(s)
      BY <2>1 DEF SaverHolds
    <3>5. ASSUME ~overtaken' PROVE ~overtaken /\ OneHolds' /\ spi.pc = "idle"
      <4>1. ~overtaken
        BY <3>1, <3>5 DEF FlagInv
      <4>2. CASE saving
        <5>1. OneHolds'
          BY <3>2, <3>3, <3>4, <4>1, <4>2 DEF FlagInv, OneHolds
        <5> QED
          BY <4>1, <4>2, <5>1 DEF FlagInv
      <4>3. CASE ~saving
        <5>1. OneHolds'
          BY <3>2, <3>4, <4>1, <4>3 DEF FlagInv, OneHolds, NobodyHolds
        <5> QED
          BY <3>1, <3>5, <4>1, <4>3, <5>1 DEF FlagInv
      <4> QED
        BY <4>2, <4>3
    <3> QED
      BY <2>1, <3>1, <3>5 DEF FlagInv
  <2>4. CASE ResizeReleases(r)
    <3>1. ~saving' /\ saving' \in BOOLEAN /\ overtaken' = overtaken
      BY <2>4 DEF ResizeReleases
    <3>2. ResizerHolds(r) /\ ~ResizerHolds(r)'
      BY <2>1, <2>4 DEF ResizeReleases, ResizeGoes, ResizerHolds
    <3>3. \A q \in Resizers : q # r => (ResizerHolds(q)' <=> ResizerHolds(q))
      BY <2>1, <2>4 DEF ResizeReleases, ResizeGoes, ResizerHolds
    <3>4. \A s \in 1 .. MaxSaves : SaverHolds(s)' <=> SaverHolds(s)
      BY <2>1 DEF SaverHolds
    <3>5. ~overtaken => NobodyHolds'
      BY <3>2, <3>3, <3>4 DEF FlagInv, NobodyHolds, OneHolds
    <3>6. NobodyHolds' => OneHolds'
      BY DEF NobodyHolds, OneHolds
    <3> QED
      BY <2>1, <3>1, <3>5, <3>6 DEF FlagInv
  <2> QED
    BY <1>5, <2>2, <2>3, <2>4 DEF ResizeStep
<1> QED
  BY <1>1, <1>2, <1>3, <1>4, <1>5 DEF Next

LEMMA StepKeepsInv == Inv /\ [Next]_vars => Inv'
  BY StepsOfTape, StepKeepsSpi, StepKeepsResize, StepKeepsFlag DEF Inv

THEOREM InvAlways == Spec => []Inv
  BY InitInv, StepKeepsInv, PTL DEF Spec

-----------------------------------------------------------------------------
(* Whatever is captured, saved and resized in whatever order, the ring is  *)
(* the tape of RollingTape: the modulo arithmetic of the capture, of the   *)
(* save and of the resize, the wrap flag and the position after a resize   *)
(* agree, for every length and every size of a block.                      *)
THEOREM ImplementsTape == Spec => RollingSpec
<1>1. Inv /\ [Next]_vars => [Tape!TapeNext]_(Tape!tapeVars)
  BY StepsOfTape
<1> QED
  BY <1>1, InitInv, InvAlways, PTL DEF Spec, RollingSpec, Tape!TapeSpec

(* Over any number of captures, saves and resizes and whatever fails in    *)
(* them, no capture and no change of the buffer meets another thread in    *)
(* it, until a resize takes the flag between a test of the SPI thread and  *)
(* what that thread then does.  A resize that meets a save, or a save that *)
(* meets a resize, is kept out by the flag.                                *)
THEOREM AlwaysExclusiveUnlessOvertaken == Spec => []ExclusiveUnlessOvertaken
<1>1. Inv => ExclusiveUnlessOvertaken
  <2> SUFFICES ASSUME Inv, ~overtaken
               PROVE  Exclusive
    BY DEF ExclusiveUnlessOvertaken
  <2>1. OneHolds /\ (spi.pc = "write" => NobodyHolds)
    BY DEF Inv, FlagInv
  <2>2. /\ \A s \in Reading : s \in 1 .. MaxSaves /\ SaverHolds(s)
        /\ \A r \in Swapping : r \in Resizers /\ ResizerHolds(r)
    BY DEF Reading, Swapping, SaverHolds, ResizerHolds
  <2> QED
    BY <2>1, <2>2 DEF Exclusive, OneHolds, NobodyHolds
<1> QED
  BY <1>1, InvAlways, PTL

-----------------------------------------------------------------------------
(* What the tape is worth to who saves it. *)

(* The ring holds the latest samples there are, and none is missing.       *)
Latest ==
  \A i \in 1 .. Len(Unrolled) : Unrolled[i] = heard - Len(Unrolled) + i

(* A file is an unbroken run of samples, up to the latest at its time.     *)
SavedRun ==
  /\ saved \in Seq(Nat)
  /\ \A i \in 1 .. Len(saved) : saved[i] = saved[1] + i - 1

LEMMA HearKeepsLatest ==
  ASSUME Inv, Latest, Tape!Hear
  PROVE  Latest'
<1> DEFINE u == Unrolled
           b == Tape!NextBlock
           N == Tape!Newest(u \o b, total_samples)
           d == IF Len(u) + Len(b) > total_samples
                THEN Len(u) + Len(b) - total_samples ELSE 0
<1>1. total_samples \in Nat /\ heard \in Nat /\ BlockSamples \in Nat
  BY LengthsArePositive DEF Inv, RingInv
<1>2. u \in Seq(Nat) /\ Len(u) \in Nat
  BY UnrolledIs DEF Inv, Reads
<1>3. /\ b \in Seq(Nat) /\ Len(b) = BlockSamples
      /\ \A i \in 1 .. BlockSamples : b[i] = heard + i
  BY <1>1, NextBlockIs
<1>4. Unrolled' = N /\ heard' = heard + BlockSamples
  BY DEF Tape!Hear
<1>5. /\ Len(u) + Len(b) > total_samples => d = Len(u) + Len(b) - total_samples
      /\ Len(u) + Len(b) <= total_samples => d = 0
      /\ d \in Nat
  BY <1>1, <1>2, <1>3
<1>6. \A i \in 1 .. Len(u) : u[i] = heard - Len(u) + i
  BY DEF Latest
<1> HIDE DEF u, b, d
<1>7. /\ N \in Seq(Nat) /\ Len(N) = Len(u) + Len(b) - d
      /\ \A i \in 1 .. Len(u) + Len(b) - d :
           N[i] = IF d + i <= Len(u) THEN u[d + i] ELSE b[d + i - Len(u)]
  <2> DEFINE t == total_samples
  <2>1. /\ u \in Seq(Nat) /\ b \in Seq(Nat) /\ t \in Nat
        /\ d \in Nat
        /\ Len(u) + Len(b) > t => d = Len(u) + Len(b) - t
        /\ Len(u) + Len(b) <= t => d = 0
    BY <1>1, <1>2, <1>3, <1>5
  <2> HIDE DEF t
  <2>2. /\ Tape!Newest(u \o b, t) \in Seq(Nat)
        /\ Len(Tape!Newest(u \o b, t)) = Len(u) + Len(b) - d
        /\ \A i \in 1 .. Len(u) + Len(b) - d :
             Tape!Newest(u \o b, t)[i] = IF d + i <= Len(u) THEN u[d + i]
                                          ELSE b[d + i - Len(u)]
    BY <2>1, NewestConcat, Zenon
  <2> QED
    BY <2>2 DEF t
<1> HIDE DEF N
<1>8. ASSUME NEW i \in 1 .. Len(N)
      PROVE  N[i] = (heard + BlockSamples) - Len(N) + i
  <2>1. i \in 1 .. Len(u) + Len(b) - d
    BY <1>7
  <2>2. CASE d + i <= Len(u)
    BY <1>1, <1>2, <1>3, <1>5, <1>6, <1>7, <2>1, <2>2
  <2>3. CASE d + i > Len(u)
    <3>1. d + i - Len(u) \in 1 .. BlockSamples
      BY <1>1, <1>2, <1>3, <1>5, <2>1, <2>3
    <3>2. N[i] = heard + (d + i - Len(u))
      BY <1>2, <1>3, <1>5, <1>7, <2>1, <2>3, <3>1
    <3> QED
      BY <1>1, <1>2, <1>3, <1>5, <1>7, <2>1, <3>2
  <2> QED
    BY <1>2, <1>5, <2>1, <2>2, <2>3
<1> QED
  BY <1>4, <1>8 DEF Latest

LEMMA CutKeepsLatest ==
  ASSUME Inv, Latest, Inv', Tape!SetLength
  PROVE  Latest'
<1> DEFINE u == Unrolled
           n == total_samples'
           d == IF Len(u) > n THEN Len(u) - n ELSE 0
<1>1. u \in Seq(Nat) /\ Len(u) \in Nat /\ heard \in Nat
  BY UnrolledIs DEF Inv, Reads, RingInv
<1>2. n \in Nat
  BY LengthsArePositive DEF Inv, RingInv
<1>3. Unrolled' = Tape!Newest(u, n) /\ heard' = heard
  BY DEF Tape!SetLength
<1>4. /\ Len(u) > n => d = Len(u) - n
      /\ Len(u) <= n => d = 0
      /\ d \in Nat
  BY <1>1, <1>2
<1>5. \A i \in 1 .. Len(u) : u[i] = heard - Len(u) + i
  BY DEF Latest
<1> HIDE DEF u, n, d
<1>6. /\ Tape!Newest(u, n) \in Seq(Nat)
      /\ Len(Tape!Newest(u, n)) = Len(u) - d
      /\ \A i \in 1 .. Len(u) - d : Tape!Newest(u, n)[i] = u[d + i]
  BY <1>1, <1>2, <1>4, NewestOf, Zenon
<1> DEFINE N == Tape!Newest(u, n)
<1> HIDE DEF N
<1>7. ASSUME NEW i \in 1 .. Len(N)
      PROVE  N[i] = heard - Len(N) + i
  <2>1. i \in 1 .. Len(u) - d
    BY <1>6 DEF N
  <2>2. d + i \in 1 .. Len(u) /\ N[i] = u[d + i]
    <3>1. N[i] = u[d + i]
      BY <1>6, <2>1, Zenon DEF N
    <3>2. d + i \in 1 .. Len(u)
      BY <1>1, <1>4, <2>1
    <3> QED
      BY <3>1, <3>2
  <2>3. u[d + i] = heard - Len(u) + (d + i)
    BY <1>5, <2>2
  <2>4. Len(N) = Len(u) - d
    BY <1>6 DEF N
  <2> QED
    BY <1>1, <1>4, <2>1, <2>2, <2>3, <2>4
<1> QED
  BY <1>3, <1>7 DEF Latest, N

(* At every time the ring holds the latest samples without a gap, and the  *)
(* last file is such a run, whatever was resized before it was written.    *)
THEOREM AlwaysLatest == Spec => [](Latest /\ SavedRun)
<1>1. Init => Latest /\ SavedRun
  <2> SUFFICES ASSUME Init PROVE Latest /\ SavedRun
    OBVIOUS
  <2>1. Unrolled = <<>> /\ saved = <<>>
    BY InitInv DEF Tape!TapeInit
  <2> QED
    BY <2>1 DEF Latest, SavedRun
<1>2. Inv /\ Inv' /\ Latest /\ SavedRun /\ [Tape!TapeNext]_(Tape!tapeVars)
        => Latest' /\ SavedRun'
  <2> SUFFICES ASSUME Inv, Inv', Latest, SavedRun,
                      [Tape!TapeNext]_(Tape!tapeVars)
               PROVE  Latest' /\ SavedRun'
    OBVIOUS
  <2>1. CASE Tape!Hear
    BY <2>1, HearKeepsLatest DEF Tape!Hear, SavedRun
  <2>2. CASE Tape!SetLength
    BY <2>2, CutKeepsLatest DEF Tape!SetLength, SavedRun
  <2>3. CASE Tape!Save
    <3> DEFINE u == Unrolled
    <3>1. saved' = u /\ UNCHANGED <<Unrolled, heard>>
      BY <2>3 DEF Tape!Save
    <3>2. u \in Seq(Nat) /\ Len(u) \in Nat /\ heard \in Nat
      BY UnrolledIs DEF Inv, Reads, RingInv
    <3>3. \A i \in 1 .. Len(u) : u[i] = heard - Len(u) + i
      BY DEF Latest
    <3> HIDE DEF u
    <3>4. ASSUME NEW i \in 1 .. Len(u)
          PROVE  u[i] = u[1] + i - 1
      <4>1. u[i] = heard - Len(u) + i /\ u[1] = heard - Len(u) + 1
        BY <3>2, <3>3
      <4> QED
        BY <3>2, <4>1
    <3>5. SavedRun'
      BY <3>1, <3>2, <3>4 DEF SavedRun
    <3> QED
      BY <3>1, <3>5 DEF Latest
  <2>4. CASE Tape!Allocate
    BY <2>4 DEF Tape!Allocate, Latest, SavedRun
  <2>5. CASE UNCHANGED Tape!tapeVars
    BY <2>5 DEF Tape!tapeVars, Latest, SavedRun
  <2> QED
    BY <2>1, <2>2, <2>3, <2>4, <2>5 DEF Tape!TapeNext
<1>3. Inv /\ [Next]_vars => [Tape!TapeNext]_(Tape!tapeVars)
  BY StepsOfTape
<1> QED
  BY <1>1, <1>2, <1>3, InvAlways, PTL DEF Spec
=============================================================================
