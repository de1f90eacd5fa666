-------------------------- MODULE MidiInjectProofs --------------------------
(***************************************************************************)
(* Proofs about ShmQueue and MidiInject, for every size of the buffer,     *)
(* every budget of a frame and every number of packets.  First the queue   *)
(* between the shadow UI and the SPI thread: one writer's packets arrive   *)
(* in order and once, and none is left in the queue unannounced, however   *)
(* often ready wraps.  Then the injection into Move's MIDI_IN, a queue     *)
(* with two writers: nothing arrives twice, the SPI thread's packets keep  *)
(* their order until write_idx wraps, and nothing is injected next to the  *)
(* hardware's events.                                                      *)
(*                                                                         *)
(* Then the slot in Pre mode, PreEcho, whose injected notes come back by   *)
(* Move's echo: with any chord, the filter knows its echoes, nothing is    *)
(* left sounding, and the arpeggiator ends with its pads.                  *)
(***************************************************************************)
EXTENDS MidiInject, PreEcho, FiniteSetTheorems, SequenceTheorems, TLAPS

-----------------------------------------------------------------------------
(* The queue with one writer: ShmQueue. *)

(* A call has packets left until its last one is stored. *)
CallInv ==
  /\ ui \in {"read", "copy"} => ui_left >= 1 /\ sent + ui_left <= MaxSent
  /\ ui = "store" => ui_left >= 1 /\ sent + ui_left <= MaxSent + 1

QueueInv == QueueTypeOK /\ CallInv

LEMMA EmptyIsNoPacket ==
  /\ Empty \in Packets
  /\ \A pkt \in Packets : pkt # Empty => pkt.n \in Nat /\ pkt.n >= 1
BY DEF Packets, Empty

LEMMA QueueInvInit == QueueInit => QueueInv
<1> SUFFICES ASSUME QueueInit PROVE QueueInv
  OBVIOUS
<1>1. buffer \in [Places -> Packets]
  BY EmptyIsNoPacket DEF QueueInit
<1>2. local_buf \in Seq(Packets) /\ delivered \in Seq(Packets) /\ Len(local_buf) = 0
  BY DEF QueueInit
<1>3. QueueTypeOK
  BY <1>1, <1>2, QueueAssumption DEF QueueInit, QueueTypeOK
<1> QED BY <1>3 DEF QueueInit, QueueInv, CallInv

(* What the shadow UI does keeps the types, whoever shares the queue.      *)
LEMMA UiKeepsQueueInv ==
  ASSUME QueueInv, UiCall \/ UiStep
  PROVE  QueueInv'
<1> USE QueueAssumption DEF QueueInv
<1>1. CASE UiCall
  BY <1>1 DEF UiCall, QueueTypeOK, CallInv, drainVars
<1>2. CASE UiRead
  BY <1>2 DEF UiRead, QueueTypeOK, CallInv, drainVars
<1>3. CASE UiCopy
  <2>1. UiPacket \in Packets
    BY DEF UiPacket, Packets, QueueTypeOK
  <2>2. buffer' \in [Places -> Packets]
    BY <1>3, <2>1 DEF UiCopy, QueueTypeOK
  <2>3. sent' \in 0 .. MaxSent
    BY <1>3 DEF UiCopy, QueueTypeOK, CallInv
  <2>4. QueueTypeOK'
    BY <1>3, <2>2, <2>3 DEF UiCopy, QueueTypeOK, drainVars
  <2>5. CallInv'
    BY <1>3 DEF UiCopy, QueueTypeOK, CallInv
  <2> QED BY <2>4, <2>5
<1>4. CASE UiStore
  <2>1. write_idx' \in 0 .. IdxSpan - 1
    BY <1>4 DEF UiStore, QueueTypeOK
  <2>2. ui_left' \in 0 .. MaxBurst
    BY <1>4 DEF UiStore, QueueTypeOK, CallInv
  <2>3. QueueTypeOK'
    BY <1>4, <2>1, <2>2 DEF UiStore, QueueTypeOK, drainVars
  <2>4. CallInv'
    BY <1>4 DEF UiStore, QueueTypeOK, CallInv
  <2> QED BY <2>3, <2>4
<1>5. CASE UiLoadReady
  BY <1>5 DEF UiLoadReady, QueueTypeOK, CallInv, drainVars
<1>6. CASE UiSignal
  BY <1>6 DEF UiSignal, QueueTypeOK, CallInv, drainVars
<1> QED BY <1>1, <1>2, <1>3, <1>4, <1>5, <1>6 DEF UiStep

(* And so does the part of a drain that both queues share.                 *)
LEMMA TakingKeepsQueueInv ==
  ASSUME QueueInv, Notice \/ Snapshot \/ ResetIdx \/ Wipe
  PROVE  QueueInv'
<1> USE QueueAssumption DEF QueueInv
<1>1. CASE Notice
  BY <1>1 DEF Notice, QueueTypeOK, CallInv, uiVars
<1>2. CASE Snapshot
  <2>1. local_buf' = [i \in 1 .. write_idx |-> buffer[i - 1]]
    BY <1>2 DEF Snapshot
  <2>2. write_idx \in Nat /\ write_idx < IdxSpan
    BY DEF QueueTypeOK
  <2>3. local_buf' \in [1 .. write_idx -> Packets]
    BY <2>1, <2>2 DEF QueueTypeOK, Places
  <2>4. local_buf' \in Seq(Packets) /\ Len(local_buf') = write_idx
    BY <2>2, <2>3
  <2> QED BY <1>2, <2>2, <2>4 DEF Snapshot, QueueTypeOK, CallInv, uiVars
<1>3. CASE ResetIdx
  BY <1>3 DEF ResetIdx, QueueTypeOK, CallInv, uiVars
<1>4. CASE Wipe
  <2>1. buffer' \in [Places -> Packets]
    BY <1>4, EmptyIsNoPacket DEF Wipe
  <2> QED BY <1>4, <2>1 DEF Wipe, QueueTypeOK, CallInv, uiVars
<1> QED BY <1>1, <1>2, <1>3, <1>4

(* The rest of the drain of the slots' queue.                              *)
LEMMA DeliverKeepsQueueInv ==
  ASSUME QueueInv, Deliver \/ Delivered
  PROVE  QueueInv'
<1> USE QueueAssumption DEF QueueInv
<1>1. CASE Deliver
  <2>1. local_buf \in Seq(Packets) /\ local_buf # <<>> /\ delivered \in Seq(Packets)
    BY <1>1 DEF Deliver, QueueTypeOK
  <2>2. /\ Head(local_buf) \in Packets
        /\ Tail(local_buf) \in Seq(Packets)
        /\ Len(Tail(local_buf)) = Len(local_buf) - 1
    BY <2>1, HeadTailProperties
  <2>3. Append(delivered, Head(local_buf)) \in Seq(Packets)
    BY <2>1, <2>2, AppendProperties
  <2>4. Len(local_buf) \in Nat
    BY <2>1
  <2>5. /\ local_buf' \in Seq(Packets) /\ Len(local_buf') < IdxSpan
        /\ delivered' \in Seq(Packets)
    BY <1>1, <2>1, <2>2, <2>3, <2>4 DEF Deliver, QueueTypeOK
  <2> QED BY <1>1, <2>5 DEF Deliver, QueueTypeOK, CallInv, uiVars
<1>2. CASE Delivered
  BY <1>2 DEF Delivered, QueueTypeOK, CallInv, uiVars
<1> QED BY <1>1, <1>2

LEMMA QueueInvStutters == QueueInv /\ UNCHANGED queueVars => QueueInv'
BY DEF QueueInv, QueueTypeOK, CallInv, queueVars, uiVars, drainVars

(* Types, from the buffer's places to the packets handed on.               *)
THEOREM QueueTypeCorrect == Spec => []QueueInv
<1>1. Init => QueueInv
  BY QueueInvInit DEF Init
<1>2. QueueInv /\ [Next]_queueVars => QueueInv'
  BY UiKeepsQueueInv, TakingKeepsQueueInv, DeliverKeepsQueueInv,
     QueueInvStutters DEF Next, DrainStep
<1> QED BY <1>1, <1>2, PTL DEF Spec

-----------------------------------------------------------------------------
(* One writer. *)

(* The places a snapshot can take before the writer has written again.     *)
Bound == CASE ui = "copy" -> ui_offset
           [] ui = "store" -> ui_offset + 1
           [] OTHER -> write_idx

Numbered(pkt) == pkt # Empty => pkt.n <= sent

Before(a, b) == a # Empty /\ b # Empty => a.n < b.n

(* From its snapshot to the wipe the drain has a copy of what the buffer   *)
(* holds; at all other times the buffer holds nothing that was taken.      *)
Held == drain \notin {"reset", "wipe"}

OrderInv ==
  /\ ui \in {"copy", "store"} => write_idx <= ui_offset
  /\ \A p \in Places : Numbered(buffer[p])
  /\ \A i \in 1 .. Len(local_buf) : Numbered(local_buf[i])
  /\ \A i \in 1 .. Len(delivered) : Numbered(delivered[i])
  /\ \A i, j \in 1 .. Len(delivered) :
       i < j => Before(delivered[i], delivered[j])
  /\ \A i \in 1 .. Len(delivered), j \in 1 .. Len(local_buf) :
       Before(delivered[i], local_buf[j])
  /\ \A i, j \in 1 .. Len(local_buf) :
       i < j => Before(local_buf[i], local_buf[j])
  /\ Held => \A q \in Places : q < Bound =>
       /\ \A p \in Places : p < q => Before(buffer[p], buffer[q])
       /\ \A i \in 1 .. Len(local_buf) : Before(local_buf[i], buffer[q])
       /\ \A i \in 1 .. Len(delivered) : Before(delivered[i], buffer[q])

LEMMA WrapsDown ==
  \A offset \in 0 .. IdxSpan - 1 :
    (offset + 1) % IdxSpan = IF offset + 1 = IdxSpan THEN 0 ELSE offset + 1
BY QueueAssumption

LEMMA OrderInvInit == Init => OrderInv
<1> SUFFICES ASSUME Init PROVE OrderInv
  OBVIOUS
<1>1. Len(local_buf) = 0 /\ Len(delivered) = 0
  BY DEF Init, QueueInit
<1>2. \A p \in Places : buffer[p] = Empty
  BY DEF Init, QueueInit
<1> QED BY <1>1, <1>2 DEF Init, QueueInit, OrderInv, Numbered, Before

LEMMA OrderInvNext ==
  ASSUME QueueInv, OrderInv, [Next]_queueVars
  PROVE  OrderInv'
<1> USE EmptyIsNoPacket, QueueAssumption
<1>1. /\ buffer \in [Places -> Packets]
      /\ local_buf \in Seq(Packets) /\ delivered \in Seq(Packets)
      /\ Len(local_buf) \in Nat /\ Len(delivered) \in Nat
      /\ write_idx \in Nat /\ write_idx < IdxSpan
      /\ ui_offset \in Nat /\ ui_offset < IdxSpan
      /\ sent \in Nat
      /\ Places = 0 .. Slots - 1
  BY DEF QueueInv, QueueTypeOK, Places
<1>2. /\ \A p \in Places : buffer[p] \in Packets
      /\ \A i \in 1 .. Len(local_buf) : local_buf[i] \in Packets
      /\ \A i \in 1 .. Len(delivered) : delivered[i] \in Packets
  BY <1>1
<1>3. CASE UiCopy
  <2>1. UiPacket \in Packets /\ UiPacket # Empty /\ UiPacket.n = sent + 1
    BY <1>1 DEF UiPacket, Packets, Empty
  <2>2. /\ ui = "copy" /\ ui' = "store" /\ sent' = sent + 1
        /\ UNCHANGED <<write_idx, ui_offset, drain, local_buf, delivered>>
        /\ ui_offset \in Places
        /\ buffer'[ui_offset] = UiPacket
        /\ \A p \in Places : p # ui_offset => buffer'[p] = buffer[p]
    BY <1>1, <1>3 DEF UiCopy, drainVars
  <2>3. Bound = ui_offset /\ Bound' = ui_offset + 1 /\ (Held' <=> Held)
    BY <2>2 DEF Bound, Held
  <2>4. \A pkt \in Packets :
          Numbered(pkt) => (pkt # Empty => pkt.n <= sent') /\ Before(pkt, UiPacket)
    BY <1>1, <2>1, <2>2 DEF Numbered, Before
  <2>5. UiPacket.n <= sent'
    BY <1>1, <2>1, <2>2
  <2>6. \A p \in Places : buffer'[p] # Empty => buffer'[p].n <= sent'
    <3> TAKE p \in Places
    <3>1. CASE p = ui_offset
      BY <2>2, <2>5, <3>1
    <3>2. CASE p # ui_offset
      BY <1>2, <2>2, <2>4, <3>2 DEF OrderInv
    <3> QED BY <3>1, <3>2
  <2>7. /\ \A i \in 1 .. Len(local_buf) : local_buf[i] # Empty => local_buf[i].n <= sent'
        /\ \A i \in 1 .. Len(delivered) : delivered[i] # Empty => delivered[i].n <= sent'
    BY <1>2, <2>4 DEF OrderInv
  <2>8. ASSUME Held, NEW q \in Places, q < ui_offset + 1
        PROVE  /\ \A p \in Places : p < q => Before(buffer'[p], buffer'[q])
               /\ \A i \in 1 .. Len(local_buf) : Before(local_buf[i], buffer'[q])
               /\ \A i \in 1 .. Len(delivered) : Before(delivered[i], buffer'[q])
    <3>1. CASE q = ui_offset
      <4>1. \A p \in Places : p < q => buffer'[p] = buffer[p]
        <5>1. \A p \in Places : p < q => p # ui_offset
          BY <1>1, <3>1
        <5> QED
          BY <2>2, <5>1
      <4>2. buffer'[q] = UiPacket
        BY <2>2, <3>1
      <4>3. \A p \in Places : Before(buffer[p], UiPacket)
        BY <1>2, <2>4 DEF OrderInv
      <4>4. /\ \A i \in 1 .. Len(local_buf) : Before(local_buf[i], UiPacket)
            /\ \A i \in 1 .. Len(delivered) : Before(delivered[i], UiPacket)
        BY <1>2, <2>4 DEF OrderInv
      <4> QED BY <4>1, <4>2, <4>3, <4>4
    <3>2. CASE q < ui_offset
      <4>1. \A p \in Places : p < q => buffer'[p] = buffer[p]
        BY <1>1, <2>2, <3>2
      <4>2. buffer'[q] = buffer[q]
        BY <1>1, <2>2, <3>2
      <4> QED BY <2>3, <2>8, <3>2, <4>1, <4>2 DEF OrderInv
    <3> QED BY <1>1, <2>8, <3>1, <3>2
  <2>9. /\ \A p \in Places : Numbered(buffer[p])'
        /\ \A i \in 1 .. Len(local_buf') : Numbered(local_buf[i])'
        /\ \A i \in 1 .. Len(delivered') : Numbered(delivered[i])'
    BY <2>2, <2>6, <2>7 DEF Numbered
  <2>10. /\ \A i, j \in 1 .. Len(delivered') :
              i < j => Before(delivered'[i], delivered'[j])
         /\ \A i \in 1 .. Len(delivered'), j \in 1 .. Len(local_buf') :
              Before(delivered'[i], local_buf'[j])
         /\ \A i, j \in 1 .. Len(local_buf') :
              i < j => Before(local_buf'[i], local_buf'[j])
    BY <2>2 DEF OrderInv
  <2>11. Held' => \A q \in Places : q < Bound' =>
           /\ \A p \in Places : p < q => Before(buffer'[p], buffer'[q])
           /\ \A i \in 1 .. Len(local_buf') : Before(local_buf'[i], buffer'[q])
           /\ \A i \in 1 .. Len(delivered') : Before(delivered'[i], buffer'[q])
    BY <2>2, <2>3, <2>8
  <2>12. ui' \in {"copy", "store"} => write_idx' <= ui_offset'
    BY <1>1, <2>2 DEF OrderInv
  <2> QED BY <2>9, <2>10, <2>11, <2>12 DEF OrderInv, Numbered, Before
<1>4. CASE UiCall \/ UiRead \/ UiStore \/ UiLoadReady \/ UiSignal \/ UNCHANGED queueVars
  <2>1. UNCHANGED <<buffer, sent, drain, local_buf, delivered>>
    BY <1>4 DEF UiCall, UiRead, UiStore, UiLoadReady, UiSignal, queueVars,
                drainVars, uiVars
  <2>2. Bound' <= Bound /\ (ui' \in {"copy", "store"} => write_idx' <= ui_offset')
    <3>1. CASE UiStore
      <4>1. /\ ui = "store" /\ ui' \notin {"copy", "store"}
            /\ write_idx' = (ui_offset + 1) % IdxSpan
        BY <3>1 DEF UiStore
      <4>2. (ui_offset + 1) % IdxSpan <= ui_offset + 1
        BY <1>1, WrapsDown
      <4> QED BY <4>1, <4>2 DEF Bound
    <3>2. CASE UiRead
      BY <1>1, <3>2 DEF UiRead, Bound
    <3>3. CASE UiCall \/ UiLoadReady \/ UiSignal \/ UNCHANGED queueVars
      BY <1>1, <3>3 DEF UiCall, UiLoadReady, UiSignal, queueVars, uiVars,
                        Bound, OrderInv
    <3> QED BY <1>4, <3>1, <3>2, <3>3
  <2>3. Bound \in Nat /\ Bound' \in Nat
    <3>1. write_idx' \in Nat /\ ui_offset' \in Nat
      <4>1. CASE UiStore
        BY <1>1, <4>1, WrapsDown DEF UiStore
      <4>2. CASE UiCall \/ UiRead \/ UiLoadReady \/ UiSignal \/ UNCHANGED queueVars
        BY <1>1, <4>2 DEF UiCall, UiRead, UiLoadReady, UiSignal, queueVars, uiVars
      <4> QED BY <1>4, <4>1, <4>2
    <3> QED BY <1>1, <3>1, SMTT(20) DEF Bound
  <2>4. (Held' <=> Held) /\ \A q \in Places : q < Bound' => q < Bound
    BY <1>1, <2>1, <2>2, <2>3 DEF Held
  <2>5. ASSUME Held', NEW q \in Places, q < Bound'
        PROVE  /\ \A p \in Places : p < q => Before(buffer'[p], buffer'[q])
               /\ \A i \in 1 .. Len(local_buf') : Before(local_buf'[i], buffer'[q])
               /\ \A i \in 1 .. Len(delivered') : Before(delivered'[i], buffer'[q])
    <3>1. /\ \A p \in Places : p < q => Before(buffer[p], buffer[q])
          /\ \A i \in 1 .. Len(local_buf) : Before(local_buf[i], buffer[q])
          /\ \A i \in 1 .. Len(delivered) : Before(delivered[i], buffer[q])
      BY <2>4, <2>5 DEF OrderInv
    <3> QED BY <2>1, <3>1
  <2>6. /\ \A p \in Places : Numbered(buffer[p])'
        /\ \A i \in 1 .. Len(local_buf') : Numbered(local_buf[i])'
        /\ \A i \in 1 .. Len(delivered') : Numbered(delivered[i])'
    BY <2>1 DEF OrderInv, Numbered
  <2>7. /\ \A i, j \in 1 .. Len(delivered') :
             i < j => Before(delivered'[i], delivered'[j])
        /\ \A i \in 1 .. Len(delivered'), j \in 1 .. Len(local_buf') :
             Before(delivered'[i], local_buf'[j])
        /\ \A i, j \in 1 .. Len(local_buf') :
             i < j => Before(local_buf'[i], local_buf'[j])
    BY <2>1 DEF OrderInv
  <2> QED BY <2>2, <2>5, <2>6, <2>7 DEF OrderInv, Numbered, Before
<1>5. CASE Notice \/ Delivered
  BY <1>5 DEF Notice, Delivered, uiVars, OrderInv, Numbered, Before, Held, Bound
<1>6. CASE Snapshot
  <2>1. /\ drain = "snapshot" /\ drain' = "reset"
        /\ UNCHANGED <<buffer, write_idx, ui, ui_offset, sent, delivered>>
        /\ local_buf' = [i \in 1 .. write_idx |-> buffer[i - 1]]
    BY <1>6 DEF Snapshot, uiVars
  <2>2. Len(local_buf') = write_idx
    BY <1>1, <2>1
  <2>3. write_idx <= Bound /\ Bound \in Nat
    BY <1>1 DEF OrderInv, Bound
  <2>4. \A i \in 1 .. write_idx :
          local_buf'[i] = buffer[i - 1] /\ i - 1 \in Places /\ i - 1 < Bound
    BY <1>1, <2>1, <2>3
  <2>5. \A q \in Places : q < Bound =>
          /\ \A p \in Places : p < q => Before(buffer[p], buffer[q])
          /\ \A i \in 1 .. Len(delivered) : Before(delivered[i], buffer[q])
    BY <2>1 DEF OrderInv, Held
  <2>6. \A i, j \in 1 .. write_idx : i < j => Before(local_buf'[i], local_buf'[j])
    <3> SUFFICES ASSUME NEW i \in 1 .. write_idx, NEW j \in 1 .. write_idx, i < j
                 PROVE  Before(local_buf'[i], local_buf'[j])
      OBVIOUS
    <3>1. i - 1 < j - 1
      BY <1>1
    <3> QED BY <2>4, <2>5, <3>1
  <2>7. \A i \in 1 .. Len(delivered), j \in 1 .. write_idx :
          Before(delivered[i], local_buf'[j])
    BY <2>4, <2>5
  <2>8. \A i \in 1 .. write_idx : Numbered(local_buf'[i])
    BY <2>4 DEF OrderInv
  <2> QED BY <2>1, <2>2, <2>6, <2>7, <2>8 DEF OrderInv, Numbered, Before, Held
<1>7. CASE ResetIdx
  BY <1>1, <1>7 DEF ResetIdx, uiVars, OrderInv, Numbered, Before, Held
<1>8. CASE Wipe
  <2>1. \A p \in Places : buffer'[p] = Empty
    BY <1>8 DEF Wipe
  <2> QED BY <1>8, <2>1 DEF Wipe, uiVars, OrderInv, Numbered, Before
<1>9. CASE Deliver
  <2>1. /\ UNCHANGED <<buffer, write_idx, ui, ui_offset, sent, drain>>
        /\ local_buf # <<>> /\ Len(local_buf) >= 1
        /\ local_buf' = Tail(local_buf)
        /\ delivered' = IF Head(local_buf) = Empty THEN delivered
                        ELSE Append(delivered, Head(local_buf))
        /\ Bound' = Bound /\ (Held' <=> Held)
    BY <1>1, <1>9 DEF Deliver, uiVars, Bound, Held
  <2>2. Head(local_buf) = local_buf[1]
    BY <1>1, <2>1
  <2>3. /\ Len(local_buf') = Len(local_buf) - 1
        /\ \A i \in 1 .. Len(local_buf') : local_buf'[i] = local_buf[i + 1]
    BY <1>1, <2>1, HeadTailProperties
  <2>4. \/ delivered' = delivered
        \/ /\ Len(delivered') = Len(delivered) + 1
           /\ delivered'[Len(delivered) + 1] = local_buf[1]
           /\ \A i \in 1 .. Len(delivered) : delivered'[i] = delivered[i]
    <3>1. Append(delivered, local_buf[1])
            = [i \in 1 .. Len(delivered) + 1 |->
                 IF i <= Len(delivered) THEN delivered[i] ELSE local_buf[1]]
      BY <1>1
    <3>2. Len(Append(delivered, local_buf[1])) = Len(delivered) + 1
      BY <1>1
    <3> QED BY <1>1, <2>1, <2>2, <3>1, <3>2
  <2>5. \A i \in 1 .. Len(delivered') :
          \/ i \in 1 .. Len(delivered) /\ delivered'[i] = delivered[i]
          \/ i = Len(delivered) + 1 /\ delivered'[i] = local_buf[1]
    BY <1>1, <2>4
  <2>6. \A i \in 1 .. Len(local_buf') : i + 1 \in 1 .. Len(local_buf)
    BY <1>1, <2>3
  <2>7. 1 \in 1 .. Len(local_buf)
    BY <1>1, <2>1
  <2>8. /\ \A i \in 1 .. Len(local_buf') : Numbered(local_buf'[i])
        /\ \A i, j \in 1 .. Len(local_buf') :
             i < j => Before(local_buf'[i], local_buf'[j])
    <3>1. \A i \in 1 .. Len(local_buf') : Numbered(local_buf'[i])
      BY <2>3, <2>6 DEF OrderInv
    <3>2. ASSUME NEW i \in 1 .. Len(local_buf'), NEW j \in 1 .. Len(local_buf'), i < j
          PROVE  Before(local_buf'[i], local_buf'[j])
      <4>1. i + 1 < j + 1
        BY <1>1, <2>3, <3>2
      <4> QED BY <2>3, <2>6, <4>1 DEF OrderInv
    <3> QED BY <3>1, <3>2
  <2>9. /\ \A i \in 1 .. Len(delivered') : Numbered(delivered'[i])
        /\ \A i \in 1 .. Len(delivered'), j \in 1 .. Len(local_buf') :
             Before(delivered'[i], local_buf'[j])
    <3>1. \A j \in 1 .. Len(local_buf') : Before(local_buf[1], local_buf'[j])
      <4>1. \A j \in 1 .. Len(local_buf) : 1 < j => Before(local_buf[1], local_buf[j])
        BY <2>7 DEF OrderInv
      <4>2. \A j \in 1 .. Len(local_buf') : 1 < j + 1
        BY <1>1, <2>3
      <4> QED BY <2>3, <2>6, <4>1, <4>2
    <3>2. \A i \in 1 .. Len(delivered), j \in 1 .. Len(local_buf') :
            Before(delivered[i], local_buf'[j])
      BY <2>3, <2>6 DEF OrderInv
    <3> QED BY <2>5, <2>7, <3>1, <3>2 DEF OrderInv
  <2>10. \A i, j \in 1 .. Len(delivered') :
           i < j => Before(delivered'[i], delivered'[j])
    <3> TAKE i, j \in 1 .. Len(delivered')
    <3> HAVE i < j
    <3>1. i \in 1 .. Len(delivered) /\ delivered'[i] = delivered[i]
      BY <1>1, <2>4, <2>5
    <3>2. CASE j \in 1 .. Len(delivered) /\ delivered'[j] = delivered[j]
      BY <3>1, <3>2 DEF OrderInv
    <3>3. CASE delivered'[j] = local_buf[1]
      BY <2>7, <3>1, <3>3 DEF OrderInv
    <3> QED BY <2>5, <3>2, <3>3
  <2>11. ASSUME Held, NEW q \in Places, q < Bound
         PROVE  /\ \A i \in 1 .. Len(local_buf') : Before(local_buf'[i], buffer[q])
                /\ \A i \in 1 .. Len(delivered') : Before(delivered'[i], buffer[q])
    <3>1. /\ \A i \in 1 .. Len(local_buf) : Before(local_buf[i], buffer[q])
          /\ \A i \in 1 .. Len(delivered) : Before(delivered[i], buffer[q])
      BY <2>11 DEF OrderInv
    <3> QED BY <2>3, <2>5, <2>6, <2>7, <3>1
  <2> QED BY <2>1, <2>8, <2>9, <2>10, <2>11 DEF OrderInv, Numbered, Before
<1> QED
  BY <1>3, <1>4, <1>5, <1>6, <1>7, <1>8, <1>9 DEF Next, UiStep, DrainStep

(* However the shadow UI and the drain of shadow_midi_dsp interleave, what *)
(* arrives is in the order sent and arrives once.                          *)
THEOREM AlwaysInOrderOnce == Spec => []InOrderOnce
<1>1. QueueInv /\ OrderInv => InOrderOnce
  <2> SUFFICES ASSUME QueueInv, OrderInv,
                      NEW i \in 1 .. Len(delivered), NEW j \in 1 .. Len(delivered),
                      i < j, delivered[i].by = delivered[j].by, delivered[i] # Empty
               PROVE  delivered[i].n < delivered[j].n
    BY DEF InOrderOnce
  <2>1. delivered[i] \in Packets /\ delivered[j] \in Packets
    BY DEF QueueInv, QueueTypeOK
  <2>2. delivered[j] # Empty
    BY <2>1 DEF Packets, Empty
  <2> QED BY <2>2 DEF OrderInv, Before
<1>2. QueueInv /\ OrderInv /\ [Next]_queueVars => OrderInv'
  BY OrderInvNext
<1> QED BY <1>1, <1>2, OrderInvInit, QueueTypeCorrect, PTL DEF Spec

-----------------------------------------------------------------------------
(* Nothing forgotten: the queue with a history of the calls not yet seen.  *)

VARIABLE
  unseen   \* history: the writer's signals since the drain last took ready

CountedInit == Init /\ unseen = 0

CountedNext ==
  \/ UiSignal /\ unseen' = unseen + 1
  \/ Notice /\ unseen' = 0
  \/ /\ \/ UiCall \/ UiRead \/ UiCopy \/ UiStore \/ UiLoadReady
        \/ Snapshot \/ ResetIdx \/ Wipe \/ Deliver \/ Delivered
     /\ UNCHANGED unseen

countedVars == <<queueVars, unseen>>

(* Spec, with unseen beside it: the history guards nothing.                *)
CountedSpec == CountedInit /\ [][CountedNext]_countedVars

(* However long the session, a packet is not left in the queue with        *)
(* nothing to make the drain look: the drain takes ready before it takes   *)
(* the packets, the writer raises it after it has written them.  Only 256  *)
(* calls between two looks of the drain, which runs in every frame, could  *)
(* bring the uint8_t ready round to last_ready and hide them.              *)
NoneForgotten ==
  ui = "idle" /\ drain = "idle" /\ write_idx > 0 /\ unseen < ReadySpan =>
    ready # last_ready

(* What ready has come to, the wrap of the uint8_t included.               *)
Raised(n) == IF last_ready + n < ReadySpan THEN last_ready + n
             ELSE last_ready + n - ReadySpan

(* A call that has loaded ready will raise it, and packets stored since    *)
(* the drain last took ready have been announced since.                    *)
AnnounceInv ==
  /\ unseen \in Nat
  /\ unseen < ReadySpan => ready = Raised(unseen)
  /\ ui = "signal" => ui_ready = ready
  /\ drain \in {"idle", "wipe", "deliver"} /\ ui = "idle" /\ write_idx > 0 =>
       unseen >= 1

LEMMA AnnounceInvNext ==
  ASSUME QueueInv, AnnounceInv, [CountedNext]_countedVars
  PROVE  AnnounceInv'
<1>1. /\ ready \in 0 .. ReadySpan - 1 /\ last_ready \in 0 .. ReadySpan - 1
      /\ ui_ready \in Nat /\ write_idx \in Nat /\ unseen \in Nat
      /\ ReadySpan \in Nat \ {0, 1}
  BY QueueAssumption DEF QueueInv, QueueTypeOK, AnnounceInv
<1>2. CASE /\ UiCall \/ UiRead \/ UiCopy \/ UiStore \/ UiLoadReady
           /\ UNCHANGED unseen
  BY <1>1, <1>2 DEF UiCall, UiRead, UiCopy, UiStore, UiLoadReady, drainVars,
                    AnnounceInv, Raised
<1>3. CASE UiSignal /\ unseen' = unseen + 1
  <2>1. /\ ui' = "idle" /\ ready' = (ready + 1) % ReadySpan
        /\ UNCHANGED <<write_idx, last_ready, drain>>
    BY <1>3 DEF UiSignal, AnnounceInv, drainVars
  <2>2. ready' = IF ready + 1 = ReadySpan THEN 0 ELSE ready + 1
    <3>1. CASE ready + 1 = ReadySpan
      BY <1>1, <2>1, <3>1
    <3>2. CASE ready + 1 < ReadySpan
      BY <1>1, <2>1, <3>2
    <3> QED BY <1>1, <3>1, <3>2
  <2> QED BY <1>1, <1>3, <2>1, <2>2 DEF AnnounceInv, Raised
<1>4. CASE Notice /\ unseen' = 0
  BY <1>1, <1>4 DEF Notice, uiVars, AnnounceInv, Raised
<1>5. CASE /\ Snapshot \/ ResetIdx \/ Wipe \/ Deliver \/ Delivered
           /\ UNCHANGED unseen
  BY <1>1, <1>5 DEF Snapshot, ResetIdx, Wipe, Deliver, Delivered, uiVars,
                    AnnounceInv, Raised
<1>6. CASE UNCHANGED countedVars
  BY <1>6 DEF countedVars, queueVars, uiVars, drainVars, AnnounceInv, Raised
<1> QED
  BY <1>2, <1>3, <1>4, <1>5, <1>6 DEF CountedNext

(* No packet of the shadow UI is left in shadow_midi_dsp with nothing to   *)
(* make the drain look, however many have gone through and however often   *)
(* the uint8_t ready has wrapped, unless 256 calls came between two looks. *)
THEOREM NoneEverForgotten == CountedSpec => []NoneForgotten
<1>1. CountedInit => QueueInv /\ AnnounceInv
  BY QueueInvInit, QueueAssumption
     DEF CountedInit, Init, QueueInit, AnnounceInv, Raised
<1>2. QueueInv /\ [CountedNext]_countedVars => QueueInv'
  BY UiKeepsQueueInv, TakingKeepsQueueInv, DeliverKeepsQueueInv,
     QueueInvStutters DEF CountedNext, countedVars, UiStep
<1>3. QueueInv /\ AnnounceInv /\ [CountedNext]_countedVars => AnnounceInv'
  BY AnnounceInvNext
<1>4. QueueInv /\ AnnounceInv => NoneForgotten
  <2> SUFFICES ASSUME QueueInv, AnnounceInv PROVE NoneForgotten
    OBVIOUS
  <2>1. /\ ready \in 0 .. ReadySpan - 1 /\ last_ready \in 0 .. ReadySpan - 1
        /\ unseen \in Nat /\ ReadySpan \in Nat
    BY QueueAssumption DEF QueueInv, QueueTypeOK, AnnounceInv
  <2> QED BY <2>1 DEF AnnounceInv, NoneForgotten, Raised
<1> QED BY <1>1, <1>2, <1>3, <1>4, PTL DEF CountedSpec

-----------------------------------------------------------------------------
(* The queue with two writers: MidiInject. *)

(* The SPI thread is in one function at a time. *)
InjectInv ==
  /\ InjectTypeOK
  /\ CallInv
  /\ spi # "idle" => drain = "idle"

(* What one frame takes and what it carries over. *)
LEMMA Portions ==
  ASSUME InjectTypeOK, NEW taken \in 0 .. Len(local_buf)
  PROVE  /\ SubSeq(local_buf, 1, taken) \in Seq(Packets)
         /\ Len(SubSeq(local_buf, 1, taken)) = taken
         /\ \A i \in 1 .. taken : SubSeq(local_buf, 1, taken)[i] = local_buf[i]
         /\ Carried(taken) \in Seq(Packets)
         /\ Len(Carried(taken)) < IdxSpan
         /\ taken + Len(Carried(taken)) <= Len(local_buf)
         /\ \A i \in 1 .. Len(Carried(taken)) :
              Carried(taken)[i] = local_buf[taken + i]
<1>1. local_buf \in Seq(Packets) /\ Len(local_buf) \in Nat /\ IdxSpan \in Nat \ {0}
  BY QueueAssumption DEF InjectTypeOK, QueueTypeOK
<1> DEFINE last == taken + Least(Len(local_buf) - taken, IdxSpan - 1)
<1>2. last \in taken .. Len(local_buf) /\ last - taken < IdxSpan
  BY <1>1 DEF Least
<1>3. /\ SubSeq(local_buf, 1, taken) \in Seq(Packets)
      /\ Len(SubSeq(local_buf, 1, taken)) = taken
      /\ \A i \in 1 .. taken : SubSeq(local_buf, 1, taken)[i] = local_buf[i]
  BY <1>1, SubSeqProperties
<1>4. /\ SubSeq(local_buf, taken + 1, last) \in Seq(Packets)
      /\ Len(SubSeq(local_buf, taken + 1, last)) = last - taken
      /\ \A i \in 1 .. last - taken :
           SubSeq(local_buf, taken + 1, last)[i] = local_buf[taken + i]
  <2>1. taken + 1 \in 1 .. Len(local_buf) + 1 /\ last \in (taken + 1) - 1 .. Len(local_buf)
    BY <1>1, <1>2
  <2> HIDE DEF last
  <2> QED BY <1>1, <1>2, <2>1, SubSeqProperties
<1>5. Carried(taken) = SubSeq(local_buf, taken + 1, last)
  BY DEF Carried
<1> HIDE DEF last
<1>6. /\ Carried(taken) \in Seq(Packets)
      /\ Len(Carried(taken)) = last - taken
      /\ \A i \in 1 .. last - taken : Carried(taken)[i] = local_buf[taken + i]
  BY <1>4, <1>5
<1>7. Len(Carried(taken)) < IdxSpan /\ taken + Len(Carried(taken)) <= Len(local_buf)
  BY <1>1, <1>2, <1>6
<1> QED
  BY <1>3, <1>6, <1>7

(* As the snapshot is no longer than what a frame may carry over, all that *)
(* a frame does not take is carried.                                       *)
LEMMA CarriesRest ==
  ASSUME InjectTypeOK, NEW taken \in 0 .. Len(local_buf)
  PROVE  Carried(taken) \in Seq(Packets)
         /\ Len(Carried(taken)) = Len(local_buf) - taken
<1>1. /\ local_buf \in Seq(Packets) /\ Len(local_buf) \in Nat
      /\ IdxSpan \in Nat /\ Len(local_buf) < IdxSpan
  BY QueueAssumption DEF InjectTypeOK, QueueTypeOK
<1>2. Carried(taken) = SubSeq(local_buf, taken + 1, Len(local_buf))
  <2>1. CASE Len(local_buf) - taken < IdxSpan - 1
    <3>1. /\ Least(Len(local_buf) - taken, IdxSpan - 1) = Len(local_buf) - taken
          /\ taken + (Len(local_buf) - taken) = Len(local_buf)
      BY <1>1, <2>1 DEF Least
    <3> QED BY <3>1 DEF Carried
  <2>2. CASE ~(Len(local_buf) - taken < IdxSpan - 1)
    <3>1. /\ Least(Len(local_buf) - taken, IdxSpan - 1) = IdxSpan - 1
          /\ taken + (IdxSpan - 1) = Len(local_buf)
      BY <1>1, <2>2 DEF Least
    <3> QED BY <3>1 DEF Carried
  <2> QED BY <2>1, <2>2
<1>3. \A i \in taken + 1 .. Len(local_buf) : local_buf[i] \in Packets
  BY <1>1
<1>4. /\ SubSeq(local_buf, taken + 1, Len(local_buf)) \in Seq(Packets)
      /\ Len(SubSeq(local_buf, taken + 1, Len(local_buf)))
           = IF taken + 1 <= Len(local_buf)
             THEN Len(local_buf) - (taken + 1) + 1 ELSE 0
  BY <1>1, <1>3, SubSeqProperties
<1> QED BY <1>1, <1>2, <1>4

LEMMA FitsInPackets ==
  ASSUME InjectTypeOK
  PROVE  Fits \in 0 .. Len(local_buf) /\ 0 .. Fits - 1 \subseteq 0 .. Len(local_buf)
<1>1. Len(local_buf) \in Nat /\ MaxPerTick \in Nat
  BY InjectAssumption DEF InjectTypeOK, QueueTypeOK
<1> QED BY <1>1 DEF Fits, Least

(* A frame's injection, with the effects spelled out. *)
LEMMA InjectEffects ==
  ASSUME InjectTypeOK, NEW taken \in 0 .. Len(local_buf), Inject(taken)
  PROVE  /\ drain = "deliver"
         /\ delivered' \in Seq(Packets)
         /\ Len(delivered') = Len(delivered) + taken
         /\ \A i \in 1 .. Len(delivered) : delivered'[i] = delivered[i]
         /\ \A i \in 1 .. taken : delivered'[Len(delivered) + i] = local_buf[i]
         /\ local_buf' \in Seq(Packets)
         /\ Len(local_buf') < IdxSpan
         /\ taken + Len(local_buf') <= Len(local_buf)
         /\ \A i \in 1 .. Len(local_buf') : local_buf'[i] = local_buf[taken + i]
         /\ buffer' \in [Places -> Packets]
         /\ \A p \in Places :
              buffer'[p] = IF p < Len(local_buf') THEN local_buf'[p + 1] ELSE buffer[p]
         /\ \/ drain' = "idle" /\ Len(local_buf') = 0
            \/ drain' = "rearm"
         /\ UNCHANGED <<write_idx, ready, uiVars, last_ready, spiVars,
                        defer_counter, wrapped>>
<1> DEFINE front == SubSeq(local_buf, 1, taken)
<1>1. /\ local_buf \in Seq(Packets) /\ delivered \in Seq(Packets)
      /\ Len(local_buf) \in Nat /\ Len(delivered) \in Nat
      /\ IdxSpan \in Nat \ {0} /\ taken \in Nat
      /\ buffer \in [Places -> Packets]
      /\ Places = 0 .. Slots - 1
  BY QueueAssumption DEF InjectTypeOK, QueueTypeOK, Places
<1>2. /\ drain = "deliver" /\ delivered' = delivered \o front
      /\ UNCHANGED <<write_idx, ready, uiVars, last_ready, spiVars,
                     defer_counter, wrapped>>
      /\ \/ /\ Carried(taken) = <<>> /\ drain' = "idle"
            /\ local_buf' = <<>> /\ buffer' = buffer
         \/ /\ buffer' = [p \in Places |-> IF p < Len(Carried(taken))
                                           THEN Carried(taken)[p + 1]
                                           ELSE buffer[p]]
            /\ local_buf' = Carried(taken)
            /\ drain' = "rearm"
  BY DEF Inject
<1>3. front \in Seq(Packets) /\ Len(front) = taken /\ \A i \in 1 .. taken : front[i] = local_buf[i]
  BY Portions
<1>4. /\ delivered' \in Seq(Packets)
      /\ Len(delivered') = Len(delivered) + taken
      /\ \A i \in 1 .. Len(delivered) : delivered'[i] = delivered[i]
      /\ \A i \in 1 .. taken : delivered'[Len(delivered) + i] = front[i]
  <2> HIDE DEF front
  <2>1. /\ delivered \o front \in Seq(Packets)
        /\ Len(delivered \o front) = Len(delivered) + Len(front)
        /\ \A i \in 1 .. Len(delivered) + Len(front) :
             (delivered \o front)[i] = IF i <= Len(delivered) THEN delivered[i]
                                       ELSE front[i - Len(delivered)]
    BY <1>1, <1>3, ConcatProperties
  <2>2. \A i \in 1 .. taken :
          /\ Len(delivered) + i \in 1 .. Len(delivered) + taken
          /\ ~(Len(delivered) + i <= Len(delivered))
          /\ Len(delivered) + i - Len(delivered) = i
    BY <1>1
  <2>3. \A i \in 1 .. Len(delivered) : i \in 1 .. Len(delivered) + taken /\ i <= Len(delivered)
    BY <1>1
  <2> QED BY <1>2, <1>3, <2>1, <2>2, <2>3
<1>5. local_buf' = Carried(taken)
  BY <1>2
<1>6. /\ local_buf' \in Seq(Packets)
      /\ Len(local_buf') < IdxSpan
      /\ taken + Len(local_buf') <= Len(local_buf)
      /\ \A i \in 1 .. Len(local_buf') : local_buf'[i] = local_buf[taken + i]
      /\ Len(local_buf') \in Nat
  <2>1. /\ Carried(taken) \in Seq(Packets)
        /\ Len(Carried(taken)) < IdxSpan
        /\ taken + Len(Carried(taken)) <= Len(local_buf)
        /\ \A i \in 1 .. Len(Carried(taken)) :
             Carried(taken)[i] = local_buf[taken + i]
    BY Portions
  <2>2. Len(Carried(taken)) \in Nat
    BY <2>1
  <2> QED BY <1>5, <2>1, <2>2
<1>7. \A p \in Places :
        buffer'[p] = IF p < Len(local_buf') THEN local_buf'[p + 1] ELSE buffer[p]
  <2>1. CASE local_buf' = <<>> /\ buffer' = buffer
    <3>1. Len(local_buf') = 0
      BY <2>1
    <3> QED BY <1>1, <2>1, <3>1
  <2>2. CASE buffer' = [p \in Places |-> IF p < Len(Carried(taken))
                                         THEN Carried(taken)[p + 1]
                                         ELSE buffer[p]]
    BY <1>5, <2>2
  <2> QED BY <1>2, <2>1, <2>2
<1>8. \A p \in Places : p < Len(local_buf') => p + 1 \in 1 .. Len(local_buf')
  BY <1>1, <1>6, QueueAssumption
<1>9. buffer' \in [Places -> Packets]
  <2>1. \A p \in Places : buffer'[p] \in Packets
    <3> TAKE p \in Places
    <3>1. CASE p < Len(local_buf')
      <4>1. p + 1 \in 1 .. Len(local_buf') /\ buffer'[p] = local_buf'[p + 1]
        BY <1>7, <1>8, <3>1
      <4> QED BY <1>6, <4>1
    <3>2. CASE ~(p < Len(local_buf'))
      BY <1>1, <1>7, <3>2
    <3> QED BY <3>1, <3>2
  <2>2. DOMAIN buffer' = Places /\ buffer' = [p \in Places |-> buffer'[p]]
    BY <1>1, <1>2
  <2> QED BY <2>1, <2>2
<1> HIDE DEF front
<1> QED BY <1>2, <1>3, <1>4, <1>5, <1>6, <1>7, <1>9

-----------------------------------------------------------------------------
(* Types *)

LEMMA InjectInvInit == InjectInit => InjectInv
<1> SUFFICES ASSUME InjectInit PROVE InjectInv
  OBVIOUS
<1>1. QueueInv
  BY QueueInvInit DEF InjectInit
<1>2. 0 \in 0 .. IdxSpan - 1
  BY QueueAssumption
<1>3. 0 \in 0 .. MaxChain /\ 0 \in 0 .. DeferFrames /\ 0 \in 0 .. MaxBusy
  BY InjectAssumption
<1> QED
  BY <1>1, <1>2, <1>3 DEF InjectInit, InjectInv, InjectTypeOK, QueueInv

LEMMA InjectInvNext ==
  ASSUME InjectInv, [InjectNext]_injectVars
  PROVE  InjectInv'
<1> USE QueueAssumption, InjectAssumption
<1>1. QueueInv /\ InjectTypeOK
  BY DEF InjectInv, InjectTypeOK, QueueInv
<1>2. CASE ChainWrite
  <2>1. /\ spi = "idle" /\ drain = "idle" /\ write_idx \in Places
        /\ UNCHANGED <<write_idx, ready, uiVars, drainVars, deferVars, wrapped>>
        /\ buffer' = [buffer EXCEPT ![write_idx] = ChainPacket]
        /\ spi_offset' = write_idx /\ chain_sent' = chain_sent + 1
        /\ chain_sent < MaxChain /\ spi' = "store"
    BY <1>1, <1>2 DEF ChainWrite, SpiFree, InjectTypeOK, QueueTypeOK, Places
  <2>2. ChainPacket \in Packets
    BY <1>1 DEF ChainPacket, Packets, InjectTypeOK
  <2>3. buffer' \in [Places -> Packets]
    BY <1>1, <2>1, <2>2 DEF InjectTypeOK, QueueTypeOK
  <2>4. QueueTypeOK' /\ CallInv'
    BY <1>1, <2>1, <2>3 DEF QueueInv, QueueTypeOK, CallInv, uiVars, drainVars
  <2> QED BY <1>1, <2>1, <2>4 DEF InjectInv, InjectTypeOK, QueueTypeOK, deferVars, drainVars
<1>3. CASE ChainStore
  <2>1. /\ write_idx' = (spi_offset + 1) % IdxSpan /\ spi' = "signal"
        /\ spi = "store" /\ wrapped' \in BOOLEAN
        /\ UNCHANGED <<buffer, ready, uiVars, drainVars, spi_offset, chain_sent,
                       deferVars>>
    BY <1>1, <1>3 DEF ChainStore, InjectTypeOK
  <2>2. write_idx' \in 0 .. IdxSpan - 1
    BY <1>1, <2>1 DEF InjectTypeOK
  <2>3. QueueTypeOK' /\ CallInv'
    BY <1>1, <2>1, <2>2 DEF QueueInv, QueueTypeOK, CallInv, uiVars, drainVars
  <2> QED BY <1>1, <2>1, <2>3 DEF InjectInv, InjectTypeOK, deferVars, drainVars
<1>4. CASE ChainSignal
  <2>1. /\ ready' = (ready + 1) % ReadySpan /\ spi' = "idle"
        /\ UNCHANGED <<buffer, write_idx, uiVars, drainVars, spi_offset, chain_sent,
                       deferVars, wrapped>>
    BY <1>4 DEF ChainSignal
  <2>2. ready' \in 0 .. ReadySpan - 1
    BY <1>1, <2>1 DEF InjectTypeOK, QueueTypeOK
  <2>3. QueueTypeOK' /\ CallInv'
    BY <1>1, <2>1, <2>2 DEF QueueInv, QueueTypeOK, CallInv, uiVars, drainVars
  <2> QED BY <1>1, <2>1, <2>3 DEF InjectInv, InjectTypeOK, deferVars, drainVars
<1>5. CASE JsStep
  <2>1. QueueInv'
    BY <1>1, <1>5, UiKeepsQueueInv DEF JsStep
  <2>2. UNCHANGED drain
    BY <1>5 DEF JsStep, UiCall, UiStep, UiRead, UiCopy, UiStore, UiLoadReady,
                UiSignal, drainVars
  <2> QED BY <1>1, <1>5, <2>1, <2>2
          DEF JsStep, InjectInv, InjectTypeOK, QueueInv, spiVars, deferVars
<1>6. CASE DrainDefers \/ DrainWaits
  <2>1. /\ UNCHANGED <<queueVars, spiVars, wrapped>> /\ spi = "idle"
        /\ \/ busy < MaxBusy /\ busy' = busy + 1 /\ defer_counter' = 0 /\ quiet' = 0
           \/ /\ defer_counter < DeferFrames /\ defer_counter' = defer_counter + 1
              /\ quiet' = quiet + 1 /\ busy' = busy
    BY <1>6 DEF DrainDefers, DrainWaits, SpiFree
  <2>2. QueueInv'
    BY <1>1, <2>1, QueueInvStutters
  <2>3. /\ busy' \in 0 .. MaxBusy /\ defer_counter' \in 0 .. DeferFrames
        /\ quiet' \in Nat
    BY <1>1, <2>1 DEF InjectTypeOK
  <2> QED BY <1>1, <2>1, <2>2, <2>3 DEF InjectInv, InjectTypeOK, QueueInv, spiVars
<1>7. CASE DrainBegins \/ DrainTakes
  <2>1. QueueInv'
    BY <1>1, <1>7, TakingKeepsQueueInv DEF DrainBegins, DrainTakes
  <2>2. spi = "idle"
    BY <1>7 DEF DrainBegins, DrainTakes, Snapshot, ResetIdx, Wipe, InjectInv
  <2> QED BY <1>1, <1>7, <2>1, <2>2
          DEF DrainBegins, DrainTakes, InjectInv, InjectTypeOK, QueueInv,
              spiVars, deferVars
<1>8. ASSUME NEW taken \in 0 .. Len(local_buf), Inject(taken),
             busy' \in 0 .. MaxBusy, quiet' = quiet
      PROVE  InjectInv'
  <2>1. /\ drain = "deliver" /\ drain' \in {"idle", "rearm"}
        /\ delivered' \in Seq(Packets) /\ local_buf' \in Seq(Packets)
        /\ Len(local_buf') < IdxSpan /\ buffer' \in [Places -> Packets]
        /\ UNCHANGED <<write_idx, ready, uiVars, last_ready, spiVars,
                       defer_counter, wrapped>>
    BY <1>1, <1>8, InjectEffects
  <2>2. QueueTypeOK' /\ CallInv'
    BY <1>1, <2>1 DEF QueueInv, QueueTypeOK, CallInv, uiVars
  <2> QED BY <1>1, <1>8, <2>1, <2>2 DEF InjectInv, InjectTypeOK, spiVars
<1>9. CASE InjectFrame
  <2>1. Fits \in 0 .. Len(local_buf)
    BY <1>1, FitsInPackets
  <2>2. Inject(Fits) /\ busy' \in 0 .. MaxBusy /\ quiet' = quiet
    BY <1>1, <1>9 DEF InjectFrame, InjectTypeOK
  <2> QED BY <1>8, <2>1, <2>2
<1>10. CASE InjectInterrupted
  <2>1. PICK taken \in 0 .. Fits - 1 : Inject(taken)
    BY <1>10 DEF InjectInterrupted
  <2>2. taken \in 0 .. Len(local_buf)
    BY <1>1, <2>1, FitsInPackets
  <2>3. busy' \in 0 .. MaxBusy /\ quiet' = quiet
    BY <1>1, <1>10 DEF InjectInterrupted, InjectTypeOK
  <2> QED BY <1>8, <2>1, <2>2, <2>3
<1>11. CASE Rearm
  <2>1. /\ drain = "rearm" /\ drain' = "idle" /\ local_buf' = <<>>
        /\ write_idx' = Len(local_buf)
        /\ ready' = (ready + 1) % ReadySpan
        /\ UNCHANGED <<buffer, uiVars, last_ready, delivered, spiVars, deferVars,
                       wrapped>>
    BY <1>11 DEF Rearm
  <2>2. /\ write_idx' \in 0 .. IdxSpan - 1
        /\ ready' \in 0 .. ReadySpan - 1
        /\ local_buf' \in Seq(Packets) /\ Len(local_buf') = 0
    BY <1>1, <2>1 DEF InjectTypeOK, QueueTypeOK
  <2>3. QueueTypeOK' /\ CallInv'
    BY <1>1, <2>1, <2>2 DEF QueueInv, QueueTypeOK, CallInv, uiVars
  <2> QED BY <1>1, <2>1, <2>3 DEF InjectInv, InjectTypeOK, spiVars, deferVars
<1>12. CASE UNCHANGED injectVars
  BY <1>12 DEF injectVars, queueVars, uiVars, drainVars, spiVars, deferVars,
               InjectInv, InjectTypeOK, QueueTypeOK, CallInv
<1> QED
  BY <1>2, <1>3, <1>4, <1>5, <1>6, <1>7, <1>9, <1>10, <1>11, <1>12
  DEF InjectNext, ChainStep, DrainOn

THEOREM InjectTypeCorrect == InjectSpec => []InjectInv
BY InjectInvInit, InjectInvNext, PTL DEF InjectSpec

-----------------------------------------------------------------------------
(* Quiet *)

(* defer_counter never counts more quiet frames than there were, and the   *)
(* drain goes on only when it has counted enough.                          *)
QuietInv ==
  /\ defer_counter <= quiet
  /\ drain # "idle" => defer_counter >= DeferFrames

LEMMA QuietInvNext ==
  ASSUME InjectInv, QuietInv, [InjectNext]_injectVars
  PROVE  QuietInv'
<1> USE InjectAssumption DEF QuietInv
<1>1. defer_counter \in Nat /\ quiet \in Nat /\ DeferFrames \in Nat
  BY DEF InjectInv, InjectTypeOK
<1>2. CASE ChainWrite \/ ChainStep
  BY <1>2 DEF ChainWrite, ChainStep, ChainStore, ChainSignal, drainVars, deferVars
<1>3. CASE JsStep
  BY <1>3 DEF JsStep, UiCall, UiStep, UiRead, UiCopy, UiStore, UiLoadReady,
              UiSignal, drainVars, deferVars
<1>4. CASE DrainDefers \/ DrainWaits
  BY <1>1, <1>4 DEF DrainDefers, DrainWaits, SpiFree, queueVars, drainVars
<1>5. CASE DrainBegins \/ DrainTakes
  BY <1>5 DEF DrainBegins, DrainTakes, Notice, Snapshot, ResetIdx, Wipe, deferVars
<1>6. CASE InjectFrame \/ InjectInterrupted
  BY <1>6 DEF InjectFrame, InjectInterrupted, Inject
<1>7. CASE Rearm
  BY <1>7 DEF Rearm, deferVars
<1>8. CASE UNCHANGED injectVars
  BY <1>8 DEF injectVars, queueVars, drainVars, deferVars
<1> QED
  BY <1>2, <1>3, <1>4, <1>5, <1>6, <1>7, <1>8 DEF InjectNext, DrainOn

LEMMA OnlyInjectingDelivers ==
  ASSUME InjectInv, QuietInv, [InjectNext]_injectVars, delivered' # delivered
  PROVE  quiet >= DeferFrames
<1>1. InjectFrame \/ InjectInterrupted
  BY DEF InjectNext, DrainOn, injectVars, queueVars, drainVars, ChainWrite,
         ChainStep, ChainStore, ChainSignal, JsStep, UiCall, UiStep, UiRead,
         UiCopy, UiStore, UiLoadReady, UiSignal, DrainDefers, DrainWaits,
         DrainBegins, DrainTakes, Notice, Snapshot, ResetIdx, Wipe, Rearm
<1>2. drain = "deliver"
  BY <1>1 DEF InjectFrame, InjectInterrupted, Inject
<1> QED
  BY <1>2, InjectAssumption DEF QuietInv, InjectInv, InjectTypeOK

(* Nothing is injected within DEFER_FRAMES frames of a frame in which the  *)
(* drain found an event of the hardware.                                   *)
THEOREM InjectsOnlyInQuiet == InjectSpec => InjectsInQuiet
<1>1. InjectInit => QuietInv
  BY InjectAssumption DEF InjectInit, QueueInit, QuietInv
<1>2. InjectInv /\ QuietInv /\ [InjectNext]_injectVars => QuietInv'
  BY QuietInvNext
<1>3. InjectInv /\ QuietInv /\ [InjectNext]_injectVars =>
        [delivered' # delivered /\ busy > 0 => quiet >= DeferFrames]_injectVars
  BY OnlyInjectingDelivers
<1> QED
  BY <1>1, <1>2, <1>3, InjectTypeCorrect, PTL DEF InjectSpec, InjectsInQuiet

-----------------------------------------------------------------------------
(* Once *)

(* A packet that has been written: its number is not above its writer's    *)
(* count, so that the next one is like none before it.                     *)
Written(pkt) ==
  pkt # Empty => pkt.n <= IF pkt.by = "ui" THEN sent ELSE chain_sent

Apart(a, b) == a # Empty => a # b

(* Between a snapshot and the wipe the buffer holds what was taken; at all *)
(* other times every packet in it is new to the reader.                    *)
FreshInv ==
  /\ \A p \in Places : Written(buffer[p])
  /\ \A i \in 1 .. Len(local_buf) : Written(local_buf[i])
  /\ \A i \in 1 .. Len(delivered) : Written(delivered[i])
  /\ \A i, j \in 1 .. Len(delivered) : i < j => Apart(delivered[i], delivered[j])
  /\ \A i \in 1 .. Len(delivered), j \in 1 .. Len(local_buf) :
       Apart(delivered[i], local_buf[j])
  /\ \A i, j \in 1 .. Len(local_buf) : i < j => Apart(local_buf[i], local_buf[j])
  /\ Held => \A q \in Places :
       /\ \A p \in Places : p < q => Apart(buffer[p], buffer[q])
       /\ \A i \in 1 .. Len(delivered) : Apart(delivered[i], buffer[q])
  /\ drain = "deliver" => \A q \in Places, i \in 1 .. Len(local_buf) :
       Apart(local_buf[i], buffer[q])

LEMMA InjectFacts ==
  ASSUME InjectInv
  PROVE  /\ buffer \in [Places -> Packets]
         /\ local_buf \in Seq(Packets) /\ delivered \in Seq(Packets)
         /\ Len(local_buf) \in Nat /\ Len(delivered) \in Nat
         /\ write_idx \in Places /\ ui_offset \in Places
         /\ write_idx < IdxSpan
         /\ spi_offset \in 0 .. IdxSpan - 1 /\ ui_offset \in 0 .. IdxSpan - 1
         /\ sent \in Nat /\ chain_sent \in Nat
         /\ Places \subseteq Nat /\ IdxSpan \in Nat
         /\ \A p \in Places : buffer[p] \in Packets
         /\ \A i \in 1 .. Len(local_buf) : local_buf[i] \in Packets
         /\ \A i \in 1 .. Len(delivered) : delivered[i] \in Packets
BY QueueAssumption, InjectAssumption DEF InjectInv, InjectTypeOK, QueueTypeOK, Places

(* Writing a packet that is like none before.                              *)
LEMMA FreshWrite ==
  ASSUME InjectInv, FreshInv,
         NEW w \in Places, NEW pkt \in Packets, pkt # Empty,
         ~Written(pkt),
         pkt.n <= IF pkt.by = "ui" THEN sent' ELSE chain_sent',
         sent' \in Nat, chain_sent' \in Nat,
         sent' >= sent, chain_sent' >= chain_sent,
         buffer' = [buffer EXCEPT ![w] = pkt],
         UNCHANGED <<drain, local_buf, delivered>>
  PROVE  FreshInv'
<1> USE InjectFacts, EmptyIsNoPacket
<1>1. /\ buffer'[w] = pkt
      /\ \A p \in Places : p # w => buffer'[p] = buffer[p]
  OBVIOUS
<1>2. \A old \in Packets : Written(old) =>
        /\ old # pkt
        /\ old # Empty => old.n <= IF old.by = "ui" THEN sent' ELSE chain_sent'
  BY SMTT(20) DEF Written
<1>3. \A p \in Places :
        buffer'[p] # Empty => buffer'[p].n <= IF buffer'[p].by = "ui" THEN sent' ELSE chain_sent'
  <2> TAKE p \in Places
  <2>1. CASE p = w
    BY <1>1, <2>1
  <2>2. CASE p # w
    BY <1>1, <1>2, <2>2 DEF FreshInv
  <2> QED BY <2>1, <2>2
<1>4. /\ \A i \in 1 .. Len(local_buf) : local_buf[i] # Empty =>
           local_buf[i].n <= IF local_buf[i].by = "ui" THEN sent' ELSE chain_sent'
      /\ \A i \in 1 .. Len(delivered) : delivered[i] # Empty =>
           delivered[i].n <= IF delivered[i].by = "ui" THEN sent' ELSE chain_sent'
  BY <1>2 DEF FreshInv
<1>5. ASSUME Held, NEW q \in Places
      PROVE  /\ \A p \in Places : p < q => Apart(buffer'[p], buffer'[q])
             /\ \A i \in 1 .. Len(delivered) : Apart(delivered[i], buffer'[q])
  <2>1. \A p \in Places : p < q => Apart(buffer'[p], buffer'[q])
    <3> TAKE p \in Places
    <3> HAVE p < q
    <3>1. CASE p = w
      BY <1>1, <1>2, <3>1 DEF FreshInv, Apart
    <3>2. CASE q = w
      BY <1>1, <1>2, <3>2 DEF FreshInv, Apart
    <3>3. CASE p # w /\ q # w
      BY <1>1, <1>5, <3>3 DEF FreshInv
    <3> QED BY <3>1, <3>2, <3>3
  <2>2. \A i \in 1 .. Len(delivered) : Apart(delivered[i], buffer'[q])
    <3>1. CASE q = w
      BY <1>1, <1>2, <3>1 DEF FreshInv, Apart
    <3>2. CASE q # w
      BY <1>1, <1>5, <3>2 DEF FreshInv
    <3> QED BY <3>1, <3>2
  <2> QED BY <2>1, <2>2
<1>6. ASSUME drain = "deliver", NEW q \in Places, NEW i \in 1 .. Len(local_buf)
      PROVE  Apart(local_buf[i], buffer'[q])
  <2>1. CASE q = w
    BY <1>1, <1>2, <2>1 DEF FreshInv, Apart
  <2>2. CASE q # w
    BY <1>1, <1>6, <2>2 DEF FreshInv
  <2> QED BY <2>1, <2>2
<1>7. Held' <=> Held
  BY DEF Held
<1> QED
  BY <1>3, <1>4, <1>5, <1>6, <1>7 DEF FreshInv, Written, Apart

(* Steps that move no packet.                                              *)
LEMMA FreshKept ==
  ASSUME FreshInv, UNCHANGED <<buffer, sent, chain_sent, local_buf, delivered>>,
         drain' = drain \/ (drain \in {"idle", "rearm"} /\ drain' \in {"idle", "snapshot"})
                        \/ drain' = "wipe"
  PROVE  FreshInv'
BY DEF FreshInv, Written, Apart, Held

LEMMA FreshSnapshot ==
  ASSUME InjectInv, FreshInv, Snapshot, UNCHANGED chain_sent
  PROVE  FreshInv'
<1> USE InjectFacts
<1>1. /\ drain = "snapshot" /\ drain' = "reset"
      /\ local_buf' = [i \in 1 .. write_idx |-> buffer[i - 1]]
      /\ UNCHANGED <<buffer, sent, delivered>>
  BY DEF Snapshot, uiVars
<1>2. Len(local_buf') = write_idx
  BY <1>1
<1>3. \A i \in 1 .. write_idx : local_buf'[i] = buffer[i - 1] /\ i - 1 \in Places
  BY <1>1, QueueAssumption DEF Places
<1>4. \A i, j \in 1 .. write_idx : i < j => i - 1 < j - 1
  OBVIOUS
<1>5. \A i, j \in 1 .. write_idx : i < j => Apart(local_buf'[i], local_buf'[j])
  BY <1>1, <1>3, <1>4 DEF FreshInv, Held
<1>6. /\ \A i \in 1 .. write_idx : Written(local_buf'[i])
      /\ \A i \in 1 .. Len(delivered), j \in 1 .. write_idx :
           Apart(delivered[i], local_buf'[j])
  BY <1>1, <1>3 DEF FreshInv, Held
<1>7. \A pkt : Written(pkt)' <=> Written(pkt)
  BY <1>1 DEF Written
<1>8. \A i \in 1 .. Len(local_buf') : Written(local_buf'[i])
  BY <1>2, <1>6
<1>9. \A i, j \in 1 .. Len(local_buf') : i < j => Apart(local_buf'[i], local_buf'[j])
  BY <1>2, <1>5
<1>10. \A i \in 1 .. Len(delivered), j \in 1 .. Len(local_buf') :
         Apart(delivered[i], local_buf'[j])
  BY <1>2, <1>6
<1> QED
  BY <1>1, <1>7, <1>8, <1>9, <1>10 DEF FreshInv, Held

LEMMA FreshWipe ==
  ASSUME FreshInv, Wipe, UNCHANGED chain_sent
  PROVE  FreshInv'
<1>1. /\ \A p \in Places : buffer'[p] = Empty
      /\ UNCHANGED <<sent, local_buf, delivered>>
  BY DEF Wipe, uiVars
<1> QED BY <1>1 DEF FreshInv, Written, Apart

LEMMA FreshInject ==
  ASSUME InjectInv, FreshInv, NEW taken \in 0 .. Len(local_buf), Inject(taken)
  PROVE  FreshInv'
<1> USE InjectFacts
<1>1. InjectTypeOK
  BY DEF InjectInv
<1>2. /\ drain = "deliver" /\ drain' \in {"idle", "rearm"}
      /\ Len(delivered') = Len(delivered) + taken
      /\ \A i \in 1 .. Len(delivered) : delivered'[i] = delivered[i]
      /\ \A i \in 1 .. taken : delivered'[Len(delivered) + i] = local_buf[i]
      /\ local_buf' \in Seq(Packets)
      /\ taken + Len(local_buf') <= Len(local_buf)
      /\ \A i \in 1 .. Len(local_buf') : local_buf'[i] = local_buf[taken + i]
      /\ \A p \in Places :
           buffer'[p] = IF p < Len(local_buf') THEN local_buf'[p + 1] ELSE buffer[p]
      /\ UNCHANGED <<sent, chain_sent>>
  BY <1>1, InjectEffects DEF uiVars, spiVars
<1>3. Len(local_buf') \in Nat
  BY <1>2
(* Where an element of the new sequences comes from.                       *)
<1>4. \A i \in 1 .. Len(delivered') :
        \/ i \in 1 .. Len(delivered) /\ delivered'[i] = delivered[i]
        \/ \E k \in 1 .. taken : i = Len(delivered) + k /\ delivered'[i] = local_buf[k]
  <2> TAKE i \in 1 .. Len(delivered')
  <2>1. CASE i <= Len(delivered)
    BY <1>2, <2>1
  <2>2. CASE ~(i <= Len(delivered))
    <3>1. i - Len(delivered) \in 1 .. taken /\ i = Len(delivered) + (i - Len(delivered))
      BY <1>2, <2>2
    <3> QED BY <1>2, <3>1
  <2> QED BY <2>1, <2>2
<1>5. \A i \in 1 .. Len(local_buf') :
        taken + i \in 1 .. Len(local_buf) /\ local_buf'[i] = local_buf[taken + i]
  BY <1>2, <1>3
<1>6. \A k \in 1 .. taken : k \in 1 .. Len(local_buf)
  OBVIOUS
<1>7. \A p \in Places :
        \/ p < Len(local_buf') /\ p + 1 \in 1 .. Len(local_buf')
           /\ buffer'[p] = local_buf[taken + (p + 1)]
        \/ ~(p < Len(local_buf')) /\ buffer'[p] = buffer[p]
  <2> TAKE p \in Places
  <2>1. CASE p < Len(local_buf')
    <3>1. p \in Nat /\ p + 1 \in 1 .. Len(local_buf')
      BY <1>3, <2>1
    <3> QED BY <1>2, <1>5, <2>1, <3>1
  <2>2. CASE ~(p < Len(local_buf'))
    BY <1>2, <2>2
  <2> QED BY <2>1, <2>2
<1>8. /\ \A p \in Places : Written(buffer'[p])
      /\ \A i \in 1 .. Len(local_buf') : Written(local_buf'[i])
      /\ \A i \in 1 .. Len(delivered') : Written(delivered'[i])
  BY <1>4, <1>5, <1>6, <1>7 DEF FreshInv
<1>9. \A i, j \in 1 .. Len(delivered') : i < j => Apart(delivered'[i], delivered'[j])
  <2> TAKE i, j \in 1 .. Len(delivered')
  <2> HAVE i < j
  <2>1. CASE j \in 1 .. Len(delivered)
    <3>1. i \in 1 .. Len(delivered)
      BY <1>2, <2>1
    <3> QED BY <1>2, <2>1, <3>1 DEF FreshInv
  <2>2. CASE i \in 1 .. Len(delivered) /\ j \notin 1 .. Len(delivered)
    BY <1>2, <1>4, <1>6, <2>2 DEF FreshInv
  <2>3. CASE i \notin 1 .. Len(delivered) /\ j \notin 1 .. Len(delivered)
    <3>1. PICK k \in 1 .. taken : i = Len(delivered) + k /\ delivered'[i] = local_buf[k]
      BY <1>4, <2>3
    <3>2. PICK l \in 1 .. taken : j = Len(delivered) + l /\ delivered'[j] = local_buf[l]
      BY <1>4, <2>3
    <3>3. k < l
      BY <3>1, <3>2
    <3> QED BY <1>6, <3>1, <3>2, <3>3 DEF FreshInv
  <2> QED BY <2>1, <2>2, <2>3
<1>10. \A i \in 1 .. Len(delivered'), j \in 1 .. Len(local_buf') :
         Apart(delivered'[i], local_buf'[j])
  <2> TAKE i \in 1 .. Len(delivered'), j \in 1 .. Len(local_buf')
  <2>1. CASE i \in 1 .. Len(delivered)
    BY <1>2, <1>5, <2>1 DEF FreshInv
  <2>2. ASSUME NEW k \in 1 .. taken, delivered'[i] = local_buf[k]
        PROVE  Apart(delivered'[i], local_buf'[j])
    <3>1. k < taken + j
      BY <1>3
    <3> QED BY <1>5, <1>6, <2>2, <3>1 DEF FreshInv
  <2> QED BY <1>4, <2>1, <2>2
<1>11. \A i, j \in 1 .. Len(local_buf') : i < j => Apart(local_buf'[i], local_buf'[j])
  <2> TAKE i, j \in 1 .. Len(local_buf')
  <2> HAVE i < j
  <2>1. taken + i < taken + j
    BY <1>3
  <2> QED BY <1>5, <2>1 DEF FreshInv
<1>12. ASSUME NEW q \in Places
       PROVE  /\ \A p \in Places : p < q => Apart(buffer'[p], buffer'[q])
              /\ \A i \in 1 .. Len(delivered') : Apart(delivered'[i], buffer'[q])
  <2>1. CASE q < Len(local_buf')
    <3>1. q + 1 \in 1 .. Len(local_buf') /\ buffer'[q] = local_buf'[q + 1]
      BY <1>5, <1>7, <2>1
    <3>2. \A p \in Places : p < q =>
            /\ p + 1 \in 1 .. Len(local_buf') /\ buffer'[p] = local_buf'[p + 1]
            /\ p + 1 < q + 1
      <4> TAKE p \in Places
      <4> HAVE p < q
      <4>1. p \in Nat /\ q \in Nat /\ p < Len(local_buf') /\ p + 1 < q + 1
        BY <1>3, <2>1
      <4>2. p + 1 \in 1 .. Len(local_buf')
        BY <1>3, <4>1
      <4> QED BY <1>5, <1>7, <4>1, <4>2
    <3> QED BY <1>10, <1>11, <3>1, <3>2
  <2>2. CASE ~(q < Len(local_buf'))
    <3>1. buffer'[q] = buffer[q]
      BY <1>7, <2>2
    <3>2. \A p \in Places : p < q => Apart(buffer'[p], buffer'[q])
      BY <1>2, <1>5, <1>7, <3>1 DEF FreshInv, Held
    <3>3. \A i \in 1 .. Len(delivered') : Apart(delivered'[i], buffer'[q])
      BY <1>2, <1>4, <1>6, <3>1 DEF FreshInv, Held
    <3> QED BY <3>2, <3>3
  <2> QED BY <2>1, <2>2
<1> QED
  BY <1>2, <1>8, <1>9, <1>10, <1>11, <1>12 DEF FreshInv, Written, Apart

LEMMA FreshInvInit == InjectInit => FreshInv
<1> SUFFICES ASSUME InjectInit PROVE FreshInv
  OBVIOUS
<1>1. Len(local_buf) = 0 /\ Len(delivered) = 0 /\ drain = "idle"
  BY DEF InjectInit, QueueInit
<1>2. \A p \in Places : buffer[p] = Empty
  BY DEF InjectInit, QueueInit
<1> QED BY <1>1, <1>2 DEF FreshInv, Written, Apart

(* The packets the two writers write are new.                              *)
LEMMA NewPackets ==
  ASSUME InjectInv
  PROVE  /\ UiPacket \in Packets /\ UiPacket # Empty
         /\ UiPacket.by = "ui" /\ UiPacket.n = sent + 1 /\ ~Written(UiPacket)
         /\ ChainPacket \in Packets /\ ChainPacket # Empty
         /\ ChainPacket.by = "chain" /\ ChainPacket.n = chain_sent + 1
         /\ ~Written(ChainPacket)
<1>1. sent \in Nat /\ chain_sent \in Nat
  BY InjectFacts
<1> QED BY <1>1 DEF UiPacket, ChainPacket, Packets, Empty, Written

LEMMA FreshInvNext ==
  ASSUME InjectInv, FreshInv, [InjectNext]_injectVars
  PROVE  FreshInv'
<1>1. sent \in Nat /\ chain_sent \in Nat /\ InjectTypeOK
  BY InjectFacts DEF InjectInv
<1>2. CASE ChainWrite
  <2>1. /\ buffer' = [buffer EXCEPT ![write_idx] = ChainPacket]
        /\ sent' = sent /\ chain_sent' = chain_sent + 1
        /\ UNCHANGED <<drain, local_buf, delivered>>
    BY <1>2 DEF ChainWrite, uiVars, drainVars
  <2>2. write_idx \in Places
    BY InjectFacts
  <2>3. sent' \in Nat /\ chain_sent' \in Nat /\ sent' >= sent /\ chain_sent' >= chain_sent
    BY <1>1, <2>1
  <2>4. ChainPacket.n <= IF ChainPacket.by = "ui" THEN sent' ELSE chain_sent'
    BY <1>1, <2>1, NewPackets
  <2> QED BY <2>1, <2>2, <2>3, <2>4, NewPackets, FreshWrite
<1>3. CASE JsStep /\ UiCopy
  <2>1. /\ buffer' = [buffer EXCEPT ![ui_offset] = UiPacket]
        /\ chain_sent' = chain_sent /\ sent' = sent + 1
        /\ UNCHANGED <<drain, local_buf, delivered>>
    BY <1>3 DEF JsStep, UiCopy, spiVars, drainVars
  <2>2. ui_offset \in Places
    BY InjectFacts
  <2>3. sent' \in Nat /\ chain_sent' \in Nat /\ sent' >= sent /\ chain_sent' >= chain_sent
    BY <1>1, <2>1
  <2>4. UiPacket.n <= IF UiPacket.by = "ui" THEN sent' ELSE chain_sent'
    BY <1>1, <2>1, NewPackets
  <2> QED BY <2>1, <2>2, <2>3, <2>4, NewPackets, FreshWrite
<1>4. CASE JsStep /\ (UiCall \/ UiRead \/ UiStore \/ UiLoadReady \/ UiSignal)
  <2>1. UNCHANGED <<buffer, sent, chain_sent, local_buf, delivered, drain>>
    BY <1>4 DEF JsStep, UiCall, UiRead, UiStore, UiLoadReady, UiSignal,
                spiVars, drainVars
  <2> QED BY <2>1, FreshKept
<1>5. CASE ChainStep \/ DrainDefers \/ DrainWaits \/ UNCHANGED injectVars
  <2>1. UNCHANGED <<buffer, sent, chain_sent, local_buf, delivered, drain>>
    BY <1>5 DEF ChainStep, ChainStore, ChainSignal, DrainDefers, DrainWaits,
                injectVars, queueVars, uiVars, drainVars, spiVars
  <2> QED BY <2>1, FreshKept
<1>6. CASE DrainBegins
  <2>1. /\ UNCHANGED <<buffer, sent, chain_sent, local_buf, delivered>>
        /\ drain = "idle" /\ drain' = "snapshot"
    BY <1>6 DEF DrainBegins, Notice, uiVars, spiVars
  <2> QED BY <2>1, FreshKept
<1>7. CASE DrainTakes
  <2>1. UNCHANGED chain_sent /\ (Snapshot \/ ResetIdx \/ Wipe)
    BY <1>7 DEF DrainTakes, spiVars
  <2>2. CASE ResetIdx
    <3>1. UNCHANGED <<buffer, sent, local_buf, delivered>> /\ drain' = "wipe"
      BY <2>2 DEF ResetIdx, uiVars
    <3> QED BY <2>1, <3>1, FreshKept
  <2> QED BY <2>1, <2>2, FreshSnapshot, FreshWipe
<1>8. CASE InjectFrame
  <2>1. Fits \in 0 .. Len(local_buf) /\ Inject(Fits)
    BY <1>1, <1>8, FitsInPackets DEF InjectFrame
  <2> QED BY <2>1, FreshInject
<1>9. CASE InjectInterrupted
  <2>1. PICK taken \in 0 .. Fits - 1 : Inject(taken)
    BY <1>9 DEF InjectInterrupted
  <2>2. taken \in 0 .. Len(local_buf)
    BY <1>1, <2>1, FitsInPackets
  <2> QED BY <2>1, <2>2, FreshInject
<1>10. CASE Rearm
  <2>1. /\ UNCHANGED <<buffer, sent, chain_sent, delivered>>
        /\ drain = "rearm" /\ drain' = "idle" /\ Len(local_buf') = 0
    BY <1>10 DEF Rearm, uiVars, spiVars
  <2> QED BY <2>1 DEF FreshInv, Written, Apart, Held
<1> QED
  BY <1>2, <1>3, <1>4, <1>5, <1>6, <1>7, <1>8, <1>9, <1>10
  DEF InjectNext, JsStep, UiStep, DrainOn

-----------------------------------------------------------------------------
(* In order *)

ChainBefore(a, b) == a.by = "chain" /\ b.by = "chain" => a.n < b.n

(* Where the SPI thread's next packet goes. *)
SpiNext == CASE drain = "rearm" -> Len(local_buf)
             [] drain # "rearm" /\ spi = "store" -> spi_offset + 1
             [] OTHER -> write_idx

(* The places that write_idx is above, or can come to be above before      *)
(* anything is written there again.                                        *)
Readable(q) ==
  \/ q < write_idx
  \/ ui = "copy" /\ q < ui_offset
  \/ ui = "store" /\ q <= ui_offset
  \/ spi = "store" /\ q <= spi_offset
  \/ drain = "rearm"

(* The SPI thread's packets are in order wherever they can be read, and    *)
(* none is at or after the place of its next one.                          *)
ChainInv ==
  /\ \A i, j \in 1 .. Len(delivered) : i < j => ChainBefore(delivered[i], delivered[j])
  /\ \A i \in 1 .. Len(delivered), j \in 1 .. Len(local_buf) :
       ChainBefore(delivered[i], local_buf[j])
  /\ \A i, j \in 1 .. Len(local_buf) : i < j => ChainBefore(local_buf[i], local_buf[j])
  /\ drain \in {"idle", "snapshot", "rearm"} => \A q \in Places : Readable(q) =>
       /\ \A p \in Places : p < q => ChainBefore(buffer[p], buffer[q])
       /\ \A i \in 1 .. Len(delivered) : ChainBefore(delivered[i], buffer[q])
       /\ q >= SpiNext => buffer[q].by # "chain"
  /\ drain = "deliver" => \A q \in Places : buffer[q].by # "chain"

ChainOrder == ~wrapped => ChainInv

(* Steps that move no packet, let nothing more be read and leave the SPI   *)
(* thread's place behind its packets.                                      *)
LEMMA ChainKept ==
  ASSUME ChainInv, UNCHANGED <<buffer, local_buf, delivered>>,
         \/ drain' = drain
         \/ drain = "idle" /\ drain' = "snapshot"
         \/ drain' \in {"reset", "wipe"},
         \A q \in Places : Readable(q)' =>
           Readable(q) /\ (q >= SpiNext' => q >= SpiNext)
  PROVE  ChainInv'
<1>1. drain' \in {"idle", "snapshot", "rearm"} => drain \in {"idle", "snapshot", "rearm"}
  OBVIOUS
<1>2. drain' = "deliver" => drain = "deliver"
  OBVIOUS
<1>3. ASSUME drain' \in {"idle", "snapshot", "rearm"}, NEW q \in Places, Readable(q)'
      PROVE  /\ \A p \in Places : p < q => ChainBefore(buffer[p], buffer[q])
             /\ \A i \in 1 .. Len(delivered) : ChainBefore(delivered[i], buffer[q])
             /\ q >= SpiNext' => buffer[q].by # "chain"
  BY <1>1, <1>3 DEF ChainInv
<1> QED BY <1>2, <1>3 DEF ChainInv, ChainBefore

(* The shadow UI writes a packet of its own.                               *)
LEMMA ChainUiCopy ==
  ASSUME InjectInv, ChainInv, UiCopy, UNCHANGED <<spi, spi_offset>>
  PROVE  ChainInv'
<1> USE InjectFacts
<1>1. /\ ui = "copy" /\ ui' = "store"
      /\ UNCHANGED <<write_idx, ui_offset, drain, local_buf, delivered>>
      /\ buffer'[ui_offset].by = "ui"
      /\ \A p \in Places : p # ui_offset => buffer'[p] = buffer[p]
  BY NewPackets DEF UiCopy, drainVars
<1>2. SpiNext' = SpiNext
  BY <1>1 DEF SpiNext
<1>3. \A q \in Places : q # ui_offset /\ Readable(q)' => Readable(q)
  BY <1>1 DEF Readable
<1>4. ASSUME drain \in {"idle", "snapshot", "rearm"}, NEW q \in Places, Readable(q)'
      PROVE  /\ \A p \in Places : p < q => ChainBefore(buffer'[p], buffer'[q])
             /\ \A i \in 1 .. Len(delivered) : ChainBefore(delivered[i], buffer'[q])
             /\ q >= SpiNext => buffer'[q].by # "chain"
  <2>1. CASE q = ui_offset
    BY <1>1, <2>1 DEF ChainBefore
  <2>2. CASE q # ui_offset
    <3>1. /\ \A p \in Places : p < q => ChainBefore(buffer[p], buffer[q])
          /\ \A i \in 1 .. Len(delivered) : ChainBefore(delivered[i], buffer[q])
          /\ q >= SpiNext => buffer[q].by # "chain"
      BY <1>3, <1>4, <2>2 DEF ChainInv
    <3>2. \A p \in Places : p < q => ChainBefore(buffer'[p], buffer[q])
      BY <1>1, <3>1 DEF ChainBefore
    <3> QED BY <1>1, <2>2, <3>1, <3>2
  <2> QED BY <2>1, <2>2
<1>5. drain = "deliver" => \A q \in Places : buffer'[q].by # "chain"
  BY <1>1 DEF ChainInv
<1> QED BY <1>1, <1>2, <1>4, <1>5 DEF ChainInv, ChainBefore

(* The SPI thread writes a packet at write_idx.                            *)
LEMMA ChainWriteOrdered ==
  ASSUME InjectInv, FreshInv, ChainInv, ChainWrite
  PROVE  ChainInv'
<1> USE InjectFacts, EmptyIsNoPacket
<1>1. /\ spi = "idle" /\ drain = "idle" /\ spi' = "store"
      /\ spi_offset' = write_idx
      /\ UNCHANGED <<write_idx, ui, ui_offset, drain, local_buf, delivered>>
      /\ buffer'[write_idx] = ChainPacket
      /\ \A p \in Places : p # write_idx => buffer'[p] = buffer[p]
  BY DEF ChainWrite, SpiFree, uiVars, drainVars
<1>2. SpiNext = write_idx /\ SpiNext' = write_idx + 1
  BY <1>1 DEF SpiNext
<1>3. ChainPacket.by = "chain" /\ ChainPacket.n = chain_sent + 1
  BY NewPackets
<1>4. \A old \in Packets : Written(old) => ChainBefore(old, ChainPacket)
  <2>1. \A old \in Packets : old.by = "chain" => old # Empty
    BY DEF Empty
  <2> QED BY <1>3, <2>1 DEF Written, ChainBefore
<1>5. \A q \in Places : Readable(q)' <=> Readable(q) \/ q = write_idx
  BY <1>1 DEF Readable
<1>6. ASSUME NEW q \in Places, Readable(q)'
      PROVE  /\ \A p \in Places : p < q => ChainBefore(buffer'[p], buffer'[q])
             /\ \A i \in 1 .. Len(delivered) : ChainBefore(delivered[i], buffer'[q])
             /\ q >= SpiNext' => buffer'[q].by # "chain"
  <2>1. CASE q = write_idx
    <3>1. \A p \in Places : p < q => buffer'[p] = buffer[p]
      BY <1>1, <2>1
    <3>2. /\ \A p \in Places : p < q => ChainBefore(buffer'[p], buffer'[q])
          /\ \A i \in 1 .. Len(delivered) : ChainBefore(delivered[i], buffer'[q])
      BY <1>1, <1>4, <2>1, <3>1 DEF FreshInv
    <3> QED BY <1>2, <2>1, <3>2
  <2>2. CASE q # write_idx
    <3>1. Readable(q) /\ buffer'[q] = buffer[q]
      BY <1>1, <1>5, <1>6, <2>2
    <3>2. /\ \A p \in Places : p < q => ChainBefore(buffer[p], buffer[q])
          /\ \A i \in 1 .. Len(delivered) : ChainBefore(delivered[i], buffer[q])
          /\ q >= write_idx => buffer[q].by # "chain"
      BY <1>1, <1>2, <3>1 DEF ChainInv
    <3>3. \A p \in Places : p < q => ChainBefore(buffer'[p], buffer[q])
      <4> TAKE p \in Places
      <4> HAVE p < q
      <4>1. CASE p = write_idx
        BY <3>2, <4>1 DEF ChainBefore
      <4>2. CASE p # write_idx
        BY <1>1, <3>2, <4>2
      <4> QED BY <4>1, <4>2
    <3> QED BY <1>2, <2>2, <3>1, <3>2, <3>3
  <2> QED BY <2>1, <2>2
<1> QED BY <1>1, <1>6 DEF ChainInv, ChainBefore

LEMMA ChainSnapshot ==
  ASSUME InjectInv, ChainInv, Snapshot
  PROVE  ChainInv'
<1> USE InjectFacts
<1>1. /\ drain = "snapshot" /\ drain' = "reset"
      /\ local_buf' = [i \in 1 .. write_idx |-> buffer[i - 1]]
      /\ UNCHANGED <<buffer, delivered>>
  BY DEF Snapshot
<1>2. Len(local_buf') = write_idx
  BY <1>1
<1>3. \A i \in 1 .. write_idx :
        local_buf'[i] = buffer[i - 1] /\ i - 1 \in Places /\ i - 1 < write_idx
  BY <1>1, QueueAssumption DEF Places
<1>4. \A q \in Places : q < write_idx =>
        /\ \A p \in Places : p < q => ChainBefore(buffer[p], buffer[q])
        /\ \A i \in 1 .. Len(delivered) : ChainBefore(delivered[i], buffer[q])
  BY <1>1 DEF ChainInv, Readable
<1>5. \A i, j \in 1 .. write_idx : i < j => i - 1 < j - 1
  OBVIOUS
<1>6. \A i, j \in 1 .. write_idx : i < j => ChainBefore(local_buf'[i], local_buf'[j])
  BY <1>3, <1>4, <1>5
<1>7. \A i \in 1 .. Len(delivered), j \in 1 .. write_idx :
        ChainBefore(delivered[i], local_buf'[j])
  BY <1>3, <1>4
<1> QED BY <1>1, <1>2, <1>6, <1>7 DEF ChainInv, ChainBefore

LEMMA ChainWipe ==
  ASSUME ChainInv, Wipe
  PROVE  ChainInv'
<1>1. /\ \A p \in Places : buffer'[p].by # "chain"
      /\ UNCHANGED <<local_buf, delivered>> /\ drain' = "deliver"
  BY DEF Wipe, Empty
<1> QED BY <1>1 DEF ChainInv, ChainBefore

LEMMA ChainInject ==
  ASSUME InjectInv, ChainInv, NEW taken \in 0 .. Len(local_buf), Inject(taken)
  PROVE  ChainInv'
<1> USE InjectFacts
<1>1. InjectTypeOK
  BY DEF InjectInv
<1>2. /\ drain = "deliver"
      /\ drain' = "rearm" \/ (drain' = "idle" /\ Len(local_buf') = 0)
      /\ Len(delivered') = Len(delivered) + taken
      /\ \A i \in 1 .. Len(delivered) : delivered'[i] = delivered[i]
      /\ \A i \in 1 .. taken : delivered'[Len(delivered) + i] = local_buf[i]
      /\ local_buf' \in Seq(Packets)
      /\ taken + Len(local_buf') <= Len(local_buf)
      /\ \A i \in 1 .. Len(local_buf') : local_buf'[i] = local_buf[taken + i]
      /\ \A p \in Places :
           buffer'[p] = IF p < Len(local_buf') THEN local_buf'[p + 1] ELSE buffer[p]
  BY <1>1, InjectEffects
<1>3. Len(local_buf') \in Nat
  BY <1>2
<1>4. \A i \in 1 .. Len(delivered') :
        \/ i \in 1 .. Len(delivered) /\ delivered'[i] = delivered[i]
        \/ \E k \in 1 .. taken : i = Len(delivered) + k /\ delivered'[i] = local_buf[k]
  <2> TAKE i \in 1 .. Len(delivered')
  <2>1. CASE i <= Len(delivered)
    BY <1>2, <2>1
  <2>2. CASE ~(i <= Len(delivered))
    <3>1. i - Len(delivered) \in 1 .. taken /\ i = Len(delivered) + (i - Len(delivered))
      BY <1>2, <2>2, SMTT(20)
    <3> QED BY <1>2, <3>1
  <2> QED BY <2>1, <2>2
<1>5. \A i \in 1 .. Len(local_buf') :
        taken + i \in 1 .. Len(local_buf) /\ local_buf'[i] = local_buf[taken + i]
  BY <1>2, <1>3
<1>6. \A k \in 1 .. taken : k \in 1 .. Len(local_buf)
  OBVIOUS
<1>7. \A p \in Places :
        \/ /\ p < Len(local_buf') /\ p + 1 \in 1 .. Len(local_buf')
           /\ buffer'[p] = local_buf'[p + 1]
        \/ ~(p < Len(local_buf')) /\ buffer'[p].by # "chain"
  <2> TAKE p \in Places
  <2>1. CASE p < Len(local_buf')
    <3>1. p \in Nat /\ p + 1 \in 1 .. Len(local_buf')
      BY <1>3, <2>1
    <3> QED BY <1>2, <2>1, <3>1
  <2>2. CASE ~(p < Len(local_buf'))
    BY <1>2, <2>2 DEF ChainInv
  <2> QED BY <2>1, <2>2
<1>8. \A i, j \in 1 .. Len(delivered') : i < j => ChainBefore(delivered'[i], delivered'[j])
  <2> TAKE i, j \in 1 .. Len(delivered')
  <2> HAVE i < j
  <2>1. CASE j \in 1 .. Len(delivered)
    <3>1. i \in 1 .. Len(delivered)
      BY <1>2, <2>1
    <3> QED BY <1>2, <2>1, <3>1 DEF ChainInv
  <2>2. CASE i \in 1 .. Len(delivered) /\ j \notin 1 .. Len(delivered)
    BY <1>2, <1>4, <1>6, <2>2 DEF ChainInv
  <2>3. CASE i \notin 1 .. Len(delivered) /\ j \notin 1 .. Len(delivered)
    <3>1. PICK k \in 1 .. taken : i = Len(delivered) + k /\ delivered'[i] = local_buf[k]
      BY <1>4, <2>3
    <3>2. PICK l \in 1 .. taken : j = Len(delivered) + l /\ delivered'[j] = local_buf[l]
      BY <1>4, <2>3
    <3>3. k < l
      BY <3>1, <3>2
    <3> QED BY <1>6, <3>1, <3>2, <3>3 DEF ChainInv
  <2> QED BY <2>1, <2>2, <2>3
<1>9. \A i \in 1 .. Len(delivered'), j \in 1 .. Len(local_buf') :
        ChainBefore(delivered'[i], local_buf'[j])
  <2> TAKE i \in 1 .. Len(delivered'), j \in 1 .. Len(local_buf')
  <2>1. CASE i \in 1 .. Len(delivered)
    BY <1>2, <1>5, <2>1 DEF ChainInv
  <2>2. ASSUME NEW k \in 1 .. taken, delivered'[i] = local_buf[k]
        PROVE  ChainBefore(delivered'[i], local_buf'[j])
    <3>1. k < taken + j
      BY <1>3, SMTT(20)
    <3> QED BY <1>5, <1>6, <2>2, <3>1 DEF ChainInv
  <2> QED BY <1>4, <2>1, <2>2
<1>10. \A i, j \in 1 .. Len(local_buf') : i < j => ChainBefore(local_buf'[i], local_buf'[j])
  <2> TAKE i, j \in 1 .. Len(local_buf')
  <2> HAVE i < j
  <2>1. taken + i < taken + j
    BY <1>3
  <2> QED BY <1>5, <2>1 DEF ChainInv
<1>11. ASSUME NEW q \in Places
       PROVE  /\ \A p \in Places : p < q => ChainBefore(buffer'[p], buffer'[q])
              /\ \A i \in 1 .. Len(delivered') : ChainBefore(delivered'[i], buffer'[q])
  <2>1. CASE q < Len(local_buf')
    <3>1. q + 1 \in 1 .. Len(local_buf') /\ buffer'[q] = local_buf'[q + 1]
      BY <1>7, <2>1
    <3>2. \A p \in Places : p < q => ChainBefore(buffer'[p], buffer'[q])
      <4> TAKE p \in Places
      <4> HAVE p < q
      <4>1. p \in Nat /\ q \in Nat /\ p < Len(local_buf') /\ p + 1 < q + 1
        BY <1>3, <2>1
      <4> QED BY <1>7, <1>10, <3>1, <4>1
    <3> QED BY <1>9, <3>1, <3>2
  <2>2. CASE ~(q < Len(local_buf'))
    BY <1>7, <2>2 DEF ChainBefore
  <2> QED BY <2>1, <2>2
<1>12. drain' = "rearm" => SpiNext' = Len(local_buf')
  BY DEF SpiNext
<1>13. drain' \in {"idle", "snapshot", "rearm"} => \A q \in Places : Readable(q)' =>
         (q >= SpiNext' => buffer'[q].by # "chain")
  <2>1. CASE drain' = "rearm"
    BY <1>3, <1>7, <1>12, <2>1
  <2>2. CASE drain' = "idle" /\ Len(local_buf') = 0
    BY <1>7, <2>2
  <2> QED BY <1>2, <2>1, <2>2
<1>14. drain' # "deliver"
  BY <1>2
<1> QED BY <1>8, <1>9, <1>10, <1>11, <1>13, <1>14 DEF ChainInv, ChainBefore

LEMMA ChainRearm ==
  ASSUME InjectInv, ChainInv, Rearm
  PROVE  ChainInv'
<1> USE InjectFacts
<1>1. /\ drain = "rearm" /\ drain' = "idle" /\ Len(local_buf') = 0
      /\ write_idx' = Len(local_buf)
      /\ UNCHANGED <<buffer, delivered, spi>>
  BY DEF Rearm, spiVars
<1>2. spi = "idle"
  BY <1>1 DEF InjectInv
<1>3. SpiNext = Len(local_buf) /\ SpiNext' = Len(local_buf)
  BY <1>1, <1>2 DEF SpiNext
<1>4. \A q \in Places : Readable(q)
  BY <1>1 DEF Readable
<1>5. \A q \in Places :
        /\ \A p \in Places : p < q => ChainBefore(buffer[p], buffer[q])
        /\ \A i \in 1 .. Len(delivered) : ChainBefore(delivered[i], buffer[q])
        /\ q >= SpiNext => buffer[q].by # "chain"
  BY <1>1, <1>4 DEF ChainInv
<1>6. \A i, j \in 1 .. Len(delivered) : i < j => ChainBefore(delivered[i], delivered[j])
  BY DEF ChainInv
<1> QED BY <1>1, <1>3, <1>5, <1>6 DEF ChainInv, ChainBefore

(* An index that has not wrapped is stored: less can be read than before.  *)
LEMMA ChainStores ==
  ASSUME InjectInv, ChainInv, ~wrapped',
         ChainStore \/ (JsStep /\ UiStore)
  PROVE  ChainInv'
<1> USE InjectFacts
<1>1. CASE ChainStore
  <2>1. /\ spi = "store" /\ spi' = "signal" /\ spi_offset + 1 # IdxSpan
        /\ write_idx' = (spi_offset + 1) % IdxSpan
        /\ UNCHANGED <<buffer, local_buf, delivered, drain, ui, ui_offset>>
    BY <1>1 DEF ChainStore, uiVars, drainVars
  <2>2. write_idx' = spi_offset + 1 /\ drain = "idle"
    BY <2>1, WrapsDown DEF InjectInv
  <2>3. SpiNext = spi_offset + 1 /\ SpiNext' = spi_offset + 1
    BY <2>1, <2>2 DEF SpiNext
  <2>4. \A q \in Places : Readable(q)' => Readable(q)
    BY <2>1, <2>2 DEF Readable
  <2> QED BY <2>1, <2>3, <2>4, ChainKept
<1>2. CASE JsStep /\ UiStore
  <2>1. /\ ui = "store" /\ ui' \notin {"copy", "store"}
        /\ ui_offset + 1 # IdxSpan
        /\ write_idx' = (ui_offset + 1) % IdxSpan
        /\ UNCHANGED <<buffer, local_buf, delivered, drain, spi, spi_offset>>
    BY <1>2 DEF JsStep, UiStore, spiVars, drainVars
  <2>2. write_idx' = ui_offset + 1
    BY <2>1, WrapsDown
  <2>3. \A q \in Places : Readable(q)' => Readable(q)
    BY <2>1, <2>2 DEF Readable
  <2>4. \A q \in Places : Readable(q)' /\ q >= SpiNext' => q >= SpiNext
    <3>1. CASE drain = "rearm" \/ spi = "store"
      BY <2>1, <3>1 DEF SpiNext
    <3>2. CASE drain # "rearm" /\ spi # "store"
      <4>1. SpiNext' = ui_offset + 1
        BY <2>1, <2>2, <3>2 DEF SpiNext
      <4>2. \A q \in Places : Readable(q)' => q < ui_offset + 1
        BY <2>1, <2>2, <3>2 DEF Readable
      <4> QED BY <4>1, <4>2
    <3> QED BY <3>1, <3>2
  <2> QED BY <2>1, <2>3, <2>4, ChainKept
<1> QED BY <1>1, <1>2

LEMMA ChainOrderNext ==
  ASSUME InjectInv, FreshInv, ChainOrder, [InjectNext]_injectVars
  PROVE  ChainOrder'
<1> SUFFICES ASSUME ~wrapped' PROVE ChainInv'
  BY DEF ChainOrder
<1> USE InjectFacts
<1>1. ~wrapped /\ InjectTypeOK
  <2>1. InjectTypeOK /\ wrapped \in BOOLEAN
    BY DEF InjectInv, InjectTypeOK
  <2>2. CASE ChainStore \/ JsStep
    BY <2>1, <2>2 DEF ChainStore, JsStep
  <2>3. CASE ~(ChainStore \/ JsStep)
    BY <2>1, <2>3
    DEF InjectNext, ChainWrite, ChainStep, ChainSignal, DrainDefers, DrainOn,
        DrainWaits, DrainBegins, DrainTakes, InjectFrame, InjectInterrupted,
        Inject, Rearm, injectVars
  <2> QED BY <2>1, <2>2, <2>3
<1>2. ChainInv
  BY <1>1 DEF ChainOrder
<1>3. CASE ChainWrite
  BY <1>2, <1>3, ChainWriteOrdered
<1>4. CASE ChainStore \/ (JsStep /\ UiStore)
  BY <1>2, <1>4, ChainStores
<1>5. CASE JsStep /\ UiCopy
  BY <1>2, <1>5, ChainUiCopy DEF JsStep, spiVars
<1>6. CASE JsStep /\ UiRead
  <2>1. /\ ui = "read" /\ ui' = "copy" /\ ui_offset' = write_idx
        /\ UNCHANGED <<buffer, write_idx, local_buf, delivered, drain, spi,
                       spi_offset>>
    BY <1>6 DEF JsStep, UiRead, spiVars, drainVars
  <2>2. SpiNext' = SpiNext /\ \A q \in Places : Readable(q)' => Readable(q)
    BY <2>1 DEF SpiNext, Readable
  <2> QED BY <1>2, <2>1, <2>2, ChainKept
<1>7. CASE JsStep /\ (UiCall \/ UiLoadReady \/ UiSignal)
  <2>1. /\ ui \notin {"copy", "store"} /\ ui' \notin {"copy", "store"}
        /\ UNCHANGED <<buffer, write_idx, local_buf, delivered, drain, spi,
                       spi_offset>>
    BY <1>7 DEF JsStep, UiCall, UiLoadReady, UiSignal, spiVars, drainVars
  <2>2. SpiNext' = SpiNext /\ \A q \in Places : Readable(q)' => Readable(q)
    BY <2>1 DEF SpiNext, Readable
  <2> QED BY <1>2, <2>1, <2>2, ChainKept
<1>8. CASE ChainSignal \/ DrainDefers \/ DrainWaits \/ UNCHANGED injectVars
  <2>1. /\ spi' = spi \/ (spi = "signal" /\ spi' = "idle")
        /\ UNCHANGED <<buffer, write_idx, local_buf, delivered, drain, ui,
                       ui_offset, spi_offset>>
    BY <1>8 DEF ChainSignal, DrainDefers, DrainWaits, injectVars, queueVars,
                uiVars, drainVars, spiVars
  <2>2. SpiNext' = SpiNext /\ \A q \in Places : Readable(q)' => Readable(q)
    BY <2>1 DEF SpiNext, Readable
  <2> QED BY <1>2, <2>1, <2>2, ChainKept
<1>9. CASE DrainBegins \/ (DrainTakes /\ ResetIdx)
  <2>1. /\ UNCHANGED <<buffer, local_buf, delivered, ui, ui_offset, spi, spi_offset>>
        /\ \/ drain = "idle" /\ drain' = "snapshot" /\ write_idx' = write_idx
           \/ drain' = "wipe" /\ drain = "reset" /\ write_idx' = 0
    BY <1>9 DEF DrainBegins, DrainTakes, Notice, ResetIdx, uiVars, spiVars
  <2>2. CASE drain = "idle" /\ drain' = "snapshot" /\ write_idx' = write_idx
    <3>1. SpiNext' = SpiNext /\ \A q \in Places : Readable(q)' => Readable(q)
      BY <2>1, <2>2 DEF SpiNext, Readable
    <3> QED BY <1>2, <2>1, <2>2, <3>1, ChainKept
  <2>3. CASE drain' = "wipe"
    BY <1>2, <2>1, <2>3 DEF ChainInv, ChainBefore
  <2> QED BY <2>1, <2>2, <2>3
<1>10. CASE DrainTakes /\ (Snapshot \/ Wipe)
  BY <1>2, <1>10, ChainSnapshot, ChainWipe
<1>11. CASE InjectFrame
  <2>1. Fits \in 0 .. Len(local_buf) /\ Inject(Fits)
    BY <1>1, <1>11, FitsInPackets DEF InjectFrame
  <2> QED BY <1>2, <2>1, ChainInject
<1>12. CASE InjectInterrupted
  <2>1. PICK taken \in 0 .. Fits - 1 : Inject(taken)
    BY <1>12 DEF InjectInterrupted
  <2>2. taken \in 0 .. Len(local_buf)
    BY <1>1, <2>1, FitsInPackets
  <2> QED BY <1>2, <2>1, <2>2, ChainInject
<1>13. CASE Rearm
  BY <1>2, <1>13, ChainRearm
<1>14. CASE DrainTakes
  BY <1>9, <1>10, <1>14 DEF DrainTakes
<1>15. CASE JsStep
  BY <1>4, <1>5, <1>6, <1>7, <1>15 DEF JsStep, UiStep
<1> QED
  BY <1>3, <1>4, <1>8, <1>9, <1>11, <1>12, <1>13, <1>14, <1>15
  DEF InjectNext, ChainStep, DrainOn

(* Whatever the two writers and the drain do, no packet is injected into   *)
(* Move twice: not even when write_idx wraps.  Order is claimed for one    *)
(* writer and one stretch only: the SPI thread's packets that arrive do so *)
(* in the order it accepted them, until write_idx first wraps.  The shadow *)
(* UI's own packets may arrive out of order, and packets may be lost.      *)
THEOREM AlwaysOnceInOrder == InjectSpec => []OnceInOrder
<1>1. InjectInit => ChainOrder
  <2> SUFFICES ASSUME InjectInit PROVE ChainInv
    BY DEF ChainOrder
  <2>1. Len(local_buf) = 0 /\ Len(delivered) = 0 /\ drain = "idle"
    BY DEF InjectInit, QueueInit
  <2>2. \A p \in Places : buffer[p].by # "chain"
    BY DEF InjectInit, QueueInit, Empty
  <2> QED BY <2>1, <2>2 DEF ChainInv, ChainBefore
<1>2. InjectInv /\ FreshInv /\ [InjectNext]_injectVars => FreshInv'
  BY FreshInvNext
<1>3. InjectInv /\ FreshInv /\ ChainOrder /\ [InjectNext]_injectVars =>
        ChainOrder'
  BY ChainOrderNext
<1>4. InjectInv /\ FreshInv /\ ChainOrder => OnceInOrder
  BY DEF FreshInv, Apart, ChainOrder, ChainInv, ChainBefore, OnceInOrder
<1> QED
  BY <1>1, <1>2, <1>3, <1>4, FreshInvInit, InjectTypeCorrect, PTL DEF InjectSpec

-----------------------------------------------------------------------------
(* A queue *)

(* The shadow UI has not begun to write, and write_idx has not wrapped.    *)
Alone == sent = 0 /\ ui = "idle" /\ ~wrapped

(* What has begun has written.                                             *)
BegunInv == ui \in {"store", "load", "signal"} => sent >= 1

(* The n-th packet of the SPI thread. *)
Nth(n) == [by |-> "chain", n |-> n]

(* The packets in the buffer, the one being written included. *)
InBuffer == IF spi = "store" THEN write_idx + 1 ELSE write_idx

(* Delivered, copied and buffered packets are those accepted, in this      *)
(* order; the buffer is empty while the drain has them.                    *)
AloneInv ==
  /\ spi = "store" => spi_offset = write_idx
  /\ drain \in {"wipe", "deliver", "rearm"} => write_idx = 0
  /\ \A i \in 1 .. Len(delivered) : delivered[i] = Nth(i)
  /\ drain \in {"reset", "wipe", "deliver", "rearm"} =>
       /\ Len(delivered) + Len(local_buf) = chain_sent
       /\ \A i \in 1 .. Len(local_buf) :
            local_buf[i] = Nth(Len(delivered) + i)
  /\ drain \in {"idle", "snapshot"} =>
       /\ Len(delivered) + InBuffer = chain_sent
       /\ \A i \in 1 .. InBuffer : buffer[i - 1] = Nth(Len(delivered) + i)
  /\ drain = "rearm" =>
       \A i \in 1 .. Len(local_buf) : buffer[i - 1] = local_buf[i]

FifoInv == BegunInv /\ (Alone => AloneInv)

LEMMA BegunNext ==
  ASSUME InjectInv, BegunInv, [InjectNext]_injectVars
  PROVE  /\ BegunInv'
         /\ Alone' => Alone /\ ~JsStep
<1> USE InjectFacts
<1>1. CASE JsStep
  <2>1. ui = "idle" => ui' = "read"
    BY <1>1 DEF JsStep, UiCall, UiStep, UiRead, UiCopy, UiStore, UiLoadReady,
                UiSignal
  <2>2. BegunInv' /\ (ui # "idle" /\ ui' = "idle" => sent' >= 1)
    BY <1>1 DEF JsStep, UiCall, UiStep, UiRead, UiCopy, UiStore, UiLoadReady,
                UiSignal, BegunInv
  <2>3. ~Alone'
    BY <2>1, <2>2 DEF Alone
  <2> QED BY <2>2, <2>3
<1>2. CASE ~JsStep
  <2>1. UNCHANGED uiVars
    BY <1>2 DEF InjectNext, ChainWrite, ChainStep, ChainStore, ChainSignal,
                DrainDefers, DrainOn, DrainWaits, DrainBegins, DrainTakes,
                InjectFrame, InjectInterrupted, Inject, Rearm, Notice, Snapshot,
                ResetIdx, Wipe, injectVars, queueVars
  <2>2. wrapped' = wrapped \/ ChainStore
    BY <1>2 DEF InjectNext, ChainWrite, ChainStep, ChainSignal, DrainDefers,
                DrainOn, DrainWaits, DrainBegins, DrainTakes, InjectFrame,
                InjectInterrupted, Inject, Rearm, injectVars
  <2>3. ~wrapped' => ~wrapped
    BY <2>2 DEF ChainStore
  <2> QED BY <1>2, <2>1, <2>3 DEF BegunInv, Alone, uiVars
<1> QED BY <1>1, <1>2

LEMMA AloneWrites ==
  ASSUME InjectInv, AloneInv, ChainWrite
  PROVE  AloneInv'
<1> USE InjectFacts
<1>1. /\ spi = "idle" /\ drain = "idle" /\ spi' = "store"
      /\ spi_offset' = write_idx /\ chain_sent' = chain_sent + 1
      /\ UNCHANGED <<write_idx, drain, local_buf, delivered>>
      /\ buffer'[write_idx] = ChainPacket
      /\ \A p \in Places : p # write_idx => buffer'[p] = buffer[p]
  BY DEF ChainWrite, SpiFree, drainVars
<1>2. InBuffer = write_idx /\ InBuffer' = write_idx + 1
  BY <1>1 DEF InBuffer
<1>3. /\ Len(delivered) + write_idx = chain_sent
      /\ \A i \in 1 .. write_idx : buffer[i - 1] = Nth(Len(delivered) + i)
  BY <1>1, <1>2 DEF AloneInv
<1>4. ASSUME NEW i \in 1 .. write_idx + 1
      PROVE  buffer'[i - 1] = Nth(Len(delivered) + i)
  <2>1. CASE i = write_idx + 1
    <3>1. i - 1 = write_idx /\ Len(delivered) + i = chain_sent + 1
      BY <1>3, <2>1, SMTT(20)
    <3> QED BY <1>1, <3>1 DEF ChainPacket, Nth
  <2>2. CASE i # write_idx + 1
    <3>1. i \in 1 .. write_idx /\ i - 1 \in Places /\ i - 1 # write_idx
      BY <2>2, QueueAssumption DEF Places
    <3> QED BY <1>1, <1>3, <3>1
  <2> QED BY <2>1, <2>2
<1>5. Len(delivered) + (write_idx + 1) = chain_sent'
  BY <1>1, <1>3
<1> QED BY <1>1, <1>2, <1>4, <1>5 DEF AloneInv

LEMMA AloneStores ==
  ASSUME InjectInv, AloneInv, ChainStore, ~wrapped'
  PROVE  AloneInv'
<1> USE InjectFacts
<1>1. /\ spi = "store" /\ spi' = "signal" /\ spi_offset + 1 # IdxSpan
      /\ write_idx' = (spi_offset + 1) % IdxSpan
      /\ UNCHANGED <<buffer, drain, local_buf, delivered, chain_sent>>
  BY DEF ChainStore, drainVars
<1>2. write_idx' = spi_offset + 1 /\ drain = "idle"
  BY <1>1, WrapsDown DEF InjectInv
<1>3. InBuffer = write_idx + 1 /\ InBuffer' = write_idx + 1
  BY <1>1, <1>2 DEF AloneInv, InBuffer
<1> QED BY <1>1, <1>2, <1>3 DEF AloneInv

LEMMA AloneSnapshot ==
  ASSUME InjectInv, AloneInv, Snapshot, UNCHANGED <<spi, spi_offset, chain_sent>>
  PROVE  AloneInv'
<1> USE InjectFacts
<1>1. /\ drain = "snapshot" /\ drain' = "reset"
      /\ local_buf' = [i \in 1 .. write_idx |-> buffer[i - 1]]
      /\ UNCHANGED <<buffer, write_idx, delivered>>
  BY DEF Snapshot
<1>2. spi = "idle" /\ InBuffer = write_idx
  BY <1>1 DEF InjectInv, InjectTypeOK, InBuffer
<1>3. /\ Len(local_buf') = write_idx
      /\ \A i \in 1 .. write_idx : local_buf'[i] = buffer[i - 1]
  BY <1>1
<1> QED BY <1>1, <1>2, <1>3 DEF AloneInv

LEMMA AloneInject ==
  ASSUME InjectInv, AloneInv, NEW taken \in 0 .. Len(local_buf), Inject(taken)
  PROVE  AloneInv'
<1> USE InjectFacts
<1>1. InjectTypeOK /\ IdxSpan <= Slots
  BY QueueAssumption DEF InjectInv
<1>2. /\ drain = "deliver"
      /\ drain' = "rearm" \/ (drain' = "idle" /\ Len(local_buf') = 0)
      /\ Len(delivered') = Len(delivered) + taken
      /\ \A i \in 1 .. Len(delivered) : delivered'[i] = delivered[i]
      /\ \A i \in 1 .. taken : delivered'[Len(delivered) + i] = local_buf[i]
      /\ local_buf' \in Seq(Packets) /\ Len(local_buf') < IdxSpan
      /\ \A i \in 1 .. Len(local_buf') : local_buf'[i] = local_buf[taken + i]
      /\ \A p \in Places :
           buffer'[p] = IF p < Len(local_buf') THEN local_buf'[p + 1] ELSE buffer[p]
      /\ UNCHANGED <<write_idx, spi, spi_offset, chain_sent>>
  BY <1>1, InjectEffects DEF spiVars
<1>3. Len(local_buf') \in Nat
  BY <1>2
<1>4. taken + Len(local_buf') = Len(local_buf)
  <2>1. Carried(taken) \in Seq(Packets) /\ Len(Carried(taken)) = Len(local_buf) - taken
    BY <1>1, CarriesRest
  <2>2. Carried(taken) = <<>> => Len(Carried(taken)) = 0 /\ Len(local_buf') = 0
    BY DEF Inject
  <2>3. Carried(taken) # <<>> => local_buf' = Carried(taken)
    BY DEF Inject
  <2>4. Len(local_buf') = Len(local_buf) - taken
    BY <2>1, <2>2, <2>3
  <2> QED BY <2>4
<1>5. spi = "idle" /\ write_idx = 0
  BY <1>2 DEF AloneInv, InjectInv, InjectTypeOK
<1>6. /\ Len(delivered) + Len(local_buf) = chain_sent
      /\ \A i \in 1 .. Len(delivered) : delivered[i] = Nth(i)
      /\ \A i \in 1 .. Len(local_buf) : local_buf[i] = Nth(Len(delivered) + i)
  BY <1>2 DEF AloneInv
<1>7. ASSUME NEW i \in 1 .. Len(delivered')
      PROVE  delivered'[i] = Nth(i)
  <2>1. CASE i <= Len(delivered)
    <3>1. i \in 1 .. Len(delivered)
      BY <2>1
    <3> QED BY <1>2, <1>6, <3>1
  <2>2. CASE i > Len(delivered)
    <3> DEFINE k == i - Len(delivered)
    <3>1. k \in 1 .. taken /\ i = Len(delivered) + k
      BY <1>2, <2>2
    <3> HIDE DEF k
    <3>2. k \in 1 .. Len(local_buf)
      BY <3>1
    <3> QED BY <1>2, <1>6, <3>1, <3>2
  <2> QED BY <1>2, <2>1, <2>2
<1>8. Len(delivered') + Len(local_buf') = chain_sent'
  <2>1. chain_sent' = chain_sent /\ Len(delivered') = Len(delivered) + taken
    BY <1>2
  <2> QED BY <1>3, <1>4, <1>6, <2>1
<1>9. ASSUME NEW i \in 1 .. Len(local_buf')
      PROVE  local_buf'[i] = Nth(Len(delivered') + i)
  <2>1. /\ taken + i \in 1 .. Len(local_buf)
        /\ Len(delivered) + (taken + i) = Len(delivered') + i
    BY <1>2, <1>3, <1>4
  <2> QED BY <1>2, <1>6, <2>1
<1>10. ASSUME NEW i \in 1 .. Len(local_buf')
       PROVE  buffer'[i - 1] = local_buf'[i]
  <2>1. i - 1 \in Places /\ i - 1 < Len(local_buf') /\ (i - 1) + 1 = i
    BY <1>1, <1>2, <1>3, QueueAssumption, SMTT(20) DEF Places
  <2> QED BY <1>2, <2>1
<1>11. InBuffer' = 0
  BY <1>2, <1>5 DEF InBuffer
<1>12. drain' = "idle" => Len(delivered') + InBuffer' = chain_sent'
  BY <1>2, <1>8, <1>11
<1> QED
  BY <1>2, <1>5, <1>7, <1>8, <1>9, <1>10, <1>11, <1>12 DEF AloneInv

LEMMA AloneRearms ==
  ASSUME InjectInv, AloneInv, Rearm
  PROVE  AloneInv'
<1> USE InjectFacts
<1>1. /\ drain = "rearm" /\ drain' = "idle" /\ write_idx' = Len(local_buf)
      /\ UNCHANGED <<buffer, delivered, spi, spi_offset, chain_sent>>
  BY DEF Rearm, spiVars
<1>2. spi = "idle" /\ InBuffer' = Len(local_buf)
  BY <1>1 DEF InjectInv, InjectTypeOK, InBuffer
<1> QED BY <1>1, <1>2 DEF AloneInv

LEMMA FifoInvNext ==
  ASSUME InjectInv, FifoInv, [InjectNext]_injectVars
  PROVE  FifoInv'
<1> SUFFICES ASSUME Alone' PROVE AloneInv'
  BY BegunNext DEF FifoInv
<1> USE InjectFacts
<1>1. AloneInv /\ ~JsStep /\ ~wrapped' /\ InjectTypeOK
  BY BegunNext DEF FifoInv, Alone, InjectInv
<1>2. CASE ChainWrite
  BY <1>1, <1>2, AloneWrites
<1>3. CASE ChainStore
  BY <1>1, <1>3, AloneStores
<1>4. CASE ChainSignal \/ DrainDefers \/ DrainWaits \/ UNCHANGED injectVars
  <2>1. /\ spi' = spi \/ (spi = "signal" /\ spi' = "idle")
        /\ UNCHANGED <<buffer, write_idx, local_buf, delivered, drain,
                       spi_offset, chain_sent>>
    BY <1>4 DEF ChainSignal, DrainDefers, DrainWaits, injectVars, queueVars,
                drainVars, spiVars
  <2>2. InBuffer' = InBuffer
    BY <2>1 DEF InBuffer
  <2> QED BY <1>1, <2>1, <2>2 DEF AloneInv
<1>5. CASE DrainBegins
  <2>1. /\ drain = "idle" /\ drain' = "snapshot"
        /\ UNCHANGED <<buffer, write_idx, local_buf, delivered, spi, spi_offset,
                       chain_sent>>
    BY <1>5 DEF DrainBegins, Notice, spiVars
  <2>2. InBuffer' = InBuffer
    BY <2>1 DEF InBuffer
  <2> QED BY <1>1, <2>1, <2>2 DEF AloneInv
<1>6. CASE DrainTakes
  <2>0. UNCHANGED <<spi, spi_offset, chain_sent>>
    BY <1>6 DEF DrainTakes, spiVars
  <2>1. CASE Snapshot
    BY <1>1, <2>0, <2>1, AloneSnapshot
  <2>2. CASE ResetIdx \/ Wipe
    <3>1. /\ drain \in {"reset", "wipe"} /\ drain' \in {"wipe", "deliver"}
          /\ UNCHANGED <<local_buf, delivered>>
          /\ write_idx' = IF drain = "reset" THEN 0 ELSE write_idx
      BY <2>2 DEF ResetIdx, Wipe
    <3>2. spi = "idle"
      BY <3>1 DEF InjectInv, InjectTypeOK
    <3> QED BY <1>1, <2>0, <3>1, <3>2 DEF AloneInv
  <2> QED BY <1>6, <2>1, <2>2 DEF DrainTakes
<1>7. CASE InjectFrame
  <2>1. Fits \in 0 .. Len(local_buf) /\ Inject(Fits)
    BY <1>1, <1>7, FitsInPackets DEF InjectFrame
  <2> QED BY <1>1, <2>1, AloneInject
<1>8. CASE InjectInterrupted
  <2>1. PICK taken \in 0 .. Fits - 1 : Inject(taken)
    BY <1>8 DEF InjectInterrupted
  <2>2. taken \in 0 .. Len(local_buf)
    BY <1>1, <2>1, FitsInPackets
  <2> QED BY <1>1, <2>1, <2>2, AloneInject
<1>9. CASE Rearm
  BY <1>1, <1>9, AloneRearms
<1> QED
  BY <1>1, <1>2, <1>3, <1>4, <1>5, <1>6, <1>7, <1>8, <1>9
  DEF InjectNext, ChainStep, DrainOn

(* As long as the shadow UI does not write and write_idx has not wrapped,  *)
(* the injection is a queue: what has been delivered and what waits, in    *)
(* the drain's copy or in the buffer, are the packets the SPI thread was   *)
(* given, every one and in order, whatever a frame takes and carries over. *)
THEOREM AlwaysFifoUnlessWrapped == InjectSpec => []FifoUnlessWrapped
<1>1. InjectInit => FifoInv
  <2> SUFFICES ASSUME InjectInit PROVE AloneInv
    BY DEF FifoInv, BegunInv, InjectInit, QueueInit
  <2>1. /\ Len(local_buf) = 0 /\ Len(delivered) = 0 /\ drain = "idle"
        /\ spi = "idle" /\ write_idx = 0 /\ chain_sent = 0
    BY DEF InjectInit, QueueInit
  <2>2. InBuffer = 0
    BY <2>1 DEF InBuffer
  <2> QED BY <2>1, <2>2 DEF AloneInv
<1>2. InjectInv /\ FifoInv /\ [InjectNext]_injectVars => FifoInv'
  BY FifoInvNext
<1>3. InjectInv /\ FifoInv => FifoUnlessWrapped
  <2> SUFFICES ASSUME InjectInv, AloneInv
               PROVE  delivered \o Waiting = [i \in 1 .. chain_sent |-> Nth(i)]
    BY DEF FifoInv, Alone, FifoUnlessWrapped, Nth
  <2> USE InjectFacts
  <2> DEFINE w == Waiting
  <2>1. /\ w \in Seq(Packets)
        /\ Len(delivered) + Len(w) = chain_sent
        /\ \A i \in 1 .. Len(w) : w[i] = Nth(Len(delivered) + i)
    <3>1. CASE drain \in {"reset", "wipe", "deliver", "rearm"}
      <4>1. w = local_buf
        <5>1. spi # "store"
          BY <3>1 DEF InjectInv
        <5> QED BY <3>1, <5>1 DEF Waiting
      <4> QED BY <3>1, <4>1 DEF AloneInv
    <3>2. CASE drain \in {"idle", "snapshot"}
      <4>1. w = [i \in 1 .. InBuffer |-> buffer[i - 1]]
        BY <3>2 DEF Waiting, InBuffer
      <4>2. InBuffer \in Nat /\ \A i \in 1 .. InBuffer : i - 1 \in Places
        BY QueueAssumption, SMTT(20) DEF InBuffer, Places
      <4>3. w \in Seq(Packets) /\ Len(w) = InBuffer
        BY <4>1, <4>2
      <4>4. \A i \in 1 .. InBuffer : w[i] = buffer[i - 1]
        BY <4>1
      <4> QED BY <3>2, <4>3, <4>4 DEF AloneInv
    <3> QED BY <3>1, <3>2 DEF InjectInv, InjectTypeOK, QueueTypeOK
  <2> HIDE DEF w
  <2>2. \A i \in 1 .. Len(delivered) : delivered[i] = Nth(i)
    BY DEF AloneInv
  <2> DEFINE all == delivered \o w
  <2>3. /\ all \in Seq(Packets) /\ Len(all) = chain_sent
        /\ \A i \in 1 .. chain_sent :
             all[i] = IF i <= Len(delivered) THEN delivered[i]
                      ELSE w[i - Len(delivered)]
    BY <2>1, ConcatProperties
  <2> HIDE DEF all
  <2>4. ASSUME NEW i \in 1 .. chain_sent
        PROVE  all[i] = Nth(i)
    <3>1. CASE i <= Len(delivered)
      BY <2>2, <2>3, <3>1
    <3>2. CASE i > Len(delivered)
      <4>1. /\ i - Len(delivered) \in 1 .. Len(w)
            /\ Len(delivered) + (i - Len(delivered)) = i
        BY <2>1, <3>2
      <4>2. w[i - Len(delivered)] = Nth(i)
        BY <2>1, <4>1
      <4> QED BY <2>3, <3>2, <4>2
    <3> QED BY <3>1, <3>2
  <2>5. all = [i \in 1 .. chain_sent |-> Nth(i)]
    BY <2>3, <2>4
  <2> QED BY <2>5 DEF all, w
<1> QED
  BY <1>1, <1>2, <1>3, InjectTypeCorrect, PTL DEF InjectSpec

-----------------------------------------------------------------------------
(* The echo filter of a slot in Pre mode: PreEcho. *)

(* A set of numbers has a least one. *)
LEMMA LeastNumber ==
  ASSUME NEW T \in SUBSET Nat, T # {}
  PROVE  \E x \in T : \A y \in T : x <= y
<1> DEFINE R == OpToRel(<, Nat)
<1>1. IsWellFoundedOn(R, Nat)
  BY NatLessThanWellFounded, Zenon
<1>2. \E x \in T : \A y \in T : ~ (<<y, x>> \in R)
  BY <1>1, WFMin, Zenon
<1>3. \A x, y \in Nat : y < x => <<y, x>> \in R
  BY DEF OpToRel
<1> HIDE DEF R
<1>4. PICK x \in T : \A y \in T : ~ (<<y, x>> \in R)
  BY <1>2, Zenon
<1>5. ASSUME NEW y \in T PROVE x <= y
  <2>1. x \in Nat /\ y \in Nat
    OBVIOUS
  <2>2. ~(y < x)
    BY <2>1, <1>3, <1>4, Zenon
  <2> QED
    BY <2>1, <2>2
<1> QED
  BY <1>5

(* Induction over a set of numbers. *)
LEMMA EveryNumber ==
  ASSUME NEW T, 0 \in T, \A n \in Nat : n \in T => n + 1 \in T
  PROVE  Nat \subseteq T
<1> DEFINE C == Nat \ T
<1> SUFFICES ASSUME C # {} PROVE FALSE
  OBVIOUS
<1>1. PICK x \in C : \A y \in C : x <= y
  BY LeastNumber
<1>2. x # 0 /\ x - 1 \in Nat /\ x - 1 \in T
  BY <1>1
<1> QED
  BY <1>1, <1>2

-----------------------------------------------------------------------------
(* Loops. What holds before the first turn and is kept by each turn holds    *)
(* after every turn; and a loop whose turns are functions has a result.      *)

LEMMA EveryTurn ==
  ASSUME NEW N \in Nat, NEW f, NEW G, f[0] \in G[0],
         \A n \in 1 .. N : f[n - 1] \in G[n - 1] => f[n] \in G[n]
  PROVE  \A n \in 0 .. N : f[n] \in G[n]
<1> DEFINE T == {n \in Nat : n <= N => f[n] \in G[n]}
<1>1. 0 \in T
  OBVIOUS
<1>2. ASSUME NEW n \in Nat, n \in T PROVE n + 1 \in T
  <2>1. CASE n + 1 <= N
    <3>1. n + 1 \in 1 .. N /\ (n + 1) - 1 = n /\ n <= N
      BY <2>1
    <3>2. f[n] \in G[n]
      BY <3>1, <1>2
    <3>3. f[n + 1] \in G[n + 1]
      BY <3>1, <3>2
    <3> QED
      BY <3>3
  <2>2. CASE ~(n + 1 <= N)
    BY <2>2
  <2> QED
    BY <2>1, <2>2
<1> HIDE DEF T
<1>3. Nat \subseteq T
  BY <1>1, <1>2, EveryNumber
<1> QED
  BY <1>3 DEF T

(* N turns of a loop over A: what each makes of what it finds. *)
Turns(N, A) == [1 .. N -> [A -> A]]

(* g is the result of a loop of N turns that begins with b and whose turn  *)
(* n applies F[n].                                                         *)
Runs(N, A, b, F, g) ==
  /\ g \in [0 .. N -> A]
  /\ g[0] = b
  /\ \A n \in 1 .. N : g[n] = F[n][g[n - 1]]

(* Such a loop has a result: what a recursive function of the model needs  *)
(* so that its equation may be used.                                       *)
LEMMA TurnsExist ==
  ASSUME NEW N \in Nat, NEW A, NEW b \in A, NEW F \in Turns(N, A)
  PROVE  \E g : Runs(N, A, b, F, g)
<1> USE DEF Turns, Runs
<1> DEFINE Upto(k) == \E g \in [0 .. k -> A] :
                        g[0] = b /\ \A n \in 1 .. k : g[n] = F[n][g[n - 1]]
           T == {k \in Nat : k <= N => Upto(k)}
<1>1. 0 \in T
  <2> DEFINE h == [n \in 0 .. 0 |-> b]
  <2>1. h \in [0 .. 0 -> A] /\ h[0] = b
    OBVIOUS
  <2>3. \A n \in 1 .. 0 : h[n] = F[n][h[n - 1]]
    OBVIOUS
  <2> HIDE DEF h
  <2>2. Upto(0)
    BY <2>1, <2>3
  <2> QED
    BY <2>2
<1>2. ASSUME NEW k \in Nat, k \in T PROVE k + 1 \in T
  <2> SUFFICES ASSUME k + 1 <= N PROVE Upto(k + 1)
    OBVIOUS
  <2>1. Upto(k)
    BY <1>2
  <2>2. PICK g \in [0 .. k -> A] :
          g[0] = b /\ \A n \in 1 .. k : g[n] = F[n][g[n - 1]]
    BY <2>1
  <2> DEFINE h == [n \in 0 .. k + 1 |-> IF n = k + 1 THEN F[k + 1][g[k]] ELSE g[n]]
  <2>3. k + 1 \in 1 .. N /\ k \in 0 .. k
    OBVIOUS
  <2>4. F[k + 1][g[k]] \in A
    BY <2>2, <2>3
  <2>5. h \in [0 .. k + 1 -> A]
    BY <2>2, <2>4
  <2>6. h[0] = b
    BY <2>2
  <2>7. ASSUME NEW n \in 1 .. k + 1 PROVE h[n] = F[n][h[n - 1]]
    <3>1. n - 1 \in 0 .. k + 1 /\ n - 1 # k + 1 /\ n - 1 <= k /\ n \in 0 .. k + 1
      BY <2>7
    <3>2. h[n - 1] = g[n - 1]
      BY <3>1
    <3>3. CASE n = k + 1
      <4>1. h[n] = F[k + 1][g[k]] /\ n - 1 = k
        BY <3>1, <3>3
      <4> QED
        BY <4>1, <3>2, <3>3
    <3>4. CASE n # k + 1
      <4>1. n \in 1 .. k /\ h[n] = g[n]
        BY <3>1, <3>4
      <4> QED
        BY <4>1, <3>2, <2>2
    <3> QED
      BY <3>3, <3>4
  <2> HIDE DEF h
  <2> QED
    BY <2>5, <2>6, <2>7
<1> HIDE DEF T
<1>3. Nat \subseteq T
  BY <1>1, <1>2, EveryNumber
<1>4. N \in T
  BY <1>3
<1> QED
  BY <1>4 DEF T

-----------------------------------------------------------------------------
(* Counting in sequences *)

(* The places of e among the first n of s. *)
PlacesOf(s, n, e) == {i \in 1 .. n : s[i] = e}

(* A count is the size of a finite set of places. *)
LEMMA PlacesFinite ==
  ASSUME NEW s, NEW n \in Nat, NEW e
  PROVE  /\ IsFiniteSet(PlacesOf(s, n, e))
         /\ Among(s, n, e) = Cardinality(PlacesOf(s, n, e))
         /\ Among(s, n, e) \in 0 .. n
         /\ Among(s, n, e) = 0 <=> \A i \in 1 .. n : s[i] # e
<1>1. IsFiniteSet(1 .. n) /\ Cardinality(1 .. n) = n
  BY FS_Interval
<1>2. PlacesOf(s, n, e) \in SUBSET (1 .. n)
  BY DEF PlacesOf
<1>3. /\ IsFiniteSet(PlacesOf(s, n, e))
      /\ Cardinality(PlacesOf(s, n, e)) <= n
  BY <1>1, <1>2, FS_Subset
<1>4. Cardinality(PlacesOf(s, n, e)) \in Nat
  BY <1>3, FS_CardinalityType
<1>5. Among(s, n, e) = Cardinality(PlacesOf(s, n, e))
  BY DEF Among, PlacesOf
<1>6. Cardinality(PlacesOf(s, n, e)) = 0 <=> PlacesOf(s, n, e) = {}
  BY <1>3, FS_EmptySet
<1> QED
  BY <1>3, <1>4, <1>5, <1>6 DEF PlacesOf

(* One more element. *)
LEMMA AmongNext ==
  ASSUME NEW s, NEW n \in Nat, NEW e
  PROVE  /\ Among(s, 0, e) = 0
         /\ Among(s, n + 1, e) = Among(s, n, e) + (IF s[n + 1] = e THEN 1 ELSE 0)
<1>1. Among(s, 0, e) = 0
  BY PlacesFinite
<1>2. IsFiniteSet(PlacesOf(s, n, e)) /\ Among(s, n, e) \in Nat
  BY PlacesFinite
<1>3. CASE s[n + 1] = e
  <2>1. PlacesOf(s, n + 1, e) = PlacesOf(s, n, e) \cup {n + 1}
    BY <1>3 DEF PlacesOf
  <2>2. n + 1 \notin PlacesOf(s, n, e)
    BY DEF PlacesOf
  <2>3. Cardinality(PlacesOf(s, n + 1, e)) = Cardinality(PlacesOf(s, n, e)) + 1
    BY <1>2, <2>1, <2>2, FS_AddElement
  <2> QED
    BY <1>1, <1>3, <2>3, PlacesFinite
<1>4. CASE s[n + 1] # e
  <2>1. PlacesOf(s, n + 1, e) = PlacesOf(s, n, e)
    BY <1>4 DEF PlacesOf
  <2> QED
    BY <1>1, <1>2, <1>4, <2>1, PlacesFinite
<1> QED
  BY <1>3, <1>4

(* What agrees as far as it is counted has the same count. *)
LEMMA AmongSame ==
  ASSUME NEW s, NEW t, NEW n \in Nat, NEW e, \A i \in 1 .. n : s[i] = t[i]
  PROVE  Among(s, n, e) = Among(t, n, e)
<1>1. PlacesOf(s, n, e) = PlacesOf(t, n, e)
  BY DEF PlacesOf
<1> QED
  BY <1>1, PlacesFinite

(* The count in a concatenation is the sum of the two. *)
LEMMA OccursConcat ==
  ASSUME NEW A, NEW s \in Seq(A), NEW t \in Seq(A), NEW e
  PROVE  Occurs(s \o t, e) = Occurs(s, e) + Occurs(t, e)
<1> DEFINE u == s \o t
           One(n) == IF t[n] = e THEN 1 ELSE 0
<1>1. /\ Len(s) \in Nat /\ Len(t) \in Nat /\ Len(u) = Len(s) + Len(t)
      /\ \A i \in 1 .. Len(s) : u[i] = s[i]
      /\ \A i \in 1 .. Len(t) : u[Len(s) + i] = t[i]
  OBVIOUS
<1> HIDE DEF u
<1>2. Occurs(s, e) \in Nat /\ \A n \in 0 .. Len(t) : Among(t, n, e) \in Nat
  BY <1>1, PlacesFinite DEF Occurs
<1>3. ASSUME NEW n \in 0 .. Len(t) PROVE Among(u, Len(s) + n, e) \in Nat
  <2>1. PICK k \in Nat : k = Len(s) + n
    BY <1>1
  <2>2. Among(u, k, e) \in 0 .. k
    BY PlacesFinite
  <2> QED
    BY <2>1, <2>2
<1>4. Among(u, Len(s) + 0, e) = Occurs(s, e) + Among(t, 0, e)
  <2>1. Among(u, Len(s), e) = Occurs(s, e)
    BY <1>1, AmongSame DEF Occurs
  <2>2. Among(t, 0, e) = 0
    BY AmongNext
  <2>3. Len(s) + 0 = Len(s)
    BY <1>1
  <2> QED
    BY <1>2, <2>1, <2>2, <2>3
<1>5. ASSUME NEW n \in 1 .. Len(t),
             Among(u, Len(s) + (n - 1), e) = Occurs(s, e) + Among(t, n - 1, e)
      PROVE  Among(u, Len(s) + n, e) = Occurs(s, e) + Among(t, n, e)
  <2>1. n - 1 \in 0 .. Len(t) /\ n \in 0 .. Len(t) /\ n - 1 \in Nat
    BY <1>1
  <2>2. Among(t, n, e) = Among(t, n - 1, e) + One(n)
    <3>1. (n - 1) + 1 = n
      BY <2>1
    <3> QED
      BY <2>1, <3>1, AmongNext
  <2>3. Among(u, Len(s) + n, e) = Among(u, Len(s) + (n - 1), e) + One(n)
    <3>1. Len(s) + (n - 1) \in Nat /\ (Len(s) + (n - 1)) + 1 = Len(s) + n
      BY <1>1, <2>1
    <3>2. u[Len(s) + n] = t[n]
      BY <1>1
    <3>3. Among(u, (Len(s) + (n - 1)) + 1, e)
            = Among(u, Len(s) + (n - 1), e)
                + (IF u[(Len(s) + (n - 1)) + 1] = e THEN 1 ELSE 0)
      BY <3>1, AmongNext
    <3> QED
      BY <3>1, <3>2, <3>3
  <2>4. One(n) \in Nat /\ Among(t, n - 1, e) \in Nat
    BY <1>2, <2>1
  <2> HIDE DEF One
  <2> QED
    BY <1>2, <1>5, <2>2, <2>3, <2>4
<1> DEFINE f == [n \in 0 .. Len(t) |-> Among(u, Len(s) + n, e)]
           G == [n \in 0 .. Len(t) |-> {Occurs(s, e) + Among(t, n, e)}]
<1>6. /\ \A n \in 0 .. Len(t) : f[n] \in G[n] <=>
           Among(u, Len(s) + n, e) = Occurs(s, e) + Among(t, n, e)
      /\ 0 \in 0 .. Len(t)
      /\ \A n \in 1 .. Len(t) : n \in 0 .. Len(t) /\ n - 1 \in 0 .. Len(t)
  BY <1>1
<1> HIDE DEF f, G
<1>7. f[0] \in G[0]
  BY <1>4, <1>6
<1>8. \A n \in 1 .. Len(t) : f[n - 1] \in G[n - 1] => f[n] \in G[n]
  BY <1>5, <1>6
<1>9. \A n \in 0 .. Len(t) : f[n] \in G[n]
  BY <1>1, <1>7, <1>8, EveryTurn
<1>10. Len(t) \in 0 .. Len(t)
  BY <1>1
<1>11. Among(u, Len(s) + Len(t), e) = Occurs(s, e) + Among(t, Len(t), e)
  BY <1>6, <1>9, <1>10
<1> QED
  BY <1>1, <1>11 DEF Occurs, u

(* A sequence of one. *)
LEMMA OccursOne ==
  ASSUME NEW x, NEW e
  PROVE  Occurs(<<x>>, e) = IF x = e THEN 1 ELSE 0
<1>1. Among(<<x>>, 0, e) = 0
  BY AmongNext
<1>2. Among(<<x>>, 0 + 1, e) = Among(<<x>>, 0, e) + (IF <<x>>[0 + 1] = e THEN 1 ELSE 0)
  BY AmongNext
<1>3. 0 + 1 = 1 /\ Len(<<x>>) = 1 /\ <<x>>[1] = x
  OBVIOUS
<1>4. Among(<<x>>, 1, e) = 0 + (IF x = e THEN 1 ELSE 0)
  BY <1>1, <1>2, <1>3
<1> QED
  BY <1>3, <1>4 DEF Occurs

(* A count is no more than the length, and 0 of what is nowhere. *)
LEMMA OccursFacts ==
  ASSUME NEW A, NEW s \in Seq(A), NEW e
  PROVE  /\ Occurs(s, e) \in 0 .. Len(s)
         /\ Occurs(s, e) = 0 <=> \A i \in 1 .. Len(s) : s[i] # e
<1>1. Len(s) \in Nat
  OBVIOUS
<1> QED
  BY <1>1, PlacesFinite DEF Occurs

(* In the empty sequence there is nothing to count. *)
LEMMA OccursNone ==
  ASSUME NEW e
  PROVE  Occurs(<<>>, e) = 0
<1>1. Len(<<>>) = 0
  OBVIOUS
<1> QED
  BY <1>1, AmongNext DEF Occurs

(* One more at the end. *)
LEMMA OccursAppend ==
  ASSUME NEW A, NEW s \in Seq(A), NEW x \in A, NEW e
  PROVE  Occurs(Append(s, x), e) = Occurs(s, e) + (IF x = e THEN 1 ELSE 0)
<1>1. <<x>> \in Seq(A) /\ Append(s, x) = s \o <<x>>
  BY AppendIsConcat
<1>2. Occurs(s \o <<x>>, e) = Occurs(s, e) + Occurs(<<x>>, e)
  BY <1>1, OccursConcat
<1> QED
  BY <1>1, <1>2, OccursOne

(* One less at the front. *)
LEMMA OccursTail ==
  ASSUME NEW A, NEW s \in Seq(A), s # <<>>, NEW e
  PROVE  Occurs(s, e) = (IF Head(s) = e THEN 1 ELSE 0) + Occurs(Tail(s), e)
<1>1. Tail(s) \in Seq(A) /\ <<Head(s)>> \in Seq(A)
  OBVIOUS
<1>2. s = <<Head(s)>> \o Tail(s)
  <2> DEFINE u == <<Head(s)>> \o Tail(s)
  <2>1. u \in Seq(A) /\ Len(u) = 1 + (Len(s) - 1)
    BY <1>1
  <2>2. Len(s) \in Nat /\ Len(u) = Len(s)
    BY <2>1
  <2>3. ASSUME NEW i \in 1 .. Len(s) PROVE u[i] = s[i]
    OBVIOUS
  <2> HIDE DEF u
  <2>4. u = s
    BY <2>1, <2>2, <2>3, SeqEqual
  <2> QED
    BY <2>4 DEF u
<1>3. Occurs(<<Head(s)>> \o Tail(s), e) = Occurs(<<Head(s)>>, e) + Occurs(Tail(s), e)
  BY <1>1, OccursConcat
<1> QED
  BY <1>2, <1>3, OccursOne

(* The loops that leave out events, unfolded. *)
Keeps(A, s, S, kept) ==
  /\ kept[0] = <<>>
  /\ \A n \in 0 .. Len(s) : kept[n] \in Seq(A)
  /\ \A n \in 1 .. Len(s) :
       kept[n] = IF s[n] \in S THEN Append(kept[n - 1], s[n]) ELSE kept[n - 1]
  /\ Only(s, S) = kept[Len(s)]

(* The loop has its turns: the recursive function of Only is defined. *)
LEMMA OnlyTurns ==
  ASSUME NEW A, NEW s \in Seq(A), NEW S
  PROVE  \E kept : Keeps(A, s, S, kept)
<1> DEFINE N == Len(s)
           Turn(n, a) == IF s[n] \in S THEN Append(a, s[n]) ELSE a
           F == [n \in 1 .. N |-> [a \in Seq(A) |-> Turn(n, a)]]
<1>1. N \in Nat /\ \A n \in 1 .. N : s[n] \in A
  OBVIOUS
<1>2. <<>> \in Seq(A)
  OBVIOUS
<1>3. F \in Turns(N, Seq(A))
  <2>1. \A n \in 1 .. N : \A a \in Seq(A) : Turn(n, a) \in Seq(A)
    BY <1>1
  <2> QED
    BY <2>1 DEF Turns
<1> HIDE DEF F
<1>4. PICK g : Runs(N, Seq(A), <<>>, F, g)
  BY <1>1, <1>2, <1>3, TurnsExist
<1>5. \A n \in 0 .. N : g[n] \in Seq(A)
  BY <1>4 DEF Runs
<1>6. \A n \in 1 .. N : g[n] = Turn(n, g[n - 1])
  <2> TAKE n \in 1 .. N
  <2>1. n - 1 \in 0 .. N
    BY <1>1
  <2>2. g[n - 1] \in Seq(A)
    BY <2>1, <1>5
  <2>3. F[n] = [a \in Seq(A) |-> Turn(n, a)]
    BY DEF F
  <2> QED
    BY <2>2, <2>3, <1>4 DEF Runs
<1> DEFINE Step(f) == [n \in 0 .. N |->
                         IF n = 0 THEN <<>>
                         ELSE IF s[n] \in S THEN Append(f[n - 1], s[n])
                         ELSE f[n - 1]]
<1>7. g = Step(g)
  <2>1. ASSUME NEW n \in 0 .. N PROVE g[n] = Step(g)[n]
    <3>1. CASE n = 0
      BY <1>4, <3>1 DEF Runs
    <3>2. CASE n # 0
      <4>1. n \in 1 .. N
        BY <1>1, <3>2
      <4>2. g[n] = Turn(n, g[n - 1])
        BY <1>6, <4>1
      <4> QED
        BY <3>2, <4>2
    <3> QED
      BY <3>1, <3>2
  <2> QED
    BY <2>1, <1>4 DEF Runs
<1> DEFINE f == CHOOSE f : f = Step(f)
<1>8. f = Step(f)
  BY <1>7
<1>9. Only(s, S) = f[Len(s)]
  BY DEF Only
<1> HIDE DEF f
<1>10. f[0] = <<>>
  BY <1>1, <1>8
<1>11. \A n \in 1 .. N : f[n] = Turn(n, f[n - 1])
  <2> TAKE n \in 1 .. N
  <2>1. n \in 0 .. N /\ n # 0
    BY <1>1
  <2>2. f[n] = Step(f)[n]
    BY <1>8
  <2>3. Step(f)[n] = Turn(n, f[n - 1])
    BY <2>1
  <2> QED
    BY <2>2, <2>3
<1>12. \A n \in 0 .. N : f[n] \in Seq(A)
  <2> DEFINE G == [n \in 0 .. N |-> Seq(A)]
  <2>1. f[0] \in G[0]
    BY <1>1, <1>10
  <2>2. ASSUME NEW n \in 1 .. N, f[n - 1] \in G[n - 1]
        PROVE  f[n] \in G[n]
    <3>1. n - 1 \in 0 .. N /\ n \in 0 .. N
      BY <1>1
    <3>2. f[n - 1] \in Seq(A)
      BY <3>1, <2>2
    <3>3. Turn(n, f[n - 1]) \in Seq(A)
      BY <3>2, <1>1
    <3> QED
      BY <3>1, <3>3, <1>11
  <2> HIDE DEF G
  <2>3. \A n \in 0 .. N : f[n] \in G[n]
    BY <1>1, <2>1, <2>2, EveryTurn
  <2> QED
    BY <2>3 DEF G
<1> QED
  BY <1>9, <1>10, <1>11, <1>12 DEF Keeps

(* What they leave: as often as before what is in S, and nothing else.     *)
LEMMA OnlyFacts ==
  ASSUME NEW A, NEW s \in Seq(A), NEW S
  PROVE  /\ Only(s, S) \in Seq(A)
         /\ \A e : Occurs(Only(s, S), e) = IF e \in S THEN Occurs(s, e) ELSE 0
<1>1. PICK kept : Keeps(A, s, S, kept)
  BY OnlyTurns
<1> USE <1>1 DEF Keeps
<1>2. Len(s) \in Nat /\ \A n \in 1 .. Len(s) : s[n] \in A
  OBVIOUS
<1>3. ASSUME NEW e
      PROVE  Occurs(Only(s, S), e) = IF e \in S THEN Occurs(s, e) ELSE 0
  <2> DEFINE In(n) == IF e \in S THEN Among(s, n, e) ELSE 0
  <2>1. \A n \in 0 .. Len(s) : Occurs(kept[n], e) \in Nat /\ In(n) \in Nat
    <3> TAKE n \in 0 .. Len(s)
    <3>1. kept[n] \in Seq(A) /\ n \in Nat
      BY <1>1
    <3>2. Occurs(kept[n], e) \in 0 .. Len(kept[n])
      BY <3>1, OccursFacts
    <3>3. Among(s, n, e) \in 0 .. n
      BY <3>1, PlacesFinite
    <3> QED
      BY <3>1, <3>2, <3>3
  <2>2. Occurs(kept[0], e) = In(0)
    BY <1>1, OccursNone, AmongNext
  <2>3. ASSUME NEW n \in 1 .. Len(s), Occurs(kept[n - 1], e) = In(n - 1)
        PROVE  Occurs(kept[n], e) = In(n)
    <3>1. PICK k \in Nat : k = n - 1
      BY <1>2
    <3>2. n = k + 1 /\ k \in 0 .. Len(s) /\ n \in 1 .. Len(s)
      BY <1>2, <3>1
    <3>3. kept[k] \in Seq(A) /\ s[k + 1] \in A
      BY <1>1, <1>2, <3>2
    <3>4. Among(s, k + 1, e) = Among(s, k, e) + (IF s[k + 1] = e THEN 1 ELSE 0)
      BY AmongNext
    <3>5. Occurs(Append(kept[k], s[k + 1]), e)
            = Occurs(kept[k], e) + (IF s[k + 1] = e THEN 1 ELSE 0)
      BY <3>3, OccursAppend
    <3>6. kept[n] = IF s[n] \in S THEN Append(kept[n - 1], s[n]) ELSE kept[n - 1]
      BY <1>1
    <3>7. kept[k + 1] = IF s[k + 1] \in S THEN Append(kept[k], s[k + 1])
                        ELSE kept[k]
      BY <3>1, <3>2, <3>6
    <3>8. Occurs(kept[k], e) = In(k)
      BY <2>3, <3>1
    <3>9. Occurs(kept[k], e) \in Nat /\ Among(s, k, e) \in Nat
      <4>1. Among(s, k, e) \in 0 .. k
        BY PlacesFinite
      <4> QED
        BY <2>1, <3>2, <4>1
    <3>10. CASE s[k + 1] = e /\ e \in S
      BY <3>2, <3>4, <3>5, <3>7, <3>8, <3>9, <3>10
    <3>11. CASE ~(s[k + 1] = e /\ e \in S)
      <4>1. Occurs(kept[k + 1], e) = Occurs(kept[k], e)
        BY <3>5, <3>7, <3>9, <3>11
      <4>2. In(k + 1) = In(k)
        BY <3>4, <3>9, <3>11
      <4> QED
        BY <3>2, <3>8, <4>1, <4>2
    <3> QED
      BY <3>10, <3>11
  <2> DEFINE f == [n \in 0 .. Len(s) |-> Occurs(kept[n], e)]
             G == [n \in 0 .. Len(s) |-> {In(n)}]
  <2>4. /\ \A n \in 0 .. Len(s) : f[n] \in G[n] <=> Occurs(kept[n], e) = In(n)
        /\ 0 \in 0 .. Len(s)
        /\ \A n \in 1 .. Len(s) : n \in 0 .. Len(s) /\ n - 1 \in 0 .. Len(s)
    BY <1>2
  <2> HIDE DEF f, G, In
  <2>5. f[0] \in G[0]
    BY <2>2, <2>4
  <2>6. \A n \in 1 .. Len(s) : f[n - 1] \in G[n - 1] => f[n] \in G[n]
    BY <2>3, <2>4
  <2>7. \A n \in 0 .. Len(s) : f[n] \in G[n]
    BY <1>2, <2>5, <2>6, EveryTurn
  <2>8. Len(s) \in 0 .. Len(s)
    BY <1>2
  <2> QED
    BY <1>1, <2>4, <2>7, <2>8 DEF In, Occurs
<1>4. Only(s, S) \in Seq(A)
  BY <1>1, <1>2
<1> QED
  BY <1>3, <1>4

-----------------------------------------------------------------------------
(* What a count of the filter stands for: the releases of n on their way,    *)
(* and the voices of n that are open, whose releases are still to come.      *)

Answered(n, q, open) ==
  \A j \in 1 .. Len(q) :
    q[j] = On(n) => open # {} \/ \E k \in j + 1 .. Len(q) : q[k] = Off(n)

(* The count is right, and no note-on is on its way without a release. *)
Balanced(n, q, open, count) ==
  /\ count = Occurs(q, Off(n)) + Cardinality(open)
  /\ Answered(n, q, open)

(* The voices of a chord, some of them. *)
VoiceSets == SUBSET (1 .. Len(Chord))

(* A set of voices can be counted. *)
LEMMA VoiceSetsFinite ==
  ASSUME NEW I \in VoiceSets
  PROVE  /\ IsFiniteSet(I) /\ Cardinality(I) \in 0 .. Len(Chord)
         /\ Cardinality(I) = 0 <=> I = {}
<1>1. Len(Chord) \in Nat
  BY EchoAssumption
<1>2. IsFiniteSet(1 .. Len(Chord)) /\ Cardinality(1 .. Len(Chord)) = Len(Chord)
  <2>1. PICK k \in Nat : k = Len(Chord)
    BY <1>1
  <2>2. /\ IsFiniteSet(1 .. k)
        /\ Cardinality(1 .. k) = IF 1 > k THEN 0 ELSE k - 1 + 1
    BY FS_Interval
  <2> QED
    BY <2>1, <2>2
<1>3. IsFiniteSet(I) /\ Cardinality(I) <= Len(Chord)
  BY <1>2, FS_Subset DEF VoiceSets
<1>4. Cardinality(I) \in Nat
  BY <1>3, FS_CardinalityType
<1> QED
  BY <1>1, <1>3, <1>4, FS_EmptySet

(* Events of two kinds, or of two pitches, are two events. *)
LEMMA OnIsNotOff ==
  ASSUME NEW n, NEW m
  PROVE  /\ On(n) # Off(m)
         /\ On(n) = On(m) <=> n = m
         /\ Off(n) = Off(m) <=> n = m
<1>1. On(n).on = TRUE /\ Off(m).on = FALSE /\ On(n).note = n /\ On(m).note = m
      /\ Off(n).note = n /\ Off(m).note = m
  BY DEF On, Off
<1> QED
  BY <1>1

(* The filter's count has room for all that may be on its way.             *)
LEMMA BalancedBound ==
  ASSUME NEW n, NEW q \in Seq(Events), NEW open \in VoiceSets, NEW c,
         Balanced(n, q, open, c)
  PROVE  c \in 0 .. Len(q) + Len(Chord)
<1>1. Occurs(q, Off(n)) \in 0 .. Len(q)
  BY OccursFacts
<1>2. Cardinality(open) \in 0 .. Len(Chord)
  BY VoiceSetsFinite
<1>3. Len(q) \in Nat /\ Len(Chord) \in Nat
  BY EchoAssumption
<1> QED
  BY <1>1, <1>2, <1>3 DEF Balanced

(* Voices of n are injected: they become open. *)
LEMMA BalancedOn ==
  ASSUME NEW n, NEW q \in Seq(Events), NEW s \in Seq(Events),
         NEW open \in VoiceSets, NEW I \in VoiceSets, I \cap open = {}, NEW c,
         Balanced(n, q, open, c),
         Occurs(s, Off(n)) = 0, Occurs(s, On(n)) = Cardinality(I)
  PROVE  Balanced(n, q \o s, open \cup I, c + Occurs(s, On(n)))
<1>1. Occurs(q \o s, Off(n)) = Occurs(q, Off(n))
  <2>1. Occurs(q \o s, Off(n)) = Occurs(q, Off(n)) + Occurs(s, Off(n))
    BY OccursConcat
  <2>2. Occurs(q, Off(n)) \in 0 .. Len(q) /\ Len(q) \in Nat
    BY OccursFacts
  <2> QED
    BY <2>1, <2>2
<1>2. Cardinality(open \cup I) = Cardinality(open) + Cardinality(I)
  <2>1. /\ IsFiniteSet(open) /\ IsFiniteSet(I)
        /\ Cardinality(open) \in Nat /\ Cardinality(I) \in Nat
    BY VoiceSetsFinite, EchoAssumption
  <2>2. open \cap I = {}
    OBVIOUS
  <2>3. Cardinality(open \cup I)
          = Cardinality(open) + Cardinality(I) - Cardinality(open \cap I)
    BY <2>1, FS_Union
  <2>4. Cardinality(open \cap I) = 0
    BY <2>2, FS_EmptySet
  <2> QED
    BY <2>1, <2>3, <2>4
<1>3. Answered(n, q \o s, open \cup I)
  <2> DEFINE u == q \o s
  <2>1. /\ Len(q) \in Nat /\ Len(s) \in Nat /\ Len(u) = Len(q) + Len(s)
        /\ \A i \in 1 .. Len(q) : u[i] = q[i]
        /\ \A i \in 1 .. Len(s) : u[Len(q) + i] = s[i]
    OBVIOUS
  <2> HIDE DEF u
  <2> SUFFICES ASSUME NEW j \in 1 .. Len(u), u[j] = On(n)
               PROVE  open \cup I # {} \/ \E k \in j + 1 .. Len(u) : u[k] = Off(n)
    BY DEF Answered, u
  <2>2. CASE j <= Len(q)
    <3>1. j \in 1 .. Len(q) /\ q[j] = On(n)
      BY <2>1, <2>2
    <3>2. open # {} \/ \E k \in j + 1 .. Len(q) : q[k] = Off(n)
      BY <3>1 DEF Balanced, Answered
    <3>3. ASSUME NEW k \in j + 1 .. Len(q), q[k] = Off(n)
          PROVE  k \in j + 1 .. Len(u) /\ u[k] = Off(n)
      BY <2>1, <3>1, <3>3
    <3> QED
      BY <3>2, <3>3
  <2>3. CASE j > Len(q)
    <3>1. PICK i \in 1 .. Len(s) : j = Len(q) + i
      <4>1. j - Len(q) \in 1 .. Len(s) /\ j = Len(q) + (j - Len(q))
        BY <2>1, <2>3
      <4> QED
        BY <4>1
    <3>2. s[i] = On(n)
      BY <2>1, <3>1
    <3>3. Occurs(s, On(n)) # 0
      BY <3>2, OccursFacts
    <3>4. I # {}
      BY <3>3, VoiceSetsFinite
    <3> QED
      BY <3>4
  <2> QED
    BY <2>1, <2>2, <2>3
<1>4. /\ Occurs(q, Off(n)) \in Nat /\ Cardinality(open) \in Nat
      /\ Cardinality(I) \in Nat
  <2>1. Occurs(q, Off(n)) \in 0 .. Len(q) /\ Len(q) \in Nat
    BY OccursFacts
  <2>2. Cardinality(open) \in Nat /\ Cardinality(I) \in Nat
    BY VoiceSetsFinite, EchoAssumption
  <2> QED
    BY <2>1, <2>2
<1>5. c + Occurs(s, On(n)) = Occurs(q \o s, Off(n)) + Cardinality(open \cup I)
  <2>1. c = Occurs(q, Off(n)) + Cardinality(open)
    BY DEF Balanced
  <2> QED
    BY <2>1, <1>1, <1>2, <1>4
<1> QED
  BY <1>3, <1>5 DEF Balanced

(* Releases of n are injected: open voices become releases on their way. *)
LEMMA BalancedOff ==
  ASSUME NEW n, NEW q \in Seq(Events), NEW s \in Seq(Events),
         NEW open \in VoiceSets, NEW I \in SUBSET open, NEW c,
         Balanced(n, q, open, c),
         Occurs(s, On(n)) = 0, Occurs(s, Off(n)) = Cardinality(I)
  PROVE  Balanced(n, q \o s, open \ I, c)
<1>1. Occurs(q \o s, Off(n)) = Occurs(q, Off(n)) + Cardinality(I)
  BY OccursConcat
<1>0. I \in VoiceSets /\ open \ I \in VoiceSets
  BY DEF VoiceSets
<1>2. Cardinality(open \ I) = Cardinality(open) - Cardinality(I)
  <2>1. IsFiniteSet(open)
    BY VoiceSetsFinite
  <2>2. open \cap I = I
    OBVIOUS
  <2>3. Cardinality(open \ I) = Cardinality(open) - Cardinality(open \cap I)
    BY <2>1, FS_Difference
  <2> QED
    BY <2>2, <2>3
<1>3. Answered(n, q \o s, open \ I)
  <2> DEFINE u == q \o s
  <2>1. /\ Len(q) \in Nat /\ Len(s) \in Nat /\ Len(u) = Len(q) + Len(s)
        /\ \A i \in 1 .. Len(q) : u[i] = q[i]
        /\ \A i \in 1 .. Len(s) : u[Len(q) + i] = s[i]
    OBVIOUS
  <2> HIDE DEF u
  <2> SUFFICES ASSUME NEW j \in 1 .. Len(u), u[j] = On(n)
               PROVE  open \ I # {} \/ \E k \in j + 1 .. Len(u) : u[k] = Off(n)
    BY DEF Answered, u
  <2>2. CASE j <= Len(q)
    <3>1. j \in 1 .. Len(q) /\ q[j] = On(n)
      BY <2>1, <2>2
    <3>2. open # {} \/ \E k \in j + 1 .. Len(q) : q[k] = Off(n)
      BY <3>1 DEF Balanced, Answered
    <3>3. ASSUME NEW k \in j + 1 .. Len(q), q[k] = Off(n)
          PROVE  k \in j + 1 .. Len(u) /\ u[k] = Off(n)
      BY <2>1, <3>1, <3>3
    <3>4. CASE open # {} /\ open \ I = {}
      <4>1. I # {}
        BY <3>4
      <4>2. Occurs(s, Off(n)) # 0
        BY <1>0, <4>1, VoiceSetsFinite
      <4>3. PICK i \in 1 .. Len(s) : s[i] = Off(n)
        BY <4>2, OccursFacts
      <4>4. Len(q) + i \in j + 1 .. Len(u) /\ u[Len(q) + i] = Off(n)
        BY <2>1, <3>1, <4>3
      <4> QED
        BY <4>4
    <3> QED
      BY <3>2, <3>3, <3>4
  <2>3. CASE j > Len(q)
    <3>1. PICK i \in 1 .. Len(s) : j = Len(q) + i
      <4>1. j - Len(q) \in 1 .. Len(s) /\ j = Len(q) + (j - Len(q))
        BY <2>1, <2>3
      <4> QED
        BY <4>1
    <3>2. s[i] = On(n)
      BY <2>1, <3>1
    <3> QED
      BY <3>2, OccursFacts
  <2> QED
    BY <2>1, <2>2, <2>3
<1>4. /\ Occurs(q, Off(n)) \in Nat /\ Cardinality(open) \in Nat
      /\ Cardinality(I) \in Nat
  <2>1. Occurs(q, Off(n)) \in 0 .. Len(q) /\ Len(q) \in Nat
    BY OccursFacts
  <2>2. Cardinality(open) \in Nat /\ Cardinality(I) \in Nat
    BY <1>0, VoiceSetsFinite, EchoAssumption
  <2> QED
    BY <2>1, <2>2
<1>5. c = Occurs(q \o s, Off(n)) + Cardinality(open \ I)
  <2>1. c = Occurs(q, Off(n)) + Cardinality(open)
    BY DEF Balanced
  <2> QED
    BY <2>1, <1>1, <1>2, <1>4
<1> QED
  BY <1>3, <1>5 DEF Balanced

(* The next event is echoed: whatever it is, the count knows of it, and a  *)
(* release takes itself off the count.                                     *)
LEMMA BalancedHead ==
  ASSUME NEW n, NEW q \in Seq(Events), q # <<>>, NEW open \in VoiceSets, NEW c,
         Balanced(n, q, open, c)
  PROVE  /\ Head(q) = On(n) => c > 0
         /\ Head(q) = Off(n) => c > 0 /\ Balanced(n, Tail(q), open, c - 1)
         /\ Head(q) # Off(n) => Balanced(n, Tail(q), open, c)
<1> DEFINE t == Tail(q)
<1>1. /\ Len(q) \in Nat /\ Len(q) > 0 /\ Len(t) = Len(q) - 1 /\ t \in Seq(Events)
      /\ \A i \in 1 .. Len(t) : t[i] = q[i + 1]
      /\ Head(q) = q[1]
  OBVIOUS
<1>2. Occurs(q, Off(n)) = (IF Head(q) = Off(n) THEN 1 ELSE 0) + Occurs(t, Off(n))
  BY OccursTail
<1> HIDE DEF t
<1>3. Occurs(t, Off(n)) \in Nat
  BY <1>1, OccursFacts
<1>4. Cardinality(open) \in Nat /\ (Cardinality(open) = 0 <=> open = {})
  BY VoiceSetsFinite, EchoAssumption
<1>5. c = Occurs(q, Off(n)) + Cardinality(open)
  BY DEF Balanced
<1>6. Answered(n, t, open)
  <2> SUFFICES ASSUME NEW j \in 1 .. Len(t), t[j] = On(n), open = {}
               PROVE  \E k \in j + 1 .. Len(t) : t[k] = Off(n)
    BY DEF Answered
  <2>1. j + 1 \in 1 .. Len(q) /\ q[j + 1] = On(n)
    BY <1>1
  <2>2. PICK k \in (j + 1) + 1 .. Len(q) : q[k] = Off(n)
    BY <2>1 DEF Balanced, Answered
  <2>3. k - 1 \in j + 1 .. Len(t) /\ (k - 1) + 1 = k
    BY <1>1
  <2>4. k - 1 \in 1 .. Len(t)
    BY <1>1, <2>3
  <2>5. t[k - 1] = Off(n)
    BY <1>1, <2>2, <2>3, <2>4
  <2> QED
    BY <2>3, <2>5
<1>7. ASSUME Head(q) = On(n) PROVE c > 0
  <2>1. 1 \in 1 .. Len(q) /\ q[1] = On(n)
    BY <1>1, <1>7
  <2>2. open # {} \/ \E k \in 1 + 1 .. Len(q) : q[k] = Off(n)
    BY <2>1 DEF Balanced, Answered
  <2>3. ASSUME NEW k \in 1 + 1 .. Len(q), q[k] = Off(n)
        PROVE  Occurs(q, Off(n)) # 0
    <3>1. k \in 1 .. Len(q)
      BY <1>1
    <3> QED
      BY <2>3, <3>1, OccursFacts
  <2>4. Occurs(q, Off(n)) \in Nat
    BY <1>2, <1>3
  <2> QED
    BY <1>4, <1>5, <2>2, <2>3, <2>4
<1> QED
  BY <1>2, <1>3, <1>4, <1>5, <1>6, <1>7 DEF Balanced, t

-----------------------------------------------------------------------------
(* The voices that a strum delays wait as events of their own.               *)

Silent(q, n, j, k) == \A m \in j + 1 .. k - 1 : q[m].note # n

(* Before the events from j + 1 on n is down: its release is the next that *)
(* there is of n in q, or there is none and n is down after all of q.      *)
Down(q, n, j, after) ==
  \/ \E k \in j + 1 .. Len(q) : q[k] = Off(n) /\ Silent(q, n, j, k)
  \/ after /\ Silent(q, n, j, Len(q) + 1)

(* x is the note-on or the release of its note. *)
EventIs(x) == x = IF x.on THEN On(x.note) ELSE Off(x.note)

(* Every event is one or the other. *)
LEMMA EventsAre ==
  ASSUME NEW x \in Events
  PROVE  EventIs(x) /\ x.note \in Pitches /\ x.on \in BOOLEAN
  BY DEF EventIs, Events, On, Off

(* An event of n is the release of n or its note-on; another is neither. *)
LEMMA OffIs ==
  ASSUME NEW x \in Events, NEW n
  PROVE  /\ x.note = n => (x = Off(n) <=> ~x.on) /\ (x = On(n) <=> x.on)
         /\ x.note # n => x # Off(n) /\ x # On(n)
<1>1. EventIs(x) /\ x.on \in BOOLEAN
  BY EventsAre
<1> QED
  BY <1>1 DEF EventIs, On, Off

(* An event that waits behind the others says of its note what was said    *)
(* after them before; of the other notes it says nothing.                  *)
LEMMA DownAppend ==
  ASSUME NEW q \in Seq(Events), NEW x \in Events, NEW n,
         NEW j \in 0 .. Len(q)
  PROVE  /\ x.note = n =>
              (Down(Append(q, x), n, j, x.on) <=> Down(q, n, j, ~x.on))
         /\ x.note # n => \A d \in BOOLEAN :
              Down(Append(q, x), n, j, d) <=> Down(q, n, j, d)
<1> DEFINE u == Append(q, x)
<1>1. /\ Len(q) \in Nat /\ Len(u) = Len(q) + 1 /\ u[Len(q) + 1] = x
      /\ \A i \in 1 .. Len(q) : u[i] = q[i]
  OBVIOUS
<1> HIDE DEF u
<1>2. \A k \in j + 1 .. Len(q) + 1 : Silent(u, n, j, k) <=> Silent(q, n, j, k)
  BY <1>1 DEF Silent
<1>3. Silent(u, n, j, Len(u) + 1)
        <=> Silent(q, n, j, Len(q) + 1) /\ x.note # n
  BY <1>1 DEF Silent
<1>4. Len(q) + 1 \in j + 1 .. Len(q) + 1
  BY <1>1
<1>5. (\E k \in j + 1 .. Len(u) : u[k] = Off(n) /\ Silent(u, n, j, k))
        <=> \/ \E k \in j + 1 .. Len(q) : q[k] = Off(n) /\ Silent(q, n, j, k)
            \/ x = Off(n) /\ Silent(q, n, j, Len(q) + 1)
  <2>1. ASSUME NEW k \in j + 1 .. Len(u), u[k] = Off(n), Silent(u, n, j, k),
               k # Len(q) + 1
        PROVE  k \in j + 1 .. Len(q) /\ q[k] = Off(n) /\ Silent(q, n, j, k)
    BY <1>1, <1>2, <2>1
  <2>2. ASSUME NEW k \in j + 1 .. Len(q), q[k] = Off(n), Silent(q, n, j, k)
        PROVE  k \in j + 1 .. Len(u) /\ u[k] = Off(n) /\ Silent(u, n, j, k)
    BY <1>1, <1>2, <2>2
  <2>3. Silent(u, n, j, Len(q) + 1) <=> Silent(q, n, j, Len(q) + 1)
    BY <1>2, <1>4
  <2> QED
    BY <1>1, <1>4, <2>1, <2>2, <2>3
<1> QED
  BY <1>3, <1>5, OffIs DEF Down, u

(* Behind the last event nothing but what is said after it. *)
LEMMA DownLast ==
  ASSUME NEW q \in Seq(Events), NEW n, NEW d \in BOOLEAN
  PROVE  Down(q, n, Len(q), d) <=> d
<1>1. Len(q) \in Nat
  OBVIOUS
<1> QED
  BY <1>1 DEF Down, Silent

(* The first event goes: those behind it say what they said. *)
LEMMA DownTail ==
  ASSUME NEW q \in Seq(Events), q # <<>>, NEW n, NEW d \in BOOLEAN,
         NEW j \in 0 .. Len(q) - 1
  PROVE  Down(Tail(q), n, j, d) <=> Down(q, n, j + 1, d)
<1> DEFINE t == Tail(q)
<1>1. /\ Len(q) \in Nat /\ Len(q) > 0 /\ Len(t) = Len(q) - 1
      /\ \A i \in 1 .. Len(t) : t[i] = q[i + 1]
  OBVIOUS
<1> HIDE DEF t
<1>2. ASSUME NEW k \in j + 1 .. Len(t) + 1
      PROVE  Silent(t, n, j, k) <=> Silent(q, n, j + 1, k + 1)
  <2>1. ASSUME Silent(t, n, j, k), NEW m \in (j + 1) + 1 .. (k + 1) - 1
        PROVE  q[m].note # n
    <3>1. m - 1 \in j + 1 .. k - 1 /\ m - 1 \in 1 .. Len(t) /\ (m - 1) + 1 = m
      BY <1>1
    <3> QED
      BY <1>1, <2>1, <3>1 DEF Silent
  <2>2. ASSUME Silent(q, n, j + 1, k + 1), NEW m \in j + 1 .. k - 1
        PROVE  t[m].note # n
    <3>1. m + 1 \in (j + 1) + 1 .. (k + 1) - 1 /\ m \in 1 .. Len(t)
      BY <1>1
    <3> QED
      BY <1>1, <2>2, <3>1 DEF Silent
  <2> QED
    BY <2>1, <2>2 DEF Silent
<1>3. ASSUME NEW k \in j + 1 .. Len(t), t[k] = Off(n), Silent(t, n, j, k)
      PROVE  \E m \in (j + 1) + 1 .. Len(q) :
               q[m] = Off(n) /\ Silent(q, n, j + 1, m)
  <2>1. k + 1 \in (j + 1) + 1 .. Len(q) /\ k \in 1 .. Len(t)
        /\ k \in j + 1 .. Len(t) + 1
    BY <1>1
  <2> QED
    BY <1>1, <1>2, <1>3, <2>1
<1>4. ASSUME NEW m \in (j + 1) + 1 .. Len(q), q[m] = Off(n),
             Silent(q, n, j + 1, m)
      PROVE  \E k \in j + 1 .. Len(t) : t[k] = Off(n) /\ Silent(t, n, j, k)
  <2>1. PICK k \in j + 1 .. Len(t) : m = k + 1
    <3>1. m - 1 \in j + 1 .. Len(t) /\ m = (m - 1) + 1
      BY <1>1
    <3> QED
      BY <3>1
  <2>2. k \in 1 .. Len(t) /\ k \in j + 1 .. Len(t) + 1
    BY <1>1
  <2> QED
    BY <1>1, <1>2, <1>4, <2>1, <2>2
<1>5. Silent(t, n, j, Len(t) + 1) <=> Silent(q, n, j + 1, Len(q) + 1)
  <2>1. Len(t) + 1 \in j + 1 .. Len(t) + 1 /\ (Len(t) + 1) + 1 = Len(q) + 1
    BY <1>1
  <2> QED
    BY <1>2, <2>1
<1> QED
  BY <1>3, <1>4, <1>5 DEF Down, t

(* What the next event says of its note. *)
LEMMA DownHead ==
  ASSUME NEW q \in Seq(Events), q # <<>>, NEW n, NEW d \in BOOLEAN
  PROVE  /\ Head(q).note = n => (Down(q, n, 0, d) <=> ~Head(q).on)
         /\ Head(q).note # n => (Down(q, n, 0, d) <=> Down(q, n, 1, d))
<1>1. /\ Len(q) \in Nat /\ Len(q) > 0 /\ Head(q) = q[1] /\ Head(q) \in Events
      /\ 0 + 1 = 1
  OBVIOUS
<1>3. CASE Head(q).note = n
  <2>1. \A k \in 2 .. Len(q) + 1 : ~Silent(q, n, 0, k)
    <3> TAKE k \in 2 .. Len(q) + 1
    <3>1. 1 \in 0 + 1 .. k - 1
      BY <1>1
    <3> QED
      BY <1>1, <1>3, <3>1 DEF Silent
  <2>2. Silent(q, n, 0, 1)
    BY DEF Silent
  <2>3. Down(q, n, 0, d) <=> q[1] = Off(n)
    <3>1. \A k \in 0 + 1 .. Len(q) : k = 1 \/ k \in 2 .. Len(q) + 1
      BY <1>1
    <3>2. 1 \in 0 + 1 .. Len(q) /\ Len(q) + 1 \in 2 .. Len(q) + 1
      BY <1>1
    <3> QED
      BY <2>1, <2>2, <3>1, <3>2 DEF Down
  <2>4. q[1] = Off(n) <=> ~Head(q).on
    BY <1>1, <1>3, OffIs
  <2> QED
    BY <1>3, <2>3, <2>4
<1>4. CASE Head(q).note # n
  <2>1. \A k \in 2 .. Len(q) + 1 : Silent(q, n, 0, k) <=> Silent(q, n, 1, k)
    <3> TAKE k \in 2 .. Len(q) + 1
    <3>1. \A m \in 0 + 1 .. k - 1 : m = 1 \/ m \in 1 + 1 .. k - 1
      BY <1>1
    <3>2. \A m \in 1 + 1 .. k - 1 : m \in 0 + 1 .. k - 1
      BY <1>1
    <3> QED
      BY <1>1, <1>4, <3>1, <3>2 DEF Silent
  <2>2. q[1] # Off(n)
    BY <1>1, <1>4 DEF Off
  <2>3. /\ \A k \in 0 + 1 .. Len(q) : k = 1 \/ k \in 1 + 1 .. Len(q)
        /\ \A k \in 1 + 1 .. Len(q) : k \in 0 + 1 .. Len(q) /\ k \in 2 .. Len(q) + 1
        /\ Len(q) + 1 \in 2 .. Len(q) + 1
    BY <1>1
  <2> QED
    BY <1>4, <2>1, <2>2, <2>3 DEF Down
<1> QED
  BY <1>3, <1>4

-----------------------------------------------------------------------------
(* The effects *)

LEMMA OrderFacts ==
  /\ Len(Chord) \in Nat \ {0}
  /\ Order \in Seq(Nat) /\ Len(Order) = Len(Chord)
  /\ VoicesNow \in 0 .. Len(Chord)
  /\ effect # "arp" => VoicesNow > 0
<1>1. Chord \in Seq(Nat) /\ Len(Chord) \in Nat \ {0}
  BY EchoAssumption
<1>2. Reverse(Chord) \in Seq(Nat) /\ Len(Reverse(Chord)) = Len(Chord)
  BY <1>1 DEF Reverse
<1>3. VoicesNow \in 0 .. Len(Chord) /\ (effect # "arp" => VoicesNow > 0)
  BY <1>1 DEF VoicesNow
<1> QED
  BY <1>1, <1>2, <1>3 DEF Order

(* Every voice lies at or above its pad's note. *)
LEMMA OrderIsNat ==
  ASSUME NEW i \in 1 .. Len(Chord)
  PROVE  Order[i] \in Nat
  BY OrderFacts

(* The voices that sound at once and make n of the pad p. *)
AtOnce(n, p) == {i \in 1 .. VoicesNow : Order[i] # 0 /\ n - Order[i] = p}

(* The event of n of the same kind as a pad's. *)
Sounds(on, n) == IF on THEN On(n) ELSE Off(n)

(* They are voices of the chord. *)
LEMMA AtOnceFacts ==
  ASSUME NEW n, NEW p
  PROVE  AtOnce(n, p) \in VoiceSets
  BY OrderFacts DEF AtOnce, VoiceSets

(* What the effect makes of an event at once.                              *)
LEMMA VoicesOut ==
  ASSUME NEW e \in Events, NEW n \in Pitches
  PROVE  /\ NotTheInput(e) \in Seq(Events)
         /\ Occurs(NotTheInput(e), Sounds(e.on, n)) = Cardinality(AtOnce(n, e.note))
         /\ Occurs(NotTheInput(e), Sounds(~e.on, n)) = 0
<1> DEFINE A == [on : BOOLEAN, note : Nat]
           v == Voices(e)
<1>1. e.note \in Nat /\ e.note \in Pitches /\ e.on \in BOOLEAN /\ n \in Nat
      /\ e = Sounds(e.on, e.note)
  BY EchoAssumption DEF Events, Pitches, Sounds, On, Off
<1>2. VoicesNow \in Nat /\ VoicesNow <= Len(Chord)
  BY OrderFacts
<1>3. ASSUME NEW i \in 1 .. VoicesNow
      PROVE  /\ Order[i] \in Nat
             /\ Voice(i, e) \in A
             /\ Voice(i, e).on = e.on /\ Voice(i, e).note = e.note + Order[i]
  <2>1. i \in 1 .. Len(Chord)
    BY <1>2, OrderFacts
  <2>2. Order[i] \in Nat
    BY <2>1, OrderIsNat
  <2>3. /\ Voice(i, e) = [on |-> e.on, note |-> e.note + Order[i]]
    BY DEF Voice, Events
  <2> QED
    BY <1>1, <2>2, <2>3
<1>4. v \in Seq(A) /\ Len(v) = VoicesNow /\ \A i \in 1 .. VoicesNow : v[i] = Voice(i, e)
  BY <1>2, <1>3 DEF Voices
<1> HIDE DEF v
<1>5. /\ NotTheInput(e) \in Seq(A)
      /\ \A x : Occurs(NotTheInput(e), x)
                  = IF x \in Events \ {e} THEN Occurs(v, x) ELSE 0
  <2>1. NotTheInput(e) = Only(v, Events \ {e})
    BY DEF NotTheInput, v
  <2> HIDE DEF A
  <2> QED
    BY <1>4, <2>1, OnlyFacts
<1>6. NotTheInput(e) \in Seq(Events)
  <2> DEFINE w == NotTheInput(e)
  <2>1. w \in Seq(A) /\ \A x : x \notin Events => Occurs(w, x) = 0
    BY <1>5
  <2> HIDE DEF w
  <2>2. ASSUME NEW i \in 1 .. Len(w) PROVE w[i] \in Events
    <3> SUFFICES ASSUME w[i] \notin Events PROVE FALSE
      OBVIOUS
    <3>1. Occurs(w, w[i]) = 0
      BY <2>1
    <3> HIDE DEF A
    <3> QED
      BY <2>1, <3>1, OccursFacts
  <2>3. w \in Seq(Events)
    BY <2>1, <2>2
  <2> QED
    BY <2>3 DEF w
<1>7. Occurs(NotTheInput(e), Sounds(e.on, n)) = Cardinality(AtOnce(n, e.note))
  <2> DEFINE x == Sounds(e.on, n)
  <2>1. x \in Events /\ (x = e <=> n = e.note)
    BY <1>1 DEF Sounds, On, Off, Events
  <2>2. CASE n = e.note
    <3>1. Occurs(NotTheInput(e), x) = 0
      BY <1>5, <2>1, <2>2
    <3>2. AtOnce(n, e.note) = {}
      <4> SUFFICES ASSUME NEW i \in 1 .. VoicesNow, Order[i] # 0,
                          n - Order[i] = e.note
                   PROVE  FALSE
        BY DEF AtOnce
      <4>1. Order[i] \in Nat
        BY <1>3
      <4> QED
        BY <1>1, <2>2, <4>1
    <3> QED
      BY <3>1, <3>2, FS_EmptySet
  <2>3. CASE n # e.note
    <3>1. Occurs(NotTheInput(e), x) = Occurs(v, x)
      BY <1>5, <2>1, <2>3
    <3>2. Occurs(v, x) = Cardinality(PlacesOf(v, VoicesNow, x))
      BY <1>2, <1>4, PlacesFinite DEF Occurs
    <3>3. ASSUME NEW i \in 1 .. VoicesNow
          PROVE  v[i] = x <=> Order[i] # 0 /\ n - Order[i] = e.note
      <4>1. v[i] = Voice(i, e) /\ Order[i] \in Nat
        BY <1>3, <1>4
      <4>2. v[i] = [on |-> e.on, note |-> e.note + Order[i]]
        BY <4>1 DEF Voice, Events
      <4>3. x = [on |-> e.on, note |-> n]
        BY <1>1 DEF Sounds, On, Off
      <4>4. v[i] = x <=> e.note + Order[i] = n
        BY <4>2, <4>3
      <4> HIDE DEF x
      <4> QED
        BY <1>1, <2>3, <4>1, <4>4
    <3>4. PlacesOf(v, VoicesNow, x) = AtOnce(n, e.note)
      <4> HIDE DEF x
      <4> QED
        BY <3>3 DEF PlacesOf, AtOnce
    <3> QED
      BY <3>1, <3>2, <3>4
  <2> QED
    BY <2>2, <2>3
<1>8. Occurs(NotTheInput(e), Sounds(~e.on, n)) = 0
  <2> DEFINE x == Sounds(~e.on, n)
  <2>1. x.on # e.on
    BY <1>1 DEF Sounds, On, Off
  <2>2. \A i \in 1 .. Len(v) : v[i] # x
    BY <1>3, <1>4, <2>1
  <2> HIDE DEF x, A
  <2>3. Occurs(v, x) = 0
    BY <1>4, <2>2, OccursFacts
  <2>4. Occurs(NotTheInput(e), x) = 0
    BY <1>5, <2>3
  <2> QED
    BY <2>4 DEF x
<1> QED
  BY <1>6, <1>7, <1>8

-----------------------------------------------------------------------------
(* What a step of the filter does. *)

LEMMA UpFacts ==
  ASSUME NEW a \in Nat, NEW b \in Nat
  PROVE  /\ Up(a, b) \in 0 .. CountMax
         /\ a + b <= CountMax => Up(a, b) = a + b
  BY EchoAssumption DEF Up

(* What the queue takes fits, and is counted within the counts. *)
LEMMA InjectTypes ==
  ASSUME EchoTypeOK, NEW out \in Seq(Events), NEW queue \in Seq(Events),
         Len(queue) <= QueueMax, InjectAll(out, queue)
  PROVE  /\ inject' \in Seq(Events) /\ Len(inject') <= QueueMax
         /\ pre_injected_notes' \in [Pitches -> 0 .. CountMax]
<1> DEFINE k == IF Room(queue) < Len(out) THEN Room(queue) ELSE Len(out)
           taken == IF midi_fx_pre_mode THEN Accepted(out, queue) ELSE <<>>
<1>1. Len(queue) \in Nat /\ Len(out) \in Nat /\ QueueMax \in Nat
  BY EchoAssumption
<1>2. k \in 0 .. Len(out) /\ Len(queue) + k <= QueueMax
  BY <1>1 DEF Room
<1>3. Accepted(out, queue) = SubSeq(out, 1, k)
  BY DEF Accepted
<1> HIDE DEF k
<1>4. Accepted(out, queue) \in Seq(Events) /\ Len(Accepted(out, queue)) = k
  <2>1. 1 \in Int /\ k \in Int /\ \A i \in 1 .. k : out[i] \in Events
    BY <1>1, <1>2
  <2>2. /\ SubSeq(out, 1, k) \in Seq(Events)
        /\ Len(SubSeq(out, 1, k)) = IF 1 <= k THEN k - 1 + 1 ELSE 0
    BY <2>1, SubSeqProperties
  <2> QED
    BY <1>2, <1>3, <2>2
<1>5. taken \in Seq(Events) /\ Len(queue) + Len(taken) <= QueueMax
  BY <1>1, <1>2, <1>4
<1>6. inject' = queue \o taken /\ pre_injected_notes' = Tracked(taken)
  BY DEF InjectAll
<1> HIDE DEF taken
<1>7. inject' \in Seq(Events) /\ Len(inject') <= QueueMax
  BY <1>1, <1>5, <1>6
<1>8. ASSUME NEW n \in Pitches
      PROVE  Up(pre_injected_notes[n], Occurs(taken, On(n))) \in 0 .. CountMax
  <2>1. Occurs(taken, On(n)) \in Nat
    <3>1. Occurs(taken, On(n)) \in 0 .. Len(taken)
      BY <1>5, OccursFacts
    <3> QED
      BY <1>5, <3>1
  <2>2. pre_injected_notes[n] \in Nat
    BY EchoAssumption DEF EchoTypeOK
  <2> QED
    BY <2>1, <2>2, UpFacts
<1> QED
  BY <1>6, <1>7, <1>8 DEF Tracked

(* Nothing is refused: all of it is on its way, and all of it is counted. *)
LEMMA InjectExact ==
  ASSUME EchoTypeOK, NEW out \in Seq(Events), NEW queue \in Seq(Events),
         Len(queue) <= QueueMax, InjectAll(out, queue), ~Refused(out, queue)
  PROVE  /\ midi_fx_pre_mode =>
              /\ inject' = queue \o out
              /\ \A n \in Pitches : pre_injected_notes'[n]
                   = Up(pre_injected_notes[n], Occurs(out, On(n)))
         /\ ~midi_fx_pre_mode =>
              inject' = queue /\ pre_injected_notes' = pre_injected_notes
<1>1. CASE midi_fx_pre_mode
  <2>1. ~(Room(queue) < Len(out))
    BY <1>1 DEF Refused
  <2>2. Accepted(out, queue) = out
    BY <2>1, SubSeqFull DEF Accepted
  <2> QED
    BY <1>1, <2>2 DEF InjectAll, Tracked
<1>2. CASE ~midi_fx_pre_mode
  <2>1. inject' = queue \o <<>> /\ pre_injected_notes' = Tracked(<<>>)
    BY <1>2 DEF InjectAll
  <2>2. queue \o <<>> = queue
    BY ConcatEmptySeq
  <2>3. ASSUME NEW n \in Pitches
        PROVE  Up(pre_injected_notes[n], Occurs(<<>>, On(n))) = pre_injected_notes[n]
    <3>1. Occurs(<<>>, On(n)) = 0
      BY OccursNone
    <3>2. pre_injected_notes[n] \in 0 .. CountMax /\ CountMax \in Nat
      BY EchoAssumption DEF EchoTypeOK
    <3> QED
      BY <3>1, <3>2 DEF Up
  <2>4. Tracked(<<>>) = [n \in Pitches |-> pre_injected_notes[n]]
    BY <2>3 DEF Tracked
  <2>5. Tracked(<<>>) = pre_injected_notes
    BY <2>4 DEF EchoTypeOK
  <2> QED
    BY <1>2, <2>1, <2>2, <2>5
<1> QED
  BY <1>1, <1>2

(* chord_process_midi and arp_process_midi keep to the range of notes. *)
LEMMA FxTypes ==
  ASSUME EchoTypeOK, NEW e \in Events, FxProcess(e)
  PROVE  /\ pending' \in [LaterVoices -> Seq(Events)]
         /\ held_notes' \subseteq Pitches
         /\ last_note' = last_note
<1>1. ASSUME NEW i \in LaterVoices, InRange(Voice(i, e))
      PROVE  Voice(i, e) \in Events
  <2>1. Voice(i, e) = [on |-> e.on, note |-> e.note + Order[i]] /\ e.on \in BOOLEAN
    BY DEF Voice, Events
  <2>2. Voice(i, e).note \in Pitches
    BY <1>1 DEF InRange
  <2> QED
    BY <2>1, <2>2 DEF Events
<1>2. \A i \in LaterVoices : pending[i] \in Seq(Events)
  BY DEF EchoTypeOK
<1>3. pending' \in [LaterVoices -> Seq(Events)]
  BY <1>1, <1>2 DEF FxProcess
<1>4. e.note \in Pitches
  BY DEF Events
<1> QED
  BY <1>3, <1>4 DEF FxProcess, EchoTypeOK

(* What leaves the range is dropped; without a transposition nothing is. *)
LEMMA HeardIs ==
  ASSUME NEW e \in Events
  PROVE  /\ InRange(Heard(e)) => Heard(e) \in Events
         /\ Transpose = 0 => Heard(e) = e /\ InRange(e)
<1>1. e.on \in BOOLEAN /\ e.note \in Pitches /\ e = [on |-> e.on, note |-> e.note]
  BY DEF Events
<1>2. Heard(e) = [on |-> e.on, note |-> e.note + Transpose]
  BY DEF Heard, Events
<1>3. ASSUME InRange(Heard(e)) PROVE Heard(e) \in Events
  <2>1. Heard(e).note \in Pitches
    BY <1>3 DEF InRange
  <2> QED
    BY <1>1, <1>2, <2>1 DEF Events
<1>4. e.note \in Int
  BY <1>1 DEF Pitches
<1> QED
  BY <1>1, <1>2, <1>3, <1>4 DEF InRange

(* The part of the type invariant that a note on its way in can disturb. *)
DispatchedOK ==
  /\ midi_fx_pre_mode' \in BOOLEAN
  /\ pre_injected_notes' \in [Pitches -> 0 .. CountMax]
  /\ pre_pad_held' \in [Pitches -> 0 .. CountMax]
  /\ pending' \in [LaterVoices -> Seq(Events)]
  /\ held_notes' \subseteq Pitches
  /\ last_note' \in Pitches \cup {NoNote}
  /\ inject' \in Seq(Events) /\ Len(inject') <= QueueMax

(* The count of the pads held stays within its uint8_t. *)
LEMMA CountPadTypes ==
  ASSUME EchoTypeOK, NEW e \in Events, CountPad(e)
  PROVE  pre_pad_held' \in [Pitches -> 0 .. CountMax]
<1>1. e.note \in Pitches /\ CountMax \in Nat
  BY EchoAssumption DEF Events
<1>2. pre_pad_held[e.note] \in 0 .. CountMax
  BY <1>1 DEF EchoTypeOK
<1>3. Up(pre_pad_held[e.note], 1) \in 0 .. CountMax
  BY <1>1, <1>2 DEF Up
<1>4. (IF pre_pad_held[e.note] > 0 THEN pre_pad_held[e.note] - 1 ELSE 0) \in 0 .. CountMax
  BY <1>1, <1>2
<1> QED
  BY <1>1, <1>3, <1>4 DEF CountPad, EchoTypeOK

(* A note on its way into the slot, echo or pad. *)
LEMMA DispatchTypes ==
  ASSUME EchoTypeOK, NEW e \in Events, NEW queue \in Seq(Events),
         Len(queue) <= QueueMax, Dispatch(e, queue)
  PROVE  DispatchedOK
<1>1. CASE ~InRange(Heard(e)) /\ inject' = queue
           /\ UNCHANGED <<pre_injected_notes, pre_pad_held, fxVars>>
  BY <1>1 DEF Dispatch, DispatchedOK, EchoTypeOK, fxVars
<1>2. CASE InRange(Heard(e)) /\ OnMidi(Heard(e), queue)
  <2> DEFINE h == Heard(e)
  <2>1. h \in Events /\ h.note \in Pitches
    BY <1>2, HeardIs DEF InRange
  <2>2. midi_fx_pre_mode' \in BOOLEAN
    BY DEF Dispatch, EchoTypeOK
  <2> HIDE DEF h
  <2>3. CASE IsEcho(h) /\ DropEcho(h) /\ inject' = queue
             /\ UNCHANGED <<pre_pad_held, fxVars>>
    <3>1. pre_injected_notes[h.note] \in 1 .. CountMax /\ CountMax \in Nat
      BY <2>1, <2>3, EchoAssumption DEF IsEcho, EchoTypeOK
    <3>2. pre_injected_notes[h.note] - 1 \in 0 .. CountMax
      BY <3>1
    <3>3. pre_injected_notes' \in [Pitches -> 0 .. CountMax]
      BY <2>1, <2>3, <3>2 DEF DropEcho, EchoTypeOK
    <3> QED
      BY <2>2, <2>3, <3>3 DEF DispatchedOK, EchoTypeOK, fxVars
  <2>4. CASE ~IsEcho(h) /\ CountPad(h) /\ FxProcess(h)
             /\ InjectAll(NotTheInput(h), queue)
    <3>1. NotTheInput(h) \in Seq(Events)
      BY <2>1, VoicesOut
    <3>2. /\ inject' \in Seq(Events) /\ Len(inject') <= QueueMax
          /\ pre_injected_notes' \in [Pitches -> 0 .. CountMax]
      BY <2>4, <3>1, InjectTypes
    <3>3. pre_pad_held' \in [Pitches -> 0 .. CountMax]
      BY <2>1, <2>4, CountPadTypes
    <3>4. /\ pending' \in [LaterVoices -> Seq(Events)]
          /\ held_notes' \subseteq Pitches
          /\ last_note' = last_note
      BY <2>1, <2>4, FxTypes
    <3> QED
      BY <2>2, <3>2, <3>3, <3>4 DEF DispatchedOK, EchoTypeOK
  <2> QED
    BY <1>2, <2>3, <2>4 DEF OnMidi, h
<1> QED
  BY <1>1, <1>2 DEF Dispatch

(* What a tick injects. *)
LEMMA TickTypes ==
  ASSUME EchoTypeOK, NEW out \in Seq(Events), TickInjects(out)
  PROVE  /\ Ticked(out) \in Seq(Events)
         /\ inject' \in Seq(Events) /\ Len(inject') <= QueueMax
         /\ pre_injected_notes' \in [Pitches -> 0 .. CountMax]
<1>1. Ticked(out) \in Seq(Events)
  BY OnlyFacts DEF Ticked
<1> QED
  BY <1>1, InjectTypes DEF TickInjects, EchoTypeOK

(* A pitch has two events. *)
LEMMA OnOffTypes ==
  ASSUME NEW n \in Pitches
  PROVE  On(n) \in Events /\ Off(n) \in Events
  BY DEF On, Off, Events

(* Move sounds pitches. *)
LEMMA PlayedTypes ==
  ASSUME EchoTypeOK, NEW e \in Events
  PROVE  Played(e) \subseteq Pitches
<1>1. e.note \in Pitches
  BY DEF Events
<1> QED
  BY <1>1 DEF Played, EchoTypeOK

(* The type invariant holds at first, *)
LEMMA EchoTypeInit == EchoInit => EchoTypeOK
<1> SUFFICES ASSUME EchoInit PROVE EchoTypeOK
  OBVIOUS
<1>1. 0 \in 0 .. CountMax /\ QueueMax \in Nat
  BY EchoAssumption
<1>2. <<>> \in Seq(Events) /\ Len(<<>>) = 0
  OBVIOUS
<1> QED
  BY <1>1, <1>2 DEF EchoInit, EchoTypeOK

(* is kept by a pad, *)
LEMMA PadTypes ==
  ASSUME EchoTypeOK, NEW e \in Events, Pad(e), pads' \subseteq Pitches
  PROVE  EchoTypeOK'
<1>1. inject \in Seq(Events) /\ Len(inject) <= QueueMax
  BY DEF EchoTypeOK
<1>2. DispatchedOK
  BY <1>1, DispatchTypes DEF Pad
<1>3. playing' \subseteq Pitches /\ effect' \in Effects
  BY PlayedTypes DEF Pad, EchoTypeOK
<1> QED
  BY <1>2, <1>3 DEF DispatchedOK, EchoTypeOK

(* and by every step. *)
LEMMA EchoTypeStep == EchoTypeOK /\ [EchoNext]_echoVars => EchoTypeOK'
<1> SUFFICES ASSUME EchoTypeOK, [EchoNext]_echoVars PROVE EchoTypeOK'
  OBVIOUS
<1>1. inject # <<>> => /\ Head(inject) \in Events /\ Tail(inject) \in Seq(Events)
                       /\ Len(Tail(inject)) <= QueueMax
  BY EchoAssumption DEF EchoTypeOK
<1>2. ASSUME NEW n \in Pitches, PadDown(n) PROVE EchoTypeOK'
  <2>1. pads' \subseteq Pitches /\ Pad(On(n))
    BY <1>2 DEF PadDown, EchoTypeOK
  <2> QED
    BY <2>1, OnOffTypes, PadTypes
<1>3. ASSUME NEW n \in Pitches, PadUp(n) PROVE EchoTypeOK'
  <2>1. pads' \subseteq Pitches /\ Pad(Off(n))
    BY <1>3 DEF PadUp, EchoTypeOK
  <2> QED
    BY <2>1, OnOffTypes, PadTypes
<1>4. ASSUME NEW n \in Pitches, ArpStep(n) PROVE EchoTypeOK'
  <2>1. ReleaseLast \in Seq(Events)
    BY OnOffTypes DEF ReleaseLast, EchoTypeOK
  <2>2. Append(ReleaseLast, On(n)) \in Seq(Events)
    BY <2>1, OnOffTypes
  <2>3. TickInjects(Append(ReleaseLast, On(n)))
    BY <1>4 DEF ArpStep
  <2>4. /\ inject' \in Seq(Events) /\ Len(inject') <= QueueMax
        /\ pre_injected_notes' \in [Pitches -> 0 .. CountMax]
    BY <2>2, <2>3, TickTypes
  <2> QED
    BY <1>4, <2>4 DEF ArpStep, TickInjects, EchoTypeOK, boundVars
<1>5. CASE Echo
  <2>1. DispatchedOK
    BY <1>1, <1>5, DispatchTypes DEF Echo
  <2>2. playing' \subseteq Pitches
    BY <1>1, <1>5, PlayedTypes DEF Echo
  <2> QED
    BY <1>5, <2>1, <2>2 DEF Echo, DispatchedOK, EchoTypeOK
<1>6. CASE LoseEcho
  <2>1. playing' \subseteq Pitches
    BY <1>1, <1>6, PlayedTypes DEF LoseEcho
  <2> QED
    BY <1>1, <1>6, <2>1 DEF LoseEcho, EchoTypeOK, slotVars, fxVars
<1>7. ASSUME NEW i \in LaterVoices, StrumTick(i) PROVE EchoTypeOK'
  <2>1. pending[i] \in Seq(Events) /\ pending[i] # <<>>
    BY <1>7 DEF StrumTick, EchoTypeOK
  <2>2. Head(pending[i]) \in Events /\ Tail(pending[i]) \in Seq(Events)
    BY <2>1
  <2>3. <<Head(pending[i])>> \in Seq(Events)
    BY <2>2
  <2>4. /\ inject' \in Seq(Events) /\ Len(inject') <= QueueMax
        /\ pre_injected_notes' \in [Pitches -> 0 .. CountMax]
    BY <1>7, <2>3, TickTypes DEF StrumTick
  <2>5. pending' \in [LaterVoices -> Seq(Events)]
    BY <1>7, <2>2 DEF StrumTick, EchoTypeOK
  <2> QED
    BY <1>7, <2>4, <2>5 DEF StrumTick, TickInjects, EchoTypeOK
<1>8. CASE ArpRest
  <2>1. ReleaseLast \in Seq(Events)
    BY OnOffTypes DEF ReleaseLast, EchoTypeOK
  <2>2. /\ inject' \in Seq(Events) /\ Len(inject') <= QueueMax
        /\ pre_injected_notes' \in [Pitches -> 0 .. CountMax]
    BY <1>8, <2>1, TickTypes DEF ArpRest
  <2> QED
    BY <1>8, <2>2 DEF ArpRest, TickInjects, EchoTypeOK
<1>9. CASE SetPreMode
  <2>1. 0 \in 0 .. CountMax
    BY EchoAssumption
  <2> QED
    BY <1>9, <2>1 DEF SetPreMode, ResetCounts, EchoTypeOK, fxVars, moveVars
<1>10. CASE UNCHANGED echoVars
  BY <1>10 DEF echoVars, slotVars, fxVars, moveVars, boundVars, EchoTypeOK
<1> QED
  BY <1>2, <1>3, <1>4, <1>5, <1>6, <1>7, <1>8, <1>9, <1>10 DEF EchoNext, Tick

(* The type invariant of the slot in Pre mode, for every chord, effect and *)
(* transposition: the queue takes no more than it has room for, and the    *)
(* two uint8_t counts stay counts.                                         *)
THEOREM EchoTypeCorrect == EchoSpec => []EchoTypeOK
<1>1. EchoInit => EchoTypeOK
  BY EchoTypeInit
<1>2. EchoTypeOK /\ [EchoNext]_echoVars => EchoTypeOK'
  BY EchoTypeStep
<1> QED
  BY <1>1, <1>2, PTL DEF EchoSpec

-----------------------------------------------------------------------------
(* The inductive invariant *)

Strums == effect \in {"strum_up", "strum_down"}

(* Only the arpeggiator has notes of its own, only a strum waits. *)
FxInv ==
  /\ effect # "arp" => held_notes = {} /\ last_note = NoNote
  /\ ~Strums => \A i \in LaterVoices : pending[i] = <<>>

(* Voice i, which is n, of a pad that is down. *)
Wanted(n, i, down) == n - Order[i] \in down

(* Voice i of the chord sounds n and its release was not injected yet: of  *)
(* a voice that waits for its turn, what waits first says so.              *)
IsOpen(n, i, waits, down) ==
  \/ i > VoicesNow /\ Down(waits[i], n, 0, Wanted(n, i, down))
  \/ i <= VoicesNow /\ Order[i] # 0 /\ Wanted(n, i, down)

(* The voices that sound n and whose releases are to come. *)
Open(n, waits, down) == {i \in 1 .. Len(Chord) : IsOpen(n, i, waits, down)}

(* What waits for a voice of n is a note-on and its release in turn, and   *)
(* after all of it n is down as the pad is.                                *)
Alternate(n, i, q, down) ==
  \A j \in 1 .. Len(q) :
    q[j].note = n => (q[j].on <=> Down(q, n, j, Wanted(n, i, down)))

(* So it is for all that waits. *)
Alternates(waits, down) ==
  \A i \in LaterVoices, n \in Pitches : Alternate(n, i, waits[i], down)

(* Every count of the filter stands for what is on its way and open. *)
CountsBalance ==
  \A n \in Pitches :
    Balanced(n, inject, Open(n, pending, pads), pre_injected_notes[n])

(* The slot's count of pads held is of the pads that are down. *)
PadsAreCounted ==
  \A n \in Pitches :
    pre_pad_held[n] = IF midi_fx_pre_mode /\ n \in pads THEN 1 ELSE 0

(* What Move sounds a pad holds, or the filter still counts. *)
SoundsAreKnown ==
  \A n \in playing : n \in pads \/ pre_injected_notes[n] > 0

(* What holds of a chord, or a strum, as long as the filter was given      *)
(* nothing that it cannot tell.                                            *)
NotesKnown ==
  /\ ~mistaken
  /\ SoundsAreKnown
  /\ PadsAreCounted
  /\ Alternates(pending, pads)
  /\ midi_fx_pre_mode => CountsBalance
  /\ ~midi_fx_pre_mode =>
       inject = <<>> /\ \A n \in Pitches : pre_injected_notes[n] = 0

(* It holds of every effect but the arpeggiator. *)
NoteInv == ~upset /\ effect # "arp" => NotesKnown

(* The open voices are voices of the chord. *)
LEMMA OpenIsVoices ==
  ASSUME NEW n, NEW waits, NEW down
  PROVE  Open(n, waits, down) \in VoiceSets
  BY DEF Open, VoiceSets

(* An event of a pad leaves a voice that waits as open as it was: what the *)
(* pad says it says at the end of what waits.                              *)
LEMMA WaitsFollowPads ==
  ASSUME EchoTypeOK, Strums, NEW e \in Events, FxProcess(e),
         e.on <=> e.note \notin pads,
         pads' = IF e.on THEN pads \cup {e.note} ELSE pads \ {e.note},
         NEW i \in LaterVoices, NEW n \in Pitches
  PROVE  /\ \A j \in 0 .. Len(pending[i]) :
              Down(pending'[i], n, j, Wanted(n, i, pads'))
                <=> Down(pending[i], n, j, Wanted(n, i, pads))
         /\ Alternate(n, i, pending[i], pads) => Alternate(n, i, pending'[i], pads')
<1> DEFINE q == pending[i]
           x == Voice(i, e)
           before == Wanted(n, i, pads)
           after == Wanted(n, i, pads')
<1>1. q \in Seq(Events) /\ Len(q) \in Nat
  BY DEF EchoTypeOK
<1>2. i \in 1 .. Len(Chord) /\ Order[i] \in Nat
  <2>1. i \in 1 .. Len(Chord)
    BY OrderFacts DEF LaterVoices
  <2> QED
    BY <2>1, OrderIsNat
<1>3. e.note \in Nat /\ n \in Nat /\ e.on \in BOOLEAN
  BY DEF Events, Pitches
<1>4. x.note = e.note + Order[i] /\ x.on = e.on
      /\ x = [on |-> e.on, note |-> e.note + Order[i]]
  BY DEF Voice, Events
<1>5. pending'[i] = IF InRange(x) THEN Append(q, x) ELSE q
  BY DEF FxProcess, Strums
<1>6. InRange(x) => x \in Events
  BY <1>3, <1>4 DEF InRange, Events
<1>7. x.note = n => (after <=> x.on) /\ (before <=> ~x.on)
  BY <1>2, <1>3, <1>4 DEF Wanted
<1>8. x.note # n => (after <=> before)
  BY <1>2, <1>3, <1>4 DEF Wanted
<1>9. before \in BOOLEAN /\ after \in BOOLEAN
  BY DEF Wanted
<1> HIDE DEF x, before, after, q
<1>10. \A j \in 0 .. Len(q) : Down(pending'[i], n, j, after) <=> Down(q, n, j, before)
  <2> TAKE j \in 0 .. Len(q)
  <2>1. CASE ~InRange(x)
    <3>1. x.note # n
      BY <2>1 DEF InRange
    <3>2. after = before
      BY <1>8, <1>9, <3>1
    <3> QED
      BY <1>5, <2>1, <3>2
  <2>2. CASE InRange(x) /\ x.note = n
    <3>1. x \in Events
      BY <1>6, <2>2
    <3>2. Down(Append(q, x), n, j, x.on) <=> Down(q, n, j, ~x.on)
      BY <1>1, <2>2, <3>1, DownAppend
    <3>3. after = x.on /\ before = (~x.on)
      BY <1>3, <1>4, <1>7, <1>9, <2>2
    <3> QED
      BY <1>5, <2>2, <3>2, <3>3
  <2>3. CASE InRange(x) /\ x.note # n
    <3>1. x \in Events
      BY <1>6, <2>3
    <3>2. Down(Append(q, x), n, j, before) <=> Down(q, n, j, before)
      BY <1>1, <1>9, <2>3, <3>1, DownAppend
    <3>3. after = before
      BY <1>8, <1>9, <2>3
    <3> QED
      BY <1>5, <2>3, <3>2, <3>3
  <2> QED
    BY <2>1, <2>2, <2>3
<1>11. ASSUME \A j \in 1 .. Len(q) : q[j].note = n => (q[j].on <=> Down(q, n, j, before)),
              NEW j \in 1 .. Len(pending'[i]), pending'[i][j].note = n
       PROVE  pending'[i][j].on <=> Down(pending'[i], n, j, after)
  <2>1. CASE j \in 1 .. Len(q)
    <3>1. pending'[i][j] = q[j]
      BY <1>1, <1>5, <2>1
    <3>2. j \in 0 .. Len(q)
      BY <1>1, <2>1
    <3> QED
      BY <1>10, <1>11, <2>1, <3>1, <3>2
  <2>2. CASE j \notin 1 .. Len(q)
    <3>1. InRange(x) /\ x \in Events
      BY <1>5, <1>6, <2>2
    <3>2. j = Len(q) + 1 /\ j = Len(Append(q, x)) /\ pending'[i] = Append(q, x)
          /\ Append(q, x) \in Seq(Events)
      BY <1>1, <1>5, <2>2, <3>1
    <3>3. pending'[i][j] = x
      BY <1>1, <3>1, <3>2
    <3>4. Down(Append(q, x), n, j, after) <=> after
      BY <1>9, <3>2, DownLast
    <3> QED
      BY <1>7, <1>11, <3>2, <3>3, <3>4
  <2> QED
    BY <2>1, <2>2
<1> QED
  BY <1>10, <1>11 DEF Alternate, q, before, after

(* The effect stays, so its voices stay. *)
LEMMA SameEffect ==
  ASSUME effect' = effect
  PROVE  Order' = Order /\ VoicesNow' = VoicesNow
  BY DEF Order, VoicesNow

(* A pad opens the voices it sounds at once, and its release closes them. *)
LEMMA OpenFollowsPads ==
  ASSUME EchoTypeOK, FxInv, effect # "arp", NEW e \in Events, FxProcess(e),
         e.on <=> e.note \notin pads,
         pads' = IF e.on THEN pads \cup {e.note} ELSE pads \ {e.note},
         NEW n \in Pitches
  PROVE  /\ e.on =>
              /\ AtOnce(n, e.note) \cap Open(n, pending, pads) = {}
              /\ Open(n, pending', pads')
                   = Open(n, pending, pads) \cup AtOnce(n, e.note)
         /\ ~e.on =>
              /\ AtOnce(n, e.note) \subseteq Open(n, pending, pads)
              /\ Open(n, pending', pads')
                   = Open(n, pending, pads) \ AtOnce(n, e.note)
<1>1. VoicesNow \in 0 .. Len(Chord) /\ VoicesNow > 0 /\ Len(Chord) \in Nat
  BY OrderFacts
<1>2. effect \in {"chord", "strum_up", "strum_down"}
  BY EchoAssumption DEF EchoTypeOK
<1>3. ASSUME NEW i \in 1 .. Len(Chord), i > VoicesNow
      PROVE  /\ i \notin AtOnce(n, e.note)
             /\ IsOpen(n, i, pending', pads') <=> IsOpen(n, i, pending, pads)
  <2>1. i \in LaterVoices /\ Strums
    BY <1>1, <1>2, <1>3 DEF LaterVoices, VoicesNow, Strums
  <2>2. \A j \in 0 .. Len(pending[i]) :
          Down(pending'[i], n, j, Wanted(n, i, pads'))
            <=> Down(pending[i], n, j, Wanted(n, i, pads))
    BY <2>1, WaitsFollowPads
  <2>3. 0 \in 0 .. Len(pending[i])
    <3>1. pending[i] \in Seq(Events)
      BY <2>1 DEF EchoTypeOK
    <3> QED
      BY <3>1
  <2>4. ~(i <= VoicesNow)
    BY <1>1, <1>3
  <2>5. i \notin AtOnce(n, e.note)
    BY <1>1, <2>4 DEF AtOnce
  <2> QED
    BY <1>3, <2>2, <2>3, <2>4, <2>5 DEF IsOpen
<1>4. ASSUME NEW i \in 1 .. Len(Chord), i <= VoicesNow
      PROVE  /\ IsOpen(n, i, pending, pads) <=> Order[i] # 0 /\ Wanted(n, i, pads)
             /\ IsOpen(n, i, pending', pads') <=> Order[i] # 0 /\ Wanted(n, i, pads')
             /\ i \in AtOnce(n, e.note) <=> Order[i] # 0 /\ n - Order[i] = e.note
  <2>1. ~(i > VoicesNow) /\ i \in 1 .. VoicesNow
    BY <1>1, <1>4
  <2> QED
    BY <1>4, <2>1 DEF IsOpen, AtOnce
<1>5. \A i \in 1 .. Len(Chord) : i > VoicesNow \/ i <= VoicesNow
  BY <1>1
<1>6. AtOnce(n, e.note) \subseteq 1 .. Len(Chord)
  BY AtOnceFacts DEF VoiceSets
<1> QED
  BY <1>3, <1>4, <1>5, <1>6 DEF Open, Wanted

(* A voice whose turn has come opens, or closes. *)
LEMMA OpenFollowsTurn ==
  ASSUME EchoTypeOK, FxInv, effect # "arp", Alternates(pending, pads),
         NEW i \in LaterVoices, pending[i] # <<>>,
         pending' = [pending EXCEPT ![i] = Tail(@)],
         NEW n \in Pitches
  PROVE  /\ Head(pending[i]) = On(n) =>
              /\ {i} \cap Open(n, pending, pads) = {}
              /\ Open(n, pending', pads) = Open(n, pending, pads) \cup {i}
         /\ Head(pending[i]) = Off(n) =>
              /\ {i} \subseteq Open(n, pending, pads)
              /\ Open(n, pending', pads) = Open(n, pending, pads) \ {i}
         /\ Head(pending[i]).note # n =>
              Open(n, pending', pads) = Open(n, pending, pads)
<1> DEFINE q == pending[i]
           want == Wanted(n, i, pads)
           x == Head(q)
<1>1. /\ q \in Seq(Events) /\ q # <<>> /\ Len(q) \in Nat /\ Len(q) > 0
      /\ x \in Events /\ x = q[1]
  BY DEF EchoTypeOK
<1>2. Strums /\ VoicesNow = 1 /\ i \in 1 .. Len(Chord) /\ i > VoicesNow
  BY OrderFacts DEF FxInv, Strums, VoicesNow, LaterVoices
<1>3. pending'[i] = Tail(q) /\ \A k \in LaterVoices \ {i} : pending'[k] = pending[k]
  BY DEF EchoTypeOK
<1>4. want \in BOOLEAN
  BY DEF Wanted
<1>5. \A j \in 1 .. Len(q) : q[j].note = n => (q[j].on <=> Down(q, n, j, want))
  BY DEF Alternates, Alternate
<1>6. i \in Open(n, pending, pads) <=> Down(q, n, 0, want)
  BY <1>2 DEF Open, IsOpen
<1>7. i \in Open(n, pending', pads) <=> Down(Tail(q), n, 0, want)
  BY <1>2, <1>3 DEF Open, IsOpen
<1>8. ASSUME NEW k \in 1 .. Len(Chord), k # i
      PROVE  k \in Open(n, pending', pads) <=> k \in Open(n, pending, pads)
  <2>1. k > VoicesNow => pending'[k] = pending[k]
    BY <1>2, <1>3, <1>8, OrderFacts DEF LaterVoices
  <2> QED
    BY <1>8, <2>1 DEF Open, IsOpen
<1>9. Open(n, pending', pads) \subseteq 1 .. Len(Chord)
      /\ Open(n, pending, pads) \subseteq 1 .. Len(Chord)
  BY DEF Open
<1> HIDE DEF want, q, x
<1>10. /\ x.note = n => (Down(q, n, 0, want) <=> ~x.on)
       /\ x.note # n => (Down(q, n, 0, want) <=> Down(q, n, 1, want))
  BY <1>1, <1>4, DownHead DEF x
<1>11. Down(Tail(q), n, 0, want) <=> Down(q, n, 1, want)
  <2>1. 0 \in 0 .. Len(q) - 1 /\ 0 + 1 = 1
    BY <1>1
  <2>2. Down(Tail(q), n, 0, want) <=> Down(q, n, 0 + 1, want)
    BY <1>1, <1>4, <2>1, DownTail
  <2> QED
    BY <2>1, <2>2
<1>12. x.note = n => (Down(q, n, 1, want) <=> x.on)
  <2>1. 1 \in 1 .. Len(q)
    BY <1>1
  <2> QED
    BY <1>1, <1>5, <2>1
<1>13. /\ x = On(n) => x.note = n /\ x.on
       /\ x = Off(n) => x.note = n /\ ~x.on
  BY DEF On, Off
<1>14. /\ x = On(n) => i \notin Open(n, pending, pads) /\ i \in Open(n, pending', pads)
       /\ x = Off(n) => i \in Open(n, pending, pads) /\ i \notin Open(n, pending', pads)
       /\ x.note # n => (i \in Open(n, pending', pads) <=> i \in Open(n, pending, pads))
  BY <1>6, <1>7, <1>10, <1>11, <1>12, <1>13
<1>15. Head(pending[i]) = x
  BY DEF x, q
<1> HIDE DEF Open
<1>16. CASE x = On(n)
  <2>1. Open(n, pending', pads) = Open(n, pending, pads) \cup {i}
    BY <1>2, <1>8, <1>9, <1>14, <1>16
  <2> QED
    BY <1>13, <1>14, <1>15, <1>16, <2>1, OnIsNotOff
<1>17. CASE x = Off(n)
  <2>1. Open(n, pending', pads) = Open(n, pending, pads) \ {i}
    BY <1>2, <1>8, <1>9, <1>14, <1>17
  <2> QED
    BY <1>13, <1>14, <1>15, <1>17, <2>1, OnIsNotOff
<1>18. CASE x.note # n
  <2>2. \A k \in 1 .. Len(Chord) :
          k \in Open(n, pending', pads) <=> k \in Open(n, pending, pads)
    BY <1>8, <1>14, <1>18
  <2>1. Open(n, pending', pads) = Open(n, pending, pads)
    BY <1>9, <2>2, Zenon
  <2> QED
    BY <1>13, <1>15, <1>18, <2>1
<1> QED
  BY <1>15, <1>16, <1>17, <1>18

(* What waits still alternates when the first of it goes. *)
LEMMA AlternatesTurn ==
  ASSUME EchoTypeOK, Alternates(pending, pads),
         NEW i \in LaterVoices, pending[i] # <<>>,
         pending' = [pending EXCEPT ![i] = Tail(@)]
  PROVE  Alternates(pending', pads)
<1> DEFINE q == pending[i]
<1>1. q \in Seq(Events) /\ q # <<>> /\ Len(q) \in Nat /\ Len(q) > 0
  BY DEF EchoTypeOK
<1>2. pending'[i] = Tail(q) /\ \A k \in LaterVoices \ {i} : pending'[k] = pending[k]
  BY DEF EchoTypeOK
<1> HIDE DEF q
<1>3. ASSUME NEW n \in Pitches PROVE Alternate(n, i, Tail(q), pads)
  <2> SUFFICES ASSUME NEW j \in 1 .. Len(Tail(q)), Tail(q)[j].note = n
               PROVE  Tail(q)[j].on <=> Down(Tail(q), n, j, Wanted(n, i, pads))
    BY DEF Alternate
  <2>1. j + 1 \in 1 .. Len(q) /\ Tail(q)[j] = q[j + 1] /\ j \in 0 .. Len(q) - 1
    BY <1>1
  <2>2. q[j + 1].on <=> Down(q, n, j + 1, Wanted(n, i, pads))
    BY <2>1 DEF Alternates, Alternate, q
  <2>3. Wanted(n, i, pads) \in BOOLEAN
    BY DEF Wanted
  <2>4. Down(Tail(q), n, j, Wanted(n, i, pads))
          <=> Down(q, n, j + 1, Wanted(n, i, pads))
    BY <1>1, <2>1, <2>3, DownTail
  <2> QED
    BY <2>1, <2>2, <2>4
<1> QED
  BY <1>2, <1>3 DEF Alternates

(* The invariant after a step, said in what the step leaves. *)
KnownNext ==
  /\ effect' = effect
  /\ ~mistaken'
  /\ \A n \in playing' : n \in pads' \/ pre_injected_notes'[n] > 0
  /\ \A n \in Pitches :
       pre_pad_held'[n] = IF midi_fx_pre_mode' /\ n \in pads' THEN 1 ELSE 0
  /\ Alternates(pending', pads')
  /\ midi_fx_pre_mode' => \A n \in Pitches :
       Balanced(n, inject', Open(n, pending', pads'), pre_injected_notes'[n])
  /\ ~midi_fx_pre_mode' =>
       inject' = <<>> /\ \A n \in Pitches : pre_injected_notes'[n] = 0

(* KnownNext is the invariant after the step. *)
LEMMA KnownAfter ==
  ASSUME KnownNext
  PROVE  NotesKnown'
<1>1. Order' = Order /\ VoicesNow' = VoicesNow
  BY SameEffect DEF KnownNext
<1>2. Alternates(pending, pads)' <=> Alternates(pending', pads')
  BY <1>1 DEF Alternates, Alternate, Wanted
<1>3. ASSUME NEW n \in Pitches
      PROVE  Open(n, pending, pads)' = Open(n, pending', pads')
  BY <1>1 DEF Open, IsOpen, Wanted
<1>4. ASSUME midi_fx_pre_mode' PROVE CountsBalance'
  <2>1. \A n \in Pitches : Balanced(n, inject', Open(n, pending, pads)',
                                    pre_injected_notes'[n])
    BY <1>3, <1>4 DEF KnownNext
  <2> QED
    BY <2>1 DEF CountsBalance
<1> QED
  BY <1>2, <1>4 DEF KnownNext, NotesKnown, SoundsAreKnown, PadsAreCounted

(* The pads the slot counts are the pads that are down. *)
LEMMA PadCount ==
  ASSUME EchoTypeOK, PadsAreCounted, NEW e \in Events, CountPad(e),
         midi_fx_pre_mode' = midi_fx_pre_mode,
         e.on <=> e.note \notin pads,
         pads' = IF e.on THEN pads \cup {e.note} ELSE pads \ {e.note}
  PROVE  \A n \in Pitches :
           pre_pad_held'[n] = IF midi_fx_pre_mode' /\ n \in pads' THEN 1 ELSE 0
<1>1. e.note \in Pitches /\ e.on \in BOOLEAN /\ 1 <= CountMax /\ CountMax \in Nat
  BY EchoAssumption, OrderFacts DEF Events
<1>2. pre_pad_held \in [Pitches -> 0 .. CountMax]
  BY DEF EchoTypeOK
<1>3. CASE ~midi_fx_pre_mode
  BY <1>3 DEF CountPad, PadsAreCounted
<1>4. CASE midi_fx_pre_mode /\ e.on
  <2>1. pre_pad_held[e.note] = 0
    BY <1>1, <1>4 DEF PadsAreCounted
  <2>2. Up(0, 1) = 1
    BY <1>1 DEF Up
  <2>3. pre_pad_held' = [pre_pad_held EXCEPT ![e.note] = 1]
    BY <1>4, <2>1, <2>2 DEF CountPad
  <2> QED
    BY <1>1, <1>2, <1>4, <2>3 DEF PadsAreCounted
<1>5. CASE midi_fx_pre_mode /\ ~e.on
  <2>1. pre_pad_held[e.note] = 1
    BY <1>1, <1>5 DEF PadsAreCounted
  <2>2. pre_pad_held' = [pre_pad_held EXCEPT ![e.note] = 0]
    BY <1>5, <2>1 DEF CountPad
  <2> QED
    BY <1>1, <1>2, <1>5, <2>2 DEF PadsAreCounted
<1> QED
  BY <1>3, <1>4, <1>5

(* What is injected for a pad is counted for as long as its releases are   *)
(* to come: the counts have room for all of them.                          *)
LEMMA InjectBalances ==
  ASSUME EchoTypeOK, midi_fx_pre_mode, NEW s \in Seq(Events),
         InjectAll(s, inject), ~Refused(s, inject), NEW n \in Pitches,
         NEW open \in VoiceSets, NEW I \in VoiceSets,
         Balanced(n, inject, open, pre_injected_notes[n])
  PROVE  /\ I \cap open = {} /\ Occurs(s, Off(n)) = 0
              /\ Occurs(s, On(n)) = Cardinality(I) =>
              /\ Balanced(n, inject', open \cup I, pre_injected_notes'[n])
              /\ pre_injected_notes'[n] >= pre_injected_notes[n]
         /\ I \subseteq open /\ Occurs(s, On(n)) = 0
              /\ Occurs(s, Off(n)) = Cardinality(I) =>
              /\ Balanced(n, inject', open \ I, pre_injected_notes'[n])
              /\ pre_injected_notes'[n] = pre_injected_notes[n]
<1>1. inject \in Seq(Events) /\ Len(inject) <= QueueMax
  BY DEF EchoTypeOK
<1>2. /\ inject' = inject \o s
      /\ pre_injected_notes'[n] = Up(pre_injected_notes[n], Occurs(s, On(n)))
  BY <1>1, InjectExact
<1>3. inject' \in Seq(Events) /\ Len(inject') <= QueueMax
  BY <1>1, InjectTypes
<1>4. pre_injected_notes[n] \in Nat /\ pre_injected_notes[n] <= CountMax
      /\ CountMax \in Nat /\ QueueMax \in Nat /\ Len(Chord) \in Nat
      /\ QueueMax + Len(Chord) <= CountMax /\ Len(inject') \in Nat
  BY <1>3, EchoAssumption DEF EchoTypeOK
<1>5. Occurs(s, On(n)) \in Nat
  <2>1. Occurs(s, On(n)) \in 0 .. Len(s) /\ Len(s) \in Nat
    BY OccursFacts
  <2> QED
    BY <2>1
<1>6. ASSUME I \cap open = {}, Occurs(s, Off(n)) = 0, Occurs(s, On(n)) = Cardinality(I)
      PROVE  /\ Balanced(n, inject', open \cup I, pre_injected_notes'[n])
             /\ pre_injected_notes'[n] >= pre_injected_notes[n]
  <2>1. PICK c \in Nat : c = pre_injected_notes[n] + Occurs(s, On(n))
    BY <1>4, <1>5
  <2>2. Balanced(n, inject', open \cup I, c)
    BY <1>1, <1>2, <1>6, <2>1, BalancedOn
  <2>3. open \cup I \in VoiceSets
    BY DEF VoiceSets
  <2>4. c <= Len(inject') + Len(Chord)
    BY <1>3, <2>2, <2>3, BalancedBound
  <2>5. pre_injected_notes'[n] = c
    <3>1. pre_injected_notes[n] + Occurs(s, On(n)) <= CountMax
      BY <1>3, <1>4, <2>1, <2>4
    <3> QED
      BY <1>2, <2>1, <3>1 DEF Up
  <2> QED
    BY <1>4, <1>5, <2>1, <2>2, <2>5
<1>7. ASSUME I \subseteq open, Occurs(s, On(n)) = 0, Occurs(s, Off(n)) = Cardinality(I)
      PROVE  /\ Balanced(n, inject', open \ I, pre_injected_notes'[n])
             /\ pre_injected_notes'[n] = pre_injected_notes[n]
  <2>1. pre_injected_notes'[n] = pre_injected_notes[n]
    BY <1>2, <1>4, <1>7 DEF Up
  <2>2. Balanced(n, inject \o s, open \ I, pre_injected_notes[n])
    BY <1>1, <1>7, BalancedOff
  <2> QED
    BY <1>2, <2>1, <2>2
<1> QED
  BY <1>6, <1>7

(* A pad that the filter passes on: what the chord makes of it is counted, *)
(* and its voices open or close.                                           *)
LEMMA PadKnown ==
  ASSUME Transpose = 0, EchoTypeOK, FxInv, effect # "arp", ~upset, NotesKnown,
         NEW e \in Events, Pad(e), ~upset',
         e.on <=> e.note \notin pads,
         pads' = IF e.on THEN pads \cup {e.note} ELSE pads \ {e.note}
  PROVE  NotesKnown'
<1> DEFINE s == NotTheInput(e)
           p == e.note
<1>1. Heard(e) = e /\ InRange(e) /\ p \in Pitches /\ e.on \in BOOLEAN
  BY HeardIs DEF Events
<1>2. Dispatch(e, inject) /\ ~Eaten(e) /\ ~NoRoom(e, inject)
      /\ effect' = effect /\ mistaken' = mistaken /\ playing' = Played(e)
  BY <1>1 DEF Pad
<1>3. ~IsEcho(e)
  BY <1>1, <1>2 DEF Eaten
<1>4. midi_fx_pre_mode' = midi_fx_pre_mode /\ CountPad(e) /\ FxProcess(e)
      /\ InjectAll(s, inject)
  BY <1>1, <1>2, <1>3 DEF Dispatch, OnMidi
<1>5. ~Refused(s, inject)
  BY <1>1, <1>2, <1>3 DEF NoRoom, Passes
<1>6. /\ s \in Seq(Events)
      /\ \A n \in Pitches :
           /\ Occurs(s, Sounds(e.on, n)) = Cardinality(AtOnce(n, p))
           /\ Occurs(s, Sounds(~e.on, n)) = 0
           /\ AtOnce(n, p) \in VoiceSets
           /\ Open(n, pending, pads) \in VoiceSets
  <2>1. s \in Seq(Events)
    BY <1>1, VoicesOut
  <2>2. ASSUME NEW n \in Pitches
        PROVE  /\ Occurs(s, Sounds(e.on, n)) = Cardinality(AtOnce(n, p))
               /\ Occurs(s, Sounds(~e.on, n)) = 0
    BY VoicesOut
  <2> QED
    BY <2>1, <2>2, AtOnceFacts, OpenIsVoices
<1>7. inject \in Seq(Events) /\ Len(inject) <= QueueMax
  BY DEF EchoTypeOK
<1> HIDE DEF s
<1>8. \A n \in Pitches :
        pre_pad_held'[n] = IF midi_fx_pre_mode' /\ n \in pads' THEN 1 ELSE 0
  BY <1>4, PadCount DEF NotesKnown
<1>9. Alternates(pending', pads')
  <2>1. CASE Strums
    BY <1>4, <2>1, WaitsFollowPads DEF NotesKnown, Alternates
  <2>2. CASE ~Strums
    <3>1. \A i \in LaterVoices : pending'[i] = <<>>
      BY <1>4, <2>2 DEF FxProcess, FxInv, Strums
    <3>2. Len(<<>>) = 0
      OBVIOUS
    <3> QED
      BY <3>1, <3>2 DEF Alternates, Alternate
  <2> QED
    BY <2>1, <2>2
<1>10. CASE midi_fx_pre_mode
  <2>1. ASSUME NEW n \in Pitches
        PROVE  /\ Balanced(n, inject', Open(n, pending', pads'), pre_injected_notes'[n])
               /\ pre_injected_notes'[n] >= pre_injected_notes[n]
    <3>1. Balanced(n, inject, Open(n, pending, pads), pre_injected_notes[n])
      BY <1>10 DEF NotesKnown, CountsBalance
    <3>2. CASE e.on
      <4>1. /\ AtOnce(n, p) \cap Open(n, pending, pads) = {}
            /\ Open(n, pending', pads') = Open(n, pending, pads) \cup AtOnce(n, p)
        BY <1>4, <3>2, OpenFollowsPads
      <4>2. Occurs(s, On(n)) = Cardinality(AtOnce(n, p)) /\ Occurs(s, Off(n)) = 0
        BY <1>6, <3>2 DEF Sounds
      <4>3. AtOnce(n, p) \in VoiceSets /\ Open(n, pending, pads) \in VoiceSets
            /\ s \in Seq(Events)
        BY <1>6
      <4> QED
        BY <1>4, <1>5, <1>10, <3>1, <4>1, <4>2, <4>3, InjectBalances
    <3>3. CASE ~e.on
      <4>1. /\ AtOnce(n, p) \subseteq Open(n, pending, pads)
            /\ Open(n, pending', pads') = Open(n, pending, pads) \ AtOnce(n, p)
        BY <1>4, <3>3, OpenFollowsPads
      <4>2. Occurs(s, Off(n)) = Cardinality(AtOnce(n, p)) /\ Occurs(s, On(n)) = 0
        BY <1>6, <3>3 DEF Sounds
      <4>3. AtOnce(n, p) \in VoiceSets /\ Open(n, pending, pads) \in VoiceSets
            /\ s \in Seq(Events)
        BY <1>6
      <4>4. /\ Balanced(n, inject', Open(n, pending', pads'), pre_injected_notes'[n])
            /\ pre_injected_notes'[n] = pre_injected_notes[n]
        BY <1>4, <1>5, <1>10, <3>1, <4>1, <4>2, <4>3, InjectBalances
      <4>5. pre_injected_notes[n] \in Nat
        BY EchoAssumption DEF EchoTypeOK
      <4> QED
        BY <4>4, <4>5
    <3> QED
      BY <3>2, <3>3
  <2>2. ASSUME NEW n \in playing' PROVE n \in pads' \/ pre_injected_notes'[n] > 0
    <3>1. n \in Pitches
      BY <1>2, <2>2, PlayedTypes
    <3>2. n \in playing \/ (e.on /\ n = p)
      BY <1>2, <2>2 DEF Played
    <3>3. ~e.on => n # p
      BY <1>1, <1>2, <2>2, Zenon DEF Played
    <3>4. CASE e.on /\ n = p
      BY <3>4
    <3>5. CASE n \in playing /\ n # p
      <4>1. n \in pads \/ pre_injected_notes[n] > 0
        BY <3>5 DEF NotesKnown, SoundsAreKnown
      <4>2. n \in pads => n \in pads'
        BY <3>5
      <4>3. pre_injected_notes'[n] >= pre_injected_notes[n]
        BY <2>1, <3>1
      <4>4. pre_injected_notes[n] \in Nat /\ pre_injected_notes'[n] \in Int
        <5>1. pre_injected_notes' \in [Pitches -> 0 .. CountMax]
          BY <1>4, <1>6, <1>7, InjectTypes
        <5> QED
          BY <3>1, <5>1, EchoAssumption DEF EchoTypeOK
      <4> QED
        BY <4>1, <4>2, <4>3, <4>4
    <3> QED
      BY <3>2, <3>3, <3>4, <3>5
  <2>3. KnownNext
    BY <1>2, <1>4, <1>8, <1>9, <1>10, <2>1, <2>2 DEF KnownNext, NotesKnown
  <2> QED
    BY <2>3, KnownAfter
<1>11. CASE ~midi_fx_pre_mode
  <2>1. inject' = inject /\ pre_injected_notes' = pre_injected_notes
    BY <1>4, <1>5, <1>6, <1>7, <1>11, InjectExact
  <2>2. ASSUME NEW n \in playing' PROVE n \in pads' \/ pre_injected_notes'[n] > 0
    <3>1. n \in playing \/ (e.on /\ n = p)
      BY <1>2, <2>2 DEF Played
    <3>2. ~e.on => n # p
      BY <1>1, <1>2, <2>2, Zenon DEF Played
    <3>3. n \in playing => n \in pads \/ pre_injected_notes[n] > 0
      BY DEF NotesKnown, SoundsAreKnown
    <3> QED
      BY <2>1, <3>1, <3>2, <3>3
  <2>3. KnownNext
    BY <1>2, <1>4, <1>8, <1>9, <1>11, <2>1, <2>2 DEF KnownNext, NotesKnown
  <2> QED
    BY <2>3, KnownAfter
<1> QED
  BY <1>10, <1>11

(* An echo is what the filter takes it for, and a release takes itself off *)
(* the count of its pitch, whoever else has that pitch open.               *)
LEMMA EchoKnown ==
  ASSUME Transpose = 0, EchoTypeOK, FxInv, effect # "arp", ~upset, NotesKnown,
         Echo, ~upset'
  PROVE  NotesKnown' /\ UNCHANGED fxVars
<1> DEFINE e == Head(inject)
<1>1. /\ inject \in Seq(Events) /\ inject # <<>> /\ e \in Events
      /\ e.note \in Pitches /\ e.on \in BOOLEAN
      /\ Heard(e) = e /\ InRange(e)
  <2>1. inject \in Seq(Events) /\ inject # <<>>
    BY DEF Echo, EchoTypeOK
  <2>2. e \in Events
    BY <2>1
  <2> QED
    BY <2>1, <2>2, HeardIs DEF Events
<1>2. midi_fx_pre_mode
  BY <1>1 DEF NotesKnown
<1>3. \A n \in Pitches :
        /\ Balanced(n, inject, Open(n, pending, pads), pre_injected_notes[n])
        /\ Open(n, pending, pads) \in VoiceSets
  BY <1>2, OpenIsVoices DEF NotesKnown, CountsBalance
<1>4. /\ Dispatch(e, Tail(inject))
      /\ mistaken' = (mistaken \/ (midi_fx_pre_mode /\ Passes(e)))
      /\ playing' = Played(e)
      /\ effect' = effect /\ pads' = pads
  BY DEF Echo
<1> HIDE DEF e
<1>5. ASSUME NEW n \in Pitches
      PROVE  /\ e = On(n) => pre_injected_notes[n] > 0
             /\ e = Off(n) => /\ pre_injected_notes[n] > 0
                              /\ Balanced(n, Tail(inject), Open(n, pending, pads),
                                          pre_injected_notes[n] - 1)
             /\ e # Off(n) => Balanced(n, Tail(inject), Open(n, pending, pads),
                                       pre_injected_notes[n])
  BY <1>1, <1>3, BalancedHead DEF e
<1>6. e = On(e.note) \/ e = Off(e.note)
  BY <1>1, EventsAre DEF EventIs
<1>7. IsEcho(e)
  BY <1>1, <1>2, <1>5, <1>6 DEF IsEcho
<1>8. /\ DropEcho(e) /\ inject' = Tail(inject)
      /\ UNCHANGED <<pre_pad_held, fxVars, midi_fx_pre_mode>>
  BY <1>1, <1>4, <1>7 DEF Dispatch, OnMidi
<1>9. pending' = pending
  BY <1>8 DEF fxVars
<1>10. pre_injected_notes \in [Pitches -> 0 .. CountMax]
  BY DEF EchoTypeOK
<1>11. ASSUME NEW n \in Pitches
       PROVE  /\ e = Off(n) => pre_injected_notes'[n] = pre_injected_notes[n] - 1
              /\ e # Off(n) => pre_injected_notes'[n] = pre_injected_notes[n]
  <2>1. e = Off(n) <=> ~e.on /\ e.note = n
    BY <1>1, OffIs
  <2> QED
    BY <1>1, <1>8, <1>10, <2>1 DEF DropEcho
<1>12. ASSUME NEW n \in Pitches
       PROVE  Balanced(n, inject', Open(n, pending', pads'), pre_injected_notes'[n])
  BY <1>4, <1>5, <1>8, <1>9, <1>11
<1>13. ASSUME NEW n \in playing' PROVE n \in pads' \/ pre_injected_notes'[n] > 0
  <2>1. n \in Pitches
    BY <1>1, <1>4, <1>13, PlayedTypes
  <2>2. CASE e = On(n)
    BY <1>5, <1>11, <2>1, <2>2, OnIsNotOff
  <2>3. CASE e # On(n)
    <3>1. n \in playing /\ e # Off(n)
      <4>1. /\ e.note = n => (e = On(n) <=> e.on) /\ (e = Off(n) <=> ~e.on)
            /\ e.note # n => e # Off(n)
        BY <1>1, OffIs
      <4> QED
        BY <1>4, <1>13, <2>3, <4>1 DEF Played
    <3> QED
      BY <1>4, <1>11, <2>1, <3>1 DEF NotesKnown, SoundsAreKnown
  <2> QED
    BY <2>2, <2>3
<1>14. ~mistaken'
  BY <1>1, <1>4, <1>7 DEF Passes, NotesKnown
<1>15. KnownNext
  <2>1. Alternates(pending', pads')
    BY <1>4, <1>9 DEF NotesKnown
  <2>2. \A n \in Pitches :
          pre_pad_held'[n] = IF midi_fx_pre_mode' /\ n \in pads' THEN 1 ELSE 0
    BY <1>4, <1>8 DEF NotesKnown, PadsAreCounted
  <2> QED
    BY <1>2, <1>4, <1>8, <1>12, <1>13, <1>14, <2>1, <2>2 DEF KnownNext
<1> QED
  BY <1>8, <1>15, KnownAfter

(* What waits first is injected: its voice opens, or closes. *)
LEMMA TurnKnown ==
  ASSUME EchoTypeOK, FxInv, effect # "arp", ~upset, NotesKnown,
         NEW i \in LaterVoices, StrumTick(i), ~upset'
  PROVE  NotesKnown'
<1> DEFINE x == Head(pending[i])
           out == <<x>>
           s == Ticked(out)
<1>1. pending[i] \in Seq(Events) /\ pending[i] # <<>>
  BY DEF StrumTick, EchoTypeOK
<1>2. x \in Events /\ x.note \in Pitches /\ out \in Seq(Events)
      /\ (x = On(x.note) \/ x = Off(x.note))
  <2>1. x \in Events
    BY <1>1
  <2> QED
    BY <2>1, EventsAre DEF EventIs
<1>3. /\ TickInjects(out)
      /\ pending' = [pending EXCEPT ![i] = Tail(@)]
  BY DEF StrumTick
<1>4. /\ InjectAll(s, inject) /\ ~Refused(s, inject)
      /\ \A e \in ToSet(out) : MayTick(e)
      /\ UNCHANGED <<effect, midi_fx_pre_mode, pre_pad_held, pads, playing, mistaken>>
  BY <1>3 DEF TickInjects
<1>5. MayTick(x)
  <2>1. Len(out) = 1 /\ out[1] = x /\ 1 \in 1 .. Len(out)
    OBVIOUS
  <2>2. x \in ToSet(out)
    BY <2>1 DEF ToSet
  <2> QED
    BY <1>4, <2>2
<1>6. /\ s \in Seq(Events)
      /\ \A e : Occurs(s, e) = IF e = x THEN 1 ELSE 0
  <2> DEFINE S == {e \in Events : MayTick(e)}
  <2>1. s = Only(out, S)
    BY DEF Ticked
  <2>2. x \in S
    BY <1>2, <1>5
  <2>3. \A e : Occurs(out, e) = IF x = e THEN 1 ELSE 0
    BY OccursOne
  <2> HIDE DEF S, s, x, out
  <2>4. s \in Seq(Events)
        /\ \A e : Occurs(s, e) = IF e \in S THEN Occurs(out, e) ELSE 0
    BY <1>2, <2>1, OnlyFacts
  <2> QED
    BY <2>2, <2>3, <2>4
<1>7. i \in 1 .. Len(Chord) /\ {i} \in VoiceSets /\ Cardinality({i}) = 1
      /\ {} \in VoiceSets /\ Cardinality({}) = 0
  <2>1. i \in 1 .. Len(Chord)
    BY OrderFacts DEF LaterVoices
  <2> QED
    BY <2>1, FS_Singleton, FS_EmptySet DEF VoiceSets
<1>8. inject \in Seq(Events) /\ Len(inject) <= QueueMax
  BY DEF EchoTypeOK
<1>9. Alternates(pending', pads')
  <2>1. Alternates(pending', pads)
    BY <1>1, <1>3, AlternatesTurn DEF NotesKnown
  <2> QED
    BY <1>4, <2>1
<1>10. pre_injected_notes' \in [Pitches -> 0 .. CountMax]
       /\ pre_injected_notes \in [Pitches -> 0 .. CountMax] /\ CountMax \in Nat
  BY <1>4, <1>6, <1>8, InjectTypes, EchoAssumption DEF EchoTypeOK
<1>11. \A n \in Pitches :
         pre_pad_held'[n] = IF midi_fx_pre_mode' /\ n \in pads' THEN 1 ELSE 0
  BY <1>4 DEF NotesKnown, PadsAreCounted
<1>12. \A n \in playing' : n \in Pitches /\ (n \in pads' \/ pre_injected_notes[n] > 0)
  BY <1>4 DEF NotesKnown, SoundsAreKnown, EchoTypeOK
<1>13. ASSUME NEW n \in Pitches
       PROVE  /\ x = On(n) =>
                   /\ {i} \cap Open(n, pending, pads) = {}
                   /\ Open(n, pending', pads) = Open(n, pending, pads) \cup {i}
              /\ x = Off(n) =>
                   /\ {i} \subseteq Open(n, pending, pads)
                   /\ Open(n, pending', pads) = Open(n, pending, pads) \ {i}
              /\ x.note # n =>
                   Open(n, pending', pads) = Open(n, pending, pads)
  BY <1>1, <1>3, OpenFollowsTurn DEF NotesKnown
<1> HIDE DEF s, x, out
<1>14. CASE midi_fx_pre_mode
  <2>1. ASSUME NEW n \in Pitches
        PROVE  /\ Balanced(n, inject', Open(n, pending', pads'), pre_injected_notes'[n])
               /\ pre_injected_notes'[n] >= pre_injected_notes[n]
    <3> DEFINE open == Open(n, pending, pads)
    <3>1. Balanced(n, inject, open, pre_injected_notes[n]) /\ open \in VoiceSets
      BY <1>14, OpenIsVoices DEF NotesKnown, CountsBalance
    <3>2. On(n) # Off(n)
      BY OnIsNotOff
    <3>3. Occurs(s, On(n)) = IF x = On(n) THEN 1 ELSE 0
      BY <1>6
    <3>4. Occurs(s, Off(n)) = IF x = Off(n) THEN 1 ELSE 0
      BY <1>6
    <3>8. pre_injected_notes[n] \in Int
      BY <1>10
    <3> HIDE DEF open
    <3>5. CASE x = On(n)
      <4>1. {i} \cap open = {} /\ Open(n, pending', pads') = open \cup {i}
        BY <1>4, <1>13, <3>5 DEF open
      <4>2. Occurs(s, On(n)) = Cardinality({i}) /\ Occurs(s, Off(n)) = 0
        BY <1>7, <3>2, <3>3, <3>4, <3>5
      <4> QED
        BY <1>4, <1>6, <1>7, <1>14, <3>1, <4>1, <4>2, InjectBalances
    <3>6. CASE x = Off(n)
      <4>1. {i} \subseteq open /\ Open(n, pending', pads') = open \ {i}
        BY <1>4, <1>13, <3>6 DEF open
      <4>2. Occurs(s, Off(n)) = Cardinality({i}) /\ Occurs(s, On(n)) = 0
        BY <1>7, <3>2, <3>3, <3>4, <3>6
      <4>3. /\ Balanced(n, inject', open \ {i}, pre_injected_notes'[n])
            /\ pre_injected_notes'[n] = pre_injected_notes[n]
        BY <1>4, <1>6, <1>7, <1>14, <3>1, <4>1, <4>2, InjectBalances
      <4> QED
        BY <3>8, <4>1, <4>3
    <3>7. CASE x # On(n) /\ x # Off(n)
      <4>1. x.note # n
        BY <1>2, <3>7
      <4>2. Open(n, pending', pads') = open /\ open \ {} = open /\ {} \subseteq open
        BY <1>4, <1>13, <4>1 DEF open
      <4>3. Occurs(s, Off(n)) = Cardinality({}) /\ Occurs(s, On(n)) = 0
        BY <1>7, <3>3, <3>4, <3>7
      <4>4. /\ Balanced(n, inject', open \ {}, pre_injected_notes'[n])
            /\ pre_injected_notes'[n] = pre_injected_notes[n]
        BY <1>4, <1>6, <1>7, <1>14, <3>1, <4>2, <4>3, InjectBalances
      <4> QED
        BY <3>8, <4>2, <4>4
    <3> QED
      BY <3>5, <3>6, <3>7
  <2>2. ASSUME NEW n \in playing' PROVE n \in pads' \/ pre_injected_notes'[n] > 0
    <3>1. n \in Pitches /\ (n \in pads' \/ pre_injected_notes[n] > 0)
      BY <1>12
    <3>2. pre_injected_notes'[n] >= pre_injected_notes[n]
      BY <2>1, <3>1
    <3>3. pre_injected_notes'[n] \in Int /\ pre_injected_notes[n] \in Int
      BY <1>10, <3>1
    <3> QED
      BY <3>1, <3>2, <3>3
  <2>3. KnownNext
    BY <1>4, <1>9, <1>11, <1>14, <2>1, <2>2 DEF KnownNext, NotesKnown
  <2> QED
    BY <2>3, KnownAfter
<1>15. CASE ~midi_fx_pre_mode
  <2>1. inject' = inject /\ pre_injected_notes' = pre_injected_notes
    BY <1>4, <1>6, <1>8, <1>15, InjectExact
  <2>2. KnownNext
    BY <1>4, <1>9, <1>11, <1>12, <1>15, <2>1 DEF KnownNext, NotesKnown
  <2> QED
    BY <2>2, KnownAfter
<1> QED
  BY <1>14, <1>15

(* A switch that finds nothing on its way and nothing sounding begins      *)
(* again.                                                                  *)
LEMMA QuietIsKnown ==
  ASSUME EchoTypeOK, inject = <<>>, pads = {}, effect # "arp",
         \A i \in LaterVoices : pending[i] = <<>>
  PROVE  /\ Alternates(pending, pads)
         /\ \A n \in Pitches : Open(n, pending, pads) = {}
         /\ \A n \in Pitches : Balanced(n, inject, Open(n, pending, pads), 0)
<1>1. Len(<<>>) = 0
  OBVIOUS
<1>2. Alternates(pending, pads)
  BY <1>1 DEF Alternates, Alternate
<1>3. ASSUME NEW n \in Pitches PROVE Open(n, pending, pads) = {}
  <2> SUFFICES ASSUME NEW i \in 1 .. Len(Chord), IsOpen(n, i, pending, pads)
               PROVE  FALSE
    BY DEF Open
  <2>1. i > VoicesNow => i \in LaterVoices
    BY OrderFacts DEF LaterVoices
  <2>2. ~Wanted(n, i, pads)
    BY DEF Wanted
  <2>3. i > VoicesNow => ~Down(<<>>, n, 0, Wanted(n, i, pads))
    BY <1>1, <2>2 DEF Down
  <2> QED
    BY <2>1, <2>2, <2>3 DEF IsOpen
<1>4. ASSUME NEW n \in Pitches
      PROVE  Balanced(n, inject, Open(n, pending, pads), 0)
  <2>1. Occurs(<<>>, Off(n)) = 0 /\ Cardinality({}) = 0
    BY OccursNone, FS_EmptySet
  <2>2. Answered(n, <<>>, {})
    BY <1>1 DEF Answered
  <2>3. Balanced(n, <<>>, {}, 0)
    BY <2>1, <2>2 DEF Balanced
  <2> QED
    BY <1>3, <2>3
<1> QED
  BY <1>2, <1>3, <1>4

(* v2_set_param("midi_fx_pre_mode") begins again. *)
LEMMA SwitchKnown ==
  ASSUME EchoTypeOK, effect # "arp", SetPreMode, ~upset'
  PROVE  NotesKnown'
<1>1. /\ inject = <<>> /\ pads = {} /\ playing = {}
      /\ \A i \in LaterVoices : pending[i] = <<>>
  BY DEF SetPreMode, Quiet
<1>2. /\ effect' = effect /\ pending' = pending /\ inject' = inject /\ pads' = pads
      /\ playing' = playing /\ ~mistaken'
      /\ \A n \in Pitches : pre_injected_notes'[n] = 0 /\ pre_pad_held'[n] = 0
  BY DEF SetPreMode, ResetCounts, fxVars, moveVars
<1>3. /\ Alternates(pending, pads)
      /\ \A n \in Pitches : Balanced(n, inject, Open(n, pending, pads), 0)
  BY <1>1, QuietIsKnown
<1>4. KnownNext
  BY <1>1, <1>2, <1>3 DEF KnownNext
<1> QED
  BY <1>4, KnownAfter

(* The two events of n. *)
LEMMA OnOffNotes ==
  ASSUME NEW n
  PROVE  On(n).note = n /\ On(n).on = TRUE /\ Off(n).note = n /\ Off(n).on = FALSE
  BY DEF On, Off

(* What an effect does not use stays empty. *)
LEMMA FxStep == EchoTypeOK /\ FxInv /\ [EchoNext]_echoVars => FxInv'
<1> SUFFICES ASSUME EchoTypeOK, FxInv, [EchoNext]_echoVars PROVE FxInv'
  OBVIOUS
<1>1. ASSUME NEW e, NEW queue, Dispatch(e, queue), effect' = effect PROVE FxInv'
  <2>1. CASE UNCHANGED fxVars
    BY <1>1, <2>1 DEF FxInv, fxVars, Strums
  <2>2. CASE FxProcess(Heard(e))
    BY <1>1, <2>2 DEF FxInv, FxProcess, Strums
  <2> QED
    BY <1>1, <2>1, <2>2 DEF Dispatch, OnMidi, fxVars
<1>2. ASSUME NEW e, Pad(e) PROVE FxInv'
  BY <1>1, <1>2 DEF Pad
<1>3. CASE Echo
  BY <1>1, <1>3 DEF Echo
<1>4. ASSUME NEW n \in Pitches, ArpStep(n) PROVE FxInv'
  BY <1>4 DEF ArpStep, TickInjects, FxInv, Strums
<1>5. ASSUME NEW i \in LaterVoices, StrumTick(i) PROVE FxInv'
  BY <1>5 DEF StrumTick, TickInjects, FxInv, Strums
<1>6. CASE ArpRest
  BY <1>6 DEF ArpRest, TickInjects, FxInv, Strums
<1>7. CASE LoseEcho \/ SetPreMode \/ UNCHANGED echoVars
  <2>1. UNCHANGED <<effect, fxVars>>
    BY <1>7 DEF LoseEcho, SetPreMode, echoVars
  <2> QED
    BY <2>1 DEF FxInv, Strums, fxVars
<1> QED
  BY <1>2, <1>3, <1>4, <1>5, <1>6, <1>7 DEF EchoNext, Tick, PadDown, PadUp

(* Every step keeps what is known of chords and strums. *)
LEMMA NoteStep ==
  ASSUME Transpose = 0
  PROVE  EchoTypeOK /\ FxInv /\ NoteInv /\ [EchoNext]_echoVars => NoteInv'
<1> SUFFICES ASSUME EchoTypeOK, FxInv, NoteInv, [EchoNext]_echoVars,
                    ~upset', effect' # "arp"
             PROVE  NotesKnown'
  BY DEF NoteInv
<1>1. CASE SetPreMode
  <2>1. effect # "arp"
    BY <1>1 DEF SetPreMode
  <2> QED
    BY <1>1, <2>1, SwitchKnown
<1>2. ASSUME NEW n \in Pitches, PadDown(n) PROVE NotesKnown'
  <2>1. Pad(On(n)) /\ ~upset /\ effect # "arp" /\ NotesKnown
    BY <1>2 DEF PadDown, Pad, NoteInv
  <2>2. On(n) \in Events /\ On(n).note = n /\ On(n).on = TRUE
    BY OnOffTypes, OnOffNotes
  <2>3. pads' = pads \cup {n} /\ n \notin pads
    BY <1>2 DEF PadDown
  <2> QED
    BY <2>1, <2>2, <2>3, PadKnown
<1>3. ASSUME NEW n \in Pitches, PadUp(n) PROVE NotesKnown'
  <2>1. Pad(Off(n)) /\ ~upset /\ effect # "arp" /\ NotesKnown
    BY <1>3 DEF PadUp, Pad, NoteInv
  <2>2. Off(n) \in Events /\ Off(n).note = n /\ Off(n).on = FALSE
    BY OnOffTypes, OnOffNotes
  <2>3. pads' = pads \ {n} /\ n \in pads
    BY <1>3 DEF PadUp
  <2> QED
    BY <2>1, <2>2, <2>3, PadKnown
<1>4. ASSUME NEW n \in Pitches, ArpStep(n) PROVE NotesKnown'
  BY <1>4 DEF ArpStep, TickInjects, FxInv
<1>5. CASE ArpRest
  BY <1>5 DEF ArpRest, TickInjects, FxInv
<1>6. CASE LoseEcho
  BY <1>6 DEF LoseEcho
<1>7. CASE Echo
  <2>1. ~upset /\ effect # "arp" /\ NotesKnown
    BY <1>7 DEF Echo, NoteInv
  <2> QED
    BY <1>7, <2>1, EchoKnown
<1>8. ASSUME NEW i \in LaterVoices, StrumTick(i) PROVE NotesKnown'
  <2>1. ~upset /\ effect # "arp" /\ NotesKnown
    BY <1>8 DEF StrumTick, TickInjects, NoteInv
  <2> QED
    BY <1>8, <2>1, TurnKnown
<1>9. CASE UNCHANGED echoVars
  <2>1. /\ UNCHANGED <<effect, midi_fx_pre_mode, pre_injected_notes, pre_pad_held,
                       pending, inject, pads, playing, mistaken, upset>>
        /\ NotesKnown
    BY <1>9 DEF echoVars, slotVars, fxVars, moveVars, NoteInv
  <2>2. KnownNext
    BY <2>1 DEF KnownNext, NotesKnown, SoundsAreKnown, PadsAreCounted, CountsBalance
  <2> QED
    BY <2>2, KnownAfter
<1> QED
  BY <1>1, <1>2, <1>3, <1>4, <1>5, <1>6, <1>7, <1>8, <1>9 DEF EchoNext, Tick

-----------------------------------------------------------------------------
(* The arpeggiator *)

OnlyReleases(q) == \A j \in 1 .. Len(q) : ~q[j].on

(* The filter expects no echo. *)
NothingCounted == \A n \in Pitches : pre_injected_notes[n] = 0

(* The pads whose notes it plays are down, and the slot has counted them:  *)
(* none of what it plays is injected but releases, of which the filter     *)
(* counts none.                                                            *)
ArpKnown ==
  /\ held_notes \subseteq pads
  /\ NothingCounted
  /\ OnlyReleases(inject)
  /\ midi_fx_pre_mode => \A n \in held_notes : pre_pad_held[n] > 0
  /\ ~midi_fx_pre_mode => inject = <<>>

(* What holds of the arpeggiator. *)
ArpInv == ~upset /\ effect = "arp" => ArpKnown

(* A sequence in which nothing occurs is empty. *)
LEMMA NoneIsEmpty ==
  ASSUME NEW s \in Seq(Events), \A x \in Events : Occurs(s, x) = 0
  PROVE  s = <<>>
<1>1. \A i \in 1 .. Len(s) : FALSE
  <2> TAKE i \in 1 .. Len(s)
  <2>1. s[i] \in Events
    OBVIOUS
  <2>2. Occurs(s, s[i]) = 0
    BY <2>1
  <2> QED
    BY <2>2, OccursFacts
<1>2. Len(s) \in Nat
  OBVIOUS
<1>3. Len(s) = 0
  <2>1. Len(s) > 0 => 1 \in 1 .. Len(s)
    BY <1>2
  <2> QED
    BY <1>1, <1>2, <2>1
<1> QED
  BY <1>3, EmptySeq

(* No note of a pad is injected at once. *)
LEMMA ArpDelaysAll ==
  ASSUME effect = "arp", NEW e \in Events
  PROVE  NotTheInput(e) = <<>>
<1>1. VoicesNow = 0
  BY DEF VoicesNow
<1>2. \A n : AtOnce(n, e.note) = {}
  BY <1>1 DEF AtOnce
<1>3. e.on \in BOOLEAN
  BY DEF Events
<1>4. Cardinality({}) = 0
  BY FS_EmptySet
<1>5. ASSUME NEW n \in Pitches
      PROVE  /\ NotTheInput(e) \in Seq(Events)
             /\ Occurs(NotTheInput(e), On(n)) = 0
             /\ Occurs(NotTheInput(e), Off(n)) = 0
  <2>1. /\ NotTheInput(e) \in Seq(Events)
        /\ Occurs(NotTheInput(e), Sounds(e.on, n)) = 0
        /\ Occurs(NotTheInput(e), Sounds(~e.on, n)) = 0
    BY <1>2, <1>4, VoicesOut
  <2> QED
    BY <1>3, <2>1 DEF Sounds
<1>6. \A x \in Events : x.note \in Pitches /\ (x = On(x.note) \/ x = Off(x.note))
  BY EventsAre DEF EventIs
<1>7. NotTheInput(e) \in Seq(Events)
  <2>1. e.note \in Pitches
    BY DEF Events
  <2> QED
    BY <1>5, <2>1
<1> QED
  BY <1>5, <1>6, <1>7, NoneIsEmpty

(* What holds no note-on is not counted. *)
LEMMA ReleasesInject ==
  ASSUME EchoTypeOK, NothingCounted, NEW s \in Seq(Events), NEW queue \in Seq(Events),
         Len(queue) <= QueueMax, InjectAll(s, queue), ~Refused(s, queue),
         \A n \in Pitches : Occurs(s, On(n)) = 0,
         OnlyReleases(queue), ~midi_fx_pre_mode => queue = <<>>
  PROVE  /\ \A n \in Pitches : pre_injected_notes'[n] = 0
         /\ OnlyReleases(inject')
         /\ ~midi_fx_pre_mode => inject' = <<>>
<1>1. CASE midi_fx_pre_mode
  <2>1. /\ inject' = queue \o s
        /\ \A n \in Pitches : pre_injected_notes'[n]
             = Up(pre_injected_notes[n], Occurs(s, On(n)))
    BY <1>1, InjectExact
  <2>2. Up(0, 0) = 0
    BY EchoAssumption DEF Up
  <2>3. \A n \in Pitches : pre_injected_notes'[n] = 0
    BY <2>1, <2>2 DEF NothingCounted
  <2>4. ASSUME NEW i \in 1 .. Len(s) PROVE ~s[i].on
    <3>1. s[i] \in Events
      OBVIOUS
    <3>2. EventIs(s[i]) /\ s[i].note \in Pitches
      BY <3>1, EventsAre
    <3>3. s[i] # On(s[i].note)
      <4>1. Occurs(s, On(s[i].note)) = 0
        BY <3>2
      <4> QED
        BY <4>1, OccursFacts
    <3> QED
      BY <3>2, <3>3 DEF EventIs
  <2>5. ASSUME NEW j \in 1 .. Len(queue \o s) PROVE ~(queue \o s)[j].on
    <3>1. Len(queue) \in Nat /\ Len(s) \in Nat /\ Len(queue \o s) = Len(queue) + Len(s)
      OBVIOUS
    <3>2. CASE j \in 1 .. Len(queue)
      <4>1. (queue \o s)[j] = queue[j]
        BY <3>2
      <4> QED
        BY <3>2, <4>1 DEF OnlyReleases
    <3>3. CASE j \notin 1 .. Len(queue)
      <4>1. j - Len(queue) \in 1 .. Len(s) /\ (queue \o s)[j] = s[j - Len(queue)]
        BY <3>1, <3>3
      <4> QED
        BY <2>4, <4>1
    <3> QED
      BY <3>2, <3>3
  <2> QED
    BY <1>1, <2>1, <2>3, <2>5 DEF OnlyReleases
<1>2. CASE ~midi_fx_pre_mode
  <2>1. inject' = queue /\ pre_injected_notes' = pre_injected_notes
    BY <1>2, InjectExact
  <2> QED
    BY <1>2, <2>1 DEF NothingCounted
<1> QED
  BY <1>1, <1>2

(* A note the filter passes on, pad or echo: it only changes what is held. *)
LEMMA ArpPasses ==
  ASSUME Transpose = 0, EchoTypeOK, effect = "arp", ArpKnown,
         NEW e \in Events, NEW queue \in Seq(Events), Len(queue) <= QueueMax,
         OnlyReleases(queue), ~midi_fx_pre_mode => queue = <<>>,
         Dispatch(e, queue), ~NoRoom(e, queue), effect' = effect,
         pads' \subseteq Pitches,
         \A n \in pads : n # e.note => n \in pads',
         e.on => e.note \in pads'
  PROVE  ArpKnown'
<1>1. Heard(e) = e /\ InRange(e) /\ e.note \in Pitches /\ e.on \in BOOLEAN
  BY HeardIs DEF Events
<1>2. ~IsEcho(e)
  BY <1>1 DEF IsEcho, ArpKnown, NothingCounted
<1>3. /\ CountPad(e) /\ FxProcess(e) /\ InjectAll(NotTheInput(e), queue)
      /\ midi_fx_pre_mode' = midi_fx_pre_mode
  BY <1>1, <1>2 DEF Dispatch, OnMidi
<1>4. NotTheInput(e) = <<>> /\ ~Refused(NotTheInput(e), queue)
  BY <1>1, <1>2, ArpDelaysAll DEF NoRoom, Passes
<1>5. /\ \A n \in Pitches : pre_injected_notes'[n] = 0
      /\ OnlyReleases(inject')
      /\ ~midi_fx_pre_mode => inject' = <<>>
  <2>1. <<>> \in Seq(Events) /\ \A n \in Pitches : Occurs(<<>>, On(n)) = 0
    BY OccursNone
  <2> QED
    BY <1>3, <1>4, <2>1, ReleasesInject DEF ArpKnown
<1>6. held_notes' = IF e.on THEN held_notes \cup {e.note} ELSE held_notes \ {e.note}
  BY <1>3 DEF FxProcess
<1>7. held_notes' \subseteq pads'
  BY <1>6 DEF ArpKnown
<1>8. ASSUME midi_fx_pre_mode, NEW n \in held_notes' PROVE pre_pad_held'[n] > 0
  <2>1. held_notes \subseteq Pitches /\ pre_pad_held \in [Pitches -> 0 .. CountMax]
        /\ CountMax \in Nat /\ CountMax >= 1
    BY EchoAssumption, OrderFacts DEF EchoTypeOK
  <2>2. CASE n = e.note
    <3>1. e.on
      BY <1>6, <1>8, <2>2
    <3>2. pre_pad_held'[n] = Up(pre_pad_held[n], 1)
      BY <1>1, <1>3, <1>8, <2>1, <2>2, <3>1 DEF CountPad
    <3>3. pre_pad_held[n] \in 0 .. CountMax
      BY <1>1, <2>1, <2>2
    <3> QED
      BY <2>1, <3>2, <3>3 DEF Up
  <2>3. CASE n # e.note
    <3>1. n \in held_notes
      BY <1>6, <1>8, <2>3
    <3>2. pre_pad_held'[n] = pre_pad_held[n]
      BY <1>1, <1>3, <1>8, <2>1, <2>3, <3>1 DEF CountPad
    <3> QED
      BY <1>8, <3>1, <3>2 DEF ArpKnown
  <2> QED
    BY <2>2, <2>3
<1> QED
  BY <1>3, <1>5, <1>7, <1>8 DEF ArpKnown, NothingCounted, OnlyReleases

(* A step of its own injects the release of the last note at most: a pad   *)
(* still holds the note that it plays now.                                 *)
LEMMA ArpTicks ==
  ASSUME EchoTypeOK, effect = "arp", ArpKnown, ~upset',
         NEW out \in Seq(Events), TickInjects(out), held_notes' = held_notes,
         \A n \in Pitches : Occurs(out, On(n)) # 0 => n \in held_notes
  PROVE  ArpKnown'
<1> DEFINE S == {e \in Events : MayTick(e)}
           s == Ticked(out)
<1>1. /\ InjectAll(s, inject) /\ ~Refused(s, inject)
      /\ UNCHANGED <<effect, midi_fx_pre_mode, pre_pad_held, pads>>
  BY DEF TickInjects
<1>2. s = Only(out, S)
  BY DEF Ticked
<1>3. \A n \in Pitches : On(n) \in S => ~(pre_pad_held[n] > 0)
  BY OnOffNotes DEF MayTick
<1> HIDE DEF S, s
<1>4. /\ s \in Seq(Events)
      /\ \A e : Occurs(s, e) = IF e \in S THEN Occurs(out, e) ELSE 0
  BY <1>2, OnlyFacts
<1>5. inject \in Seq(Events) /\ Len(inject) <= QueueMax
  BY DEF EchoTypeOK
<1>6. CASE midi_fx_pre_mode
  <2>1. ASSUME NEW n \in Pitches PROVE Occurs(s, On(n)) = 0
    <3>1. CASE On(n) \in S
      <4>1. n \notin held_notes
        BY <1>3, <1>6, <3>1 DEF ArpKnown
      <4> QED
        BY <1>4, <3>1, <4>1
    <3>2. CASE On(n) \notin S
      BY <1>4, <3>2
    <3> QED
      BY <3>1, <3>2
  <2>2. /\ \A n \in Pitches : pre_injected_notes'[n] = 0
        /\ OnlyReleases(inject')
        /\ ~midi_fx_pre_mode => inject' = <<>>
    BY <1>1, <1>4, <1>5, <2>1, ReleasesInject DEF ArpKnown
  <2> QED
    BY <1>1, <2>2 DEF ArpKnown, NothingCounted, OnlyReleases
<1>7. CASE ~midi_fx_pre_mode
  <2>1. inject' = inject /\ pre_injected_notes' = pre_injected_notes
    BY <1>1, <1>4, <1>5, <1>7, InjectExact
  <2> QED
    BY <1>1, <1>7, <2>1 DEF ArpKnown, NothingCounted, OnlyReleases
<1> QED
  BY <1>6, <1>7

(* The first release goes: the others are releases still. *)
LEMMA ReleasesTail ==
  ASSUME NEW q \in Seq(Events), q # <<>>, OnlyReleases(q)
  PROVE  OnlyReleases(Tail(q)) /\ ~Head(q).on
<1>1. Len(q) \in Nat /\ Len(q) > 0 /\ Head(q) = q[1] /\ Len(Tail(q)) = Len(q) - 1
      /\ \A j \in 1 .. Len(Tail(q)) : Tail(q)[j] = q[j + 1]
  OBVIOUS
<1> QED
  BY <1>1 DEF OnlyReleases

(* Every step keeps what is known of the arpeggiator. *)
LEMMA ArpInvStep ==
  ASSUME Transpose = 0
  PROVE  EchoTypeOK /\ FxInv /\ ArpInv /\ [EchoNext]_echoVars => ArpInv'
<1> SUFFICES ASSUME EchoTypeOK, FxInv, ArpInv, [EchoNext]_echoVars,
                    ~upset', effect' = "arp"
             PROVE  ArpKnown'
  BY DEF ArpInv
<1> DEFINE known == ~upset /\ effect = "arp" /\ ArpKnown
<1>0. inject \in Seq(Events) /\ Len(inject) <= QueueMax /\ pads \subseteq Pitches
      /\ last_note \in Pitches \cup {NoNote}
  BY DEF EchoTypeOK
<1>1. CASE SetPreMode
  <2>1. inject' = <<>> /\ held_notes' = {}
        /\ \A n \in Pitches : pre_injected_notes'[n] = 0
    BY <1>1 DEF SetPreMode, ResetCounts, Quiet, fxVars, moveVars
  <2>2. Len(<<>>) = 0
    OBVIOUS
  <2> QED
    BY <2>1, <2>2 DEF ArpKnown, NothingCounted, OnlyReleases
<1>2. ASSUME NEW n \in Pitches, PadDown(n) PROVE ArpKnown'
  <2>1. known /\ Pad(On(n))
    BY <1>2 DEF PadDown, Pad, ArpInv
  <2>2. On(n) \in Events /\ On(n).note = n
    BY OnOffTypes, OnOffNotes
  <2>3. pads' = pads \cup {n}
    BY <1>2 DEF PadDown
  <2>4. Dispatch(On(n), inject) /\ ~NoRoom(On(n), inject) /\ effect' = effect
    BY <2>1 DEF Pad
  <2>5. OnlyReleases(inject) /\ (~midi_fx_pre_mode => inject = <<>>)
    BY <2>1 DEF ArpKnown
  <2>6. n \in pads' /\ pads' \subseteq Pitches /\ \A m \in pads : m \in pads'
    BY <1>0, <2>3
  <2> QED
    BY <1>0, <2>1, <2>2, <2>4, <2>5, <2>6, ArpPasses
<1>3. ASSUME NEW n \in Pitches, PadUp(n) PROVE ArpKnown'
  <2>1. known /\ Pad(Off(n))
    BY <1>3 DEF PadUp, Pad, ArpInv
  <2>2. Off(n) \in Events /\ Off(n).note = n /\ Off(n).on = FALSE
    BY OnOffTypes, OnOffNotes
  <2>3. pads' = pads \ {n}
    BY <1>3 DEF PadUp
  <2>4. Dispatch(Off(n), inject) /\ ~NoRoom(Off(n), inject) /\ effect' = effect
    BY <2>1 DEF Pad
  <2>5. OnlyReleases(inject) /\ (~midi_fx_pre_mode => inject = <<>>)
    BY <2>1 DEF ArpKnown
  <2>6. pads' \subseteq Pitches /\ \A m \in pads : m # n => m \in pads'
    BY <1>0, <2>3
  <2> QED
    BY <1>0, <2>1, <2>2, <2>4, <2>5, <2>6, ArpPasses
<1>4. CASE Echo
  <2>1. known /\ inject # <<>>
    BY <1>4 DEF Echo, ArpInv
  <2>2. /\ Head(inject) \in Events /\ Tail(inject) \in Seq(Events)
        /\ Len(Tail(inject)) <= QueueMax
    BY <1>0, <2>1, EchoAssumption
  <2>3. OnlyReleases(Tail(inject)) /\ ~Head(inject).on /\ midi_fx_pre_mode
    BY <1>0, <2>1, ReleasesTail DEF ArpKnown
  <2>4. /\ Dispatch(Head(inject), Tail(inject))
        /\ ~NoRoom(Head(inject), Tail(inject))
        /\ effect' = effect /\ pads' = pads
    BY <1>4 DEF Echo
  <2> QED
    BY <1>0, <2>1, <2>2, <2>3, <2>4, ArpPasses
<1>5. ASSUME NEW n \in Pitches, ArpStep(n) PROVE ArpKnown'
  <2> DEFINE out == Append(ReleaseLast, On(n))
  <2>1. known /\ TickInjects(out) /\ held_notes' = held_notes /\ n \in held_notes
    BY <1>5 DEF ArpStep, TickInjects, ArpInv
  <2>2. ReleaseLast \in Seq(Events) /\ \A m \in Pitches : Occurs(ReleaseLast, On(m)) = 0
    <3>1. CASE last_note = NoNote
      BY <3>1, OccursNone DEF ReleaseLast
    <3>2. CASE last_note # NoNote
      <4>1. ReleaseLast = <<Off(last_note)>> /\ Off(last_note) \in Events
        BY <1>0, <3>2, OnOffTypes DEF ReleaseLast
      <4> QED
        BY <4>1, OccursOne, OnIsNotOff
    <3> QED
      BY <3>1, <3>2
  <2>3. out \in Seq(Events)
    BY <2>2, OnOffTypes
  <2>4. ASSUME NEW m \in Pitches, Occurs(out, On(m)) # 0 PROVE m \in held_notes
    <3>1. Occurs(out, On(m)) = Occurs(ReleaseLast, On(m)) + (IF On(n) = On(m) THEN 1 ELSE 0)
      BY <2>2, OnOffTypes, OccursAppend
    <3>2. m = n
      BY <2>2, <2>4, <3>1, OnIsNotOff
    <3> QED
      BY <2>1, <3>2
  <2> HIDE DEF out
  <2> QED
    BY <2>1, <2>3, <2>4, ArpTicks
<1>6. CASE ArpRest
  <2>1. known /\ TickInjects(ReleaseLast) /\ held_notes' = held_notes
        /\ last_note # NoNote
    BY <1>6 DEF ArpRest, TickInjects, ArpInv
  <2>2. ReleaseLast = <<Off(last_note)>> /\ Off(last_note) \in Events
    BY <1>0, <2>1, OnOffTypes DEF ReleaseLast
  <2>3. ReleaseLast \in Seq(Events) /\ \A m \in Pitches : Occurs(ReleaseLast, On(m)) = 0
    BY <2>2, OccursOne, OnIsNotOff
  <2> QED
    BY <2>1, <2>3, ArpTicks
<1>7. ASSUME NEW i \in LaterVoices, StrumTick(i) PROVE ArpKnown'
  <2>1. effect = "arp" /\ pending[i] # <<>>
    BY <1>7 DEF StrumTick, TickInjects
  <2> QED
    BY <2>1 DEF FxInv, Strums
<1>8. CASE LoseEcho
  BY <1>8 DEF LoseEcho
<1>9. CASE UNCHANGED echoVars
  <2>1. /\ UNCHANGED <<effect, midi_fx_pre_mode, pre_injected_notes, pre_pad_held,
                       held_notes, inject, pads, upset>>
        /\ ArpKnown
    BY <1>9 DEF echoVars, slotVars, fxVars, moveVars, ArpInv
  <2> QED
    BY <2>1 DEF ArpKnown, NothingCounted, OnlyReleases
<1> QED
  BY <1>1, <1>2, <1>3, <1>4, <1>5, <1>6, <1>7, <1>8, <1>9 DEF EchoNext, Tick

-----------------------------------------------------------------------------

(* The inductive invariant: the types, what the effects leave alone, and   *)
(* what is known with a chord, with a strum and with the arpeggiator.      *)
EchoInv == EchoTypeOK /\ FxInv /\ NoteInv /\ ArpInv

(* It holds at first. *)
LEMMA EchoInvInit == EchoInit => EchoInv
<1> SUFFICES ASSUME EchoInit PROVE EchoInv
  OBVIOUS
<1>1. EchoTypeOK
  BY EchoTypeInit
<1>2. FxInv
  BY DEF EchoInit, FxInv
<1>3. ASSUME effect # "arp" PROVE NotesKnown
  <2>1. /\ Alternates(pending, pads)
        /\ \A n \in Pitches : Balanced(n, inject, Open(n, pending, pads), 0)
    BY <1>1, <1>3, QuietIsKnown DEF EchoInit
  <2> QED
    BY <2>1 DEF EchoInit, NotesKnown, SoundsAreKnown, PadsAreCounted, CountsBalance
<1>4. ArpKnown
  BY DEF EchoInit, ArpKnown, NothingCounted, OnlyReleases
<1> QED
  BY <1>1, <1>2, <1>3, <1>4 DEF EchoInv, NoteInv, ArpInv

(* The invariant of the echo filter, for a slot that does not transpose.   *)
THEOREM EchoInvariance ==
  ASSUME Transpose = 0
  PROVE  EchoSpec => []EchoInv
<1>1. EchoInit => EchoInv
  BY EchoInvInit
<1>2. EchoInv /\ [EchoNext]_echoVars => EchoInv'
  BY EchoTypeStep, FxStep, NoteStep, ArpInvStep DEF EchoInv
<1> QED
  BY <1>1, <1>2, PTL DEF EchoSpec

(* As long as no pad was itself taken for an echo, no echo was lost and    *)
(* nothing was refused, pre_mode_is_echo lets no echo through to a chord   *)
(* or a strum.                                                             *)
THEOREM EchoesAreAlwaysKnown ==
  ASSUME Transpose = 0
  PROVE  EchoSpec => []EchoesAreKnown
<1>1. EchoInv => EchoesAreKnown
  BY DEF EchoInv, NoteInv, NotesKnown, EchoesAreKnown
<1> QED
  BY <1>1, EchoInvariance, PTL

(* Then nothing sounds on Move's track, and nothing is left in the two     *)
(* counts, when the pads are up and the echoes are in.                     *)
THEOREM NothingEverHangs ==
  ASSUME Transpose = 0
  PROVE  EchoSpec => []NothingHangs
<1>1. ASSUME EchoInv PROVE NothingHangs
  <2> SUFFICES ASSUME Quiet, ~upset, effect # "arp"
               PROVE  /\ playing = {}
                      /\ \A n \in Pitches :
                           pre_injected_notes[n] = 0 /\ pre_pad_held[n] = 0
    BY DEF NothingHangs
  <2>1. NotesKnown /\ EchoTypeOK /\ inject = <<>> /\ pads = {}
        /\ \A i \in LaterVoices : pending[i] = <<>>
    BY <1>1 DEF EchoInv, NoteInv, Quiet
  <2>2. ASSUME NEW n \in Pitches PROVE pre_injected_notes[n] = 0
    <3>1. CASE midi_fx_pre_mode
      <4>1. Balanced(n, inject, Open(n, pending, pads), pre_injected_notes[n])
        BY <2>1, <3>1 DEF NotesKnown, CountsBalance
      <4>2. Open(n, pending, pads) = {}
        BY <2>1, QuietIsKnown
      <4>3. Occurs(<<>>, Off(n)) = 0 /\ Cardinality({}) = 0
        BY OccursNone, FS_EmptySet
      <4>4. Balanced(n, <<>>, {}, pre_injected_notes[n])
        BY <2>1, <4>1, <4>2
      <4> QED
        BY <4>3, <4>4 DEF Balanced
    <3>2. CASE ~midi_fx_pre_mode
      BY <2>1, <3>2 DEF NotesKnown
    <3> QED
      BY <3>1, <3>2
  <2>3. playing = {}
    <3>1. playing \subseteq Pitches
      BY <2>1 DEF EchoTypeOK
    <3> QED
      BY <2>1, <2>2, <3>1 DEF NotesKnown, SoundsAreKnown
  <2> QED
    BY <2>1, <2>2, <2>3 DEF NotesKnown, PadsAreCounted
<1> QED
  BY <1>1, EchoInvariance, PTL

(* The arpeggiator plays no note whose pad is up: the release of a pad is  *)
(* never taken for an echo.                                                *)
THEOREM ArpAlwaysEnds ==
  ASSUME Transpose = 0
  PROVE  EchoSpec => []ArpEnds
<1>1. EchoInv => ArpEnds
  BY DEF EchoInv, FxInv, ArpInv, ArpKnown, ArpEnds
<1> QED
  BY <1>1, EchoInvariance, PTL
=============================================================================
