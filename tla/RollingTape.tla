----------------------------- MODULE RollingTape -----------------------------
(***************************************************************************)
(* What the skipback promises: it holds the latest samples it has heard,   *)
(* as many as its length allows, and a save writes exactly those.          *)
(* Changing the length keeps the newest samples that still fit.            *)
(***************************************************************************)
EXTENDS Integers, Sequences

CONSTANTS
  BlockSamples,  \* samples of one audio block
  Capacities     \* the lengths it may have

VARIABLES
  heard,     \* samples captured so far; the n-th sample is the number n
  capacity,  \* samples it may hold; 0 before it is allocated
  tape,      \* the samples it holds, oldest first
  saved      \* what the last save wrote

tapeVars == <<heard, capacity, tape, saved>>

Newest(s, n) == IF Len(s) > n THEN SubSeq(s, Len(s) - n + 1, Len(s)) ELSE s

NextBlock == [i \in 1 .. BlockSamples |-> heard + i]

TapeInit == heard = 0 /\ capacity = 0 /\ tape = <<>> /\ saved = <<>>

Allocate ==
  /\ capacity = 0
  /\ capacity' \in Capacities
  /\ UNCHANGED <<heard, tape, saved>>

Hear ==
  /\ capacity > 0
  /\ heard' = heard + BlockSamples
  /\ tape' = Newest(tape \o NextBlock, capacity)
  /\ UNCHANGED <<capacity, saved>>

SetLength ==
  /\ capacity > 0
  /\ capacity' \in Capacities
  /\ tape' = Newest(tape, capacity')
  /\ UNCHANGED <<heard, saved>>

Save == tape # <<>> /\ saved' = tape /\ UNCHANGED <<heard, capacity, tape>>

TapeNext == Allocate \/ Hear \/ SetLength \/ Save

TapeSpec == TapeInit /\ [][TapeNext]_tapeVars
=============================================================================
