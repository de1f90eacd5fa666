---------------------------- MODULE RecorderSpec ----------------------------
(***************************************************************************)
(* What the sampler's recording machinery promises, without its ring, its  *)
(* thread or its condition variable: samples handed over by the audio      *)
(* thread reach the WAV file in the order they were taken, and the file is *)
(* closed only when every sample that was taken is in it.                  *)
(*                                                                         *)
(* The n-th sample taken in a session is the number n - 1, so the file of  *)
(* a correct session is <<0, 1, 2, ...>>.                                  *)
(***************************************************************************)
EXTENDS Naturals, Sequences

CONSTANT BlockSamples   \* samples handed over at a time

VARIABLES
  open,    \* a session is running: the file is open
  taken,   \* number of samples taken since the session started
  file     \* the samples in the file

vars == <<open, taken, file>>

Init ==
  /\ open = FALSE
  /\ taken = 0
  /\ file = <<>>

Open ==
  /\ ~open
  /\ open' = TRUE
  /\ taken' = 0
  /\ file' = <<>>

Take ==
  /\ open
  /\ taken' = taken + BlockSamples
  /\ UNCHANGED <<open, file>>

(* Some more of what was taken, never anything else, reaches the file. *)
Persist ==
  /\ open
  /\ \E n \in Len(file) .. taken : file' = [i \in 1 .. n |-> i - 1]
  /\ UNCHANGED <<open, taken>>

(* The session ends with nothing taken still on its way. *)
Close ==
  /\ open
  /\ Len(file) = taken
  /\ open' = FALSE
  /\ UNCHANGED <<taken, file>>

Next == Open \/ Take \/ Persist \/ Close

Spec == Init /\ [][Next]_vars
=============================================================================
