----------------------------- MODULE MCPreEcho -----------------------------
(* Values for TLC that a configuration file cannot write down. *)
EXTENDS PreEcho

Triad  == <<0, 1, 2>>
Fifth  == <<0, 1>>
Level  == 0
DownBy == -1
=============================================================================
