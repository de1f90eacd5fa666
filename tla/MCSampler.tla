----------------------------- MODULE MCSampler ------------------------------
(* Sampler with small durations: one bar of two pulses, and "until stop".  *)
EXTENDS Sampler

OneBarOrEndless == <<1, 0>>
=============================================================================
