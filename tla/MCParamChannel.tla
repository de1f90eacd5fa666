--------------------------- MODULE MCParamChannel ---------------------------
(* ParamChannel with two parameters. *)
EXTENDS ParamChannel

TwoKeys == {"cutoff", "volume"}
=============================================================================
