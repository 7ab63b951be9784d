-------------------------- MODULE MCStratumSession --------------------------
(* Instances of StratumSession for TLC: the bounds are in the cfg. *)
EXTENDS StratumSession

CONSTANTS pool1, pool2, elsewhere

MCPool == {pool1, pool2}
=============================================================================
