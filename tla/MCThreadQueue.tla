---------------------------- MODULE MCThreadQueue ----------------------------
(* Instances of ThreadQueue for TLC: two commands and NULL, in every order. *)
EXTENDS ThreadQueue

CONSTANTS c1, c2

MCCommand == {c1, c2}
=============================================================================
