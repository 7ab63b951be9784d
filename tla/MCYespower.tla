----------------------------- MODULE MCYespower -----------------------------
(* Instances of Yespower for TLC: 3 S-boxes of 32 entries, that is 12 blocks,
   which is no power of 2, as the 768 blocks of the code are none. *)
EXTENDS Yespower

MCWord == 0..7
=============================================================================
