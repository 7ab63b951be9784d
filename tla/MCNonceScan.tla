----------------------------- MODULE MCNonceScan -----------------------------
(* Instances of NonceScan for TLC: a word small enough to walk through every
   range, with the proportions of the real one. *)
EXTENDS NonceScan

\* A scan of a few nonces, one that reaches the end of the range.
MCScan == {3, Word}

\* Both kinds of scan loop; --randomize with one of them.
MCSetting == {[algo |-> "yespower", randomize |-> FALSE],
              [algo |-> "civiclight", randomize |-> FALSE],
              [algo |-> "yespower", randomize |-> TRUE]}

MCNeuromorph == {[algo |-> "neuromorph", randomize |-> FALSE]}
=============================================================================
