-------------------------- MODULE MCNeuromorphEpoch --------------------------
(* Instances of NeuromorphEpoch for TLC: two miners, jobs that cross the
   activation height within an epoch and then change the epoch. *)
EXTENDS NeuromorphEpoch, TLC

CONSTANTS m1, m2

MCMiner == {m1, m2}

\* Jobs 1 and 2 are of the first epoch, job 3 is of the second.
MCSeed == [j \in 1..MaxJob |-> IF j <= 2 THEN 1 ELSE 2]

\* Job 1 is below the activation height 2.
MCHeight == [j \in 1..MaxJob |-> IF j = 1 THEN 1 ELSE 2]
=============================================================================
