---------------------------- MODULE MCStratumWork ----------------------------
(* Instances of StratumWork for TLC: jobs that change block and clean flag, two
   difficulties, two miners. *)
EXTENDS StratumWork, TLC

CONSTANTS m1, m2

MCMiner == {m1, m2}

\* Jobs 1 and 2 build on the same block, job 3 on the next one.
MCBlock == [j \in 1..MaxJob |-> IF j <= 2 THEN 1 ELSE 2]

\* The first job of a block is clean; job 2 only adds transactions.
MCClean == [j \in 1..MaxJob |-> j # 2]

OneDifficulty ==
    next_diff = FirstDiff /\ \A j \in JobId : attached[j] \subseteq {FirstDiff}

NeverStarted(m) == pc[m] = "wait" /\ work[m] = NoWork

(* The two kinds of behaviour that are explored. Both miners work and race for
   g_work, on two jobs of one difficulty and without shares; or one of them
   works and finds shares, on three jobs of one difficulty, or watches a pool
   that changes the difficulty for two jobs. *)
MCBounded ==
    \/ OneDifficulty /\ job.id <= 2 /\ found = 0
    \/ /\ \E m \in Miner : NeverStarted(m)
       /\ OneDifficulty \/ (job.id <= 2 /\ found = 0)

MinerSymmetry == Permutations(MCMiner)
=============================================================================
