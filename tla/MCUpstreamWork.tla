---------------------------- MODULE MCUpstreamWork ----------------------------
(* Instances of UpstreamWork for TLC: one or two miners against one server. *)
EXTENDS UpstreamWork, TLC

CONSTANTS m1, m2

MCMiner == {m1, m2}

MinerSymmetry == Permutations(MCMiner)

Server(gbt, lp, info) == [gbt |-> gbt, lp |-> lp, info |-> info]

\* A wallet that knows only getwork; a pool with block templates and long polling.
MCReliable == {Server("unknown", FALSE, "always"), Server("mined", TRUE, "always")}

\* Pools with long polling, one with templates too new for us, and no or bad
\* getmininginfo.
MCPool == {Server("refused", TRUE, "unknown"), Server("mined", TRUE, "sometimes")}

MCWallet == {Server("unknown", FALSE, "sometimes")}
=============================================================================
