----------------------------- MODULE YespowerRef -----------------------------
(***************************************************************************)
(* The memory pattern of one yespower 0.9/1.0 hash, as the reference       *)
(* implementation computes it (yespower-ref.c): which block is mixed with  *)
(* which, where it is stored, and where pwxform writes into the S-boxes.   *)
(*                                                                         *)
(* Blocks are opaque. The result of the c-th blockmix is block c, and what *)
(* it was computed from is in "last": two machines that go through the     *)
(* same values of "last" and "writes" compute the same hash. integerify    *)
(* gives any word.                                                         *)
(***************************************************************************)
EXTENDS Integers, FiniteSets

CONSTANTS
    N,        \* blocks of V
    R,        \* r, size of a block
    Entries,  \* 1 << Swidth: entries of an S-box
    Word      \* the words integerify may give

VARIABLES
    phase,    \* smix1 over "S", smix1 over "V", "loop" (smix2) or "done"
    i,        \* iterations of the phase
    expanded, \* blocks of 128 bytes expanded before the phase "V"
    X,        \* the block
    S, V,     \* the arrays; 0 is an entry not written yet
    calls,    \* blockmix calls that are complete
    last,     \* what the last blockmix was called with
    busy, bi, \* inside blockmix, at its bi-th block of 64 bytes
    table,    \* S0, S1, S2 as numbers of tables
    w,        \* index into the tables, in words of 8 bytes
    writes    \* history: what the last pwxform wrote

vars == <<phase, i, expanded, X, S, V, calls, last, busy, bi, table, w, writes>>

PWXsimple == 2
PWXgather == 4
PWXrounds == 3
Sbytes == 3 * Entries * PWXsimple * 8
NS == Sbytes \div 128      \* blocks of S

\* Nloop_rw and Nloop_all are the same for these versions: 1/3, rounded up to
\* even; the second smix2 has nothing left to do.
Nloop == LET third == (N + 2) \div 3 IN third + (third % 2)

Pow2 == {2^k : k \in 0..20}

(* The largest power of 2 not greater than x. *)
p2floor(x) == CHOOSE n \in Pow2 : n <= x /\ x < 2 * n

(* x in the range 0 to k-1, below k by no more than its power of 2. *)
wrap(x, k) == LET n == p2floor(k) IN (x % n) + (k - n)

Init ==
    /\ phase = "S" /\ i = 0 /\ expanded = 1
    /\ X = 1 /\ S = [k \in 0..(NS - 1) |-> 0] /\ V = [k \in 0..(N - 1) |-> 0]
    /\ calls = 1 /\ last = <<>>
    /\ busy = FALSE /\ bi = 0
    /\ table = <<0, 1, 2>> /\ w = 0 /\ writes = {}

\* X xor V_j as it is stored in V_j by smix2.
Mixed == -(calls + 1)

\* Expand the first 128 bytes to a whole block.
Expand ==
    /\ phase = "V" /\ expanded < R /\ ~busy
    /\ last' = <<X>>
    /\ busy' = TRUE
    /\ UNCHANGED <<phase, i, expanded, X, S, V, calls, bi, table, w, writes>>

Stored(A, k, x) == [A EXCEPT ![k] = x]

\* An iteration of smix1: V_i <-- X, and X xor V_j goes into blockmix.
Fill ==
    /\ phase \in {"S", "V"} /\ ~busy
    /\ phase = "V" => expanded = R
    /\ LET A == Stored(IF phase = "S" THEN S ELSE V, i, X) IN
       /\ IF phase = "S" THEN S' = A /\ UNCHANGED V ELSE V' = A /\ UNCHANGED S
       /\ IF i > 1 THEN \E g \in Word : last' = <<X, A[wrap(g, i)]>> ELSE last' = <<X>>
    /\ busy' = TRUE
    /\ UNCHANGED <<phase, i, expanded, X, calls, bi, table, w, writes>>

\* An iteration of smix2: V_j <-- X xor V_j, which goes into blockmix.
Loop ==
    /\ phase = "loop" /\ ~busy
    /\ \E g \in Word :
          /\ last' = <<X, V[g % N]>>
          /\ V' = Stored(V, g % N, Mixed)
    /\ busy' = TRUE
    /\ UNCHANGED <<phase, i, expanded, X, S, calls, bi, table, w, writes>>

End == [S |-> NS, V |-> N, loop |-> Nloop]
After == [S |-> "V", V |-> "loop", loop |-> "done"]

\* A blockmix is complete.
Return ==
    /\ X' = calls + 1 /\ calls' = calls + 1
    /\ busy' = FALSE /\ bi' = 0
    /\ IF phase = "V" /\ expanded < R
       THEN expanded' = expanded + 1 /\ UNCHANGED <<phase, i>>
       ELSE /\ i' = IF i + 1 = End[phase] THEN 0 ELSE i + 1
            /\ phase' = IF i + 1 = End[phase] THEN After[phase] ELSE phase
            /\ UNCHANGED expanded

\* The S-boxes are filled with blockmix_salsa.
Salsa ==
    /\ busy /\ phase = "S"
    /\ Return
    /\ UNCHANGED <<S, V, last, table, w, writes>>

Blocks == IF phase = "V" /\ expanded < R THEN 2 ELSE 2 * R

\* Round k and lane j write all lanes in the first round, half of them later:
\* even lanes to S0, odd lanes to S1, which then moves w on.
Written(k, j) == k = 0 \/ j < PWXgather \div 2
Writing == {p \in (0..(PWXrounds - 1)) \X (0..(PWXgather - 1)) : Written(p[1], p[2])}
Odd == {p \in Writing : p[2] % 2 = 1}
Before(k, j) == {p \in Odd : p[1] < k \/ (p[1] = k /\ p[2] < j)}

\* 14: (S0, S1, S2) <-- (S2, S0, S1).  15: w <-- w mod Entries.
Pwxform ==
    /\ busy /\ phase \in {"V", "loop"}
    /\ writes' = {<<p[1], p[2], table[1 + (p[2] % 2)],
                    w + PWXsimple * Cardinality(Before(p[1], p[2]))>> : p \in Writing}
    /\ table' = <<table[3], table[1], table[2]>>
    /\ w' = (w + PWXsimple * Cardinality(Odd)) % (Entries * PWXsimple)
    /\ IF bi + 1 < Blocks
       THEN bi' = bi + 1 /\ UNCHANGED <<phase, i, expanded, X, calls, busy>>
       ELSE Return
    /\ UNCHANGED <<S, V, last>>

Next == Expand \/ Fill \/ Loop \/ Salsa \/ Pwxform

Safety == Init /\ [][Next]_vars
Spec == Safety /\ WF_vars(Next)
=============================================================================
