------------------------------ MODULE Yespower ------------------------------
(***************************************************************************)
(* The memory pattern of one yespower hash as the miner computes it        *)
(* (yespower-opt.c, the pass for 0.9 and 1.0): smix1 writes every block    *)
(* where it belongs in V and takes two steps per turn of a loop over       *)
(* powers of 2, smix2 saves into V while it mixes, pwxform is unrolled and *)
(* its index w counts bytes. YespowerRef has the reference implementation, *)
(* which this one must be equal to: a share is only good when it is.       *)
(*                                                                         *)
(* Blocks are opaque, as in YespowerRef. The shuffle at the start of smix1 *)
(* and smix2 and the unshuffle at their end undo each other.               *)
(***************************************************************************)
EXTENDS Integers

CONSTANTS
    N,        \* blocks of V
    R,        \* r, size of a block
    Entries,  \* 1 << Swidth: entries of an S-box, 2048 in the code
    Word      \* bound: the words integerify may give

ASSUME YespowerAssumption ==
    /\ N \in Nat /\ N >= 8 /\ N % 2 = 0
    /\ R \in Nat \ {0}
    /\ Entries \in Nat \ {0} /\ Entries % 16 = 0
    /\ Word \subseteq Nat

VARIABLES
    phase,    \* smix1 over "S", smix1 over "V", "loop" (smix2) or "done"
    pc,       \* the next call of blockmix in smix1 or smix2
    n, i,     \* the loop variables of smix1
    p,        \* the block X points to in smix1
    g,        \* j, before it is masked
    vj,       \* the block V_j points to, -1 when there is none
    expanded, \* blocks of 128 bytes expanded before the phase "V"
    Nloop,    \* what is left of smix2
    B,        \* the block between smix1 and smix2, and in smix2
    S, V,     \* the arrays; 0 is an entry not written yet
    calls,    \* blockmix calls that are complete
    last,     \* history: what the last blockmix was called with
    busy, bi, \* inside blockmix, at its bi-th block of 64 bytes
    ctx,      \* S0, S1, S2 as numbers of tables
    w,        \* index into the tables, in bytes
    writes    \* history: what the last pwxform wrote

loopVars == <<n, i, p, g>>
pwxVars  == <<ctx, w, writes>>
vars == <<phase, pc, loopVars, vj, expanded, Nloop, B, S, V, calls, last, busy, bi, pwxVars>>

Sbytes1 == Entries * 16
Sbytes == 3 * Sbytes1
Smask == Sbytes1 - 16

\* The S-boxes are one array for smix1, in blocks of 128 bytes.
Size == IF phase = "S" THEN Sbytes \div 128 ELSE N

(* x & (k - 1), for a power of 2. *)
And(x, k) == x % k

NotRounded(x) == x

\* To an even number: ++, and then the lowest bit is cleared.
RoundUp(x) == (x + 1) - ((x + 1) % 2)

NloopRw == RoundUp((N + 2) \div 3)

Init ==
    /\ phase = "S" /\ pc = "first"
    /\ n = 0 /\ i = 0 /\ p = 0 /\ g = 0 /\ vj = -1 /\ expanded = 1 /\ Nloop = 0
    /\ B = 1
    /\ S = [k \in 0..((Sbytes \div 128) - 1) |-> IF k = 0 THEN 1 ELSE 0]
    /\ V = [k \in 0..(N - 1) |-> 0]
    /\ calls = 1 /\ last = <<>> /\ busy = FALSE /\ bi = 0
    /\ ctx = <<0, 1, 2>> /\ w = 0 /\ writes = {}

-----------------------------------------------------------------------------
(* The loop of smix1: for (n = 2; n < N; n <<= 1) for (i = 1; i < m; i += 2). *)

\* The last power of 2 runs to the end of the array.
WholeTurns(k, len) == k

Turns(k, len) == IF k < len \div 2 THEN k ELSE len - 1 - k

\* Where the loop goes on with n = k and i = l: in its body, in the body for
\* the next power of 2, or behind it, where n is halved.
LoopHead(k, l, len) ==
    IF l < Turns(k, len) THEN [pc |-> "even", n |-> k, i |-> l]
    ELSE IF 2 * k < len /\ 1 < Turns(2 * k, len) THEN [pc |-> "even", n |-> 2 * k, i |-> 1]
    ELSE [pc |-> "tail", n |-> IF 2 * k < len THEN 2 * k ELSE k, i |-> l]

TheHead(h) == pc' = h.pc /\ n' = h.n /\ i' = h.i

\* V_j of the calls in smix1: the last two use the window of the others.
WindowFromStart(len) ==
    CASE pc = "even" -> And(g, n) + i - 1
      [] pc = "odd"  -> And(g, n) + i
      [] pc = "tail" -> And(g, n)
      [] pc = "last" -> And(g, n)

Window(len) ==
    CASE pc = "even" -> And(g, n) + i - 1
      [] pc = "odd"  -> And(g, n) + i
      [] pc = "tail" -> And(g, n) + len - 2 - n
      [] pc = "last" -> And(g, n) + len - 1 - n

Array == IF phase = "S" THEN S ELSE V

-----------------------------------------------------------------------------
(* Calls of blockmix. *)

Expand ==
    /\ phase = "V" /\ pc = "expand" /\ ~busy
    /\ last' = <<B>> /\ vj' = -1
    /\ busy' = TRUE
    /\ UNCHANGED <<phase, pc, loopVars, expanded, Nloop, B, S, V, calls, bi, pwxVars>>

\* blockmix and blockmix_xor: X, with V_j but for the first two.
Smix1Call ==
    /\ phase \in {"S", "V"} /\ pc # "expand" /\ ~busy
    /\ IF pc \in {"first", "second"}
       THEN vj' = -1 /\ last' = <<Array[p]>>
       ELSE vj' = Window(Size) /\ last' = <<Array[p], Array[Window(Size)]>>
    /\ busy' = TRUE
    /\ UNCHANGED <<phase, pc, loopVars, expanded, Nloop, B, S, V, calls, bi, pwxVars>>

\* X xor V_j, as blockmix_xor_save writes it to V_j. Nobody reads V in between.
Mixed == -(calls + 1)

Smix2Call ==
    /\ phase = "loop" /\ ~busy
    /\ vj' = And(g, N) /\ last' = <<B, V[And(g, N)]>>
    /\ V' = [V EXCEPT ![And(g, N)] = Mixed]
    /\ busy' = TRUE
    /\ UNCHANGED <<phase, pc, loopVars, expanded, Nloop, B, S, calls, bi, pwxVars>>

-----------------------------------------------------------------------------
(* The end of a call. *)

\* The result is the next block of the array.
Store ==
    /\ p' = p + 1
    /\ IF phase = "S" THEN S' = [S EXCEPT ![p + 1] = calls + 1] /\ UNCHANGED V
                      ELSE V' = [V EXCEPT ![p + 1] = calls + 1] /\ UNCHANGED S

Begin(arr) == arr' = [arr EXCEPT ![0] = calls + 1]

ReturnSmix1 ==
    \/ /\ pc = "expand"
       /\ B' = calls + 1 /\ expanded' = expanded + 1
       /\ pc' = IF expanded + 1 = R THEN "first" ELSE "expand"
       /\ IF expanded + 1 = R THEN Begin(V) ELSE UNCHANGED V
       /\ UNCHANGED <<phase, loopVars, Nloop, S>>
    \/ /\ pc = "first"
       /\ Store
       /\ pc' = "second"
       /\ UNCHANGED <<phase, n, i, g, expanded, Nloop, B>>
    \/ /\ pc = "second"
       /\ Store
       /\ g' \in Word
       /\ TheHead(LoopHead(2, 1, Size))
       /\ UNCHANGED <<phase, expanded, Nloop, B>>
    \/ /\ pc = "even"
       /\ Store
       /\ g' \in Word
       /\ pc' = "odd"
       /\ UNCHANGED <<phase, n, i, expanded, Nloop, B>>
    \/ /\ pc = "odd"
       /\ Store
       /\ g' \in Word
       /\ TheHead(LoopHead(n, i + 2, Size))
       /\ UNCHANGED <<phase, expanded, Nloop, B>>
    \/ /\ pc = "tail"
       /\ Store
       /\ g' \in Word
       /\ pc' = "last"
       /\ UNCHANGED <<phase, n, i, expanded, Nloop, B>>
    \/ /\ pc = "last"
       /\ B' = calls + 1
       /\ p' = 0 /\ n' = 0 /\ i' = 0
       /\ IF phase = "S"
          THEN /\ phase' = "V" /\ g' = 0
               /\ pc' = IF R = 1 THEN "first" ELSE "expand"
               /\ IF R = 1 THEN Begin(V) ELSE UNCHANGED V
               /\ UNCHANGED Nloop
          ELSE /\ phase' = "loop" /\ pc' = "odd_turn"
               /\ g' \in Word
               /\ Nloop' = NloopRw
               /\ UNCHANGED V
       /\ UNCHANGED <<expanded, S>>

\* Two calls per turn: Nloop only counts the turns.
ReturnSmix2 ==
    /\ B' = calls + 1
    /\ \/ /\ pc = "odd_turn"
          /\ pc' = "even_turn" /\ g' \in Word
          /\ UNCHANGED <<phase, Nloop>>
       \/ /\ pc = "even_turn"
          /\ Nloop' = Nloop - 2
          /\ phase' = IF Nloop = 2 THEN "done" ELSE phase
          /\ pc' = IF Nloop = 2 THEN "done" ELSE "odd_turn"
          /\ g' \in Word
    /\ UNCHANGED <<n, i, p, expanded, S, V>>

Return ==
    /\ IF phase = "loop" THEN ReturnSmix2 ELSE ReturnSmix1
    /\ calls' = calls + 1
    /\ busy' = FALSE /\ bi' = 0

\* blockmix_salsa, when there is no context.
Salsa ==
    /\ busy /\ phase = "S"
    /\ Return
    /\ UNCHANGED <<vj, last, pwxVars>>

Rotate(c) == <<c[3], c[1], c[2]>>

\* PWXFORM: ROUND_WRITE4, ROUND_WRITE2, ROUND_WRITE2; w &= Smask2.
Writes ==
    {<<0, 0, ctx[1], w>>, <<0, 1, ctx[2], w>>, <<0, 2, ctx[1], w + 16>>, <<0, 3, ctx[2], w + 16>>,
     <<1, 0, ctx[1], w + 32>>, <<1, 1, ctx[2], w + 32>>,
     <<2, 0, ctx[1], w + 48>>, <<2, 1, ctx[2], w + 48>>}

MaskByEntry(x) == x % (Sbytes1 - 16)

\* Masked by Entries - 1 entries of 16 bytes: w is a multiple of 16.
Mask(x) == x % Sbytes1

Pwxform ==
    /\ busy /\ phase \in {"V", "loop"}
    /\ writes' = Writes
    /\ ctx' = Rotate(ctx)
    /\ w' = Mask(w + 64)
    /\ IF bi + 1 < (IF pc = "expand" THEN 2 ELSE 2 * R)
       THEN bi' = bi + 1 /\ UNCHANGED <<phase, pc, loopVars, expanded, Nloop, B, S, V, calls, busy>>
       ELSE Return
    /\ UNCHANGED <<vj, last>>

Next == Expand \/ Smix1Call \/ Smix2Call \/ Salsa \/ Pwxform

Safety == Init /\ [][Next]_vars
Spec == Safety /\ WF_vars(Next)

-----------------------------------------------------------------------------
(* Properties. *)

\* Every variable has the type the code declares for it.
TypeOK ==
    /\ phase \in {"S", "V", "loop", "done"}
    /\ pc \in {"expand", "first", "second", "even", "odd", "tail", "last",
               "odd_turn", "even_turn", "done"}
    /\ n \in Nat /\ i \in Nat /\ p \in Nat /\ g \in Word \cup {0} /\ vj \in Nat \cup {-1}
    /\ expanded \in 1..R /\ Nloop \in Nat /\ B \in Nat /\ calls \in Nat
    /\ busy \in BOOLEAN /\ bi \in 0..(2 * R - 1)
    /\ ctx \in [1..3 -> 0..2] /\ w \in Nat

(* smix1 only mixes with blocks it has written in this pass, never with the
   block X itself or the one it is about to write, which the restrict pointers
   of blockmix_xor forbid, and never writes behind the array. *)
MixesWrittenBlocks ==
    phase \in {"S", "V"} =>
        /\ p < Size
        /\ busy /\ vj # -1 => vj < p
        /\ pc = "last" => p = Size - 1
        /\ pc # "last" /\ busy /\ pc # "expand" => p + 1 < Size

(* pwxform never writes behind an S-box, although w is only masked after the
   last of its writes. *)
WritesInsideSBox == \A x \in writes : x[4] + 16 <= Sbytes1

(* The state of the reference implementation. Its smix1 stores X in the call that
   reads it, this one when it is computed: what smix1 has not read yet is hidden. *)
Filled(A, full) ==
    [k \in DOMAIN A |-> IF full \/ k < p \/ (k = p /\ busy) THEN A[k] ELSE 0]

RefS == Filled(S, phase # "S")
RefV == Filled(V, phase \in {"loop", "done"})

RefX == IF phase \in {"S", "V"} /\ pc # "expand" THEN Array[p] ELSE B

RefI ==
    CASE phase = "loop" -> NloopRw - Nloop + (IF pc = "even_turn" THEN 1 ELSE 0)
      [] phase = "done" -> 0
      [] OTHER -> p

RefWrites == {<<x[1], x[2], x[3], x[4] \div 8>> : x \in writes}

Reference == INSTANCE YespowerRef WITH
    i <- RefI, X <- RefX, S <- RefS, V <- RefV,
    table <- ctx, w <- w \div 8, writes <- RefWrites

(* Block by block the miner computes what the reference implementation
   computes, and comes to the end (smix in yespower-opt.c and yespower-ref.c). *)
ImplementsReference == Reference!Spec
=============================================================================
