-------------------------- MODULE YespowerRefProofs ---------------------------
(***************************************************************************)
(* The proof that the miner's yespower mixes, stores and writes exactly    *)
(* what the reference implementation does, call by call, for every N and   *)
(* every S-box size up to 2^20 blocks (the safety part of the refinement;  *)
(* that both come to an end is left to TLC).                               *)
(*                                                                         *)
(* The reference finds the window of a block with p2floor; the miner       *)
(* carries the power of 2 along in n. That both are the same number, and   *)
(* that a block is never looked at before both have stored it, is what     *)
(* RefInv adds to the invariant of YespowerProofs.                         *)
(***************************************************************************)
EXTENDS YespowerProofs, FiniteSetTheorems

(* yespower() refuses an N above 512 * 1024 (yespower-opt.c:1697), and its
   S-boxes have 768 blocks. *)
Allowed == N <= 1024 * 1024 /\ Sbytes \div 128 <= 1024 * 1024

Pow2 == Reference!Pow2

(* n is the power of 2 the reference implementation computes from i. *)
PowerInv ==
    /\ pc \in {"even", "odd", "tail", "last"} => n \in Pow2
    /\ pc \in {"tail", "last"} => Size <= 2 * n

(* j of the call that comes next is a word integerify gave. *)
WordInv ==
    pc \in {"even", "odd", "tail", "last", "odd_turn", "even_turn"} => g \in Word

(* V is not written before its pass begins, which is after the last expansion. *)
ArrayInv ==
    /\ S \in [0..((Sbytes \div 128) - 1) -> Int]
    /\ V \in [0..(N - 1) -> Int]
    /\ phase = "S" \/ pc = "expand" => \A k \in 0..(N - 1) : V[k] = 0
    /\ phase = "V" /\ pc # "expand" => expanded = R

RefInv == IInv /\ PowerInv /\ WordInv /\ ArrayInv

-----------------------------------------------------------------------------
(* Powers of 2. *)

LEMMA Powers ==
    Pow2 = {1, 2, 4, 8, 16, 32, 64, 128, 256, 512, 1024, 2048, 4096, 8192, 16384,
            32768, 65536, 131072, 262144, 524288, 1048576}
  <1>1. ASSUME NEW k \in 0..20
        PROVE k \in {0, 1, 2, 3, 4, 5, 6, 7, 8, 9, 10, 11, 12, 13, 14, 15, 16, 17, 18, 19, 20}
    BY SMT
  <1>2. {2^k : k \in 0..20} =
          {2^0, 2^1, 2^2, 2^3, 2^4, 2^5, 2^6, 2^7, 2^8, 2^9, 2^10, 2^11, 2^12, 2^13, 2^14,
           2^15, 2^16, 2^17, 2^18, 2^19, 2^20}
    BY <1>1, SMT
  <1>3. QED
    BY <1>2, SMT DEF Pow2, Reference!Pow2

LEMMA Doubled == ASSUME NEW q \in Pow2 PROVE q \in Nat /\ q >= 1 /\ (q < 1024 * 1024 => 2 * q \in Pow2)
  BY Powers, SMT

LEMMA OnePower ==
    ASSUME NEW q \in Pow2, NEW m \in Pow2, NEW x \in Nat,
           q <= x, x < 2 * q, m <= x, x < 2 * m
    PROVE  m = q
  BY Powers, SMT

\* p2floor gives the power of 2 that is at most x, and more than half of it.
LEMMA Floor ==
    ASSUME NEW q \in Pow2, NEW x \in Nat, q <= x, x < 2 * q
    PROVE  Reference!p2floor(x) = q
  <1>1. \E m \in Pow2 : m <= x /\ x < 2 * m
    OBVIOUS
  <1>2. Reference!p2floor(x) \in Pow2 /\ Reference!p2floor(x) <= x /\ x < 2 * Reference!p2floor(x)
    BY <1>1, Zenon DEF Reference!p2floor, Pow2
  <1>3. QED
    BY <1>2, OnePower

LEMMA Wrap ==
    ASSUME NEW q \in Pow2, NEW x \in Nat, q <= x, x < 2 * q, NEW word
    PROVE  Reference!wrap(word, x) = And(word, q) + (x - q)
  BY Floor DEF Reference!wrap, And

-----------------------------------------------------------------------------
(* The numbers of both implementations. *)

LEMMA SameSizes ==
    /\ Reference!NS = Sbytes \div 128
    /\ Reference!Nloop = NloopRw
    /\ Size = IF phase = "S" THEN Reference!NS ELSE N
  <1>1. 3 * Entries * 2 * 8 = 3 * (Entries * 16)
    BY YespowerAssumption
  <1>2. Reference!NS = Sbytes \div 128
    BY <1>1 DEF Reference!NS, Reference!Sbytes, Reference!PWXsimple, Sbytes, Sbytes1
  <1>3. Reference!Nloop = NloopRw
    <2> DEFINE third == (N + 2) \div 3
    <2>1. third \in Nat
      BY YespowerAssumption
    <2>2. Reference!Nloop = third + (third % 2) /\ NloopRw = (third + 1) - ((third + 1) % 2)
      BY DEF Reference!Nloop, NloopRw, RoundUp
    <2> HIDE DEF third
    <2>3. QED
      BY <2>1, <2>2
  <1>4. QED
    BY <1>2, <1>3 DEF Size

\* The window of a call is the one the reference implementation uses.
LEMMA SameWindow ==
    ASSUME RefInv, phase \in {"S", "V"}, pc \in {"even", "odd", "tail", "last"}
    PROVE  /\ Window(Size) = Reference!wrap(g, p)
           /\ p > 1
  <1>1. n \in Pow2 /\ n \in Nat /\ g \in Nat
    BY Doubled, YespowerAssumption DEF RefInv, PowerInv, WordInv
  <1>2. Size \in Nat /\ Size >= 4 /\ Even(Size) /\ Turn(Size)
    BY SizeIsEven DEF RefInv, IInv, PlaceInv, InTurn
  <1>3. p \in Nat /\ n <= p /\ p < 2 * n
    <2>1. CASE pc \in {"even", "odd"}
      <3>1. InTurn(Size) /\ (p = n + i - 1 \/ p = n + i) /\ (pc = "even" => p = n + i - 1)
        BY <2>1 DEF RefInv, IInv, PlaceInv
      <3>2. i \in Nat /\ i >= 1 /\ i < Turns(n, Size)
        BY <3>1 DEF InTurn, Even
      <3>3. Turns(n, Size) <= n
        BY <1>1, <1>2 DEF Turns, Even
      <3>4. QED
        BY <1>1, <1>2, <3>1, <3>2, <3>3 DEF Turns, Even
    <2>2. CASE pc \in {"tail", "last"}
      <3>1. (p = Size - 2 \/ p = Size - 1) /\ Size <= 2 * n
        BY <2>2 DEF RefInv, IInv, PlaceInv, PowerInv
      <3>2. n <= Size - 2
        BY <1>1, <1>2 DEF Turn, Even
      <3>3. QED
        BY <1>1, <1>2, <3>1, <3>2
    <2>3. QED
      BY <2>1, <2>2
  <1>4. Reference!wrap(g, p) = And(g, n) + (p - n)
    BY <1>1, <1>3, Wrap
  <1>5. And(g, n) \in Int
    BY <1>1, <1>2, Masked DEF Turn
  <1>6. Window(Size) = And(g, n) + (p - n)
    BY <1>1, <1>2, <1>5 DEF RefInv, IInv, PlaceInv, InTurn, Window
  <1>7. QED
    BY <1>2, <1>3, <1>4, <1>6 DEF Turn

-----------------------------------------------------------------------------
(* The invariant is kept. *)

\* The head of the loop doubles n, and leaves it more than half of the array.
LEMMA HeadIsPower ==
    ASSUME NEW k \in Pow2, NEW l, NEW len \in Nat, Even(len), k < len, len <= 1024 * 1024, k >= 2,
           NEW h, h = LoopHead(k, l, len)
    PROVE  h.n \in Pow2 /\ h.pc \in {"even", "tail"} /\ (h.pc = "tail" => len <= 2 * h.n)
  <1>1. k \in Nat /\ (k < 1024 * 1024 => 2 * k \in Pow2)
    BY Doubled
  <1>2. CASE l < Turns(k, len)
    <2>1. h = [pc |-> "even", n |-> k, i |-> l]
      BY <1>2 DEF LoopHead
    <2>2. QED
      BY <2>1
  <1>3. CASE ~(l < Turns(k, len)) /\ 2 * k < len /\ 1 < Turns(2 * k, len)
    <2>1. h = [pc |-> "even", n |-> 2 * k, i |-> 1]
      BY <1>3 DEF LoopHead
    <2>2. QED
      BY <1>1, <1>3, <2>1
  <1>4. CASE ~(l < Turns(k, len)) /\ 2 * k < len /\ ~(1 < Turns(2 * k, len))
    <2>1. h = [pc |-> "tail", n |-> 2 * k, i |-> l]
      BY <1>4 DEF LoopHead
    <2>2. len <= 2 * (2 * k)
      BY <1>1, <1>4 DEF Turns, Even
    <2>3. QED
      BY <1>1, <1>4, <2>1, <2>2
  <1>5. CASE ~(l < Turns(k, len)) /\ ~(2 * k < len)
    <2>1. h = [pc |-> "tail", n |-> k, i |-> l]
      BY <1>5 DEF LoopHead
    <2>2. QED
      BY <1>1, <1>5, <2>1
  <1>6. QED
    BY <1>2, <1>3, <1>4, <1>5

LEMMA PowerStep == ASSUME Allowed, IInv, PowerInv, [Next]_vars PROVE PowerInv'
  <1>1. CASE UNCHANGED placeVars
    BY <1>1, Zenon DEF PowerInv, Size, Sbytes, Sbytes1, placeVars, loopVars, Pow2, Reference!Pow2
  <1>2. ASSUME busy, phase \in {"S", "V"}, Return PROVE PowerInv'
    <2>1. ReturnSmix1
      BY <1>2 DEF Return
    <2>2. Size \in Nat /\ Size >= 4 /\ Even(Size) /\ Size <= 1024 * 1024
      BY SizeIsEven DEF Allowed, Size
    <2>3. CASE pc \in {"expand", "first", "last"}
      <3>1. pc' \in {"expand", "first", "second", "odd_turn"}
        BY <2>1, <2>3 DEF ReturnSmix1
      <3>2. QED
        BY <3>1 DEF PowerInv
    <2>4. CASE pc = "even"
      <3>1. pc' = "odd" /\ n' = n
        BY <2>1, <2>4 DEF ReturnSmix1
      <3>2. QED
        BY <2>4, <3>1 DEF PowerInv, Pow2, Reference!Pow2
    <2>5. CASE pc = "tail"
      <3>1. pc' = "last" /\ n' = n /\ phase' = phase
        BY <2>1, <2>5 DEF ReturnSmix1
      <3>2. Size' = Size
        BY <3>1 DEF Size, Sbytes, Sbytes1
      <3>3. QED
        BY <2>5, <3>1, <3>2 DEF PowerInv, Pow2, Reference!Pow2
    <2>6. ASSUME NEW k \in Pow2, NEW l, k >= 2, k < Size, TheHead(LoopHead(k, l, Size)), phase' = phase
          PROVE  PowerInv'
      <3> DEFINE h == LoopHead(k, l, Size)
      <3>1. pc' = h.pc /\ n' = h.n
        BY <2>6 DEF TheHead
      <3>2. h.n \in Pow2 /\ h.pc \in {"even", "tail"} /\ (h.pc = "tail" => Size <= 2 * h.n)
        <4> HIDE DEF h
        <4>1. h = LoopHead(k, l, Size)
          BY DEF h
        <4>2. QED
          BY <2>2, <2>6, <4>1, HeadIsPower
      <3> HIDE DEF h
      <3>3. Size' = Size
        BY <2>6 DEF Size, Sbytes, Sbytes1
      <3>4. QED
        BY <3>1, <3>2, <3>3 DEF PowerInv, Pow2, Reference!Pow2
    <2>7. CASE pc = "second"
      <3>1. TheHead(LoopHead(2, 1, Size)) /\ phase' = phase
        BY <2>1, <2>7 DEF ReturnSmix1
      <3>2. 2 \in Pow2
        BY Powers, SMT
      <3>3. QED
        BY <2>2, <2>6, <3>1, <3>2
    <2>8. CASE pc = "odd"
      <3>1. TheHead(LoopHead(n, i + 2, Size)) /\ phase' = phase
        BY <2>1, <2>8 DEF ReturnSmix1
      <3>2. n \in Pow2 /\ n >= 2 /\ n < Size
        BY <2>8 DEF PowerInv, IInv, PlaceInv, InTurn, Turn
      <3>3. QED
        BY <2>6, <3>1, <3>2
    <2>9. QED
      BY <1>2, <2>3, <2>4, <2>5, <2>7, <2>8 DEF IInv, PhaseInv, Smix1Point
  <1>3. ASSUME busy, phase = "loop", Return PROVE PowerInv'
    <2>1. pc' \in {"odd_turn", "even_turn", "done"}
      BY <1>3 DEF Return, ReturnSmix2
    <2>2. QED
      BY <2>1 DEF PowerInv
  <1>4. QED
    BY <1>1, <1>2, <1>3, Frame

LEMMA WordStep == ASSUME IInv, WordInv, [Next]_vars PROVE WordInv'
  <1>1. CASE UNCHANGED placeVars
    BY <1>1 DEF WordInv, placeVars, loopVars
  <1>2. ASSUME busy, phase \in {"S", "V"}, Return PROVE WordInv'
    <2>1. ReturnSmix1 /\ pc \in Smix1Point \cup {"expand"}
      BY <1>2 DEF Return, IInv, PhaseInv
    <2>2. CASE pc \in {"expand", "first"}
      BY <2>1, <2>2 DEF ReturnSmix1, WordInv
    <2>3. CASE pc \in {"second", "even", "odd", "tail"}
      BY <2>1, <2>3 DEF ReturnSmix1, WordInv
    <2>4. CASE pc = "last"
      BY <2>1, <2>4 DEF ReturnSmix1, WordInv
    <2>5. QED
      BY <2>1, <2>2, <2>3, <2>4 DEF Smix1Point
  <1>3. ASSUME busy, phase = "loop", Return PROVE WordInv'
    <2>1. g' \in Word
      BY <1>3 DEF Return, ReturnSmix2
    <2>2. QED
      BY <2>1 DEF WordInv
  <1>4. QED
    BY <1>1, <1>2, <1>3, Frame

\* An array keeps its type when one of its entries is written.
LEMMA Updated ==
    ASSUME NEW len, NEW A \in [0..len -> Int], NEW k, NEW x \in Int
    PROVE  /\ [A EXCEPT ![k] = x] \in [0..len -> Int]
           /\ \A l \in 0..len : l # k => [A EXCEPT ![k] = x][l] = A[l]
           /\ k \in 0..len => [A EXCEPT ![k] = x][k] = x
  OBVIOUS

\* What the end of a call writes into the arrays.
LEMMA ReturnArrays ==
    ASSUME IInv, ArrayInv, busy, phase # "done", Return
    PROVE  \/ S' = S /\ V' = V
           \/ /\ pc \in {"expand", "last"} /\ S' = S
              /\ V' = [V EXCEPT ![0] = calls + 1] /\ pc' = "first" /\ phase' = "V" /\ p' = 0
           \/ /\ pc \notin {"expand", "last"} /\ phase = "S" /\ phase' = phase /\ V' = V
              /\ S' = [S EXCEPT ![p + 1] = calls + 1]
           \/ /\ pc \notin {"expand", "last"} /\ phase = "V" /\ phase' = phase /\ S' = S
              /\ V' = [V EXCEPT ![p + 1] = calls + 1]
  <1>1. CASE phase = "loop"
    BY <1>1 DEF Return, ReturnSmix2
  <1>2. CASE phase # "loop"
    <2>1. ReturnSmix1 /\ phase \in {"S", "V"} /\ pc \in Smix1Point \cup {"expand"}
      BY <1>2 DEF Return, IInv, PhaseInv, TypeOK
    <2>2. CASE pc = "expand"
      <3>1. phase = "V" /\ p = 0
        BY <2>1, <2>2 DEF IInv, PhaseInv, PlaceInv, Smix1Point
      <3>2. QED
        BY <2>1, <2>2, <3>1 DEF ReturnSmix1, Begin, loopVars
    <2>3. CASE pc = "last"
      BY <2>1, <2>3 DEF ReturnSmix1, Begin
    <2>4. CASE pc \in {"first", "second", "even", "odd", "tail"}
      <3>1. Store /\ phase' = phase
        BY <2>1, <2>4 DEF ReturnSmix1
      <3>2. QED
        BY <2>1, <2>4, <3>1 DEF Store
    <2>5. QED
      BY <2>1, <2>2, <2>3, <2>4 DEF Smix1Point
  <1>3. QED
    BY <1>1, <1>2

\* The pass over V begins when everything is expanded, and V with it.
LEMMA PassBegins ==
    ASSUME IInv, ArrayInv, busy, phase # "done", Return
    PROVE  /\ phase' = "S" \/ pc' = "expand" => phase = "S" \/ pc = "expand"
           /\ phase' = "V" /\ pc' # "expand" => expanded' = R
  <1>1. CASE phase = "loop"
    BY <1>1 DEF Return, ReturnSmix2, IInv, PhaseInv
  <1>2. CASE phase # "loop"
    <2>1. ReturnSmix1 /\ phase \in {"S", "V"} /\ pc \in Smix1Point \cup {"expand"}
      BY <1>2 DEF Return, IInv, PhaseInv, TypeOK
    <2>2. CASE pc = "expand"
      BY <2>1, <2>2 DEF ReturnSmix1
    <2>3. CASE pc = "last"
      <3>1. phase = "S" => phase' = "V" /\ expanded' = 1 /\ (pc' # "expand" => R = 1)
        BY <2>1, <2>3 DEF ReturnSmix1, IInv, PhaseInv
      <3>2. phase = "V" => phase' = "loop" /\ pc' = "odd_turn"
        BY <2>1, <2>3 DEF ReturnSmix1
      <3>3. QED
        BY <2>1, <3>1, <3>2
    <2>4. CASE pc \in {"first", "second", "even", "odd", "tail"}
      <3>1. phase' = phase /\ expanded' = expanded /\ pc' # "expand"
        BY <2>1, <2>4 DEF ReturnSmix1, TheHead, LoopHead
      <3>2. QED
        BY <2>4, <3>1 DEF ArrayInv
    <2>5. QED
      BY <2>1, <2>2, <2>3, <2>4 DEF Smix1Point
  <1>3. QED
    BY <1>1, <1>2

LEMMA CallsAre == ASSUME IInv PROVE calls \in Nat /\ calls + 1 \in Int
  <1>1. calls \in Nat
    BY Zenon DEF IInv, TypeOK
  <1>2. QED
    BY <1>1

\* Every step but these leaves the arrays, and what ArrayInv says of them, alone.
LEMMA ArrayFrame ==
    ASSUME [Next]_vars
    PROVE  \/ UNCHANGED <<phase, pc, expanded, S, V>>
           \/ Smix2Call
           \/ busy /\ phase # "done" /\ Return
  BY DEF Next, Expand, Smix1Call, Salsa, Pwxform, vars

LEMMA ArrayStep == ASSUME IInv, ArrayInv, [Next]_vars PROVE ArrayInv'
  <1> DEFINE last_S == (Sbytes \div 128) - 1
  <1> DEFINE last_V == N - 1
  <1>1. S \in [0..last_S -> Int] /\ V \in [0..last_V -> Int]
    BY DEF ArrayInv
  <1>2. CASE UNCHANGED <<phase, pc, expanded, S, V>>
    BY <1>2, Zenon DEF ArrayInv, Sbytes, Sbytes1
  <1>3. CASE Smix2Call
    <2>1. Mixed \in Int
      BY CallsAre DEF Mixed
    <2>2. S' = S /\ V' = [V EXCEPT ![And(g, N)] = Mixed] /\ phase' = "loop"
          /\ pc' \in {"odd_turn", "even_turn"}
      BY <1>3 DEF Smix2Call, IInv, PhaseInv
    <2>3. V' \in [0..last_V -> Int]
      BY <1>1, <2>1, <2>2, Updated, Zenon
    <2>4. QED
      BY <1>1, <2>2, <2>3 DEF ArrayInv, Sbytes, Sbytes1
  <1>4. CASE busy /\ phase # "done" /\ Return
    <2>1. calls + 1 \in Int
      BY CallsAre
    <2>2. S' \in [0..last_S -> Int] /\ V' \in [0..last_V -> Int]
      <3> HIDE DEF last_S, last_V
      <3>1. \A k : \A A \in [0..last_S -> Int] : [A EXCEPT ![k] = calls + 1] \in [0..last_S -> Int]
        BY <2>1, Updated
      <3>2. \A k : \A A \in [0..last_V -> Int] : [A EXCEPT ![k] = calls + 1] \in [0..last_V -> Int]
        BY <2>1, Updated
      <3>3. S' = S \/ S' = [S EXCEPT ![p + 1] = calls + 1]
        BY <1>4, ReturnArrays
      <3>4. \/ V' = V
            \/ V' = [V EXCEPT ![0] = calls + 1]
            \/ V' = [V EXCEPT ![p + 1] = calls + 1]
        BY <1>4, ReturnArrays
      <3>5. QED
        BY <1>1, <3>1, <3>2, <3>3, <3>4
    <2>3. phase' = "S" \/ pc' = "expand" => V' = V
      <3>1. CASE pc \in {"expand", "last"}
        BY <1>4, <3>1, ReturnArrays
      <3>2. CASE pc \notin {"expand", "last"}
        BY <1>4, <3>2, ReturnArrays, PassBegins
      <3>3. QED
        BY <3>1, <3>2
    <2>4. phase' = "S" \/ pc' = "expand" => \A k \in 0..last_V : V'[k] = 0
      BY <1>4, <2>3, PassBegins DEF ArrayInv
    <2>5. phase' = "V" /\ pc' # "expand" => expanded' = R
      BY <1>4, PassBegins
    <2>6. QED
      BY <2>2, <2>4, <2>5 DEF ArrayInv, Sbytes, Sbytes1
  <1>5. QED
    BY <1>2, <1>3, <1>4, ArrayFrame

LEMMA RefStart == Init => RefInv
  <1> SUFFICES ASSUME Init PROVE RefInv
    OBVIOUS
  <1>1. PowerInv /\ WordInv
    BY DEF Init, PowerInv, WordInv
  <1>2. S \in [0..((Sbytes \div 128) - 1) -> Int] /\ V \in [0..(N - 1) -> Int]
    BY DEF Init
  <1>3. \A k \in 0..(N - 1) : V[k] = 0
    BY DEF Init
  <1>4. ArrayInv
    BY <1>2, <1>3 DEF ArrayInv, Init
  <1>5. QED
    BY <1>1, <1>4, Start DEF RefInv

LEMMA RefStep == ASSUME Allowed, RefInv, [Next]_vars PROVE RefInv'
  BY Step, PowerStep, WordStep, ArrayStep DEF RefInv

-----------------------------------------------------------------------------
(* The end of a call: both implementations have the same block, at the same place
   of the same pass, with the same arrays. *)

Filling == {"first", "second", "even", "odd", "tail"}

\* Where the end of a call leaves X.
LEMMA ReturnPlace ==
    ASSUME IInv, busy, phase # "done", Return
    PROVE  /\ busy' = FALSE /\ calls' = calls + 1
           /\ \/ /\ phase = "V" /\ pc = "expand"
                 /\ phase' = "V" /\ p = 0 /\ p' = 0 /\ expanded' = expanded + 1
                 /\ pc' = "expand" \/ (pc' = "first" /\ V' = [V EXCEPT ![0] = calls + 1])
                 /\ S' = S /\ B' = calls + 1
              \/ /\ phase = "S" /\ pc \in Filling
                 /\ phase' = "S" /\ p' = p + 1 /\ expanded' = expanded /\ pc' \in Smix1Point
                 /\ S' = [S EXCEPT ![p + 1] = calls + 1] /\ V' = V
              \/ /\ phase = "V" /\ pc \in Filling
                 /\ phase' = "V" /\ p' = p + 1 /\ expanded' = expanded /\ pc' \in Smix1Point
                 /\ V' = [V EXCEPT ![p + 1] = calls + 1] /\ S' = S
              \/ /\ phase = "S" /\ pc = "last"
                 /\ phase' = "V" /\ p' = 0 /\ expanded' = expanded
                 /\ pc' = "expand" \/ (pc' = "first" /\ V' = [V EXCEPT ![0] = calls + 1])
                 /\ S' = S /\ B' = calls + 1
              \/ /\ phase = "V" /\ pc = "last"
                 /\ phase' = "loop" /\ pc' = "odd_turn" /\ Nloop' = NloopRw
                 /\ expanded' = expanded /\ S' = S /\ V' = V /\ B' = calls + 1
              \/ /\ phase = "loop" /\ pc = "odd_turn"
                 /\ phase' = "loop" /\ pc' = "even_turn" /\ Nloop' = Nloop
                 /\ expanded' = expanded /\ S' = S /\ V' = V /\ B' = calls + 1
              \/ /\ phase = "loop" /\ pc = "even_turn"
                 /\ phase' = (IF Nloop = 2 THEN "done" ELSE "loop")
                 /\ pc' # "even_turn" /\ Nloop' = Nloop - 2
                 /\ expanded' = expanded /\ S' = S /\ V' = V /\ B' = calls + 1
  <1>1. busy' = FALSE /\ calls' = calls + 1
    BY DEF Return
  <1>2. CASE phase = "loop"
    <2>1. ReturnSmix2 /\ pc \in {"odd_turn", "even_turn"}
      BY <1>2 DEF Return, IInv, PhaseInv
    <2>2. CASE pc = "odd_turn"
      BY <1>1, <1>2, <2>1, <2>2 DEF ReturnSmix2
    <2>3. CASE pc = "even_turn"
      BY <1>1, <1>2, <2>1, <2>3 DEF ReturnSmix2
    <2>4. QED
      BY <2>1, <2>2, <2>3
  <1>3. CASE phase # "loop"
    <2>1. ReturnSmix1 /\ phase \in {"S", "V"} /\ pc \in Filling \cup {"expand", "last"}
      BY <1>3 DEF Return, IInv, PhaseInv, TypeOK, Smix1Point, Filling
    <2>2. CASE pc = "expand"
      <3>1. phase = "V" /\ p = 0
        BY <2>1, <2>2 DEF IInv, PhaseInv, PlaceInv, Smix1Point
      <3>2. QED
        BY <1>1, <2>1, <2>2, <3>1 DEF ReturnSmix1, Begin, loopVars
    <2>3. CASE pc = "last"
      BY <1>1, <2>1, <2>3 DEF ReturnSmix1, Begin
    <2>4. CASE pc \in Filling
      <3>1. Store /\ phase' = phase /\ expanded' = expanded
        BY <2>1, <2>4 DEF ReturnSmix1, Filling
      <3>2. pc' \in Smix1Point
        BY <2>1, <2>4 DEF ReturnSmix1, Filling, TheHead, LoopHead, Smix1Point
      <3>3. CASE phase = "S"
        BY <1>1, <2>4, <3>1, <3>2, <3>3 DEF Store
      <3>4. CASE phase = "V"
        BY <1>1, <2>4, <3>1, <3>2, <3>4 DEF Store
      <3>5. QED
        BY <2>1, <3>3, <3>4
    <2>5. QED
      BY <2>1, <2>2, <2>3, <2>4
  <1>4. QED
    BY <1>2, <1>3

\* An array that is filled up to p, before and after the next block is stored.
LEMMA FilledNext ==
    ASSUME NEW len \in Nat, NEW A \in [0..len -> Int], NEW q \in Nat, NEW x \in Int
    PROVE  [k \in 0..len |-> IF k < q + 1 THEN [A EXCEPT ![q + 1] = x][k] ELSE 0]
             = [k \in 0..len |-> IF k < q \/ k = q THEN A[k] ELSE 0]
  <1>1. ASSUME NEW k \in 0..len
        PROVE (IF k < q + 1 THEN [A EXCEPT ![q + 1] = x][k] ELSE 0)
                = (IF k < q \/ k = q THEN A[k] ELSE 0)
    <2>1. CASE k < q + 1
      BY <2>1
    <2>2. CASE ~(k < q + 1)
      BY <2>2
    <2>3. QED
      BY <2>1, <2>2
  <1>2. QED
    BY <1>1

LastS == (Sbytes \div 128) - 1
LastV == N - 1

LEMMA Lasts == /\ LastS \in Nat /\ LastV \in Nat /\ UNCHANGED <<LastS, LastV>>
               /\ phase = "S" => Size = LastS + 1
               /\ phase # "S" => Size = LastV + 1
  <1> DEFINE k == Entries \div 16
  <1>1. k \in Nat /\ k >= 1 /\ Entries = 16 * k
    BY YespowerAssumption
  <1>2. Sbytes \div 128 = 6 * k
    BY <1>1 DEF Sbytes, Sbytes1
  <1>3. LastS \in Nat /\ LastV \in Nat
    BY <1>1, <1>2, YespowerAssumption DEF LastS, LastV
  <1>4. UNCHANGED <<LastS, LastV>>
    BY DEF LastS, LastV, Sbytes, Sbytes1
  <1>5. LastS + 1 = Sbytes \div 128 /\ LastV + 1 = N
    BY <1>1, <1>2, YespowerAssumption DEF LastS, LastV
  <1>6. QED
    BY <1>3, <1>4, <1>5 DEF Size

\* What the reference implementation sees of the arrays.
LEMMA SeenArrays ==
    ASSUME ArrayInv
    PROVE  /\ RefS = [k \in 0..LastS |->
                        IF phase # "S" \/ k < p \/ (k = p /\ busy) THEN S[k] ELSE 0]
           /\ RefV = [k \in 0..LastV |->
                        IF phase \in {"loop", "done"} \/ k < p \/ (k = p /\ busy) THEN V[k] ELSE 0]
  <1>1. DOMAIN S = 0..LastS /\ DOMAIN V = 0..LastV
    BY DEF ArrayInv, LastS, LastV
  <1>2. QED
    BY <1>1 DEF RefS, RefV, Filled

LEMMA SeenNext ==
    ASSUME ArrayInv'
    PROVE  /\ RefS' = [k \in 0..LastS |->
                        IF phase' # "S" \/ k < p' \/ (k = p' /\ busy') THEN S'[k] ELSE 0]
           /\ RefV' = [k \in 0..LastV |->
                        IF phase' \in {"loop", "done"} \/ k < p' \/ (k = p' /\ busy') THEN V'[k] ELSE 0]
  <1>1. DOMAIN S' = 0..LastS /\ DOMAIN V' = 0..LastV
    BY Lasts DEF ArrayInv, LastS, LastV, Sbytes, Sbytes1
  <1>2. QED
    BY <1>1 DEF RefS, RefV, Filled

\* The block a call has computed is not seen before the next call stores it.
LEMMA ReturnHidesS ==
    ASSUME RefInv, ArrayInv', busy, phase # "done", Return
    PROVE  RefS' = RefS
  <1>1. /\ p \in Nat /\ calls + 1 \in Int
        /\ LastS \in Nat /\ S \in [0..LastS -> Int] /\ busy' = FALSE
    BY CallsAre, Lasts, ReturnPlace, Zenon DEF RefInv, IInv, TypeOK, ArrayInv, LastS
  <1>2. /\ RefS = [k \in 0..LastS |->
                     IF phase # "S" \/ k < p \/ k = p THEN S[k] ELSE 0]
        /\ RefS' = [k \in 0..LastS |-> IF phase' # "S" \/ k < p' THEN S'[k] ELSE 0]
    BY <1>1, SeenArrays, SeenNext DEF RefInv
  <1>3. CASE phase # "S"
    <2>1. phase' # "S" /\ S' = S
      BY <1>3, ReturnPlace DEF RefInv
    <2>2. QED
      BY <1>2, <1>3, <2>1
  <1>4. CASE phase = "S" /\ pc = "last"
    <2>1. phase' # "S" /\ S' = S
      BY <1>4, ReturnPlace DEF RefInv, Filling
    <2>2. p = LastS
      BY <1>1, <1>4, Lasts DEF RefInv, IInv, PlaceInv
    <2>3. \A k \in 0..LastS : k < p \/ k = p
      BY <1>1, <2>2
    <2>4. QED
      BY <1>2, <2>1, <2>3
  <1>5. CASE phase = "S" /\ pc # "last"
    <2>1. phase' = "S" /\ p' = p + 1 /\ S' = [S EXCEPT ![p + 1] = calls + 1]
      BY <1>5, ReturnPlace DEF RefInv
    <2>2. /\ RefS = [k \in 0..LastS |-> IF k < p \/ k = p THEN S[k] ELSE 0]
          /\ RefS' = [k \in 0..LastS |->
                       IF k < p + 1 THEN [S EXCEPT ![p + 1] = calls + 1][k] ELSE 0]
      BY <1>2, <1>5, <2>1
    <2>3. QED
      BY <1>1, <2>2, FilledNext
  <1>6. QED
    BY <1>3, <1>4, <1>5

LEMMA ReturnHidesV ==
    ASSUME RefInv, ArrayInv', busy, phase # "done", Return
    PROVE  RefV' = RefV
  <1>1. /\ p \in Nat /\ calls + 1 \in Int
        /\ LastV \in Nat /\ V \in [0..LastV -> Int] /\ busy' = FALSE
    BY CallsAre, Lasts, ReturnPlace, Zenon DEF RefInv, IInv, TypeOK, ArrayInv, LastV
  <1>2. /\ RefV = [k \in 0..LastV |->
                     IF phase \in {"loop", "done"} \/ k < p \/ k = p THEN V[k] ELSE 0]
        /\ RefV' = [k \in 0..LastV |->
                     IF phase' \in {"loop", "done"} \/ k < p' THEN V'[k] ELSE 0]
    BY <1>1, SeenArrays, SeenNext DEF RefInv
  <1>3. CASE phase = "loop"
    <2>1. phase' \in {"loop", "done"} /\ V' = V
      BY <1>3, ReturnPlace DEF RefInv
    <2>2. QED
      BY <1>2, <1>3, <2>1
  <1>4. CASE phase = "V" /\ pc = "last"
    <2>1. phase' = "loop" /\ V' = V
      BY <1>4, ReturnPlace DEF RefInv, Filling
    <2>2. p = LastV
      BY <1>1, <1>4, Lasts DEF RefInv, IInv, PlaceInv
    <2>3. \A k \in 0..LastV : k < p \/ k = p
      BY <1>1, <2>2
    <2>4. QED
      BY <1>2, <2>1, <2>3
  <1>5. CASE phase = "V" /\ pc \in Filling
    <2>1. phase' = "V" /\ p' = p + 1 /\ V' = [V EXCEPT ![p + 1] = calls + 1]
      BY <1>5, ReturnPlace DEF RefInv, Filling
    <2>2. /\ RefV = [k \in 0..LastV |-> IF k < p \/ k = p THEN V[k] ELSE 0]
          /\ RefV' = [k \in 0..LastV |->
                       IF k < p + 1 THEN [V EXCEPT ![p + 1] = calls + 1][k] ELSE 0]
      BY <1>2, <1>5, <2>1
    <2>3. QED
      BY <1>1, <2>2, FilledNext
  <1>6. CASE phase = "S" \/ pc = "expand"
    <2>1. \A k \in 0..LastV : V[k] = 0
      BY <1>6 DEF RefInv, ArrayInv, LastV
    <2>2. phase \in {"S", "V"}
      BY <1>6 DEF RefInv, IInv, PhaseInv, TypeOK
    <2>3. RefV = [k \in 0..LastV |-> 0]
      BY <1>2, <2>1, <2>2
    <2>4. phase' \in {"S", "V"} /\ (p' = 0 \/ V' = V)
      BY <1>6, ReturnPlace DEF RefInv, Filling
    <2>5. p' = 0 => \A k \in 0..LastV : ~(k < p')
      BY <1>1
    <2>6. RefV' = [k \in 0..LastV |-> 0]
      BY <1>2, <2>1, <2>4, <2>5
    <2>7. QED
      BY <2>3, <2>6
  <1>7. QED
    BY <1>3, <1>4, <1>5, <1>6, ReturnPlace DEF RefInv

LEMMA ReturnBlock ==
    ASSUME RefInv, busy, phase # "done", Return
    PROVE  RefX' = calls + 1
  <1>1. /\ p \in Nat /\ calls + 1 \in Int
        /\ S \in [0..LastS -> Int] /\ V \in [0..LastV -> Int] /\ 0 \in 0..LastV
    <2>1. p \in Nat /\ calls + 1 \in Int /\ S \in [0..LastS -> Int] /\ V \in [0..LastV -> Int]
      BY CallsAre, Zenon DEF RefInv, IInv, TypeOK, ArrayInv, LastS, LastV
    <2>2. 0 \in 0..LastV
      BY Lasts
    <2>3. QED
      BY <2>1, <2>2
  <1>2. CASE pc \in Filling
    <2>1. pc \in Smix1Point
      BY <1>2 DEF Filling, Smix1Point
    <2>2. phase \in {"S", "V"}
      BY <2>1 DEF RefInv, IInv, PhaseInv, TypeOK, Smix1Point
    <2>3. p + 1 < Size
      BY <1>2, <2>2, PlaceIsInside DEF RefInv, IInv, Filling
    <2>4. CASE phase = "S"
      <3>1. /\ phase' = "S" /\ p' = p + 1 /\ pc' \in Smix1Point
            /\ S' = [S EXCEPT ![p + 1] = calls + 1]
        BY <1>2, <2>4, ReturnPlace DEF RefInv, Filling
      <3>2. p + 1 \in 0..LastS
        BY <1>1, <2>3, <2>4, Lasts
      <3>3. S'[p'] = calls + 1
        BY <1>1, <3>1, <3>2
      <3>4. QED
        BY <3>1, <3>3 DEF RefX, Array, Smix1Point
    <2>5. CASE phase = "V"
      <3>1. /\ phase' = "V" /\ p' = p + 1 /\ pc' \in Smix1Point
            /\ V' = [V EXCEPT ![p + 1] = calls + 1]
        BY <1>2, <2>5, ReturnPlace DEF RefInv, Filling
      <3>2. p + 1 \in 0..LastV
        BY <1>1, <2>3, <2>5, Lasts
      <3>3. V'[p'] = calls + 1
        BY <1>1, <3>1, <3>2
      <3>4. QED
        BY <3>1, <3>3 DEF RefX, Array, Smix1Point
    <2>6. QED
      BY <2>2, <2>4, <2>5
  <1>3. CASE phase' = "V" /\ p' = 0 /\ pc' = "first" /\ V' = [V EXCEPT ![0] = calls + 1]
    <2>1. V'[0] = calls + 1
      BY <1>1, <1>3
    <2>2. QED
      BY <1>3, <2>1 DEF RefX, Array
  <1>4. CASE (pc' = "expand" \/ phase' \in {"loop", "done"}) /\ B' = calls + 1
    BY <1>4 DEF RefX
  <1>5. QED
    BY <1>2, <1>3, <1>4, ReturnPlace DEF RefInv

\* The next call is the next iteration, or the first of the next pass.
LEMMA ReturnIteration ==
    ASSUME RefInv, busy, phase # "done", Return
    PROVE  IF phase = "V" /\ expanded < R
           THEN expanded' = expanded + 1 /\ UNCHANGED <<phase, RefI>>
           ELSE /\ RefI' = IF RefI + 1 = Reference!End[phase] THEN 0 ELSE RefI + 1
                /\ phase' = IF RefI + 1 = Reference!End[phase] THEN Reference!After[phase] ELSE phase
                /\ UNCHANGED expanded
  <1>1. phase \in {"S", "V"} => Reference!End[phase] = Size
    BY SameSizes DEF Reference!End
  <1>2. phase = "loop" => Reference!End[phase] = NloopRw
    BY SameSizes DEF Reference!End
  <1>3. /\ Reference!After["S"] = "V" /\ Reference!After["V"] = "loop"
        /\ Reference!After["loop"] = "done"
    BY DEF Reference!After
  <1>4. p \in Nat /\ NloopRw \in Nat /\ Nloop \in Nat /\ Size \in Nat
    BY EvenLoops, SizeIsEven, Zenon DEF RefInv, IInv, TypeOK
  <1>5. NloopRw' = NloopRw
    BY DEF NloopRw
  <1>6. CASE pc = "expand"
    <2>1. phase = "V" /\ phase' = "V" /\ p' = p /\ expanded' = expanded + 1
      BY <1>6, ReturnPlace DEF RefInv, Filling
    <2>2. expanded < R
      BY <1>6 DEF RefInv, IInv, PhaseInv
    <2>3. RefI' = RefI
      BY <2>1 DEF RefI
    <2>4. QED
      BY <2>1, <2>2, <2>3
  <1>7. pc # "expand" => ~(phase = "V" /\ expanded < R)
    BY YespowerAssumption DEF RefInv, ArrayInv
  <1>8. CASE pc \in Filling
    <2>1. phase \in {"S", "V"} /\ phase' = phase /\ p' = p + 1 /\ expanded' = expanded
      BY <1>8, ReturnPlace DEF RefInv, Filling
    <2>2. p + 1 < Size
      BY <1>8, <2>1, PlaceIsInside DEF RefInv, IInv, Filling
    <2>3. RefI = p /\ RefI' = p + 1
      BY <2>1 DEF RefI
    <2>4. RefI + 1 # Reference!End[phase]
      BY <1>1, <1>4, <2>1, <2>2, <2>3
    <2>5. QED
      BY <1>7, <1>8, <2>1, <2>3, <2>4 DEF Filling
  <1>9. CASE pc = "last"
    <2>1. phase \in {"S", "V"}
      BY <1>9, ReturnPlace DEF RefInv, Filling
    <2>2. RefI = p /\ p + 1 = Size
      BY <1>4, <1>9, <2>1 DEF RefI, RefInv, IInv, PlaceInv
    <2>3. RefI + 1 = Reference!End[phase]
      BY <1>1, <2>1, <2>2
    <2>4. phase' = Reference!After[phase] /\ expanded' = expanded
      BY <1>3, <1>9, <2>1, ReturnPlace DEF RefInv, Filling
    <2>5. RefI' = 0
      <3>1. CASE phase = "S"
        <4>1. phase' = "V" /\ p' = 0
          BY <1>9, <3>1, ReturnPlace DEF RefInv, Filling
        <4>2. QED
          BY <4>1 DEF RefI
      <3>2. CASE phase = "V"
        <4>1. phase' = "loop" /\ pc' = "odd_turn" /\ Nloop' = NloopRw
          BY <1>9, <3>2, ReturnPlace DEF RefInv, Filling
        <4>2. RefI' = NloopRw - NloopRw + 0
          BY <1>5, <4>1 DEF RefI
        <4>3. QED
          BY <1>4, <4>2
      <3>3. QED
        BY <2>1, <3>1, <3>2
    <2>6. QED
      BY <1>7, <1>9, <2>3, <2>4, <2>5
  <1>10. CASE phase = "loop"
    <2>1. Nloop >= 2
      BY <1>10 DEF RefInv, IInv, PhaseInv
    <2>2. CASE pc = "odd_turn"
      <3>1. phase' = "loop" /\ pc' = "even_turn" /\ Nloop' = Nloop /\ expanded' = expanded
        BY <1>10, <2>2, ReturnPlace DEF RefInv, Filling
      <3>2. RefI = NloopRw - Nloop + 0 /\ RefI' = NloopRw - Nloop + 1
        BY <1>5, <1>10, <2>2, <3>1 DEF RefI
      <3>3. RefI' = RefI + 1 /\ RefI + 1 # NloopRw
        BY <1>4, <2>1, <3>2
      <3>4. QED
        BY <1>2, <1>10, <3>1, <3>3
    <2>3. CASE pc = "even_turn"
      <3>1. /\ phase' = (IF Nloop = 2 THEN "done" ELSE "loop")
            /\ pc' # "even_turn" /\ Nloop' = Nloop - 2 /\ expanded' = expanded
        BY <1>10, <2>3, ReturnPlace DEF RefInv, Filling
      <3>2. RefI = NloopRw - Nloop + 1
        BY <1>10, <2>3 DEF RefI
      <3>3. RefI' = IF Nloop = 2 THEN 0 ELSE NloopRw - (Nloop - 2) + 0
        BY <1>5, <3>1 DEF RefI
      <3>4. (RefI + 1 = NloopRw <=> Nloop = 2) /\ NloopRw - (Nloop - 2) + 0 = RefI + 1
        BY <1>4, <3>2
      <3>5. QED
        BY <1>2, <1>3, <1>10, <3>1, <3>3, <3>4
    <2>4. QED
      BY <1>10, <2>2, <2>3 DEF RefInv, IInv, PhaseInv
  <1>11. QED
    BY <1>6, <1>8, <1>9, <1>10, ReturnPlace DEF RefInv

LEMMA ReturnRefines ==
    ASSUME RefInv, ArrayInv', busy, phase # "done", Return
    PROVE  Reference!Return /\ UNCHANGED <<RefS, RefV>>
  <1>1. RefX' = calls + 1 /\ calls' = calls + 1 /\ busy' = FALSE /\ bi' = 0
    BY ReturnBlock DEF Return
  <1>2. Reference!Return
    BY <1>1, ReturnIteration DEF Reference!Return
  <1>3. QED
    BY <1>2, ReturnHidesS, ReturnHidesV

-----------------------------------------------------------------------------
(* Every step is a step of the reference implementation. *)

LEMMA ExpandRefines == ASSUME RefInv, ArrayInv', Expand PROVE Reference!Expand
  <1>1. /\ phase = "V" /\ pc = "expand" /\ ~busy /\ busy' = TRUE /\ last' = <<B>>
        /\ UNCHANGED <<phase, pc, p, expanded, Nloop, B, S, V, calls, bi, ctx, w, writes>>
    BY DEF Expand, loopVars, pwxVars
  <1>2. expanded < R /\ p = 0
    BY <1>1 DEF RefInv, IInv, PhaseInv, PlaceInv
  <1>3. RefX = B /\ RefX' = RefX /\ RefI' = RefI
    BY <1>1 DEF RefX, RefI
  <1>4. RefS' = RefS
    BY <1>1, SeenArrays, SeenNext DEF RefInv
  <1>5. RefV' = RefV
    <2>1. \A k \in 0..LastV : V[k] = 0
      BY <1>1 DEF RefInv, ArrayInv, LastV
    <2>2. RefV = [k \in 0..LastV |-> 0] /\ RefV' = [k \in 0..LastV |-> 0]
      BY <1>1, <2>1, SeenArrays, SeenNext DEF RefInv
    <2>3. QED
      BY <2>2
  <1>6. RefWrites' = RefWrites /\ (w \div 8)' = w \div 8
    BY <1>1 DEF RefWrites
  <1>7. QED
    BY <1>1, <1>2, <1>3, <1>4, <1>5, <1>6 DEF Reference!Expand

\* An array that is filled up to q, without and with the block at q.
LEMMA FilledHere ==
    ASSUME NEW len \in Nat, NEW A \in [0..len -> Int], NEW q \in 0..len
    PROVE  [k \in 0..len |-> IF k < q \/ k = q THEN A[k] ELSE 0]
             = [[k \in 0..len |-> IF k < q THEN A[k] ELSE 0] EXCEPT ![q] = A[q]]
  OBVIOUS

\* A call of smix1 that reads both X and V_j, or X alone.
LEMMA CallReads ==
    ASSUME RefInv, Smix1Call
    PROVE  /\ p \in Nat /\ p < Size
           /\ \/ p <= 1 /\ last' = <<Array[p]>>
              \/ /\ p > 1 /\ g \in Word
                 /\ Reference!wrap(g, p) \in Nat /\ Reference!wrap(g, p) < p
                 /\ last' = <<Array[p], Array[Reference!wrap(g, p)]>>
  <1>1. phase \in {"S", "V"} /\ pc \in Smix1Point
    BY DEF Smix1Call, RefInv, IInv, PhaseInv
  <1>2. p \in Nat /\ p < Size
    BY <1>1, PlaceIsInside DEF RefInv, IInv
  <1>3. CASE pc \in {"first", "second"}
    <2>1. last' = <<Array[p]>>
      BY <1>3 DEF Smix1Call
    <2>2. p <= 1
      BY <1>3 DEF RefInv, IInv, PlaceInv
    <2>3. QED
      BY <1>2, <2>1, <2>2
  <1>4. CASE pc \in {"even", "odd", "tail", "last"}
    <2>1. last' = <<Array[p], Array[Window(Size)]>>
      BY <1>4 DEF Smix1Call
    <2>2. g \in Word
      BY <1>4 DEF RefInv, WordInv
    <2>3. Window(Size) = Reference!wrap(g, p) /\ p > 1
      BY <1>1, <1>4, SameWindow
    <2>4. Window(Size) \in Nat /\ Window(Size) < p
      BY <1>4, WindowIsWritten DEF RefInv, IInv
    <2>5. QED
      BY <1>2, <2>1, <2>2, <2>3, <2>4
  <1>5. QED
    BY <1>1, <1>3, <1>4 DEF Smix1Point

LEMMA Smix1CallRefines == ASSUME RefInv, ArrayInv', Smix1Call PROVE Reference!Fill
  <1>1. /\ phase \in {"S", "V"} /\ pc # "expand" /\ ~busy /\ busy' = TRUE
        /\ UNCHANGED <<phase, pc, p, expanded, Nloop, B, S, V, calls, bi, ctx, w, writes>>
    BY DEF Smix1Call, loopVars, pwxVars
  <1>2. phase = "V" => expanded = R
    BY <1>1 DEF RefInv, ArrayInv
  <1>3. RefX = Array[p] /\ RefX' = RefX /\ RefI = p /\ RefI' = p
    BY <1>1 DEF RefX, RefI, Array
  <1>4. RefWrites' = RefWrites /\ (w \div 8)' = w \div 8
    BY <1>1 DEF RefWrites
  <1>5. p \in Nat /\ p < Size
    BY CallReads
  <1>6. CASE phase = "S"
    <2>1. p \in 0..LastS /\ LastS \in Nat /\ S \in [0..LastS -> Int]
      BY <1>5, <1>6, Lasts DEF RefInv, ArrayInv, LastS
    <2>2. /\ RefS = [k \in 0..LastS |-> IF k < p THEN S[k] ELSE 0]
          /\ RefS' = [k \in 0..LastS |-> IF k < p \/ k = p THEN S[k] ELSE 0]
      BY <1>1, <1>6, SeenArrays, SeenNext DEF RefInv
    <2>3. RefS' = Reference!Stored(RefS, RefI, RefX)
      BY <1>3, <1>6, <2>1, <2>2, FilledHere DEF Reference!Stored, Array
    <2>4. RefV' = RefV
      <3>1. \A k \in 0..LastV : V[k] = 0
        BY <1>6 DEF RefInv, ArrayInv, LastV
      <3>2. RefV = [k \in 0..LastV |-> 0] /\ RefV' = [k \in 0..LastV |-> 0]
        BY <1>1, <3>1, SeenArrays, SeenNext DEF RefInv
      <3>3. QED
        BY <3>2
    <2>5. \/ RefI <= 1 /\ last' = <<RefX>>
          \/ RefI > 1 /\ \E word \in Word : last' = <<RefX, RefS'[Reference!wrap(word, RefI)]>>
      <3>1. CASE p > 1 /\ last' = <<Array[p], Array[Reference!wrap(g, p)]>>
                 /\ Reference!wrap(g, p) \in Nat /\ Reference!wrap(g, p) < p /\ g \in Word
        <4>1. RefS'[Reference!wrap(g, p)] = S[Reference!wrap(g, p)]
          <5> DEFINE j == Reference!wrap(g, p)
          <5>1. j \in Nat /\ j < p
            BY <3>1
          <5> HIDE DEF j
          <5>2. RefS'[j] = S[j]
            BY <2>1, <2>2, <5>1
          <5>3. QED
            BY <5>2 DEF j
        <4>2. last' = <<RefX, RefS'[Reference!wrap(g, RefI)]>>
          BY <1>3, <1>6, <3>1, <4>1 DEF Array
        <4>3. QED
          BY <1>3, <3>1, <4>2
      <3>2. QED
        BY <1>3, <3>1, CallReads
    <2>6. QED
      BY <1>1, <1>3, <1>4, <1>5, <1>6, <2>3, <2>4, <2>5 DEF Reference!Fill
  <1>7. CASE phase = "V"
    <2>1. p \in 0..LastV /\ LastV \in Nat /\ V \in [0..LastV -> Int]
      BY <1>5, <1>7, Lasts DEF RefInv, ArrayInv, LastV
    <2>2. /\ RefV = [k \in 0..LastV |-> IF k < p THEN V[k] ELSE 0]
          /\ RefV' = [k \in 0..LastV |-> IF k < p \/ k = p THEN V[k] ELSE 0]
      BY <1>1, <1>7, SeenArrays, SeenNext DEF RefInv
    <2>3. RefV' = Reference!Stored(RefV, RefI, RefX)
      BY <1>3, <1>7, <2>1, <2>2, FilledHere DEF Reference!Stored, Array
    <2>4. RefS' = RefS
      BY <1>1, <1>7, SeenArrays, SeenNext DEF RefInv
    <2>5. \/ RefI <= 1 /\ last' = <<RefX>>
          \/ RefI > 1 /\ \E word \in Word : last' = <<RefX, RefV'[Reference!wrap(word, RefI)]>>
      <3>1. CASE p > 1 /\ last' = <<Array[p], Array[Reference!wrap(g, p)]>>
                 /\ Reference!wrap(g, p) \in Nat /\ Reference!wrap(g, p) < p /\ g \in Word
        <4>1. RefV'[Reference!wrap(g, p)] = V[Reference!wrap(g, p)]
          <5> DEFINE j == Reference!wrap(g, p)
          <5>1. j \in Nat /\ j < p
            BY <3>1
          <5> HIDE DEF j
          <5>2. RefV'[j] = V[j]
            BY <2>1, <2>2, <5>1
          <5>3. QED
            BY <5>2 DEF j
        <4>2. last' = <<RefX, RefV'[Reference!wrap(g, RefI)]>>
          BY <1>3, <1>7, <3>1, <4>1 DEF Array
        <4>3. QED
          BY <1>3, <3>1, <4>2
      <3>2. QED
        BY <1>3, <3>1, CallReads
    <2>6. QED
      BY <1>1, <1>2, <1>3, <1>4, <1>5, <1>7, <2>3, <2>4, <2>5 DEF Reference!Fill
  <1>8. QED
    BY <1>1, <1>6, <1>7

LEMMA Smix2CallRefines == ASSUME RefInv, ArrayInv', Smix2Call PROVE Reference!Loop
  <1>1. /\ phase = "loop" /\ ~busy /\ busy' = TRUE
        /\ last' = <<B, V[And(g, N)]>> /\ V' = [V EXCEPT ![And(g, N)] = Mixed]
        /\ UNCHANGED <<phase, pc, p, expanded, Nloop, B, S, calls, bi, ctx, w, writes>>
    BY DEF Smix2Call, loopVars, pwxVars
  <1>2. g \in Word
    BY <1>1 DEF RefInv, IInv, PhaseInv, WordInv
  <1>3. RefX = B /\ RefX' = B /\ RefI' = RefI
    BY <1>1 DEF RefX, RefI, NloopRw
  <1>4. RefWrites' = RefWrites /\ (w \div 8)' = w \div 8
    BY <1>1 DEF RefWrites
  <1>5. RefS' = RefS
    BY <1>1, SeenArrays, SeenNext DEF RefInv
  <1>6. V \in [0..LastV -> Int] /\ V' \in [0..LastV -> Int]
    BY <1>1, Lasts DEF RefInv, ArrayInv, LastV
  <1>7. RefV = [k \in 0..LastV |-> V[k]] /\ RefV' = [k \in 0..LastV |-> V'[k]]
    BY <1>1, SeenArrays, SeenNext DEF RefInv
  <1>8. RefV = V /\ RefV' = V'
    BY <1>6, <1>7
  <1>9. RefV' = Reference!Stored(RefV, g % N, Reference!Mixed) /\ last' = <<RefX, RefV[g % N]>>
    BY <1>1, <1>3, <1>8 DEF And, Mixed, Reference!Stored, Reference!Mixed
  <1>10. QED
    BY <1>1, <1>2, <1>3, <1>4, <1>5, <1>9 DEF Reference!Loop

LEMMA SalsaRefines == ASSUME RefInv, ArrayInv', Salsa PROVE Reference!Salsa
  <1>1. busy /\ phase = "S" /\ Return /\ UNCHANGED <<last, ctx, w, writes>>
    BY DEF Salsa, pwxVars
  <1>2. Reference!Return /\ UNCHANGED <<RefS, RefV>>
    BY <1>1, ReturnRefines
  <1>3. RefWrites' = RefWrites /\ (w \div 8)' = w \div 8
    BY <1>1 DEF RefWrites
  <1>4. QED
    BY <1>1, <1>2, <1>3 DEF Reference!Salsa

-----------------------------------------------------------------------------
(* pwxform: the unrolled writes of the miner are those of the nested loops. *)

LEMMA WritingIs ==
    Reference!Writing =
        {<<0, 0>>, <<0, 1>>, <<0, 2>>, <<0, 3>>, <<1, 0>>, <<1, 1>>, <<2, 0>>, <<2, 1>>}
  <1>1. ASSUME NEW k \in 0..2, NEW j \in 0..3
        PROVE Reference!Written(k, j) <=>
                <<k, j>> \in {<<0, 0>>, <<0, 1>>, <<0, 2>>, <<0, 3>>,
                              <<1, 0>>, <<1, 1>>, <<2, 0>>, <<2, 1>>}
    BY DEF Reference!Written, Reference!PWXgather
  <1>2. Reference!Writing = {r \in (0..2) \X (0..3) : Reference!Written(r[1], r[2])}
    BY DEF Reference!Writing, Reference!PWXrounds, Reference!PWXgather
  <1>3. QED
    BY <1>1, <1>2

LEMMA OddIs == Reference!Odd = {<<0, 1>>, <<0, 3>>, <<1, 1>>, <<2, 1>>}
  BY WritingIs DEF Reference!Odd

LEMMA BeforeIs ==
    /\ Reference!Before(0, 0) = {} /\ Reference!Before(0, 1) = {}
    /\ Reference!Before(0, 2) = {<<0, 1>>} /\ Reference!Before(0, 3) = {<<0, 1>>}
    /\ Reference!Before(1, 0) = {<<0, 1>>, <<0, 3>>}
    /\ Reference!Before(1, 1) = {<<0, 1>>, <<0, 3>>}
    /\ Reference!Before(2, 0) = {<<0, 1>>, <<0, 3>>, <<1, 1>>}
    /\ Reference!Before(2, 1) = {<<0, 1>>, <<0, 3>>, <<1, 1>>}
  BY OddIs DEF Reference!Before

\* The reference module counts as this one does.
LEMMA SameCount == \A T : Reference!Cardinality(T) = Cardinality(T)
  BY DEF Cardinality, Reference!Cardinality

LEMMA Counts ==
    /\ Reference!Cardinality({}) = 0
    /\ Reference!Cardinality({<<0, 1>>}) = 1
    /\ Reference!Cardinality({<<0, 1>>, <<0, 3>>}) = 2
    /\ Reference!Cardinality({<<0, 1>>, <<0, 3>>, <<1, 1>>}) = 3
    /\ Reference!Cardinality({<<0, 1>>, <<0, 3>>, <<1, 1>>, <<2, 1>>}) = 4
  <1> DEFINE One == {<<0, 1>>}
  <1> DEFINE Two == {<<0, 1>>, <<0, 3>>}
  <1> DEFINE Three == {<<0, 1>>, <<0, 3>>, <<1, 1>>}
  <1> DEFINE Four == {<<0, 1>>, <<0, 3>>, <<1, 1>>, <<2, 1>>}
  <1>1. IsFiniteSet(One) /\ Cardinality(One) = 1
    BY FS_Singleton
  <1>2. Two = One \cup {<<0, 3>>} /\ <<0, 3>> \notin One
    OBVIOUS
  <1>3. Three = Two \cup {<<1, 1>>} /\ <<1, 1>> \notin Two
    OBVIOUS
  <1>4. Four = Three \cup {<<2, 1>>} /\ <<2, 1>> \notin Three
    OBVIOUS
  <1>5. Cardinality({}) = 0
    BY FS_EmptySet
  <1> HIDE DEF One, Two, Three, Four
  <1>7. IsFiniteSet(Two) /\ Cardinality(Two) = 2
    BY <1>1, <1>2, FS_AddElement
  <1>8. IsFiniteSet(Three) /\ Cardinality(Three) = 3
    BY <1>3, <1>7, FS_AddElement
  <1>9. IsFiniteSet(Four) /\ Cardinality(Four) = 4
    BY <1>4, <1>8, FS_AddElement
  <1>10. QED
    BY <1>1, <1>5, <1>7, <1>8, <1>9, SameCount DEF One, Two, Three, Four

\* What the reference implementation writes, with its index v in words.
RefWriting(v) ==
    {<<0, 0, ctx[1], v>>, <<0, 1, ctx[2], v>>, <<0, 2, ctx[1], v + 2>>, <<0, 3, ctx[2], v + 2>>,
     <<1, 0, ctx[1], v + 4>>, <<1, 1, ctx[2], v + 4>>,
     <<2, 0, ctx[1], v + 6>>, <<2, 1, ctx[2], v + 6>>}

LEMMA ReferenceWrites ==
    ASSUME NEW v \in Nat
    PROVE  {<<r[1], r[2], ctx[1 + (r[2] % 2)],
              v + Reference!PWXsimple * Reference!Cardinality(Reference!Before(r[1], r[2]))>>
              : r \in Reference!Writing} = RefWriting(v)
  <1> DEFINE Write(r) == <<r[1], r[2], ctx[1 + (r[2] % 2)],
                           v + Reference!PWXsimple * Reference!Cardinality(Reference!Before(r[1], r[2]))>>
  <1>1. /\ Write(<<0, 0>>) = <<0, 0, ctx[1], v>> /\ Write(<<0, 1>>) = <<0, 1, ctx[2], v>>
        /\ Write(<<0, 2>>) = <<0, 2, ctx[1], v + 2>> /\ Write(<<0, 3>>) = <<0, 3, ctx[2], v + 2>>
    <2>1. /\ Reference!Cardinality(Reference!Before(0, 0)) = 0 /\ Reference!Cardinality(Reference!Before(0, 1)) = 0
          /\ Reference!Cardinality(Reference!Before(0, 2)) = 1 /\ Reference!Cardinality(Reference!Before(0, 3)) = 1
      BY BeforeIs, Counts
    <2>2. Write(<<0, 0>>) = <<0, 0, ctx[1], v>>
      BY <2>1 DEF Reference!PWXsimple
    <2>3. Write(<<0, 1>>) = <<0, 1, ctx[2], v>>
      BY <2>1 DEF Reference!PWXsimple
    <2>4. Write(<<0, 2>>) = <<0, 2, ctx[1], v + 2>>
      BY <2>1 DEF Reference!PWXsimple
    <2>5. Write(<<0, 3>>) = <<0, 3, ctx[2], v + 2>>
      BY <2>1 DEF Reference!PWXsimple
    <2>6. QED
      BY <2>2, <2>3, <2>4, <2>5
  <1>2. /\ Write(<<1, 0>>) = <<1, 0, ctx[1], v + 4>> /\ Write(<<1, 1>>) = <<1, 1, ctx[2], v + 4>>
        /\ Write(<<2, 0>>) = <<2, 0, ctx[1], v + 6>> /\ Write(<<2, 1>>) = <<2, 1, ctx[2], v + 6>>
    <2>1. /\ Reference!Cardinality(Reference!Before(1, 0)) = 2 /\ Reference!Cardinality(Reference!Before(1, 1)) = 2
          /\ Reference!Cardinality(Reference!Before(2, 0)) = 3 /\ Reference!Cardinality(Reference!Before(2, 1)) = 3
      BY BeforeIs, Counts
    <2>2. Write(<<1, 0>>) = <<1, 0, ctx[1], v + 4>>
      BY <2>1 DEF Reference!PWXsimple
    <2>3. Write(<<1, 1>>) = <<1, 1, ctx[2], v + 4>>
      BY <2>1 DEF Reference!PWXsimple
    <2>4. Write(<<2, 0>>) = <<2, 0, ctx[1], v + 6>>
      BY <2>1 DEF Reference!PWXsimple
    <2>5. Write(<<2, 1>>) = <<2, 1, ctx[2], v + 6>>
      BY <2>1 DEF Reference!PWXsimple
    <2>6. QED
      BY <2>2, <2>3, <2>4, <2>5
  <1> HIDE DEF Write
  <1>3. {Write(r) : r \in Reference!Writing} = RefWriting(v)
    BY <1>1, <1>2, WritingIs DEF RefWriting
  <1>4. QED
    BY <1>3 DEF Write

LEMMA SameWrites ==
    ASSUME w \in Nat, w % 64 = 0
    PROVE  {<<x[1], x[2], x[3], x[4] \div 8>> : x \in Writes} = RefWriting(w \div 8)
  <1>1. /\ (w + 16) \div 8 = (w \div 8) + 2 /\ (w + 32) \div 8 = (w \div 8) + 4
        /\ (w + 48) \div 8 = (w \div 8) + 6
    OBVIOUS
  <1> DEFINE InWords(x) == <<x[1], x[2], x[3], x[4] \div 8>>
  <1>2. /\ InWords(<<0, 0, ctx[1], w>>) = <<0, 0, ctx[1], w \div 8>>
        /\ InWords(<<0, 1, ctx[2], w>>) = <<0, 1, ctx[2], w \div 8>>
        /\ InWords(<<0, 2, ctx[1], w + 16>>) = <<0, 2, ctx[1], (w + 16) \div 8>>
        /\ InWords(<<0, 3, ctx[2], w + 16>>) = <<0, 3, ctx[2], (w + 16) \div 8>>
        /\ InWords(<<1, 0, ctx[1], w + 32>>) = <<1, 0, ctx[1], (w + 32) \div 8>>
        /\ InWords(<<1, 1, ctx[2], w + 32>>) = <<1, 1, ctx[2], (w + 32) \div 8>>
        /\ InWords(<<2, 0, ctx[1], w + 48>>) = <<2, 0, ctx[1], (w + 48) \div 8>>
        /\ InWords(<<2, 1, ctx[2], w + 48>>) = <<2, 1, ctx[2], (w + 48) \div 8>>
    OBVIOUS
  <1> HIDE DEF InWords
  <1>3. {InWords(x) : x \in Writes} =
          {InWords(<<0, 0, ctx[1], w>>), InWords(<<0, 1, ctx[2], w>>),
           InWords(<<0, 2, ctx[1], w + 16>>), InWords(<<0, 3, ctx[2], w + 16>>),
           InWords(<<1, 0, ctx[1], w + 32>>), InWords(<<1, 1, ctx[2], w + 32>>),
           InWords(<<2, 0, ctx[1], w + 48>>), InWords(<<2, 1, ctx[2], w + 48>>)}
    BY DEF Writes
  <1>4. {InWords(x) : x \in Writes} = RefWriting(w \div 8)
    BY <1>1, <1>2, <1>3 DEF RefWriting
  <1>5. QED
    BY <1>4 DEF InWords

\* The index is masked at the same place: a byte count and a word count of the
\* same multiple of 64 bytes.
LEMMA SameIndex ==
    ASSUME IInv
    PROVE  Mask(w + 64) \div 8
             = ((w \div 8) + Reference!PWXsimple * Reference!Cardinality(Reference!Odd))
                 % (Entries * Reference!PWXsimple)
  <1>1. w \in Nat /\ w < Sbytes1 /\ w % 64 = 0 /\ Sbytes1 = 16 * Entries /\ Entries \in Nat
    BY YespowerAssumption DEF IInv, TypeOK, SBoxInv, Sbytes1
  <1>2. Sbytes1 >= 256 /\ Sbytes1 % 64 = 0
    BY SBoxSize
  <1>3. Reference!PWXsimple * Reference!Cardinality(Reference!Odd) = 8 /\ Entries * Reference!PWXsimple = 2 * Entries
    BY <1>1, OddIs, Counts DEF Reference!PWXsimple
  <1>4. w + 64 <= Sbytes1
    BY <1>1, <1>2
  <1>5. CASE w + 64 < Sbytes1
    <2>1. Mask(w + 64) = w + 64
      BY <1>1, <1>5 DEF Mask
    <2>2. (w + 64) \div 8 = (w \div 8) + 8 /\ (w \div 8) + 8 < 2 * Entries /\ (w \div 8) + 8 \in Nat
      BY <1>1, <1>5
    <2>3. ((w \div 8) + 8) % (2 * Entries) = (w \div 8) + 8
      BY <1>1, <2>2
    <2>4. QED
      BY <1>3, <2>1, <2>2, <2>3
  <1>6. CASE w + 64 = Sbytes1
    <2>1. Mask(w + 64) = 0
      BY <1>1, <1>2, <1>6 DEF Mask
    <2>2. (w \div 8) + 8 = 2 * Entries
      BY <1>1, <1>6
    <2>3. (2 * Entries) % (2 * Entries) = 0
      BY <1>1, <1>2
    <2>4. QED
      BY <1>3, <2>1, <2>2, <2>3
  <1>7. QED
    BY <1>1, <1>4, <1>5, <1>6

LEMMA PwxformRefines == ASSUME RefInv, ArrayInv', Pwxform PROVE Reference!Pwxform
  <1>1. /\ busy /\ phase \in {"V", "loop"} /\ last' = last
        /\ writes' = Writes /\ ctx' = <<ctx[3], ctx[1], ctx[2]>> /\ w' = Mask(w + 64)
    BY DEF Pwxform, Rotate
  <1>2. w \in Nat /\ w % 64 = 0 /\ w \div 8 \in Nat
    BY DEF RefInv, IInv, TypeOK, SBoxInv
  <1>3. RefWrites' = {<<r[1], r[2], ctx[1 + (r[2] % 2)],
                        (w \div 8) + Reference!PWXsimple * Reference!Cardinality(Reference!Before(r[1], r[2]))>>
                        : r \in Reference!Writing}
    <2>1. RefWrites' = {<<x[1], x[2], x[3], x[4] \div 8>> : x \in Writes}
      BY <1>1 DEF RefWrites
    <2>2. RefWrites' = RefWriting(w \div 8)
      BY <1>2, <2>1, SameWrites
    <2>3. QED
      BY <1>2, <2>2, ReferenceWrites
  <1>4. (w \div 8)' = ((w \div 8) + Reference!PWXsimple * Reference!Cardinality(Reference!Odd))
                         % (Entries * Reference!PWXsimple)
    BY <1>1, SameIndex DEF RefInv
  <1>5. Reference!Blocks = IF pc = "expand" THEN 2 ELSE 2 * R
    <2>1. pc = "expand" <=> phase = "V" /\ expanded < R
      BY <1>1, YespowerAssumption DEF RefInv, ArrayInv, IInv, PhaseInv, Smix1Point
    <2>2. QED
      BY <2>1 DEF Reference!Blocks
  <1>6. CASE bi + 1 < (IF pc = "expand" THEN 2 ELSE 2 * R)
    <2>1. /\ bi' = bi + 1
          /\ UNCHANGED <<phase, pc, n, i, p, g, expanded, Nloop, B, S, V, calls, busy>>
      BY <1>6 DEF Pwxform, loopVars
    <2>2. RefX' = RefX /\ RefI' = RefI
      BY <2>1 DEF RefX, RefI, Array, NloopRw
    <2>3. RefS' = RefS /\ RefV' = RefV
      BY <2>1 DEF RefS, RefV, Filled
    <2>4. QED
      BY <1>1, <1>3, <1>4, <1>5, <1>6, <2>1, <2>2, <2>3, Zenon DEF Reference!Pwxform
  <1>7. CASE ~(bi + 1 < (IF pc = "expand" THEN 2 ELSE 2 * R))
    <2>1. Return
      BY <1>7 DEF Pwxform
    <2>2. Reference!Return /\ UNCHANGED <<RefS, RefV>>
      BY <1>1, <2>1, ReturnRefines
    <2>3. QED
      BY <1>1, <1>3, <1>4, <1>5, <1>7, <2>2, Zenon DEF Reference!Pwxform
  <1>8. QED
    BY <1>6, <1>7

-----------------------------------------------------------------------------
(* The refinement. *)

LEMMA InitRefines == Init => Reference!Init
  <1> SUFFICES ASSUME Init PROVE Reference!Init
    OBVIOUS
  <1>1. /\ phase = "S" /\ pc = "first" /\ p = 0 /\ busy = FALSE /\ w = 0 /\ writes = {}
        /\ S = [k \in 0..LastS |-> IF k = 0 THEN 1 ELSE 0] /\ V = [k \in 0..LastV |-> 0]
    BY DEF Init, LastS, LastV
  <1>2. LastS \in Nat /\ LastV \in Nat /\ Reference!NS - 1 = LastS /\ N - 1 = LastV
    BY Lasts, SameSizes DEF LastS, LastV
  <1>3. RefX = 1 /\ RefI = 0
    BY <1>1, <1>2 DEF RefX, RefI, Array
  <1>4. /\ RefS = [k \in 0..LastS |-> IF phase # "S" \/ k < p \/ (k = p /\ busy) THEN S[k] ELSE 0]
        /\ RefV = [k \in 0..LastV |->
                     IF phase \in {"loop", "done"} \/ k < p \/ (k = p /\ busy) THEN V[k] ELSE 0]
    BY RefStart, SeenArrays DEF RefInv
  <1>5. RefS = [k \in 0..LastS |-> 0]
    BY <1>1, <1>2, <1>4
  <1>6. RefV = [k \in 0..LastV |-> 0]
    BY <1>1, <1>2, <1>4
  <1>7. w \div 8 = 0
    BY <1>1
  <1>8. RefWrites = {}
    BY <1>1 DEF RefWrites
  <1>9. QED
    BY <1>2, <1>3, <1>5, <1>6, <1>7, <1>8 DEF Init, Reference!Init

\* A step that changes nothing here changes nothing there.
LEMMA StutterRefines == UNCHANGED vars => UNCHANGED Reference!vars
  BY DEF vars, loopVars, pwxVars, Reference!vars, RefX, RefI, RefS, RefV, RefWrites, Filled,
         Array, NloopRw

LEMMA NextRefines ==
    ASSUME Allowed, RefInv, [Next]_vars
    PROVE  [Reference!Next]_(Reference!vars)
  <1>1. ArrayInv'
    BY RefStep DEF RefInv
  <1>2. CASE Expand
    BY <1>1, <1>2, ExpandRefines DEF Reference!Next
  <1>3. CASE Smix1Call
    BY <1>1, <1>3, Smix1CallRefines DEF Reference!Next
  <1>4. CASE Smix2Call
    BY <1>1, <1>4, Smix2CallRefines DEF Reference!Next
  <1>5. CASE Salsa
    BY <1>1, <1>5, SalsaRefines DEF Reference!Next
  <1>6. CASE Pwxform
    BY <1>1, <1>6, PwxformRefines DEF Reference!Next
  <1>7. CASE UNCHANGED vars
    BY <1>7, StutterRefines
  <1>8. QED
    BY <1>2, <1>3, <1>4, <1>5, <1>6, <1>7 DEF Next

(* The miner's smix, with its unrolled loops, its power of 2 carried along and
   its byte index masked by Smask, takes the steps of the reference
   implementation and no others: every blockmix is called with the same two
   blocks, every block is stored at the same place in the same pass, and every
   pwxform writes the same lanes of the same tables (yespower-opt.c:440-485 and
   681-841, yespower-ref.c:339-447). *)
THEOREM Implements == ASSUME Allowed PROVE Safety => Reference!Safety
  <1>1. RefInv /\ [Next]_vars => RefInv'
    BY RefStep
  <1>2. RefInv /\ [Next]_vars => [Reference!Next]_(Reference!vars)
    BY NextRefines
  <1>3. QED
    BY <1>1, <1>2, RefStart, InitRefines, PTL DEF Safety, Reference!Safety
=============================================================================
