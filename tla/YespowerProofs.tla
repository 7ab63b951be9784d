---------------------------- MODULE YespowerProofs ----------------------------
(***************************************************************************)
(* Proofs about Yespower, for every N, r and S-box size: smix1 never reads *)
(* a block before it is written and never leaves its array, and pwxform    *)
(* never writes behind an S-box.                                           *)
(***************************************************************************)
EXTENDS Yespower, TLAPS

Even(x) == x % 2 = 0

(* n is a power of 2 in the loop of smix1; that it is even is all it takes. *)
Turn(len) == n \in Nat /\ n >= 2 /\ Even(n) /\ n < len

InTurn(len) == Turn(len) /\ i \in Nat /\ ~Even(i) /\ i < Turns(n, len)

(* Where X is at every call of smix1. *)
PlaceInv ==
    /\ pc \in {"expand", "first"} => p = 0
    /\ pc = "second" => p = 1
    /\ pc = "even" => p = n + i - 1 /\ InTurn(Size)
    /\ pc = "odd"  => p = n + i /\ InTurn(Size)
    /\ pc = "tail" => p = Size - 2 /\ Turn(Size)
    /\ pc = "last" => p = Size - 1 /\ Turn(Size)

Smix1Point == {"first", "second", "even", "odd", "tail", "last"}

(* Which calls a phase makes. *)
PhaseInv ==
    /\ phase = "S" => pc \in Smix1Point /\ expanded = 1
    /\ phase = "V" => pc \in Smix1Point \cup {"expand"}
    /\ phase = "loop" => pc \in {"odd_turn", "even_turn"} /\ Nloop >= 2 /\ Even(Nloop)
    /\ phase = "done" => pc = "done" /\ ~busy
    /\ pc = "expand" => expanded < R

(* V_j of a call that is under way. *)
BusyInv == phase \in {"S", "V"} /\ busy /\ vj # -1 => vj < p

SBoxInv == w < Sbytes1 /\ w % 64 = 0 /\ WritesInsideSBox

IInv == TypeOK /\ PhaseInv /\ PlaceInv /\ BusyInv /\ SBoxInv

-----------------------------------------------------------------------------
(* Arithmetic. *)

LEMMA SizeIsEven == Size \in Nat /\ Size >= 4 /\ Even(Size)
  <1>1. CASE phase # "S"
    BY <1>1, YespowerAssumption DEF Size, Even
  <1>2. CASE phase = "S"
    <2> DEFINE k == Entries \div 16
    <2>1. k \in Nat /\ k >= 1 /\ Entries = 16 * k
      BY YespowerAssumption
    <2>2. Size = 6 * k
      BY <1>2, <2>1 DEF Size, Sbytes, Sbytes1
    <2>3. QED
      BY <2>1, <2>2 DEF Even
  <1>3. QED
    BY <1>1, <1>2

LEMMA SBoxSize == Sbytes1 \in Nat /\ Sbytes1 >= 256 /\ Sbytes1 % 64 = 0
  <1> DEFINE k == Entries \div 16
  <1>1. k \in Nat /\ k >= 1 /\ Entries = 16 * k
    BY YespowerAssumption
  <1>2. Sbytes1 = 256 * k
    BY <1>1 DEF Sbytes1
  <1>3. QED
    BY <1>1, <1>2

LEMMA Masked == ASSUME NEW x \in Nat, NEW k \in Nat, k > 0 PROVE And(x, k) \in 0..(k - 1)
  BY DEF And

LEMMA TwoLess == ASSUME NEW x \in Nat, x >= 2, Even(x), x # 2 PROVE x - 2 >= 2 /\ Even(x - 2)
  BY DEF Even

LEMMA EvenLoops == NloopRw \in Nat /\ NloopRw >= 2 /\ Even(NloopRw)
  <1> DEFINE third == (N + 2) \div 3
  <1>1. third \in Nat /\ third >= 2
    BY YespowerAssumption
  <1>2. NloopRw = (third + 1) - ((third + 1) % 2)
    BY DEF NloopRw, RoundUp
  <1> HIDE DEF third
  <1>3. QED
    BY <1>1, <1>2 DEF Even

\* The head of the loop is left, or entered again, with X where it belongs:
\* both the last index of a turn and the end of the array are met exactly.
LEMMA HeadIsExact ==
    ASSUME NEW k \in Nat, NEW l \in Nat, NEW len \in Nat,
           k >= 2, Even(k), k < len, len >= 4, Even(len),
           ~Even(l), l < Turns(k, len) + 2,
           NEW h, h = LoopHead(k, l, len)
    PROVE  /\ h.n \in Nat /\ h.n >= 2 /\ Even(h.n) /\ h.n < len
           /\ h.i \in Nat
           /\ \/ /\ h.pc = "even"
                 /\ ~Even(h.i) /\ h.i < Turns(h.n, len)
                 /\ k + l - 1 = h.n + h.i - 1
              \/ /\ h.pc = "tail"
                 /\ k + l - 1 = len - 2
  <1>1. CASE l < Turns(k, len)
    <2>1. h = [pc |-> "even", n |-> k, i |-> l]
      BY <1>1 DEF LoopHead
    <2>2. QED
      BY <1>1, <2>1
  <1>2. CASE ~(l < Turns(k, len)) /\ k < len \div 2
    <2>1. Turns(k, len) = k /\ l = k + 1 /\ 2 * k < len /\ 2 * k <= len - 2
      BY <1>2 DEF Turns, Even
    <2>2. CASE 1 < Turns(2 * k, len)
      <3>1. h = [pc |-> "even", n |-> 2 * k, i |-> 1]
        BY <1>2, <2>1, <2>2 DEF LoopHead
      <3>2. QED
        BY <2>1, <2>2, <3>1 DEF Even
    <2>3. CASE ~(1 < Turns(2 * k, len))
      <3>1. h = [pc |-> "tail", n |-> 2 * k, i |-> l]
        BY <1>2, <2>1, <2>3 DEF LoopHead
      <3>2. 2 * k = len - 2
        BY <2>1, <2>3 DEF Turns, Even
      <3>3. QED
        BY <2>1, <3>1, <3>2 DEF Even
    <2>4. QED
      BY <2>2, <2>3
  <1>3. CASE ~(l < Turns(k, len)) /\ ~(k < len \div 2)
    <2>1. Turns(k, len) = len - 1 - k /\ l = len - 1 - k /\ ~(2 * k < len)
      BY <1>3 DEF Turns, Even
    <2>2. h = [pc |-> "tail", n |-> k, i |-> l]
      BY <1>3, <2>1 DEF LoopHead
    <2>3. QED
      BY <2>1, <2>2
  <1>4. QED
    BY <1>1, <1>2, <1>3

\* The window of every call lies before X.
LEMMA WindowIsWritten ==
    ASSUME TypeOK, PlaceInv, pc \in {"even", "odd", "tail", "last"}
    PROVE  Window(Size) \in Nat /\ Window(Size) < p
  <1>1. g \in Nat
    <2>1. g \in Word \cup {0}
      BY Zenon DEF TypeOK
    <2>2. QED
      BY <2>1, YespowerAssumption
  <1>2. Turn(Size)
    BY DEF PlaceInv, InTurn
  <1>3. And(g, n) \in 0..(n - 1)
    BY <1>1, <1>2, Masked DEF Turn
  <1>4. Size \in Nat /\ Even(Size) /\ Even(n)
    BY <1>2, SizeIsEven DEF Turn
  <1>5. n <= Size - 2
    BY <1>2, <1>4 DEF Turn, Even
  <1>6. CASE pc = "even"
    BY <1>2, <1>3, <1>6 DEF PlaceInv, InTurn, Turn, Window, Even
  <1>7. CASE pc = "odd"
    BY <1>2, <1>3, <1>7 DEF PlaceInv, InTurn, Turn, Window
  <1>8. CASE pc = "tail"
    BY <1>2, <1>3, <1>4, <1>5, <1>8 DEF PlaceInv, Turn, Window
  <1>9. CASE pc = "last"
    BY <1>2, <1>3, <1>4, <1>5, <1>9 DEF PlaceInv, Turn, Window
  <1>10. QED
    BY <1>6, <1>7, <1>8, <1>9

LEMMA PlaceIsInside ==
    ASSUME PhaseInv, PlaceInv, phase \in {"S", "V"}
    PROVE  p \in Nat /\ p < Size /\ (pc \notin {"last", "expand"} => p + 1 < Size)
  <1>1. Size \in Nat /\ Size >= 4 /\ Even(Size)
    BY SizeIsEven
  <1>2. pc \in Smix1Point \cup {"expand"}
    BY DEF PhaseInv
  <1>3. CASE pc \in {"expand", "first", "second"}
    BY <1>1, <1>3 DEF PlaceInv
  <1>4. CASE pc \in {"tail", "last"}
    BY <1>1, <1>4 DEF PlaceInv
  <1>5. CASE pc \in {"even", "odd"}
    <2>1. InTurn(Size) /\ (p = n + i - 1 \/ p = n + i)
      BY <1>5 DEF PlaceInv
    <2>2. n + i + 1 < Size
      <3>1. CASE n < Size \div 2
        BY <1>1, <2>1, <3>1 DEF InTurn, Turn, Turns, Even
      <3>2. CASE ~(n < Size \div 2)
        BY <1>1, <2>1, <3>2 DEF InTurn, Turn, Turns, Even
      <3>3. QED
        BY <3>1, <3>2
    <2>3. QED
      BY <1>1, <2>1, <2>2 DEF InTurn, Turn
  <1>6. QED
    BY <1>2, <1>3, <1>4, <1>5 DEF Smix1Point

-----------------------------------------------------------------------------
(* Each part of the invariant is kept. *)

LEMMA SBoxStep == ASSUME TypeOK, SBoxInv, [Next]_vars PROVE SBoxInv'
  <1>1. CASE UNCHANGED pwxVars
    BY <1>1 DEF SBoxInv, WritesInsideSBox, Sbytes1, pwxVars
  <1>2. CASE Pwxform
    <2>1. w \in Nat /\ w < Sbytes1 /\ w % 64 = 0
      BY DEF SBoxInv, TypeOK
    <2>2. w + 64 <= Sbytes1
      BY <2>1, SBoxSize
    <2>3. \A x \in Writes : x[4] + 16 <= Sbytes1
      BY <2>1, <2>2, SBoxSize DEF Writes
    <2>4. w' = (w + 64) % Sbytes1 /\ writes' = Writes
      BY <1>2 DEF Pwxform, Mask
    <2>5. w' < Sbytes1 /\ w' % 64 = 0
      <3>1. CASE w + 64 < Sbytes1
        <4>1. w' = w + 64
          BY <2>1, <2>4, <3>1, SBoxSize
        <4>2. QED
          BY <2>1, <3>1, <4>1
      <3>2. CASE w + 64 = Sbytes1
        <4>1. w' = 0
          BY <2>1, <2>4, <3>2, SBoxSize
        <4>2. QED
          BY <4>1, SBoxSize
      <3>3. QED
        BY <2>1, <2>2, <3>1, <3>2, SBoxSize
    <2>6. Sbytes1' = Sbytes1
      BY DEF Sbytes1
    <2>7. QED
      BY <2>3, <2>4, <2>5, <2>6 DEF SBoxInv, WritesInsideSBox
  <1>3. CASE Expand \/ Smix1Call \/ Smix2Call \/ Salsa
    BY <1>1, <1>3 DEF Expand, Smix1Call, Smix2Call, Salsa
  <1>4. QED
    BY <1>1, <1>2, <1>3 DEF Next, vars, pwxVars

placeVars == <<phase, pc, loopVars, expanded, Nloop>>

\* Where the program is only changes at the end of a call.
LEMMA Frame ==
    ASSUME [Next]_vars
    PROVE  \/ /\ UNCHANGED placeVars
              /\ ~busy' \/ (busy' /\ (busy \/ phase \in {"S", "V", "loop"}))
           \/ /\ busy /\ phase \in {"S", "V", "loop"}
              /\ Return
  <1>1. CASE UNCHANGED vars
    BY <1>1 DEF vars, placeVars
  <1>2. CASE Expand
    BY <1>2 DEF Expand, placeVars
  <1>3. CASE Smix1Call
    BY <1>3 DEF Smix1Call, placeVars
  <1>4. CASE Smix2Call
    BY <1>4 DEF Smix2Call, placeVars
  <1>5. CASE Salsa
    BY <1>5 DEF Salsa
  <1>6. CASE Pwxform
    BY <1>6 DEF Pwxform, placeVars
  <1>7. QED
    BY <1>1, <1>2, <1>3, <1>4, <1>5, <1>6 DEF Next

LEMMA PhaseStep == ASSUME TypeOK, PhaseInv, [Next]_vars PROVE PhaseInv'
  <1>1. CASE UNCHANGED placeVars /\ (busy' => busy \/ phase \in {"S", "V", "loop"})
    BY <1>1, Zenon DEF PhaseInv, placeVars, loopVars, Smix1Point
  <1>2. ASSUME busy, phase \in {"S", "V"}, Return PROVE PhaseInv'
    <2>1. ReturnSmix1 /\ ~busy'
      BY <1>2 DEF Return
    <2>2. expanded \in 1..R
      BY Zenon DEF TypeOK
    <2>3. CASE pc = "expand"
      <3>1. phase = "V" /\ phase' = phase /\ expanded' = expanded + 1
        BY <1>2, <2>1, <2>3 DEF ReturnSmix1, PhaseInv, Smix1Point
      <3>2. pc' = IF expanded + 1 = R THEN "first" ELSE "expand"
        BY <2>1, <2>3 DEF ReturnSmix1
      <3>3. expanded < R
        BY <2>3 DEF PhaseInv
      <3>4. pc' = "expand" => expanded' < R
        BY <2>2, <3>1, <3>2, <3>3, YespowerAssumption
      <3>5. QED
        BY <3>1, <3>2, <3>4 DEF PhaseInv, Smix1Point
    <2>4. CASE pc \in {"first", "second", "even", "odd", "tail"}
      BY <1>2, <2>1, <2>4 DEF ReturnSmix1, TheHead, LoopHead, PhaseInv, Smix1Point
    <2>5. CASE pc = "last"
      <3>1. expanded' = expanded /\ (phase = "S" => expanded = 1)
        BY <2>1, <2>5 DEF ReturnSmix1, PhaseInv
      <3>2. CASE phase = "S"
        <4>1. phase' = "V" /\ pc' = IF R = 1 THEN "first" ELSE "expand"
          BY <2>1, <2>5, <3>2 DEF ReturnSmix1
        <4>2. pc' = "expand" => expanded' < R
          BY <3>1, <3>2, <4>1, YespowerAssumption
        <4>3. QED
          BY <4>1, <4>2 DEF PhaseInv, Smix1Point
      <3>3. CASE phase = "V"
        <4>1. phase' = "loop" /\ pc' = "odd_turn" /\ Nloop' = NloopRw
          BY <2>1, <2>5, <3>3 DEF ReturnSmix1
        <4>2. QED
          BY <4>1, EvenLoops DEF PhaseInv, Smix1Point, Even
      <3>4. QED
        BY <1>2, <3>2, <3>3
    <2>6. QED
      BY <1>2, <2>3, <2>4, <2>5 DEF PhaseInv, Smix1Point
  <1>3. ASSUME busy, phase = "loop", Return PROVE PhaseInv'
    <2>1. ReturnSmix2 /\ ~busy'
      BY <1>3 DEF Return
    <2>2. Nloop \in Nat /\ Nloop >= 2 /\ Even(Nloop)
      BY <1>3 DEF PhaseInv, TypeOK
    <2>3. CASE pc = "odd_turn"
      BY <1>3, <2>1, <2>2, <2>3 DEF ReturnSmix2, PhaseInv, Even
    <2>4. CASE pc = "even_turn" /\ Nloop = 2
      BY <1>3, <2>1, <2>4 DEF ReturnSmix2, PhaseInv
    <2>5. CASE pc = "even_turn" /\ Nloop # 2
      <3>1. phase' = "loop" /\ pc' = "odd_turn" /\ Nloop' = Nloop - 2
        BY <1>3, <2>1, <2>5 DEF ReturnSmix2
      <3>2. Nloop - 2 >= 2 /\ Even(Nloop - 2)
        BY <2>2, <2>5, TwoLess
      <3>3. Nloop' >= 2 /\ Nloop' % 2 = 0
        BY <3>1, <3>2 DEF Even
      <3>4. QED
        BY <1>3, <2>5, <3>1, <3>3 DEF PhaseInv, Even
    <2>6. QED
      BY <1>3, <2>3, <2>4, <2>5 DEF PhaseInv
  <1>4. QED
    BY <1>1, <1>2, <1>3, Frame

LEMMA PlaceStep == ASSUME TypeOK, PhaseInv, PlaceInv, [Next]_vars PROVE PlaceInv'
  <1>1. CASE UNCHANGED placeVars
    BY <1>1, Zenon DEF PlaceInv, InTurn, Turn, Size, Sbytes, Sbytes1, placeVars, loopVars
  <1>2. ASSUME busy, phase \in {"S", "V"}, Return PROVE PlaceInv'
    <2>1. ReturnSmix1
      BY <1>2 DEF Return
    <2>2. Size \in Nat /\ Size >= 4 /\ Even(Size)
      BY SizeIsEven
    <2>3. CASE pc \in {"expand", "last"}
      <3>1. p' = 0 /\ pc' \in {"expand", "first", "odd_turn"}
        BY <2>1, <2>3 DEF ReturnSmix1, PlaceInv, loopVars
      <3>2. QED
        BY <3>1 DEF PlaceInv
    <2>4. CASE pc = "first"
      BY <2>1, <2>4 DEF ReturnSmix1, Store, PlaceInv
    <2>5. ASSUME pc # "last" PROVE pc = "expand" \/ Size' = Size
      BY <2>1, <2>5 DEF ReturnSmix1, Size, Sbytes, Sbytes1
    <2>6. ASSUME NEW k \in Nat, NEW l \in Nat, p' = k + l - 1, pc \in {"second", "odd"},
                 k >= 2, Even(k), k < Size, ~Even(l), l < Turns(k, Size) + 2,
                 TheHead(LoopHead(k, l, Size))
          PROVE  PlaceInv'
      <3> DEFINE h == LoopHead(k, l, Size)
      <3>1. pc' = h.pc /\ n' = h.n /\ i' = h.i
        BY <2>6 DEF TheHead
      <3> HIDE DEF h
      <3>2. /\ h.n \in Nat /\ h.n >= 2 /\ Even(h.n) /\ h.n < Size
            /\ h.i \in Nat
            /\ \/ /\ h.pc = "even"
                  /\ ~Even(h.i) /\ h.i < Turns(h.n, Size)
                  /\ k + l - 1 = h.n + h.i - 1
               \/ /\ h.pc = "tail"
                  /\ k + l - 1 = Size - 2
        <4>1. h = LoopHead(k, l, Size)
          BY DEF h
        <4>2. QED
          BY <2>2, <2>6, <4>1, HeadIsExact
      <3>3. Turn(Size)' /\ Size' = Size
        <4>1. Size' = Size
          BY <2>5, <2>6
        <4>2. QED
          BY <3>1, <3>2, <4>1 DEF Turn, Even
      <3>4. CASE h.pc = "even"
        <4>1. InTurn(Size)'
          BY <3>1, <3>2, <3>3, <3>4 DEF InTurn, Even, Turns
        <4>2. QED
          BY <2>6, <3>1, <3>2, <3>4, <4>1 DEF PlaceInv
      <3>5. CASE h.pc = "tail"
        BY <2>6, <3>1, <3>2, <3>3, <3>5 DEF PlaceInv
      <3>6. QED
        BY <3>2, <3>4, <3>5
    <2>7. CASE pc = "second"
      <3>1. p' = 2 + 1 - 1 /\ TheHead(LoopHead(2, 1, Size))
        BY <2>1, <2>7 DEF ReturnSmix1, Store, PlaceInv
      <3>2. 1 < Turns(2, Size) + 2 /\ Even(2) /\ ~Even(1)
        BY <2>2 DEF Turns, Even
      <3>3. QED
        BY <2>2, <2>6, <2>7, <3>1, <3>2
    <2>8. CASE pc = "even"
      <3>1. p' = p + 1 /\ pc' = "odd" /\ n' = n /\ i' = i /\ Size' = Size
        BY <2>1, <2>5, <2>8 DEF ReturnSmix1, Store
      <3>2. p = n + i - 1 /\ InTurn(Size)
        BY <2>8 DEF PlaceInv
      <3>3. InTurn(Size)'
        BY <3>1, <3>2 DEF InTurn, Turn, Even, Turns
      <3>4. p' = n' + i'
        BY <3>1, <3>2 DEF InTurn, Turn
      <3>5. QED
        BY <3>1, <3>3, <3>4 DEF PlaceInv
    <2>9. CASE pc = "odd"
      <3>1. p' = p + 1 /\ TheHead(LoopHead(n, i + 2, Size))
        BY <2>1, <2>9 DEF ReturnSmix1, Store
      <3>2. p = n + i /\ InTurn(Size)
        BY <2>9 DEF PlaceInv
      <3>3. p' = n + (i + 2) - 1 /\ ~Even(i + 2) /\ i + 2 \in Nat
        BY <3>1, <3>2 DEF InTurn, Turn, Even
      <3>4. i + 2 < Turns(n, Size) + 2
        BY <2>2, <3>2 DEF InTurn, Turn, Turns
      <3>5. QED
        BY <2>6, <2>9, <3>1, <3>2, <3>3, <3>4 DEF InTurn, Turn
    <2>10. CASE pc = "tail"
      <3>1. p' = p + 1 /\ pc' = "last" /\ n' = n /\ Size' = Size
        BY <2>1, <2>5, <2>10 DEF ReturnSmix1, Store
      <3>2. p = Size - 2 /\ Turn(Size)
        BY <2>10 DEF PlaceInv
      <3>3. QED
        BY <2>2, <3>1, <3>2 DEF PlaceInv, Turn, Even
    <2>11. QED
      BY <1>2, <2>3, <2>4, <2>7, <2>8, <2>9, <2>10 DEF PhaseInv, Smix1Point
  <1>3. ASSUME busy, phase = "loop", Return PROVE PlaceInv'
    <2>1. pc' \in {"odd_turn", "even_turn", "done"}
      BY <1>3 DEF Return, ReturnSmix2
    <2>2. QED
      BY <2>1 DEF PlaceInv
  <1>4. QED
    BY <1>1, <1>2, <1>3, Frame

LEMMA BusyStep == ASSUME TypeOK, PhaseInv, PlaceInv, BusyInv, [Next]_vars PROVE BusyInv'
  <1>1. CASE UNCHANGED vars
    BY <1>1 DEF vars, BusyInv, loopVars
  <1>2. CASE Expand
    BY <1>2 DEF Expand, BusyInv
  <1>3. CASE Smix1Call
    <2>1. CASE pc \in {"first", "second"}
      BY <1>3, <2>1 DEF Smix1Call, BusyInv
    <2>2. CASE pc \in {"even", "odd", "tail", "last"}
      <3>1. vj' = Window(Size) /\ p' = p
        BY <1>3, <2>2 DEF Smix1Call, loopVars
      <3>2. QED
        BY <2>2, <3>1, WindowIsWritten DEF BusyInv
    <2>3. QED
      BY <1>3, <2>1, <2>2 DEF Smix1Call, PhaseInv, Smix1Point
  <1>4. CASE Smix2Call
    BY <1>4 DEF Smix2Call, BusyInv
  <1>5. CASE Salsa \/ Pwxform
    BY <1>5 DEF Salsa, Pwxform, Return, BusyInv, loopVars
  <1>6. QED
    BY <1>1, <1>2, <1>3, <1>4, <1>5 DEF Next

-----------------------------------------------------------------------------
(* Types. *)

LEMMA HeadType ==
    ASSUME NEW k \in Nat, NEW l \in Nat, NEW len
    PROVE  /\ LoopHead(k, l, len).n \in Nat /\ LoopHead(k, l, len).i \in Nat
           /\ LoopHead(k, l, len).pc \in {"even", "tail"}
  BY DEF LoopHead

LEMMA TypeStep == ASSUME IInv, [Next]_vars PROVE TypeOK'
  <1>1. CASE UNCHANGED vars
    BY <1>1, Zenon DEF vars, loopVars, pwxVars, IInv, TypeOK
  <1>2. CASE Expand \/ Smix1Call \/ Smix2Call
    <2>1. UNCHANGED <<phase, pc, n, i, p, g, expanded, Nloop, B, calls, bi, ctx, w>>
      BY <1>2 DEF Expand, Smix1Call, Smix2Call, loopVars, pwxVars
    <2>2. busy' = TRUE
      BY <1>2 DEF Expand, Smix1Call, Smix2Call
    <2>3. vj' \in Nat \cup {-1}
      <3>1. CASE Expand
        BY <3>1 DEF Expand
      <3>2. CASE Smix1Call
        BY <3>2, WindowIsWritten DEF Smix1Call, IInv, PhaseInv, Smix1Point
      <3>3. CASE Smix2Call
        <4>1. g \in Nat /\ N \in Nat /\ N > 0
          <5>1. g \in Word \cup {0}
            BY Zenon DEF IInv, TypeOK
          <5>2. QED
            BY <5>1, YespowerAssumption
        <4>2. QED
          BY <3>3, <4>1, Masked DEF Smix2Call
      <3>4. QED
        BY <1>2, <3>1, <3>2, <3>3
    <2>4. QED
      BY <2>1, <2>2, <2>3, Zenon DEF IInv, TypeOK
  <1>3. ASSUME busy, Return, UNCHANGED <<vj, last>>, phase # "done" PROVE
          /\ phase' \in {"S", "V", "loop", "done"}
          /\ pc' \in {"expand", "first", "second", "even", "odd", "tail", "last",
                     "odd_turn", "even_turn", "done"}
          /\ n' \in Nat /\ i' \in Nat /\ p' \in Nat /\ g' \in Word \cup {0}
          /\ vj' \in Nat \cup {-1}
          /\ expanded' \in 1..R /\ Nloop' \in Nat /\ B' \in Nat /\ calls' \in Nat
          /\ busy' \in BOOLEAN /\ bi' \in 0..(2 * R - 1)
    <2>1. /\ n \in Nat /\ i \in Nat /\ p \in Nat /\ g \in Word \cup {0}
          /\ vj \in Nat \cup {-1}
          /\ expanded \in 1..R /\ Nloop \in Nat /\ B \in Nat /\ calls \in Nat
      BY Zenon DEF IInv, TypeOK
    <2>2. calls' = calls + 1 /\ busy' = FALSE /\ bi' = 0 /\ vj' = vj
      BY <1>3 DEF Return
    <2>3. bi' \in 0..(2 * R - 1)
      BY <2>2, YespowerAssumption
    <2>4. CASE phase = "loop"
      <3>1. ReturnSmix2 /\ pc \in {"odd_turn", "even_turn"} /\ Nloop >= 2
        BY <1>3, <2>4 DEF Return, IInv, PhaseInv
      <3>2. UNCHANGED <<n, i, p, expanded>> /\ B' = calls + 1 /\ g' \in Word
        BY <3>1 DEF ReturnSmix2
      <3>3. phase' \in {"loop", "done"} /\ pc' \in {"odd_turn", "even_turn", "done"}
        BY <2>4, <3>1 DEF ReturnSmix2
      <3>4. Nloop' \in {Nloop, Nloop - 2}
        BY <3>1 DEF ReturnSmix2
      <3>5. Nloop' \in Nat
        <4>1. Nloop \in Nat /\ Nloop >= 2
          BY <2>1, <3>1, Zenon
        <4>2. Nloop - 2 \in Nat
          BY <4>1
        <4>3. QED
          BY <3>4, <4>1, <4>2
      <3>6. B' \in Nat /\ calls' \in Nat
        BY <2>1, <2>2, <3>2
      <3>7. QED
        BY <2>1, <2>2, <2>3, <3>2, <3>3, <3>5, <3>6, Zenon
    <2>5. CASE phase # "loop"
      <3>1. ReturnSmix1 /\ pc \in Smix1Point \cup {"expand"} /\ phase \in {"S", "V"}
        BY <1>3, <2>5 DEF Return, IInv, PhaseInv, TypeOK
      <3>2. p' \in Nat /\ g' \in Word \cup {0}
        <4>1. p' \in {0, p, p + 1}
          BY <3>1 DEF ReturnSmix1, Store, loopVars
        <4>2. g' \in Word \/ g' \in {0, g}
          BY <3>1 DEF ReturnSmix1, loopVars
        <4>3. QED
          BY <2>1, <4>1, <4>2
      <3>3. /\ n' \in Nat /\ i' \in Nat
            /\ pc' \in {"expand", "first", "second", "even", "odd", "tail", "last", "odd_turn"}
        <4>1. CASE pc = "second"
          <5>1. TheHead(LoopHead(2, 1, Size))
            BY <3>1, <4>1 DEF ReturnSmix1
          <5>2. /\ LoopHead(2, 1, Size).n \in Nat /\ LoopHead(2, 1, Size).i \in Nat
                /\ LoopHead(2, 1, Size).pc \in {"even", "tail"}
            BY HeadType
          <5>3. QED
            BY <5>1, <5>2 DEF TheHead
        <4>2. CASE pc = "odd"
          <5>1. TheHead(LoopHead(n, i + 2, Size))
            BY <3>1, <4>2 DEF ReturnSmix1
          <5>2. i + 2 \in Nat
            BY <2>1
          <5>3. /\ LoopHead(n, i + 2, Size).n \in Nat /\ LoopHead(n, i + 2, Size).i \in Nat
                /\ LoopHead(n, i + 2, Size).pc \in {"even", "tail"}
            BY <2>1, <5>2, HeadType
          <5>4. QED
            BY <5>1, <5>3 DEF TheHead
        <4>3. CASE pc \notin {"second", "odd"}
          <5>1. n' \in {0, n} /\ i' \in {0, i}
            BY <3>1, <4>3 DEF ReturnSmix1, loopVars
          <5>2. pc' \in {"expand", "first", "second", "even", "odd", "tail", "last", "odd_turn"}
            BY <3>1, <4>3 DEF ReturnSmix1
          <5>3. n' \in Nat /\ i' \in Nat
            <6>1. n \in Nat /\ i \in Nat
              BY <2>1, Zenon
            <6>2. QED
              BY <5>1, <6>1
          <5>4. QED
            BY <5>2, <5>3, Zenon
        <4>4. QED
          BY <4>1, <4>2, <4>3
      <3>4. expanded' \in 1..R
        <4>1. pc = "expand" => expanded < R
          BY DEF IInv, PhaseInv
        <4>2. expanded' = expanded \/ (pc = "expand" /\ expanded' = expanded + 1)
          BY <3>1 DEF ReturnSmix1
        <4>3. QED
          BY <2>1, <4>1, <4>2, YespowerAssumption
      <3>5. Nloop' \in Nat /\ B' \in Nat /\ phase' \in {"S", "V", "loop"}
        <4>1. Nloop' \in {Nloop, NloopRw} /\ B' \in {B, calls + 1}
          BY <3>1 DEF ReturnSmix1
        <4>2. phase' \in {"S", "V", "loop"}
          BY <3>1 DEF ReturnSmix1
        <4>3. QED
          BY <2>1, <4>1, <4>2, EvenLoops
      <3>6. calls' \in Nat
        BY <2>1, <2>2
      <3>7. QED
        BY <2>1, <2>2, <2>3, <3>2, <3>3, <3>4, <3>5, <3>6, Zenon
    <2>6. QED
      BY <2>4, <2>5
  <1>4. CASE Salsa
    <2>1. busy /\ Return /\ UNCHANGED <<vj, last, ctx, w>> /\ phase # "done"
      BY <1>4 DEF Salsa, pwxVars
    <2>2. QED
      BY <1>3, <2>1, Zenon DEF IInv, TypeOK
  <1>5. CASE Pwxform
    <2>1. ctx' \in [1..3 -> 0..2]
      <3>1. ctx \in [1..3 -> 0..2] /\ ctx' = <<ctx[3], ctx[1], ctx[2]>>
        BY <1>5 DEF IInv, TypeOK, Pwxform, Rotate
      <3>2. QED
        BY <3>1
    <2>2. w' \in Nat
      <3>1. w \in Nat
        BY Zenon DEF IInv, TypeOK
      <3>2. w' = (w + 64) % Sbytes1
        BY <1>5 DEF Pwxform, Mask
      <3>3. QED
        BY <3>1, <3>2, SBoxSize
    <2>3. CASE Return
      <3>1. busy /\ UNCHANGED <<vj, last>> /\ phase # "done"
        BY <1>5 DEF Pwxform
      <3>2. QED
        BY <1>3, <2>1, <2>2, <2>3, <3>1, Zenon DEF TypeOK
    <2>4. CASE ~Return
      <3>1. UNCHANGED <<phase, pc, n, i, p, g, vj, expanded, Nloop, B, calls, busy>>
        BY <1>5, <2>4 DEF Pwxform, loopVars
      <3>2. bi' \in 0..(2 * R - 1)
        <4>1. bi' = bi + 1 /\ bi + 1 < (IF pc = "expand" THEN 2 ELSE 2 * R)
          BY <1>5, <2>4 DEF Pwxform
        <4>2. bi \in 0..(2 * R - 1)
          BY Zenon DEF IInv, TypeOK
        <4>3. QED
          BY <4>1, <4>2, YespowerAssumption
      <3>3. QED
        BY <2>1, <2>2, <3>1, <3>2, Zenon DEF IInv, TypeOK
    <2>5. QED
      BY <2>3, <2>4
  <1>6. QED
    BY <1>1, <1>2, <1>4, <1>5 DEF Next

-----------------------------------------------------------------------------
(* The theorems. *)

LEMMA Start == Init => IInv
  <1> SUFFICES ASSUME Init PROVE IInv
    OBVIOUS
  <1>1. TypeOK
    <2>1. 0 \in 0..(2 * R - 1) /\ 1 \in 1..R
      BY YespowerAssumption
    <2>2. ctx \in [1..3 -> 0..2]
      BY DEF Init
    <2>3. QED
      BY <2>1, <2>2 DEF Init, TypeOK
  <1>2. PhaseInv /\ PlaceInv /\ BusyInv
    BY DEF Init, PhaseInv, PlaceInv, BusyInv, Smix1Point
  <1>3. SBoxInv
    BY SBoxSize DEF Init, SBoxInv, WritesInsideSBox
  <1>4. QED
    BY <1>1, <1>2, <1>3 DEF IInv

LEMMA Step == IInv /\ [Next]_vars => IInv'
  BY TypeStep, PhaseStep, PlaceStep, BusyStep, SBoxStep DEF IInv

LEMMA Inductive == Safety => []IInv
  BY Start, Step, PTL DEF Safety

\* Every variable keeps its type: the pointers stay natural numbers, and the
\* iterations of smix2, two per turn, never count down past zero.
THEOREM TypeCorrect == Safety => []TypeOK
  <1>1. IInv => TypeOK
    BY DEF IInv
  <1>2. QED
    BY <1>1, Inductive, PTL

\* smix1 mixes only with blocks it has written, and stays in its array, for
\* every even N and every number of S-box entries that is a multiple of 16.
THEOREM Smix1StaysBehind == Safety => []MixesWrittenBlocks
  <1>1. IInv => MixesWrittenBlocks
    <2> SUFFICES ASSUME IInv, phase \in {"S", "V"}
                 PROVE  /\ p < Size
                        /\ busy /\ vj # -1 => vj < p
                        /\ pc = "last" => p = Size - 1
                        /\ pc # "last" /\ busy /\ pc # "expand" => p + 1 < Size
      BY DEF MixesWrittenBlocks
    <2>1. p < Size /\ (pc \notin {"last", "expand"} => p + 1 < Size)
      BY PlaceIsInside DEF IInv
    <2>2. (pc = "last" => p = Size - 1) /\ (busy /\ vj # -1 => vj < p)
      BY DEF IInv, PlaceInv, BusyInv
    <2>3. QED
      BY <2>1, <2>2
  <1>2. QED
    BY <1>1, Inductive, PTL

\* pwxform stays inside the S-boxes although it masks w only afterwards: w is
\* a multiple of 64, and so is the size of an S-box.
THEOREM SBoxesAreSafe == Safety => []WritesInsideSBox
  <1>1. IInv => WritesInsideSBox
    BY DEF IInv, SBoxInv
  <1>2. QED
    BY <1>1, Inductive, PTL
=============================================================================
