--------------------------- MODULE NonceScanProofs ---------------------------
(***************************************************************************)
(* Proofs about NonceScan, for every number of threads and every word: the *)
(* ranges of the threads are disjoint and a thread stays in its own, as    *)
(* long as a server repeats a used up header less than Reserve / 2 times;  *)
(* hence yespower never hashes a nonce twice under a header, and neither   *)
(* it nor civiclight sends a share twice. With --randomize a thread may    *)
(* leave its range, by one nonce at most.                                  *)
(***************************************************************************)
EXTENDS NonceScan, TLAPS

-----------------------------------------------------------------------------
(* The split of the nonce space. *)

LEMMA Monotonic ==
    ASSUME NEW r \in Nat, NEW a \in Nat, NEW b \in Nat, a <= b
    PROVE r * a \in Nat /\ r * a <= r * b
  OBVIOUS

LEMMA RangeNat == Range \in Nat /\ Range > Reserve /\ Range * N <= Word - 1
  BY NonceScanAssumption DEF Range

\* The range of a thread begins where the one before ends, inside the word.
LEMMA Split ==
    ASSUME NEW t \in Thread
    PROVE /\ First(t) \in Nat /\ End(t) \in Nat
          /\ First(t) < End(t)
          /\ First(t + 1) = First(t) + Range
          /\ End(t) + Reserve = First(t + 1)
          /\ First(t + 1) <= Word - 1
  <1> USE NonceScanAssumption
  <1>1. t \in Nat /\ t + 1 \in Nat /\ t + 1 <= N
    BY DEF Thread
  <1>2. First(t) \in Nat
    BY <1>1, RangeNat, Monotonic DEF First
  <1>3. Range * (t + 1) = Range * t + Range
    BY <1>1, RangeNat
  <1>4. Range * (t + 1) <= Range * N
    BY <1>1, RangeNat, Monotonic
  <1>5. QED
    BY <1>2, <1>3, <1>4, RangeNat DEF First, End

LEMMA Disjoint ==
    ASSUME NEW t \in Thread, NEW u \in Thread, NEW n \in Int,
           First(t) <= n, n < First(t + 1), First(u) <= n, n < First(u + 1)
    PROVE t = u
  <1>1. ASSUME NEW a \in Thread, NEW b \in Thread, a < b PROVE First(a + 1) <= First(b)
    BY <1>1, RangeNat, Monotonic, NonceScanAssumption DEF Thread, First
  <1>2. First(t) \in Nat /\ First(t + 1) \in Int /\ First(u) \in Nat /\ First(u + 1) \in Int
    BY Split, RangeNat
  <1>3. t \in Int /\ u \in Int
    BY NonceScanAssumption DEF Thread
  <1>4. QED
    BY <1>1, <1>2, <1>3

-----------------------------------------------------------------------------
(* Where a thread is in its range. Between two scans it may be one past the last
   nonce of a scan that was not allowed to go further; each repetition of a used
   up header takes it two nonces on. *)
Place(t) ==
    /\ whdr[t] <= header
    /\ whdr[t] = 0 => pc[t] = "get" /\ nonce[t] = 0 /\ end_nonce[t] = 0
    /\ whdr[t] # 0 =>
          /\ end_nonce[t] = End(t)
          /\ First(t) <= nonce[t]
          /\ pc[t] = "get" => nonce[t] <= End(t) + 2 * same[t] + 1
          /\ pc[t] = "scan" => nonce[t] <= End(t) + 2 * same[t] /\ max_nonce[t] <= End(t)

RangeInv == TypeOK /\ \A t \in Thread : Place(t)

(* A reserve that is large enough for the repetitions of a used up header. *)
Patient == 2 * MaxSame < Reserve

(* Ranges that start at their beginning, too. *)
Orderly == ~setting.randomize /\ Patient

LEMMA InitPlace == ASSUME Init PROVE RangeInv
  <1> USE NonceScanAssumption DEF Init
  <1>1. 0 \in 0..(Word - 1) /\ 1 \in 1..MaxHeader /\ 0 \in 0..MaxHeader /\ 0 \in 0..MaxSame
    OBVIOUS
  <1>2. watch \in (1..MaxHeader) \X (0..(Word - 1)) /\ won \in BOOLEAN
    OBVIOUS
  <1>3. TypeOK
    BY <1>1, <1>2 DEF TypeOK
  <1>4. \A t \in Thread : Place(t)
    BY DEF Place
  <1>5. QED
    BY <1>3, <1>4 DEF RangeInv

\* A scan stays below the nonce that follows its range, so nothing wraps.
LEMMA PlaceBounds ==
    ASSUME Orderly, RangeInv, NEW t \in Thread, whdr[t] # 0
    PROVE /\ First(t) <= nonce[t] /\ nonce[t] <= First(t + 1) /\ nonce[t] + 1 < Word + 1
          /\ pc[t] = "scan" => nonce[t] < First(t + 1) /\ nonce[t] + 1 <= Word - 1
  <1>1. /\ nonce[t] \in 0..(Word - 1) /\ same[t] \in Nat /\ same[t] <= MaxSame
        /\ pc[t] \in {"get", "scan"}
    BY NonceScanAssumption DEF RangeInv, TypeOK
  <1>2. 2 * same[t] + 1 <= Reserve
    BY <1>1, NonceScanAssumption DEF Orderly, Patient
  <1>3. /\ First(t) <= nonce[t]
        /\ pc[t] = "get" => nonce[t] <= End(t) + 2 * same[t] + 1
        /\ pc[t] = "scan" => nonce[t] <= End(t) + 2 * same[t]
    BY DEF RangeInv, Place
  <1>4. /\ First(t) \in Nat /\ End(t) \in Nat /\ First(t + 1) \in Nat
        /\ End(t) + Reserve = First(t + 1) /\ First(t + 1) <= Word - 1
    BY Split, RangeNat
  <1>5. QED
    BY <1>1, <1>2, <1>3, <1>4, NonceScanAssumption

LEMMA RefillStep ==
    ASSUME TypeOK, NEW t \in Thread, Refill(t)
    PROVE /\ header' \in 1..MaxHeader /\ header <= header'
          /\ same' \in [Thread -> 0..MaxSame]
          /\ \A u \in Thread \ {t} : same'[u] = same[u]
          /\ \/ same'[t] = same[t] /\ nonce[t] < end_nonce[t] /\ header' = header
             \/ same'[t] = same[t] + 1 /\ header' = header
             \/ header' = header + 1
  <1> USE NonceScanAssumption DEF TypeOK
  <1>1. CASE nonce[t] < end_nonce[t]
    BY <1>1 DEF Refill
  <1>2. CASE ~(nonce[t] < end_nonce[t]) /\ header' = header + 1
    BY <1>2 DEF Refill
  <1>3. CASE ~(nonce[t] < end_nonce[t]) /\ same[t] < MaxSame /\ header' = header
             /\ same' = [same EXCEPT ![t] = @ + 1]
    BY <1>3
  <1>4. QED
    BY <1>1, <1>2, <1>3 DEF Refill

LEMMA LimitBound ==
    ASSUME NEW n \in Nat, NEW m \in Nat, NEW e \in Nat
    PROVE Limit(n, m, e) \in 0..e
  BY DEF Limit

\* get_new_work starts the range again, or goes on by one nonce.
LEMMA GetWorkStep ==
    ASSUME Orderly, RangeInv, NEW t \in Thread, GetWork(t)
    PROVE /\ RangeInv'
          /\ \/ whdr[t] # header' /\ whdr'[t] = header' /\ nonce'[t] = First(t)
             \/ setting.algo = "neuromorph"
             \/ whdr'[t] = whdr[t] /\ nonce'[t] = nonce[t] + 1
  <1> USE NonceScanAssumption
  <1>1. /\ header' \in 1..MaxHeader /\ header <= header'
        /\ same' \in [Thread -> 0..MaxSame]
        /\ \A u \in Thread \ {t} : same'[u] = same[u]
        /\ \/ same'[t] = same[t] /\ nonce[t] < end_nonce[t] /\ header' = header
           \/ same'[t] = same[t] + 1 /\ header' = header
           \/ header' = header + 1
    BY RefillStep DEF GetWork, RangeInv
  <1>2. PICK max64 \in Scan :
          max_nonce' = [max_nonce EXCEPT ![t] = Limit(nonce'[t], max64, end_nonce'[t])]
    BY DEF GetWork
  <1>3. pc' = [pc EXCEPT ![t] = "scan"] /\ UNCHANGED <<setting, watchVars>>
    BY DEF GetWork
  <1>4. /\ First(t) \in Nat /\ End(t) \in Nat /\ First(t) <= Word - 1 /\ End(t) <= Word - 1
        /\ First(t) < End(t)
    BY Split, RangeNat
  <1>5. \A u \in Thread : whdr[u] \in Nat /\ whdr[u] <= header
    BY DEF RangeInv, TypeOK, Place
  <1>6. CASE Resets(t)
    <2>1. /\ whdr' = [whdr EXCEPT ![t] = header']
          /\ nonce' = [nonce EXCEPT ![t] = First(t)]
          /\ end_nonce' = [end_nonce EXCEPT ![t] = End(t)]
      <3>1. ~setting.randomize
        BY DEF Orderly
      <3>2. QED
        BY <1>4, <1>6, <3>1 DEF GetWork, get_new_work, Offset
    <2>2. nonce'[t] = First(t) /\ end_nonce'[t] = End(t) /\ whdr'[t] = header'
      BY <2>1 DEF RangeInv, TypeOK
    <2>3. Limit(nonce'[t], max64, end_nonce'[t]) \in 0..End(t)
      BY <1>4, <2>2, LimitBound
    <2>4. TypeOK'
      BY <1>1, <1>2, <1>3, <1>4, <2>1, <2>3 DEF RangeInv, TypeOK, watchVars
    <2>5. Place(t)'
      BY <1>1, <1>2, <1>3, <1>4, <2>2, <2>3 DEF RangeInv, TypeOK, Place
    <2>6. \A u \in Thread \ {t} : Place(u)'
      BY <1>1, <1>2, <1>3, <1>5, <2>1 DEF RangeInv, TypeOK, Place
    <2>7. whdr[t] # header' \/ setting.algo = "neuromorph"
      BY <1>6 DEF Resets
    <2>8. QED
      BY <2>2, <2>4, <2>5, <2>6, <2>7 DEF RangeInv
  <1>7. CASE ~Resets(t)
    <2>1. whdr[t] = header' /\ setting.algo # "neuromorph"
      BY <1>7 DEF Resets, JobIdDiffers
    <2>2. whdr[t] # 0 /\ header' = header
      BY <1>1, <1>5, <2>1 DEF RangeInv, TypeOK
    <2>3. /\ UNCHANGED <<whdr, end_nonce>>
          /\ nonce' = [nonce EXCEPT ![t] = NextNonce(@)]
      BY <1>7 DEF GetWork, get_new_work
    <2>4. /\ nonce[t] \in Nat /\ nonce[t] + 1 <= Word - 1
          /\ nonce[t] + 1 <= End(t) + 2 * same'[t]
          /\ First(t) <= nonce[t]
      <3>1. pc[t] = "get" /\ nonce[t] \in Nat /\ same[t] \in Nat /\ same'[t] \in 0..MaxSame
        <4>1. pc[t] = "get"
          BY DEF GetWork
        <4>2. nonce[t] \in 0..(Word - 1) /\ same[t] \in 0..MaxSame
          BY DEF RangeInv, TypeOK
        <4>3. same'[t] \in 0..MaxSame
          BY <1>1
        <4>4. QED
          BY <4>1, <4>2, <4>3
      <3>2. /\ end_nonce[t] = End(t) /\ First(t) <= nonce[t]
            /\ nonce[t] <= End(t) + 2 * same[t] + 1
        BY <2>2, <3>1 DEF RangeInv, Place
      <3>3. nonce[t] + 1 <= End(t) + 2 * same'[t]
        BY <1>1, <1>4, <2>2, <3>1, <3>2 DEF RangeInv, TypeOK
      <3>4. 2 * same'[t] < Reserve
        BY <3>1 DEF Orderly, Patient
      <3>5. QED
        BY <1>4, <3>1, <3>2, <3>3, <3>4, Split, RangeNat
    <2>5. nonce'[t] = nonce[t] + 1
      BY <2>3, <2>4 DEF NextNonce, RangeInv, TypeOK
    <2>6. end_nonce'[t] = End(t)
      BY <2>2, <2>3 DEF RangeInv, Place
    <2>7. Limit(nonce'[t], max64, end_nonce'[t]) \in 0..End(t)
      <3>1. nonce'[t] \in Nat /\ max64 \in Nat
        BY <2>4, <2>5
      <3>2. QED
        BY <1>4, <2>6, <3>1, LimitBound
    <2>8. nonce' = [nonce EXCEPT ![t] = nonce[t] + 1]
      BY <2>3, <2>5 DEF RangeInv, TypeOK
    <2>9. TypeOK'
      BY <1>1, <1>2, <1>3, <1>4, <2>3, <2>4, <2>7, <2>8 DEF RangeInv, TypeOK, watchVars
    <2>10. Place(t)'
      <3>1. pc'[t] = "scan" /\ max_nonce'[t] \in 0..End(t)
        BY <1>2, <1>3, <2>7 DEF RangeInv, TypeOK
      <3>2. whdr'[t] <= header' /\ whdr'[t] # 0
        BY <1>5, <2>2, <2>3
      <3>3. First(t) <= nonce'[t] /\ nonce'[t] <= End(t) + 2 * same'[t]
        BY <1>4, <2>4, <2>5
      <3>4. QED
        BY <1>4, <2>6, <3>1, <3>2, <3>3 DEF Place, First, End, Range
    <2>11. \A u \in Thread \ {t} : Place(u)'
      BY <1>1, <1>2, <1>3, <1>5, <2>3, <2>8 DEF RangeInv, TypeOK, Place
    <2>12. QED
      BY <2>3, <2>5, <2>9, <2>10, <2>11 DEF RangeInv
  <1>8. QED
    BY <1>6, <1>7

-----------------------------------------------------------------------------
(* scanhash. *)

\* The recorded history keeps its types.
LEMMA HashesType ==
    ASSUME TypeOK, NEW t \in Thread, NEW try, NEW win, Hashes(t, try, win)
    PROVE watch' = watch /\ times' \in 0..2 /\ won' \in BOOLEAN /\ sent' \in 0..2
  <1>1. times \in 0..2 /\ sent \in 0..2
    BY DEF TypeOK
  <1>2. won \in BOOLEAN
    BY DEF TypeOK
  <1>3. times' \in 0..2 /\ sent' \in 0..2
    BY <1>1 DEF Hashes, More
  <1>4. won' \in BOOLEAN
    <2>1. CASE won' = (watch[2] \in win)
      <3>1. won' = TRUE \/ won' = FALSE
        BY <2>1, SMT
      <3>2. QED
        BY <3>1, Zenon
    <2>2. CASE won' = won
      BY <1>2, <2>2, Zenon
    <2>3. QED
      BY <2>1, <2>2, Zenon DEF Hashes
  <1>5. QED
    BY <1>3, <1>4 DEF Hashes

\* Every way out of a turn of a scan loop leaves the thread in its place.
LEMMA AdvanceStep ==
    ASSUME Orderly, RangeInv, NEW t \in Thread, NEW n \in Nat,
           pc[t] = "scan", UNCHANGED scanVars, watch' = watch,
           times' \in 0..2, won' \in BOOLEAN, sent' \in 0..2,
           First(t) <= n,
           \/ Leave(t, n) /\ n <= End(t) + 2 * same[t] + 1
           \/ Stay(t, n) /\ n <= End(t) + 2 * same[t]
    PROVE RangeInv'
  <1> USE NonceScanAssumption
  <1>1. same[t] \in 0..MaxSame /\ 2 * same[t] + 1 <= Reserve
    BY DEF RangeInv, TypeOK, Orderly, Patient
  <1>2. n \in 0..(Word - 1)
    BY <1>1, Split, RangeNat
  <1>3. /\ nonce' = [nonce EXCEPT ![t] = n]
        /\ pc' = [pc EXCEPT ![t] = "get"] \/ pc' = pc
    BY DEF Leave, Stay
  <1>4. nonce' \in [Thread -> 0..(Word - 1)] /\ pc' \in [Thread -> {"get", "scan"}]
    BY <1>2, <1>3 DEF RangeInv, TypeOK
  <1>5. watch' \in (1..MaxHeader) \X (0..(Word - 1))
    BY DEF RangeInv, TypeOK
  <1>6. TypeOK'
    BY <1>4, <1>5 DEF RangeInv, TypeOK, scanVars
  <1>7. whdr[t] # 0 /\ whdr[t] <= header /\ end_nonce[t] = End(t) /\ max_nonce[t] <= End(t)
    BY DEF RangeInv, Place
  <1>8. nonce'[t] = n /\ (pc'[t] = "get" \/ (pc'[t] = "scan" /\ n <= End(t) + 2 * same[t]))
    <2>1. nonce'[t] = n
      BY <1>3 DEF RangeInv, TypeOK
    <2>2. CASE Leave(t, n)
      BY <2>1, <2>2 DEF RangeInv, TypeOK, Leave
    <2>3. CASE Stay(t, n) /\ n <= End(t) + 2 * same[t]
      BY <2>1, <2>3 DEF Stay
    <2>4. QED
      BY <2>2, <2>3
  <1>9. n <= End(t) + 2 * same[t] + 1
    BY <1>1, Split
  <1>10. Place(t)'
    BY <1>7, <1>8, <1>9 DEF Place, scanVars, First, End, Range
  <1>11. \A u \in Thread \ {t} : Place(u)'
    BY <1>3 DEF RangeInv, TypeOK, Place, scanVars, First, End, Range
  <1>12. QED
    BY <1>6, <1>10, <1>11 DEF RangeInv

\* The nonce of a thread that scans: in its range, and the next one does not wrap.
LEMMA Scanning ==
    ASSUME Orderly, RangeInv, NEW t \in Thread, pc[t] = "scan"
    PROVE /\ nonce[t] \in Nat /\ First(t) <= nonce[t] /\ nonce[t] < First(t + 1)
          /\ nonce[t] <= End(t) + 2 * same[t]
          /\ max_nonce[t] \in Nat /\ max_nonce[t] <= End(t)
          /\ (nonce[t] + 1) % Word = nonce[t] + 1
          /\ End(t) \in Nat /\ same[t] \in Nat /\ First(t) \in Nat
  <1>1. nonce[t] \in Nat /\ max_nonce[t] \in Nat /\ same[t] \in Nat
    BY NonceScanAssumption DEF RangeInv, TypeOK
  <1>2. /\ First(t) <= nonce[t] /\ max_nonce[t] <= End(t) /\ whdr[t] # 0
        /\ nonce[t] <= End(t) + 2 * same[t]
    BY DEF RangeInv, Place
  <1>3. nonce[t] < First(t + 1) /\ nonce[t] + 1 <= Word - 1
    BY <1>2, PlaceBounds
  <1>4. (nonce[t] + 1) % Word = nonce[t] + 1
    BY <1>1, <1>3, NonceScanAssumption
  <1>5. QED
    BY <1>1, <1>2, <1>3, <1>4, Split

LEMMA ScanStep ==
    ASSUME Orderly, RangeInv, NEW t \in Thread,
           ScanOne(t) \/ ScanTwo(t) \/ ScanTail(t) \/ ScanNothing(t)
    PROVE RangeInv'
  <1>1. CASE ScanOne(t)
    <2>1. pc[t] = "scan" /\ UNCHANGED scanVars
      BY <1>1 DEF ScanOne
    <2>2. PICK win : Hashes(t, {nonce[t]}, win)
      BY <1>1 DEF ScanOne
    <2>3. PICK n \in {nonce[t], nonce[t] + 1} :
            Leave(t, n) \/ (Stay(t, n) /\ n < max_nonce[t])
      BY <1>1, <2>1, Scanning DEF ScanOne
    <2>4. n \in Nat /\ First(t) <= n /\ n <= End(t) + 2 * same[t] + 1
      BY <2>1, Scanning
    <2>5. n < max_nonce[t] => n <= End(t) + 2 * same[t]
      BY <2>1, <2>4, Scanning
    <2>6. watch' = watch /\ times' \in 0..2 /\ won' \in BOOLEAN /\ sent' \in 0..2
      BY <2>2, HashesType DEF RangeInv
    <2>7. QED
      BY <2>1, <2>3, <2>4, <2>5, <2>6, AdvanceStep
  <1>2. CASE ScanTwo(t)
    <2>1. pc[t] = "scan" /\ UNCHANGED scanVars /\ nonce[t] + 2 <= max_nonce[t]
      BY <1>2 DEF ScanTwo
    <2>2. PICK win : Hashes(t, {nonce[t], nonce[t] + 1}, win)
      BY <1>2 DEF ScanTwo
    <2>3. PICK n \in {nonce[t], nonce[t] + 1, nonce[t] + 2} : Leave(t, n) \/ Stay(t, n)
      BY <1>2 DEF ScanTwo
    <2>4. n \in Nat /\ First(t) <= n /\ n <= End(t) + 2 * same[t]
      BY <2>1, Scanning
    <2>5. n <= End(t) + 2 * same[t] + 1
      BY <2>1, <2>4, Scanning
    <2>6. watch' = watch /\ times' \in 0..2 /\ won' \in BOOLEAN /\ sent' \in 0..2
      BY <2>2, HashesType DEF RangeInv
    <2>7. QED
      BY <2>1, <2>3, <2>4, <2>5, <2>6, AdvanceStep
  <1>3. CASE ScanTail(t)
    <2>1. pc[t] = "scan" /\ UNCHANGED scanVars
      BY <1>3 DEF ScanTail
    <2>2. PICK win : Hashes(t, {nonce[t]}, win)
      BY <1>3 DEF ScanTail
    <2>3. PICK n \in {nonce[t], nonce[t] + 1} : Leave(t, n)
      BY <1>3 DEF ScanTail
    <2>4. n \in Nat /\ First(t) <= n /\ n <= End(t) + 2 * same[t] + 1
      BY <2>1, Scanning
    <2>5. watch' = watch /\ times' \in 0..2 /\ won' \in BOOLEAN /\ sent' \in 0..2
      BY <2>2, HashesType DEF RangeInv
    <2>6. QED
      BY <2>1, <2>3, <2>4, <2>5, AdvanceStep
  <1>4. CASE ScanNothing(t)
    <2>1. pc[t] = "scan" /\ UNCHANGED scanVars /\ UNCHANGED watchVars /\ Leave(t, nonce[t])
      BY <1>4 DEF ScanNothing
    <2>2. /\ nonce[t] \in Nat /\ First(t) <= nonce[t]
          /\ nonce[t] <= End(t) + 2 * same[t] + 1
      BY <2>1, Scanning
    <2>3. watch' = watch /\ times' \in 0..2 /\ sent' \in 0..2
      BY <2>1 DEF watchVars, RangeInv, TypeOK
    <2>4. won' \in BOOLEAN
      BY <2>1, Zenon DEF watchVars, RangeInv, TypeOK
    <2>5. QED
      BY <2>1, <2>2, <2>3, <2>4, AdvanceStep
  <1>5. QED
    BY <1>1, <1>2, <1>3, <1>4

LEMMA NextRange == ASSUME Orderly, RangeInv, [Next]_vars PROVE RangeInv'
  <1>1. CASE NewHeader
    <2>1. UNCHANGED <<setting, whdr, nonce, end_nonce, max_nonce, pc, same, watchVars>>
      BY <1>1 DEF NewHeader
    <2>2. header \in 1..MaxHeader /\ header' \in 1..MaxHeader /\ header' = header + 1
      BY <1>1, NonceScanAssumption DEF NewHeader, RangeInv, TypeOK
    <2>3. TypeOK'
      BY <2>1, <2>2 DEF RangeInv, TypeOK, watchVars
    <2>4. \A u \in Thread : Place(u)'
      <3> SUFFICES ASSUME NEW u \in Thread PROVE Place(u)'
        OBVIOUS
      <3>1. whdr[u] \in Nat /\ whdr[u] <= header'
        BY <2>2, NonceScanAssumption DEF RangeInv, TypeOK, Place
      <3>2. QED
        BY <2>1, <3>1 DEF RangeInv, Place, First, End, Range
    <2>5. QED
      BY <2>3, <2>4 DEF RangeInv
  <1>2. CASE \E t \in Thread : ThreadStep(t)
    BY <1>2, GetWorkStep, ScanStep DEF ThreadStep
  <1>3. CASE UNCHANGED vars
    BY <1>3 DEF vars, watchVars, RangeInv, TypeOK, Place, First, End, Range
  <1>4. QED
    BY <1>1, <1>2, <1>3 DEF Next, OutOfHeaders

\* How the program was started does not change.
LEMMA SameSetting == ASSUME [Next]_vars PROVE setting' = setting
  BY DEF Next, NewHeader, ThreadStep, GetWork, ScanOne, ScanTwo, ScanTail, ScanNothing,
         OutOfHeaders, scanVars, vars

\* Without --randomize every behaviour keeps RangeInv.
LEMMA RangeHolds == ASSUME Patient PROVE Spec => [](~setting.randomize => RangeInv)
  <1>1. Init => RangeInv
    BY InitPlace
  <1>2. (~setting.randomize => RangeInv) /\ [Next]_vars => (~setting.randomize => RangeInv)'
    BY NextRange, SameSetting DEF Orderly
  <1>3. QED
    BY <1>1, <1>2, PTL DEF Spec

(* A thread hashes nonces of its own range only (std_get_new_work and scanhash):
   no other thread hashes them. *)
THEOREM ThreadsKeepToTheirRange == ASSUME Patient PROVE Spec => []InOwnRange
  <1>1. (~setting.randomize => RangeInv) => InOwnRange
    BY Scanning DEF InOwnRange, Orderly
  <1>2. QED
    BY <1>1, RangeHolds, PTL

-----------------------------------------------------------------------------
(* What was hashed is behind: a thread is past the recorded nonce, in whose range
   it is, when it is at a later header or a later nonce. *)
Passed(t) ==
    /\ First(t) <= watch[2] /\ watch[2] < First(t + 1)
    /\ \/ whdr[t] > watch[1]
       \/ /\ whdr[t] = watch[1]
          /\ pc[t] = "scan" => nonce[t] > watch[2]
          /\ pc[t] = "get" => nonce[t] >= watch[2]

(* yespower, and sending with every loop that does not begin its range again. *)
HashedBehind == times <= 1 /\ (times = 1 => \E t \in Thread : Passed(t))
SentBehind == sent <= 1 /\ (sent = 1 => \E t \in Thread : Passed(t))

OnceInv ==
    /\ setting.algo = "yespower" => HashedBehind
    /\ setting.algo \in {"yespower", "civiclight"} => SentBehind

LEMMA Numbers ==
    ASSUME RangeInv
    PROVE /\ watch[1] \in Nat /\ watch[2] \in Nat /\ times \in Nat /\ sent \in Nat /\ header \in Nat
          /\ \A u \in Thread : /\ whdr[u] \in Nat /\ whdr[u] <= header /\ nonce[u] \in Nat
                               /\ pc[u] \in {"get", "scan"}
  <1>1. /\ watch[1] \in Nat /\ watch[2] \in Nat /\ times \in Nat /\ sent \in Nat
        /\ header \in Nat
    BY NonceScanAssumption DEF RangeInv, TypeOK
  <1>2. \A u \in Thread : whdr[u] <= header
    BY DEF RangeInv, Place
  <1>3. \A u \in Thread : whdr[u] \in Nat /\ nonce[u] \in Nat /\ pc[u] \in {"get", "scan"}
    BY NonceScanAssumption DEF RangeInv, TypeOK
  <1>4. QED
    BY <1>1, <1>2, <1>3

(* One turn of a scan loop of thread t, that hashes `try` and submits `win`. *)
Turn(t, try, win) ==
    /\ pc[t] = "scan"
    /\ UNCHANGED <<whdr, header>>
    /\ Hashes(t, try, win)
    /\ \/ try = {nonce[t]}
       \/ try = {nonce[t], nonce[t] + 1} /\ nonce[t] + 2 <= max_nonce[t]
    /\ \A u \in Thread \ {t} : nonce'[u] = nonce[u] /\ pc'[u] = pc[u]
    /\ nonce'[t] \in Nat /\ nonce'[t] >= nonce[t]
    /\ win # {} => pc'[t] = "get"
    /\ pc'[t] \in {"get", "scan"}
    /\ \A n \in win \cap try : nonce'[t] >= n
    /\ pc'[t] = "scan" => \A n \in try : nonce'[t] > n

\* Every scan loop takes such turns.
LEMMA ScanIsTurn ==
    ASSUME Orderly, RangeInv, NEW t \in Thread, ScanOne(t) \/ ScanTwo(t) \/ ScanTail(t)
    PROVE \E try, win : /\ Turn(t, try, win)
                        /\ setting.algo = "yespower" => try = {nonce[t]}
  <1> DEFINE n == nonce[t]
  <1>1. pc[t] = "scan" /\ UNCHANGED <<whdr, header>>
    BY DEF ScanOne, ScanTwo, ScanTail, scanVars
  <1>2. n \in Nat /\ (n + 1) % Word = n + 1
    BY <1>1, Scanning
  <1>3. nonce \in [Thread -> 0..(Word - 1)] /\ pc \in [Thread -> {"get", "scan"}]
    BY DEF RangeInv, TypeOK
  <1>4. ASSUME NEW p, Leave(t, p)
        PROVE /\ nonce'[t] = p /\ pc'[t] = "get"
              /\ \A u \in Thread \ {t} : nonce'[u] = nonce[u] /\ pc'[u] = pc[u]
    BY <1>3, <1>4 DEF Leave
  <1>5. ASSUME NEW p, Stay(t, p)
        PROVE /\ nonce'[t] = p /\ pc'[t] = "scan"
              /\ \A u \in Thread \ {t} : nonce'[u] = nonce[u] /\ pc'[u] = pc[u]
    BY <1>1, <1>3, <1>5 DEF Stay
  <1>6. CASE ScanOne(t)
    <2>1. \/ Hashes(t, {n}, {n}) /\ Leave(t, n)
          \/ Hashes(t, {n}, {}) /\ \E p \in {n, n + 1} : Leave(t, p)
          \/ Hashes(t, {n}, {}) /\ Stay(t, n + 1)
      BY <1>2, <1>6 DEF ScanOne
    <2>2. Turn(t, {n}, {n}) \/ Turn(t, {n}, {})
      BY <1>1, <1>2, <1>4, <1>5, <2>1 DEF Turn
    <2>3. QED
      BY <2>2 DEF Turn
  <1>7. CASE ScanTwo(t)
    <2>1. setting.algo = "civiclight" /\ n + 2 <= max_nonce[t]
      BY <1>7 DEF ScanTwo
    <2>2. PICK win \in SUBSET {n, n + 1} :
             /\ Hashes(t, {n, n + 1}, win)
             /\ \/ n + 1 \in win /\ Leave(t, n + 1)
                \/ win = {n} /\ Leave(t, n)
                \/ win = {} /\ (Stay(t, n + 2) \/ Leave(t, n + 2))
      BY <1>7 DEF ScanTwo
    <2>3. Turn(t, {n, n + 1}, win)
      <3>1. \A p \in win : p = n \/ p = n + 1
        BY <2>2
      <3>2. CASE n + 1 \in win /\ Leave(t, n + 1)
        BY <1>1, <1>2, <1>4, <2>1, <2>2, <3>1, <3>2 DEF Turn
      <3>3. CASE win = {n} /\ Leave(t, n)
        BY <1>1, <1>2, <1>4, <2>1, <2>2, <3>1, <3>3 DEF Turn
      <3>4. CASE win = {} /\ (Stay(t, n + 2) \/ Leave(t, n + 2))
        BY <1>1, <1>2, <1>4, <1>5, <2>1, <2>2, <3>4 DEF Turn
      <3>5. QED
        BY <2>2, <3>2, <3>3, <3>4
    <2>4. QED
      BY <2>1, <2>3
  <1>8. CASE ScanTail(t)
    <2>1. /\ setting.algo = "civiclight"
          /\ \/ Hashes(t, {n}, {n}) /\ Leave(t, n)
             \/ Hashes(t, {n}, {}) /\ Leave(t, n + 1)
      BY <1>8 DEF ScanTail
    <2>2. Turn(t, {n}, {n}) \/ Turn(t, {n}, {})
      BY <1>1, <1>2, <1>4, <2>1 DEF Turn
    <2>3. QED
      BY <2>1, <2>2
  <1>9. QED
    BY <1>6, <1>7, <1>8

\* What a turn hashes is in the range of its thread, ahead of what is behind.
LEMMA TurnAhead ==
    ASSUME Orderly, RangeInv, NEW t \in Thread, NEW try, NEW win, Turn(t, try, win),
           watch[1] = whdr[t], watch[2] \in try
    PROVE /\ First(t) <= watch[2] /\ watch[2] < First(t + 1)
          /\ \A u \in Thread : ~Passed(u)
  <1>1. /\ nonce[t] \in Nat /\ First(t) <= nonce[t] /\ nonce[t] < First(t + 1)
        /\ max_nonce[t] \in Nat /\ max_nonce[t] <= End(t) /\ First(t) \in Nat
    BY Scanning DEF Turn
  <1>2. End(t) < First(t + 1) /\ End(t) \in Nat /\ First(t + 1) \in Nat
    BY Split, RangeNat, NonceScanAssumption
  <1>3. \/ watch[2] = nonce[t]
        \/ watch[2] = nonce[t] + 1 /\ nonce[t] + 2 <= max_nonce[t]
    BY DEF Turn
  <1>4. First(t) <= watch[2] /\ watch[2] < First(t + 1) /\ watch[2] \in Nat
    BY <1>1, <1>2, <1>3
  <1>5. ASSUME NEW u \in Thread, Passed(u) PROVE FALSE
    <2>1. u = t
      BY <1>4, <1>5, Disjoint DEF Passed
    <2>2. nonce[t] > watch[2]
      BY <1>5, <2>1, Numbers DEF Passed, Turn
    <2>3. QED
      BY <1>1, <1>3, <2>2, Numbers
  <1>6. QED
    BY <1>4, <1>5

\* A thread that is past the recorded nonce stays past it.
LEMMA PassedStep ==
    ASSUME Orderly, RangeInv, setting.algo \in {"yespower", "civiclight"}, [Next]_vars,
           NEW u \in Thread, Passed(u)
    PROVE Passed(u)'
  <1>1. CASE NewHeader \/ OutOfHeaders \/ UNCHANGED vars
    <2>1. UNCHANGED <<whdr, nonce, pc, watch>>
      BY <1>1 DEF NewHeader, OutOfHeaders, vars, watchVars
    <2>2. QED
      BY <2>1 DEF Passed, First, Range
  <1>2. ASSUME NEW t \in Thread, GetWork(t) PROVE Passed(u)'
    <2>1. watch' = watch
      BY <1>2 DEF GetWork, watchVars
    <2>2. header' \in Int /\ header <= header'
      BY <1>2, RefillStep DEF GetWork, RangeInv
    <2>3. CASE u # t
      <3>1. whdr'[u] = whdr[u] /\ nonce'[u] = nonce[u] /\ pc'[u] = pc[u]
        BY <1>2, <2>3 DEF RangeInv, TypeOK, GetWork, get_new_work
      <3>2. QED
        BY <2>1, <3>1 DEF Passed, First, Range
    <2>4. CASE u = t
      <3>1. pc[t] = "get" /\ pc'[t] = "scan"
        BY <1>2 DEF RangeInv, TypeOK, GetWork
      <3>2. \/ whdr[t] # header' /\ whdr'[t] = header'
            \/ whdr'[t] = whdr[t] /\ nonce'[t] = nonce[t] + 1
        BY <1>2, GetWorkStep
      <3>3. whdr'[t] > watch[1] \/ (whdr'[t] = watch[1] /\ nonce'[t] > watch[2])
        BY <2>2, <2>4, <3>1, <3>2, Numbers DEF Passed
      <3>4. QED
        BY <2>1, <2>4, <3>1, <3>3 DEF Passed, First, Range
    <2>5. QED
      BY <2>3, <2>4
  <1>3. ASSUME NEW t \in Thread, NEW try, NEW win, Turn(t, try, win) PROVE Passed(u)'
    <2>1. watch' = watch /\ whdr' = whdr
      BY <1>3 DEF Turn, Hashes
    <2>2. CASE u # t
      BY <1>3, <2>1, <2>2 DEF Turn, Passed, First, Range
    <2>3. CASE u = t
      <3>1. whdr[t] > watch[1] \/ (whdr[t] = watch[1] /\ nonce[t] > watch[2])
        BY <1>3, <2>3 DEF Passed, Turn
      <3>2. nonce'[t] \in Nat /\ nonce'[t] >= nonce[t] /\ nonce[t] \in Nat /\ watch[2] \in Nat
        BY <1>3, Numbers DEF Turn
      <3>3. whdr[t] > watch[1] \/ (whdr[t] = watch[1] /\ nonce'[t] > watch[2])
        BY <3>1, <3>2
      <3>4. QED
        BY <2>1, <2>3, <3>2, <3>3 DEF Passed, First, Range
    <2>4. QED
      BY <2>2, <2>3
  <1>4. ASSUME NEW t \in Thread, ScanNothing(t) PROVE Passed(u)'
    <2>1. /\ UNCHANGED <<whdr, watch>> /\ pc[t] = "scan"
          /\ nonce' = nonce /\ pc' = [pc EXCEPT ![t] = "get"]
      BY <1>4 DEF ScanNothing, Leave, scanVars, watchVars, RangeInv, TypeOK
    <2>2. CASE u # t
      BY <2>1, <2>2 DEF Passed, First, Range, RangeInv, TypeOK
    <2>3. CASE u = t
      <3>1. pc'[t] = "get"
        BY <2>1 DEF RangeInv, TypeOK
      <3>2. whdr[t] > watch[1] \/ (whdr[t] = watch[1] /\ nonce[t] >= watch[2])
        BY <2>1, <2>3, Numbers DEF Passed
      <3>3. QED
        BY <2>1, <2>3, <3>1, <3>2 DEF Passed, First, Range
    <2>4. QED
      BY <2>2, <2>3
  <1>5. QED
    BY <1>1, <1>2, <1>3, <1>4, ScanIsTurn DEF Next, ThreadStep

\* What a turn sends is behind its thread.
LEMMA SentPassed ==
    ASSUME Orderly, RangeInv, NEW t \in Thread, NEW try, NEW win, Turn(t, try, win),
           watch[1] = whdr[t], watch[2] \in try \cap win
    PROVE Passed(t)'
  <1>1. First(t) <= watch[2] /\ watch[2] < First(t + 1)
    BY TurnAhead
  <1>2. /\ watch' = watch /\ whdr' = whdr /\ pc'[t] = "get"
        /\ nonce'[t] >= watch[2]
    BY DEF Turn, Hashes
  <1>3. QED
    BY <1>1, <1>2 DEF Passed, First, Range

\* The only nonce a turn of yespower hashes is behind it, submitted or not.
LEMMA HashedPassed ==
    ASSUME Orderly, RangeInv, NEW t \in Thread, NEW win, Turn(t, {nonce[t]}, win),
           watch[1] = whdr[t], watch[2] = nonce[t]
    PROVE Passed(t)'
  <1>1. First(t) <= watch[2] /\ watch[2] < First(t + 1)
    BY TurnAhead
  <1>2. watch' = watch /\ whdr' = whdr /\ pc'[t] \in {"get", "scan"} /\ nonce'[t] >= nonce[t]
    BY DEF Turn, Hashes
  <1>3. pc'[t] = "scan" => nonce'[t] > watch[2]
    BY DEF Turn
  <1>4. QED
    BY <1>1, <1>2, <1>3 DEF Passed, First, Range

\* Who changes the history.
LEMMA HistoryFrame ==
    ASSUME Orderly, RangeInv, [Next]_vars
    PROVE \/ UNCHANGED <<times, sent>>
          \/ \E t \in Thread : ScanOne(t) \/ ScanTwo(t) \/ ScanTail(t)
  BY DEF Next, NewHeader, OutOfHeaders, ThreadStep, GetWork, ScanNothing, vars, watchVars

\* OnceInv, one part at a time.
LEMMA HashedStep ==
    ASSUME Orderly, RangeInv, setting.algo = "yespower", HashedBehind, [Next]_vars
    PROVE HashedBehind'
  <1>1. CASE times' = times
    BY <1>1, PassedStep DEF HashedBehind
  <1>2. CASE times' # times
    <2>1. PICK t \in Thread : ScanOne(t) \/ ScanTwo(t) \/ ScanTail(t)
      BY <1>2, HistoryFrame
    <2>2. PICK win : Turn(t, {nonce[t]}, win)
      BY <2>1, ScanIsTurn
    <2>3. watch[1] = whdr[t] /\ watch[2] \in {nonce[t]} /\ times' = More(times)
      BY <1>2, <2>2 DEF Turn, Hashes
    <2>4. \A u \in Thread : ~Passed(u)
      BY <2>2, <2>3, TurnAhead
    <2>5. times' = 1
      BY <2>3, <2>4, Numbers DEF HashedBehind, More
    <2>6. Passed(t)'
      BY <2>2, <2>3, HashedPassed
    <2>7. QED
      BY <2>5, <2>6 DEF HashedBehind
  <1>3. QED
    BY <1>1, <1>2

LEMMA SentStep ==
    ASSUME Orderly, RangeInv, setting.algo \in {"yespower", "civiclight"}, SentBehind, [Next]_vars
    PROVE SentBehind'
  <1>1. CASE sent' = sent
    BY <1>1, PassedStep DEF SentBehind
  <1>2. CASE sent' # sent
    <2>1. PICK t \in Thread : ScanOne(t) \/ ScanTwo(t) \/ ScanTail(t)
      BY <1>2, HistoryFrame
    <2>2. PICK try, win : Turn(t, try, win)
      BY <2>1, ScanIsTurn
    <2>3. watch[1] = whdr[t] /\ watch[2] \in try \cap win /\ sent' = More(sent)
      BY <1>2, <2>2 DEF Turn, Hashes
    <2>4. \A u \in Thread : ~Passed(u)
      BY <2>2, <2>3, TurnAhead
    <2>5. sent' = 1
      BY <2>3, <2>4, Numbers DEF SentBehind, More
    <2>6. Passed(t)'
      BY <2>2, <2>3, SentPassed
    <2>7. QED
      BY <2>5, <2>6 DEF SentBehind
  <1>3. QED
    BY <1>1, <1>2

LEMMA OnceHolds == ASSUME Patient PROVE Spec => [](~setting.randomize => OnceInv)
  <1>1. Init => OnceInv
    BY DEF Init, OnceInv, HashedBehind, SentBehind
  <1>2. (~setting.randomize => RangeInv) /\ (~setting.randomize => OnceInv) /\ [Next]_vars
        => (~setting.randomize => OnceInv)'
    BY HashedStep, SentStep, SameSetting DEF OnceInv, Orderly
  <1>3. QED
    BY <1>1, <1>2, RangeHolds, PTL DEF Spec

(* The yespower scan loop with std_get_new_work: no nonce of a header is hashed
   twice, by one thread or by two, however scans are interrupted and whatever a
   server repeats. *)
THEOREM EveryNonceOnce == ASSUME Patient PROVE Spec => []NoNonceTwice
  <1>1. (~setting.randomize => RangeInv) /\ (~setting.randomize => OnceInv) => NoNonceTwice
    BY Numbers DEF OnceInv, HashedBehind, NoNonceTwice
  <1>2. QED
    BY <1>1, RangeHolds, OnceHolds, PTL

(* No nonce is submitted twice under a header, by the scan loop of yespower or by the
   two-way loop of scanhash_civiclight, which goes back to the second nonce of a pair
   when the first one was a share. *)
THEOREM EveryShareOnce == ASSUME Patient PROVE Spec => []NoShareTwice
  <1>1. (~setting.randomize => RangeInv) /\ (~setting.randomize => OnceInv) => NoShareTwice
    BY Numbers DEF OnceInv, SentBehind, NoShareTwice
  <1>2. QED
    BY <1>1, RangeHolds, OnceHolds, PTL

-----------------------------------------------------------------------------
(* With --randomize. *)

LEMMA Quotient ==
    ASSUME NEW a \in Nat, NEW b \in Nat \ {0}
    PROVE a \div b \in Nat /\ (a \div b) * b <= a /\ a < ((a \div b) + 1) * b
  OBVIOUS

\* An offset is at most the length of a range.
LEMMA OffsetBound ==
    ASSUME NEW r \in Offset
    PROVE r \in Nat /\ r <= Range /\ (r = 0 \/ \E k \in Nat : 4 * k < Word /\ r * N <= 4 * k)
  <1>1. CASE r = 0
    BY <1>1, RangeNat, NonceScanAssumption
  <1>2. CASE r # 0
    <2>1. PICK k \in 0..(Word - 1) : 4 * k < Word /\ r = (4 * k) \div N
      BY <1>2 DEF Offset
    <2>2. k \in Nat /\ 4 * k \in Nat /\ N \in Nat \ {0} /\ Word - 1 \in Nat /\ 4 * k <= Word - 1
      BY <2>1, NonceScanAssumption
    <2>3. r \in Nat /\ r * N <= 4 * k
      BY <2>1, <2>2, Quotient
    <2>4. Word - 1 < (Range + 1) * N
      BY <2>2, Quotient DEF Range
    <2>5. r <= Range
      <3>1. ASSUME Range + 1 <= r PROVE FALSE
        <4>1. N * (Range + 1) <= N * r
          BY <2>2, <2>3, <3>1, RangeNat, Monotonic
        <4>2. (Range + 1) * N <= r * N
          BY <2>2, <2>3, <4>1, RangeNat
        <4>3. (Range + 1) * N \in Nat /\ r * N \in Nat
          BY <2>2, <2>3, RangeNat
        <4>4. QED
          BY <2>2, <2>3, <2>4, <4>2, <4>3
      <3>2. QED
        BY <2>3, <3>1, RangeNat
    <2>6. QED
      BY <2>1, <2>2, <2>3, <2>5
  <1>3. QED
    BY <1>1, <1>2

\* A range that begins at an offset begins at the first nonce of the next one at
\* most, and never at the last nonce of all when that is no multiple of 4.
LEMMA OffsetInside ==
    ASSUME NEW t \in Thread, NEW r \in Offset
    PROVE /\ First(t) + r \in 0..(Word - 1)
          /\ First(t) <= First(t) + r /\ First(t) + r <= First(t + 1)
          /\ Word % 4 # 1 => First(t) + r < Word - 1
  <1>1. /\ First(t) \in Nat /\ First(t + 1) = First(t) + Range /\ First(t + 1) <= Word - 1
        /\ Range \in Nat /\ Range > 0 /\ Word \in Nat /\ N \in Nat \ {0} /\ Range * N <= Word - 1
    BY Split, RangeNat, NonceScanAssumption
  <1>2. r \in Nat /\ r <= Range
    BY OffsetBound
  <1>3. First(t) + r <= First(t + 1) /\ First(t) + r \in 0..(Word - 1)
    BY <1>1, <1>2
  <1>4. ASSUME Word % 4 # 1 PROVE First(t) + r < Word - 1
    <2>1. CASE r < Range
      BY <1>1, <1>2, <2>1
    <2>2. CASE r = Range
      <3>0. r # 0
        BY <1>1, <2>2
      <3>1. PICK k \in Nat : 4 * k < Word /\ r * N <= 4 * k
        BY <3>0, OffsetBound, Zenon
      <3>2. 4 * k < Word - 1
        BY <1>1, <1>4, <3>1
      <3>3. Range * N < Word - 1
        <4>1. Range * N \in Nat /\ Range * N <= 4 * k
          BY <1>1, <2>2, <3>1
        <4>2. QED
          BY <1>1, <3>1, <3>2, <4>1
      <3>4. First(t + 1) <= Range * N
        <4>1. t + 1 \in Nat /\ t + 1 <= N
          BY NonceScanAssumption DEF Thread
        <4>2. QED
          BY <1>1, <4>1, Monotonic DEF First
      <3>5. QED
        BY <1>1, <2>2, <3>3, <3>4
    <2>3. QED
      BY <1>2, <2>1, <2>2, <1>1
  <1>5. QED
    BY <1>1, <1>2, <1>3, <1>4

(* What holds of a thread wherever its range begins. *)
Near(t) ==
    /\ whdr[t] <= header
    /\ whdr[t] = 0 => pc[t] = "get" /\ nonce[t] = 0 /\ end_nonce[t] = 0
    /\ whdr[t] # 0 =>
          /\ end_nonce[t] = End(t)
          /\ pc[t] = "scan" => max_nonce[t] <= End(t)
    /\ whdr[t] # 0 /\ same[t] = 0 =>
          /\ First(t) <= nonce[t]
          /\ pc[t] = "scan" => nonce[t] <= First(t + 1) /\ nonce[t] < Word - 1

\* GetWork, piece by piece.
LEMMA GetWorkParts ==
    ASSUME TypeOK, NEW t \in Thread, GetWork(t)
    PROVE /\ header' \in 1..MaxHeader /\ header <= header'
          /\ same' \in [Thread -> 0..MaxSame]
          /\ pc' = [pc EXCEPT ![t] = "scan"] /\ UNCHANGED <<setting, watchVars>>
          /\ \E n \in 0..(Word - 1), h \in 0..MaxHeader, e \in 0..(Word - 1) :
                /\ nonce' = [nonce EXCEPT ![t] = n]
                /\ whdr' = [whdr EXCEPT ![t] = h]
                /\ end_nonce' = [end_nonce EXCEPT ![t] = e]
                /\ \E x \in 0..e : max_nonce' = [max_nonce EXCEPT ![t] = x]
                /\ \/ h = header' /\ e = End(t) /\ \E r \in Offset : n = First(t) + r
                   \/ /\ h = whdr[t] /\ h = header' /\ e = end_nonce[t]
                      /\ n = (nonce[t] + 1) % Word
  <1> USE NonceScanAssumption
  <1>1. /\ header' \in 1..MaxHeader /\ header <= header'
        /\ same' \in [Thread -> 0..MaxSame]
    BY RefillStep DEF GetWork
  <1>2. pc' = [pc EXCEPT ![t] = "scan"] /\ UNCHANGED <<setting, watchVars>>
    BY DEF GetWork
  <1>3. PICK max64 \in Scan :
          max_nonce' = [max_nonce EXCEPT ![t] = Limit(nonce'[t], max64, end_nonce'[t])]
    BY DEF GetWork
  <1>4. /\ nonce \in [Thread -> 0..(Word - 1)] /\ end_nonce \in [Thread -> 0..(Word - 1)]
        /\ whdr \in [Thread -> 0..MaxHeader] /\ max64 \in Nat
    BY DEF TypeOK
  <1>5. ASSUME NEW n \in 0..(Word - 1), NEW e \in 0..(Word - 1), nonce'[t] = n, end_nonce'[t] = e
        PROVE \E x \in 0..e : max_nonce' = [max_nonce EXCEPT ![t] = x]
    <2>1. Limit(n, max64, e) \in 0..e
      <3>1. n \in Nat /\ e \in Nat /\ max64 \in Nat
        BY <1>4
      <3>2. QED
        BY <3>1, LimitBound
    <2>2. QED
      BY <1>3, <1>5, <2>1
  <1>6. CASE Resets(t)
    <2>1. /\ whdr' = [whdr EXCEPT ![t] = header']
          /\ end_nonce' = [end_nonce EXCEPT ![t] = End(t)]
      BY <1>6 DEF GetWork, get_new_work
    <2>2. PICK r \in Offset : nonce' = [nonce EXCEPT ![t] = First(t) + r]
      BY <1>6 DEF GetWork, get_new_work
    <2>3. First(t) + r \in 0..(Word - 1) /\ End(t) \in 0..(Word - 1) /\ header' \in 0..MaxHeader
      <3>1. End(t) \in Nat /\ End(t) <= Word - 1
        BY Split, RangeNat
      <3>2. QED
        BY <1>1, <3>1, OffsetInside
    <2>4. nonce'[t] = First(t) + r /\ end_nonce'[t] = End(t)
      BY <1>4, <2>1, <2>2
    <2>5. \E x \in 0..End(t) : max_nonce' = [max_nonce EXCEPT ![t] = x]
      BY <1>5, <2>3, <2>4
    <2>6. QED
      BY <1>1, <1>2, <2>1, <2>2, <2>3, <2>5
  <1>7. CASE ~Resets(t)
    <2>1. /\ whdr[t] = header'
          /\ UNCHANGED <<whdr, end_nonce>>
          /\ nonce' = [nonce EXCEPT ![t] = (nonce[t] + 1) % Word]
      BY <1>4, <1>7 DEF GetWork, get_new_work, NextNonce, Resets, JobIdDiffers
    <2>2. (nonce[t] + 1) % Word \in 0..(Word - 1) /\ whdr[t] \in 0..MaxHeader
          /\ end_nonce[t] \in 0..(Word - 1)
      BY <1>4
    <2>3. whdr' = [whdr EXCEPT ![t] = whdr[t]] /\ end_nonce' = [end_nonce EXCEPT ![t] = end_nonce[t]]
      BY <1>4, <2>1
    <2>4. nonce'[t] = (nonce[t] + 1) % Word /\ end_nonce'[t] = end_nonce[t]
      BY <1>4, <2>1
    <2>5. \E x \in 0..end_nonce[t] : max_nonce' = [max_nonce EXCEPT ![t] = x]
      BY <1>5, <2>2, <2>4
    <2>6. QED
      BY <1>1, <1>2, <2>1, <2>2, <2>3, <2>5
  <1>8. QED
    BY <1>6, <1>7

\* One turn of a scan loop, or its end, keeps the types.
LEMMA ScanParts ==
    ASSUME TypeOK, NEW t \in Thread,
           ScanOne(t) \/ ScanTwo(t) \/ ScanTail(t) \/ ScanNothing(t)
    PROVE /\ UNCHANGED scanVars /\ pc[t] = "scan"
          /\ watch' = watch /\ times' \in 0..2 /\ won' \in BOOLEAN /\ sent' \in 0..2
          /\ \E n \in 0..(Word - 1), p \in {"get", "scan"} :
                /\ nonce' = [nonce EXCEPT ![t] = n]
                /\ pc' = [pc EXCEPT ![t] = p]
                /\ \/ n = nonce[t] /\ p = "get"
                   \/ n = (nonce[t] + 1) % Word /\ (p = "scan" => n < max_nonce[t])
                   \/ /\ n \in {nonce[t] + 1, nonce[t] + 2}
                      /\ n <= max_nonce[t]
  <1> USE NonceScanAssumption
  <1>1. /\ nonce \in [Thread -> 0..(Word - 1)] /\ max_nonce[t] \in 0..(Word - 1)
        /\ pc \in [Thread -> {"get", "scan"}]
    BY DEF TypeOK
  <1>2. UNCHANGED scanVars /\ pc[t] = "scan"
    BY DEF ScanOne, ScanTwo, ScanTail, ScanNothing, scanVars
  <1>3. watch' = watch /\ times' \in 0..2 /\ won' \in BOOLEAN /\ sent' \in 0..2
    <2>1. CASE ScanNothing(t)
      <3>1. UNCHANGED watchVars
        BY <2>1 DEF ScanNothing
      <3>2. watch' = watch /\ times' \in 0..2 /\ sent' \in 0..2
        BY <3>1 DEF watchVars, TypeOK
      <3>3. won' \in BOOLEAN
        BY <3>1, Zenon DEF watchVars, TypeOK
      <3>4. QED
        BY <3>2, <3>3
    <2>2. CASE ScanOne(t) \/ ScanTwo(t) \/ ScanTail(t)
      <3>1. PICK try, win : Hashes(t, try, win)
        BY <2>2 DEF ScanOne, ScanTwo, ScanTail
      <3>2. QED
        BY <3>1, HashesType
    <2>3. QED
      BY <2>1, <2>2
  <1>4. pc = [pc EXCEPT ![t] = "scan"] /\ nonce[t] \in 0..(Word - 1)
        /\ (nonce[t] + 1) % Word \in 0..(Word - 1)
    BY <1>1, <1>2
  <1>5. CASE ScanOne(t)
    <2>1. \/ Leave(t, nonce[t])
          \/ Leave(t, (nonce[t] + 1) % Word)
          \/ (nonce[t] + 1) % Word < max_nonce[t] /\ Stay(t, (nonce[t] + 1) % Word)
      BY <1>5 DEF ScanOne
    <2>2. CASE Leave(t, nonce[t])
      BY <1>2, <1>3, <1>4, <2>2 DEF Leave
    <2>3. CASE Leave(t, (nonce[t] + 1) % Word)
      BY <1>2, <1>3, <1>4, <2>3 DEF Leave
    <2>4. CASE (nonce[t] + 1) % Word < max_nonce[t] /\ Stay(t, (nonce[t] + 1) % Word)
      BY <1>2, <1>3, <1>4, <2>4 DEF Stay
    <2>5. QED
      BY <2>1, <2>2, <2>3, <2>4
  <1>6. CASE ScanTwo(t)
    <2>1. \E n \in {nonce[t], nonce[t] + 1, nonce[t] + 2} :
             Leave(t, n) \/ (Stay(t, n) /\ n = nonce[t] + 2)
      BY <1>6 DEF ScanTwo
    <2>2. PICK n \in {nonce[t], nonce[t] + 1, nonce[t] + 2} :
             Leave(t, n) \/ (Stay(t, n) /\ n = nonce[t] + 2)
      BY <2>1
    <2>3. nonce[t] + 2 <= max_nonce[t]
      BY <1>6 DEF ScanTwo
    <2>4. n \in 0..(Word - 1) /\ n <= max_nonce[t]
      BY <1>1, <1>4, <2>2, <2>3
    <2>5. QED
      BY <1>2, <1>3, <1>4, <2>2, <2>4 DEF Leave, Stay
  <1>7. CASE ScanTail(t)
    <2>1. nonce[t] + 1 = max_nonce[t] /\ (Leave(t, nonce[t]) \/ Leave(t, nonce[t] + 1))
      BY <1>7 DEF ScanTail
    <2>2. nonce[t] + 1 \in 0..(Word - 1)
      BY <1>1, <2>1
    <2>3. QED
      BY <1>2, <1>3, <1>4, <2>1, <2>2 DEF Leave
  <1>8. CASE ScanNothing(t)
    BY <1>2, <1>3, <1>4, <1>8 DEF ScanNothing, Leave
  <1>9. QED
    BY <1>5, <1>6, <1>7, <1>8

\* TypeOK keeps itself.
LEMMA TypeStep == ASSUME TypeOK, [Next]_vars PROVE TypeOK'
  <1>1. CASE NewHeader
    BY <1>1, NonceScanAssumption DEF NewHeader, TypeOK, watchVars
  <1>2. ASSUME NEW t \in Thread, GetWork(t) PROVE TypeOK'
    <2>1. PICK n \in 0..(Word - 1), h \in 0..MaxHeader, e \in 0..(Word - 1) :
             /\ nonce' = [nonce EXCEPT ![t] = n]
             /\ whdr' = [whdr EXCEPT ![t] = h]
             /\ end_nonce' = [end_nonce EXCEPT ![t] = e]
             /\ \E x \in 0..e : max_nonce' = [max_nonce EXCEPT ![t] = x]
      BY <1>2, GetWorkParts
    <2>2. PICK x \in 0..e : max_nonce' = [max_nonce EXCEPT ![t] = x]
      BY <2>1
    <2>3. x \in 0..(Word - 1)
      BY <2>2, NonceScanAssumption
    <2>4. /\ header' \in 1..MaxHeader /\ same' \in [Thread -> 0..MaxSame]
          /\ pc' = [pc EXCEPT ![t] = "scan"] /\ UNCHANGED <<setting, watchVars>>
      BY <1>2, GetWorkParts
    <2>5. QED
      BY <2>1, <2>2, <2>3, <2>4 DEF TypeOK, watchVars
  <1>3. ASSUME NEW t \in Thread, ScanOne(t) \/ ScanTwo(t) \/ ScanTail(t) \/ ScanNothing(t)
        PROVE TypeOK'
    <2>1. PICK n \in 0..(Word - 1), p \in {"get", "scan"} :
             nonce' = [nonce EXCEPT ![t] = n] /\ pc' = [pc EXCEPT ![t] = p]
      BY <1>3, ScanParts
    <2>2. /\ UNCHANGED scanVars
          /\ watch' = watch /\ times' \in 0..2 /\ won' \in BOOLEAN /\ sent' \in 0..2
      BY <1>3, ScanParts
    <2>3. watch' \in (1..MaxHeader) \X (0..(Word - 1))
      BY <2>2 DEF TypeOK
    <2>4. QED
      BY <2>1, <2>2, <2>3 DEF TypeOK, scanVars
  <1>4. CASE UNCHANGED vars
    BY <1>4 DEF TypeOK, vars, watchVars
  <1>5. QED
    BY <1>1, <1>2, <1>3, <1>4 DEF Next, ThreadStep, OutOfHeaders

(* The nonce arithmetic of a thread stays inside the word, with and without
   --randomize, whatever a server repeats (get_new_work, the choice of max_nonce
   and every scan loop). *)
THEOREM TypeCorrect == Spec => []TypeOK
  <1>1. Init => TypeOK
    BY InitPlace DEF RangeInv
  <1>2. QED
    BY <1>1, TypeStep, PTL DEF Spec

NearInv == \A t \in Thread : Near(t)

LEMMA NearInit == Init => NearInv
  BY DEF Init, NearInv, Near

\* A thread that got work is near its range.
LEMMA GetWorkNear ==
    ASSUME Word % 4 # 1, TypeOK, NearInv, NEW t \in Thread, GetWork(t)
    PROVE NearInv'
  <1> USE NonceScanAssumption
  <1>1. PICK n \in 0..(Word - 1), h \in 0..MaxHeader, e \in 0..(Word - 1) :
           /\ nonce' = [nonce EXCEPT ![t] = n]
           /\ whdr' = [whdr EXCEPT ![t] = h]
           /\ end_nonce' = [end_nonce EXCEPT ![t] = e]
           /\ \E x \in 0..e : max_nonce' = [max_nonce EXCEPT ![t] = x]
           /\ \/ h = header' /\ e = End(t) /\ \E r \in Offset : n = First(t) + r
              \/ /\ h = whdr[t] /\ h = header' /\ e = end_nonce[t]
                 /\ n = (nonce[t] + 1) % Word
    BY GetWorkParts
  <1>2. PICK x \in 0..e : max_nonce' = [max_nonce EXCEPT ![t] = x]
    BY <1>1
  <1>3. /\ header' \in 1..MaxHeader /\ header \in Nat /\ header <= header'
        /\ pc' = [pc EXCEPT ![t] = "scan"]
    BY GetWorkParts DEF TypeOK
  <1>4. /\ \A u \in Thread \ {t} : same'[u] = same[u]
        /\ \/ same'[t] = same[t] /\ nonce[t] < end_nonce[t] /\ header' = header
           \/ same'[t] = same[t] + 1 /\ header' = header
           \/ header' = header + 1
    BY RefillStep DEF GetWork
  <1>5. /\ nonce'[t] = n /\ whdr'[t] = h /\ end_nonce'[t] = e /\ max_nonce'[t] = x
        /\ pc'[t] = "scan" /\ pc[t] = "get"
    BY <1>1, <1>2, <1>3 DEF TypeOK, GetWork
  <1>6. \A u \in Thread \ {t} : Near(u)'
    <2> SUFFICES ASSUME NEW u \in Thread \ {t} PROVE Near(u)'
      OBVIOUS
    <2>1. UNCHANGED <<nonce[u], whdr[u], end_nonce[u], max_nonce[u], pc[u], same[u]>>
      BY <1>1, <1>2, <1>3, <1>4 DEF TypeOK
    <2>2. Near(u) /\ whdr[u] \in Nat
      BY DEF NearInv, TypeOK
    <2>3. whdr[u] <= header'
      BY <1>3, <2>2 DEF Near
    <2>4. QED
      BY <2>1, <2>2, <2>3 DEF Near, First, End, Range
  <1>7. h = header' /\ h # 0 /\ whdr[t] \in Nat /\ same[t] \in Nat
    BY <1>1, <1>3 DEF TypeOK
  <1>8. /\ e = End(t) /\ x <= End(t)
        /\ same'[t] = 0 => First(t) <= n /\ n <= First(t + 1) /\ n < Word - 1
    <2>1. CASE e = End(t) /\ \E r \in Offset : n = First(t) + r
      <3>1. PICK r \in Offset : n = First(t) + r
        BY <2>1
      <3>2. QED
        BY <1>2, <2>1, <3>1, OffsetInside
    <2>2. CASE h = whdr[t] /\ e = end_nonce[t] /\ n = (nonce[t] + 1) % Word
      <3>1. Near(t) /\ whdr[t] = header' /\ whdr[t] # 0 /\ e = End(t)
        BY <1>7, <2>2 DEF NearInv, Near
      <3>2. header' = header
        BY <1>3, <1>4, <3>1 DEF Near
      <3>3. ASSUME same'[t] = 0 PROVE First(t) <= n /\ n <= First(t + 1) /\ n < Word - 1
        <4>1. same[t] = 0 /\ nonce[t] < end_nonce[t] /\ nonce[t] \in Nat
          BY <1>3, <1>4, <1>7, <3>2, <3>3 DEF TypeOK
        <4>2. First(t) <= nonce[t] /\ nonce[t] + 1 <= End(t)
          BY <2>2, <3>1, <4>1 DEF Near
        <4>3. /\ First(t) \in Nat /\ End(t) \in Nat /\ End(t) + Reserve = First(t + 1)
              /\ First(t + 1) <= Word - 1
          BY Split
        <4>4. n = nonce[t] + 1
          <5>1. nonce[t] + 1 \in Nat /\ nonce[t] + 1 < Word /\ Word \in Nat \ {0}
            BY <4>1, <4>2, <4>3
          <5>2. (nonce[t] + 1) % Word = nonce[t] + 1
            BY <5>1
          <5>3. QED
            BY <2>2, <5>2
        <4>5. QED
          BY <4>1, <4>2, <4>3, <4>4
      <3>4. QED
        BY <1>2, <3>1, <3>3
    <2>3. QED
      BY <1>1, <2>1, <2>2
  <1>9. Near(t)'
    BY <1>3, <1>5, <1>7, <1>8 DEF Near, First, End, Range
  <1>10. QED
    BY <1>6, <1>9 DEF NearInv

\* A thread that scans stays near its range.
LEMMA ScanNear ==
    ASSUME TypeOK, NearInv, NEW t \in Thread,
           ScanOne(t) \/ ScanTwo(t) \/ ScanTail(t) \/ ScanNothing(t)
    PROVE NearInv'
  <1> USE NonceScanAssumption
  <1>1. PICK n \in 0..(Word - 1), p \in {"get", "scan"} :
           /\ nonce' = [nonce EXCEPT ![t] = n]
           /\ pc' = [pc EXCEPT ![t] = p]
           /\ \/ n = nonce[t] /\ p = "get"
              \/ n = (nonce[t] + 1) % Word /\ (p = "scan" => n < max_nonce[t])
              \/ /\ n \in {nonce[t] + 1, nonce[t] + 2}
                 /\ n <= max_nonce[t]
    BY ScanParts
  <1>2. UNCHANGED <<header, whdr, end_nonce, max_nonce, same>> /\ pc[t] = "scan"
    BY ScanParts DEF scanVars
  <1>3. nonce'[t] = n /\ pc'[t] = p
    BY <1>1 DEF TypeOK
  <1>4. \A u \in Thread \ {t} : Near(u)'
    BY <1>1, <1>2 DEF NearInv, Near, TypeOK, First, End, Range
  <1>5. /\ whdr[t] # 0 /\ whdr[t] <= header /\ end_nonce[t] = End(t) /\ max_nonce[t] <= End(t)
        /\ same[t] = 0 => First(t) <= nonce[t] /\ nonce[t] <= First(t + 1) /\ nonce[t] < Word - 1
    BY <1>2 DEF NearInv, Near
  <1>6. /\ nonce[t] \in Nat /\ max_nonce[t] \in Nat /\ First(t) \in Nat /\ End(t) \in Nat
        /\ End(t) < First(t + 1) /\ First(t + 1) <= Word - 1 /\ First(t + 1) \in Nat
    BY Split, RangeNat DEF TypeOK
  <1>7. ASSUME same[t] = 0
        PROVE First(t) <= n /\ (p = "scan" => n <= First(t + 1) /\ n < Word - 1)
    <2>1. (nonce[t] + 1) % Word = nonce[t] + 1
      BY <1>5, <1>6, <1>7
    <2>2. First(t) <= n /\ (p = "scan" => n <= max_nonce[t])
      BY <1>1, <1>5, <1>6, <1>7, <2>1
    <2>3. QED
      BY <1>5, <1>6, <2>2
  <1>8. Near(t)'
    BY <1>2, <1>3, <1>5, <1>7 DEF Near, First, End, Range
  <1>9. QED
    BY <1>4, <1>8 DEF NearInv

LEMMA NearStep == ASSUME Word % 4 # 1, TypeOK, NearInv, [Next]_vars PROVE NearInv'
  <1>1. CASE NewHeader
    <2>1. /\ UNCHANGED <<whdr, nonce, end_nonce, max_nonce, pc, same>>
          /\ header \in Nat /\ header' = header + 1
      BY <1>1, NonceScanAssumption DEF NewHeader, TypeOK
    <2>2. ASSUME NEW t \in Thread PROVE Near(t)'
      <3>1. whdr[t] \in Nat /\ Near(t)
        BY DEF TypeOK, NearInv
      <3>2. whdr[t] <= header'
        BY <2>1, <3>1 DEF Near
      <3>3. QED
        BY <2>1, <3>1, <3>2 DEF Near, First, End, Range
    <2>3. QED
      BY <2>2 DEF NearInv
  <1>2. CASE UNCHANGED vars
    BY <1>2 DEF vars, NearInv, Near, First, End, Range
  <1>3. CASE \E t \in Thread : ThreadStep(t)
    BY <1>3, GetWorkNear, ScanNear DEF ThreadStep
  <1>4. QED
    BY <1>1, <1>2, <1>3 DEF Next, OutOfHeaders

(* With --randomize (cpu-miner.c:2160) a thread hashes at most the first nonce of the
   next one, until a server repeats a used up header: the last nonce, 2^32 - 1, is no
   multiple of 4, so that no range begins there and none wraps. *)
THEOREM RandomClose == ASSUME Word % 4 # 1 PROVE Spec => []RandomStaysClose
  <1>1. TypeOK /\ NearInv => RandomStaysClose
    <2> SUFFICES ASSUME TypeOK, NearInv, NEW t \in Thread, pc[t] = "scan", same[t] = 0
                 PROVE First(t) <= nonce[t] /\ nonce[t] <= First(t + 1)
      BY DEF RandomStaysClose
    <2>1. QED
      BY DEF NearInv, Near
  <1>2. TypeOK /\ NearInv /\ [Next]_vars => NearInv'
    BY NearStep
  <1>3. QED
    BY <1>1, <1>2, NearInit, TypeCorrect, PTL DEF Spec

-----------------------------------------------------------------------------
(* A thread whose header did not change goes on with the next nonce (std_get_new_work,
   cpu-miner.c:2140): every algorithm but neuromorph, whose get_new_work has `or` for
   `and`. *)
THEOREM HeaderGoesOn ==
    ASSUME \A s \in Setting : s.algo # "neuromorph" PROVE Spec => SameHeaderGoesOn
  <1> DEFINE Goes(t) ==
        pc[t] = "get" /\ pc'[t] = "scan" /\ whdr[t] = header' /\ nonce[t] < end_nonce[t]
           => nonce'[t] = nonce[t] + 1
  <1>1. ASSUME TypeOK, [Next]_vars, NEW t \in Thread,
               pc[t] = "get", pc'[t] = "scan", whdr[t] = header', nonce[t] < end_nonce[t]
        PROVE nonce'[t] = nonce[t] + 1
    <2>1. pc \in [Thread -> {"get", "scan"}] /\ nonce \in [Thread -> 0..(Word - 1)]
      BY <1>1 DEF TypeOK
    <2>2. GetWork(t)
      <3>1. ASSUME NEW u \in Thread, ThreadStep(u) PROVE u = t /\ GetWork(t)
        <4>1. CASE GetWork(u)
          BY <1>1, <2>1, <4>1 DEF GetWork
        <4>2. CASE ScanOne(u) \/ ScanTwo(u) \/ ScanTail(u) \/ ScanNothing(u)
          BY <1>1, <2>1, <4>2 DEF ScanOne, ScanTwo, ScanTail, ScanNothing, Leave, Stay
        <4>3. QED
          BY <3>1, <4>1, <4>2 DEF ThreadStep
      <3>2. UNCHANGED pc \/ \E u \in Thread : ThreadStep(u)
        BY <1>1 DEF Next, NewHeader, OutOfHeaders, vars
      <3>3. QED
        BY <1>1, <3>1, <3>2
    <2>3. ~Resets(t)
      BY <1>1 DEF Resets, TypeOK
    <2>4. nonce'[t] = (nonce[t] + 1) % Word
      BY <2>1, <2>2, <2>3 DEF GetWork, get_new_work, NextNonce
    <2>5. /\ nonce[t] \in 0..(Word - 1) /\ end_nonce[t] \in 0..(Word - 1)
          /\ Word \in Nat \ {0}
      BY <1>1, NonceScanAssumption DEF TypeOK
    <2>6. nonce[t] + 1 \in Nat /\ nonce[t] + 1 < Word
      BY <1>1, <2>5
    <2>7. (nonce[t] + 1) % Word = nonce[t] + 1
      BY <2>5, <2>6
    <2>8. QED
      BY <2>4, <2>7
  <1>2. TypeOK /\ [Next]_vars => [\A t \in Thread : Goes(t)]_vars
    BY <1>1
  <1>3. QED
    BY <1>2, TypeCorrect, PTL DEF Spec, SameHeaderGoesOn
=============================================================================
