------------------------------ MODULE NonceScan ------------------------------
(***************************************************************************)
(* Which nonces the miner threads hash: the split of the 32-bit nonce      *)
(* space between opt_n_threads threads, get_new_work, the choice of        *)
(* max_nonce and the scan loops of the registered algorithms.              *)
(*                                                                         *)
(* One header is current at a time (g_work). A thread whose range is used  *)
(* up asks for other work: a stratum rebuild always gives another header,  *)
(* a getwork server may give the same one again.                           *)
(*                                                                         *)
(* The nonce arithmetic is the code's, with Word for 2^32 and Reserve for  *)
(* 0x20. How a nonce hashes is abstract: it meets the target or not. What  *)
(* happens to nonces is recorded for one of them under one header, chosen  *)
(* in the initial state and hence any: how often it is hashed and sent.    *)
(***************************************************************************)
EXTENDS Integers

CONSTANTS
    N,          \* opt_n_threads
    Word,       \* 2^32
    Reserve,    \* 0x20, kept free at the end of every range
    Setting,    \* the algorithms and values of opt_randomize to start with
    Scan,       \* the values max64 may take: nonces of one scan
    MaxHeader,  \* bound: headers in a behaviour
    MaxSame     \* bound: repetitions of a used up header by a server

ASSUME NonceScanAssumption ==
    /\ N \in Nat \ {0}
    /\ Word \in Nat \ {0}
    /\ Reserve \in Nat \ {0}
    /\ Reserve < (Word - 1) \div N
    /\ Setting \subseteq [algo : {"yespower", "civiclight", "neuromorph"},
                          randomize : BOOLEAN]
    /\ Scan \subseteq Nat \ {0}
    /\ MaxHeader \in Nat \ {0}
    /\ MaxSame \in Nat

VARIABLES
    setting,    \* how the program was started: one of Setting
    header,     \* the header of g_work; 0 is the zeroed work of a new thread
    whdr,       \* whdr[t]: the header of the copy of thread t
    nonce,      \* nonce[t]: the nonce field of that copy
    end_nonce,  \* end_nonce[t]
    max_nonce,  \* max_nonce[t], the bound of the current scan
    pc,         \* pc[t]: "get" or "scan"
    same,       \* same[t]: times thread t got its used up header again
    watch,      \* <<header, nonce>>: the nonce whose history is recorded
    times,      \* how often it was hashed (0, 1, or 2 for more)
    won,        \* it meets the target
    sent        \* how often it was submitted (0, 1, or 2 for more)

watchVars == <<watch, times, won, sent>>
vars == <<setting, header, whdr, nonce, end_nonce, max_nonce, pc, same, watchVars>>

Thread == 0..(N - 1)

(* 0xffffffffU / opt_n_threads *)
Range == (Word - 1) \div N
First(t) == Range * t

(* The end of a range: without a reserve, and as it is. *)
FullEnd(t) == Range * (t + 1)
End(t) == Range * (t + 1) - Reserve

(* ((rand() * 4) & UINT32_MAX) / opt_n_threads: a multiple of 4, divided. *)
WholeOffset == {4 * k : k \in {k \in 0..(Word - 1) : 4 * k < Word}}
Offset == IF setting.randomize /\ setting.algo # "neuromorph"
          THEN {(4 * k) \div N : k \in {k \in 0..(Word - 1) : 4 * k < Word}}
          ELSE {0}

Init ==
    /\ setting \in Setting
    /\ header = 1
    /\ whdr = [t \in Thread |-> 0]
    /\ nonce = [t \in Thread |-> 0]
    /\ end_nonce = [t \in Thread |-> 0]
    /\ max_nonce = [t \in Thread |-> 0]
    /\ pc = [t \in Thread |-> "get"]
    /\ same = [t \in Thread |-> 0]
    /\ watch \in (1..MaxHeader) \X (0..(Word - 1))
    /\ times = 0
    /\ won = FALSE
    /\ sent = 0

-----------------------------------------------------------------------------
\* A new job arrives.
NewHeader ==
    /\ header < MaxHeader
    /\ header' = header + 1
    /\ UNCHANGED <<setting, whdr, nonce, end_nonce, max_nonce, pc, same, watchVars>>

(* The range is used up: gen_work or get_work, under g_work_lock. *)
Refill(t) ==
    IF nonce[t] >= end_nonce[t]
    THEN \/ /\ header < MaxHeader
            /\ header' = header + 1
            /\ same' = [same EXCEPT ![t] = 0]
         \/ /\ same[t] < MaxSame
            /\ header' = header
            /\ same' = [same EXCEPT ![t] = @ + 1]
    ELSE UNCHANGED <<header, same>>

(* work->job_id # g_work->job_id compares pointers; each copy has its own. *)
JobIdDiffers == TRUE

(* std_get_new_work with `or` for `and`. *)
ResetsOnJobId(t) == whdr[t] # header' \/ nonce[t] >= end_nonce[t] \/ JobIdDiffers

(* Does get_new_work copy g_work and start the range of the thread again? *)
Resets(t) ==
    IF setting.algo = "neuromorph"
    THEN whdr[t] # header' \/ nonce[t] >= end_nonce[t] \/ JobIdDiffers
    ELSE whdr[t] # header' /\ (nonce[t] >= end_nonce[t] \/ JobIdDiffers)

(* The increment of the nonce: a nonce that was a share is not hashed again. *)
SameNonce(n) == n
NextNonce(n) == (n + 1) % Word

(* nonce[t] + max64, but at most the end of the range. *)
Unlimited(n, max64, end) == n + max64
Limit(n, max64, end) == IF n + max64 > end THEN end ELSE n + max64

get_new_work(t) ==
    \/ /\ Resets(t)
       /\ whdr' = [whdr EXCEPT ![t] = header']
       /\ \E r \in Offset : nonce' = [nonce EXCEPT ![t] = First(t) + r]
       /\ end_nonce' = [end_nonce EXCEPT ![t] = End(t)]
    \/ /\ ~Resets(t)
       /\ nonce' = [nonce EXCEPT ![t] = NextNonce(@)]
       /\ UNCHANGED <<whdr, end_nonce>>

\* One turn of the miner loop up to the call of scanhash.
GetWork(t) ==
    /\ pc[t] = "get"
    /\ Refill(t)
    /\ get_new_work(t)
    /\ \E max64 \in Scan :
          max_nonce' = [max_nonce EXCEPT ![t] = Limit(nonce'[t], max64, end_nonce'[t])]
    /\ pc' = [pc EXCEPT ![t] = "scan"]
    /\ UNCHANGED <<setting, watchVars>>

-----------------------------------------------------------------------------
(* scanhash. Thread t hashes the set `try` of nonces, `win` of them meet the
   target and are submitted: the recorded nonce as it did before. *)
More(n) == IF n = 0 THEN 1 ELSE 2

Hashes(t, try, win) ==
    /\ UNCHANGED watch
    /\ IF watch[1] = whdr[t] /\ watch[2] \in try
       THEN /\ times > 0 => (watch[2] \in win <=> won)
            /\ times' = More(times)
            /\ won' = (watch[2] \in win)
            /\ sent' = IF watch[2] \in win THEN More(sent) ELSE sent
       ELSE UNCHANGED <<times, won, sent>>

Leave(t, n) ==
    /\ pc' = [pc EXCEPT ![t] = "get"]
    /\ nonce' = [nonce EXCEPT ![t] = n]

Stay(t, n) ==
    /\ UNCHANGED pc
    /\ nonce' = [nonce EXCEPT ![t] = n]

scanVars == <<setting, header, whdr, end_nonce, max_nonce, same>>

(* do { hash(n); n++ } while (n < max_nonce && !restart): at least one hash.
   yespower leaves n, not hashed yet, in the work; neuromorph the last hashed. *)
ScanOne(t) ==
    LET n == nonce[t]
        next == (n + 1) % Word
    IN  /\ setting.algo # "civiclight"
        /\ pc[t] = "scan"
        /\ \/ Hashes(t, {n}, {n}) /\ Leave(t, n)
           \/ /\ Hashes(t, {n}, {})
              /\ \/ Leave(t, IF setting.algo = "neuromorph" THEN n ELSE next)
                 \/ next < max_nonce[t] /\ Stay(t, next)
        /\ UNCHANGED scanVars

(* The two-way loop of civiclight: two nonces at a time while two are left. One
   share leaves its nonce in the work, two are submitted in turn and leave the
   second. *)
ScanTwo(t) ==
    LET n == nonce[t]
    IN  /\ setting.algo = "civiclight"
        /\ pc[t] = "scan"
        /\ n + 2 <= max_nonce[t]
        /\ \E win \in SUBSET {n, n + 1} :
              /\ Hashes(t, {n, n + 1}, win)
              /\ \/ n + 1 \in win /\ Leave(t, n + 1)
                 \/ win = {n} /\ Leave(t, n)
                 \/ win = {} /\ (Stay(t, n + 2) \/ Leave(t, n + 2))
        /\ UNCHANGED scanVars

(* Its last odd nonce. *)
ScanTail(t) ==
    LET n == nonce[t]
    IN  /\ setting.algo = "civiclight"
        /\ pc[t] = "scan"
        /\ n + 1 = max_nonce[t]
        /\ \/ Hashes(t, {n}, {n}) /\ Leave(t, n)
           \/ Hashes(t, {n}, {}) /\ Leave(t, n + 1)
        /\ UNCHANGED scanVars

(* Nothing to scan, or a restart before the first pair. *)
ScanNothing(t) ==
    /\ setting.algo = "civiclight"
    /\ pc[t] = "scan"
    /\ Leave(t, nonce[t])
    /\ UNCHANGED <<scanVars, watchVars>>

ThreadStep(t) == GetWork(t) \/ ScanOne(t) \/ ScanTwo(t) \/ ScanTail(t) \/ ScanNothing(t)

(* The bounds on headers are used up: every thread waits for other work. *)
OutOfHeaders ==
    /\ header = MaxHeader
    /\ \A t \in Thread : pc[t] = "get" /\ nonce[t] >= end_nonce[t] /\ same[t] = MaxSame
    /\ UNCHANGED vars

Next == NewHeader \/ (\E t \in Thread : ThreadStep(t)) \/ OutOfHeaders

Spec == Init /\ [][Next]_vars

-----------------------------------------------------------------------------
(* Properties. *)

TypeOK ==
    /\ setting \in Setting
    /\ header \in 1..MaxHeader
    /\ whdr \in [Thread -> 0..MaxHeader]
    /\ nonce \in [Thread -> 0..(Word - 1)]
    /\ end_nonce \in [Thread -> 0..(Word - 1)]
    /\ max_nonce \in [Thread -> 0..(Word - 1)]
    /\ pc \in [Thread -> {"get", "scan"}]
    /\ same \in [Thread -> 0..MaxSame]
    /\ watch \in (1..MaxHeader) \X (0..(Word - 1))
    /\ times \in 0..2
    /\ won \in BOOLEAN
    /\ sent \in 0..2

(* A thread hashes only nonces of its own range, its reserve included: two
   threads never hash the same nonce of a header, even when a server repeats a
   header that is used up (std_get_new_work, nm_get_new_work, scanhash). *)
InOwnRange ==
    ~setting.randomize =>
        \A t \in Thread :
            pc[t] = "scan" => First(t) <= nonce[t] /\ nonce[t] < First(t + 1)

(* yespower hashes no nonce twice under a header, whatever scans are cut short. *)
NoNonceTwice == setting.algo = "yespower" /\ ~setting.randomize => times < 2

(* A share is sent to the pool once. civiclight may hash the second nonce of a
   pair again after the first one was a share; it cannot win then. *)
NoShareTwice ==
    setting.algo \in {"yespower", "civiclight"} /\ ~setting.randomize => sent < 2

(* With --randomize a range may start anywhere in the range of the thread, even
   past its end; nonces still never wrap, and reach at most the first nonce of
   the next thread, as long as the server gives other work for a used up range. *)
RandomStaysClose ==
    \A t \in Thread :
        pc[t] = "scan" /\ same[t] = 0 => First(t) <= nonce[t] /\ nonce[t] <= First(t + 1)

(* The comment on nm_get_new_work: it compares "only the pre-nonce bytes", so a
   thread goes on with the next nonce while the header is the same. *)
SameHeaderGoesOn ==
    [][\A t \in Thread :
          pc[t] = "get" /\ pc'[t] = "scan" /\ whdr[t] = header' /\ nonce[t] < end_nonce[t]
             => nonce'[t] = nonce[t] + 1]_vars
=============================================================================
