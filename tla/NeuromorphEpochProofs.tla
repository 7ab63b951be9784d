------------------------- MODULE NeuromorphEpochProofs -------------------------
(***************************************************************************)
(* Proofs about NeuromorphEpoch, for any number of miners, jobs, seeds and *)
(* heights: the epoch is whole outside nm_epoch_lock, a NULL dataset is    *)
(* read only in the three ways named there, and a miner copies a torn      *)
(* g_work only while the stratum thread copies it without the lock.        *)
(***************************************************************************)
EXTENDS NeuromorphEpoch, TLAPS

StratumPoint == {"login", "free", "decode_login", "decode", "store_login", "store",
                 "copy", "check", "lock", "gen", "gen_copy", "recv"}
MinerPoint   == {"lock", "gen", "gen_copy", "copy", "hash"} \cup EnsurePoint
WorkioPoint  == {"idle", "compare", "hash"} \cup EnsurePoint

Agent == Miner \cup {Stratum}

(* Every thread is at a point of its own loop. *)
PcInv ==
    /\ pc \in [Thread -> StratumPoint \cup MinerPoint \cup WorkioPoint]
    /\ pc[Stratum] \in StratumPoint
    /\ \A m \in Miner : pc[m] \in MinerPoint
    /\ pc[Workio] \in WorkioPoint

(* The jobs: what a thread hashes has a header. *)
JobInv ==
    /\ job \in 0..MaxJob /\ news \in 0..MaxJob
    /\ job_seed \in Seeds \cup {0}
    /\ pc[Stratum] \in {"decode_login", "decode", "store_login", "store"} => news \in JobId
    /\ g_work \in Work

WorkInv ==
    /\ work \in [Hasher -> Work]
    /\ queue \in Seq(Work)
    /\ found \in 0..MaxFound

FlagInv == connected \in BOOLEAN /\ g_time \in BOOLEAN /\ crashed \in BOOLEAN

(* Who holds g_work_lock: everyone who rebuilds g_work, and a miner that
   copies it. The stratum thread at "copy" does not. *)
Holds(t) == pc[t] \in {"gen", "gen_copy"} \/ (t # Stratum /\ pc[t] = "copy")

LockInv ==
    /\ g_lock \in Agent \cup {Free} /\ w_lock \in Agent \cup {Free}
    /\ \A t \in Agent : Holds(t) => g_lock = t

(* g_work is torn only while somebody is in work_copy. *)
TornInv ==
    \/ g_work.id = g_work.job
    \/ pc[Stratum] = "copy"
    \/ \E t \in Agent : pc[t] = "gen_copy"

(* nm_epoch_lock, and what holds at the points inside it. *)
EpochTypeOK ==
    /\ my_seed \in [Hasher -> Seeds \cup {0}]
    /\ epoch_lock \in Hasher \cup {Free}
    /\ nm_seed \in Seeds \cup {0} /\ params \in Seeds \cup {0} /\ buffer \in Seeds \cup {0}
    /\ built_for \in 0..MaxJob

InsideInv ==
    \A t \in Hasher :
        /\ pc[t] \in {"params", "build"} =>
              epoch_lock = t /\ nm_seed = my_seed[t] /\ built_for = work[t].job
        /\ pc[t] = "build" => params = nm_seed /\ allocated

BuiltInv == epoch_lock = Free /\ allocated /\ ~attached => ~DatasetNeeded(built_for)

CrashInv == crashed => ~attached

IInv ==
    /\ PcInv /\ JobInv /\ WorkInv /\ FlagInv /\ LockInv /\ TornInv
    /\ EpochTypeOK /\ attached \in BOOLEAN /\ allocated \in BOOLEAN
    /\ InsideInv /\ EpochWhole /\ BuiltInv /\ CrashInv

-----------------------------------------------------------------------------
(* Which actions change which variables. *)

LEMMA JobFrame ==
    ASSUME [Next]_vars
    PROVE  \/ UNCHANGED jobVars
           \/ LoginAnswered \/ JobReceived \/ DecodeSeed \/ DecodeWork \/ StratumRecv
  BY Zenon DEF Next, StratumStep, MinerStep, WorkioStep, Crashed, vars, LoginFailed, LoginFree,
     LoginCopy, StratumCheck, TakeGWork, GenBegin, GenEnd, MinerStart, MinerDecline, CopyWork,
     Ensure, ReadSeed, EpochCurrent, EpochChange, EpochParams, EpochBuild, MinerHash, HashCrash,
     WorkioPop, WorkioCompare, WorkioSend

LEMMA GWorkFrame ==
    ASSUME [Next]_vars
    PROVE  \/ g_work' = g_work
           \/ LoginFree \/ LoginCopy
           \/ \E t \in Agent : GenBegin(t) \/ GenEnd(t)
  BY Zenon DEF Next, StratumStep, MinerStep, WorkioStep, Crashed, vars, gVars, LoginFailed,
     LoginAnswered, JobReceived, DecodeSeed, DecodeWork, StratumRecv, StratumCheck, TakeGWork,
     MinerStart, MinerDecline, CopyWork, Agent,
     Ensure, ReadSeed, EpochCurrent, EpochChange, EpochParams, EpochBuild, MinerHash, HashCrash,
     WorkioPop, WorkioCompare, WorkioSend

LEMMA GLockFrame ==
    ASSUME [Next]_vars
    PROVE  \/ g_lock' = g_lock
           \/ \E t \in Agent : TakeGWork(t) \/ GenEnd(t)
           \/ \E m \in Miner : MinerStart(m) \/ MinerDecline(m)
  BY Zenon DEF Next, StratumStep, MinerStep, WorkioStep, Crashed, vars, gVars, LoginFailed,
     LoginAnswered, JobReceived, DecodeSeed, DecodeWork, StratumRecv, StratumCheck, LoginFree,
     LoginCopy, GenBegin, Agent,
     Ensure, ReadSeed, EpochCurrent, EpochChange, EpochParams, EpochBuild, MinerHash, HashCrash,
     WorkioPop, WorkioCompare, WorkioSend

LEMMA WLockFrame ==
    ASSUME [Next]_vars
    PROVE  \/ w_lock' = w_lock
           \/ LoginAnswered \/ JobReceived \/ DecodeWork
           \/ \E t \in Agent : GenBegin(t) \/ GenEnd(t)
  BY Zenon DEF Next, StratumStep, MinerStep, WorkioStep, Crashed, vars, gVars, LoginFailed,
     DecodeSeed, StratumRecv, StratumCheck, LoginFree, TakeGWork, MinerStart, MinerDecline,
     LoginCopy, CopyWork, Agent,
     Ensure, ReadSeed, EpochCurrent, EpochChange, EpochParams, EpochBuild, MinerHash, HashCrash,
     WorkioPop, WorkioCompare, WorkioSend

LEMMA WorkFrame ==
    ASSUME [Next]_vars
    PROVE  \/ work' = work
           \/ WorkioPop
           \/ \E m \in Miner : MinerStart(m) \/ MinerDecline(m)
  BY Zenon DEF Next, StratumStep, MinerStep, WorkioStep, Crashed, vars, gVars, LoginFailed,
     LoginAnswered, JobReceived, DecodeWork, GenBegin, GenEnd,
     DecodeSeed, StratumRecv, StratumCheck, LoginFree, TakeGWork,
     LoginCopy, CopyWork, Agent,
     Ensure, ReadSeed, EpochCurrent, EpochChange, EpochParams, EpochBuild, MinerHash, HashCrash,
     WorkioCompare, WorkioSend

LEMMA EpochFrame ==
    ASSUME [Next]_vars
    PROVE  \/ UNCHANGED <<my_seed, epochVars>>
           \/ \E t \in Hasher : Ensure(t)
  BY Zenon DEF Next, StratumStep, MinerStep, WorkioStep, Crashed, vars, gVars, LoginFailed,
     LoginAnswered, JobReceived, DecodeWork, GenBegin, GenEnd, MinerStart, MinerDecline,
     DecodeSeed, StratumRecv, StratumCheck, LoginFree, TakeGWork,
     LoginCopy, CopyWork, Hasher, MinerHash, HashCrash,
     WorkioPop, WorkioCompare, WorkioSend

LEMMA ShareFrame ==
    ASSUME [Next]_vars
    PROVE  UNCHANGED shareVars \/ WorkioPop \/ \E m \in Miner : MinerHash(m)
  BY Zenon DEF Next, StratumStep, MinerStep, WorkioStep, Crashed, vars, gVars, LoginFailed,
     LoginAnswered, JobReceived, DecodeWork, GenBegin, GenEnd, MinerStart, MinerDecline,
     DecodeSeed, StratumRecv, StratumCheck, LoginFree, TakeGWork, shareVars,
     LoginCopy, CopyWork, HashCrash, WorkioCompare, WorkioSend,
     Ensure, ReadSeed, EpochCurrent, EpochChange, EpochParams, EpochBuild

-----------------------------------------------------------------------------
(* Control points and locks. *)

LEMMA Names ==
    /\ Stratum \notin Hasher /\ Workio \notin Agent /\ Stratum # Workio
    /\ Free \notin Thread /\ Free \notin Agent /\ Free \notin Hasher
    /\ Agent \subseteq Thread /\ Hasher \subseteq Thread
  BY NeuromorphEpochAssumption DEF Hasher, Agent, Thread

LEMMA StratumMoves ==
    ASSUME StratumStep
    PROVE  \E p \in StratumPoint : pc' = [pc EXCEPT ![Stratum] = p]
  BY Names, NeuromorphEpochAssumption
  DEF StratumStep, Goto, StratumPoint, LoginFailed, LoginAnswered, JobReceived, DecodeSeed,
      DecodeWork, LoginFree, LoginCopy, StratumCheck, StratumRecv, TakeGWork, GenBegin, GenEnd

LEMMA EnsureMoves ==
    ASSUME NEW t \in Hasher, Ensure(t)
    PROVE  /\ pc[t] \in EnsurePoint
           /\ \E p \in EnsurePoint \cup {"hash"} : pc' = [pc EXCEPT ![t] = p]
  BY DEF Ensure, Goto, At, EnsurePoint, ReadSeed, EpochCurrent, EpochChange, EpochParams, EpochBuild

LEMMA MinerMoves ==
    ASSUME NEW m \in Miner, MinerStep(m)
    PROVE  pc' = pc \/ \E p \in MinerPoint : pc' = [pc EXCEPT ![m] = p]
  <1>1. m # Stratum /\ m \in Hasher
    BY NeuromorphEpochAssumption DEF Hasher
  <1>2. CASE Ensure(m)
    BY <1>1, <1>2, EnsureMoves DEF MinerPoint
  <1>3. CASE ~Ensure(m)
    BY <1>1, <1>3 DEF MinerStep, Goto, MinerPoint, EnsurePoint, TakeGWork, GenBegin, GenEnd,
       MinerStart, MinerDecline, MinerHash, HashCrash
  <1>4. QED
    BY <1>2, <1>3

LEMMA WorkioMoves ==
    ASSUME WorkioStep
    PROVE  pc' = pc \/ \E p \in WorkioPoint : pc' = [pc EXCEPT ![Workio] = p]
  <1>1. Workio \in Hasher
    BY DEF Hasher
  <1>2. CASE Ensure(Workio)
    BY <1>1, <1>2, EnsureMoves DEF WorkioPoint
  <1>3. CASE ~Ensure(Workio)
    BY <1>3 DEF WorkioStep, Goto, WorkioPoint, EnsurePoint, WorkioPop, WorkioCompare, WorkioSend,
       HashCrash
  <1>4. QED
    BY <1>2, <1>3

LEMMA PcStep == ASSUME PcInv, [Next]_vars PROVE PcInv'
  <1> USE NeuromorphEpochAssumption DEF PcInv, Thread, Hasher
  <1>1. CASE UNCHANGED vars \/ Crashed
    BY <1>1 DEF vars, Crashed
  <1>2. CASE StratumStep
    BY <1>2, StratumMoves
  <1>3. ASSUME NEW m \in Miner, MinerStep(m) PROVE PcInv'
    BY <1>3, MinerMoves
  <1>4. CASE WorkioStep
    BY <1>4, WorkioMoves
  <1>5. QED
    BY <1>1, <1>2, <1>3, <1>4 DEF Next

\* Only the steps that take g_work_lock bring a thread to a point that needs it.
LEMMA HoldsFrame ==
    ASSUME PcInv, [Next]_vars, NEW u \in Agent, Holds(u)'
    PROVE  Holds(u) \/ TakeGWork(u)
  <1> USE NeuromorphEpochAssumption DEF PcInv, Thread, Hasher, Agent, Holds
  <1>1. CASE UNCHANGED vars \/ Crashed
    BY <1>1 DEF vars, Crashed
  <1>2. CASE StratumStep
    <2>1. CASE u # Stratum
      BY <1>2, <2>1, StratumMoves
    <2>2. CASE u = Stratum
      BY <1>2, <2>2
      DEF StratumStep, Goto, At, LoginFailed, LoginAnswered, JobReceived, DecodeSeed,
          DecodeWork, LoginFree, LoginCopy, StratumCheck, StratumRecv, GenBegin, GenEnd
    <2>3. QED
      BY <2>1, <2>2
  <1>3. ASSUME NEW m \in Miner, MinerStep(m) PROVE Holds(u) \/ TakeGWork(u)
    <2>1. CASE u # m
      BY <1>3, <2>1, MinerMoves
    <2>2. CASE u = m /\ Ensure(m)
      BY <2>2, EnsureMoves DEF EnsurePoint
    <2>3. CASE u = m /\ ~Ensure(m)
      BY <1>3, <2>3 DEF MinerStep, Goto, At, GenBegin, GenEnd, MinerStart, MinerDecline, MinerHash,
         HashCrash
    <2>4. QED
      BY <2>1, <2>2, <2>3
  <1>4. CASE WorkioStep
    BY <1>4, WorkioMoves
  <1>5. QED
    BY <1>1, <1>2, <1>3, <1>4 DEF Next

LEMMA LockStep == ASSUME PcInv, LockInv, [Next]_vars PROVE LockInv'
  <1> USE Names DEF PcInv, Agent
  <1>1. w_lock' \in Agent \cup {Free}
    BY WLockFrame DEF LockInv, LoginAnswered, JobReceived, DecodeWork, GenBegin, GenEnd
  <1>2. ASSUME NEW t \in Agent, TakeGWork(t) PROVE g_lock' \in Agent \cup {Free}
               /\ \A u \in Agent : Holds(u)' => g_lock' = u
    <2>1. g_lock = Free /\ g_lock' = t /\ pc' = [pc EXCEPT ![t] = pc'[t]]
      BY <1>2 DEF TakeGWork, Goto
    <2>2. \A u \in Agent : ~Holds(u)
      BY <2>1 DEF LockInv
    <2>3. \A u \in Agent : u # t => ~Holds(u)'
      BY <2>1, <2>2 DEF Holds
    <2>4. QED
      BY <2>1, <2>3
  <1>3. ASSUME NEW t \in Agent, GenEnd(t) PROVE g_lock' \in Agent \cup {Free}
               /\ \A u \in Agent : Holds(u)' => g_lock' = u
    <2>1. g_lock = t /\ pc[t] = "gen_copy"
      BY <1>3 DEF GenEnd, At, LockInv, Holds
    <2>2. \A u \in Agent : Holds(u)' => u = t
      <3>1. \A u \in Agent : ~TakeGWork(u) \/ u = t
        BY <2>1 DEF TakeGWork
      <3>2. QED
        BY <2>1, <3>1, HoldsFrame DEF LockInv
    <2>3. CASE t = Stratum
      <3>1. g_lock' = Free /\ pc'[t] = "recv"
        BY <1>3, <2>3 DEF GenEnd, Goto, Thread
      <3>2. QED
        BY <2>2, <2>3, <3>1 DEF Holds
    <2>4. CASE t # Stratum
      BY <1>3, <2>1, <2>2, <2>4 DEF GenEnd
    <2>5. QED
      BY <2>3, <2>4
  <1>4. ASSUME NEW m \in Miner, MinerStart(m) \/ MinerDecline(m)
        PROVE  g_lock' \in Agent \cup {Free} /\ \A u \in Agent : Holds(u)' => g_lock' = u
    <2>1. pc[m] = "copy" /\ g_lock' = Free /\ pc'[m] \in {"seed", "lock"} /\ m # Stratum
      BY <1>4, NeuromorphEpochAssumption DEF MinerStart, MinerDecline, CopyWork, At, Goto, Thread, Hasher
    <2>2. g_lock = m
      BY <2>1 DEF LockInv, Holds
    <2>3. \A u \in Agent : Holds(u)' => u = m
      <3>1. \A u \in Agent : ~TakeGWork(u)
        BY <2>2 DEF TakeGWork
      <3>2. QED
        BY <2>2, <3>1, HoldsFrame DEF LockInv
    <2>4. ~Holds(m)'
      BY <2>1 DEF Holds
    <2>5. QED
      BY <2>1, <2>3, <2>4
  <1>5. CASE g_lock' = g_lock /\ \A u \in Agent : ~TakeGWork(u)
    BY <1>1, <1>5, HoldsFrame DEF LockInv
  <1>6. QED
    BY <1>1, <1>2, <1>3, <1>4, <1>5, GLockFrame DEF LockInv

-----------------------------------------------------------------------------
(* Jobs, works and shares. *)

LEMMA JobIds == MaxJob \in Nat /\ 0 \in 0..MaxJob /\ JobId \subseteq 0..MaxJob
  <1>1. MaxJob \in Nat
    BY NeuromorphEpochAssumption, Zenon
  <1>2. QED
    BY <1>1 DEF JobId

LEMMA JobStep == ASSUME PcInv, JobInv, [Next]_vars PROVE JobInv'
  <1> USE DEF JobInv
  <1>1. g_work' \in Work
    <2>1. g_work.job \in 0..MaxJob /\ job \in 0..MaxJob /\ 0 \in 0..MaxJob
      BY JobIds DEF Work
    <2>2. CASE BeginCopy
      <3>1. PICK j \in {g_work.job, job} : g_work' = [job |-> j, id |-> 0]
        BY <2>2 DEF BeginCopy
      <3>2. QED
        BY <2>1, <3>1 DEF Work
    <2>3. CASE EndCopy
      BY <2>1, <2>3 DEF EndCopy, Work
    <2>4. BeginCopy \/ EndCopy \/ g_work' = g_work
      BY GWorkFrame, Zenon DEF LoginFree, LoginCopy, GenBegin, GenEnd
    <2>5. QED
      BY <2>2, <2>3, <2>4
  <1>2. CASE LoginAnswered
    <2>1. news' \in JobId /\ job' = job /\ job_seed' = job_seed
      BY <1>2, Zenon DEF LoginAnswered
    <2>2. QED
      BY <1>1, <2>1, JobIds
  <1>3. CASE JobReceived
    <2>1. news' \in JobId /\ job' = job /\ job_seed' = job_seed
      BY <1>3, Zenon DEF JobReceived
    <2>2. QED
      BY <1>1, <2>1, JobIds
  <1>4. CASE DecodeSeed
    BY <1>1, <1>4 DEF DecodeSeed, Goto, Seeds
  <1>5. CASE DecodeWork
    BY <1>1, <1>5 DEF DecodeWork, Goto, PcInv, Thread
  <1>6. CASE StratumRecv
    BY <1>1, <1>6 DEF StratumRecv, Goto, PcInv, Thread
  <1>7. CASE UNCHANGED jobVars
    <2>1. pc'[Stratum] \in {"decode_login", "decode", "store_login", "store"}
            => LoginAnswered \/ JobReceived \/ DecodeSeed \/ pc'[Stratum] = pc[Stratum]
      <3>1. CASE StratumStep
        BY <3>1 DEF StratumStep, LoginFailed, DecodeWork, LoginFree, LoginCopy, StratumCheck,
           StratumRecv, TakeGWork, GenBegin, GenEnd, Goto, PcInv, Thread
      <3>2. CASE ~StratumStep
        <4>1. ASSUME NEW m \in Miner, MinerStep(m) PROVE pc'[Stratum] = pc[Stratum]
          BY <4>1, MinerMoves, NeuromorphEpochAssumption DEF PcInv, Thread, Hasher
        <4>2. CASE WorkioStep
          BY <4>2, WorkioMoves, NeuromorphEpochAssumption DEF PcInv, Thread, Hasher
        <4>3. CASE UNCHANGED vars
          BY <4>3 DEF vars
        <4>4. QED
          BY <3>2, <4>1, <4>2, <4>3, Zenon DEF Next, Crashed
      <3>3. QED
        BY <3>1, <3>2
    <2>2. QED
      BY <1>1, <1>2, <1>3, <1>4, <1>7, <2>1 DEF jobVars
  <1>8. QED
    BY <1>2, <1>3, <1>4, <1>5, <1>6, <1>7, JobFrame

LEMMA WorkStep == ASSUME JobInv, WorkInv, [Next]_vars PROVE WorkInv'
  <1> USE NeuromorphEpochAssumption
  <1>1. work' \in [Hasher -> Work]
    <2>1. CASE WorkioPop
      <3>1. Head(queue) \in Work
        BY <2>1 DEF WorkioPop, WorkInv
      <3>2. QED
        BY <2>1, <3>1 DEF WorkioPop, WorkInv
    <2>2. ASSUME NEW m \in Miner, MinerStart(m) \/ MinerDecline(m) PROVE work' \in [Hasher -> Work]
      BY <2>2 DEF MinerStart, MinerDecline, CopyWork, WorkInv, JobInv
    <2>3. QED
      BY <2>1, <2>2, WorkFrame DEF WorkInv
  <1>2. queue' \in Seq(Work) /\ found' \in 0..MaxFound
    <2>1. CASE UNCHANGED shareVars
      BY <2>1 DEF shareVars, WorkInv
    <2>2. CASE WorkioPop
      BY <2>2 DEF WorkioPop, WorkInv
    <2>3. ASSUME NEW m \in Miner, MinerHash(m) PROVE queue' \in Seq(Work) /\ found' \in 0..MaxFound
      <3>1. work[m] \in Work
        BY DEF WorkInv, Hasher
      <3>2. CASE UNCHANGED shareVars
        BY <3>2 DEF shareVars, WorkInv
      <3>3. CASE found < MaxFound /\ found' = found + 1 /\ queue' = Append(queue, work[m])
        BY <3>1, <3>3 DEF WorkInv
      <3>4. QED
        BY <2>3, <3>2, <3>3, Zenon DEF MinerHash
    <2>4. QED
      BY <2>1, <2>2, <2>3, ShareFrame
  <1>3. QED
    BY <1>1, <1>2 DEF WorkInv

LEMMA FlagStep == ASSUME FlagInv, [Next]_vars PROVE FlagInv'
  <1>1. connected' \in BOOLEAN
    BY JobFrame, Zenon DEF FlagInv, jobVars, LoginAnswered, JobReceived, DecodeSeed, DecodeWork,
       StratumRecv
  <1>2. g_time' \in BOOLEAN
    BY Zenon DEF FlagInv, Next, StratumStep, MinerStep, WorkioStep, Crashed, vars, gVars, LoginFailed,
       LoginAnswered, JobReceived, DecodeSeed, DecodeWork, StratumRecv, StratumCheck, LoginFree,
       LoginCopy, TakeGWork, GenBegin, GenEnd, MinerStart, MinerDecline, CopyWork,
       Ensure, ReadSeed, EpochCurrent, EpochChange, EpochParams, EpochBuild, MinerHash, HashCrash,
       WorkioPop, WorkioCompare, WorkioSend
  <1>3. crashed' = crashed \/ crashed' = TRUE
    BY Zenon DEF Next, StratumStep, MinerStep, WorkioStep, Crashed, vars, LoginFailed,
       LoginAnswered, JobReceived, DecodeSeed, DecodeWork, StratumRecv, StratumCheck, LoginFree,
       LoginCopy, TakeGWork, GenBegin, GenEnd, MinerStart, MinerDecline, CopyWork,
       Ensure, ReadSeed, EpochCurrent, EpochChange, EpochParams, EpochBuild, MinerHash, HashCrash,
       WorkioPop, WorkioCompare, WorkioSend
  <1>4. QED
    BY <1>1, <1>2, <1>3 DEF FlagInv

\* Both copies of sctx->work end whole.
LEMMA TornStep == ASSUME PcInv, TornInv, [Next]_vars PROVE TornInv'
  <1> USE NeuromorphEpochAssumption DEF PcInv, Thread, Hasher, Agent
  <1>1. CASE LoginFree
    BY <1>1 DEF LoginFree, TornInv, Goto
  <1>2. CASE LoginCopy
    BY <1>2 DEF LoginCopy, EndCopy, TornInv
  <1>3. ASSUME NEW t \in Agent, GenBegin(t) PROVE TornInv'
    BY <1>3 DEF GenBegin, TornInv, Goto
  <1>4. ASSUME NEW t \in Agent, GenEnd(t) PROVE TornInv'
    BY <1>4 DEF GenEnd, EndCopy, TornInv
  <1>5. CASE g_work' = g_work /\ ~LoginCopy /\ \A t \in Agent : ~GenEnd(t)
    <2>1. pc[Stratum] = "copy" => pc'[Stratum] = "copy"
      <3>1. CASE StratumStep
        BY <1>5, <3>1 DEF StratumStep, At, LoginFailed, LoginAnswered, JobReceived, DecodeSeed,
           DecodeWork, LoginFree, StratumCheck, StratumRecv, TakeGWork, GenBegin, GenEnd
      <3>2. CASE ~StratumStep
        BY <3>2, MinerMoves, WorkioMoves DEF Next, vars, Crashed
      <3>3. QED
        BY <3>1, <3>2
    <2>2. ASSUME NEW u \in Agent, pc[u] = "gen_copy" PROVE pc'[u] = "gen_copy"
      <3>1. CASE StratumStep
        <4>1. CASE u = Stratum
          BY <1>5, <2>2, <3>1, <4>1
          DEF StratumStep, At, LoginFailed, LoginAnswered, JobReceived, DecodeSeed,
              DecodeWork, LoginFree, StratumCheck, StratumRecv, TakeGWork, GenBegin
        <4>2. CASE u # Stratum
          BY <2>2, <3>1, <4>2, StratumMoves
        <4>3. QED
          BY <4>1, <4>2
      <3>2. ASSUME NEW m \in Miner, MinerStep(m) PROVE pc'[u] = "gen_copy"
        <4>1. CASE u # m
          BY <2>2, <3>2, <4>1, MinerMoves
        <4>2. CASE u = m /\ ~Ensure(m)
          BY <1>5, <2>2, <3>2, <4>2 DEF MinerStep, At, TakeGWork, GenBegin, MinerStart, MinerDecline,
             CopyWork, MinerHash, HashCrash
        <4>3. CASE u = m /\ Ensure(m)
          BY <2>2, <4>3, EnsureMoves DEF EnsurePoint
        <4>4. QED
          BY <4>1, <4>2, <4>3
      <3>3. CASE WorkioStep
        BY <2>2, <3>3, WorkioMoves
      <3>4. CASE UNCHANGED vars \/ Crashed
        BY <2>2, <3>4 DEF vars, Crashed
      <3>5. QED
        BY <3>1, <3>2, <3>3, <3>4 DEF Next
    <2>3. QED
      BY <1>5, <2>1, <2>2 DEF TornInv
  <1>6. QED
    BY <1>1, <1>2, <1>3, <1>4, <1>5, GWorkFrame

-----------------------------------------------------------------------------
(* The epoch. *)

\* A thread inside nm_epoch_lock is not disturbed by the others.
LEMMA InsideFrame ==
    ASSUME PcInv, WorkInv, [Next]_vars, NEW t \in Hasher, ~Ensure(t)
    PROVE  /\ pc'[t] \in {"params", "build"} => pc[t] = pc'[t]
           /\ pc[t] \in {"params", "build"} => pc'[t] = pc[t] /\ work'[t] = work[t]
  <1> USE NeuromorphEpochAssumption DEF PcInv, Thread, Hasher
  <1>0. work \in [Hasher -> Work]
    BY DEF WorkInv
  <1>1. CASE UNCHANGED vars \/ Crashed
    BY <1>1 DEF vars, Crashed
  <1>2. CASE StratumStep
    <2>1. t # Stratum
      OBVIOUS
    <2>2. work' = work
      BY <1>2 DEF StratumStep, LoginFailed, LoginAnswered, JobReceived, DecodeSeed,
         DecodeWork, LoginFree, LoginCopy, StratumCheck, StratumRecv, TakeGWork, GenBegin, GenEnd
    <2>3. QED
      BY <1>2, <2>1, <2>2, StratumMoves
  <1>3. ASSUME NEW m \in Miner, MinerStep(m)
        PROVE  /\ pc'[t] \in {"params", "build"} => pc[t] = pc'[t]
               /\ pc[t] \in {"params", "build"} => pc'[t] = pc[t] /\ work'[t] = work[t]
    <2>1. CASE t = m
      BY <1>3, <2>1 DEF MinerStep, At, Goto, TakeGWork, GenBegin, GenEnd, MinerStart, MinerDecline,
         CopyWork, MinerHash, HashCrash
    <2>2. CASE t # m
      <3>1. work'[t] = work[t]
        BY <1>0, <1>3, <2>2 DEF MinerStep, TakeGWork, GenBegin, GenEnd, MinerStart, MinerDecline,
           CopyWork, MinerHash, HashCrash, Ensure, ReadSeed, EpochCurrent, EpochChange,
           EpochParams, EpochBuild
      <3>2. QED
        BY <1>3, <2>2, <3>1, MinerMoves
    <2>3. QED
      BY <2>1, <2>2
  <1>4. CASE WorkioStep
    <2>1. CASE t = Workio
      BY <1>4, <2>1 DEF WorkioStep, At, Goto, WorkioPop, WorkioCompare, WorkioSend, HashCrash
    <2>2. CASE t # Workio
      <3>1. work'[t] = work[t]
        BY <1>0, <1>4, <2>2 DEF WorkioStep, WorkioPop, WorkioCompare, WorkioSend, HashCrash, Ensure,
           ReadSeed, EpochCurrent, EpochChange, EpochParams, EpochBuild
      <3>2. QED
        BY <1>4, <2>2, <3>1, WorkioMoves
    <2>3. QED
      BY <2>1, <2>2
  <1>5. QED
    BY <1>1, <1>2, <1>3, <1>4 DEF Next

LEMMA EnsureMoveOnly ==
    ASSUME PcInv, NEW t \in Hasher, Ensure(t), NEW u \in Hasher, u # t
    PROVE  pc'[u] = pc[u] /\ work' = work
  <1>1. work' = work
    BY DEF Ensure, ReadSeed, EpochCurrent, EpochChange, EpochParams, EpochBuild
  <1>2. QED
    BY <1>1, EnsureMoves DEF PcInv, Thread, Hasher

(* What nm_ensure_epoch keeps. *)
EpochInv == EpochTypeOK /\ attached \in BOOLEAN /\ allocated \in BOOLEAN
            /\ InsideInv /\ EpochWhole /\ BuiltInv

LEMMA EnsureStep ==
    ASSUME PcInv, JobInv, WorkInv, EpochInv, NEW t \in Hasher, Ensure(t)
    PROVE  EpochInv'
  <1>1. /\ t # Free /\ work[t].job \in 0..MaxJob /\ work' = work
        /\ my_seed[t] \in Seeds \cup {0} /\ job_seed \in Seeds \cup {0}
    <2>1. work[t] \in Work
      BY DEF WorkInv
    <2>2. work' = work
      BY DEF Ensure, ReadSeed, EpochCurrent, EpochChange, EpochParams, EpochBuild
    <2>3. my_seed[t] \in Seeds \cup {0} /\ job_seed \in Seeds \cup {0}
      BY DEF EpochInv, EpochTypeOK, JobInv
    <2>4. QED
      BY <2>1, <2>2, <2>3, Names DEF Work
  <1>2. \A u \in Hasher : u # t => pc'[u] = pc[u]
    BY EnsureMoveOnly
  <1>3. ASSUME NEW to, Goto(t, to) PROVE pc'[t] = to
    BY <1>3 DEF Goto, PcInv, Thread, Hasher
  <1>4. CASE ReadSeed(t)
    <2>1. pc'[t] = "ensure" /\ my_seed' = [my_seed EXCEPT ![t] = job_seed] /\ UNCHANGED epochVars
      BY <1>3, <1>4 DEF ReadSeed
    <2>2. my_seed' \in [Hasher -> Seeds \cup {0}] /\ \A u \in Hasher : u # t => my_seed'[u] = my_seed[u]
      BY <1>1, <2>1 DEF EpochInv, EpochTypeOK
    <2>3. EpochTypeOK' /\ EpochWhole' /\ BuiltInv' /\ attached' \in BOOLEAN /\ allocated' \in BOOLEAN
      BY <2>1, <2>2, Zenon DEF EpochInv, EpochTypeOK, EpochWhole, BuiltInv, epochVars, DatasetNeeded
    <2>4. InsideInv'
      BY <1>1, <1>2, <2>1, <2>2, Zenon DEF EpochInv, InsideInv, epochVars
    <2>5. QED
      BY <2>3, <2>4 DEF EpochInv
  <1>5. CASE EpochCurrent(t)
    <2>1. pc'[t] = "hash" /\ UNCHANGED <<my_seed, epochVars>>
      BY <1>3, <1>5 DEF EpochCurrent
    <2>2. QED
      BY <1>1, <1>2, <2>1, Zenon
      DEF EpochInv, EpochTypeOK, EpochWhole, BuiltInv, InsideInv, epochVars, DatasetNeeded
  <1>6. CASE EpochChange(t)
    <2>1. /\ pc'[t] = "params" /\ epoch_lock = Free /\ epoch_lock' = t /\ nm_seed' = my_seed[t]
          /\ params' = 0 /\ built_for' = work[t].job
          /\ UNCHANGED <<my_seed, attached, buffer, allocated>>
      BY <1>3, <1>6 DEF EpochChange
    <2>2. \A u \in Hasher : pc[u] \notin {"params", "build"}
      BY <2>1, Names DEF EpochInv, InsideInv
    <2>3. EpochTypeOK' /\ attached' \in BOOLEAN /\ allocated' \in BOOLEAN
      BY <1>1, <2>1 DEF EpochInv, EpochTypeOK
    <2>4. InsideInv'
      BY <1>1, <1>2, <2>1, <2>2 DEF InsideInv
    <2>5. EpochWhole' /\ BuiltInv'
      BY <1>1, <2>1 DEF EpochWhole, BuiltInv
    <2>6. QED
      BY <2>3, <2>4, <2>5 DEF EpochInv
  <1>7. CASE EpochParams(t)
    <2>1. /\ pc[t] = "params" /\ params' = my_seed[t] /\ attached' = FALSE
          /\ UNCHANGED <<my_seed, nm_seed, built_for>>
      BY <1>7 DEF EpochParams, At
    <2>2. epoch_lock = t /\ nm_seed = my_seed[t] /\ built_for = work[t].job
      BY <2>1 DEF EpochInv, InsideInv
    <2>3. \A u \in Hasher : u # t => pc'[u] \notin {"params", "build"}
      BY <1>2, <2>2 DEF EpochInv, InsideInv
    <2>4. CASE pc'[t] = "build"
      <3>1. allocated' = TRUE /\ buffer' = 0 /\ epoch_lock' = epoch_lock
        BY <1>3, <1>7, <2>4 DEF EpochParams
      <3>2. EpochTypeOK' /\ attached' \in BOOLEAN /\ allocated' \in BOOLEAN
        BY <1>1, <2>1, <3>1 DEF EpochInv, EpochTypeOK
      <3>3. InsideInv'
        BY <1>1, <2>1, <2>2, <2>3, <3>1 DEF InsideInv
      <3>4. EpochWhole' /\ BuiltInv'
        BY <1>1, <2>2, <3>1 DEF EpochWhole, BuiltInv
      <3>5. QED
        BY <3>2, <3>3, <3>4 DEF EpochInv
    <2>5. CASE pc'[t] # "build"
      <3>1. /\ pc'[t] = "hash" /\ epoch_lock' = Free /\ allocated' = allocated /\ buffer' = buffer
            /\ DatasetNeeded(work[t].job) => ~allocated
        BY <1>3, <1>7, <2>5 DEF EpochParams
      <3>2. EpochTypeOK' /\ attached' \in BOOLEAN /\ allocated' \in BOOLEAN
        BY <1>1, <2>1, <3>1 DEF EpochInv, EpochTypeOK
      <3>3. InsideInv'
        BY <2>3, <3>1 DEF InsideInv
      <3>4. EpochWhole'
        BY <2>1, <2>2, <3>1 DEF EpochWhole
      <3>5. BuiltInv'
        BY <2>1, <2>2, <3>1, Zenon DEF BuiltInv, DatasetNeeded
      <3>6. QED
        BY <3>2, <3>3, <3>4, <3>5 DEF EpochInv
    <2>6. QED
      BY <2>4, <2>5
  <1>8. CASE EpochBuild(t)
    <2>1. /\ pc[t] = "build" /\ pc'[t] = "hash" /\ buffer' = params /\ attached' = TRUE
          /\ epoch_lock' = Free /\ UNCHANGED <<my_seed, nm_seed, params, allocated, built_for>>
      BY <1>3, <1>8 DEF EpochBuild, At
    <2>2. epoch_lock = t /\ params = nm_seed /\ allocated
      BY <2>1 DEF EpochInv, InsideInv
    <2>3. \A u \in Hasher : pc'[u] \notin {"params", "build"}
      BY <1>2, <2>1, <2>2 DEF EpochInv, InsideInv
    <2>4. EpochTypeOK' /\ attached' \in BOOLEAN /\ allocated' \in BOOLEAN
      BY <2>1 DEF EpochInv, EpochTypeOK
    <2>5. InsideInv' /\ BuiltInv'
      BY <2>1, <2>3 DEF InsideInv, BuiltInv
    <2>6. EpochWhole'
      BY <2>1, <2>2, Zenon DEF EpochWhole
    <2>7. QED
      BY <2>4, <2>5, <2>6 DEF EpochInv
  <1>9. QED
    BY <1>4, <1>5, <1>6, <1>7, <1>8 DEF Ensure

LEMMA EpochStep == ASSUME PcInv, JobInv, WorkInv, EpochInv, [Next]_vars PROVE EpochInv'
  <1>1. ASSUME NEW t \in Hasher, Ensure(t) PROVE EpochInv'
    BY <1>1, EnsureStep
  <1>2. CASE \A t \in Hasher : ~Ensure(t)
    <2>1. UNCHANGED <<my_seed, epochVars>>
      BY <1>2, EpochFrame
    <2>2. InsideInv'
      BY <1>2, <2>1, InsideFrame, Zenon DEF EpochInv, InsideInv, epochVars
    <2>3. QED
      BY <2>1, <2>2, Zenon DEF EpochInv, EpochTypeOK, EpochWhole, BuiltInv, epochVars, DatasetNeeded
  <1>3. QED
    BY <1>1, <1>2

\* Nothing moves after a crash.
LEMMA CrashStep == ASSUME CrashInv, [Next]_vars PROVE CrashInv'
  <1>1. CASE crashed
    <2>1. UNCHANGED vars
      BY <1>1, Zenon DEF Next, StratumStep, MinerStep, WorkioStep, Crashed, At, vars, LoginFailed,
         LoginAnswered, JobReceived, DecodeSeed, DecodeWork, StratumRecv, StratumCheck, LoginFree,
         LoginCopy, TakeGWork, GenBegin, GenEnd, MinerStart, MinerDecline, CopyWork,
         Ensure, ReadSeed, EpochCurrent, EpochChange, EpochParams, EpochBuild, MinerHash, HashCrash,
         WorkioPop, WorkioCompare, WorkioSend
    <2>2. QED
      BY <2>1, Zenon DEF CrashInv, vars, epochVars
  <1>2. CASE ~crashed
    <2>1. ~crashed' \/ \E t \in Hasher : HashCrash(t)
      BY <1>2, Zenon DEF Next, StratumStep, MinerStep, WorkioStep, Crashed, vars, LoginFailed,
         LoginAnswered, JobReceived, DecodeSeed, DecodeWork, StratumRecv, StratumCheck, LoginFree,
         LoginCopy, TakeGWork, GenBegin, GenEnd, MinerStart, MinerDecline, CopyWork, Hasher,
         Ensure, ReadSeed, EpochCurrent, EpochChange, EpochParams, EpochBuild, MinerHash,
         WorkioPop, WorkioCompare, WorkioSend
    <2>2. ASSUME NEW t \in Hasher, HashCrash(t) PROVE CrashInv'
      BY <2>2, Zenon DEF HashCrash, CanHash, CrashInv, epochVars
    <2>3. QED
      BY <2>1, <2>2 DEF CrashInv
  <1>3. QED
    BY <1>1, <1>2

-----------------------------------------------------------------------------
(* The theorems. *)

LEMMA Start == Init => IInv
  <1> SUFFICES ASSUME Init PROVE IInv
    OBVIOUS
  <1>1. PcInv
    BY Names, NeuromorphEpochAssumption
    DEF Init, PcInv, Thread, Hasher, StratumPoint, MinerPoint, WorkioPoint, EnsurePoint
  <1>2. JobInv /\ WorkInv
    <2>1. NoWork \in Work /\ 0 \in 0..MaxFound /\ pc[Stratum] = "login"
      BY JobIds, NeuromorphEpochAssumption DEF NoWork, Work, Init, Thread
    <2>2. JobInv
      BY <2>1, JobIds DEF Init, JobInv
    <2>3. <<>> \in Seq(Work)
      OBVIOUS
    <2>4. work \in [Hasher -> Work]
      BY <2>1 DEF Init
    <2>5. QED
      BY <2>1, <2>2, <2>3, <2>4, Zenon DEF Init, WorkInv
  <1>3. LockInv
    BY <1>1, NeuromorphEpochAssumption DEF Init, LockInv, Holds, Agent, Thread, Hasher
  <1>4. TornInv /\ FlagInv
    BY DEF Init, TornInv, FlagInv, NoWork
  <1>5. EpochTypeOK /\ attached \in BOOLEAN /\ allocated \in BOOLEAN
    BY JobIds DEF Init, EpochTypeOK
  <1>6. InsideInv
    BY NeuromorphEpochAssumption DEF Init, InsideInv, Thread, Hasher
  <1>7. EpochWhole /\ BuiltInv /\ CrashInv
    BY DEF Init, EpochWhole, BuiltInv, CrashInv
  <1>8. QED
    BY <1>1, <1>2, <1>3, <1>4, <1>5, <1>6, <1>7 DEF IInv

LEMMA Step == IInv /\ [Next]_vars => IInv'
  <1> SUFFICES ASSUME IInv, [Next]_vars PROVE IInv'
    OBVIOUS
  <1>1. EpochInv'
    BY EpochStep DEF IInv, EpochInv
  <1>2. QED
    BY <1>1, PcStep, JobStep, WorkStep, FlagStep, LockStep, TornStep, CrashStep DEF IInv, EpochInv

LEMMA Inductive == Safety => []IInv
  BY Start, Step, PTL DEF Safety

\* Every variable keeps its type.
THEOREM TypeCorrect == Safety => []TypeOK
  <1>1. IInv => TypeOK
    <2> SUFFICES ASSUME IInv PROVE TypeOK
      OBVIOUS
    <2>1. PcInv /\ JobInv /\ WorkInv /\ FlagInv /\ LockInv /\ EpochTypeOK
      BY DEF IInv
    <2>2. pc \in [Thread -> {"login", "free", "decode_login", "decode", "store_login", "store",
                            "copy", "check", "lock", "gen", "gen_copy", "recv", "hash",
                            "idle", "compare"} \cup EnsurePoint]
      BY <2>1 DEF PcInv, StratumPoint, MinerPoint, WorkioPoint
    <2>3. g_lock \in Miner \cup {Stratum, Free} /\ w_lock \in Miner \cup {Stratum, Free}
      BY <2>1 DEF LockInv, Agent
    <2>4. QED
      BY <2>1, <2>2, <2>3, Zenon DEF TypeOK, IInv, JobInv, WorkInv, FlagInv, EpochTypeOK
  <1>2. QED
    BY <1>1, Inductive, PTL

\* Outside nm_epoch_lock the params are those of g_nm_seed, and an attached
\* dataset was built from them.
THEOREM EpochIsWhole == Safety => []EpochWhole
  <1>1. IInv => EpochWhole
    BY DEF IInv
  <1>2. QED
    BY <1>1, Inductive, PTL

\* A NULL dataset is read only across the activation height, without memory,
\* or in the middle of a rebuild.
THEOREM CrashesAreKnown == Safety => []CrashOnlyAcrossActivation
  <1>1. IInv => CrashOnlyAcrossActivation
    BY Zenon DEF IInv, CrashInv, BuiltInv, CrashOnlyAcrossActivation
  <1>2. QED
    BY <1>1, Inductive, PTL

\* A miner copies a g_work whose id and header differ only while the stratum
\* thread copies it without g_work_lock.
THEOREM TornCopies == Safety => TornOnlyAtLogin
  <1>1. ASSUME IInv, [Next]_vars
        PROVE  [\A m \in Miner :
                 work'[m] # work[m] /\ pc[Stratum] # "copy" => work'[m].id = work'[m].job]_vars
    <2> SUFFICES ASSUME NEW m \in Miner, work'[m] # work[m], pc[Stratum] # "copy"
                 PROVE  work'[m].id = work'[m].job
      OBVIOUS
    <2>1. work \in [Hasher -> Work] /\ m \in Hasher /\ m # Workio
      BY <1>1, NeuromorphEpochAssumption DEF IInv, WorkInv, Hasher
    <2>2. CopyWork(m)
      BY <1>1, <2>1, WorkFrame DEF WorkioPop, MinerStart, MinerDecline, CopyWork
    <2>3. g_lock = m
      <3>1. pc[m] = "copy" /\ m # Stratum /\ m \in Agent
        BY <2>2, NeuromorphEpochAssumption DEF CopyWork, At, Agent
      <3>2. QED
        BY <1>1, <3>1 DEF IInv, LockInv, Holds
    <2>4. \A t \in Agent : pc[t] # "gen_copy"
      <3>1. \A t \in Agent : pc[t] = "gen_copy" => t = m
        BY <1>1, <2>3 DEF IInv, LockInv, Holds
      <3>2. pc[m] = "copy"
        BY <2>2 DEF CopyWork, At
      <3>3. QED
        BY <3>1, <3>2
    <2>5. g_work.id = g_work.job
      BY <1>1, <2>4 DEF IInv, TornInv
    <2>6. work'[m] = g_work
      BY <2>1, <2>2 DEF CopyWork
    <2>7. QED
      BY <2>5, <2>6
  <1>2. QED
    BY <1>1, Inductive, PTL DEF Safety, TornOnlyAtLogin
=============================================================================
