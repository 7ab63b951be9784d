-------------------------- MODULE StratumWorkProofs --------------------------
(***************************************************************************)
(* Proofs about StratumWork, for every set of miners, every number of jobs *)
(* and every size of extranonce2 and nonce range.                          *)
(*                                                                         *)
(* None of the properties is inductive: that a header belongs to its job   *)
(* depends on who holds which mutex at which point of gen_work, and that a *)
(* rebuild has a job depends on how g_work_time keeps the miners out. IInv *)
(* collects these facts.                                                   *)
(***************************************************************************)
EXTENDS StratumWork, SequenceTheorems, TLAPS

(* The points of the code between lock and unlock of g_work_lock. *)
HoldsGWorkLock == GenPoint \cup {"copy", "time"}

(* The points between lock and unlock of sctx->work_lock. *)
HoldsWorkLock == {"gen_copy", "gen_header"}

(* Each mutex is owned by exactly the agent whose code is in the section. *)
LockInv ==
    \A a \in Agent : /\ pc[a] \in HoldsGWorkLock <=> g_lock = a
                     /\ pc[a] \in HoldsWorkLock <=> w_lock = a

(* Between the copy of the job and the end of the header, g_work already names
   the job whose header is about to be written. *)
HeaderInv ==
    /\ ShareNamesItsHeader
    /\ \A a \in Agent : pc[a] = "gen_header" =>
          g_work.id = job.id /\ g_work.xn2 = g_work.hxn2

(* Work that may be mined, and every point past the first wait, has a job. *)
JobInv ==
    /\ g_time # "zero" => job.id # 0
    /\ \A m \in Miner : pc[m] # "wait" => job.id # 0
    /\ pc[Stratum] \in GenPoint \cup {"lock", "time", "restart"} => job.id # 0

(* No header is of a later job than sctx->job; those of the current job have
   an extranonce2 below its counter. *)
Xn2Inv ==
    /\ g_work.hjob <= job.id
    /\ \A m \in Miner : work[m].hjob <= job.id
    /\ HeaderNeverRepeated
    /\ \A a \in Agent : pc[a] = "gen_header" /\ ~wrapped => g_work.hxn2 < job.xn2

(* The difficulty of sctx->job was announced with that job; so was the target of
   g_work, when g_work is of the current job and nobody rebuilds it. *)
TargetInv ==
    /\ job.id # 0 => job.diff \in attached[job.id]
    /\ (\A a \in Agent : pc[a] \notin GenPoint) /\ g_work.hjob # 0 /\ g_work.hjob = job.id
          => g_work.target \in attached[job.id]

(* A header from job j may be held while sctx->job is job k: it is not of a later
   job, nor of a later one than g_work unless g_work is rebuilt at this moment
   (l is the owner of work_lock, g the job of g_work). *)
MayHold(w, k, l, g) == w.hjob <= k /\ (l = Free => w.hjob <= g)

(* g_work is the newest work: nobody holds a share of a later job. *)
HeldInv ==
    /\ \A m \in Miner : MayHold(work[m], job.id, w_lock, g_work.hjob)
    /\ \A i \in DOMAIN queue : queue[i] # Null =>
          MayHold(queue[i], job.id, w_lock, g_work.hjob)
    /\ MayHold(cmd, job.id, w_lock, g_work.hjob)

(* The pool does not go back to a block it has left. The comparison in
   submit_upstream_work is of blocks alone: with such a pool a share of the block
   that came back is discarded until g_work is rebuilt. *)
NoBlockReturns ==
    \A i, k, j \in JobId : i <= k /\ k <= j /\ Block[i] = Block[j] => Block[k] = Block[i]

IInv == TypeOK /\ LockInv /\ HeaderInv /\ JobInv /\ Xn2Inv /\ TargetInv /\ HeldInv

-----------------------------------------------------------------------------
(* Who changes what. *)

\* The job is received by the stratum thread; only its extranonce2 moves elsewhere.
LEMMA JobFrame == ASSUME [Next]_vars PROVE
    \/ UNCHANGED jobVars
    \/ StratumConnect \/ StratumSubscribe \/ StratumNotify \/ StratumSetDifficulty
    \/ \E a \in Agent : GenCopy(a)
  BY DEF Next, StratumStep, MinerStep, GenWork, WorkioStep, Exited,
          StratumZero, StratumAuthorize, StratumReset, StratumCheck,
          StratumLock, StratumTime, StratumRestart, StratumOtherLine,
          StratumLost, GenFree, GenCopy, GenHeader, GenTarget, MinerWait,
          MinerLock, MinerCopy, MinerDecline, MinerClear, MinerHash,
          MinerFound, MinerSubmit, WorkioPop, WorkioCompare, WorkioSent,
          WorkioFailed, ProcessExit, WorkExpires, ConnectFailed, vars,
          connVars, jobVars, gVars, lockVars, minerVars, shareVars, Agent

\* g_work is written by gen_work, g_work_time by the stratum thread and the clock.
LEMMA GFrame == ASSUME [Next]_vars PROVE
    \/ UNCHANGED gVars
    \/ StratumZero \/ StratumTime \/ WorkExpires
    \/ \E a \in Agent : GenFree(a) \/ GenCopy(a) \/ GenHeader(a) \/ GenTarget(a)
  BY DEF Next, StratumStep, MinerStep, GenWork, WorkioStep, Exited,
          StratumConnect, StratumSubscribe, StratumAuthorize, StratumReset, StratumCheck,
          StratumLock, StratumRestart, StratumNotify, StratumSetDifficulty,
          StratumOtherLine, StratumLost, GenCopy, MinerWait, MinerLock,
          MinerCopy, MinerDecline, MinerClear, MinerHash, MinerFound,
          MinerSubmit, WorkioPop, WorkioCompare, WorkioSent, WorkioFailed,
          ProcessExit, ConnectFailed, vars, connVars, jobVars, gVars,
          lockVars, minerVars, shareVars, Agent

\* The mutexes.
LEMMA LockFrame == ASSUME [Next]_vars PROVE
    \/ UNCHANGED lockVars
    \/ StratumLock \/ StratumTime
    \/ \E a \in Agent : GenFree(a) \/ GenHeader(a)
    \/ \E m \in Miner : MinerLock(m) \/ MinerCopy(m)
  BY DEF Next, StratumStep, MinerStep, GenWork, WorkioStep, Exited,
          StratumZero, StratumConnect, StratumSubscribe, StratumAuthorize, StratumReset,
          StratumCheck, StratumRestart, StratumNotify, StratumSetDifficulty,
          StratumOtherLine, StratumLost, GenCopy, GenTarget, MinerWait,
          MinerDecline, MinerClear, MinerHash, MinerFound, MinerSubmit,
          WorkioPop, WorkioCompare, WorkioSent, WorkioFailed, ProcessExit,
          WorkExpires, ConnectFailed, vars, connVars, jobVars, gVars,
          lockVars, minerVars, shareVars, Agent

\* The work of a miner is written by that miner alone.
LEMMA MinerFrame == ASSUME [Next]_vars PROVE
    \/ UNCHANGED minerVars
    \/ \E m \in Miner : MinerCopy(m) \/ MinerHash(m)
  BY DEF Next, StratumStep, MinerStep, GenWork, WorkioStep, Exited,
          StratumZero, StratumConnect, StratumSubscribe, StratumAuthorize, StratumReset,
          StratumCheck, StratumLock, StratumTime, StratumRestart,
          StratumNotify, StratumSetDifficulty, StratumOtherLine, StratumLost,
          GenFree, GenCopy, GenHeader, GenTarget, MinerWait, MinerLock,
          MinerDecline, MinerClear, MinerFound, MinerSubmit, WorkioPop,
          WorkioCompare, WorkioSent, WorkioFailed, ProcessExit, WorkExpires,
          ConnectFailed, vars, connVars, jobVars, gVars, lockVars, minerVars,
          shareVars

\* The shares on their way to the pool.
LEMMA ShareFrame == ASSUME [Next]_vars PROVE
    \/ UNCHANGED shareVars
    \/ WorkioStep \/ StratumConnect \/ StratumSubscribe \/ StratumAuthorize
    \/ \E m \in Miner : MinerFound(m) \/ MinerSubmit(m)
  BY DEF Next, StratumStep, MinerStep, GenWork, Exited, StratumZero,
          StratumReset, StratumCheck, StratumLock, StratumTime,
          StratumRestart, StratumNotify, StratumSetDifficulty,
          StratumOtherLine, StratumLost, GenFree, GenCopy, GenHeader,
          GenTarget, MinerWait, MinerLock, MinerCopy, MinerDecline,
          MinerClear, MinerHash, ProcessExit, WorkExpires, vars, connVars,
          jobVars, gVars, lockVars, minerVars, shareVars

\* The connection, the restart flags and the end of the process.
LEMMA FlagFrame == ASSUME [Next]_vars PROVE
    \/ UNCHANGED <<conn, failures, restart, exited>>
    \/ StratumConnect \/ StratumSubscribe \/ StratumAuthorize \/ StratumReset \/ StratumLost
    \/ StratumRestart \/ ProcessExit \/ \E m \in Miner : MinerClear(m)
  BY DEF Next, StratumStep, MinerStep, GenWork, WorkioStep, Exited,
          StratumZero, StratumCheck, StratumLock, StratumTime, StratumNotify,
          StratumSetDifficulty, StratumOtherLine, GenFree, GenCopy, GenHeader,
          GenTarget, MinerWait, MinerLock, MinerCopy, MinerDecline, MinerHash,
          MinerFound, MinerSubmit, WorkioPop, WorkioCompare, WorkioSent,
          WorkioFailed, WorkExpires, vars, connVars, jobVars, gVars, lockVars,
          minerVars, shareVars

\* Every step moves at most one thread, to a point of its own code.
LEMMA PcFrame == ASSUME [Next]_vars PROVE
    \/ UNCHANGED pc
    \/ \E p \in StratumPoint : Goto(Stratum, p)
    \/ \E m \in Miner, p \in MinerPoint : Goto(m, p)
  <1>1. CASE StratumStep
    BY <1>1 DEF StratumStep, StratumZero, StratumConnect, StratumSubscribe, StratumAuthorize,
          StratumReset, StratumCheck, StratumLock, StratumTime,
          StratumRestart, StratumNotify, StratumSetDifficulty,
          StratumOtherLine, StratumLost, GenWork, GenFree, GenCopy, GenHeader,
          GenTarget, ConnectFailed, Disconnect, AfterLine, StratumPoint,
          GenPoint
  <1>2. ASSUME NEW m \in Miner, MinerStep(m) PROVE \E p \in MinerPoint : Goto(m, p) \/ UNCHANGED pc
    BY <1>2, StratumWorkAssumption DEF MinerStep, GenWork, GenFree, GenCopy, GenHeader, GenTarget,
          MinerWait, MinerLock, MinerCopy, MinerDecline, MinerClear,
          MinerHash, MinerFound, MinerSubmit, MinerPoint, GenPoint
  <1>3. CASE UNCHANGED pc
    BY <1>3
  <1>4. QED
    BY <1>1, <1>2, <1>3 DEF Next, WorkioStep, WorkioPop, WorkioCompare, WorkioSent,
          WorkioFailed, ProcessExit, WorkExpires, Exited, vars

-----------------------------------------------------------------------------
(* Types. *)

LEMMA TypeInit == ASSUME Init PROVE TypeOK
  <1> USE StratumWorkAssumption DEF Init
  <1>1. JobTypeOK
    <2>1. job \in [id : 0..MaxJob, xn2 : Xn2, diff : Diff]
      BY DEF Xn2
    <2>2. attached \in [JobId -> SUBSET Diff]
      OBVIOUS
    <2>3. next_diff \in Diff /\ wrapped \in BOOLEAN
      OBVIOUS
    <2>4. QED
      BY <2>1, <2>2, <2>3 DEF JobTypeOK
  <1>2. NoWork \in Work
    BY DEF NoWork, Work, Xn2
  <1>3. GTypeOK /\ LockTypeOK /\ FlagTypeOK
    BY <1>2 DEF GTypeOK, LockTypeOK, FlagTypeOK
  <1>4. PcTypeOK
    BY DEF PcTypeOK, Agent, StratumPoint, MinerPoint, GenPoint
  <1>5. MinerTypeOK
    BY <1>2 DEF MinerTypeOK
  <1>6. ShareTypeOK
    BY <1>2 DEF ShareTypeOK
  <1>7. QED
    BY <1>1, <1>3, <1>4, <1>5, <1>6 DEF TypeOK

LEMMA JobTypeStep == ASSUME JobTypeOK, [Next]_vars PROVE JobTypeOK'
  <1> USE StratumWorkAssumption DEF JobTypeOK
  <1>1. CASE UNCHANGED jobVars
    BY <1>1 DEF jobVars
  <1>2. CASE StratumConnect \/ StratumSubscribe
    BY <1>2 DEF StratumConnect, StratumSubscribe, ConnectFailed, jobVars
  <1>3. CASE StratumNotify
    BY <1>3 DEF StratumNotify, NotifyXn2, JobId, Xn2
  <1>4. CASE StratumSetDifficulty
    BY <1>4 DEF StratumSetDifficulty
  <1>5. ASSUME NEW a \in Agent, GenCopy(a) PROVE JobTypeOK'
    <2>1. job' = [job EXCEPT !.xn2 = Xn2Next(@)]
      BY <1>5 DEF GenCopy
    <2>2. job' \in [id : 0..MaxJob, xn2 : Xn2, diff : Diff]
      BY <2>1 DEF Xn2, Xn2Next
    <2>3. wrapped' \in BOOLEAN
      BY <1>5, Zenon DEF GenCopy
    <2>4. next_diff' = next_diff /\ attached' = attached
      BY <1>5 DEF GenCopy
    <2>5. QED
      BY <2>2, <2>3, <2>4
  <1>6. QED
    BY <1>1, <1>2, <1>3, <1>4, <1>5, JobFrame

LEMMA JobZero == 0 \in 0..MaxJob
  BY StratumWorkAssumption

LEMMA GTypeStep == ASSUME JobTypeOK, GTypeOK, [Next]_vars PROVE GTypeOK'
  <1> USE StratumWorkAssumption DEF GTypeOK
  <1>1. CASE UNCHANGED gVars
    BY <1>1 DEF gVars
  <1>2. CASE StratumZero \/ StratumTime \/ WorkExpires
    BY <1>2 DEF StratumZero, StratumTime, WorkExpires
  <1>3. ASSUME NEW a \in Agent, GenFree(a) \/ GenCopy(a) \/ GenHeader(a) \/ GenTarget(a)
        PROVE GTypeOK'
    <2>1. g_time' = g_time
      BY <1>3 DEF GenFree, GenCopy, GenHeader, GenTarget
    <2>2. CASE GenFree(a)
      <3>1. g_work' = [g_work EXCEPT !.id = 0]
        BY <2>2, Zenon DEF GenFree
      <3>2. g_work \in Work /\ 0 \in 0..MaxJob
        BY JobZero, Zenon
      <3>3. g_work' \in Work
        BY <3>1, <3>2 DEF Work
      <3>4. QED
        BY <2>1, <3>3, Zenon DEF GTypeOK
    <2>3. CASE GenCopy(a)
      BY <2>1, <2>3 DEF GenCopy, JobTypeOK, Work
    <2>4. CASE GenHeader(a)
      BY <2>1, <2>4 DEF GenHeader, JobTypeOK, Work
    <2>5. CASE GenTarget(a)
      BY <2>1, <2>5 DEF GenTarget, JobTypeOK, Work
    <2>6. QED
      BY <1>3, <2>2, <2>3, <2>4, <2>5
  <1>4. QED
    BY <1>1, <1>2, <1>3, GFrame

LEMMA LockTypeStep == ASSUME LockTypeOK, [Next]_vars PROVE LockTypeOK'
  BY LockFrame DEF LockTypeOK, lockVars, StratumLock, StratumTime, GenFree, GenHeader,
     MinerLock, MinerCopy, Agent

LEMMA PcTypeStep == ASSUME PcTypeOK, [Next]_vars PROVE PcTypeOK'
  <1>1. CASE UNCHANGED pc
    BY <1>1 DEF PcTypeOK
  <1>2. ASSUME NEW p \in StratumPoint, Goto(Stratum, p) PROVE PcTypeOK'
    BY <1>2, StratumWorkAssumption DEF PcTypeOK, Goto, Agent
  <1>3. ASSUME NEW m \in Miner, NEW p \in MinerPoint, Goto(m, p) PROVE PcTypeOK'
    BY <1>3, StratumWorkAssumption DEF PcTypeOK, Goto, Agent
  <1>4. QED
    BY <1>1, <1>2, <1>3, PcFrame

LEMMA MinerTypeStep == ASSUME GTypeOK, MinerTypeOK, [Next]_vars PROVE MinerTypeOK'
  <1> USE StratumWorkAssumption DEF MinerTypeOK
  <1>1. CASE UNCHANGED minerVars
    BY <1>1 DEF minerVars
  <1>2. ASSUME NEW m \in Miner, MinerCopy(m) PROVE MinerTypeOK'
    <2>1. CASE OtherHeader(work[m], g_work)
      <3>1. /\ work' = [work EXCEPT ![m] = g_work]
            /\ nonce' = [nonce EXCEPT ![m] = 0]
            /\ end_nonce' = [end_nonce EXCEPT ![m] = RangeLen]
        BY <1>2, <2>1 DEF MinerCopy, get_new_work
      <3>2. QED
        BY <3>1 DEF GTypeOK
    <2>2. CASE ~OtherHeader(work[m], g_work)
      <3>1. /\ nonce' = [nonce EXCEPT ![m] = Offset(@ + 1)]
            /\ UNCHANGED <<work, end_nonce>>
        BY <1>2, <2>2 DEF MinerCopy, get_new_work
      <3>2. QED
        BY <3>1 DEF Offset
    <2>3. QED
      BY <2>1, <2>2
  <1>3. ASSUME NEW m \in Miner, MinerHash(m) PROVE MinerTypeOK'
    BY <1>3 DEF MinerHash, Offset
  <1>4. QED
    BY <1>1, <1>2, <1>3, MinerFrame

LEMMA ShareTypeStep == ASSUME MinerTypeOK, ShareTypeOK, [Next]_vars PROVE ShareTypeOK'
  <1> USE StratumWorkAssumption
  <1>1. NoWork \in Work
    BY DEF NoWork, Work, Xn2
  <1>2. CASE UNCHANGED shareVars
    BY <1>2 DEF ShareTypeOK, shareVars
  <1>3. CASE WorkioPop
    BY <1>3 DEF ShareTypeOK, WorkioPop
  <1>4. CASE WorkioCompare \/ WorkioSent \/ WorkioFailed
    BY <1>1, <1>4 DEF ShareTypeOK, WorkioCompare, WorkioSent, WorkioFailed, WorkioDone
  <1>5. CASE StratumConnect \/ StratumSubscribe \/ StratumAuthorize
    <2>1. queue' = queue \/ queue' = Append(queue, Null)
      BY <1>5 DEF StratumConnect, StratumSubscribe, StratumAuthorize, ConnectFailed, StratumEnd, tq_push, shareVars
    <2>2. UNCHANGED <<wpc, cmd, tries, found>>
      BY <1>5 DEF StratumConnect, StratumSubscribe, StratumAuthorize, ConnectFailed, shareVars
    <2>3. queue \in Seq(Work \cup {Null}) /\ Null \in Work \cup {Null}
      BY DEF ShareTypeOK
    <2>4. Append(queue, Null) \in Seq(Work \cup {Null})
      BY <2>3, AppendProperties, Zenon
    <2>5. QED
      BY <2>1, <2>2, <2>3, <2>4 DEF ShareTypeOK
  <1>6. ASSUME NEW m \in Miner, MinerFound(m) \/ MinerSubmit(m) PROVE ShareTypeOK'
    <2>1. CASE MinerFound(m)
      BY <2>1 DEF MinerFound, ShareTypeOK
    <2>2. CASE MinerSubmit(m)
      <3>1. queue' = queue \/ queue' = Append(queue, work[m])
        BY <2>2 DEF MinerSubmit, tq_push
      <3>2. UNCHANGED <<wpc, cmd, tries, found>> /\ work[m] \in Work
        BY <2>2 DEF MinerSubmit, MinerTypeOK
      <3>3. queue \in Seq(Work \cup {Null}) /\ work[m] \in Work \cup {Null}
        BY <3>2 DEF ShareTypeOK
      <3>4. Append(queue, work[m]) \in Seq(Work \cup {Null})
        BY <3>3, AppendProperties, Zenon
      <3>5. QED
        BY <3>1, <3>2, <3>3, <3>4 DEF ShareTypeOK
    <2>3. QED
      BY <1>6, <2>1, <2>2
  <1>7. QED
    BY <1>2, <1>3, <1>4, <1>5, <1>6, ShareFrame DEF WorkioStep

LEMMA FlagTypeStep == ASSUME FlagTypeOK, [Next]_vars PROVE FlagTypeOK'
  <1> USE StratumWorkAssumption DEF FlagTypeOK
  <1>1. CASE UNCHANGED <<conn, failures, restart, exited>>
    BY <1>1
  <1>2. CASE StratumConnect \/ StratumSubscribe \/ StratumAuthorize
    <2>1. conn' \in {"up", "down"} /\ exited' = exited
      BY <1>2 DEF StratumConnect, StratumSubscribe, StratumAuthorize, ConnectFailed, connVars
    <2>2. failures' \in Nat
      BY <1>2 DEF StratumConnect, StratumSubscribe, StratumAuthorize, ConnectFailed, connVars
    <2>3. restart' = restart \/ restart' = [m \in Miner |-> TRUE]
      BY <1>2 DEF StratumConnect, StratumSubscribe, StratumAuthorize, restart_threads
    <2>4. QED
      BY <2>1, <2>2, <2>3
  <1>3. CASE StratumReset \/ StratumLost
    BY <1>3 DEF StratumReset, StratumLost, Disconnect
  <1>4. CASE StratumRestart \/ ProcessExit
    BY <1>4 DEF StratumRestart, restart_threads, ProcessExit, connVars
  <1>5. ASSUME NEW m \in Miner, MinerClear(m) PROVE FlagTypeOK'
    BY <1>5 DEF MinerClear, connVars
  <1>6. QED
    BY <1>1, <1>2, <1>3, <1>4, <1>5, FlagFrame

LEMMA TypeStep == ASSUME TypeOK, [Next]_vars PROVE TypeOK'
  BY JobTypeStep, GTypeStep, LockTypeStep, PcTypeStep, MinerTypeStep, ShareTypeStep,
     FlagTypeStep DEF TypeOK

-----------------------------------------------------------------------------
(* The mutexes. *)

\* A thread is moved by its own code alone.
LEMMA PcMover == ASSUME PcTypeOK, [Next]_vars PROVE
    /\ pc'[Stratum] = pc[Stratum] \/ StratumStep
    /\ \A m \in Miner : pc'[m] = pc[m] \/ MinerStep(m)
  <1> USE StratumWorkAssumption DEF PcTypeOK, Agent, Goto
  <1>1. CASE StratumStep
    <2>1. UNCHANGED pc \/ \E p \in StratumPoint : Goto(Stratum, p)
      BY <1>1 DEF StratumStep, StratumZero, StratumConnect, StratumSubscribe, StratumAuthorize, StratumReset,
         StratumCheck, StratumLock, StratumTime, StratumRestart, StratumNotify,
         StratumSetDifficulty, StratumOtherLine, StratumLost, GenWork, GenFree, GenCopy,
         GenHeader, GenTarget, ConnectFailed, Disconnect, AfterLine, StratumPoint, GenPoint
    <2>2. QED
      BY <1>1, <2>1
  <1>2. ASSUME NEW m \in Miner, MinerStep(m)
        PROVE UNCHANGED pc \/ \E p \in MinerPoint : Goto(m, p)
    BY <1>2 DEF MinerStep, GenWork, GenFree, GenCopy, GenHeader, GenTarget, MinerWait,
       MinerLock, MinerCopy, MinerDecline, MinerClear, MinerHash, MinerFound, MinerSubmit,
       MinerPoint, GenPoint
  <1>3. CASE UNCHANGED pc
    BY <1>3
  <1>4. QED
    BY <1>1, <1>2, <1>3 DEF Next, WorkioStep, WorkioPop, WorkioCompare, WorkioSent,
       WorkioFailed, ProcessExit, WorkExpires, Exited, vars

\* What g_lock and w_lock are worth at the points of a section.
LEMMA Owners == ASSUME PcTypeOK, LockTypeOK, LockInv PROVE
    /\ \A a \in Agent : pc[a] \in GenPoint \cup {"copy", "time"} => g_lock = a
    /\ \A a \in Agent : pc[a] \in {"gen_copy", "gen_header"} => w_lock = a
    /\ w_lock # Free => w_lock \in Agent /\ pc[w_lock] \in {"gen_copy", "gen_header"}
    /\ g_lock = Free => w_lock = Free
    /\ \A a \in Agent : pc[a] \in {"copy", "time", "gen_free", "gen_target"} => w_lock = Free
    /\ Free \notin Agent
  BY StratumWorkAssumption
     DEF PcTypeOK, LockTypeOK, LockInv, HoldsGWorkLock, HoldsWorkLock, GenPoint, Agent

\* A step that leaves the mutexes alone neither enters nor leaves a section.
LEMMA SectionFrame == ASSUME PcTypeOK, [Next]_vars PROVE
    \/ UNCHANGED <<pc, lockVars>>
    \/ /\ UNCHANGED lockVars
       /\ \E a \in Agent, p \in StratumPoint \cup MinerPoint :
            /\ Goto(a, p)
            /\ pc[a] \in HoldsGWorkLock <=> p \in HoldsGWorkLock
            /\ pc[a] \in HoldsWorkLock <=> p \in HoldsWorkLock
    \/ StratumLock \/ StratumTime
    \/ \E a \in Agent : GenFree(a) \/ GenHeader(a)
    \/ \E m \in Miner : MinerLock(m) \/ MinerCopy(m)
  <1> USE StratumWorkAssumption DEF Agent, At, StratumPoint, MinerPoint, GenPoint,
          HoldsGWorkLock, HoldsWorkLock
  <1>1. CASE StratumStep
    <2>1. CASE StratumZero \/ StratumReset \/ StratumLost \/ StratumOtherLine \/ StratumRestart
      <3>1. CASE StratumZero \/ StratumRestart
        BY <3>1 DEF StratumZero, StratumRestart
      <3>2. CASE StratumReset
        BY <3>2 DEF StratumReset, Disconnect
      <3>3. CASE StratumLost
        BY <3>3 DEF StratumLost, Disconnect
      <3>4. CASE StratumOtherLine
        BY <3>4 DEF StratumOtherLine
      <3>5. QED
        BY <2>1, <3>1, <3>2, <3>3, <3>4
    <2>2. CASE StratumConnect \/ StratumSubscribe \/ StratumAuthorize
      BY <2>2 DEF StratumConnect, StratumSubscribe, StratumAuthorize, ConnectFailed, lockVars
    <2>3. CASE StratumCheck
      BY <2>3 DEF StratumCheck
    <2>4. CASE StratumNotify \/ StratumSetDifficulty
      BY <2>4 DEF StratumNotify, StratumSetDifficulty, AfterLine
    <2>5. CASE GenWork(Stratum)
      BY <2>5 DEF GenWork, GenCopy, GenTarget, lockVars
    <2>6. QED
      BY <1>1, <2>1, <2>2, <2>3, <2>4, <2>5 DEF StratumStep
  <1>2. ASSUME NEW m \in Miner, MinerStep(m)
        PROVE \/ UNCHANGED <<pc, lockVars>>
              \/ /\ UNCHANGED lockVars
                 /\ \E p \in MinerPoint :
                      /\ Goto(m, p)
                      /\ pc[m] \in HoldsGWorkLock <=> p \in HoldsGWorkLock
                      /\ pc[m] \in HoldsWorkLock <=> p \in HoldsWorkLock
              \/ GenFree(m) \/ GenHeader(m) \/ MinerLock(m) \/ MinerCopy(m)
    <2>1. CASE MinerWait(m) \/ MinerDecline(m) \/ MinerClear(m) \/ MinerFound(m)
      BY <2>1 DEF MinerWait, MinerDecline, MinerClear, MinerFound
    <2>2. CASE MinerHash(m)
      BY <2>2 DEF MinerHash
    <2>3. CASE MinerSubmit(m)
      BY <2>3 DEF MinerSubmit
    <2>4. CASE GenCopy(m) \/ GenTarget(m)
      BY <2>4 DEF GenCopy, GenTarget, lockVars
    <2>5. QED
      BY <1>2, <2>1, <2>2, <2>3, <2>4 DEF MinerStep, GenWork
  <1>3. CASE UNCHANGED <<pc, lockVars>>
    BY <1>3
  <1>4. QED
    BY <1>1, <1>2, <1>3 DEF Next, WorkioStep, WorkioPop, WorkioCompare, WorkioSent,
       WorkioFailed, ProcessExit, WorkExpires, Exited, vars

LEMMA LockStep == ASSUME PcTypeOK, LockTypeOK, LockInv, [Next]_vars PROVE LockInv'
  <1> USE StratumWorkAssumption DEF PcTypeOK, LockTypeOK, LockInv, At, Goto, Agent,
          HoldsGWorkLock, HoldsWorkLock, GenPoint
  <1>1. CASE UNCHANGED <<pc, lockVars>>
    BY <1>1 DEF lockVars
  <1>2. ASSUME UNCHANGED lockVars, NEW a \in Agent, NEW p \in StratumPoint \cup MinerPoint,
               Goto(a, p), pc[a] \in HoldsGWorkLock <=> p \in HoldsGWorkLock,
               pc[a] \in HoldsWorkLock <=> p \in HoldsWorkLock
        PROVE LockInv'
    BY <1>2 DEF lockVars
  <1>3. CASE StratumLock
    BY <1>3 DEF StratumLock
  <1>4. CASE StratumTime
    BY <1>4 DEF StratumTime
  <1>5. ASSUME NEW a \in Agent, GenFree(a) PROVE LockInv'
    BY <1>5 DEF GenFree, lockVars
  <1>6. ASSUME NEW a \in Agent, GenHeader(a) PROVE LockInv'
    BY <1>6 DEF GenHeader
  <1>7. ASSUME NEW m \in Miner, MinerLock(m) PROVE LockInv'
    BY <1>7 DEF MinerLock
  <1>8. ASSUME NEW m \in Miner, MinerCopy(m) PROVE LockInv'
    BY <1>8 DEF MinerCopy
  <1>9. QED
    BY <1>1, <1>2, <1>3, <1>4, <1>5, <1>6, <1>7, <1>8, SectionFrame

-----------------------------------------------------------------------------
(* A rebuild of g_work has a job. *)

\* Once a job was received there always is one.
LEMMA JobStays == ASSUME JobTypeOK, [Next]_vars, job.id # 0 PROVE job'.id # 0
  <1> USE StratumWorkAssumption DEF JobTypeOK
  <1>1. CASE UNCHANGED jobVars
    BY <1>1 DEF jobVars
  <1>2. CASE StratumConnect \/ StratumSubscribe \/ StratumSetDifficulty
    BY <1>2 DEF StratumConnect, StratumSubscribe, StratumSetDifficulty, ConnectFailed, jobVars
  <1>3. CASE StratumNotify
    BY <1>3 DEF StratumNotify, JobId
  <1>4. ASSUME NEW a \in Agent, GenCopy(a) PROVE job'.id # 0
    BY <1>4 DEF GenCopy
  <1>5. QED
    BY <1>1, <1>2, <1>3, <1>4, JobFrame

\* How a thread gets to work without one: it does not.
LEMMA JobStep == ASSUME JobTypeOK, PcTypeOK, JobInv, [Next]_vars PROVE JobInv'
  <1> USE StratumWorkAssumption DEF JobInv, At, Goto
  <1>1. g_time' # "zero" => job.id # 0
    <2>1. CASE UNCHANGED gVars
      BY <2>1 DEF gVars
    <2>2. CASE StratumZero \/ StratumTime \/ WorkExpires
      BY <2>2 DEF StratumZero, StratumTime, WorkExpires
    <2>3. ASSUME NEW a \in Agent, GenFree(a) \/ GenCopy(a) \/ GenHeader(a) \/ GenTarget(a)
          PROVE g_time' = g_time
      BY <2>3 DEF GenFree, GenCopy, GenHeader, GenTarget
    <2>4. QED
      BY <2>1, <2>2, <2>3, GFrame
  <1>2. ASSUME NEW m \in Miner, pc'[m] # "wait" PROVE job.id # 0
    <2>1. CASE UNCHANGED pc \/ \E p \in StratumPoint : Goto(Stratum, p)
      BY <1>2, <2>1 DEF PcTypeOK, Agent
    <2>2. CASE pc[m] = "wait" /\ MinerWait(m)
      BY <2>2 DEF MinerWait, FreshWork
    <2>3. CASE pc[m] = "wait" /\ MinerStep(m) /\ ~MinerWait(m)
      BY <2>3 DEF MinerStep, GenWork, GenFree, GenCopy, GenHeader, GenTarget, MinerLock,
         MinerCopy, MinerDecline, MinerClear, MinerHash, MinerFound, MinerSubmit
    <2>4. CASE pc[m] = "wait" /\ pc'[m] = pc[m]
      BY <1>2, <2>4
    <2>5. CASE pc[m] # "wait"
      BY <2>5
    <2>6. pc'[m] = pc[m] \/ MinerStep(m)
      BY PcMover
    <2>7. QED
      BY <2>2, <2>3, <2>4, <2>5, <2>6
  <1>3. pc'[Stratum] \in GenPoint \cup {"lock", "time", "restart"} => job.id # 0
    <2>1. CASE StratumStep
      BY <2>1 DEF StratumStep, StratumZero, StratumConnect, StratumSubscribe, StratumAuthorize, StratumReset,
         StratumCheck, StratumLock, StratumTime, StratumRestart, StratumNotify,
         StratumSetDifficulty, StratumOtherLine, StratumLost, GenWork, GenFree, GenCopy,
         GenHeader, GenTarget, ConnectFailed, Disconnect, AfterLine, JobIsNews, GenPoint,
         PcTypeOK, Agent
    <2>2. CASE pc'[Stratum] = pc[Stratum]
      BY <2>2
    <2>3. QED
      BY <2>1, <2>2, PcMover
  <1>4. QED
    BY <1>1, <1>2, <1>3, JobStays

-----------------------------------------------------------------------------
(* A share names the header it was hashed with. *)

\* The header of g_work is assembled in GenCopy, nowhere else.
LEMMA HeaderBegins ==
    ASSUME PcTypeOK, [Next]_vars, NEW a \in Agent, pc'[a] = "gen_header", pc[a] # "gen_header"
    PROVE GenCopy(a)
  <1> USE StratumWorkAssumption DEF Agent, PcTypeOK, Goto
  <1>1. CASE a = Stratum /\ StratumStep
    BY <1>1 DEF StratumStep, StratumZero, StratumConnect, StratumSubscribe, StratumAuthorize, StratumReset,
       StratumCheck, StratumLock, StratumTime, StratumRestart, StratumNotify,
       StratumSetDifficulty, StratumOtherLine, StratumLost, GenWork, GenFree, GenHeader,
       GenTarget, ConnectFailed, Disconnect, AfterLine
  <1>2. CASE a \in Miner /\ MinerStep(a)
    BY <1>2 DEF MinerStep, GenWork, GenFree, GenHeader, GenTarget, MinerWait, MinerLock,
       MinerCopy, MinerDecline, MinerClear, MinerHash, MinerFound, MinerSubmit
  <1>3. QED
    BY <1>1, <1>2, PcMover

\* What the steps outside a rebuild and a notify leave alone.
LEMMA HeaderFrame == ASSUME TypeOK, [Next]_vars PROVE
    \/ \E a \in Agent : GenFree(a) \/ GenCopy(a) \/ GenHeader(a)
    \/ StratumNotify
    \/ /\ job'.id = job.id /\ job'.xn2 = job.xn2 /\ wrapped' = wrapped
       /\ g_work'.id = g_work.id /\ g_work'.xn2 = g_work.xn2
       /\ g_work'.hjob = g_work.hjob /\ g_work'.hxn2 = g_work.hxn2
       /\ \A a \in Agent : pc'[a] = "gen_header" => pc[a] = "gen_header"
       /\ w_lock' = w_lock
  <1> SUFFICES ASSUME ~(\E a \in Agent : GenFree(a) \/ GenCopy(a) \/ GenHeader(a)),
                      ~StratumNotify
               PROVE /\ job'.id = job.id /\ job'.xn2 = job.xn2 /\ wrapped' = wrapped
                     /\ g_work'.id = g_work.id /\ g_work'.xn2 = g_work.xn2
                     /\ g_work'.hjob = g_work.hjob /\ g_work'.hxn2 = g_work.hxn2
                     /\ \A a \in Agent : pc'[a] = "gen_header" => pc[a] = "gen_header"
                     /\ w_lock' = w_lock
    OBVIOUS
  <1>1. job' = job /\ wrapped' = wrapped
    BY JobFrame DEF jobVars, StratumConnect, StratumSubscribe, StratumSetDifficulty, ConnectFailed
  <1>2. /\ g_work'.id = g_work.id /\ g_work'.xn2 = g_work.xn2
        /\ g_work'.hjob = g_work.hjob /\ g_work'.hxn2 = g_work.hxn2
    <2>1. CASE UNCHANGED gVars \/ StratumZero \/ StratumTime \/ WorkExpires
      BY <2>1 DEF gVars, StratumZero, StratumTime, WorkExpires
    <2>2. ASSUME NEW a \in Agent, GenTarget(a)
          PROVE /\ g_work'.id = g_work.id /\ g_work'.xn2 = g_work.xn2
                /\ g_work'.hjob = g_work.hjob /\ g_work'.hxn2 = g_work.hxn2
      BY <2>2 DEF GenTarget, TypeOK, GTypeOK, Work
    <2>3. QED
      BY <2>1, <2>2, GFrame
  <1>3. \A a \in Agent : pc'[a] = "gen_header" => pc[a] = "gen_header"
    BY HeaderBegins DEF TypeOK
  <1>4. w_lock' = w_lock
    BY LockFrame DEF lockVars, StratumLock, StratumTime, MinerLock, MinerCopy
  <1>5. QED
    BY <1>1, <1>2, <1>3, <1>4

LEMMA GWorkStep ==
    ASSUME TypeOK, LockInv, HeaderInv, [Next]_vars
    PROVE /\ w_lock' = Free => NamesItsHeader(g_work')
          /\ \A a \in Agent : pc'[a] = "gen_header" =>
                g_work'.id = job'.id /\ g_work'.xn2 = g_work'.hxn2
  <1> USE Owners DEF TypeOK, HeaderInv, ShareNamesItsHeader, NamesItsHeader
  <1>1. ASSUME NEW a \in Agent, GenFree(a)
        PROVE w_lock' # Free /\ \A b \in Agent : pc'[b] # "gen_header"
    BY <1>1 DEF GenFree, At, Goto, PcTypeOK
  <1>2. ASSUME NEW a \in Agent, GenCopy(a)
        PROVE /\ w_lock' # Free
              /\ g_work'.id = job'.id /\ g_work'.xn2 = g_work'.hxn2
    BY <1>2 DEF GenCopy, At, JobTypeOK, lockVars
  <1>3. ASSUME NEW a \in Agent, GenHeader(a)
        PROVE /\ NamesItsHeader(g_work')
              /\ \A b \in Agent : pc'[b] # "gen_header"
    <2>1. NamesItsHeader(g_work')
      BY <1>3 DEF GenHeader, At, GTypeOK, Work
    <2>2. \A b \in Agent : pc'[b] # "gen_header"
      BY <1>3 DEF GenHeader, At, Goto, PcTypeOK
    <2>3. QED
      BY <2>1, <2>2
  <1>4. CASE StratumNotify
    <2>1. w_lock = Free /\ g_work' = g_work
      BY <1>4 DEF StratumNotify, gVars
    <2>2. \A a \in Agent : pc'[a] # "gen_header"
      BY <2>1, <1>4 DEF StratumNotify, AfterLine, Goto, PcTypeOK
    <2>3. QED
      BY <2>1, <2>2
  <1>5. QED
    BY <1>1, <1>2, <1>3, <1>4, HeaderFrame

LEMMA HeaderStep == ASSUME TypeOK, LockInv, HeaderInv, [Next]_vars PROVE HeaderInv'
  <1> USE DEF HeaderInv, ShareNamesItsHeader
  <1>1. \A m \in Miner : NamesItsHeader(work'[m])
    <2>1. CASE work' = work
      BY <2>1
    <2>2. ASSUME NEW m \in Miner, MinerCopy(m) PROVE work' = [work EXCEPT ![m] = g_work] \/ work' = work
      BY <2>2 DEF MinerCopy, get_new_work
    <2>3. ASSUME NEW m \in Miner, MinerCopy(m) PROVE NamesItsHeader(g_work)
      BY <2>3, Owners DEF MinerCopy, At, TypeOK, Agent
    <2>4. ASSUME NEW m \in Miner, MinerCopy(m) PROVE \A n \in Miner : NamesItsHeader(work'[n])
      BY <2>2, <2>3, <2>4 DEF TypeOK, MinerTypeOK
    <2>5. ASSUME NEW m \in Miner, MinerHash(m) PROVE work' = work
      BY <2>5 DEF MinerHash
    <2>6. QED
      BY <2>1, <2>4, <2>5, MinerFrame DEF minerVars
  <1>2. /\ \A i \in DOMAIN queue' : queue'[i] # Null => NamesItsHeader(queue'[i])
        /\ NamesItsHeader(cmd')
    <2>1. CASE UNCHANGED shareVars
      BY <2>1 DEF shareVars
    <2>2. CASE WorkioPop
      <3>1. queue \in Seq(Work \cup {Null}) /\ queue # <<>> /\ queue' = Tail(queue)
        BY <2>2 DEF WorkioPop, TypeOK, ShareTypeOK
      <3>2. \A i \in DOMAIN queue' : i + 1 \in DOMAIN queue /\ queue'[i] = queue[i + 1]
        BY <3>1, HeadTailProperties, LenProperties
      <3>3. Head(queue) = queue[1] /\ 1 \in DOMAIN queue
        BY <3>1, HeadTailProperties, LenProperties, EmptySeq
      <3>4. cmd' = cmd \/ (Head(queue) # Null /\ cmd' = Head(queue))
        BY <2>2 DEF WorkioPop
      <3>5. QED
        BY <3>2, <3>3, <3>4
    <2>3. CASE WorkioCompare \/ WorkioSent \/ WorkioFailed
      <3>1. queue' = queue /\ (cmd' = cmd \/ cmd' = NoWork)
        BY <2>3 DEF WorkioCompare, WorkioSent, WorkioFailed, WorkioDone
      <3>2. QED
        BY <3>1 DEF NoWork, NamesItsHeader
    <2>4. ASSUME queue' = Append(queue, Null) \/ \E m \in Miner : queue' = Append(queue, work[m])
          PROVE \A i \in DOMAIN queue' : queue'[i] # Null => NamesItsHeader(queue'[i])
      <3>1. PICK c \in Work \cup {Null} : queue' = Append(queue, c) /\ (c # Null => NamesItsHeader(c))
        BY <2>4 DEF TypeOK, MinerTypeOK
      <3>2. queue \in Seq(Work \cup {Null})
        BY DEF TypeOK, ShareTypeOK
      <3>3. QED
        BY <3>1, <3>2, AppendProperties, LenProperties
    <2>5. CASE StratumConnect \/ StratumSubscribe \/ StratumAuthorize
      <3>1. cmd' = cmd /\ (queue' = queue \/ queue' = Append(queue, Null))
        BY <2>5 DEF StratumConnect, StratumSubscribe, StratumAuthorize, ConnectFailed, StratumEnd, tq_push, shareVars
      <3>2. QED
        BY <3>1, <2>4
    <2>6. ASSUME NEW m \in Miner, MinerFound(m) \/ MinerSubmit(m)
          PROVE cmd' = cmd /\ (queue' = queue \/ queue' = Append(queue, work[m]))
      BY <2>6 DEF MinerFound, MinerSubmit, tq_push
    <2>7. QED
      BY <2>1, <2>2, <2>3, <2>4, <2>5, <2>6, ShareFrame DEF WorkioStep
  <1>3. QED
    BY <1>1, <1>2, GWorkStep

-----------------------------------------------------------------------------
(* No header is built twice, and no job keeps the difficulty of a later one. *)

\* The increment of extranonce2 is a plain successor until it wraps.
LEMMA SmallMod == ASSUME NEW n \in Nat \ {0}, NEW i \in 0..(n - 1) PROVE i % n = i
  OBVIOUS

LEMMA Xn2Init == ASSUME Init PROVE Xn2Inv /\ TargetInv
  <1>1. \A m \in Miner : work[m] = NoWork
    BY DEF Init
  <1>2. QED
    BY <1>1 DEF Init, Xn2Inv, TargetInv, HeaderNeverRepeated, NoWork

LEMMA Xn2Step == ASSUME TypeOK, LockInv, Xn2Inv, [Next]_vars PROVE Xn2Inv'
  <1> USE StratumWorkAssumption
  <1> DEFINE Fits(w, j, wrp) == w.hjob <= j.id /\ (~wrp /\ w.hjob = j.id /\ w.hjob # 0 => w.hxn2 < j.xn2)
  <1>1. /\ Fits(g_work, job, wrapped)
        /\ \A m \in Miner : Fits(work[m], job, wrapped)
    BY DEF Xn2Inv, HeaderNeverRepeated
  <1>2. SUFFICES /\ Fits(g_work', job', wrapped')
                 /\ \A m \in Miner : Fits(work'[m], job', wrapped')
                 /\ \A a \in Agent : pc'[a] = "gen_header" /\ ~wrapped' => g_work'.hxn2 < job'.xn2
    BY DEF Xn2Inv, HeaderNeverRepeated
  <1>3. job.id \in Nat /\ job.xn2 \in Xn2 /\ g_work.hjob \in Nat /\ g_work.hxn2 \in Xn2
    BY DEF TypeOK, JobTypeOK, GTypeOK, Work
  <1>4. \A m \in Miner : work[m].hjob \in Nat /\ work[m].hxn2 \in Xn2
    BY DEF TypeOK, MinerTypeOK, Work
  \* A copy made by a miner is of g_work.
  <1>5. ASSUME job'.id = job.id, job'.xn2 = job.xn2, wrapped' = wrapped
        PROVE \A m \in Miner : Fits(work'[m], job', wrapped')
    <2>1. ASSUME NEW m \in Miner PROVE work'[m] = work[m] \/ work'[m] = g_work
      <3>1. ASSUME NEW n \in Miner, MinerCopy(n)
            PROVE work' = work \/ work' = [work EXCEPT ![n] = g_work]
        BY <3>1 DEF MinerCopy, get_new_work
      <3>2. ASSUME NEW n \in Miner, MinerHash(n) PROVE work' = work
        BY <3>2 DEF MinerHash
      <3>3. QED
        BY <3>1, <3>2, MinerFrame DEF minerVars, TypeOK, MinerTypeOK
    <2>2. QED
      BY <1>1, <1>5, <2>1
  <1>6. ASSUME NEW a \in Agent, GenFree(a) \/ GenHeader(a)
        PROVE /\ job' = job /\ wrapped' = wrapped /\ work' = work
              /\ \A b \in Agent : pc'[b] # "gen_header"
              /\ g_work'.hxn2 = g_work.hxn2
              /\ g_work'.hjob = g_work.hjob \/ (g_work'.hjob = job.id /\ (~wrapped => g_work.hxn2 < job.xn2))
    <2>1. CASE GenFree(a)
      BY <2>1, Owners DEF GenFree, jobVars, minerVars, At, Goto, TypeOK, PcTypeOK, GTypeOK, Work
    <2>2. CASE GenHeader(a)
      <3>1. job' = job /\ wrapped' = wrapped /\ work' = work
        BY <2>2 DEF GenHeader, jobVars, minerVars
      <3>2. g_work'.hjob = job.id /\ g_work'.hxn2 = g_work.hxn2 /\ pc[a] = "gen_header"
        BY <2>2 DEF GenHeader, At, TypeOK, GTypeOK, Work
      <3>3. \A b \in Agent : pc'[b] # "gen_header"
        BY <2>2, Owners DEF GenHeader, At, Goto, TypeOK, PcTypeOK
      <3>4. QED
        BY <3>1, <3>2, <3>3 DEF Xn2Inv
    <2>3. QED
      BY <1>6, <2>1, <2>2
  <1>7. ASSUME NEW a \in Agent, GenCopy(a)
        PROVE /\ job'.id = job.id /\ work' = work /\ g_work'.hjob = 0
              /\ g_work'.hxn2 = job.xn2
              /\ ~wrapped' => ~wrapped /\ job'.xn2 = job.xn2 + 1
    <2>1. job' = [job EXCEPT !.xn2 = Xn2Next(@)]
      BY <1>7 DEF GenCopy
    <2>2. job'.id = job.id /\ job'.xn2 = (job.xn2 + 1) % Xn2Size
      BY <2>1 DEF Xn2Next, TypeOK, JobTypeOK
    <2>3. job.xn2 + 1 # Xn2Size => (job.xn2 + 1) % Xn2Size = job.xn2 + 1
      <3>1. job.xn2 + 1 # Xn2Size => job.xn2 + 1 \in 0..(Xn2Size - 1)
        BY <1>3 DEF Xn2
      <3>2. Xn2Size \in Nat \ {0}
        OBVIOUS
      <3>3. QED
        BY <3>1, <3>2, SmallMod, Zenon
    <2>4. ~wrapped' => ~wrapped /\ job.xn2 + 1 # Xn2Size
      BY <1>7 DEF GenCopy
    <2>5. work' = work /\ g_work'.hjob = 0 /\ g_work'.hxn2 = job.xn2
      BY <1>7 DEF GenCopy, minerVars
    <2>6. QED
      BY <2>2, <2>3, <2>4, <2>5
  <1>8. CASE StratumNotify
    <2>1. /\ work' = work /\ g_work' = g_work
          /\ \/ job'.id = job.id /\ job'.xn2 = job.xn2 /\ (~wrapped' => ~wrapped)
             \/ job'.id = job.id + 1
      <3>1. PICK j \in {job.id, job.id + 1} :
              /\ job' = [id |-> j, xn2 |-> NotifyXn2(j), diff |-> next_diff]
              /\ wrapped' = (wrapped /\ j = job.id)
        BY <1>8 DEF StratumNotify
      <3>2. job'.id = j /\ (j = job.id => job'.xn2 = job.xn2)
        BY <3>1 DEF NotifyXn2
      <3>3. j = job.id /\ ~wrapped' => ~wrapped
        BY <3>1
      <3>4. work' = work /\ g_work' = g_work
        BY <1>8 DEF StratumNotify, gVars, minerVars
      <3>5. QED
        BY <3>2, <3>3, <3>4
    <2>2. \A a \in Agent : pc'[a] # "gen_header"
      BY <1>8, Owners DEF StratumNotify, AfterLine, Goto, TypeOK, PcTypeOK
    <2>3. QED
      BY <1>1, <1>3, <1>4, <2>1, <2>2
  <1>9. ASSUME NEW a \in Agent, GenFree(a) \/ GenHeader(a)
        PROVE /\ Fits(g_work', job', wrapped')
              /\ \A m \in Miner : Fits(work'[m], job', wrapped')
              /\ \A b \in Agent : pc'[b] # "gen_header"
    BY <1>1, <1>3, <1>6, <1>9
  <1>10. ASSUME NEW a \in Agent, GenCopy(a)
         PROVE /\ Fits(g_work', job', wrapped')
               /\ \A m \in Miner : Fits(work'[m], job', wrapped')
               /\ ~wrapped' => g_work'.hxn2 < job'.xn2
    BY <1>1, <1>3, <1>4, <1>7, <1>10 DEF Xn2
  <1>11. CASE /\ job'.id = job.id /\ job'.xn2 = job.xn2 /\ wrapped' = wrapped
              /\ g_work'.hjob = g_work.hjob /\ g_work'.hxn2 = g_work.hxn2
              /\ \A a \in Agent : pc'[a] = "gen_header" => pc[a] = "gen_header"
    <2>1. \A a \in Agent : pc'[a] = "gen_header" /\ ~wrapped' => g_work'.hxn2 < job'.xn2
      BY <1>11 DEF Xn2Inv
    <2>2. QED
      BY <1>1, <1>5, <1>11, <2>1
  <1>12. QED
    BY <1>8, <1>9, <1>10, <1>11, HeaderFrame DEF Xn2Inv

\* A rebuild ends with the target.
LEMMA GenLeaves ==
    ASSUME PcTypeOK, [Next]_vars, \A a \in Agent : ~GenTarget(a),
           \A a \in Agent : pc'[a] \notin GenPoint
    PROVE \A a \in Agent : pc[a] \notin GenPoint
  <1> USE StratumWorkAssumption DEF Agent, PcTypeOK, Goto, GenPoint
  <1>1. CASE StratumStep
    BY <1>1 DEF StratumStep, StratumZero, StratumConnect, StratumSubscribe, StratumAuthorize, StratumReset,
       StratumCheck, StratumLock, StratumTime, StratumRestart, StratumNotify, At,
       StratumSetDifficulty, StratumOtherLine, StratumLost, GenWork, GenFree, GenCopy, GenHeader,
       ConnectFailed, Disconnect, AfterLine
  <1>2. ASSUME NEW m \in Miner, MinerStep(m), pc[m] \in GenPoint PROVE pc'[m] \in GenPoint
    BY <1>2 DEF MinerStep, GenWork, GenFree, GenCopy, GenHeader, MinerWait, MinerLock, At,
       MinerCopy, MinerDecline, MinerClear, MinerHash, MinerFound, MinerSubmit
  <1>3. ASSUME pc[Stratum] \in GenPoint, StratumStep PROVE pc'[Stratum] \in GenPoint
    BY <1>1, <1>3
  <1>4. QED
    BY <1>2, <1>3, PcMover

LEMMA TargetStep == ASSUME TypeOK, LockInv, Xn2Inv, TargetInv, [Next]_vars PROVE TargetInv'
  <1> USE StratumWorkAssumption DEF TargetInv
  <1>1. job'.id # 0 => job'.diff \in attached'[job'.id]
    <2>1. CASE UNCHANGED jobVars
      BY <2>1 DEF jobVars
    <2>2. CASE StratumConnect \/ StratumSubscribe \/ StratumSetDifficulty
      BY <2>2 DEF StratumConnect, StratumSubscribe, StratumSetDifficulty, ConnectFailed, jobVars
    <2>3. CASE StratumNotify
      <3>1. PICK j \in JobId :
              /\ job' = [id |-> j, xn2 |-> NotifyXn2(j), diff |-> next_diff]
              /\ attached' = [attached EXCEPT ![j] = @ \cup {next_diff}]
        BY <2>3 DEF StratumNotify
      <3>2. QED
        BY <3>1 DEF TypeOK, JobTypeOK
    <2>4. ASSUME NEW a \in Agent, GenCopy(a)
          PROVE job'.id = job.id /\ job'.diff = job.diff /\ attached' = attached
      <3>1. job' = [job EXCEPT !.xn2 = Xn2Next(@)] /\ attached' = attached
        BY <2>4 DEF GenCopy
      <3>2. QED
        BY <3>1 DEF TypeOK, JobTypeOK
    <2>5. QED
      BY <2>1, <2>2, <2>3, <2>4, JobFrame
  <1>2. ASSUME \A a \in Agent : pc'[a] \notin GenPoint, g_work'.hjob # 0, g_work'.hjob = job'.id
        PROVE g_work'.target \in attached'[job'.id]
    <2>1. ASSUME NEW a \in Agent, GenTarget(a)
          PROVE g_work'.target = job.diff /\ job' = job /\ attached' = attached
      BY <2>1 DEF GenTarget, TypeOK, GTypeOK, Work, jobVars
    <2>2. ASSUME NEW a \in Agent, GenFree(a) \/ GenCopy(a) \/ GenHeader(a)
          PROVE pc'[a] \in GenPoint
      BY <2>2 DEF GenFree, GenCopy, GenHeader, Goto, At, TypeOK, PcTypeOK, GenPoint
    <2>3. CASE g_work' = g_work /\ \A a \in Agent : pc[a] \notin GenPoint
      <3>1. CASE StratumNotify
        <4>1. PICK j \in JobId :
                /\ j \in {job.id, job.id + 1}
                /\ job' = [id |-> j, xn2 |-> NotifyXn2(j), diff |-> next_diff]
                /\ attached' = [attached EXCEPT ![j] = @ \cup {next_diff}]
          BY <3>1 DEF StratumNotify
        <4>2. job.id \in Nat /\ g_work.hjob \in Nat /\ g_work.hjob <= job.id
          BY DEF Xn2Inv, TypeOK, JobTypeOK, GTypeOK, Work
        <4>3. job'.id = job.id
          BY <1>2, <2>3, <4>1, <4>2
        <4>4. QED
          BY <1>2, <2>3, <4>1, <4>3 DEF TypeOK, JobTypeOK
      <3>2. CASE job'.id = job.id /\ attached' = attached
        BY <1>2, <2>3, <3>2
      <3>3. (job'.id = job.id /\ attached' = attached) \/ StratumNotify
        <4>1. CASE UNCHANGED jobVars \/ StratumConnect \/ StratumSubscribe \/ StratumSetDifficulty
          BY <4>1 DEF jobVars, StratumConnect, StratumSubscribe, StratumSetDifficulty, ConnectFailed
        <4>2. ASSUME NEW a \in Agent, GenCopy(a) PROVE FALSE
          BY <2>3, <4>2 DEF GenCopy, At, GenPoint
        <4>3. QED
          BY <4>1, <4>2, JobFrame
      <3>4. QED
        BY <3>1, <3>2, <3>3
    <2>4. ASSUME NEW a \in Agent, GenTarget(a)
          PROVE g_work'.target \in attached'[job'.id]
      BY <1>2, <2>1, <2>4
    <2>5. g_work' = g_work \/ \E a \in Agent : GenTarget(a)
      BY <1>2, <2>2, GFrame DEF gVars, StratumZero, StratumTime, WorkExpires
    <2>6. ~(\E a \in Agent : GenTarget(a)) => \A a \in Agent : pc[a] \notin GenPoint
      BY <1>2, GenLeaves DEF TypeOK
    <2>7. QED
      BY <2>3, <2>4, <2>5, <2>6
  <1>3. QED
    BY <1>1, <1>2

-----------------------------------------------------------------------------
(* g_work is the newest work. *)

LEMMA HeldInit == ASSUME Init PROVE HeldInv
  <1>1. \A m \in Miner : work[m] = NoWork
    BY DEF Init
  <1>2. cmd = NoWork /\ job.id = 0 /\ g_work = NoWork /\ DOMAIN queue = {}
    BY DEF Init
  <1>3. QED
    BY <1>1, <1>2 DEF HeldInv, MayHold, NoWork

\* What may be held before a step may be held after it.
LEMMA StillHeld ==
    ASSUME TypeOK, LockInv, Xn2Inv, [Next]_vars,
           NEW w, w.hjob \in Nat, MayHold(w, job.id, w_lock, g_work.hjob)
    PROVE MayHold(w, job'.id, w_lock', g_work'.hjob)
  <1>1. job.id \in Nat /\ g_work.hjob \in Nat
    BY DEF TypeOK, JobTypeOK, GTypeOK, Work
  <1>2. ASSUME NEW a \in Agent, GenFree(a)
        PROVE w_lock' # Free /\ job'.id = job.id
    BY <1>2, Owners DEF GenFree, jobVars, TypeOK
  <1>3. ASSUME NEW a \in Agent, GenCopy(a)
        PROVE w_lock' # Free /\ job'.id = job.id
    <2>1. w_lock' = w_lock /\ w_lock = a /\ a # Free
      BY <1>3, Owners DEF GenCopy, At, lockVars, TypeOK
    <2>2. job' = [job EXCEPT !.xn2 = Xn2Next(@)]
      BY <1>3 DEF GenCopy
    <2>3. QED
      BY <2>1, <2>2 DEF TypeOK, JobTypeOK
  <1>4. ASSUME NEW a \in Agent, GenHeader(a)
        PROVE job'.id = job.id /\ g_work'.hjob = job.id
    BY <1>4 DEF GenHeader, jobVars, TypeOK, GTypeOK, Work
  <1>5. CASE StratumNotify
    <2>1. g_work' = g_work /\ w_lock' = w_lock
      BY <1>5 DEF StratumNotify, gVars, lockVars
    <2>2. job'.id = job.id \/ job'.id = job.id + 1
      BY <1>5 DEF StratumNotify
    <2>3. QED
      BY <1>1, <2>1, <2>2 DEF MayHold
  <1>6. QED
    BY <1>2, <1>3, <1>4, <1>5, HeaderFrame DEF MayHold

\* Every holder got its work from another one.
LEMMA HoldersFrame ==
    ASSUME TypeOK, [Next]_vars
    PROVE /\ \A m \in Miner : work'[m] = work[m] \/ (work'[m] = g_work /\ MinerCopy(m))
          /\ \A i \in DOMAIN queue' : queue'[i] # Null =>
                \/ \E k \in DOMAIN queue : queue'[i] = queue[k]
                \/ \E m \in Miner : queue'[i] = work[m]
          /\ \/ cmd' = cmd \/ cmd' = NoWork
             \/ \E k \in DOMAIN queue : queue[k] # Null /\ cmd' = queue[k]
  <1>1. ASSUME NEW m \in Miner
        PROVE work'[m] = work[m] \/ (work'[m] = g_work /\ MinerCopy(m))
    <2>1. ASSUME NEW n \in Miner, MinerCopy(n)
          PROVE work' = work \/ work' = [work EXCEPT ![n] = g_work]
      BY <2>1 DEF MinerCopy, get_new_work
    <2>2. ASSUME NEW n \in Miner, MinerHash(n) PROVE work' = work
      BY <2>2 DEF MinerHash
    <2>3. QED
      BY <2>1, <2>2, MinerFrame DEF minerVars, TypeOK, MinerTypeOK
  <1> DEFINE FromHolder == \A i \in DOMAIN queue' : queue'[i] # Null =>
                \/ \E k \in DOMAIN queue : queue'[i] = queue[k]
                \/ \E m \in Miner : queue'[i] = work[m]
  <1> DEFINE Taken == \/ cmd' = cmd \/ cmd' = NoWork
                     \/ \E k \in DOMAIN queue : queue[k] # Null /\ cmd' = queue[k]
  <1>2. queue \in Seq(Work \cup {Null}) /\ \A m \in Miner : work[m] \in Work
    BY DEF TypeOK, ShareTypeOK, MinerTypeOK
  <1>3. CASE WorkioPop
    <2>1. queue # <<>> /\ queue' = Tail(queue)
      BY <1>3 DEF WorkioPop
    <2>2. \A i \in DOMAIN queue' : i + 1 \in DOMAIN queue /\ queue'[i] = queue[i + 1]
      BY <1>2, <2>1, HeadTailProperties, LenProperties
    <2>3. Head(queue) = queue[1] /\ 1 \in DOMAIN queue
      BY <1>2, <2>1, HeadTailProperties, LenProperties, EmptySeq
    <2>4. cmd' = cmd \/ (Head(queue) # Null /\ cmd' = Head(queue))
      BY <1>3 DEF WorkioPop
    <2>5. FromHolder
      BY <2>2
    <2>6. Taken
      BY <2>3, <2>4
    <2>7. QED
      BY <1>1, <2>5, <2>6
  <1>4. ASSUME NEW c \in Work \cup {Null}, queue' = Append(queue, c),
               c # Null => \E m \in Miner : c = work[m]
        PROVE FromHolder
    <2>1. /\ \A i \in 1..Len(queue) : queue'[i] = queue[i]
          /\ queue'[Len(queue) + 1] = c
          /\ DOMAIN queue' = 1..(Len(queue) + 1) /\ DOMAIN queue = 1..Len(queue)
          /\ Len(queue) \in Nat
      BY <1>2, <1>4, AppendProperties, LenProperties
    <2>2. ASSUME NEW i \in DOMAIN queue', queue'[i] # Null
          PROVE \/ \E k \in DOMAIN queue : queue'[i] = queue[k]
                \/ \E m \in Miner : queue'[i] = work[m]
      <3>1. i \in DOMAIN queue \/ i = Len(queue) + 1
        BY <2>1
      <3>2. QED
        BY <1>4, <2>1, <2>2, <3>1
    <2>3. QED
      BY <2>2
  <1>5. CASE UNCHANGED shareVars \/ WorkioCompare \/ WorkioSent \/ WorkioFailed
    <2>1. queue' = queue /\ (cmd' = cmd \/ cmd' = NoWork)
      BY <1>5 DEF shareVars, WorkioCompare, WorkioSent, WorkioFailed, WorkioDone
    <2>2. QED
      BY <1>1, <2>1
  <1>6. CASE StratumConnect \/ StratumSubscribe \/ StratumAuthorize
    <2>1. cmd' = cmd /\ (queue' = queue \/ queue' = Append(queue, Null))
      BY <1>6 DEF StratumConnect, StratumSubscribe, StratumAuthorize, ConnectFailed, StratumEnd, tq_push, shareVars
    <2>2. QED
      BY <1>1, <2>1, <1>4
  <1>7. ASSUME NEW m \in Miner, MinerFound(m) \/ MinerSubmit(m)
        PROVE FromHolder /\ Taken
    <2>1. cmd' = cmd /\ (queue' = queue \/ queue' = Append(queue, work[m]))
      BY <1>7 DEF MinerFound, MinerSubmit, tq_push
    <2>2. work[m] \in Work \cup {Null}
      BY <1>2
    <2>3. QED
      BY <2>1, <2>2, <1>4
  <1>8. FromHolder /\ Taken
    BY <1>3, <1>5, <1>6, <1>7, ShareFrame DEF WorkioStep
  <1>9. QED
    BY <1>1, <1>8

LEMMA HeldStep == ASSUME TypeOK, LockInv, Xn2Inv, HeldInv, [Next]_vars PROVE HeldInv'
  <1> DEFINE Held(w) == MayHold(w, job.id, w_lock, g_work.hjob)
  <1> DEFINE HeldNext(w) == MayHold(w, job'.id, w_lock', g_work'.hjob)
  <1>1. /\ \A m \in Miner : Held(work[m]) /\ work[m].hjob \in Nat
        /\ \A i \in DOMAIN queue : queue[i] # Null => Held(queue[i]) /\ queue[i].hjob \in Nat
        /\ Held(cmd) /\ cmd.hjob \in Nat
    <2>1. \A i \in DOMAIN queue : queue[i] \in Work \cup {Null}
      BY LenProperties, ElementOfSeq DEF TypeOK, ShareTypeOK
    <2>2. \A w \in Work : w.hjob \in Nat
      BY DEF Work
    <2>3. cmd \in Work /\ \A m \in Miner : work[m] \in Work
      BY DEF TypeOK, ShareTypeOK, MinerTypeOK
    <2>4. QED
      BY <2>1, <2>2, <2>3 DEF HeldInv
  <1>2. Held(g_work) /\ g_work.hjob \in Nat /\ job.id \in Nat
    BY DEF MayHold, Xn2Inv, TypeOK, JobTypeOK, GTypeOK, Work
  <1>3. Held(NoWork) /\ NoWork.hjob \in Nat
    BY <1>2 DEF MayHold, NoWork
  <1>4. \A w : w.hjob \in Nat /\ Held(w) => HeldNext(w)
    BY StillHeld
  <1>5. \A m \in Miner : HeldNext(work'[m])
    BY <1>1, <1>2, <1>4, HoldersFrame
  <1>6. \A i \in DOMAIN queue' : queue'[i] # Null => HeldNext(queue'[i])
    BY <1>1, <1>4, HoldersFrame
  <1>7. HeldNext(cmd')
    BY <1>1, <1>3, <1>4, HoldersFrame
  <1>8. QED
    BY <1>5, <1>6, <1>7 DEF HeldInv

-----------------------------------------------------------------------------
(* The inductive invariant, and what follows from it. *)

LEMMA Inductive == Safety => []IInv
  <1>1. Init => IInv
    <2>1. ASSUME Init PROVE TypeOK /\ LockInv /\ HeaderInv /\ JobInv /\ Xn2Inv /\ TargetInv
                             /\ HeldInv
      <3>1. LockInv /\ JobInv
        BY <2>1, StratumWorkAssumption DEF Init, LockInv, JobInv, Agent, HoldsGWorkLock, HoldsWorkLock, GenPoint
      <3>2. HeaderInv
        BY <2>1 DEF Init, HeaderInv, ShareNamesItsHeader, NamesItsHeader, NoWork, Agent
      <3>3. QED
        BY <2>1, <3>1, <3>2, TypeInit, Xn2Init, HeldInit
    <2>2. QED
      BY <2>1 DEF IInv
  <1>2. IInv /\ [Next]_vars => IInv'
    <2>1. ASSUME IInv, [Next]_vars PROVE IInv'
      BY <2>1, TypeStep, LockStep, HeaderStep, JobStep, Xn2Step, TargetStep, HeldStep
         DEF IInv, TypeOK
    <2>2. QED
      BY <2>1
  <1>3. QED
    BY <1>1, <1>2, PTL DEF Safety

(* Every variable keeps its type: in particular the nonce of a miner never
   passes the end of its range by more than the one hash scanhash always does. *)
THEOREM TypeCorrect == Safety => []TypeOK
  BY Inductive, PTL DEF IInv

(* Whatever the interleaving of rebuilds, notifications and copies, the job_id
   and extranonce2 of a share are those its header was hashed with. *)
THEOREM SharesNameTheirHeader == Safety => []ShareNamesItsHeader
  <1>1. IInv => ShareNamesItsHeader
    BY DEF IInv, HeaderInv
  <1>2. QED
    BY <1>1, Inductive, PTL

(* No thread runs gen_work before a job was received. *)
THEOREM RebuildsHaveAJob == Safety => []RebuildHasJob
  <1>1. IInv => RebuildHasJob
    BY StratumWorkAssumption
       DEF IInv, JobInv, RebuildHasJob, Agent, GenPoint
  <1>2. QED
    BY <1>1, Inductive, PTL

(* Until extranonce2 wraps, a rebuild never yields a header somebody holds. *)
THEOREM HeadersAreNew == Safety => []HeaderNeverRepeated
  <1>1. IInv => HeaderNeverRepeated
    BY DEF IInv, Xn2Inv
  <1>2. QED
    BY <1>1, Inductive, PTL

(* A target of another job than the header's is never in work that is current
   and that a miner could take. *)
THEOREM WrongTargetsAreSuperseded == Safety => []WrongTargetIsSuperseded
  <1>1. IInv => WrongTargetIsSuperseded
    <2>1. ASSUME IInv, g_lock = Free PROVE \A a \in Agent : pc[a] \notin GenPoint
      BY <2>1, Owners DEF IInv, TypeOK
    <2>2. QED
      BY <2>1 DEF IInv, TargetInv, WrongTargetIsSuperseded
  <1>2. QED
    BY <1>1, Inductive, PTL

\* Only the comparison in submit_upstream_work discards a share.
LEMMA DiscardFrame ==
    ASSUME [Next]_vars, Discarded
    PROVE WorkioCompare /\ ~SameBlock(cmd, g_work)
  <1>1. CASE WorkioStep
    BY <1>1 DEF WorkioStep, WorkioPop, WorkioCompare, WorkioSent, WorkioFailed, WorkioDone, Discarded
  <1>2. wpc' = wpc \/ WorkioStep
    BY ShareFrame DEF shareVars, StratumConnect, StratumSubscribe, StratumAuthorize,
       ConnectFailed, MinerFound, MinerSubmit
  <1>3. QED
    BY <1>1, <1>2 DEF Discarded

(* With a pool that does not go back to an earlier block, submit_upstream_work
   discards a share of the block of the newest job only when it reads g_work in
   the middle of a rebuild, however many jobs g_work is behind. *)
THEOREM DiscardsAreJustified ==
    ASSUME NoBlockReturns
    PROVE Safety => DiscardOnlyStaleOrRebuilding
  <1>1. ASSUME IInv, [Next]_vars, Discarded, w_lock = Free
        PROVE PrevBlock(cmd.hjob) # PrevBlock(job.id)
    <2>1. PrevBlock(cmd.hjob) # PrevBlock(g_work.hjob)
      BY <1>1, DiscardFrame DEF SameBlock
    <2>2. /\ cmd.hjob \in 0..MaxJob /\ g_work.hjob \in 0..MaxJob /\ job.id \in 0..MaxJob
      BY <1>1 DEF IInv, TypeOK, ShareTypeOK, GTypeOK, JobTypeOK, Work
    <2>3. cmd.hjob <= g_work.hjob /\ g_work.hjob <= job.id
      BY <1>1 DEF IInv, HeldInv, MayHold, Xn2Inv
    <2>4. MaxJob \in Nat /\ \A j \in JobId : Block[j] # 0
      BY StratumWorkAssumption DEF JobId
    <2>5. CASE cmd.hjob = 0
      <3>1. job.id \in JobId
        BY <2>1, <2>2, <2>3, <2>4, <2>5 DEF JobId
      <3>2. QED
        BY <2>4, <2>5, <3>1 DEF PrevBlock, JobId
    <2>6. CASE cmd.hjob # 0
      <3>1. cmd.hjob \in JobId /\ g_work.hjob \in JobId /\ job.id \in JobId
        BY <2>2, <2>3, <2>4, <2>6 DEF JobId
      <3>2. cmd.hjob # 0 /\ g_work.hjob # 0 /\ job.id # 0
        BY <3>1 DEF JobId
      <3>3. QED
        BY <2>1, <2>3, <3>1, <3>2, NoBlockReturns DEF PrevBlock, NoBlockReturns
    <2>7. QED
      BY <2>5, <2>6
  <1>2. IInv /\ [Next]_vars
          => [Discarded => \/ PrevBlock(cmd.hjob) # PrevBlock(job.id)
                           \/ w_lock # Free]_vars
    BY <1>1
  <1>3. QED
    BY <1>2, Inductive, PTL DEF Safety, DiscardOnlyStaleOrRebuilding
=============================================================================
