----------------------------- MODULE StratumWork -----------------------------
(***************************************************************************)
(* How a stratum job becomes work, and how a share found in that work goes *)
(* back to the pool: the stratum thread, the miner threads and the workio  *)
(* thread of cpu-miner.c around the one shared g_work.                     *)
(*                                                                         *)
(*   - the stratum thread receives jobs into sctx->job, rebuilds g_work    *)
(*     from them and raises the restart flags of the miners;               *)
(*   - a miner copies g_work under g_work_lock (rebuilding it first when   *)
(*     its own nonce range is used up), then clears its restart flag and   *)
(*     scans without any lock;                                             *)
(*   - the workio thread compares the block of a share with g_work, WITHOUT*)
(*     a lock, before it sends the share.                                  *)
(*                                                                         *)
(* Two mutexes are explicit: g_work_lock (g_lock) and sctx->work_lock      *)
(* (w_lock). Every access the code makes outside them is a step of its     *)
(* own, so the model interleaves exactly where the code can be interleaved.*)
(*                                                                         *)
(* Data that is abstracted: a header is the pair (job, extranonce2) its    *)
(* merkle root was computed from; its previous block is a function of the  *)
(* job; a nonce is an offset in the range of its thread (NonceScan has the *)
(* real arithmetic); times are "zero", "fresh" and "old".                  *)
(***************************************************************************)
EXTENDS Integers, Sequences

CONSTANTS
    Miner,      \* the miner threads
    Stratum,    \* the stratum thread
    Free,       \* the owner of a mutex nobody holds
    Null,       \* the NULL command that ends the workio thread
    MaxJob,     \* bound: the pool announces jobs 1..MaxJob, in this order
    Block,      \* Block[j]: the previous block job j builds on
    Clean,      \* Clean[j]: the clean_jobs flag of job j
    Diff,       \* the share difficulties the pool may set
    FirstDiff,  \* the difficulty a subscription starts with
    Xn2Size,    \* number of values of extranonce2: it wraps to 0
    RangeLen,   \* number of nonces in the range of a thread
    MaxFound,   \* bound: shares found in a behaviour
    Retries     \* opt_retries: -1 retries for ever

ASSUME StratumWorkAssumption ==
    /\ Stratum \notin Miner
    /\ Free \notin Miner \cup {Stratum}
    /\ MaxJob \in Nat \ {0}
    /\ Block \in [1..MaxJob -> Nat \ {0}]
    /\ Clean \in [1..MaxJob -> BOOLEAN]
    /\ FirstDiff \in Diff
    /\ Xn2Size \in Nat \ {0}
    /\ RangeLen \in Nat \ {0}
    /\ MaxFound \in Nat
    /\ Retries \in Nat \cup {-1}

VARIABLES
    conn,       \* "up" while sctx->curl is a connected handle
    job,        \* sctx->job: [id, xn2, diff]; id 0 before the first notify
    next_diff,  \* sctx->next_diff
    attached,   \* history: the difficulties announced together with a job
    wrapped,    \* history: the extranonce2 of the current job has wrapped
    g_work,     \* the shared work
    g_time,     \* g_work_time: "zero", "fresh", or "old" after 120 seconds
    g_lock,     \* owner of g_work_lock
    w_lock,     \* owner of sctx->work_lock
    pc,         \* control point of every miner and of the stratum thread
    failures,   \* of the connection attempts of the stratum thread
    work,       \* work[m]: the copy miner m works on
    nonce,      \* nonce[m]: the nonce field of that copy
    end_nonce,  \* end_nonce[m]
    restart,    \* work_restart[m].restart
    queue,      \* the command queue of the workio thread
    wpc,        \* control point of the workio thread
    cmd,        \* the share it handles
    tries,      \* failed attempts for that share
    found,      \* number of shares found (bounds the model)
    exited      \* main() returned: every thread is gone

connVars  == <<conn, failures>>
jobVars   == <<job, next_diff, attached, wrapped>>
gVars     == <<g_work, g_time>>
lockVars  == <<g_lock, w_lock>>
minerVars == <<work, nonce, end_nonce>>
shareVars == <<queue, wpc, cmd, tries, found>>
vars == <<connVars, jobVars, gVars, lockVars, pc, minerVars, restart,
          shareVars, exited>>

Agent == Miner \cup {Stratum}
JobId == 1..MaxJob
Xn2   == 0..(Xn2Size - 1)

(* A struct work. `id` and `xn2` are what a share names (job_id, xnonce2);
   `hjob` and `hxn2` are what the header was really built from. hjob = 0 is a
   header that is all zero; id = 0 is a job_id pointer that is freed or NULL. *)
Work == [id : 0..MaxJob, xn2 : Xn2, hjob : 0..MaxJob, hxn2 : Xn2, target : Diff]

NoWork == [id |-> 0, xn2 |-> 0, hjob |-> 0, hxn2 |-> 0, target |-> FirstDiff]

(* The header words data[0..18] that get_new_work compares. *)
Header(w) == IF w.hjob = 0 THEN <<0, 0>> ELSE <<w.hjob, w.hxn2>>

(* data[1..8]: the previous block named by a header, 0 in a zeroed one. *)
PrevBlock(j) == IF j = 0 THEN 0 ELSE Block[j]

(* get_new_work compares headers; a comparison of the previous block alone
   would miss new transactions. *)
OtherBlock(w, v) == PrevBlock(w.hjob) # PrevBlock(v.hjob)
OtherHeader(w, v) == Header(w) # Header(v)

(* submit_upstream_work compares previous blocks, not whole headers. *)
SameJob(w, v) == w.hjob = v.hjob
SameBlock(w, v) == PrevBlock(w.hjob) = PrevBlock(v.hjob)

(* The byte-wise increment of extranonce2 in build_extraheader. *)
Xn2Counter(n) == n + 1
Xn2Next(n) == (n + 1) % Xn2Size

(* What is left of an offset once it is past the range: the code only asks
   whether it is at or beyond end_nonce. *)
Offset(n) == IF n > RangeLen + 1 THEN RangeLen + 1 ELSE n

(* Points of the code inside gen_work, g_work_lock held. *)
GenPoint == {"gen_free", "gen_copy", "gen_header", "gen_target"}

StratumPoint == {"zero", "connect", "subscribe", "auth", "check", "lock", "time", "restart",
                 "recv", "out"} \cup GenPoint

MinerPoint == {"wait", "lock", "copy", "clear", "scan", "submit", "out"} \cup GenPoint

Init ==
    /\ conn = "down"
    /\ job = [id |-> 0, xn2 |-> 0, diff |-> FirstDiff]
    /\ next_diff = FirstDiff
    /\ attached = [j \in JobId |-> {}]
    /\ wrapped = FALSE
    /\ g_work = NoWork
    /\ g_time = "zero"
    /\ g_lock = Free
    /\ w_lock = Free
    /\ pc = [a \in Agent |-> IF a = Stratum THEN "zero" ELSE "wait"]
    /\ failures = 0
    /\ work = [m \in Miner |-> NoWork]
    /\ nonce = [m \in Miner |-> 0]
    /\ end_nonce = [m \in Miner |-> 0]
    /\ restart = [m \in Miner |-> FALSE]
    /\ queue = <<>>
    /\ wpc = "idle"
    /\ cmd = NoWork
    /\ tries = 0
    /\ found = 0
    /\ exited = FALSE

At(a, p) == pc[a] = p /\ ~exited

Goto(a, p) == pc' = [pc EXCEPT ![a] = p]

-----------------------------------------------------------------------------
(* std_stratum_gen_work: run by the stratum thread or by a miner, always with
   g_work_lock held. The first three steps also hold sctx->work_lock. *)

\* Take work_lock; the job_id of g_work is freed.
GenFree(a) ==
    /\ At(a, "gen_free")
    /\ w_lock = Free
    /\ w_lock' = a
    /\ g_work' = [g_work EXCEPT !.id = 0]
    /\ Goto(a, "gen_copy")
    /\ UNCHANGED <<connVars, jobVars, g_time, g_lock, minerVars, restart, shareVars, exited>>

\* The same with the increment before the copy: g_work would name the next one.
GenCopyLate(a) ==
    /\ At(a, "gen_copy")
    /\ g_work' = [id |-> job.id, xn2 |-> Xn2Next(job.xn2), hjob |-> 0, hxn2 |-> job.xn2,
                  target |-> g_work.target]
    /\ job' = [job EXCEPT !.xn2 = Xn2Next(@)]
    /\ wrapped' = (wrapped \/ job.xn2 + 1 = Xn2Size)
    /\ Goto(a, "gen_header")
    /\ UNCHANGED <<connVars, next_diff, attached, g_time, lockVars, minerVars,
                   restart, shareVars, exited>>

\* Copy job_id and extranonce2; build_extraheader computes the merkle root,
\* then increments the extranonce2 of the job; build_block_header zeroes data.
GenCopy(a) ==
    /\ At(a, "gen_copy")
    /\ g_work' = [id |-> job.id, xn2 |-> job.xn2, hjob |-> 0, hxn2 |-> job.xn2,
                  target |-> g_work.target]
    /\ job' = [job EXCEPT !.xn2 = Xn2Next(@)]
    /\ wrapped' = (wrapped \/ job.xn2 + 1 = Xn2Size)
    /\ Goto(a, "gen_header")
    /\ UNCHANGED <<connVars, next_diff, attached, g_time, lockVars, minerVars,
                   restart, shareVars, exited>>

\* Assemble the header and release work_lock.
GenHeader(a) ==
    /\ At(a, "gen_header")
    /\ g_work' = [g_work EXCEPT !.hjob = job.id]
    /\ w_lock' = Free
    /\ Goto(a, "gen_target")
    /\ UNCHANGED <<connVars, jobVars, g_time, g_lock, minerVars, restart, shareVars, exited>>

\* set_target reads sctx->job.diff after work_lock was released.
GenTarget(a) ==
    /\ At(a, "gen_target")
    /\ g_work' = [g_work EXCEPT !.target = job.diff]
    /\ Goto(a, IF a = Stratum THEN "time" ELSE "copy")
    /\ UNCHANGED <<connVars, jobVars, g_time, lockVars, minerVars, restart, shareVars, exited>>

GenWork(a) == GenFree(a) \/ GenCopy(a) \/ GenHeader(a) \/ GenTarget(a)

-----------------------------------------------------------------------------
(* The stratum thread. *)

(* tq_push: a frozen queue takes nothing. *)
tq_push(c) == IF wpc = "done" THEN queue ELSE Append(queue, c)

(* Out of retries, the stratum thread returns; the NULL command tells workio. *)
QuietEnd == queue' = queue
StratumEnd == queue' = tq_push(Null)

restart_threads == restart' = [m \in Miner |-> TRUE]

\* stratum_disconnect, then the loop over !stratum.curl is entered again.
Disconnect ==
    /\ conn' = "down"
    /\ Goto(Stratum, "zero")

\* Top of the connection loop: g_work_time = 0 under g_work_lock.
StratumZero ==
    /\ At(Stratum, "zero")
    /\ g_lock = Free
    /\ g_time' = "zero"
    /\ Goto(Stratum, "connect")
    /\ UNCHANGED <<connVars, jobVars, g_work, lockVars, minerVars, restart, shareVars, exited>>

\* A failed connect, subscribe or authorize: give up with the NULL command
\* once the retries are used up, else pause and try again.
ConnectFailed ==
    /\ conn' = "down"
    /\ UNCHANGED <<job, attached, wrapped, gVars, lockVars, minerVars, wpc, cmd, tries,
                   found, exited>>
    /\ \/ /\ Retries >= 0 /\ failures + 1 > Retries
          /\ StratumEnd
          /\ failures' = 0
          /\ Goto(Stratum, "out")
       \/ /\ Retries < 0 \/ failures + 1 <= Retries
          /\ failures' = IF Retries < 0 THEN 0 ELSE failures + 1
          /\ queue' = queue
          /\ Goto(Stratum, "zero")

\* restart_threads and stratum_connect: from now on shares can be sent.
StratumConnect ==
    /\ At(Stratum, "connect")
    /\ restart_threads
    /\ \/ /\ conn' = "up"
          /\ Goto(Stratum, "subscribe")
          /\ UNCHANGED <<failures, jobVars, gVars, lockVars, minerVars, shareVars, exited>>
       \/ ConnectFailed /\ UNCHANGED next_diff

\* stratum_subscribe: an answer resets next_diff, under work_lock, before its
\* extranonce is looked at.
StratumSubscribe ==
    /\ At(Stratum, "subscribe")
    /\ \/ /\ w_lock = Free
          /\ next_diff' = FirstDiff
          /\ \/ /\ Goto(Stratum, "auth")
                /\ UNCHANGED <<connVars, job, attached, wrapped, gVars, lockVars, minerVars,
                               shareVars, exited>>
             \/ ConnectFailed
       \/ ConnectFailed /\ UNCHANGED next_diff
    /\ UNCHANGED restart

\* stratum_authorize has its answer.
StratumAuthorize ==
    /\ At(Stratum, "auth")
    /\ \/ /\ Goto(Stratum, "check")
          /\ failures' = 0
          /\ UNCHANGED <<conn, jobVars, gVars, lockVars, minerVars, restart, shareVars, exited>>
       \/ /\ ConnectFailed
          /\ UNCHANGED <<next_diff, restart>>

\* The API asked for a new connection (stratum_need_reset).
StratumReset ==
    /\ At(Stratum, "check")
    /\ Disconnect
    /\ UNCHANGED <<failures, jobVars, gVars, lockVars, minerVars, restart, shareVars, exited>>

\* Is g_work still built from sctx->job? Read without g_work_lock: a job_id
\* that is freed at this moment may compare either way.
JobIsNews ==
    /\ job.id # 0
    /\ \/ g_time = "zero"
       \/ g_work.id # job.id

JobMayLookOld ==
    \/ job.id = 0
    \/ g_time # "zero" /\ g_work.id \in {0, job.id}

StratumCheck ==
    /\ At(Stratum, "check")
    /\ \/ JobIsNews /\ Goto(Stratum, "lock")
       \/ JobMayLookOld /\ Goto(Stratum, "recv")
    /\ UNCHANGED <<connVars, jobVars, gVars, lockVars, minerVars, restart, shareVars, exited>>

StratumLock ==
    /\ At(Stratum, "lock")
    /\ g_lock = Free
    /\ g_lock' = Stratum
    /\ Goto(Stratum, "gen_free")
    /\ UNCHANGED <<connVars, jobVars, gVars, w_lock, minerVars, restart, shareVars, exited>>

\* time(&g_work_time), and g_work_lock is released.
StratumTime ==
    /\ At(Stratum, "time")
    /\ g_time' = "fresh"
    /\ g_lock' = Free
    /\ Goto(Stratum, "restart")
    /\ UNCHANGED <<connVars, jobVars, g_work, w_lock, minerVars, restart, shareVars, exited>>

StratumRestart ==
    /\ At(Stratum, "restart")
    /\ IF Clean[job.id] THEN restart_threads ELSE UNCHANGED restart
    /\ Goto(Stratum, "recv")
    /\ UNCHANGED <<connVars, jobVars, gVars, lockVars, minerVars, shareVars, exited>>

\* After a line: another turn of the loop, except while authorize waits.
AfterLine == IF pc[Stratum] = "auth" THEN UNCHANGED pc ELSE Goto(Stratum, "check")

(* Only another job_id starts extranonce2 from zero. *)
ZeroXn2(j) == 0
NotifyXn2(j) == IF j = job.id THEN job.xn2 ELSE 0

\* mining.notify: the next job, or the current one again. The extranonce2
\* starts from zero only under a new job_id.
StratumNotify ==
    /\ ~exited /\ pc[Stratum] \in {"auth", "recv"}
    /\ w_lock = Free
    /\ \E j \in {job.id, job.id + 1} \cap JobId :
          /\ job' = [id |-> j, xn2 |-> NotifyXn2(j),
                     diff |-> next_diff]
          /\ attached' = [attached EXCEPT ![j] = @ \cup {next_diff}]
          /\ wrapped' = (wrapped /\ j = job.id)
    /\ AfterLine
    /\ UNCHANGED <<connVars, next_diff, gVars, lockVars, minerVars, restart, shareVars, exited>>

\* The same, applied to the current job at once.
StratumSetDifficultyNow ==
    /\ ~exited /\ pc[Stratum] \in {"auth", "recv"}
    /\ w_lock = Free
    /\ \E d \in Diff : next_diff' = d /\ job' = [job EXCEPT !.diff = d]
    /\ AfterLine
    /\ UNCHANGED <<connVars, attached, wrapped, gVars, lockVars, minerVars,
                   restart, shareVars, exited>>

\* mining.set_difficulty: the difficulty of the NEXT job.
StratumSetDifficulty ==
    /\ ~exited /\ pc[Stratum] \in {"auth", "recv"}
    /\ w_lock = Free
    /\ \E d \in Diff : next_diff' = d
    /\ AfterLine
    /\ UNCHANGED <<connVars, job, attached, wrapped, gVars, lockVars, minerVars,
                   restart, shareVars, exited>>

\* Any other line: an answer, a ping, an unknown method.
StratumOtherLine ==
    /\ At(Stratum, "recv")
    /\ Goto(Stratum, "check")
    /\ UNCHANGED <<connVars, jobVars, gVars, lockVars, minerVars, restart, shareVars, exited>>

\* No line: time out, or the pool closed the connection; or the line is
\* client.reconnect.
StratumLost ==
    /\ At(Stratum, "recv")
    /\ Disconnect
    /\ UNCHANGED <<failures, jobVars, gVars, lockVars, minerVars, restart, shareVars, exited>>

-----------------------------------------------------------------------------
(* A miner thread. *)

(* std_wait_for_diff compares the clock with g_work_time + 120, so 0 is old. *)
NotOldWork == g_time # "old"
FreshWork == g_time = "fresh"

\* wait_for_diff: no work that is 120 seconds old, or withdrawn.
MinerWait(m) ==
    /\ At(m, "wait")
    /\ FreshWork
    /\ Goto(m, "lock")
    /\ UNCHANGED <<connVars, jobVars, gVars, lockVars, minerVars, restart, shareVars, exited>>

\* g_work_lock; a used up range makes the miner rebuild g_work itself.
MinerLock(m) ==
    /\ At(m, "lock")
    /\ g_lock = Free
    /\ g_lock' = m
    /\ Goto(m, IF nonce[m] >= end_nonce[m] THEN "gen_free" ELSE "copy")
    /\ UNCHANGED <<connVars, jobVars, gVars, w_lock, minerVars, restart, shareVars, exited>>

\* std_get_new_work: another header is copied (the job_id pointers always
\* differ after work_copy), the same one goes on with the next nonce.
get_new_work(m) ==
    \/ /\ OtherHeader(work[m], g_work)
       /\ work' = [work EXCEPT ![m] = g_work]
       /\ nonce' = [nonce EXCEPT ![m] = 0]
       /\ end_nonce' = [end_nonce EXCEPT ![m] = RangeLen]
    \/ /\ ~OtherHeader(work[m], g_work)
       /\ nonce' = [nonce EXCEPT ![m] = Offset(@ + 1)]
       /\ UNCHANGED <<work, end_nonce>>

MinerCopy(m) ==
    /\ At(m, "copy")
    /\ get_new_work(m)
    /\ g_lock' = Free
    /\ Goto(m, "clear")
    /\ UNCHANGED <<connVars, jobVars, gVars, w_lock, restart, shareVars, exited>>

\* ready_to_mine or wanna_mine says no (no header yet, temperature, difficulty
\* or rate limit).
MinerDecline(m) ==
    /\ At(m, "clear")
    /\ Goto(m, "wait")
    /\ UNCHANGED <<connVars, jobVars, gVars, lockVars, minerVars, restart, shareVars, exited>>

\* work_restart[thr_id].restart = 0: the work was copied before, so a flag
\* raised in between is lost here.
MinerClear(m) ==
    /\ At(m, "clear")
    /\ work[m].hjob # 0
    /\ restart' = [restart EXCEPT ![m] = FALSE]
    /\ Goto(m, "scan")
    /\ UNCHANGED <<connVars, jobVars, gVars, lockVars, minerVars, shareVars, exited>>

\* One hash of scanhash: do { ... } while (n < max_nonce && !restart), where
\* max_nonce, estimated from the hash rate, is anywhere up to end_nonce.
MinerHash(m) ==
    /\ At(m, "scan")
    /\ nonce' = [nonce EXCEPT ![m] = Offset(@ + 1)]
    /\ \/ Goto(m, "wait")
       \/ nonce[m] + 1 < end_nonce[m] /\ ~restart[m] /\ UNCHANGED pc
    /\ UNCHANGED <<connVars, jobVars, gVars, lockVars, work, end_nonce, restart,
                   shareVars, exited>>

\* The hash meets the target: scanhash returns with that nonce in the work.
MinerFound(m) ==
    /\ At(m, "scan")
    /\ found < MaxFound
    /\ found' = found + 1
    /\ Goto(m, "submit")
    /\ UNCHANGED <<connVars, jobVars, gVars, lockVars, minerVars, restart,
                   queue, wpc, cmd, tries, exited>>

\* submit_work copies the work into a command; a frozen queue ends the thread.
MinerSubmit(m) ==
    /\ At(m, "submit")
    /\ IF wpc = "done"
       THEN Goto(m, "out") /\ UNCHANGED queue
       ELSE Goto(m, "wait") /\ queue' = tq_push(work[m])
    /\ UNCHANGED <<connVars, jobVars, gVars, lockVars, minerVars, restart,
                   wpc, cmd, tries, found, exited>>

MinerStep(m) ==
    \/ MinerWait(m) \/ MinerLock(m) \/ GenWork(m) \/ MinerCopy(m)
    \/ MinerDecline(m) \/ MinerClear(m) \/ MinerHash(m) \/ MinerFound(m)
    \/ MinerSubmit(m)

-----------------------------------------------------------------------------
(* The workio thread. *)

WorkioPop ==
    /\ ~exited /\ wpc = "idle" /\ queue # <<>>
    /\ queue' = Tail(queue)
    /\ IF Head(queue) = Null
       THEN wpc' = "done" /\ UNCHANGED cmd
       ELSE wpc' = "compare" /\ cmd' = Head(queue)
    /\ UNCHANGED tries
    /\ UNCHANGED <<connVars, jobVars, gVars, lockVars, pc, minerVars, restart, found, exited>>

\* workio_cmd_free clears the command.
WorkioDone == wpc' = "idle" /\ cmd' = NoWork /\ tries' = 0

\* submit_upstream_work: a share of another block than g_work is discarded.
\* g_work is read without g_work_lock.
WorkioCompare ==
    /\ ~exited /\ wpc = "compare"
    /\ IF ~SameBlock(cmd, g_work)
       THEN WorkioDone
       ELSE wpc' = "send" /\ UNCHANGED <<cmd, tries>>
    /\ UNCHANGED <<connVars, jobVars, gVars, lockVars, pc, minerVars, restart,
                   queue, found, exited>>

(* stratum_send_line: without a connection no line is sent. *)
CanSend == conn = "up"

WorkioSent ==
    /\ ~exited /\ wpc = "send"
    /\ CanSend
    /\ WorkioDone
    /\ UNCHANGED <<connVars, jobVars, gVars, lockVars, pc, minerVars, restart,
                   queue, found, exited>>

\* The line cannot be sent: all of submit_upstream_work again after a pause,
\* or the end of the workio thread.
WorkioFailed ==
    /\ ~exited /\ wpc = "send"
    /\ \/ /\ Retries >= 0 /\ tries + 1 > Retries
          /\ wpc' = "done" /\ cmd' = NoWork /\ tries' = 0
       \/ /\ Retries < 0 \/ tries + 1 <= Retries
          /\ wpc' = "compare"
          /\ tries' = IF Retries < 0 THEN 0 ELSE tries + 1
          /\ UNCHANGED cmd
    /\ UNCHANGED <<connVars, jobVars, gVars, lockVars, pc, minerVars, restart,
                   queue, found, exited>>

WorkioStep == WorkioPop \/ WorkioCompare \/ WorkioSent \/ WorkioFailed

\* main() has joined the workio thread and returns.
ProcessExit ==
    /\ ~exited /\ wpc = "done"
    /\ exited' = TRUE
    /\ UNCHANGED <<connVars, jobVars, gVars, lockVars, pc, minerVars, restart, shareVars>>

\* 120 seconds without a new job.
WorkExpires ==
    /\ ~exited /\ g_time = "fresh"
    /\ g_time' = "old"
    /\ UNCHANGED <<connVars, jobVars, g_work, lockVars, pc, minerVars, restart, shareVars, exited>>

\* Nothing runs after the process has exited.
Exited == exited /\ UNCHANGED vars

StratumStep ==
    \/ StratumZero \/ StratumConnect \/ StratumSubscribe \/ StratumAuthorize
    \/ StratumReset \/ StratumCheck \/ StratumLock \/ GenWork(Stratum) \/ StratumTime
    \/ StratumRestart \/ StratumNotify \/ StratumSetDifficulty
    \/ StratumOtherLine \/ StratumLost

Next ==
    \/ StratumStep
    \/ \E m \in Miner : MinerStep(m)
    \/ WorkioStep
    \/ ProcessExit
    \/ WorkExpires
    \/ Exited

Safety == Init /\ [][Next]_vars

-----------------------------------------------------------------------------
(* Scheduling. Every thread runs; a thread that waits for g_work_lock gets it
   in the end. stratum_socket_full returns after opt_timeout seconds, so the
   stratum thread never stays in "recv"; what it receives is not assumed. *)
Fairness ==
    /\ WF_vars(StratumStep)
    /\ SF_vars(StratumLock)
    /\ SF_vars(StratumZero)
    /\ \A m \in Miner : WF_vars(MinerStep(m)) /\ SF_vars(MinerLock(m))
    /\ WF_vars(WorkioStep)
    /\ WF_vars(ProcessExit)

Spec == Safety /\ Fairness

-----------------------------------------------------------------------------
(* Properties. *)

JobTypeOK ==
    /\ job \in [id : 0..MaxJob, xn2 : Xn2, diff : Diff]
    /\ next_diff \in Diff
    /\ attached \in [JobId -> SUBSET Diff]
    /\ wrapped \in BOOLEAN

GTypeOK ==
    /\ g_work \in Work
    /\ g_time \in {"zero", "fresh", "old"}

LockTypeOK ==
    /\ g_lock \in Agent \cup {Free}
    /\ w_lock \in Agent \cup {Free}

PcTypeOK ==
    /\ pc \in [Agent -> StratumPoint \cup MinerPoint]
    /\ pc[Stratum] \in StratumPoint
    /\ \A m \in Miner : pc[m] \in MinerPoint

MinerTypeOK ==
    /\ work \in [Miner -> Work]
    /\ nonce \in [Miner -> 0..(RangeLen + 1)]
    /\ end_nonce \in [Miner -> {0, RangeLen}]

ShareTypeOK ==
    /\ queue \in Seq(Work \cup {Null})
    /\ wpc \in {"idle", "compare", "send", "done"}
    /\ cmd \in Work
    /\ tries \in Nat
    /\ found \in 0..MaxFound

FlagTypeOK ==
    /\ conn \in {"up", "down"}
    /\ failures \in Nat
    /\ restart \in [Miner -> BOOLEAN]
    /\ exited \in BOOLEAN

\* Every variable has the type the code declares for it.
TypeOK ==
    /\ JobTypeOK /\ GTypeOK /\ LockTypeOK /\ PcTypeOK /\ MinerTypeOK
    /\ ShareTypeOK /\ FlagTypeOK

\* A share is for the job and the extranonce2 its header was hashed with.
NamesItsHeader(w) == w.id = w.hjob /\ w.xn2 = w.hxn2

(* What the miners, the queue and the workio thread hold always names its own
   header, and so does g_work while nobody rebuilds it: the pool can rebuild
   the header of every share from the job_id and extranonce2 of the share
   (std_stratum_gen_work, work_copy). *)
ShareNamesItsHeader ==
    /\ w_lock = Free => NamesItsHeader(g_work)
    /\ \A m \in Miner : NamesItsHeader(work[m])
    /\ \A i \in DOMAIN queue : queue[i] # Null => NamesItsHeader(queue[i])
    /\ NamesItsHeader(cmd)

(* gen_work is never run before a job was received: it would copy a NULL
   job_id and a NULL coinbase. Only g_work_time, set after the first rebuild,
   keeps the miners out (std_wait_for_diff). *)
RebuildHasJob == \A a \in Agent : pc[a] \in GenPoint => job.id # 0

(* Until the extranonce2 wraps, the one the next header of the current job
   will carry is in no header anybody holds: no two rebuilds of g_work give
   the same header, so no nonce is hashed twice for the pool. *)
HeaderNeverRepeated ==
    ~wrapped =>
        \A w \in {g_work} \cup {work[m] : m \in Miner} :
            w.hjob = job.id /\ w.hjob # 0 => w.hxn2 < job.xn2

(* set_target runs outside work_lock, so g_work may carry the difficulty of a
   later job; but only while that later job has yet to replace it. *)
WrongTargetIsSuperseded ==
    g_lock = Free /\ g_work.hjob # 0 /\ g_work.target \notin attached[g_work.hjob]
        => g_work.hjob # job.id

Discarded == wpc = "compare" /\ wpc' = "idle"

(* submit_upstream_work discards a share of the newest block only when it
   reads g_work in the middle of a rebuild, although its comment has it
   "pass if the previous hash is not the current previous hash". *)
DiscardOnlyStaleOrRebuilding ==
    [][Discarded => \/ PrevBlock(cmd.hjob) # PrevBlock(job.id)
                    \/ w_lock # Free]_vars

(* No miner stays on an outdated job for ever while g_work_time says that
   g_work is fresh: restart flags may be lost, the next get_new_work is not. *)
NoMinerStaysBehind ==
    \A m \in Miner :
        []<>(work[m].hjob = job.id \/ g_time # "fresh" \/ exited)

(* When the stratum thread gives up, the process ends, whatever is queued
   before its NULL command. *)
GivingUpEndsProcess == (pc[Stratum] = "out") ~> exited

=============================================================================
