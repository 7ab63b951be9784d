--------------------------- MODULE NeuromorphEpoch ---------------------------
(***************************************************************************)
(* The neuromorph algorithm over a jsonrpc_2 stratum: how the epoch that   *)
(* all threads hash with (g_nm_epoch and its 64 MiB dataset) follows the   *)
(* seed of the jobs.                                                       *)
(*                                                                         *)
(*   - the stratum thread decodes a job: first the globals of              *)
(*     rpc2_job_decode, g_nm_seed_hash among them, then sctx->work. After a*)
(*     login it copies sctx->work into g_work WITHOUT g_work_lock;         *)
(*   - every thread that hashes (the miners, and the workio thread for the *)
(*     result a share must carry) first calls nm_ensure_epoch: it reads the*)
(*     seed of the newest job, takes nm_epoch_lock, and rebuilds the epoch *)
(*     if the seed is another one;                                         *)
(*   - the hash itself reads the epoch without any lock.                   *)
(*                                                                         *)
(* Data that is abstracted: params, key schedule and dataset are the seed  *)
(* they were derived from; a header is its job, the end of a nonce range   *)
(* and of a scan may come at any time (NonceScan and StratumWork have the  *)
(* nonces and the restart flags).                                          *)
(***************************************************************************)
EXTENDS Integers, Sequences

CONSTANTS
    Miner,      \* the miner threads
    Stratum,    \* the stratum thread
    Workio,     \* the workio thread
    Free,       \* the owner of a mutex nobody holds
    MaxJob,     \* bound: the pool sends jobs 1..MaxJob, in this order
    Seed,       \* Seed[j]: the seed_hash of job j
    Height,     \* Height[j]: the height in the header of job j
    Activation, \* NM_DATASET_HEIGHT: from this height on a hash reads the dataset
    MaxFound    \* bound: shares found in a behaviour

ASSUME NeuromorphEpochAssumption ==
    /\ Stratum \notin Miner /\ Workio \notin Miner /\ Stratum # Workio
    /\ Free \notin Miner \cup {Stratum, Workio}
    /\ MaxJob \in Nat \ {0}
    /\ Seed \in [1..MaxJob -> Nat \ {0}]
    /\ Height \in [1..MaxJob -> Nat]
    /\ Activation \in Nat
    /\ MaxFound \in Nat

VARIABLES
    job,        \* sctx->work and sctx->job.job_id: the newest job, 0 for none
    job_seed,   \* g_nm_seed_hash, guarded by rpc2_job_lock
    news,       \* the job that is being decoded
    connected,  \* stratum.curl is there
    g_work,     \* the shared work: the job of its header, the job its id names
    g_time,     \* g_work_time is set
    g_lock,     \* owner of g_work_lock
    w_lock,     \* owner of sctx->work_lock
    pc,         \* control point of every thread
    work,       \* the work every hashing thread hashes
    my_seed,    \* my_seed[t]: the local variable seed of nm_ensure_epoch
    epoch_lock, \* owner of nm_epoch_lock
    nm_seed,    \* g_nm_seed, 0 while g_nm_have_seed is not set
    params,     \* seed of g_nm_epoch.params, 0 while they are written
    attached,   \* g_nm_epoch.dataset is not NULL
    buffer,     \* seed of the words in g_nm_dataset, 0 while they are written
    allocated,  \* g_nm_dataset is not NULL
    built_for,  \* history: the job in the header the epoch was initialised for
    queue,      \* shares for the workio thread
    found,      \* number of shares found (bounds the model)
    crashed     \* a NULL dataset was read: the process is gone

jobVars   == <<job, job_seed, news, connected>>
gVars     == <<g_work, g_time, g_lock, w_lock>>
epochVars == <<epoch_lock, nm_seed, params, attached, buffer, allocated, built_for>>
shareVars == <<queue, found>>
vars == <<jobVars, gVars, pc, work, my_seed, epochVars, shareVars, crashed>>

Hasher == Miner \cup {Workio}
Thread == Hasher \cup {Stratum}
JobId  == 1..MaxJob
Seeds  == {Seed[j] : j \in JobId}

(* `job` is what the header says, `id` what job_id names; job 0 is a zeroed
   header, id 0 a job_id that is NULL or freed. *)
Work   == [job : 0..MaxJob, id : 0..MaxJob]
NoWork == [job |-> 0, id |-> 0]

EnsurePoint == {"seed", "ensure", "params", "build"}

Init ==
    /\ job = 0 /\ job_seed = 0 /\ news = 0 /\ connected = FALSE
    /\ g_work = NoWork /\ g_time = FALSE /\ g_lock = Free /\ w_lock = Free
    /\ pc = [t \in Thread |-> IF t = Stratum THEN "login"
                              ELSE IF t = Workio THEN "idle" ELSE "lock"]
    /\ work = [t \in Hasher |-> NoWork]
    /\ my_seed = [t \in Hasher |-> 0]
    /\ epoch_lock = Free /\ nm_seed = 0 /\ params = 0 /\ attached = FALSE
    /\ buffer = 0 /\ allocated = FALSE /\ built_for = 0
    /\ queue = <<>> /\ found = 0
    /\ crashed = FALSE

At(t, p) == pc[t] = p /\ ~crashed

Goto(t, p) == pc' = [pc EXCEPT ![t] = p]

-----------------------------------------------------------------------------
(* The stratum thread. *)

\* A connection attempt that fails before its login is answered.
LoginFailed ==
    /\ At(Stratum, "login")
    /\ g_lock = Free
    /\ g_time' = FALSE
    /\ Goto(Stratum, "free")
    /\ UNCHANGED <<jobVars, g_work, g_lock, w_lock, work, my_seed, epochVars, shareVars, crashed>>

\* An answered login, up to its job: stratum_authorize takes work_lock. A pool
\* that knows no newer job sends the last one again.
LoginAnswered ==
    /\ At(Stratum, "login")
    /\ g_lock = Free /\ w_lock = Free
    /\ g_time' = FALSE
    /\ w_lock' = Stratum
    /\ connected' = TRUE
    /\ news' \in {job, job + 1} \cap JobId
    /\ Goto(Stratum, "decode_login")
    /\ UNCHANGED <<job, job_seed, g_work, g_lock, work, my_seed, epochVars, shareVars, crashed>>

\* A job between two answers: rpc2_stratum_job takes work_lock.
JobReceived ==
    /\ At(Stratum, "recv")
    /\ w_lock = Free
    /\ w_lock' = Stratum
    /\ news' \in {job, job + 1} \cap JobId
    /\ Goto(Stratum, "decode")
    /\ UNCHANGED <<job, job_seed, connected, g_work, g_time, g_lock, work, my_seed,
                   epochVars, shareVars, crashed>>

\* rpc2_job_decode, first half, under rpc2_job_lock.
DecodeSeed ==
    /\ ~crashed /\ pc[Stratum] \in {"decode_login", "decode"}
    /\ job_seed' = Seed[news]
    /\ Goto(Stratum, IF pc[Stratum] = "decode" THEN "store" ELSE "store_login")
    /\ UNCHANGED <<job, news, connected, gVars, work, my_seed, epochVars, shareVars, crashed>>

\* Second half: sctx->work, sctx->job.job_id, and work_lock is released.
DecodeWork ==
    /\ ~crashed /\ pc[Stratum] \in {"store_login", "store"}
    /\ job' = news
    /\ w_lock' = Free
    /\ Goto(Stratum, IF pc[Stratum] = "store" THEN "check" ELSE "free")
    /\ UNCHANGED <<job_seed, news, connected, g_work, g_time, g_lock, work, my_seed,
                   epochVars, shareVars, crashed>>

(* work_free, and the memcpy of work_copy has begun: job_id is freed, the
   header may be read old or new. *)
BeginCopy == \E j \in {g_work.job, job} : g_work' = [job |-> j, id |-> 0]

EndCopy == g_work' = [job |-> job, id |-> job]

\* After every connection attempt, failed or not: work_free(&g_work) ...
LoginFree ==
    /\ At(Stratum, "free")
    /\ BeginCopy
    /\ Goto(Stratum, "copy")
    /\ UNCHANGED <<jobVars, g_time, g_lock, w_lock, work, my_seed, epochVars, shareVars, crashed>>

\* ... work_copy(&g_work, &stratum.work), both without g_work_lock.
LoginCopy ==
    /\ At(Stratum, "copy")
    /\ EndCopy
    /\ Goto(Stratum, IF connected THEN "check" ELSE "login")
    /\ UNCHANGED <<jobVars, g_time, g_lock, w_lock, work, my_seed, epochVars, shareVars, crashed>>

\* Is g_work of another job? Read without g_work_lock: a freed id may compare
\* either way.
StratumCheck ==
    /\ At(Stratum, "check")
    /\ \/ /\ ~g_time \/ g_work.id # job
          /\ Goto(Stratum, "lock")
       \/ /\ g_time /\ g_work.id \in {0, job}
          /\ Goto(Stratum, "recv")
    /\ UNCHANGED <<jobVars, gVars, work, my_seed, epochVars, shareVars, crashed>>

\* Any other line, or none: the connection is given up.
StratumRecv ==
    /\ At(Stratum, "recv")
    /\ \/ /\ Goto(Stratum, "check")
          /\ UNCHANGED connected
       \/ /\ connected' = FALSE
          /\ Goto(Stratum, "login")
    /\ UNCHANGED <<job, job_seed, news, gVars, work, my_seed, epochVars, shareVars, crashed>>

-----------------------------------------------------------------------------
(* g_work_lock and jr2_stratum_gen_work: the stratum thread for a new job, a
   miner when its own nonce range is used up. *)

\* The bug of a rebuild that does not wait for g_work_lock.
TakeGWorkUnlocked(t) ==
    /\ At(t, "lock")
    /\ IF t = Stratum
       THEN Goto(t, "gen")
       ELSE Goto(t, "gen") \/ Goto(t, "copy")
    /\ UNCHANGED <<jobVars, gVars, work, my_seed, epochVars, shareVars, crashed>>

TakeGWork(t) ==
    /\ At(t, "lock")
    /\ g_lock = Free
    /\ g_lock' = t
    /\ IF t = Stratum
       THEN Goto(t, "gen")
       ELSE Goto(t, "gen") \/ Goto(t, "copy")
    /\ UNCHANGED <<jobVars, g_work, g_time, w_lock, work, my_seed, epochVars, shareVars, crashed>>

GenBegin(t) ==
    /\ At(t, "gen")
    /\ w_lock = Free
    /\ w_lock' = t
    /\ BeginCopy
    /\ Goto(t, "gen_copy")
    /\ UNCHANGED <<jobVars, g_time, g_lock, work, my_seed, epochVars, shareVars, crashed>>

\* The stratum thread also sets g_work_time and releases g_work_lock.
GenEnd(t) ==
    /\ At(t, "gen_copy")
    /\ EndCopy
    /\ w_lock' = Free
    /\ IF t = Stratum
       THEN g_time' = TRUE /\ g_lock' = Free /\ Goto(t, "recv")
       ELSE Goto(t, "copy") /\ UNCHANGED <<g_time, g_lock>>
    /\ UNCHANGED <<jobVars, work, my_seed, epochVars, shareVars, crashed>>

-----------------------------------------------------------------------------
(* A miner. *)

\* nm_get_new_work always copies: work_copy gave the two job_ids different
\* addresses.
CopyWork(m) ==
    /\ At(m, "copy")
    /\ work' = [work EXCEPT ![m] = g_work]
    /\ g_lock' = Free
    /\ UNCHANGED <<jobVars, g_work, g_time, w_lock, my_seed, epochVars, shareVars, crashed>>

MinerStart(m) == CopyWork(m) /\ g_work.job # 0 /\ Goto(m, "seed")

\* A header that is still zero, the temperature or a rate limit.
MinerDecline(m) == CopyWork(m) /\ Goto(m, "lock")

-----------------------------------------------------------------------------
(* nm_ensure_epoch, and the hash. *)

\* The id of the job instead of its seed.
ReadJob(t) ==
    /\ At(t, "seed")
    /\ my_seed' = [my_seed EXCEPT ![t] = job]
    /\ Goto(t, "ensure")
    /\ UNCHANGED <<jobVars, gVars, work, epochVars, shareVars, crashed>>

\* nm_get_job_seed_hash, under rpc2_job_lock.
ReadSeed(t) ==
    /\ At(t, "seed")
    /\ my_seed' = [my_seed EXCEPT ![t] = job_seed]
    /\ Goto(t, "ensure")
    /\ UNCHANGED <<jobVars, gVars, work, epochVars, shareVars, crashed>>

(* An epoch is rebuilt for another seed; the first one must not be the last. *)
OnlyFirstSeed(s) == nm_seed = 0
SeedChanged(s) == nm_seed = 0 \/ nm_seed # s

\* nm_epoch_lock: the seed is the one of the epoch ...
EpochCurrent(t) ==
    /\ At(t, "ensure")
    /\ epoch_lock = Free
    /\ ~SeedChanged(my_seed[t])
    /\ Goto(t, "hash")
    /\ UNCHANGED <<jobVars, gVars, work, my_seed, epochVars, shareVars, crashed>>

\* ... or another one: nm_fast_epoch_init overwrites params and key schedule.
EpochChange(t) ==
    /\ At(t, "ensure")
    /\ epoch_lock = Free
    /\ SeedChanged(my_seed[t])
    /\ epoch_lock' = t
    /\ nm_seed' = my_seed[t]
    /\ params' = 0
    /\ built_for' = work[t].job
    /\ Goto(t, "params")
    /\ UNCHANGED <<jobVars, gVars, work, my_seed, attached, buffer, allocated, shareVars, crashed>>

(* The dataset is for a header at or above the activation height. *)
DatasetNeeded(j) == Height[j] >= Activation

\* A dataset that is built only when its buffer is allocated.
EpochParamsOnce(t) ==
    /\ At(t, "params")
    /\ params' = my_seed[t]
    /\ IF DatasetNeeded(work[t].job) /\ ~allocated
       THEN /\ allocated' = TRUE
            /\ attached' = FALSE
            /\ Goto(t, "build")
            /\ UNCHANGED epoch_lock
       ELSE /\ attached' = DatasetNeeded(work[t].job)
            /\ epoch_lock' = Free
            /\ Goto(t, "hash")
            /\ UNCHANGED allocated
    /\ UNCHANGED <<jobVars, gVars, work, my_seed, nm_seed, buffer, built_for, shareVars, crashed>>

\* The epoch has its params and no dataset. The buffer of the dataset is
\* allocated once, by the first epoch that needs it, and that may fail.
EpochParams(t) ==
    /\ At(t, "params")
    /\ params' = my_seed[t]
    /\ attached' = FALSE
    /\ \/ /\ DatasetNeeded(work[t].job)
          /\ allocated' = TRUE
          /\ buffer' = 0
          /\ Goto(t, "build")
          /\ UNCHANGED epoch_lock
       \/ /\ DatasetNeeded(work[t].job) => ~allocated
          /\ epoch_lock' = Free
          /\ Goto(t, "hash")
          /\ UNCHANGED <<allocated, buffer>>
    /\ UNCHANGED <<jobVars, gVars, work, my_seed, nm_seed, built_for, shareVars, crashed>>

\* A dataset that is built and never attached.
EpochBuildLoose(t) ==
    /\ At(t, "build")
    /\ buffer' = params
    /\ epoch_lock' = Free
    /\ Goto(t, "hash")
    /\ UNCHANGED <<jobVars, gVars, work, my_seed, nm_seed, params, attached, allocated, built_for,
                   shareVars, crashed>>

\* nm_fast_build_dataset, nm_fast_set_dataset.
EpochBuild(t) ==
    /\ At(t, "build")
    /\ buffer' = params
    /\ attached' = TRUE
    /\ epoch_lock' = Free
    /\ Goto(t, "hash")
    /\ UNCHANGED <<jobVars, gVars, work, my_seed, nm_seed, params, allocated, built_for,
                   shareVars, crashed>>

Ensure(t) ==
    ReadSeed(t) \/ EpochCurrent(t) \/ EpochChange(t) \/ EpochParams(t) \/ EpochBuild(t)

(* nm_fast_hash reads e->dataset in every loop at or above the activation. *)
CanHash(t) == DatasetNeeded(work[t].job) => attached

HashCrash(t) ==
    /\ At(t, "hash")
    /\ ~CanHash(t)
    /\ crashed' = TRUE
    /\ UNCHANGED <<jobVars, gVars, pc, work, my_seed, epochVars, shareVars>>

\* One hash of scanhash_neuromorph: on to the next nonce, the end of the scan
\* (range, scan time or restart flag), or a share.
MinerHash(m) ==
    /\ At(m, "hash")
    /\ CanHash(m)
    /\ Goto(m, "lock")
    /\ \/ UNCHANGED shareVars
       \/ /\ found < MaxFound
          /\ found' = found + 1
          /\ queue' = Append(queue, work[m])
    /\ UNCHANGED <<jobVars, gVars, work, my_seed, epochVars, crashed>>

-----------------------------------------------------------------------------
(* The workio thread. *)

WorkioPop ==
    /\ At(Workio, "idle") /\ queue # <<>>
    /\ queue' = Tail(queue)
    /\ work' = [work EXCEPT ![Workio] = Head(queue)]
    /\ Goto(Workio, "compare")
    /\ UNCHANGED <<jobVars, gVars, my_seed, epochVars, found, crashed>>

(* Bytes 4..35 of the header begin with its height. *)
SameBlock(w, v) == v.job # 0 /\ Height[w.job] = Height[v.job]

\* submit_upstream_work: a share of another block is dropped, else
\* nm_hash_suw computes its result again, in the epoch of the newest job.
WorkioCompare ==
    /\ At(Workio, "compare")
    /\ IF SameBlock(work[Workio], g_work) THEN Goto(Workio, "seed") ELSE Goto(Workio, "idle")
    /\ UNCHANGED <<jobVars, gVars, work, my_seed, epochVars, shareVars, crashed>>

\* The line is sent, or all of submit_upstream_work is tried again.
WorkioSend ==
    /\ At(Workio, "hash")
    /\ CanHash(Workio)
    /\ IF connected THEN Goto(Workio, "idle") ELSE Goto(Workio, "compare")
    /\ UNCHANGED <<jobVars, gVars, work, my_seed, epochVars, shareVars, crashed>>

StratumStep ==
    \/ LoginFailed \/ LoginAnswered \/ JobReceived \/ DecodeSeed \/ DecodeWork
    \/ LoginFree \/ LoginCopy \/ StratumCheck \/ StratumRecv
    \/ TakeGWork(Stratum) \/ GenBegin(Stratum) \/ GenEnd(Stratum)

MinerStep(m) ==
    \/ TakeGWork(m) \/ GenBegin(m) \/ GenEnd(m) \/ MinerStart(m) \/ MinerDecline(m)
    \/ Ensure(m) \/ MinerHash(m) \/ HashCrash(m)

WorkioStep ==
    \/ WorkioPop \/ WorkioCompare \/ Ensure(Workio) \/ WorkioSend \/ HashCrash(Workio)

Crashed == crashed /\ UNCHANGED vars

Next ==
    \/ StratumStep
    \/ \E m \in Miner : MinerStep(m)
    \/ WorkioStep
    \/ Crashed

Safety == Init /\ [][Next]_vars

\* The steps that take a mutex; a thread waits for one of them at a time.
Acquire(t) == TakeGWork(t) \/ GenBegin(t)
AcquireEpoch(t) == EpochCurrent(t) \/ EpochChange(t)

(* Every thread runs, and a mutex that is released again and again is given to
   everyone who waits for it. Temperature and rate limits let a miner start
   again and again. What the pool sends is not assumed. *)
Fairness ==
    /\ WF_vars(StratumStep) /\ SF_vars(Acquire(Stratum))
    /\ \A m \in Miner :
          /\ WF_vars(MinerStep(m))
          /\ SF_vars(Acquire(m) \/ AcquireEpoch(m))
          /\ SF_vars(MinerStart(m))
    /\ WF_vars(WorkioStep) /\ SF_vars(AcquireEpoch(Workio))

Spec == Safety /\ Fairness

-----------------------------------------------------------------------------
(* Properties. *)

\* Every variable has the type the code declares for it.
TypeOK ==
    /\ job \in 0..MaxJob /\ news \in 0..MaxJob
    /\ job_seed \in Seeds \cup {0}
    /\ connected \in BOOLEAN /\ g_time \in BOOLEAN /\ crashed \in BOOLEAN
    /\ g_work \in Work
    /\ g_lock \in Miner \cup {Stratum, Free}
    /\ w_lock \in Miner \cup {Stratum, Free}
    /\ pc \in [Thread -> {"login", "free", "decode_login", "decode", "store_login", "store",
                          "copy", "check", "lock", "gen", "gen_copy", "recv", "hash",
                          "idle", "compare"} \cup EnsurePoint]
    /\ work \in [Hasher -> Work]
    /\ my_seed \in [Hasher -> Seeds \cup {0}]
    /\ epoch_lock \in Hasher \cup {Free}
    /\ nm_seed \in Seeds \cup {0} /\ params \in Seeds \cup {0} /\ buffer \in Seeds \cup {0}
    /\ attached \in BOOLEAN /\ allocated \in BOOLEAN
    /\ built_for \in 0..MaxJob
    /\ queue \in Seq(Work)
    /\ found \in 0..MaxFound

(* Outside nm_epoch_lock the epoch is whole: its params are those of
   g_nm_seed, and a dataset that is attached was built from them
   (nm_ensure_epoch, nm_fast_epoch_init). *)
EpochWhole ==
    epoch_lock = Free =>
        /\ params = nm_seed
        /\ attached => allocated /\ buffer = params

(* A NULL dataset is read in three ways only: the epoch was initialised for a
   header below the activation height and is not built again under the same
   seed; the 64 MiB could not be allocated; or another thread is at this
   moment between nm_fast_epoch_init and nm_fast_set_dataset. *)
CrashOnlyAcrossActivation ==
    crashed => \/ ~DatasetNeeded(built_for)
               \/ ~allocated
               \/ epoch_lock # Free

(* What a miner copies from g_work names the job of its own header, unless the
   stratum thread copies sctx->work after a login at this very moment: that is
   the only copy outside g_work_lock. *)
TornOnlyAtLogin ==
    [][\A m \in Miner :
          work'[m] # work[m] /\ pc[Stratum] # "copy" => work'[m].id = work'[m].job]_vars

(* Once the pool is quiet (it sends MaxJob jobs at most), every miner ends up
   hashing a header of the newest epoch with that epoch: whatever older seed a
   thread still held when it came for nm_epoch_lock, and although the seed of a
   job is published before its header (rpc2_job_decode). *)
EpochSettles ==
    <>[](\/ crashed \/ job = 0
         \/ /\ params = job_seed
            /\ \A m \in Miner : pc[m] = "hash" => Seed[work[m].job] = params)

(* nm_fast.h:28: the epoch is "Shared, per-epoch, read-only state": nobody
   writes it while another thread hashes. *)
EpochReadOnly ==
    \A t \in Hasher : pc[t] = "hash" => \A u \in Hasher : pc[u] \notin {"params", "build"}
=============================================================================
