# A verification model of cpuminer-opt-cpupower

cpuminer-opt-cpupower is a multi-threaded CPU miner in C. One process mines for
a pool (stratum over TCP) or for a wallet (JSON-RPC over HTTP). This directory
models the part of it that is hard to test: the threads of `cpu-miner.c` and
`util.c`, the shared work `g_work`, the mutexes and flags around it, the queues
between the threads, the session with the pool, the split of the nonce space,
the epoch the neuromorph threads share, and the memory pattern of the yespower
hash.

Line numbers refer to the files under `src/`. `PROJECT.json` maps every
definition that models code to its lines.

## The system

### Threads and shared state

| thread | code | state it owns or writes |
|---|---|---|
| miner threads (`opt_n_threads`) | `miner_thread`, cpu-miner.c 2201-2523 | own `work`, `end_nonce`; `g_work` and `g_work_time` under `g_work_lock`; the neuromorph epoch |
| workio thread | `workio_thread` 1878-1923 | its queue; sends requests and shares; `stratum.sharediff`, `net_blocks`, `have_gbt`, `have_longpoll`, `allow_mininginfo`; the neuromorph epoch |
| stratum thread | `stratum_thread` 2862-2977, util.c `stratum_*` | `stratum` (connection, job, next_diff), `g_work`, the share counters |
| longpoll thread | `longpoll_thread` 2580-2710 | `g_work`, `submit_old`, `have_longpoll` |
| API thread | api.c 624-830 | `rpc_url`, `stratum_need_reset`; reads counters |
| reporter thread, and miner 0 | `reporter_thread` 2528-2536, `report_summary_log` 255-424 | collects and resets the sums of the shares |
| main | 3677-3976 | starts the threads, joins the workio thread, returns |

Work flows from the pool to the miners through `g_work`; shares flow back
through the queue of the workio thread. `work_restart[m].restart` asks a miner to
leave its scan. `g_work_lock` guards `g_work` and `g_work_time`,
`sctx->work_lock` the stratum job, `rpc2_job_lock` the seed of a jsonrpc2 job,
`nm_epoch_lock` the neuromorph epoch, `stats_lock` the counters - each with
exceptions, which the models keep.

### Components, what makes them correct

* **Thread queue** (`tq_push`, `tq_pop`, `tq_freeze`, util.c 2255-2366): a list
  under a mutex with one condition variable. *Correct:* everything accepted is
  received once, in order; the server does not sleep on an entry.
* **Stratum work cycle** (`stratum_thread`, `std_stratum_gen_work` 2814-2852,
  `std_get_new_work` 2140-2166, `submit_upstream_work` 1581-1657): jobs arrive
  into `sctx->job`; the stratum thread or a miner rebuilds `g_work`; miners copy
  it, scan it and hand shares to workio. *Correct:* a share names the header
  that was hashed; no header is mined twice; the target belongs to the job;
  shares of the current block are sent; a miner does not stay on an old job;
  giving up ends the process.
* **Stratum session** (util.c 991-1500, 1905-2255): connect, subscribe,
  authorize, answers, methods of the pool, `client.reconnect`, `seturl`.
  *Correct:* a refused login is noticed, answers of the login are not shares, a
  request for another pool is obeyed.
* **Share accounting and reports** (`share_result` 1242-1383,
  `report_summary_log` 255-424). *Correct:* every answer is in one report with
  one verdict; a result meets the difficulty of its own share.
* **Nonce ranges and scan loops** (`std_get_new_work`, `miner_thread`
  2409-2417, `scanhash_*`). *Correct:* ranges are disjoint, nothing wraps, no
  nonce is hashed or sent twice, a scan that was cut short goes on.
* **Work over HTTP** (`get_work`, `submit_work`, `get_upstream_work`,
  `get_mininginfo`, `longpoll_thread`): miners ask workio for work with
  `g_work_lock` held; a long poll answer replaces `g_work`; shares are checked
  against the block count and retried. *Correct:* requests are answered, long
  polling can start again, miners reach the newest block, a block is not
  submitted twice, a share is discarded only when its block is solved.
* **Neuromorph epoch and the jsonrpc2 dialect** (neuromorph.c 47-173, util.c
  1561-1760, cpu-miner.c 2854-2860, 2913-2917): neuromorph is the one registered
  algorithm that sets `jsonrpc_2`. All threads hash with one `g_nm_epoch`, whose
  seed comes with the jobs. *Correct:* the epoch is whole and follows the
  newest seed, and nobody hashes with half of one.
* **yespower memory pattern** (yespower-opt.c, yespower-ref.c): *Correct:* the
  unrolled code does what the reference does, inside its arrays.
* **API thread** (api.c), **algorithm gate** (algo-gate-api.c), **hodl barrier**
  (hodl-gate.c 138-188, not registered), **pure conversions** (util.c),
  **start-up** (cpu-miner.c 3055-3540, 3677-3976), **hash kernels**, **system
  information**: see "What is not modelled".

The hard behaviours - unlocked reads, flags cleared at the wrong moment,
answers that arrive late or not at all, commands queued behind an end marker,
an epoch rebuilt under the feet of a thread, numbers at the end of their range -
are listed one by one in `PROJECT.json` under `hazards`, each at its line with
the properties that cover it.

## The models

All models are at the grain of critical sections: what the code does with a
mutex held is one step unless something that matters can be seen in between.
Data is abstract: a block is a number, a job an index, a target a difficulty, a
nonce range a few numbers.

### ThreadQueue and CommandQueue

`CommandQueue` is what the users of a queue rely on: everything accepted is
received in order, one at a time, until the server ends. `ThreadQueue` is
`struct thread_q` with the list, the frozen flag and the condition variable.

| definition | code |
|---|---|
| `Push`, `PushRefused`, `Signal` | `tq_push`: the entry, unless frozen, and the signal either way |
| `PopNow`, `PopWait`, `PopWoken`, `PopNothing` | `tq_pop`: two critical sections, before and after `pthread_cond_wait` |
| `SpuriousWakeup` | what POSIX allows `pthread_cond_wait` (constant `Spurious`) |
| `WorkDone`, `Freeze` | the loop of `workio_thread`, `tq_freeze` at its end |

The refinement is `Queue == INSTANCE CommandQueue WITH accepted <- got \o list,
...`. The other modules use a plain sequence for a queue, which is what this
refinement justifies (without spurious wakeups: with them the queue may end,
because `tq_pop` has no loop around `pthread_cond_wait` and returns NULL,
util.c 2350).

### StratumWork

The stratum thread, the miners and the workio thread around `g_work`. The
points of `std_stratum_gen_work` (`GenFree`, `GenCopy`, `GenHeader`,
`GenTarget`) are steps of their own because `submit_upstream_work` reads
`g_work` without its lock and because `set_target` runs after `sctx->work_lock`
is released. A work carries both what its share would *name* (`id`, `xn2`) and
what its header was *built from* (`hjob`, `hxn2`); the properties compare them.

| definition | code |
|---|---|
| `StratumZero` ... `StratumAuthorize`, `ConnectFailed` | the connection loop 2891-2918 with `stratum_connect`, `_subscribe`, `_authorize` |
| `StratumReset` | `stratum_need_reset`, set by the API thread; allowed at every turn of the loop |
| `StratumCheck`, `StratumLock`, `GenWork`, `StratumTime`, `StratumRestart` | 2920-2956: new job, rebuild, `time(&g_work_time)`, restart if clean |
| `StratumNotify`, `StratumSetDifficulty`, `StratumOtherLine`, `StratumLost` | one received line, or none |
| `MinerWait`, `MinerLock`, `MinerCopy`, `MinerDecline`, `MinerClear`, `MinerHash`, `MinerFound`, `MinerSubmit` | one turn of `miner_thread` |
| `WorkioPop`, `WorkioCompare`, `WorkioSent`, `WorkioFailed` | `workio_thread`, `submit_upstream_work`, `workio_submit_work` |

`attached`, `wrapped` and `found` are not in the program: the difficulties a job
was announced with, whether the extranonce2 of the current job wrapped, and a
counter that bounds the model. The strcmp at 2921 reads memory another thread
may free: `JobIsNews` and `JobMayLookOld` let it give either answer then.

### StratumSession

The same connection seen as requests and answers. `StratumWork` has a login that
works or does not; here it is the code's: requests 1, 2 and 3, and *the next
line* taken for the answer, while the workio thread already sends shares (id 4)
on the connection. A line is an answer with a verdict or a method. The pool is
the environment: it answers in order, accepts shares only when it has
authorized, and may send `client.reconnect` or another method at any time; jobs
and difficulties are "other" lines here and the subject of `StratumWork`.

| definition | code |
|---|---|
| `StratumTop`, `StratumReset`, `StratumConnect`, `LoginFails`, `StratumLoginLost` | the two loops 2872-2911, `stratum_connect`, `stratum_disconnect`; `stratum_need_reset` is looked at in the outer loop only |
| `StratumAsks` (`Send`), `StratumSubscribed`, `StratumAuthorized`, `StratumExtra` | `stratum_subscribe` with its one retry, `stratum_authorize`, `mining.extranonce.subscribe` whose answer is thrown away |
| `StratumMethod` (`Method`) | `stratum_handle_method`; `stratum_reconnect` changes `url` and drops the connection, wherever it is read |
| `StratumLost`, `StratumAnswer`, `StratumJudge`, `StratumCount` | a timeout or closed connection; `stratum_handle_response`; the two halves of `share_result`: the slot `stratum.sharediff`, and the counters under `stats_lock` |
| `Submits`, `WorkioStale`, `WorkioSlot`, `WorkioSend`, `WorkioSendFailed` | `submit_upstream_work` 1581-1616: the comparison with `g_work`, the slot, the line; after a failed send `workio_submit_work` calls all of it again, so the share may then be discarded as stale though the slot has its difficulty already. When `opt_retries` is used up the thread has `ended`; the others run on until the process ends |
| `ApiSetUrl` | `remote_seturl`: the address, then the flag |
| `ReporterCollect`, `ReporterReset` | `report_summary_log` of the reporter thread or of miner 0: the test before the lock lets either pass at any time (`et`), copy and reset are inside |

The composition with `StratumWork` is by interface: both have the connection
loop, with the same points (`connect`, `subscribe`, `authorize`, `recv`), and
whatever `StratumSession` does with a login is one of `StratumWork`'s
`ConnectFailed` or the steps to its end. Which block `g_work` is of belongs to
`StratumWork`; here any share may be found stale, at its first call or at a later
one. `granted`, `greeted`, `unasked`, `unsent`, `redirected`, `accepted_by_pool`
and `reported` are history; `unsent` says that the share the slot was last
written for has been given up after a failed send.

### NonceScan

The nonces of the miner threads with the arithmetic of the code: `Range`,
`First`, `End` (2159-2162), `Limit` (2409-2417), `Resets` and `NextNonce`
(`std_get_new_work`, `nm_get_new_work`), and the loops of the registered
algorithms: `ScanOne` (yespower, shared by cpupower and power2b, and
neuromorph), `ScanTwo`, `ScanTail`, `ScanNothing` (civiclight with AVX2; its
one-way build is the loop of `ScanOne` and not modelled apart). One nonce of one
header is watched, chosen at the start and therefore any: how often it is hashed
and sent. Constants `Word` and `Reserve` stand for 2^32 and 0x20.

### UpstreamWork

Mining over HTTP. The constant `Servers` says how a server behaves; the program
finds out. A block the server accepted from us is in `solved`.

| definition | code |
|---|---|
| `MinerRequest`, `MinerAnswered`, `MinerCopy` | 2345-2366 and `get_work`: the answer is awaited with `g_work_lock` held |
| `MinerReset` | `g_work_time = 0` after a share, without long polling |
| `WorkioWork`, `WorkioFallback`, `WorkioNoWork`, `WorkioInfo` | `get_upstream_work`, `gbt_work_decode`, `get_mininginfo`, `workio_get_work` |
| `WorkioCompare`, `WorkioCheck`, `WorkioSent`, `WorkioSendFailed` | `submit_upstream_work` and its retries; a lost answer may hide a share that was taken |
| `LpPop`, `LpAnswer`, `LpLock`, `LpStore`, `LpFailed` | `longpoll_thread`; `LpOffer` is the announcement (util.c 550-556, or in a template) |
| `NewBlock`, `WorkAges` | the rest of the network, and time |

An answer is absent or well-formed, with one exception, a template of a version
that is too new (`"refused"`): other malformed answers count as no answer,
although the code has decoded parts of them by then.

### NeuromorphEpoch

The jsonrpc2 dialect as neuromorph uses it, and the epoch. Params, key schedule
and dataset are the seed they were derived from; 0 while they are written.

| definition | code |
|---|---|
| `LoginFailed`, `LoginAnswered`, `JobReceived`, `DecodeSeed`, `DecodeWork` | the job of a login and of a `job` method; `rpc2_job_decode` publishes the seed under `rpc2_job_lock` and later the work |
| `LoginFree`, `LoginCopy` | 2913-2917: `g_work` freed and copied without `g_work_lock`, after every connection attempt |
| `StratumCheck`, `StratumRecv`, `TakeGWork`, `GenBegin`, `GenEnd` | the main loop, `jr2_stratum_gen_work`, for the stratum thread and the miners |
| `MinerStart`, `MinerDecline` (`CopyWork`) | `nm_get_new_work`, `jr2_get_new_work`; `wait_for_diff` is `do_nothing` |
| `ReadSeed`, `EpochCurrent`, `EpochChange`, `EpochParams`, `EpochBuild` | `nm_ensure_epoch`, its 64 MiB allocation, which may fail, included |
| `MinerHash`, `HashCrash` | `nm_fast_hash`, without the mutex; a missing dataset is a NULL pointer |
| `WorkioPop`, `WorkioCompare`, `WorkioSend` | a share whose result `nm_hash_suw` computes again before it is sent |

### Yespower and YespowerRef

Which block is mixed with which, where it is stored, where pwxform writes into
the S-boxes. Blocks are opaque: the result of the c-th blockmix is block c, and
`last` is what it was called with, so two machines with the same `last` and
`writes` compute the same hash. `integerify` gives any word of `Word`.
`YespowerRef` is `yespower-ref.c` with its `wrap(x, i)`; `Yespower` is
`yespower-opt.c`.

| definition | code |
|---|---|
| `Smix1Call`, `ReturnSmix1`, `LoopHead`, `Turns`, `Window` | `smix1` 684-748: two calls per turn over powers of two, the last power cut, two calls behind the loop |
| `Smix2Call`, `ReturnSmix2`, `NloopRw`, `RoundUp` | `smix2` 775-785, `smix` 817-841 |
| `Pwxform`, `Writes`, `Mask`, `Rotate` | the unrolled `PWXFORM`, 440-485 |

`Reference == INSTANCE YespowerRef WITH ...` maps them: the reference keeps X
apart and stores it an iteration later, the optimised code has X in the array.
`RefS`, `RefV`, `RefX` and `RefI` are the mapping. It holds as
`Reference!Spec`, the end included.

## What is checked

| run | question | bounds |
|---|---|---|
| stratum_work | Is `g_work` rebuilt only from a job and never with a header some miner may have had; does a share name its header; is only a stale share discarded, or one that meets a rebuild; is a wrong target superseded? | 2 miners (symmetric), 3 jobs over 2 blocks, 2 difficulties, extranonce2 of 2 values, 2 shares |
| stratum_liveness | Does a miner reach the current job; does the process end when the stratum thread gives up? | 1 miner, 2 jobs, 1 retry, 1 share |
| session | When does a refused login go unnoticed; do counters, sums and reports agree; which difficulty judges a share; is a seturl obeyed? | 2 pools and a redirect, 2 difficulties, 2 shares, 1 seturl, 1 line on its way |
| epoch | Is the epoch whole, does it settle on the newest seed, when is a missing dataset read, when is a torn work copied? | 1 miner and workio, 3 jobs, 1 share |
| epoch_race | *(violated)* The epoch is read-only | 2 miners |
| nonce_scan | Own range, no nonce twice, no share twice, the same header goes on | 2 threads, a word of 22 nonces, reserve 4, 2 headers, 1 repetition |
| nonce_neuromorph | *(violated)* neuromorph goes on under the same header | as nonce_scan |
| queue | Does the queue implement `CommandQueue`; is no wakeup and no entry lost? | 2 commands and NULL, 4 entries, spurious wakeups |
| upstream_safety | Can long polling restart; is no block submitted twice; is a share discarded as solved really late? | 2 miners (symmetric), 2 blocks, 2 shares, 1 retry; servers that answer `getmininginfo` |
| upstream_liveness | Does a miner reach the newest block; is every request answered? | 2 miners, 2 blocks, servers without reliable `getmininginfo` |
| upstream_twice | *(violated)* No block is submitted twice | a wallet that loses answers, 3 blocks |
| yespower | Does the optimised pass do what the reference does, inside its arrays? | N = 8, r = 2, S-boxes of 32 entries (12 blocks), words 0..7 |

Why the bounds are enough. Two miners give every interleaving of two rebuilds,
two requests and two shares; a third would repeat one of them (`g_work_lock`
orders them). Two jobs give "same job again" and "another job", three jobs a new
block as well; an extranonce2 of two values wraps within a run. The constraint
`MCBounded` of stratum_work keeps apart what no property relates: both miners
race over two jobs of one difficulty, one miner works with shares over three
jobs, one watches a pool that changes the difficulty. In the session two shares
are what it takes to have another one on its way, and one line in flight with
requests queued behind it gives every shift by one; a second one only shifts
further. The jobs of epoch are two of one seed, the second at the activation
height, and one of another seed: across the activation within an epoch and
across epochs. One miner is enough there because workio is a second thread that
comes to `nm_epoch_lock` with its own seed; epoch_race has two. A word of 22
nonces has ranges of 10 with a reserve of 4, the proportions the code depends on
(a range is longer than the reserve); a scan takes 3 nonces or all. For yespower,
12 blocks are no power of two and 8 are one, like the 768 and N of the code, so
the cut power and the two calls behind the loop are met in both shapes; 0..7
gives every index of V and, masked, every window. Symmetry is used for safety
only.

Fairness. Every thread that can run does (weak fairness of its step; POSIX
threads). A thread that waits for a mutex gets it in the end (strong fairness of
`StratumLock`, `StratumZero`, `MinerLock`, `LpLock`, `Acquire`, `AcquireEpoch`,
`StratumCount`): the sections are short and no mutex is held across a sleep,
except by the miner that waits for an answer, and that request ends (30 seconds
of curl's time out). `stratum_socket_full` returns after `opt_timeout`; what is
received is not assumed. In `NeuromorphEpoch` the temperature and a rate limit
let a miner start again and again (`SF(MinerStart)`). Nothing says that a server
answers, that a share is found, that the API is used or that the pool sends a
job. `SeturlTakesEffect` therefore names its exception: a login loop that never
succeeds does not look at the flag. `Retries` of `UpstreamWork` is finite; the
default of `opt_retries` is -1, for ever, and then a server that never answers
blocks the miners for ever - `RequestIsAnswered` says "or the process ends" and
holds only for a finite number. In `StratumWork` it may be -1 as well; the
proofs cover both. `Yespower` is sequential: weak fairness says it goes on.

Deadlock is checked everywhere but in queue, where a server rightly waits for
ever on an empty queue, and yespower, where the computation ends. `Exited`,
`Crashed` and `OutOfHeaders` mark the intended ends of the others.

Each property of a passing run has a mutant in `PROJECT.json`: a change of one
definition, as a mistake in the code might be, that makes TLC find the property
violated.

### Disagreements found

1. **The epoch is not read-only** (neuromorph.c:57). `nm_ensure_epoch` rewrites
   params, key schedule and dataset under `nm_epoch_lock`, and `nm_fast_hash`
   reads them without it: a miner that has not seen its restart flag, or workio
   in `nm_hash_suw`, hashes with half of an epoch. nm_fast.h:28 calls it
   "read-only". `CrashOnlyAcrossActivation` says which of these read a NULL
   dataset.
2. **neuromorph repeats its nonces** (neuromorph.c:165). `nm_get_new_work`
   compares `job_id` *pointers*, which always differ after `work_copy`, so each
   turn of the loop starts the range again.
3. **A block may be submitted twice** (cpu-miner.c:1595): the only check uses
   `net_blocks`, which is old when `getmininginfo` failed.

What the models let happen, and the passing properties name as their exceptions:

* a share of the current block is discarded when `submit_upstream_work` compares
  it with a `g_work` that is being rebuilt, without `g_work_lock`
  (cpu-miner.c:1584; `DiscardOnlyStaleOrRebuilding`);
* a spurious wakeup makes `tq_pop` return NULL, which ends the process
  (util.c:2350);
* a getwork long poll answer leaves the old height in `g_work`
  (cpu-miner.c:2651), so a share of the newest block may be taken for solved
  (such a server is not among those of upstream_safety);
* a refused authorization goes unnoticed when a share sent during the login, or
  a method before the answer to subscribe, shifts the answers by one
  (`RefusalMissedOnlyByShift`);
* a share is judged with the difficulty of a later one, or of one that was given
  up after a failed send and never reaches the pool (`SlotIsOfLaterShare`);
* a dataset is missing when the epoch was initialised below the activation
  height, because it is only built when the seed changes
  (`CrashOnlyAcrossActivation`);
* a miner copies a work whose id and header differ while the stratum thread
  copies `sctx->work` after a login (`TornOnlyAtLogin`).

## What is proved

With TLAPS, for every value of the constants that satisfies the `ASSUME` of the
module (any number of miners, jobs, difficulties, commands; any word, reserve
and number of threads; any even N >= 8, any r, any S-box of a multiple of 16
entries), and the assumption of the theorem where one is named. (A smaller N
would give smix2 two turns, and `yespower-opt.c` and `yespower-ref.c` both say
that it "must be > 2"; `yespower()` takes no N below 1024.)

* **`StratumWorkProofs`**: `TypeOK`, `ShareNamesItsHeader`, `RebuildHasJob`,
  `HeaderNeverRepeated`, `WrongTargetIsSuperseded`, and the action property
  `DiscardOnlyStaleOrRebuilding`. None is inductive. `IInv` adds who holds which
  mutex at which point (`LockInv`), that `g_work` names the job whose header is
  about to be written (`HeaderInv`), that past the first wait and whenever
  `g_work_time` is not zero there is a job (`JobInv`), that no header is of a
  later job and those of the current one are below its counter (`Xn2Inv`), that
  the difficulty of a job was announced with it (`TargetInv`), and, for the
  action property, that no share is of a later job than `g_work` unless
  `g_work` is being rebuilt (`HeldInv`). That property is proved under
  `NoBlockReturns`: the pool does not go back to a block it has left, as the
  blocks of stratum_work do not. The comparison in `submit_upstream_work` is of
  blocks alone; with a pool that does go back, a share of the block that came
  back is discarded until `g_work` is rebuilt. Frame lemmas say once which
  action changes which variables.
* **`StratumSessionProofs`**: `TypeOK`, `RefusalMissedOnlyByShift`,
  `AcceptedByPool`, `ReportsAddUp`, `UrlIsCurrent`, and the action property
  `SlotIsOfLaterShare`, for all sets of pools and any number of lines and
  shares. Whether an answer is taken for that of another request depends on what
  is on the wire in each phase of the login, so `IInv` says that, with three
  predicates on a queue: it has a message of an id (`Has`), it has one at most
  (`Once`), and the last share in it has a given difficulty (`LastIs`).
  `AskedInTurn`, `OneAuth`, `OkMeansGranted` and `GreetingInTurn` place the
  requests of the login, `AcceptedAreCounted` counts the accepted shares that
  are not yet in the sums, `SlotIsOfLastShare` says that the slot has the
  difficulty of the share in hand or, when none was given up since (`unsent`), of
  the last one on the wire, `ReportsHold` splits the answers between sums and reports.
* **`UpstreamWorkProofs`**: `TypeOK` and `LongpollCanRestart` for all servers;
  `NoBlockSubmittedTwice` for servers that are `Informed` (they answer
  getmininginfo and long poll with block templates only); the action property
  `SolvedIsSolved` for servers that are `Consistent` (a refused template leaves
  its height behind, so there must be none). The servers of upstream_safety are
  both; run upstream_twice shows what happens with others. `LockInv` says who
  owns `g_work_lock`, `LongpollInv` what `have_longpoll` means. The last two
  properties are about every work the program has anywhere, whether in `g_work`,
  in a miner's copy, in an answer or in a share (`KnownWorks`): `TwiceInv` says
  that getmininginfo will recognise each one that is solved, `HeightInv` that
  the height of each is past the block it builds on.
* **`NonceScanProofs`**: `TypeOK` (nothing wraps) without an assumption;
  `InOwnRange`, `NoNonceTwice` and `NoShareTwice` under the assumption `Patient`,
  `2 * MaxSame < Reserve`; these three are about runs without `--randomize`, as
  the properties say. `Patient` is a real condition: a getwork server that
  repeats a used up header carries a thread at most two nonces further each
  time, into the reserve of 0x20; with 16 repetitions or more it reaches the
  next range. `RangeInv` places every thread in its range at each point;
  `OnceInv` says that a nonce yespower hashed, or either loop sent, lies behind
  the thread that did it (civiclight may hash the second nonce of a pair again,
  when it was not sent). `RandomStaysClose` is proved under `Word % 4 # 1`,
  which 2^32 and the run's 22 meet: otherwise the last range could begin at the
  last nonce, and randomizing could wrap. The action property
  `SameHeaderGoesOn` is proved for every algorithm but neuromorph, for which run
  nonce_neuromorph violates it.
* **`ThreadQueueProofs`**: `TypeOK`, `NoSleepOnEntry`, that without spurious
  wakeups NULL is received only if sent, the action property `AcceptedIsKept`,
  and `Implements`: `Safety => Queue!Safety`, with and without spurious wakeups.
* **`NeuromorphEpochProofs`**: `TypeOK`, `EpochWhole`,
  `CrashOnlyAcrossActivation` and the action property `TornOnlyAtLogin`. `IInv`
  adds where every thread can be (`PcInv`), that a job being decoded and every
  header has a seed (`JobInv`, `WorkInv`), that whoever is inside `nm_epoch_lock`
  builds for `g_nm_seed` (`InsideInv`), that an allocated dataset that is not
  attached was not needed (`BuiltInv`), that no crash happens with a dataset
  (`CrashInv`), and that `g_work` names its header unless somebody is between
  the free and the copy, with `g_work_lock` or after a login (`LockInv`,
  `TornInv`).
* **`YespowerProofs`**: `TypeOK` (smix2, two per turn, ends at zero exactly),
  `MixesWrittenBlocks`, `WritesInsideSBox`. `PlaceInv` says where X is at each
  call of smix1 in terms of the loop variables; lemma `HeadIsExact` says that
  the loop leaves off two blocks before the end, whatever N. That the powers of
  two are powers is not needed, only that they are even. `SBoxInv`: `w` is a
  multiple of 64, which is why masking after the writes is enough.
* **`YespowerRefProofs`**: `Implements`: `Safety => Reference!Safety`, that the
  optimised pass calls every blockmix with the blocks the reference calls it
  with, stores them at the same place in the same pass, and writes the same
  lanes of the same tables. One lemma per action (`Smix1CallRefines` and so on)
  under `RefInv`, which adds to the invariant of `YespowerProofs` that the `n`
  of the unrolled loop is the power of two `p2floor` would compute (`PowerInv`,
  used in `SameWindow`) and that V is not written before its pass (`ArrayInv`).
  The assumption `Allowed` (arrays of at most 2^20 blocks) is how far `Pow2` of
  `YespowerRef` goes; yespower() refuses an N above 2^19 and its S-boxes have
  768 blocks.

Only model-checked: all liveness, and with it the fairness part of the two
refinements (`ImplementsCommandQueue`, `ImplementsReference`): liveness and
ENABLED are out of the prover's reach. Every invariant and every action property of the
passing runs is proved, under the assumptions named above.

## What is not modelled

Most of the repository, by lines, is the source of hash functions (hamsi,
groestl, whirlpool, skein, blake, ...), much of it vendored, in several copies,
and for algorithms whose registration is commented out (algo-gate-api.c
160-230). It is arithmetic on wide words without control flow of its own: a test
vector decides it, a model checker does not reach it, and a model would be a
transcription. What has control flow in the registered algorithms - the scan
loops, the memory pattern of yespower, the epoch - is modelled. Besides:

* **The switch from HTTP to stratum** by an `X-Stratum` header (util.c 542-548).
  `get_upstream_work` then returns true with nothing decoded (cpu-miner.c
  1695-1701) and what follows reads a NULL `job_id`: undefined behaviour of
  which no document or test says what should happen instead.
* **The text of lines**: hex, JSON, `client.*` answers, and the socket buffer
  (`stratum_recv_line`, sequential code that strings can test; read from the
  code: after an empty line the rest of the buffer is lost, because the buffer is
  moved to the NUL `strtok` wrote, and after 60 seconds a part of a line counts
  as a line). A line is what it makes the program do.
* **Freed memory**: the strcmp at cpu-miner.c 2921 gives either result; the
  second `json_decref(val)` in `stratum_subscribe`, when a repeated request is
  not answered (util.c 1392-1399), is taken to do nothing.
* **`mining.set_extranonce`** between two jobs (util.c 1303), and a job that
  repeats its id after a reconnect: both depend on what pools expect, which
  nothing in the repository says. See the hazards.
* **jsonrpc2 over HTTP** (`rpc2_login`), and a login over stratum without a job
  (util.c 1458: `strdup` of NULL, at once and in every order).
* **A failed allocation in yespower** (yespower.c 100): `yespower()` returns -1
  and the caller compares whatever is on its stack.
* **yespower 0.5**, which is accepted and computed by the same pass, and the
  two-way kernel `yp2_*`, the same pattern for two lanes.
* **yescrypt**: registered, but its pass (`yescrypt-best.c`) is vendored whole.
* **Dead counters**: `rejected_count` and the globals `submitted_share_count`
  and so on are never counted up, so the rate at 1276 is always 100 and the exit
  at 270-276 never happens; nothing depends on them.
* **The API's reports**, **system information**, **start-up**: formatting, pure
  input, and code that runs before the threads do.
* **The algorithm gate** is a table filled before the threads start; its
  functions are modelled where they are called. **The hodl barrier** belongs to
  an algorithm that is not registered.
* **Pure conversions**: sequential and deterministic.
* With `--randomize` and a header that is repeated a nonce may wrap:
  `RandomStaysClose` is stated for `same[t] = 0` only.

## Plan

Done: the abstract queue and the queue; the stratum cycle, the session and the
accounting, the nonce ranges, the HTTP cycle, the epoch, yespower and its
reference; proofs about all of them. Left, in this order:

| module | what |
|---|---|
| `UpstreamWorkProofs` | weaker conditions on the servers than `Informed` and `Consistent` |
| `StratumWorkProofs` | the steps the liveness argument rests on: that a rebuild, once due, stays due until it is done |
| `NonceScanProofs` | the ranges of neuromorph, as far as its `or` leaves them apart |
