----------------------------- MODULE UpstreamWork -----------------------------
(***************************************************************************)
(* Mining over HTTP, without stratum: the miners ask the workio thread for *)
(* work and hand it their shares, the longpoll thread replaces g_work when *)
(* the server has a new block.                                             *)
(*                                                                         *)
(*   - a miner whose work is too old or used up asks the workio thread for *)
(*     work and waits for the answer with g_work_lock held;                *)
(*   - the workio thread asks the server (getblocktemplate, else getwork), *)
(*     retries what fails, completes work and shares with getmininginfo;   *)
(*   - an answer may announce long polling, which the longpoll thread then *)
(*     does until a request fails; it writes g_work under g_work_lock.     *)
(*                                                                         *)
(* A share is a block. A work is the block it builds on and the height its *)
(* struct carries; `chain` is the number of the newest block. Thread       *)
(* queues are sequences (ThreadQueue, CommandQueue).                       *)
(***************************************************************************)
EXTENDS Integers, Sequences

CONSTANTS
    Miner,      \* the miner threads
    Free,       \* the owner of a mutex nobody holds
    Poller,     \* the longpoll thread
    Servers,    \* the servers to mine at: are its block templates "mined",
                \* "refused" (as too new) or "unknown", so that getwork is used;
                \* does it announce long polling; does it answer getmininginfo
                \* "always", "sometimes" or is it "unknown"
    SubmitOld,  \* the values of "submitold" in its long polling answers
    MaxChain,   \* bound: blocks 1..MaxChain
    MaxFound,   \* bound: shares found in a behaviour
    Retries     \* opt_retries, not negative

ASSUME UpstreamWorkAssumption ==
    /\ Free \notin Miner \cup {Poller}
    /\ Poller \notin Miner
    /\ Servers \subseteq [gbt : {"mined", "refused", "unknown"}, lp : BOOLEAN,
                          info : {"always", "sometimes", "unknown"}]
    /\ SubmitOld \subseteq BOOLEAN /\ SubmitOld # {}
    /\ MaxChain \in Nat \ {0}
    /\ MaxFound \in Nat
    /\ Retries \in Nat

VARIABLES
    server,         \* one of Servers
    chain,          \* the newest block of the server
    solved,         \* history: the blocks our accepted shares built on
    twice,          \* history: a share for one of them reached the server again
    found,          \* shares found
    have_gbt, have_longpoll, allow_mininginfo, submit_old,
    net_blocks,     \* the block count getmininginfo gave last
    g_work,         \* the shared work
    g_time,         \* g_work_time: "zero", "fresh", or "old" (min_scantime)
    g_lock,         \* owner of g_work_lock
    pc, work, restart,  \* of every miner
    reply,          \* the queue of every miner: work for it
    queue,          \* the queue of the workio thread
    wpc,            \* control point of the workio thread
    cmd,            \* the command it handles
    tries,          \* failed attempts for that command
    lpc,            \* control point of the longpoll thread
    lpq,            \* entries in its queue
    lp_block,       \* the block of the answer it holds
    exited          \* main() returned

serverVars == <<server, chain, solved, twice>>
modeVars   == <<have_gbt, have_longpoll, allow_mininginfo, submit_old, net_blocks>>
gVars      == <<g_work, g_time, g_lock>>
minerVars  == <<pc, work, found, reply>>
workioVars == <<wpc, cmd, tries>>
lpVars     == <<lpc, lpq, lp_block>>
vars == <<serverVars, modeVars, gVars, minerVars, restart, queue, workioVars,
          lpVars, exited>>

Block == 0..MaxChain

(* prev = 0: no work yet. height = 0: not filled in. *)
Work == [prev : Block, height : 0..(MaxChain + 1)]
NoWork == [prev |-> 0, height |-> 0]

(* A request for work of miner m, or a share; both have a work. *)
Get(m) == [get |-> TRUE, thr |-> m, work |-> NoWork]
Submit(m) == [get |-> FALSE, thr |-> m, work |-> work[m]]

Init ==
    /\ server \in Servers
    /\ chain = 1
    /\ solved = {} /\ twice = FALSE /\ found = 0
    /\ have_gbt = TRUE /\ have_longpoll = FALSE
    /\ allow_mininginfo = TRUE /\ submit_old = FALSE
    /\ net_blocks = 0
    /\ g_work = NoWork /\ g_time = "zero" /\ g_lock = Free
    /\ pc = [m \in Miner |-> "lock"]
    /\ work = [m \in Miner |-> NoWork]
    /\ restart = [m \in Miner |-> FALSE]
    /\ reply = [m \in Miner |-> <<>>]
    /\ queue = <<>>
    /\ wpc = "idle" /\ cmd = [get |-> TRUE, thr |-> Free, work |-> NoWork] /\ tries = 0
    /\ lpc = "pop" /\ lpq = 0 /\ lp_block = 0
    /\ exited = FALSE

Goto(m, p) == pc' = [pc EXCEPT ![m] = p]

restart_threads == restart' = [m \in Miner |-> TRUE]

-----------------------------------------------------------------------------
(* A miner thread. *)

\* Work that is old or used up is replaced by the workio thread: the lock is
\* kept. A frozen queue ends the thread.
MinerRequest(m) ==
    /\ ~exited /\ pc[m] = "lock" /\ g_lock = Free
    /\ IF wpc = "done"
       THEN Goto(m, "out") /\ UNCHANGED <<g_lock, queue>>
       ELSE Goto(m, "wait") /\ g_lock' = m /\ queue' = Append(queue, Get(m))
    /\ UNCHANGED <<serverVars, modeVars, g_work, g_time, work, found, reply, restart,
                   workioVars, lpVars, exited>>

\* The answer becomes g_work, fresh from now on, and get_new_work copies it.
MinerAnswered(m) ==
    /\ ~exited /\ pc[m] = "wait" /\ reply[m] # <<>>
    /\ g_work' = Head(reply[m])
    /\ work' = [work EXCEPT ![m] = Head(reply[m])]
    /\ reply' = [reply EXCEPT ![m] = Tail(@)]
    /\ g_time' = "fresh"
    /\ g_lock' = Free
    /\ Goto(m, "clear")
    /\ UNCHANGED <<serverVars, modeVars, found, restart, queue, workioVars, lpVars, exited>>

(* g_work need not be asked for again. *)
AnyAge == g_time # "zero"
StillFresh == g_time = "fresh"

\* g_work is fresh: get_new_work copies it, or goes on with the next nonce.
MinerCopy(m) ==
    /\ ~exited /\ pc[m] = "lock" /\ g_lock = Free
    /\ StillFresh /\ work[m].prev # 0
    /\ work' = [work EXCEPT ![m] = g_work]
    /\ Goto(m, "clear")
    /\ UNCHANGED <<serverVars, modeVars, gVars, found, reply, restart, queue,
                   workioVars, lpVars, exited>>

\* wanna_mine may refuse; else the restart flag is cleared and the scan begins.
MinerClear(m) ==
    /\ ~exited /\ pc[m] = "clear"
    /\ \/ Goto(m, "lock") /\ UNCHANGED restart
       \/ Goto(m, "scan") /\ restart' = [restart EXCEPT ![m] = FALSE]
    /\ UNCHANGED <<serverVars, modeVars, gVars, work, found, reply, queue, workioVars,
                   lpVars, exited>>

\* The scan ends without a share: max_nonce or the restart flag.
MinerScanned(m) ==
    /\ ~exited /\ pc[m] = "scan"
    /\ Goto(m, "lock")
    /\ UNCHANGED <<serverVars, modeVars, gVars, work, found, reply, restart, queue,
                   workioVars, lpVars, exited>>

MinerFound(m) ==
    /\ ~exited /\ pc[m] = "scan"
    /\ found < MaxFound
    /\ found' = found + 1
    /\ Goto(m, "submit")
    /\ UNCHANGED <<serverVars, modeVars, gVars, work, reply, restart, queue, workioVars,
                   lpVars, exited>>

MinerSubmit(m) ==
    /\ ~exited /\ pc[m] = "submit"
    /\ IF wpc = "done"
       THEN Goto(m, "out") /\ UNCHANGED queue
       ELSE Goto(m, "reset") /\ queue' = Append(queue, Submit(m))
    /\ UNCHANGED <<serverVars, modeVars, gVars, work, found, reply, restart, workioVars,
                   lpVars, exited>>

\* Without long polling the submitting miner forces new work.
MinerReset(m) ==
    /\ ~exited /\ pc[m] = "reset"
    /\ \/ have_longpoll /\ UNCHANGED g_time
       \/ ~have_longpoll /\ g_lock = Free /\ g_time' = "zero"
    /\ Goto(m, "lock")
    /\ UNCHANGED <<serverVars, modeVars, g_work, g_lock, work, found, reply, restart,
                   queue, workioVars, lpVars, exited>>

MinerStep(m) ==
    \/ MinerRequest(m) \/ MinerAnswered(m) \/ MinerCopy(m) \/ MinerClear(m)
    \/ MinerScanned(m) \/ MinerFound(m) \/ MinerSubmit(m) \/ MinerReset(m)

-----------------------------------------------------------------------------
(* The workio thread. *)

WorkioPop ==
    /\ ~exited /\ wpc = "idle" /\ queue # <<>>
    /\ cmd' = Head(queue)
    /\ queue' = Tail(queue)
    /\ wpc' = IF Head(queue).get THEN "get" ELSE "compare"
    /\ tries' = 0
    /\ UNCHANGED <<serverVars, modeVars, gVars, minerVars, restart, lpVars, exited>>

(* An answer that announces long polling starts it, unless it is on already:
   in the template, or in the header of any answer of a getwork server. *)
LpOfferAgain(gbt) ==
    \/ /\ server.lp /\ have_gbt = gbt
       /\ have_longpoll' = TRUE
       /\ lpq' = lpq + 1
    \/ /\ ~server.lp \/ have_gbt # gbt
       /\ UNCHANGED <<have_longpoll, lpq>>

LpOffer(gbt) ==
    \/ /\ server.lp /\ ~have_longpoll /\ have_gbt = gbt
       /\ have_longpoll' = TRUE
       /\ lpq' = lpq + 1
    \/ /\ ~server.lp \/ have_longpoll \/ have_gbt # gbt
       /\ UNCHANGED <<have_longpoll, lpq>>

(* What decoding an answer on block b makes of a work of height h: only a
   template has its height. *)
Decoded(b, h) == [prev |-> b, height |-> IF have_gbt THEN b + 1 ELSE h]

\* get_upstream_work got an answer and decodes it.
WorkioWork ==
    /\ ~exited /\ wpc = "get" /\ have_gbt = (server.gbt = "mined")
    /\ cmd' = [cmd EXCEPT !.work = Decoded(chain, @.height)]
    /\ wpc' = "info"
    /\ LpOffer(have_gbt)
    /\ UNCHANGED <<serverVars, have_gbt, allow_mininginfo, submit_old, net_blocks, gVars,
                   minerVars, restart, queue, tries, lpc, lp_block, exited>>

\* getblocktemplate is unknown: getwork from now on. So too when a template is
\* refused: its height is in the work by then, and it announces long polling.
WorkioFallback ==
    /\ ~exited /\ wpc = "get" /\ have_gbt
    /\ have_gbt' = FALSE
    /\ \/ server.gbt = "unknown" /\ UNCHANGED <<cmd, have_longpoll, lpq>>
       \/ /\ server.gbt = "refused"
          /\ cmd' = [cmd EXCEPT !.work.height = chain + 1]
          /\ LpOffer(TRUE)
    /\ UNCHANGED <<serverVars, allow_mininginfo, submit_old, net_blocks, gVars, minerVars,
                   restart, queue, wpc, tries, lpc, lp_block, exited>>

(* workio_get_work and workio_submit_work: try again after a pause, or end. *)
RetryUncounted == wpc' = "pause" /\ UNCHANGED tries

RetryOrEnd ==
    \/ tries < Retries /\ tries' = tries + 1 /\ wpc' = "pause"
    \/ tries >= Retries /\ tries' = 0 /\ wpc' = "done"

WorkioRetry ==
    /\ ~exited /\ wpc = "pause"
    /\ wpc' = IF cmd.get THEN "get" ELSE "compare"
    /\ UNCHANGED <<serverVars, modeVars, gVars, minerVars, restart, queue, cmd, tries,
                   lpVars, exited>>

WorkioNoWork ==
    /\ ~exited /\ wpc = "get"
    /\ RetryOrEnd
    /\ UNCHANGED <<serverVars, modeVars, gVars, minerVars, restart, queue, cmd, lpVars, exited>>

(* get_mininginfo for a work of height h, which it completes; a height above
   that of g_work restarts the miners. *)
InfoAnswered(h) ==
    /\ server.info # "unknown"
    /\ net_blocks' = chain
    /\ IF h = 0 /\ chain + 1 > g_work.height THEN restart_threads ELSE UNCHANGED restart
    /\ UNCHANGED allow_mininginfo

InfoUnknown ==
    /\ server.info = "unknown"
    /\ allow_mininginfo' = FALSE
    /\ UNCHANGED <<net_blocks, restart>>

InfoLost ==
    /\ server.info = "sometimes"
    /\ UNCHANGED <<allow_mininginfo, net_blocks, restart>>

InfoNotAsked ==
    /\ ~allow_mininginfo
    /\ UNCHANGED <<allow_mininginfo, net_blocks, restart>>

Height(h) == IF h = 0 THEN chain + 1 ELSE h

Answer(w) == reply' = [reply EXCEPT ![cmd.thr] = Append(@, w)]

\* The work is completed and sent to the miner that asked for it.
WorkioInfo ==
    /\ ~exited /\ wpc = "info"
    /\ \/ /\ allow_mininginfo /\ InfoAnswered(cmd.work.height)
          /\ Answer([cmd.work EXCEPT !.height = Height(@)])
       \/ /\ InfoNotAsked \/ (allow_mininginfo /\ (InfoUnknown \/ InfoLost))
          /\ Answer(cmd.work)
    /\ wpc' = "idle" /\ tries' = 0
    /\ UNCHANGED <<serverVars, have_gbt, have_longpoll, submit_old, gVars, pc, work, found,
                   queue, cmd, lpVars, exited>>

(* g_work is being written: a reader without the lock sees anything. *)
Torn == lpc = "store" \/ \E m \in Miner : pc[m] = "wait" /\ reply[m] # <<>>

\* submit_upstream_work: a share of another block than g_work is discarded,
\* unless the server wants old ones. g_work is read without its lock.
WorkioCompare ==
    /\ ~exited /\ wpc = "compare"
    /\ \/ /\ ~submit_old
          /\ cmd.work.prev # g_work.prev \/ Torn
          /\ wpc' = "idle"
       \/ /\ submit_old \/ cmd.work.prev = g_work.prev \/ Torn
          /\ wpc' = IF allow_mininginfo THEN "check" ELSE "send"
    /\ UNCHANGED <<serverVars, modeVars, gVars, minerVars, restart, queue, cmd, tries,
                   lpVars, exited>>

(* The block of the share is known to be solved. *)
NeverSolved(w) == FALSE
SolvedNext(w) == w.height # 0 /\ w.height <= net_blocks' + 1
AlreadySolved(w) == w.height # 0 /\ w.height <= net_blocks'

\* getmininginfo on a work of its own, of height 0; a share of a solved block
\* is discarded.
WorkioCheck ==
    /\ ~exited /\ wpc = "check"
    /\ InfoAnswered(0) \/ InfoUnknown \/ InfoLost
    /\ wpc' = IF AlreadySolved(cmd.work) THEN "idle" ELSE "send"
    /\ UNCHANGED <<serverVars, have_gbt, have_longpoll, submit_old, gVars, minerVars, queue,
                   cmd, tries, lpVars, exited>>

(* The server takes the first share of its newest block. *)
ServerTakes(b) ==
    /\ UNCHANGED server
    /\ twice' = (twice \/ b \in solved)
    /\ IF b = chain /\ chain < MaxChain
       THEN chain' = chain + 1 /\ solved' = solved \cup {b}
       ELSE UNCHANGED <<chain, solved>>

WorkioSent ==
    /\ ~exited /\ wpc = "send"
    /\ ServerTakes(cmd.work.prev)
    /\ LpOffer(FALSE)
    /\ wpc' = "idle" /\ tries' = 0
    /\ UNCHANGED <<found, have_gbt, allow_mininginfo, submit_old, net_blocks, gVars, pc, work,
                   reply, restart, queue, cmd, lpc, lp_block, exited>>

\* No answer: the request was lost, or the answer. All of submit_upstream_work
\* is tried again.
WorkioSendFailed ==
    /\ ~exited /\ wpc = "send"
    /\ ServerTakes(cmd.work.prev) \/ UNCHANGED serverVars
    /\ RetryOrEnd
    /\ UNCHANGED <<modeVars, gVars, minerVars, restart, queue, cmd, lpVars, exited>>

WorkioStep ==
    \/ WorkioPop \/ WorkioWork \/ WorkioFallback \/ WorkioNoWork \/ WorkioRetry \/ WorkioInfo
    \/ WorkioCompare \/ WorkioCheck \/ WorkioSent \/ WorkioSendFailed

-----------------------------------------------------------------------------
(* The longpoll thread. *)

LpPop ==
    /\ ~exited /\ lpc = "pop" /\ lpq > 0
    /\ lpc' = "poll" /\ lpq' = lpq - 1
    /\ UNCHANGED <<serverVars, modeVars, gVars, minerVars, restart, queue, workioVars,
                   lp_block, exited>>

\* The answer: decoded later, under g_work_lock.
LpAnswer ==
    /\ ~exited /\ lpc = "poll"
    /\ lp_block' = chain
    /\ submit_old' \in SubmitOld
    /\ lpc' = "lock"
    /\ UNCHANGED <<serverVars, have_gbt, have_longpoll, allow_mininginfo, net_blocks, gVars,
                   minerVars, restart, queue, workioVars, lpq, exited>>

LpLock ==
    /\ ~exited /\ lpc = "lock" /\ g_lock = Free
    /\ g_lock' = Poller
    /\ lpc' = "store"
    /\ UNCHANGED <<serverVars, modeVars, g_work, g_time, minerVars, restart, queue,
                   workioVars, lpq, lp_block, exited>>

(* start_diff is 0 for every answer: any known difficulty makes a new block. *)
NewBlockSeen == net_blocks # 0 \/ (~allow_mininginfo /\ ~have_gbt)

LpStore ==
    /\ ~exited /\ lpc = "store"
    /\ g_work' = Decoded(lp_block, g_work.height)
    /\ IF NewBlockSeen
       THEN g_time' = "fresh" /\ restart_threads
       ELSE UNCHANGED <<g_time, restart>>
    /\ g_lock' = Free
    /\ lpc' = "poll"
    /\ UNCHANGED <<serverVars, modeVars, minerVars, queue, workioVars, lpq, lp_block, exited>>

(* Long polling failed; it is announced again once have_longpoll is FALSE. *)
KeepLongpoll == UNCHANGED have_longpoll
ForgetLongpoll == have_longpoll' = FALSE

\* No answer: g_work counts as old. A time out is the normal end of a long
\* poll; after any other error the thread waits for a new announcement.
LpFailed ==
    /\ ~exited /\ lpc = "poll" /\ g_lock = Free
    /\ g_time' = IF g_time = "fresh" THEN "old" ELSE g_time
    /\ restart_threads
    /\ \/ UNCHANGED <<lpc, have_longpoll>>
       \/ lpc' = "pop" /\ ForgetLongpoll
    /\ UNCHANGED <<serverVars, have_gbt, allow_mininginfo, submit_old, net_blocks, g_work,
                   g_lock, minerVars, queue, workioVars, lpq, lp_block, exited>>

LpStep == LpPop \/ LpAnswer \/ LpLock \/ LpStore \/ LpFailed

-----------------------------------------------------------------------------
\* Somebody else solves a block.
NewBlock ==
    /\ ~exited /\ chain < MaxChain
    /\ chain' = chain + 1
    /\ UNCHANGED <<server, solved, twice, modeVars, gVars, minerVars, restart, queue,
                   workioVars, lpVars, exited>>

\* min_scantime passes.
WorkAges ==
    /\ ~exited /\ g_time = "fresh"
    /\ g_time' = "old"
    /\ UNCHANGED <<serverVars, modeVars, g_work, g_lock, minerVars, restart, queue,
                   workioVars, lpVars, exited>>

\* main() joined the workio thread.
ProcessExit ==
    /\ ~exited /\ wpc = "done"
    /\ exited' = TRUE
    /\ UNCHANGED <<serverVars, modeVars, gVars, minerVars, restart, queue, workioVars, lpVars>>

Exited == exited /\ UNCHANGED vars

Next ==
    \/ \E m \in Miner : MinerStep(m)
    \/ WorkioStep
    \/ LpStep
    \/ NewBlock \/ WorkAges \/ ProcessExit \/ Exited

Safety == Init /\ [][Next]_vars

(* Threads run, requests end (json_rpc_call has a time out), time passes; a
   thread that waits for g_work_lock gets it in the end. The server may fail. *)
Fairness ==
    /\ \A m \in Miner :
          /\ WF_vars(MinerStep(m))
          /\ SF_vars(MinerRequest(m) \/ MinerCopy(m))
          /\ SF_vars(MinerReset(m))
    /\ WF_vars(WorkioStep)
    /\ WF_vars(LpStep)
    /\ SF_vars(LpLock)
    /\ WF_vars(WorkAges)
    /\ WF_vars(ProcessExit)

Spec == Safety /\ Fairness

-----------------------------------------------------------------------------
(* Properties. *)

TypeOK ==
    /\ server \in Servers
    /\ chain \in 1..MaxChain /\ solved \subseteq 1..MaxChain /\ twice \in BOOLEAN
    /\ found \in 0..MaxFound
    /\ have_gbt \in BOOLEAN /\ have_longpoll \in BOOLEAN
    /\ allow_mininginfo \in BOOLEAN /\ submit_old \in BOOLEAN
    /\ net_blocks \in Block
    /\ g_work \in Work /\ g_time \in {"zero", "fresh", "old"}
    /\ g_lock \in Miner \cup {Poller, Free}
    /\ pc \in [Miner -> {"lock", "wait", "clear", "scan", "submit", "reset", "out"}]
    /\ work \in [Miner -> Work] /\ restart \in [Miner -> BOOLEAN]
    /\ reply \in [Miner -> Seq(Work)]
    /\ queue \in Seq([get : BOOLEAN, thr : Miner, work : Work])
    /\ wpc \in {"idle", "get", "info", "compare", "check", "send", "pause", "done"}
    /\ cmd \in [get : BOOLEAN, thr : Miner \cup {Free}, work : Work]
    /\ tries \in 0..Retries
    /\ lpc \in {"pop", "poll", "lock", "store"} /\ lpq \in 0..1 /\ lp_block \in Block
    /\ exited \in BOOLEAN

(* Long polling that failed can start again: when the longpoll thread waits for
   an announcement and none is on its way, the next one is not ignored. An
   announcement is made once: at most one waits in the queue. *)
LongpollCanRestart ==
    /\ lpc = "pop" /\ lpq = 0 => ~have_longpoll
    /\ lpc # "pop" => lpq = 0

(* "we can't submit twice a block!" (cpu-miner.c:2467): once a share of ours has
   solved a block, no other share for it is sent. *)
NoBlockSubmittedTwice == ~twice

(* "block %u was already solved" (cpu-miner.c:1598) is true when it is logged:
   a share is discarded by its height only when the server has a newer block. *)
SolvedIsSolved ==
    [][wpc = "check" /\ wpc' = "idle" => cmd.work.prev # chain]_vars

(* Every miner comes to work on the newest block, with or without long polling,
   however restart flags and announcements are lost; or the process ends. *)
EveryMinerCatchesUp ==
    \A m \in Miner : []<>(work[m].prev = chain \/ pc[m] = "out" \/ exited)

(* A request for work is answered, or the process ends: the miner that waits with
   g_work_lock held stops nobody for ever. *)
RequestIsAnswered ==
    \A m \in Miner : (pc[m] = "wait") ~> (pc[m] = "clear" \/ exited)
=============================================================================
