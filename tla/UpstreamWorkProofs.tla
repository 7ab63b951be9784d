-------------------------- MODULE UpstreamWorkProofs --------------------------
(***************************************************************************)
(* Proofs about UpstreamWork, for every set of miners and servers, any     *)
(* number of blocks, shares and retries: the mutex, the start and end of   *)
(* long polling, and, for servers that answer getmininginfo and that say   *)
(* the height of what they give, that no block is submitted twice and that *)
(* a share is discarded as solved only when it is.                         *)
(*                                                                         *)
(* The last two are about every work the program has anywhere: KnownWorks. *)
(***************************************************************************)
EXTENDS UpstreamWork, SequenceTheorems, TLAPS

(* The entries of the queue of the workio thread. *)
Command == [get : BOOLEAN, thr : Miner, work : Work]

(* Who handles a command, asked for by a miner. *)
CommandInv ==
    /\ wpc # "idle" => cmd.thr \in Miner
    /\ wpc \in {"get", "info"} => cmd.get
    /\ wpc \in {"compare", "check", "send"} => ~cmd.get

(* The owner of g_work_lock waits for work or stores a polled one. *)
LockInv ==
    /\ \A m \in Miner : pc[m] = "wait" <=> g_lock = m
    /\ lpc = "store" <=> g_lock = Poller

(* Long polling is on from the announcement to the failure. *)
LongpollInv ==
    /\ have_longpoll <=> lpc # "pop" \/ lpq = 1
    /\ lpc # "pop" => lpq = 0
    /\ have_longpoll => server.lp
    /\ server.gbt = "mined" => have_gbt

BaseInv == TypeOK /\ CommandInv /\ LockInv /\ LongpollInv

(* Every work that may become a share: g_work, the copies of the miners, the
   answers on their way, and the shares on theirs. *)
CopiedWorks == {work[m] : m \in Miner}
AnsweredWorks == UNION {{reply[m][i] : i \in 1..Len(reply[m])} : m \in Miner}
SubmittedWorks == {queue[i].work : i \in {j \in 1..Len(queue) : ~queue[j].get}}
HandledWorks == IF cmd.get THEN {} ELSE {cmd.work}

KnownWorks == {g_work} \cup CopiedWorks \cup AnsweredWorks \cup SubmittedWorks \cup HandledWorks

(* Works do not come from the future, and none comes with a request. *)
PastInv ==
    /\ \A i \in 1..Len(queue) : queue[i].get => queue[i].work = NoWork
    /\ solved \subseteq 1..(chain - 1)
    /\ net_blocks <= chain /\ lp_block <= chain
    /\ \A w \in KnownWorks : w.prev <= chain
    /\ wpc = "info" => cmd.work.prev <= chain

(* A share of a block we solved, or may solve next, has a height that getmininginfo
   shows to be solved afterwards. *)
Recognised(w) ==
    /\ w.prev # 0 => w.height # 0
    /\ w.prev \in solved \cup {chain} => w.height <= w.prev + 1

TwiceInv ==
    /\ ~twice /\ allow_mininginfo
    /\ \A w \in KnownWorks : Recognised(w)
    /\ wpc \in {"get", "pause"} /\ cmd.get => cmd.work.height <= chain + 1
    /\ wpc = "info" => cmd.work.prev \notin solved /\ cmd.work.height <= cmd.work.prev + 1
    /\ wpc = "send" => cmd.work.prev \notin solved

(* A height is that of the block after the one a work builds on, or later. *)
Fits(w) == w.height = 0 \/ w.height > w.prev

HeightInv ==
    /\ \A w \in KnownWorks : Fits(w)
    /\ wpc \in {"get", "pause"} /\ cmd.get => cmd.work.height = 0
    /\ wpc = "info" => Fits(cmd.work)

(* Servers that answer getmininginfo, and long poll with templates only: a block
   polled with getwork has the height of the one before. *)
Informed == \A s \in Servers : s.info = "always" /\ (s.lp => s.gbt = "mined")

(* Servers whose works have their own height: a refused template leaves its
   height in the work got with getwork. *)
Consistent == \A s \in Servers : s.gbt # "refused" /\ (s.lp => s.gbt = "mined")

-----------------------------------------------------------------------------
(* Who changes what. *)

\* g_work_lock.
LEMMA LockFrame ==
    ASSUME [Next]_vars
    PROVE \/ UNCHANGED g_lock
          \/ \E m \in Miner : MinerRequest(m) \/ MinerAnswered(m)
          \/ LpLock \/ LpStore
  BY DEF Next, MinerStep, MinerCopy, MinerClear, MinerScanned, MinerFound, MinerSubmit, MinerReset,
         WorkioStep, WorkioPop, WorkioWork, WorkioFallback, WorkioNoWork, WorkioRetry, WorkioInfo,
         WorkioCompare, WorkioCheck, WorkioSent, WorkioSendFailed, LpStep, LpPop, LpAnswer, LpFailed,
         NewBlock, WorkAges, ProcessExit, Exited, vars, gVars

\* Every step of a miner moves that miner; nobody else does.
LEMMA MinerFrame ==
    ASSUME [Next]_vars
    PROVE \/ UNCHANGED pc
          \/ \E m \in Miner : /\ MinerStep(m)
                              /\ \E p \in {"lock", "wait", "clear", "scan", "submit", "reset", "out"} :
                                    pc' = [pc EXCEPT ![m] = p]
  <1>1. ASSUME NEW m \in Miner, MinerStep(m)
        PROVE \E p \in {"lock", "wait", "clear", "scan", "submit", "reset", "out"} :
                 pc' = [pc EXCEPT ![m] = p]
    BY <1>1 DEF MinerStep, MinerRequest, MinerAnswered, MinerCopy, MinerClear, MinerScanned, MinerFound,
           MinerSubmit, MinerReset, Goto
  <1>2. (\E m \in Miner : MinerStep(m)) \/ UNCHANGED pc
    BY DEF Next, WorkioStep, WorkioPop, WorkioWork, WorkioFallback, WorkioNoWork, WorkioRetry, WorkioInfo,
         WorkioCompare, WorkioCheck, WorkioSent, WorkioSendFailed, LpStep, LpPop, LpAnswer, LpLock,
         LpStore, LpFailed, NewBlock, WorkAges, ProcessExit, Exited, vars, minerVars
  <1>3. QED
    BY <1>1, <1>2

\* The point of the longpoll thread.
LEMMA LpFrame ==
    ASSUME [Next]_vars
    PROVE /\ UNCHANGED lpc \/ LpStep
          /\ UNCHANGED <<have_longpoll, lpq>> \/ LpPop \/ LpFailed
             \/ WorkioWork \/ WorkioFallback \/ WorkioSent
          /\ UNCHANGED lp_block \/ LpAnswer
  <1>1. UNCHANGED lpc \/ LpStep
    BY DEF Next, MinerStep, MinerRequest, MinerAnswered, MinerCopy, MinerClear, MinerScanned, MinerFound,
         MinerSubmit, MinerReset, WorkioStep, WorkioPop, WorkioWork, WorkioFallback, WorkioNoWork,
         WorkioRetry, WorkioInfo, WorkioCompare, WorkioCheck, WorkioSent, WorkioSendFailed,
         NewBlock, WorkAges, ProcessExit, Exited, vars, lpVars
  <1>2. \/ UNCHANGED <<have_longpoll, lpq>> \/ LpPop \/ LpFailed
        \/ WorkioWork \/ WorkioFallback \/ WorkioSent
    BY DEF Next, MinerStep, MinerRequest, MinerAnswered, MinerCopy, MinerClear, MinerScanned, MinerFound,
         MinerSubmit, MinerReset, WorkioStep, WorkioPop, WorkioNoWork,
         WorkioRetry, WorkioInfo, WorkioCompare, WorkioCheck, WorkioSendFailed, LpStep, LpAnswer, LpLock,
         LpStore, NewBlock, WorkAges, ProcessExit, Exited, vars, lpVars, modeVars
  <1>3. UNCHANGED lp_block \/ LpAnswer
    BY DEF Next, MinerStep, MinerRequest, MinerAnswered, MinerCopy, MinerClear, MinerScanned, MinerFound,
         MinerSubmit, MinerReset, WorkioStep, WorkioPop, WorkioWork, WorkioFallback, WorkioNoWork,
         WorkioRetry, WorkioInfo, WorkioCompare, WorkioCheck, WorkioSent, WorkioSendFailed, LpStep, LpPop,
         LpLock, LpStore, LpFailed, NewBlock, WorkAges, ProcessExit, Exited, vars, lpVars
  <1>4. QED
    BY <1>1, <1>2, <1>3

\* The workio thread and its command.
LEMMA WorkioFrame ==
    ASSUME [Next]_vars
    PROVE UNCHANGED workioVars \/ WorkioStep
  BY DEF Next, MinerStep, MinerRequest, MinerAnswered, MinerCopy, MinerClear, MinerScanned, MinerFound,
         MinerSubmit, MinerReset, LpStep, LpPop, LpAnswer, LpLock, LpStore, LpFailed, NewBlock, WorkAges,
         ProcessExit, Exited, vars

\* The server and its chain.
LEMMA ServerFrame ==
    ASSUME [Next]_vars
    PROVE /\ UNCHANGED server
          /\ UNCHANGED serverVars \/ NewBlock \/ WorkioSent \/ WorkioSendFailed
  BY DEF Next, MinerStep, MinerRequest, MinerAnswered, MinerCopy, MinerClear, MinerScanned, MinerFound,
         MinerSubmit, MinerReset, WorkioStep, WorkioPop, WorkioWork, WorkioFallback, WorkioNoWork,
         WorkioRetry, WorkioInfo, WorkioCompare, WorkioCheck, WorkioSent, WorkioSendFailed, ServerTakes,
         LpStep, LpPop, LpAnswer, LpLock, LpStore, LpFailed, NewBlock, WorkAges, ProcessExit, Exited,
         vars, serverVars

\* What the program knows of the server.
LEMMA ModeFrame ==
    ASSUME [Next]_vars
    PROVE /\ UNCHANGED have_gbt \/ WorkioFallback
          /\ UNCHANGED <<net_blocks, allow_mininginfo>> \/ WorkioInfo \/ WorkioCheck
          /\ UNCHANGED submit_old \/ LpAnswer
  BY DEF Next, MinerStep, MinerRequest, MinerAnswered, MinerCopy, MinerClear, MinerScanned, MinerFound,
         MinerSubmit, MinerReset, WorkioStep, WorkioPop, WorkioWork, WorkioFallback, WorkioNoWork,
         WorkioRetry, WorkioInfo, WorkioCompare, WorkioCheck, WorkioSent, WorkioSendFailed,
         LpStep, LpPop, LpAnswer, LpLock, LpStore, LpFailed, NewBlock, WorkAges, ProcessExit, Exited,
         vars, modeVars

\* The works and the queues.
LEMMA WorkFrame ==
    ASSUME [Next]_vars
    PROVE /\ UNCHANGED g_work \/ LpStore \/ \E m \in Miner : MinerAnswered(m)
          /\ UNCHANGED work \/ \E m \in Miner : MinerAnswered(m) \/ MinerCopy(m)
          /\ UNCHANGED reply \/ WorkioInfo \/ \E m \in Miner : MinerAnswered(m)
          /\ UNCHANGED queue \/ WorkioPop \/ \E m \in Miner : MinerRequest(m) \/ MinerSubmit(m)
  <1> USE DEF MinerStep, WorkioStep, LpStep, vars
  <1>1. UNCHANGED g_work \/ LpStore \/ \E m \in Miner : MinerAnswered(m)
    BY DEF Next, MinerRequest, MinerCopy, MinerClear, MinerScanned, MinerFound, MinerSubmit, MinerReset,
         WorkioPop, WorkioWork, WorkioFallback, WorkioNoWork, WorkioRetry, WorkioInfo, WorkioCompare,
         WorkioCheck, WorkioSent, WorkioSendFailed, LpPop, LpAnswer, LpLock, LpFailed, NewBlock,
         WorkAges, ProcessExit, Exited, gVars
  <1>2. UNCHANGED work \/ \E m \in Miner : MinerAnswered(m) \/ MinerCopy(m)
    BY DEF Next, MinerRequest, MinerClear, MinerScanned, MinerFound, MinerSubmit, MinerReset,
         WorkioPop, WorkioWork, WorkioFallback, WorkioNoWork, WorkioRetry, WorkioInfo, WorkioCompare,
         WorkioCheck, WorkioSent, WorkioSendFailed, LpPop, LpAnswer, LpLock, LpStore, LpFailed, NewBlock,
         WorkAges, ProcessExit, Exited, minerVars
  <1>3. UNCHANGED reply \/ WorkioInfo \/ \E m \in Miner : MinerAnswered(m)
    BY DEF Next, MinerRequest, MinerCopy, MinerClear, MinerScanned, MinerFound, MinerSubmit, MinerReset,
         WorkioPop, WorkioWork, WorkioFallback, WorkioNoWork, WorkioRetry, WorkioCompare,
         WorkioCheck, WorkioSent, WorkioSendFailed, LpPop, LpAnswer, LpLock, LpStore, LpFailed, NewBlock,
         WorkAges, ProcessExit, Exited, minerVars
  <1>4. UNCHANGED queue \/ WorkioPop \/ \E m \in Miner : MinerRequest(m) \/ MinerSubmit(m)
    BY DEF Next, MinerAnswered, MinerCopy, MinerClear, MinerScanned, MinerFound, MinerReset,
         WorkioWork, WorkioFallback, WorkioNoWork, WorkioRetry, WorkioInfo, WorkioCompare,
         WorkioCheck, WorkioSent, WorkioSendFailed, LpPop, LpAnswer, LpLock, LpStore, LpFailed, NewBlock,
         WorkAges, ProcessExit, Exited
  <1>5. QED
    BY <1>1, <1>2, <1>3, <1>4

-----------------------------------------------------------------------------
(* The mutex, long polling and the commands. *)

\* LockInv.
LEMMA LockStep == ASSUME BaseInv, [Next]_vars PROVE LockInv'
  <1> USE DEF LockInv, Goto
  <1>1. /\ LockInv /\ pc \in [Miner -> {"lock", "wait", "clear", "scan", "submit", "reset", "out"}]
        /\ g_lock \in Miner \cup {Poller, Free}
        /\ Free \notin Miner /\ Poller \notin Miner /\ Free # Poller
    BY UpstreamWorkAssumption DEF BaseInv, TypeOK
  <1>2. ASSUME NEW m \in Miner, MinerRequest(m) PROVE LockInv'
    BY <1>1, <1>2 DEF MinerRequest, lpVars
  <1>3. ASSUME NEW m \in Miner, MinerAnswered(m) PROVE LockInv'
    BY <1>1, <1>3 DEF MinerAnswered, lpVars
  <1>4. ASSUME NEW m \in Miner,
               \/ MinerCopy(m) \/ MinerClear(m) \/ MinerScanned(m) \/ MinerFound(m)
               \/ MinerSubmit(m) \/ MinerReset(m)
        PROVE LockInv'
    <2>1. /\ UNCHANGED <<g_lock, lpc>> /\ pc[m] # "wait"
          /\ \E p \in {"lock", "clear", "scan", "submit", "reset", "out"} : pc' = [pc EXCEPT ![m] = p]
      BY <1>4 DEF MinerCopy, MinerClear, MinerScanned, MinerFound, MinerSubmit, MinerReset, lpVars, gVars
    <2>2. QED
      BY <1>1, <2>1
  <1>5. CASE LpLock
    BY <1>1, <1>5 DEF LpLock, minerVars
  <1>6. CASE LpStore
    BY <1>1, <1>6 DEF LpStore, minerVars
  <1>7. CASE LpPop \/ LpAnswer \/ LpFailed
    BY <1>1, <1>7 DEF LpPop, LpAnswer, LpFailed, minerVars, gVars
  <1>8. CASE ~(LpStep \/ \E m \in Miner : MinerStep(m))
    BY <1>1, <1>8, LockFrame, MinerFrame, LpFrame DEF LpStep, MinerStep
  <1>9. QED
    BY <1>2, <1>3, <1>4, <1>5, <1>6, <1>7, <1>8 DEF LpStep, MinerStep

\* An announcement.
LEMMA Offered ==
    ASSUME LongpollInv, TypeOK, NEW b \in BOOLEAN, LpOffer(b)
    PROVE /\ lpq' \in 0..1
          /\ have_longpoll' <=> lpc # "pop" \/ lpq' = 1
          /\ lpc # "pop" => lpq' = 0
          /\ have_longpoll' => server.lp
  BY DEF LongpollInv, TypeOK, LpOffer

\* LongpollInv.
LEMMA LongpollStep == ASSUME BaseInv, [Next]_vars PROVE LongpollInv' /\ lpq' \in 0..1
  <1>1. TypeOK /\ LongpollInv /\ lpq \in 0..1 /\ have_gbt \in BOOLEAN
    BY DEF BaseInv, TypeOK
  <1>2. UNCHANGED server
    BY ServerFrame
  <1>3. server.gbt = "mined" => have_gbt'
    BY <1>1, ModeFrame DEF LongpollInv, WorkioFallback
  <1>4. CASE LpPop
    BY <1>1, <1>2, <1>3, <1>4 DEF LpPop, LongpollInv, modeVars
  <1>5. CASE LpFailed
    <2>1. lpc = "poll" /\ lpq' = lpq /\ lpq = 0
      BY <1>1, <1>5 DEF LpFailed, LongpollInv
    <2>2. CASE UNCHANGED <<lpc, have_longpoll>>
      BY <1>1, <1>2, <1>3, <2>1, <2>2 DEF LongpollInv
    <2>3. CASE lpc' = "pop" /\ have_longpoll' = FALSE
      BY <1>1, <1>2, <1>3, <2>1, <2>3 DEF LongpollInv
    <2>4. QED
      BY <1>5, <2>2, <2>3 DEF LpFailed, ForgetLongpoll
  <1>6. CASE WorkioWork
    <2>1. LpOffer(have_gbt) /\ UNCHANGED lpc
      BY <1>6 DEF WorkioWork
    <2>2. QED
      BY <1>1, <1>2, <1>3, <2>1, Offered DEF LongpollInv
  <1>7. CASE WorkioFallback
    <2>1. /\ UNCHANGED lpc
          /\ LpOffer(TRUE) \/ UNCHANGED <<have_longpoll, lpq>>
      BY <1>7 DEF WorkioFallback
    <2>2. CASE LpOffer(TRUE)
      BY <1>1, <1>2, <1>3, <2>1, <2>2, Offered DEF LongpollInv
    <2>3. CASE UNCHANGED <<have_longpoll, lpq>>
      BY <1>1, <1>2, <1>3, <2>1, <2>3 DEF LongpollInv
    <2>4. QED
      BY <2>1, <2>2, <2>3
  <1>8. CASE WorkioSent
    <2>1. LpOffer(FALSE) /\ UNCHANGED lpc
      BY <1>8 DEF WorkioSent
    <2>2. QED
      BY <1>1, <1>2, <1>3, <2>1, Offered DEF LongpollInv
  <1>9. CASE UNCHANGED <<have_longpoll, lpq>> /\ ~LpPop /\ ~LpFailed
    <2>1. lpc' = "pop" <=> lpc = "pop"
      BY <1>9, LpFrame DEF LpStep, LpAnswer, LpLock, LpStore
    <2>2. QED
      BY <1>1, <1>2, <1>3, <1>9, <2>1 DEF LongpollInv
  <1>10. QED
    BY <1>4, <1>5, <1>6, <1>7, <1>8, <1>9, LpFrame

-----------------------------------------------------------------------------
(* Types. *)

\* What is fixed about the constants.
LEMMA Bounds ==
    /\ MaxChain \in Nat /\ 1 \in 1..MaxChain /\ 1..MaxChain \subseteq Block
    /\ NoWork \in Work
    /\ \A c \in Block : c + 1 \in 0..(MaxChain + 1)
    /\ \A w \in Work : w.prev \in Block /\ w.height \in 0..(MaxChain + 1)
    /\ \A b \in Block, h \in 0..(MaxChain + 1) : [prev |-> b, height |-> h] \in Work
  BY UpstreamWorkAssumption DEF Block, Work, NoWork

\* The server.
LEMMA ServerTypes ==
    ASSUME TypeOK, [Next]_vars
    PROVE /\ server' \in Servers
          /\ chain' \in 1..MaxChain /\ solved' \subseteq 1..MaxChain /\ twice' \in BOOLEAN
  <1>1. /\ chain \in 1..MaxChain /\ MaxChain \in Nat /\ server \in Servers
        /\ solved \subseteq 1..MaxChain /\ twice \in BOOLEAN
    BY Bounds DEF TypeOK
  <1>2. ASSUME NEW b, ServerTakes(b)
        PROVE chain' \in 1..MaxChain /\ solved' \subseteq 1..MaxChain /\ twice' \in BOOLEAN
    <2>1. twice' \in BOOLEAN
      BY <1>2 DEF ServerTakes
    <2>2. CASE b = chain /\ chain < MaxChain
      <3>1. chain' = chain + 1 /\ solved' = solved \cup {chain}
        BY <1>2, <2>2 DEF ServerTakes
      <3>2. chain' \in 1..MaxChain
        BY <1>1, <2>2, <3>1
      <3>3. solved' \subseteq 1..MaxChain
        BY <1>1, <3>1
      <3>4. QED
        BY <2>1, <3>2, <3>3
    <2>3. CASE ~(b = chain /\ chain < MaxChain)
      BY <1>1, <1>2, <2>1, <2>3 DEF ServerTakes
    <2>4. QED
      BY <2>2, <2>3
  <1>3. CASE NewBlock
    BY <1>1, <1>3 DEF NewBlock
  <1>4. QED
    BY <1>1, <1>2, <1>3, ServerFrame DEF WorkioSent, WorkioSendFailed, serverVars

\* What the program knows of it.
LEMMA ModeTypes ==
    ASSUME TypeOK, [Next]_vars
    PROVE /\ have_gbt' \in BOOLEAN /\ have_longpoll' \in BOOLEAN
          /\ allow_mininginfo' \in BOOLEAN /\ submit_old' \in BOOLEAN
          /\ net_blocks' \in Block
  <1>1. /\ have_gbt \in BOOLEAN /\ have_longpoll \in BOOLEAN
        /\ allow_mininginfo \in BOOLEAN /\ submit_old \in BOOLEAN
        /\ net_blocks \in Block /\ chain \in Block
    BY Bounds DEF TypeOK
  <1>2. have_gbt' \in BOOLEAN
    BY <1>1, ModeFrame DEF WorkioFallback
  <1>3. have_longpoll' \in BOOLEAN
    BY <1>1, LpFrame DEF LpPop, LpFailed, ForgetLongpoll, WorkioWork, WorkioFallback, WorkioSent, LpOffer,
       modeVars
  <1>4. allow_mininginfo' \in BOOLEAN /\ net_blocks' \in Block
    BY <1>1, ModeFrame DEF WorkioInfo, WorkioCheck, InfoAnswered, InfoUnknown, InfoLost, InfoNotAsked
  <1>5. submit_old' \in BOOLEAN
    BY <1>1, ModeFrame, UpstreamWorkAssumption DEF LpAnswer
  <1>6. QED
    BY <1>2, <1>3, <1>4, <1>5

\* g_work, the works and the queues.
LEMMA WorkTypes ==
    ASSUME BaseInv, [Next]_vars
    PROVE /\ g_work' \in Work /\ work' \in [Miner -> Work]
          /\ reply' \in [Miner -> Seq(Work)]
          /\ queue' \in Seq(Command)
  <1>1. /\ g_work \in Work /\ work \in [Miner -> Work] /\ reply \in [Miner -> Seq(Work)]
        /\ queue \in Seq(Command) /\ chain \in Block /\ lp_block \in Block
        /\ cmd \in [get : BOOLEAN, thr : Miner \cup {Free}, work : Work]
    BY Bounds DEF BaseInv, TypeOK, Command
  <1>2. ASSUME NEW m \in Miner, MinerAnswered(m)
        PROVE Head(reply[m]) \in Work /\ Tail(reply[m]) \in Seq(Work)
    BY <1>1, <1>2, HeadTailProperties DEF MinerAnswered
  <1>3. g_work' \in Work
    <2>1. CASE LpStore
      BY <1>1, <2>1, Bounds DEF LpStore, Decoded
    <2>2. QED
      BY <1>1, <1>2, <2>1, WorkFrame DEF MinerAnswered
  <1>4. work' \in [Miner -> Work]
    <2>1. ASSUME NEW m \in Miner, MinerCopy(m) PROVE work' \in [Miner -> Work]
      BY <1>1, <2>1 DEF MinerCopy
    <2>2. ASSUME NEW m \in Miner, MinerAnswered(m) PROVE work' \in [Miner -> Work]
      BY <1>1, <1>2, <2>2 DEF MinerAnswered
    <2>3. QED
      BY <1>1, <2>1, <2>2, WorkFrame
  <1>5. reply' \in [Miner -> Seq(Work)]
    <2>1. CASE WorkioInfo
      <3>1. cmd.thr \in Miner
        BY <2>1 DEF BaseInv, CommandInv, WorkioInfo
      <3>2. cmd.work \in Work /\ [cmd.work EXCEPT !.height = Height(@)] \in Work
        BY <1>1, Bounds DEF Height, Work
      <3>3. \E w \in Work : reply' = [reply EXCEPT ![cmd.thr] = Append(@, w)]
        BY <2>1, <3>2 DEF WorkioInfo, Answer
      <3>4. PICK w \in Work : reply' = [reply EXCEPT ![cmd.thr] = Append(@, w)]
        BY <3>3
      <3>5. Append(reply[cmd.thr], w) \in Seq(Work)
        BY <1>1, <3>1, AppendProperties
      <3>6. QED
        BY <1>1, <3>1, <3>4, <3>5
    <2>2. ASSUME NEW m \in Miner, MinerAnswered(m) PROVE reply' \in [Miner -> Seq(Work)]
      BY <1>1, <1>2, <2>2 DEF MinerAnswered
    <2>3. QED
      BY <1>1, <2>1, <2>2, WorkFrame
  <1>6. queue' \in Seq(Command)
    <2>1. CASE WorkioPop
      BY <1>1, <2>1, HeadTailProperties DEF WorkioPop
    <2>2. ASSUME NEW m \in Miner, MinerRequest(m) PROVE queue' \in Seq(Command)
      <3>1. Get(m) \in Command
        BY Bounds DEF Get, Command
      <3>2. queue' = queue \/ queue' = Append(queue, Get(m))
        BY <2>2 DEF MinerRequest
      <3>3. queue \in Seq(Command)
        BY <1>1
      <3>4. Append(queue, Get(m)) \in Seq(Command)
        BY <3>1, <3>3, AppendProperties
      <3>5. QED
        BY <3>2, <3>3, <3>4
    <2>3. ASSUME NEW m \in Miner, MinerSubmit(m) PROVE queue' \in Seq(Command)
      <3>1. Submit(m) \in Command
        BY <1>1 DEF Submit, Command
      <3>2. queue' = queue \/ queue' = Append(queue, Submit(m))
        BY <2>3 DEF MinerSubmit
      <3>3. queue \in Seq(Command)
        BY <1>1
      <3>4. Append(queue, Submit(m)) \in Seq(Command)
        BY <3>1, <3>3, AppendProperties
      <3>5. QED
        BY <3>2, <3>3, <3>4
    <2>4. QED
      BY <1>1, <2>1, <2>2, <2>3, WorkFrame
  <1>7. QED
    BY <1>3, <1>4, <1>5, <1>6

\* The workio thread.
LEMMA WorkioTypes ==
    ASSUME BaseInv, [Next]_vars
    PROVE /\ wpc' \in {"idle", "get", "info", "compare", "check", "send", "pause", "done"}
          /\ cmd' \in [get : BOOLEAN, thr : Miner \cup {Free}, work : Work]
          /\ tries' \in 0..Retries
          /\ CommandInv'
  <1>1. /\ wpc \in {"idle", "get", "info", "compare", "check", "send", "pause", "done"}
        /\ cmd \in [get : BOOLEAN, thr : Miner \cup {Free}, work : Work]
        /\ tries \in 0..Retries /\ Retries \in Nat /\ chain \in Block
        /\ queue \in Seq(Command) /\ CommandInv
    BY Bounds, UpstreamWorkAssumption DEF BaseInv, TypeOK, Command
  <1>2. CASE WorkioPop
    <2>1. Head(queue) \in Command
      BY <1>1, <1>2, HeadTailProperties DEF WorkioPop
    <2>2. QED
      BY <1>1, <1>2, <2>1 DEF WorkioPop, Command, CommandInv
  <1>3. CASE WorkioWork
    <2>1. Decoded(chain, cmd.work.height) \in Work
      BY <1>1, Bounds DEF Decoded
    <2>2. QED
      BY <1>1, <1>3, <2>1 DEF WorkioWork, CommandInv
  <1>4. CASE WorkioFallback
    <2>1. [cmd.work EXCEPT !.height = chain + 1] \in Work
      BY <1>1, Bounds DEF Work
    <2>2. /\ cmd' = cmd \/ cmd' = [cmd EXCEPT !.work = [cmd.work EXCEPT !.height = chain + 1]]
          /\ UNCHANGED <<wpc, tries>>
      BY <1>1, <1>4 DEF WorkioFallback
    <2>3. QED
      BY <1>1, <2>1, <2>2 DEF CommandInv
  <1>5. CASE WorkioRetry
    BY <1>1, <1>5 DEF WorkioRetry, CommandInv
  <1>6. CASE WorkioInfo \/ WorkioCompare \/ WorkioCheck \/ WorkioSent
    <2>1. /\ UNCHANGED cmd /\ tries' \in {0, tries}
          /\ wpc' = "idle" \/ (wpc' \in {"check", "send"} /\ wpc \in {"compare", "check"})
      BY <1>6 DEF WorkioInfo, WorkioCompare, WorkioCheck, WorkioSent
    <2>2. QED
      BY <1>1, <2>1 DEF CommandInv
  <1>7. CASE WorkioNoWork \/ WorkioSendFailed
    BY <1>1, <1>7 DEF WorkioNoWork, WorkioSendFailed, RetryOrEnd, CommandInv
  <1>8. CASE UNCHANGED workioVars
    BY <1>1, <1>8 DEF workioVars, CommandInv
  <1>9. QED
    BY <1>2, <1>3, <1>4, <1>5, <1>6, <1>7, <1>8, WorkioFrame DEF WorkioStep

\* The rest.
LEMMA OtherTypes ==
    ASSUME TypeOK, [Next]_vars
    PROVE /\ found' \in 0..MaxFound
          /\ g_time' \in {"zero", "fresh", "old"}
          /\ g_lock' \in Miner \cup {Poller, Free}
          /\ pc' \in [Miner -> {"lock", "wait", "clear", "scan", "submit", "reset", "out"}]
          /\ restart' \in [Miner -> BOOLEAN]
          /\ lpc' \in {"pop", "poll", "lock", "store"} /\ lp_block' \in Block
          /\ exited' \in BOOLEAN
  <1>1. /\ found \in 0..MaxFound /\ MaxFound \in Nat
        /\ g_time \in {"zero", "fresh", "old"}
        /\ g_lock \in Miner \cup {Poller, Free}
        /\ pc \in [Miner -> {"lock", "wait", "clear", "scan", "submit", "reset", "out"}]
        /\ restart \in [Miner -> BOOLEAN]
        /\ lpc \in {"pop", "poll", "lock", "store"} /\ lp_block \in Block
        /\ exited \in BOOLEAN /\ chain \in Block
    BY Bounds, UpstreamWorkAssumption DEF TypeOK
  <1>2. found' \in 0..MaxFound
    <2>1. UNCHANGED found \/ \E m \in Miner : MinerFound(m)
      BY DEF Next, MinerStep, WorkioStep, LpStep, vars, MinerRequest, MinerAnswered, MinerCopy, MinerClear,
         MinerScanned, MinerSubmit, MinerReset, WorkioPop, WorkioWork, WorkioFallback, WorkioNoWork,
         WorkioRetry, WorkioInfo, WorkioCompare, WorkioCheck, WorkioSent, WorkioSendFailed, LpPop,
         LpAnswer, LpLock, LpStore, LpFailed, NewBlock, WorkAges, ProcessExit, Exited, minerVars
    <2>2. QED
      BY <1>1, <2>1 DEF MinerFound
  <1>3. g_time' \in {"zero", "fresh", "old"}
    BY <1>1 DEF Next, MinerStep, WorkioStep, LpStep, vars, MinerRequest, MinerAnswered, MinerCopy, MinerClear,
         MinerScanned, MinerFound, MinerSubmit, MinerReset, WorkioPop, WorkioWork, WorkioFallback,
         WorkioNoWork, WorkioRetry, WorkioInfo, WorkioCompare, WorkioCheck, WorkioSent, WorkioSendFailed,
         LpPop, LpAnswer, LpLock, LpStore, LpFailed, NewBlock, WorkAges, ProcessExit, Exited, gVars
  <1>4. g_lock' \in Miner \cup {Poller, Free}
    BY <1>1, LockFrame DEF MinerRequest, MinerAnswered, LpLock, LpStore
  <1>5. pc' \in [Miner -> {"lock", "wait", "clear", "scan", "submit", "reset", "out"}]
    BY <1>1, MinerFrame
  <1>6. restart' \in [Miner -> BOOLEAN]
    <2>1. UNCHANGED restart \/ restart_threads \/ \E m \in Miner : restart' = [restart EXCEPT ![m] = FALSE]
      BY DEF Next, MinerStep, WorkioStep, LpStep, vars, MinerRequest, MinerAnswered, MinerCopy, MinerClear,
         MinerScanned, MinerFound, MinerSubmit, MinerReset, WorkioPop, WorkioWork, WorkioFallback,
         WorkioNoWork, WorkioRetry, WorkioInfo, WorkioCompare, WorkioCheck, WorkioSent, WorkioSendFailed,
         InfoAnswered, InfoUnknown, InfoLost, InfoNotAsked,
         LpPop, LpAnswer, LpLock, LpStore, LpFailed, NewBlock, WorkAges, ProcessExit, Exited
    <2>2. QED
      BY <1>1, <2>1 DEF restart_threads
  <1>7. lpc' \in {"pop", "poll", "lock", "store"} /\ lp_block' \in Block
    BY <1>1, LpFrame DEF LpStep, LpPop, LpAnswer, LpLock, LpStore, LpFailed
  <1>8. exited' \in BOOLEAN
    BY <1>1 DEF Next, MinerStep, WorkioStep, LpStep, vars, MinerRequest, MinerAnswered, MinerCopy, MinerClear,
         MinerScanned, MinerFound, MinerSubmit, MinerReset, WorkioPop, WorkioWork, WorkioFallback,
         WorkioNoWork, WorkioRetry, WorkioInfo, WorkioCompare, WorkioCheck, WorkioSent, WorkioSendFailed,
         LpPop, LpAnswer, LpLock, LpStore, LpFailed, NewBlock, WorkAges, ProcessExit, Exited
  <1>9. QED
    BY <1>2, <1>3, <1>4, <1>5, <1>6, <1>7, <1>8

\* Every reachable state has the types and the mutex, command and long polling parts.
LEMMA BaseInit == Init => BaseInv
  <1> SUFFICES ASSUME Init PROVE BaseInv
    OBVIOUS
  <1> USE DEF Init
  <1>1. TypeOK
    <2>1. /\ NoWork \in Work /\ 0 \in Block /\ 1 \in 1..MaxChain
          /\ Retries \in Nat /\ MaxFound \in Nat
      BY Bounds, UpstreamWorkAssumption DEF Block
    <2>2. /\ queue \in Seq([get : BOOLEAN, thr : Miner, work : Work])
          /\ reply \in [Miner -> Seq(Work)]
      OBVIOUS
    <2>3. /\ cmd \in [get : BOOLEAN, thr : Miner \cup {Free}, work : Work]
          /\ work \in [Miner -> Work] /\ restart \in [Miner -> BOOLEAN]
          /\ pc \in [Miner -> {"lock", "wait", "clear", "scan", "submit", "reset", "out"}]
      BY <2>1
    <2>4. /\ tries \in 0..Retries /\ found \in 0..MaxFound /\ lpq \in 0..1
          /\ solved \subseteq 1..MaxChain
      BY <2>1
    <2>5. QED
      BY <2>1, <2>2, <2>3, <2>4 DEF TypeOK
  <1>2. CommandInv /\ LongpollInv
    BY UpstreamWorkAssumption DEF CommandInv, LongpollInv
  <1>3. LockInv
    BY UpstreamWorkAssumption DEF LockInv
  <1>4. QED
    BY <1>1, <1>2, <1>3 DEF BaseInv

LEMMA BaseStep == ASSUME BaseInv, [Next]_vars PROVE BaseInv'
  <1>1. TypeOK
    BY DEF BaseInv
  <1>2. TypeOK'
    BY <1>1, ServerTypes, ModeTypes, WorkTypes, WorkioTypes, OtherTypes, LongpollStep DEF TypeOK, Command
  <1>3. QED
    BY <1>2, WorkioTypes, LockStep, LongpollStep DEF BaseInv

\* Every behaviour keeps BaseInv.
LEMMA BaseHolds == Safety => []BaseInv
  BY BaseInit, BaseStep, PTL DEF Safety

\* Every variable has its type, and no answer or command is of no miner's.
THEOREM TypeCorrect == Safety => []TypeOK
  <1>1. BaseInv => TypeOK
    BY DEF BaseInv
  <1>2. QED
    BY <1>1, BaseHolds, PTL

\* A new announcement of long polling is heard whenever the thread waits for one, and one
\* announcement is queued at most (cpu-miner.c: have_longpoll and the queue of the thread).
THEOREM LongpollRestarts == Safety => []LongpollCanRestart
  <1>1. BaseInv => LongpollCanRestart
    BY DEF BaseInv, LongpollInv, LongpollCanRestart
  <1>2. QED
    BY <1>1, BaseHolds, PTL

-----------------------------------------------------------------------------
(* Where works come from. *)

\* What it is to be a known work, now and after a step.
Membership ==
    \A w : w \in KnownWorks <=>
             \/ w = g_work
             \/ \E m \in Miner : w = work[m]
             \/ \E m \in Miner : \E i \in 1..Len(reply[m]) : w = reply[m][i]
             \/ \E i \in 1..Len(queue) : ~queue[i].get /\ w = queue[i].work
             \/ ~cmd.get /\ w = cmd.work

LEMMA KnownMembers == Membership
  <1> SUFFICES ASSUME NEW w
               PROVE w \in KnownWorks <=>
                       \/ w = g_work
                       \/ \E m \in Miner : w = work[m]
                       \/ \E m \in Miner : \E i \in 1..Len(reply[m]) : w = reply[m][i]
                       \/ \E i \in 1..Len(queue) : ~queue[i].get /\ w = queue[i].work
                       \/ ~cmd.get /\ w = cmd.work
    BY DEF Membership
  <1>1. w \in CopiedWorks <=> \E m \in Miner : w = work[m]
    BY DEF CopiedWorks
  <1>2. w \in AnsweredWorks <=> \E m \in Miner : \E i \in 1..Len(reply[m]) : w = reply[m][i]
    BY DEF AnsweredWorks
  <1>3. w \in SubmittedWorks <=> \E i \in 1..Len(queue) : ~queue[i].get /\ w = queue[i].work
    BY DEF SubmittedWorks
  <1>4. w \in HandledWorks <=> ~cmd.get /\ w = cmd.work
    BY DEF HandledWorks
  <1>5. QED
    BY <1>1, <1>2, <1>3, <1>4 DEF KnownWorks

LEMMA KnownMembersNext == Membership'
  BY KnownMembers, PTL

\* Known works are works.
LEMMA KnownTypes ==
    ASSUME TypeOK, NEW w \in KnownWorks
    PROVE w \in Work /\ w.prev \in Nat /\ w.height \in Nat
  <1>1. /\ g_work \in Work /\ work \in [Miner -> Work] /\ reply \in [Miner -> Seq(Work)]
        /\ queue \in Seq(Command)
        /\ cmd \in [get : BOOLEAN, thr : Miner \cup {Free}, work : Work]
    BY DEF TypeOK, Command
  <1>2. ASSUME NEW m \in Miner, NEW i \in 1..Len(reply[m]) PROVE reply[m][i] \in Work
    <2>1. reply[m] \in Seq(Work)
      BY <1>1
    <2>2. QED
      BY <2>1, ElementOfSeq
  <1>3. ASSUME NEW i \in 1..Len(queue) PROVE queue[i].work \in Work
    <2>1. queue[i] \in Command
      BY <1>1, ElementOfSeq
    <2>2. QED
      BY <2>1 DEF Command
  <1>4. w \in Work
    <2>1. \/ w = g_work
          \/ \E m \in Miner : w = work[m]
          \/ \E m \in Miner : \E i \in 1..Len(reply[m]) : w = reply[m][i]
          \/ \E i \in 1..Len(queue) : ~queue[i].get /\ w = queue[i].work
          \/ ~cmd.get /\ w = cmd.work
      BY KnownMembers, Zenon DEF Membership
    <2>2. (\E m \in Miner : w = work[m]) => w \in Work
      BY <1>1
    <2>3. cmd.work \in Work
      BY <1>1
    <2>4. QED
      BY <1>1, <1>2, <1>3, <2>1, <2>2, <2>3, Zenon
  <1>5. QED
    BY <1>4, UpstreamWorkAssumption DEF Work, Block

\* The first answer of a miner, and what is left of its queue.
LEMMA Answers ==
    ASSUME TypeOK, NEW m \in Miner, reply[m] # <<>>
    PROVE /\ Head(reply[m]) \in KnownWorks
          /\ \A i \in 1..Len(Tail(reply[m])) : Tail(reply[m])[i] \in KnownWorks
  <1>1. reply[m] \in Seq(Work) /\ 1 \in 1..Len(reply[m])
    BY DEF TypeOK
  <1>2. Head(reply[m]) = reply[m][1]
    BY <1>1, HeadTailProperties
  <1>3. ASSUME NEW i \in 1..Len(Tail(reply[m]))
        PROVE i + 1 \in 1..Len(reply[m]) /\ Tail(reply[m])[i] = reply[m][i + 1]
    BY <1>1, HeadTailProperties
  <1>4. QED
    BY <1>1, <1>2, <1>3, KnownMembers DEF Membership

(* A work completed without the help of getmininginfo. *)
Uninformed == ~allow_mininginfo \/ server.info # "always"

\* Every work is one of before, or the workio thread completed it, or it was polled.
LEMMA NewWorks ==
    ASSUME BaseInv, [Next]_vars, NEW w \in KnownWorks'
    PROVE \/ w \in KnownWorks
          \/ LpStore /\ w = Decoded(lp_block, g_work.height)
          \/ WorkioInfo /\ w = [cmd.work EXCEPT !.height = Height(@)]
          \/ WorkioInfo /\ w = cmd.work /\ Uninformed
  <1> DEFINE Completed == \/ WorkioInfo /\ w = [cmd.work EXCEPT !.height = Height(@)]
                          \/ WorkioInfo /\ w = cmd.work /\ Uninformed
  <1>1. /\ TypeOK /\ CommandInv
        /\ work \in [Miner -> Work] /\ reply \in [Miner -> Seq(Work)] /\ queue \in Seq(Command)
        /\ cmd \in [get : BOOLEAN, thr : Miner \cup {Free}, work : Work]
    BY DEF BaseInv, TypeOK, Command
  <1>2. CASE w = g_work'
    <2>1. ASSUME NEW m \in Miner, MinerAnswered(m) PROVE g_work' \in KnownWorks
      BY <1>1, <2>1, Answers DEF MinerAnswered
    <2>2. LpStore => g_work' = Decoded(lp_block, g_work.height)
      BY DEF LpStore
    <2>3. g_work \in KnownWorks
      BY KnownMembers DEF Membership
    <2>4. QED
      BY <1>2, <2>1, <2>2, <2>3, WorkFrame
  <1>3. ASSUME NEW m \in Miner, w = work'[m] PROVE w \in KnownWorks
    <2>1. work[m] \in KnownWorks /\ g_work \in KnownWorks
      BY KnownMembers DEF Membership
    <2>2. ASSUME NEW n \in Miner, MinerAnswered(n) PROVE work'[m] \in KnownWorks
      <3>1. work'[m] = work[m] \/ work'[m] = Head(reply[n])
        BY <1>1, <2>2 DEF MinerAnswered
      <3>2. QED
        BY <1>1, <2>1, <2>2, <3>1, Answers DEF MinerAnswered
    <2>3. ASSUME NEW n \in Miner, MinerCopy(n) PROVE work'[m] \in KnownWorks
      BY <1>1, <2>1, <2>3 DEF MinerCopy
    <2>4. QED
      BY <1>3, <2>1, <2>2, <2>3, WorkFrame
  <1>4. ASSUME NEW m \in Miner, NEW i \in 1..Len(reply'[m]), w = reply'[m][i]
        PROVE w \in KnownWorks \/ Completed
    <2>1. CASE reply'[m] = reply[m]
      BY <1>4, <2>1, KnownMembers DEF Membership
    <2>2. ASSUME NEW n \in Miner, MinerAnswered(n), reply'[m] # reply[m] PROVE w \in KnownWorks
      <3>1. reply'[m] = Tail(reply[m]) /\ reply[m] # <<>>
        BY <1>1, <2>2 DEF MinerAnswered
      <3>2. QED
        BY <1>1, <1>4, <3>1, Answers
    <2>3. CASE WorkioInfo /\ reply'[m] # reply[m]
      <3>1. \E v : /\ v = [cmd.work EXCEPT !.height = Height(@)] \/ (v = cmd.work /\ Uninformed)
                   /\ reply' = [reply EXCEPT ![cmd.thr] = Append(@, v)]
        BY <2>3 DEF WorkioInfo, Answer, InfoNotAsked, InfoUnknown, InfoLost, Uninformed
      <3>2. PICK v : /\ v = [cmd.work EXCEPT !.height = Height(@)] \/ (v = cmd.work /\ Uninformed)
                     /\ reply' = [reply EXCEPT ![cmd.thr] = Append(@, v)]
        BY <3>1
      <3>3. reply[m] \in Seq(Work) /\ reply'[m] = Append(reply[m], v)
        BY <1>1, <2>3, <3>2
      <3>4. w = v \/ (i \in 1..Len(reply[m]) /\ w = reply[m][i])
        BY <1>4, <3>3
      <3>5. QED
        BY <2>3, <3>2, <3>4, KnownMembers DEF Membership
    <2>4. QED
      BY <2>1, <2>2, <2>3, WorkFrame
  <1>5. ASSUME NEW i \in 1..Len(queue'), ~queue'[i].get, w = queue'[i].work PROVE w \in KnownWorks
    <2>1. CASE queue' = queue
      BY <1>5, <2>1, KnownMembers DEF Membership
    <2>2. CASE WorkioPop
      <3>1. i + 1 \in 1..Len(queue) /\ queue'[i] = queue[i + 1]
        BY <1>1, <1>5, <2>2, HeadTailProperties DEF WorkioPop
      <3>2. QED
        BY <1>5, <3>1, KnownMembers DEF Membership
    <2>3. ASSUME NEW m \in Miner, NEW c \in {Get(m), Submit(m)}, queue' = Append(queue, c)
          PROVE w \in KnownWorks
      <3>1. queue'[i] = c \/ (i \in 1..Len(queue) /\ queue'[i] = queue[i])
        BY <1>1, <1>5, <2>3
      <3>2. CASE queue'[i] = c
        BY <1>5, <2>3, <3>2, KnownMembers DEF Get, Submit, Membership
      <3>3. QED
        BY <1>5, <3>1, <3>2, KnownMembers DEF Membership
    <2>4. QED
      BY <2>1, <2>2, <2>3, WorkFrame DEF MinerRequest, MinerSubmit
  <1>6. CASE ~cmd'.get /\ w = cmd'.work
    <2>1. CASE UNCHANGED cmd
      BY <1>6, <2>1, KnownMembers DEF Membership
    <2>2. CASE WorkioPop
      <3>1. 1 \in 1..Len(queue) /\ cmd' = queue[1]
        BY <1>1, <2>2, HeadTailProperties DEF WorkioPop
      <3>2. QED
        BY <1>6, <3>1, KnownMembers DEF Membership
    <2>3. CASE WorkioWork \/ WorkioFallback
      BY <1>1, <1>6, <2>3 DEF WorkioWork, WorkioFallback, CommandInv
    <2>4. QED
      BY <2>1, <2>2, <2>3, WorkioFrame DEF WorkioStep, WorkioNoWork, WorkioRetry, WorkioInfo, WorkioCompare,
         WorkioCheck, WorkioSent, WorkioSendFailed, workioVars
  <1>7. \/ w = g_work'
        \/ \E m \in Miner : w = work'[m]
        \/ \E m \in Miner : \E i \in 1..Len(reply'[m]) : w = reply'[m][i]
        \/ \E i \in 1..Len(queue') : ~queue'[i].get /\ w = queue'[i].work
        \/ ~cmd'.get /\ w = cmd'.work
    BY KnownMembersNext DEF Membership
  <1>8. QED
    BY <1>2, <1>3, <1>4, <1>5, <1>6, <1>7

-----------------------------------------------------------------------------
(* Works of the past. *)

\* A number that grows by one at most.
LEMMA Growing ==
    ASSUME NEW c \in Nat, NEW d \in Nat, d = c \/ d = c + 1
    PROVE /\ c <= d
          /\ \A b \in 1..(c - 1) : b \in 1..(d - 1)
          /\ 0 <= d + 1 /\ c + 1 <= d + 1
          /\ \A h \in Nat : h <= c + 1 => h <= d + 1
  OBVIOUS

\* The chain only grows, and our share is for its newest block when it solves one.
LEMMA ChainGrows ==
    ASSUME BaseInv, [Next]_vars
    PROVE /\ chain \in Nat /\ chain' \in Nat /\ chain \in 1..MaxChain
          /\ chain' = chain \/ chain' = chain + 1
          /\ \/ solved' = solved
             \/ /\ wpc = "send" /\ chain' = chain + 1 /\ cmd.work.prev = chain
                /\ solved' = solved \cup {chain}
  <1>1. chain \in Nat /\ chain \in 1..MaxChain
    BY Bounds DEF BaseInv, TypeOK
  <1>2. CASE WorkioSent \/ WorkioSendFailed
    <2>1. /\ wpc = "send"
          /\ ServerTakes(cmd.work.prev) \/ UNCHANGED <<chain, solved>>
      BY <1>2 DEF WorkioSent, WorkioSendFailed, serverVars
    <2>2. ServerTakes(cmd.work.prev)
          => \/ UNCHANGED <<chain, solved>>
             \/ chain' = chain + 1 /\ cmd.work.prev = chain /\ solved' = solved \cup {chain}
      BY DEF ServerTakes
    <2>3. QED
      BY <1>1, <2>1, <2>2
  <1>3. CASE NewBlock
    BY <1>1, <1>3 DEF NewBlock
  <1>4. CASE UNCHANGED serverVars
    BY <1>1, <1>4 DEF serverVars
  <1>5. QED
    BY <1>2, <1>3, <1>4, ServerFrame

\* Only a share for a block we solved is one too many.
LEMMA TwiceSet ==
    ASSUME [Next]_vars, ~twice, twice'
    PROVE wpc = "send" /\ cmd.work.prev \in solved
  BY ServerFrame DEF NewBlock, WorkioSent, WorkioSendFailed, ServerTakes, serverVars

\* A work is got from the server by WorkioWork.
LEMMA Got ==
    ASSUME BaseInv, [Next]_vars, wpc' = "info"
    PROVE \/ WorkioWork /\ cmd'.work = Decoded(chain, cmd.work.height)
          \/ wpc = "info" /\ UNCHANGED cmd
  <1>1. CASE WorkioWork
    BY <1>1 DEF WorkioWork, BaseInv, TypeOK
  <1>2. CASE UNCHANGED workioVars
    BY <1>2 DEF workioVars
  <1>3. CASE WorkioStep /\ ~WorkioWork
    BY <1>3 DEF WorkioStep, WorkioPop, WorkioFallback, WorkioNoWork, WorkioRetry, RetryOrEnd, WorkioInfo,
       WorkioCompare, WorkioCheck, WorkioSent, WorkioSendFailed
  <1>4. QED
    BY <1>1, <1>2, <1>3, WorkioFrame

\* What is asked and not yet got.
LEMMA Asked ==
    ASSUME BaseInv, PastInv, [Next]_vars, wpc' \in {"get", "pause"}, cmd'.get
    PROVE \/ cmd'.work = NoWork
          \/ wpc \in {"get", "pause"} /\ cmd.get /\ UNCHANGED cmd
          \/ WorkioFallback /\ server.gbt = "refused" /\ cmd'.work.height = chain + 1
  <1>1. /\ cmd \in [get : BOOLEAN, thr : Miner \cup {Free}, work : Work] /\ CommandInv
        /\ queue \in Seq(Command)
    BY DEF BaseInv, TypeOK, Command
  <1>2. CASE WorkioPop
    <2>1. 1 \in 1..Len(queue) /\ cmd' = queue[1]
      BY <1>1, <1>2, HeadTailProperties DEF WorkioPop
    <2>2. QED
      BY <2>1 DEF PastInv
  <1>3. CASE WorkioFallback
    <2>1. /\ wpc = "get" /\ cmd.get
          /\ wpc' = wpc
          /\ UNCHANGED cmd \/ (server.gbt = "refused" /\ cmd' = [cmd EXCEPT !.work.height = chain + 1])
      BY <1>1, <1>3 DEF WorkioFallback, CommandInv
    <2>2. [cmd EXCEPT !.work.height = chain + 1].work.height = chain + 1
      BY <1>1 DEF Work
    <2>3. QED
      BY <1>3, <2>1, <2>2
  <1>4. CASE UNCHANGED workioVars
    BY <1>4 DEF workioVars
  <1>5. CASE WorkioStep /\ ~WorkioPop /\ ~WorkioFallback
    BY <1>1, <1>5 DEF WorkioStep, WorkioWork, WorkioNoWork, WorkioRetry, RetryOrEnd, WorkioInfo,
       WorkioCompare, WorkioCheck, WorkioSent, WorkioSendFailed, CommandInv
  <1>6. QED
    BY <1>2, <1>3, <1>4, <1>5, WorkioFrame

\* A request waits without a work.
LEMMA RequestStep ==
    ASSUME BaseInv, PastInv, [Next]_vars, NEW i \in 1..Len(queue'), queue'[i].get
    PROVE queue'[i].work = NoWork
  <1>1. queue \in Seq(Command)
    BY DEF BaseInv, TypeOK, Command
  <1>2. CASE queue' = queue
    BY <1>2 DEF PastInv
  <1>3. CASE WorkioPop
    <2>1. i + 1 \in 1..Len(queue) /\ queue'[i] = queue[i + 1]
      BY <1>1, <1>3, HeadTailProperties DEF WorkioPop
    <2>2. QED
      BY <2>1 DEF PastInv
  <1>4. ASSUME NEW m \in Miner, NEW c \in {Get(m), Submit(m)}, queue' = Append(queue, c)
        PROVE queue'[i].work = NoWork
    <2>1. queue'[i] = c \/ (i \in 1..Len(queue) /\ queue'[i] = queue[i])
      BY <1>1, <1>4
    <2>2. QED
      BY <1>4, <2>1 DEF Get, Submit, PastInv
  <1>5. QED
    BY <1>2, <1>3, <1>4, WorkFrame DEF MinerRequest, MinerSubmit

\* PastInv.
LEMMA PastInit == Init => PastInv
  <1> SUFFICES ASSUME Init PROVE PastInv
    OBVIOUS
  <1>1. \A w \in KnownWorks : w = NoWork
    BY KnownMembers DEF Init, Membership
  <1>2. QED
    BY <1>1 DEF Init, PastInv, NoWork

LEMMA PastStep == ASSUME BaseInv, PastInv, [Next]_vars PROVE PastInv'
  <1>1. /\ chain \in Nat /\ chain' \in Nat /\ chain' >= chain /\ net_blocks \in Nat /\ lp_block \in Nat
        /\ cmd.work.prev \in Nat
    <2>1. /\ chain \in Nat /\ chain' \in Nat
          /\ chain' = chain \/ chain' = chain + 1
      BY ChainGrows
    <2>2. net_blocks \in Nat /\ lp_block \in Nat /\ cmd.work \in Work
      BY UpstreamWorkAssumption DEF BaseInv, TypeOK, Block
    <2>3. cmd.work.prev \in Nat
      BY <2>2, UpstreamWorkAssumption DEF Work, Block
    <2>4. QED
      BY <2>1, <2>2, <2>3
  <1>2. solved' \subseteq 1..(chain' - 1)
    <2>1. /\ chain \in Nat /\ chain' \in Nat /\ chain \in 1..MaxChain
          /\ chain' = chain \/ chain' = chain + 1
      BY ChainGrows
    <2>2. solved' = solved \/ (chain' = chain + 1 /\ solved' = solved \cup {chain})
      BY ChainGrows
    <2>3. solved \subseteq 1..(chain - 1)
      BY DEF PastInv
    <2>4. \A b \in solved' : b \in 1..(chain' - 1)
      <3>1. SUFFICES ASSUME NEW b \in solved' PROVE b \in 1..(chain' - 1)
        OBVIOUS
      <3>2. CASE b \in solved
        <4>1. b \in 1..(chain - 1)
          BY <2>3, <3>2
        <4>2. QED
          BY <2>1, <4>1, Growing
      <3>3. CASE b = chain /\ chain' = chain + 1
        BY <2>1, <3>3
      <3>4. QED
        BY <2>2, <3>1, <3>2, <3>3
    <2>5. QED
      BY <2>4
  <1>3. net_blocks' <= chain'
    <2>1. net_blocks' = net_blocks \/ net_blocks' = chain
      BY ModeFrame DEF WorkioInfo, WorkioCheck, InfoAnswered, InfoUnknown, InfoLost, InfoNotAsked
    <2>2. QED
      BY <1>1, <2>1 DEF PastInv
  <1>4. lp_block' <= chain'
    <2>1. lp_block' = lp_block \/ lp_block' = chain
      BY LpFrame DEF LpAnswer
    <2>2. QED
      BY <1>1, <2>1 DEF PastInv
  <1>5. ASSUME NEW w \in KnownWorks' PROVE w.prev <= chain'
    <2>1. CASE w \in KnownWorks
      <3>1. w.prev <= chain /\ w.prev \in Nat
        BY <2>1, KnownTypes DEF PastInv, BaseInv
      <3>2. QED
        BY <1>1, <3>1
    <2>2. CASE w = Decoded(lp_block, g_work.height)
      <3>1. w.prev = lp_block /\ lp_block <= chain
        BY <2>2 DEF Decoded, PastInv
      <3>2. QED
        BY <1>1, <3>1
    <2>3. CASE WorkioInfo /\ (w = [cmd.work EXCEPT !.height = Height(@)] \/ w = cmd.work)
      <3>1. w.prev = cmd.work.prev /\ cmd.work.prev <= chain
        BY <2>3 DEF WorkioInfo, PastInv, BaseInv, TypeOK, Work
      <3>2. QED
        BY <1>1, <3>1
    <2>4. QED
      BY <2>1, <2>2, <2>3, NewWorks
  <1>6. ASSUME wpc' = "info" PROVE cmd'.work.prev <= chain'
    <2>1. cmd'.work = Decoded(chain, cmd.work.height) \/ (wpc = "info" /\ UNCHANGED cmd)
      BY <1>6, Got
    <2>2. CASE cmd'.work = Decoded(chain, cmd.work.height)
      BY <1>1, <2>2 DEF Decoded
    <2>3. CASE wpc = "info" /\ UNCHANGED cmd
      BY <1>1, <2>3 DEF PastInv
    <2>4. QED
      BY <2>1, <2>2, <2>3
  <1>7. QED
    BY <1>2, <1>3, <1>4, <1>5, <1>6, RequestStep DEF PastInv

-----------------------------------------------------------------------------
(* No block is submitted twice. *)

\* A polled work has the height of its template.
LEMMA PolledWork ==
    ASSUME BaseInv, LpStore, server.lp => server.gbt = "mined"
    PROVE Decoded(lp_block, g_work.height) = [prev |-> lp_block, height |-> lp_block + 1]
  <1>1. have_longpoll
    BY DEF BaseInv, LongpollInv, LpStore
  <1>2. have_gbt
    BY <1>1 DEF BaseInv, LongpollInv
  <1>3. QED
    BY <1>2 DEF Decoded

\* A completed work keeps its block, and gets a height when it has none.
LEMMA CompletedWork ==
    ASSUME BaseInv
    PROVE /\ [cmd.work EXCEPT !.height = Height(@)].prev = cmd.work.prev
          /\ [cmd.work EXCEPT !.height = Height(@)].height = Height(cmd.work.height)
          /\ cmd.work.prev \in Nat /\ cmd.work.height \in Nat /\ chain \in Nat
          /\ lp_block \in Nat
  <1>1. cmd.work \in Work /\ chain \in Nat /\ lp_block \in Nat
    BY Bounds, UpstreamWorkAssumption DEF BaseInv, TypeOK, Block
  <1>2. QED
    BY <1>1, UpstreamWorkAssumption DEF Work, Block

\* What getmininginfo tells an informed program.
LEMMA InformedCheck ==
    ASSUME server.info = "always", WorkioCheck
    PROVE net_blocks' = chain
  BY DEF WorkioCheck, InfoAnswered, InfoUnknown, InfoLost

\* A share sent is for a block we did not solve: it was compared with the newest.
LEMMA SendChecked ==
    ASSUME BaseInv, PastInv, TwiceInv, server.info = "always", [Next]_vars, wpc' = "send"
    PROVE UNCHANGED <<cmd, solved>> /\ cmd.work.prev \notin solved
  <1>1. WorkioCheck \/ (wpc = "send" /\ UNCHANGED cmd)
    BY WorkioFrame DEF TwiceInv, WorkioStep, WorkioPop, WorkioWork, WorkioFallback, WorkioNoWork, WorkioRetry,
       RetryOrEnd, WorkioInfo, WorkioCompare, WorkioSent, WorkioSendFailed, workioVars
  <1>2. CASE WorkioCheck
    <2>1. cmd.work \in KnownWorks
      BY <1>2, KnownMembers DEF Membership, BaseInv, CommandInv, WorkioCheck
    <2>2. Recognised(cmd.work)
      BY <2>1 DEF TwiceInv
    <2>3. /\ cmd.work.prev \in Nat /\ cmd.work.height \in Nat /\ chain \in Nat
          /\ solved \subseteq 1..(chain - 1)
      BY CompletedWork DEF PastInv
    <2>4. cmd.work.height = 0 \/ cmd.work.height > chain
      BY <1>2, <2>3, InformedCheck DEF WorkioCheck, AlreadySolved
    <2>5. cmd.work.prev \notin solved
      BY <2>2, <2>3, <2>4 DEF Recognised
    <2>6. QED
      BY <1>2, <2>5 DEF WorkioCheck, serverVars
  <1>3. CASE wpc = "send" /\ UNCHANGED cmd
    <2>1. cmd.work.prev \notin solved
      BY <1>3 DEF TwiceInv
    <2>2. ~WorkioSent /\ ~WorkioSendFailed /\ ~NewBlock => UNCHANGED solved
      BY ServerFrame DEF serverVars
    <2>3. ~WorkioSent /\ ~WorkioSendFailed
      BY DEF WorkioSent, WorkioSendFailed, RetryOrEnd
    <2>4. QED
      BY <1>3, <2>1, <2>2, <2>3 DEF NewBlock
  <1>4. QED
    BY <1>1, <1>2, <1>3

\* Known works are recognised after a step.
LEMMA RecognisedStep ==
    ASSUME BaseInv, PastInv, TwiceInv, server.info = "always", server.lp => server.gbt = "mined",
           [Next]_vars, NEW w \in KnownWorks'
    PROVE Recognised(w)'
  <1>1. /\ chain \in Nat /\ (chain' = chain \/ chain' = chain + 1)
        /\ solved \subseteq 1..(chain - 1)
    BY ChainGrows DEF PastInv
  <1>2. \A b \in solved' \cup {chain'} : b \in solved \cup {chain} \/ b = chain + 1
    BY <1>1, ChainGrows
  <1>3. CASE w \in KnownWorks
    <2>1. Recognised(w) /\ w.prev <= chain /\ w.prev \in Nat
      BY <1>3, KnownTypes DEF TwiceInv, PastInv, BaseInv
    <2>2. QED
      BY <1>1, <1>2, <2>1 DEF Recognised
  <1>4. CASE LpStore /\ w = Decoded(lp_block, g_work.height)
    <2>1. w.prev = lp_block /\ w.height = lp_block + 1 /\ lp_block \in Nat
      BY <1>4, PolledWork, CompletedWork
    <2>2. QED
      BY <2>1 DEF Recognised
  <1>5. CASE WorkioInfo /\ w = [cmd.work EXCEPT !.height = Height(@)]
    <2>1. /\ w.prev = cmd.work.prev /\ w.height = Height(cmd.work.height)
          /\ cmd.work.prev \in Nat /\ cmd.work.height \in Nat /\ chain \in Nat
      BY <1>5, CompletedWork
    <2>2. /\ cmd.work.prev \notin solved /\ cmd.work.height <= cmd.work.prev + 1
          /\ UNCHANGED <<chain, solved>>
      BY <1>5 DEF WorkioInfo, TwiceInv, serverVars
    <2>3. QED
      BY <2>1, <2>2 DEF Recognised, Height
  <1>6. ~Uninformed
    BY DEF Uninformed, TwiceInv
  <1>7. QED
    BY <1>3, <1>4, <1>5, <1>6, NewWorks

\* TwiceInv.
LEMMA TwiceInit == Init => TwiceInv
  <1> SUFFICES ASSUME Init PROVE TwiceInv
    OBVIOUS
  <1>1. \A w \in KnownWorks : w = NoWork
    BY KnownMembers DEF Init, Membership
  <1>2. Recognised(NoWork)
    BY DEF Init, Recognised, NoWork
  <1>3. QED
    BY <1>1, <1>2 DEF Init, TwiceInv

LEMMA TwiceStep ==
    ASSUME BaseInv, PastInv, TwiceInv, server.info = "always", server.lp => server.gbt = "mined",
           [Next]_vars
    PROVE TwiceInv'
  <1>1. /\ chain \in Nat /\ chain' \in Nat /\ (chain' = chain \/ chain' = chain + 1)
        /\ solved \subseteq 1..(chain - 1)
    BY ChainGrows DEF PastInv
  <1>2. ~twice'
    BY TwiceSet DEF TwiceInv
  <1>3. allow_mininginfo'
    BY ModeFrame DEF TwiceInv, WorkioInfo, WorkioCheck, InfoAnswered, InfoUnknown, InfoLost, InfoNotAsked
  <1>4. \A w \in KnownWorks' : Recognised(w)'
    BY RecognisedStep
  <1>5. ASSUME wpc' \in {"get", "pause"}, cmd'.get PROVE cmd'.work.height <= chain' + 1
    <2>1. CASE cmd'.work = NoWork
      <3>1. cmd'.work.height = 0
        BY <2>1 DEF NoWork
      <3>2. QED
        BY <1>1, <3>1, Growing
    <2>2. CASE wpc \in {"get", "pause"} /\ cmd.get /\ UNCHANGED cmd
      <3>1. cmd.work.height <= chain + 1 /\ cmd.work.height \in Nat
        BY <2>2, CompletedWork DEF TwiceInv
      <3>2. QED
        BY <1>1, <2>2, <3>1
    <2>3. CASE cmd'.work.height = chain + 1
      BY <1>1, <2>3, Growing
    <2>4. QED
      BY <1>5, <2>1, <2>2, <2>3, Asked
  <1>6. ASSUME wpc' = "info"
        PROVE cmd'.work.prev \notin solved' /\ cmd'.work.height <= cmd'.work.prev + 1
    <2>1. UNCHANGED solved
      BY <1>6, WorkioFrame, ServerFrame
      DEF WorkioSent, WorkioSendFailed, RetryOrEnd, NewBlock, serverVars
    <2>2. CASE WorkioWork /\ cmd'.work = Decoded(chain, cmd.work.height)
      <3>1. cmd.work.height <= chain + 1
        BY <2>2 DEF WorkioWork, TwiceInv, BaseInv, CommandInv
      <3>2. cmd'.work.prev = chain /\ cmd'.work.height \in {chain + 1, cmd.work.height}
        BY <2>2 DEF Decoded
      <3>3. chain \notin solved
        BY <1>1
      <3>4. cmd'.work.height <= chain + 1
        BY <1>1, <3>1, <3>2
      <3>5. QED
        BY <2>1, <3>2, <3>3, <3>4
    <2>3. CASE wpc = "info" /\ UNCHANGED cmd
      BY <2>1, <2>3 DEF TwiceInv
    <2>4. QED
      BY <1>6, <2>2, <2>3, Got
  <1>7. wpc' = "send" => cmd'.work.prev \notin solved'
    BY SendChecked
  <1>8. QED
    BY <1>2, <1>3, <1>4, <1>5, <1>6, <1>7 DEF TwiceInv

\* PastInv holds at every server, TwiceInv at informed ones.
LEMMA PastHolds == Safety => []PastInv
  BY PastInit, PastStep, BaseHolds, PTL DEF Safety

LEMMA TwiceHolds == ASSUME Informed PROVE Safety => []TwiceInv
  <1>1. BaseInv => server.info = "always" /\ (server.lp => server.gbt = "mined")
    BY DEF BaseInv, TypeOK, Informed
  <1>2. BaseInv /\ PastInv /\ TwiceInv /\ [Next]_vars => TwiceInv'
    BY <1>1, TwiceStep
  <1>3. QED
    BY <1>2, TwiceInit, BaseHolds, PastHolds, PTL DEF Safety

\* At servers that answer getmininginfo, and that long poll with block templates only, no
\* share is sent for a block a share of ours has solved (cpu-miner.c:1592-1601 discards it).
THEOREM SubmittedOnce == ASSUME Informed PROVE Safety => []NoBlockSubmittedTwice
  <1>1. TwiceInv => NoBlockSubmittedTwice
    BY DEF TwiceInv, NoBlockSubmittedTwice
  <1>2. QED
    BY <1>1, TwiceHolds, PTL

-----------------------------------------------------------------------------
(* What is discarded as solved is solved. *)

\* HeightInv.
LEMMA HeightInit == Init => HeightInv
  <1> SUFFICES ASSUME Init PROVE HeightInv
    OBVIOUS
  <1>1. \A w \in KnownWorks : w = NoWork
    BY KnownMembers DEF Init, Membership
  <1>2. Fits(NoWork)
    BY DEF Fits, NoWork
  <1>3. QED
    BY <1>1, <1>2 DEF Init, HeightInv

LEMMA HeightStep ==
    ASSUME BaseInv, PastInv, HeightInv, server.gbt # "refused", server.lp => server.gbt = "mined",
           [Next]_vars
    PROVE HeightInv'
  <1>1. ASSUME wpc' \in {"get", "pause"}, cmd'.get PROVE cmd'.work.height = 0
    <2>1. cmd'.work = NoWork \/ (wpc \in {"get", "pause"} /\ cmd.get /\ UNCHANGED cmd)
      BY <1>1, Asked
    <2>2. QED
      BY <2>1 DEF NoWork, HeightInv
  <1>2. ASSUME wpc' = "info" PROVE Fits(cmd'.work)
    <2>1. CASE WorkioWork /\ cmd'.work = Decoded(chain, cmd.work.height)
      <3>1. cmd.work.height = 0 /\ chain \in Nat
        BY <2>1, CompletedWork DEF WorkioWork, HeightInv, BaseInv, CommandInv
      <3>2. cmd'.work.prev = chain /\ (cmd'.work.height = 0 \/ cmd'.work.height = chain + 1)
        BY <2>1, <3>1 DEF Decoded
      <3>3. \A p, h \in Nat : h = p + 1 => h > p
        OBVIOUS
      <3>4. QED
        BY <3>1, <3>2, <3>3 DEF Fits
    <2>2. CASE wpc = "info" /\ UNCHANGED cmd
      BY <2>2 DEF HeightInv
    <2>3. QED
      BY <1>2, <2>1, <2>2, Got
  <1>3. ASSUME NEW w \in KnownWorks' PROVE Fits(w)
    <2>1. CASE w \in KnownWorks
      BY <2>1 DEF HeightInv
    <2>2. CASE LpStore /\ w = Decoded(lp_block, g_work.height)
      <3>1. w.prev = lp_block /\ w.height = lp_block + 1 /\ lp_block \in Nat
        BY <2>2, PolledWork, CompletedWork
      <3>2. QED
        BY <3>1 DEF Fits
    <2>3. CASE WorkioInfo /\ w = [cmd.work EXCEPT !.height = Height(@)]
      <3>1. /\ w.prev = cmd.work.prev /\ w.height = Height(cmd.work.height)
            /\ cmd.work.prev \in Nat /\ cmd.work.height \in Nat /\ chain \in Nat
        BY <2>3, CompletedWork
      <3>2. Fits(cmd.work) /\ cmd.work.prev <= chain
        BY <2>3 DEF WorkioInfo, HeightInv, PastInv
      <3>3. QED
        BY <3>1, <3>2 DEF Fits, Height
    <2>4. CASE WorkioInfo /\ w = cmd.work
      BY <2>4 DEF WorkioInfo, HeightInv
    <2>5. QED
      BY <2>1, <2>2, <2>3, <2>4, NewWorks
  <1>4. QED
    BY <1>1, <1>2, <1>3 DEF HeightInv, Fits

LEMMA HeightHolds == ASSUME Consistent PROVE Safety => []HeightInv
  <1>1. BaseInv => server.gbt # "refused" /\ (server.lp => server.gbt = "mined")
    BY DEF BaseInv, TypeOK, Consistent
  <1>2. BaseInv /\ PastInv /\ HeightInv /\ [Next]_vars => HeightInv'
    BY <1>1, HeightStep
  <1>3. QED
    BY <1>2, HeightInit, BaseHolds, PastHolds, PTL DEF Safety

\* At servers whose works have their own height, a share is discarded as solved only when
\* the server is past its block ("block %u was already solved", cpu-miner.c:1598).
THEOREM DiscardedOnlySolved == ASSUME Consistent PROVE Safety => SolvedIsSolved
  <1> DEFINE Solved == wpc = "check" /\ wpc' = "idle" => cmd.work.prev # chain
  <1>1. ASSUME BaseInv, PastInv, HeightInv, [Next]_vars, wpc = "check", wpc' = "idle"
        PROVE cmd.work.prev # chain
    <2>1. WorkioCheck
      BY <1>1, WorkioFrame DEF WorkioStep, WorkioPop, WorkioWork, WorkioFallback, WorkioNoWork, WorkioRetry,
         WorkioInfo, WorkioCompare, WorkioSent, WorkioSendFailed, workioVars
    <2>2. Fits(cmd.work)
      BY <1>1, KnownMembers DEF Membership, BaseInv, CommandInv, HeightInv
    <2>3. AlreadySolved(cmd.work)
      BY <1>1, <2>1 DEF WorkioCheck
    <2>4. /\ cmd.work.prev \in Nat /\ cmd.work.height \in Nat /\ chain \in Nat
          /\ net_blocks \in Nat
      BY <1>1, CompletedWork, UpstreamWorkAssumption DEF BaseInv, TypeOK, Block
    <2>5. net_blocks' = net_blocks \/ net_blocks' = chain
      BY <2>1 DEF WorkioCheck, InfoAnswered, InfoUnknown, InfoLost
    <2>6. cmd.work.height # 0 /\ (cmd.work.height <= net_blocks \/ cmd.work.height <= chain)
      BY <2>3, <2>5 DEF AlreadySolved
    <2>7. net_blocks <= chain
      BY <1>1 DEF PastInv
    <2>8. QED
      BY <2>2, <2>4, <2>6, <2>7 DEF Fits
  <1>2. BaseInv /\ PastInv /\ HeightInv /\ [Next]_vars => [Solved]_vars
    BY <1>1 DEF vars
  <1>3. QED
    BY <1>2, BaseHolds, PastHolds, HeightHolds, PTL DEF Safety, SolvedIsSolved

=============================================================================
