--------------------------- MODULE StratumSession ---------------------------
(***************************************************************************)
(* A stratum session and its answers: the stratum thread logs in and then  *)
(* reads lines, the workio thread sends shares on the same connection from *)
(* the moment it is up, the API may ask for another pool, and every answer *)
(* to a share is counted by share_result and collected by a report.        *)
(* StratumWork has the jobs; here a line is an answer or a method.         *)
(*                                                                         *)
(* The code matches answers to requests by their ORDER while it logs in,   *)
(* and by their id (4 and more is a share) afterwards. The pool is not part*)
(* of the program: it answers requests in the order it got them, and may   *)
(* send methods in between.                                                *)
(***************************************************************************)
EXTENDS Integers, Sequences

CONSTANTS
    Pool,       \* the URLs the API may ask for; the first pool is one of them
    FirstPool,  \* rpc_url at the start
    Elsewhere,  \* the URL a pool redirects to
    Diff,       \* share difficulties
    NetDiff,    \* a share of this difficulty solves the block
    MaxShare,   \* bound: shares handed to workio
    MaxSet,     \* bound: seturl requests
    MaxLine     \* bound: lines on their way to the client

ASSUME StratumSessionAssumption ==
    /\ FirstPool \in Pool /\ Elsewhere \notin Pool
    /\ Diff \subseteq Nat /\ NetDiff \in Nat
    /\ {MaxShare, MaxSet, MaxLine} \subseteq Nat

VARIABLES
    \* the connection
    conn,       \* stratum.curl
    spc,        \* control point of the stratum thread
    retry,      \* the local variable of stratum_subscribe
    believed,   \* stratum_authorize has returned true
    \* the wire, and what the pool decided in this session
    toPool,     \* requests
    toClient,   \* lines
    greeted,    \* a subscribe is answered
    granted,    \* the authorization is "none" (not answered), "yes" or "refused"
    unasked,    \* a line nobody waits for came before the authorization
    \* the pool address
    url, rpc_url, need_reset, apc, set,
    redirected, \* history: url was changed by client.reconnect
    \* shares
    wpc,        \* control point of the workio thread
    share,      \* difficulty of the share it sends
    sharediff,  \* stratum.sharediff, the difficulty of the last share sent
    unsent,     \* history: the share of sharediff was given up, it was never sent
    found,      \* shares so far (bounds the model)
    accepted_by_pool, \* history: shares the pool accepted
    \* share_result and the reports
    line,       \* the answer the stratum thread works on
    my_diff,    \* the local variable sharediff of share_result
    slock,      \* stats_lock is held by a reporter
    sums,       \* submit_sum, accept_sum, stale_sum, reject_sum, solved_sum
    accepted_count, solved_count,
    rpt,        \* control point of whoever holds stats_lock to report
    rep,        \* its copies of the sums
    reported    \* history: the sums of all reports

connVars  == <<conn, retry, believed>>
poolVars  == <<toPool, toClient, greeted, granted, unasked>>
urlVars   == <<url, rpc_url, need_reset, apc, set, redirected>>
shareVars == <<wpc, share, sharediff, unsent, found>>
countVars == <<sums, accepted_count, solved_count>>
repVars   == <<slock, rpt, rep, reported>>
vars == <<connVars, spc, poolVars, urlVars, shareVars, accepted_by_pool, line, my_diff,
          countVars, repVars>>

Sums == [submit : Nat, accept : Nat, stale : Nat, reject : Nat, solved : Nat]
Zero == [submit |-> 0, accept |-> 0, stale |-> 0, reject |-> 0, solved |-> 0]
Add(a, b) == [f \in DOMAIN a |-> a[f] + b[f]]

Request == [id : 1..4, diff : Diff \cup {0}]
Ask(i) == [id |-> i, diff |-> 0]

(* Methods have id 0. A verdict is "ok", "job" (a reason that names the job) or
   "no"; only a share has a difficulty. *)
Line == [id : 0..4, verdict : {"ok", "job", "no", "reconnect", "other"}, diff : Diff \cup {0}]
NoLine == [id |-> 0, verdict |-> "other", diff |-> 0]
IsMethod(l) == l.id = 0

LoginPoint == {"connect", "subscribe", "subscribe_wait", "auth", "auth_wait", "extra", "extra_wait"}

Init ==
    /\ conn = FALSE /\ spc = "top" /\ retry = FALSE /\ believed = FALSE
    /\ toPool = <<>> /\ toClient = <<>> /\ greeted = FALSE /\ granted = "none"
    /\ unasked = FALSE
    /\ url = FirstPool /\ rpc_url = FirstPool /\ need_reset = FALSE /\ apc = "idle"
    /\ set = 0 /\ redirected = FALSE
    /\ wpc = "idle" /\ share = 0 /\ sharediff = 0 /\ unsent = FALSE /\ found = 0
    /\ accepted_by_pool = 0
    /\ line = NoLine /\ my_diff = 0
    /\ slock = FALSE /\ sums = Zero /\ accepted_count = 0 /\ solved_count = 0
    /\ rpt = "idle" /\ rep = Zero /\ reported = Zero

restVars  == <<shareVars, accepted_by_pool, countVars, repVars>>

-----------------------------------------------------------------------------
(* The stratum thread: connection and login. *)

\* stratum_disconnect: what is on its way is lost.
Disconnect ==
    /\ conn' = FALSE /\ believed' = FALSE
    /\ toPool' = <<>> /\ toClient' = <<>>

\* The flag is only looked at once the connection is lost.
TopWhenLost ==
    /\ spc = "top"
    /\ need_reset' = (need_reset /\ conn)
    /\ spc' = IF conn THEN "recv" ELSE IF need_reset THEN "reset" ELSE "connect"
    /\ UNCHANGED <<connVars, poolVars, url, rpc_url, apc, set, redirected, line, my_diff, restVars>>

\* Top of the outer loop. The flag is cleared before rpc_url is looked at.
StratumTop ==
    /\ spc = "top"
    /\ need_reset' = FALSE
    /\ spc' = IF need_reset THEN "reset" ELSE IF conn THEN "recv" ELSE "connect"
    /\ UNCHANGED <<connVars, poolVars, url, rpc_url, apc, set, redirected, line, my_diff, restVars>>

StratumReset ==
    /\ spc = "reset"
    /\ Disconnect
    /\ url' = rpc_url /\ redirected' = FALSE
    /\ spc' = "connect"
    /\ UNCHANGED <<retry, greeted, granted, unasked, rpc_url, need_reset, apc, set,
                   line, my_diff, restVars>>

\* stratum_connect succeeds: shares can be sent from now on.
StratumConnect ==
    /\ spc = "connect"
    /\ conn' = TRUE /\ believed' = FALSE /\ retry' = FALSE
    /\ toPool' = <<>> /\ toClient' = <<>> /\ greeted' = FALSE /\ granted' = "none"
    /\ unasked' = FALSE
    /\ spc' = "subscribe"
    /\ UNCHANGED <<urlVars, line, my_diff, restVars>>

\* A failed connect, send or recv before the login is done: the inner loop
\* tries again, without a look at need_reset.
LoginFails ==
    /\ Disconnect
    /\ spc' = "connect"
    /\ UNCHANGED <<retry, greeted, granted, unasked, urlVars, line, my_diff, restVars>>

StratumLoginLost ==
    /\ spc \in {"connect", "subscribe", "subscribe_wait", "auth", "auth_wait"}
    /\ LoginFails

\* A request of the login is sent.
Send(from, i, to) ==
    /\ spc = from
    /\ toPool' = Append(toPool, Ask(i))
    /\ spc' = to
    /\ UNCHANGED <<connVars, toClient, greeted, granted, unasked, urlVars, line, my_diff, restVars>>

StratumAsks ==
    \/ Send("subscribe", 1, "subscribe_wait")
    \/ Send("auth", 2, "auth_wait")
    \/ Send("extra", 3, "extra_wait")

\* stratum_subscribe takes the next line for its answer. Anything but an
\* extranonce makes it ask once more.
StratumSubscribed ==
    /\ spc = "subscribe_wait" /\ toClient # <<>>
    /\ LET l == Head(toClient) IN
       \/ /\ l.id = 1 /\ l.verdict = "ok"
          /\ spc' = "auth" /\ toClient' = Tail(toClient)
          /\ UNCHANGED <<connVars, toPool, greeted, granted, unasked, urlVars, line, my_diff, restVars>>
       \/ /\ ~(l.id = 1 /\ l.verdict = "ok") /\ ~retry
          /\ retry' = TRUE
          /\ spc' = "subscribe" /\ toClient' = Tail(toClient)
          /\ UNCHANGED <<conn, believed, toPool, greeted, granted, unasked, urlVars,
                         line, my_diff, restVars>>
       \/ /\ ~(l.id = 1 /\ l.verdict = "ok") /\ retry
          /\ LoginFails

\* A method, in whatever state it comes: client.reconnect changes the address
\* and drops the connection, everything else goes on.
MethodStays(l, next) ==
    IF l.verdict = "reconnect"
    THEN /\ Disconnect
         /\ url' = Elsewhere /\ redirected' = TRUE
         /\ spc' = next
         /\ UNCHANGED <<retry>>
    ELSE /\ toClient' = Tail(toClient)
         /\ spc' = next
         /\ UNCHANGED <<connVars, toPool, url, redirected>>

Method(l, next) ==
    IF l.verdict = "reconnect"
    THEN /\ Disconnect
         /\ url' = Elsewhere /\ redirected' = TRUE
         /\ spc' = IF next = "top" THEN "top" ELSE "connect"
         /\ UNCHANGED <<retry>>
    ELSE /\ toClient' = Tail(toClient)
         /\ spc' = next
         /\ UNCHANGED <<connVars, toPool, url, redirected>>

StratumMethod ==
    /\ spc \in {"auth_wait", "extra_wait", "recv"} /\ toClient # <<>>
    /\ IsMethod(Head(toClient))
    /\ Method(Head(toClient), IF spc = "auth_wait" THEN spc ELSE IF spc = "recv" THEN "top" ELSE "recv")
    /\ UNCHANGED <<greeted, granted, unasked, rpc_url, need_reset, apc, set, line, my_diff, restVars>>

(* An authorization must be a result that is not false. *)
HasResult(l) == TRUE
NotRefused(l) == l.verdict = "ok"

\* stratum_authorize takes the next line that is no method for its answer.
StratumAuthorized ==
    /\ spc = "auth_wait" /\ toClient # <<>> /\ ~IsMethod(Head(toClient))
    /\ \/ /\ NotRefused(Head(toClient))
          /\ believed' = TRUE
          /\ toClient' = Tail(toClient)
          /\ spc' = "extra"
          /\ UNCHANGED <<conn, retry, toPool, greeted, granted, unasked, urlVars,
                         line, my_diff, restVars>>
       \/ /\ ~NotRefused(Head(toClient))
          /\ LoginFails

\* The line after extranonce.subscribe is thrown away, whatever it answers; or
\* none came within three seconds, or the request could not be sent.
StratumExtra ==
    /\ \/ spc = "extra" /\ UNCHANGED toClient
       \/ spc = "extra_wait" /\ toClient = <<>> /\ UNCHANGED toClient
       \/ /\ spc = "extra_wait" /\ toClient # <<>> /\ ~IsMethod(Head(toClient))
          /\ toClient' = Tail(toClient)
    /\ spc' = "recv"
    /\ UNCHANGED <<connVars, toPool, greeted, granted, unasked, urlVars, line, my_diff, restVars>>

-----------------------------------------------------------------------------
(* The stratum thread: the main loop. *)

\* No line within opt_timeout, or the connection is closed: answers on their
\* way are lost.
StratumLost ==
    /\ spc = "recv"
    /\ Disconnect
    /\ spc' = "top"
    /\ UNCHANGED <<retry, greeted, granted, unasked, urlVars, line, my_diff, restVars>>

(* Ids 1, 2 and 3 are those of the login. *)
IsLateAnswer(l) == l.id >= 3
IsShareAnswer(l) == l.id >= 4

\* std_stratum_handle_response: an answer to a share goes to share_result.
StratumAnswer ==
    /\ spc = "recv" /\ toClient # <<>> /\ ~IsMethod(Head(toClient))
    /\ toClient' = Tail(toClient)
    /\ IF IsShareAnswer(Head(toClient))
       THEN line' = Head(toClient) /\ spc' = "judge"
       ELSE spc' = "top" /\ UNCHANGED line
    /\ UNCHANGED <<connVars, toPool, greeted, granted, unasked, urlVars, my_diff, restVars>>

\* share_result: the difficulty is read from the slot of the last share sent.
StratumJudge ==
    /\ spc = "judge"
    /\ my_diff' = sharediff
    /\ spc' = "count"
    /\ UNCHANGED <<connVars, poolVars, urlVars, line, restVars>>

Solved(l, d) == l.verdict = "ok" /\ d >= NetDiff

\* The counters, under stats_lock.
StratumCount ==
    /\ spc = "count" /\ ~slock
    /\ LET one(b) == IF b THEN 1 ELSE 0
           now == [submit |-> 1, accept |-> one(line.verdict = "ok"), stale |-> one(line.verdict = "job"),
                   reject |-> one(line.verdict = "no"), solved |-> one(Solved(line, my_diff))]
       IN /\ sums' = Add(sums, now)
          /\ accepted_count' = accepted_count + now.accept
          /\ solved_count' = solved_count + now.solved
    /\ line' = NoLine /\ my_diff' = 0
    /\ spc' = "top"
    /\ UNCHANGED <<connVars, poolVars, urlVars, shareVars, accepted_by_pool, repVars>>

StratumStep ==
    \/ StratumTop \/ StratumReset \/ StratumConnect \/ StratumLoginLost \/ StratumAsks
    \/ StratumSubscribed \/ StratumMethod \/ StratumAuthorized \/ StratumExtra
    \/ StratumLost \/ StratumAnswer \/ StratumJudge \/ StratumCount

-----------------------------------------------------------------------------
(* The workio thread: one share at a time, again until it is sent, has become
   stale or opt_retries is used up. *)

\* submit_upstream_work is called for the next share, or again for the one that
\* could not be sent.
Submits(d) ==
    \/ wpc = "idle" /\ found < MaxShare /\ found' = found + 1
    \/ wpc = "again" /\ share = d /\ UNCHANGED found

restOfSubmit == <<connVars, spc, poolVars, urlVars, accepted_by_pool, line, my_diff, countVars, repVars>>

\* It is of another block than g_work by now: it is discarded. The slot keeps the
\* difficulty a failed attempt has written.
WorkioStale ==
    /\ \E d \in Diff : Submits(d)
    /\ wpc' = "idle" /\ share' = 0
    /\ unsent' = (unsent \/ wpc = "again")
    /\ UNCHANGED <<restOfSubmit, sharediff>>

\* The slot keeps the better share.
SlotKeepsBest ==
    /\ \E d \in Diff : /\ Submits(d)
                       /\ share' = d
                       /\ sharediff' = IF d > sharediff THEN d ELSE sharediff
    /\ wpc' = "send" /\ unsent' = FALSE
    /\ UNCHANGED restOfSubmit

WorkioSlot ==
    /\ \E d \in Diff : Submits(d) /\ share' = d /\ sharediff' = d
    /\ wpc' = "send" /\ unsent' = FALSE
    /\ UNCHANGED restOfSubmit

restOfSend == <<connVars, spc, toClient, greeted, granted, unasked, urlVars, sharediff, found,
                accepted_by_pool, line, my_diff, countVars, repVars>>

WorkioSend ==
    /\ wpc = "send" /\ conn
    /\ toPool' = Append(toPool, [id |-> 4, diff |-> share])
    /\ wpc' = "idle" /\ share' = 0
    /\ UNCHANGED <<restOfSend, unsent>>

\* The send fails: once more, or the thread ends, and with it soon the process;
\* until then the other threads run on.
WorkioSendFailed ==
    /\ wpc = "send"
    /\ \/ wpc' = "again" /\ UNCHANGED <<share, unsent>>
       \/ wpc' = "ended" /\ share' = 0 /\ unsent' = TRUE
    /\ UNCHANGED <<restOfSend, toPool>>

-----------------------------------------------------------------------------
(* The API thread: parse_arg('o') changes rpc_url, then the flag is set. *)

ApiFlagFirst ==
    /\ \/ /\ apc = "idle" /\ set < MaxSet
          /\ need_reset' = TRUE
          /\ apc' = "flag" /\ set' = set + 1
          /\ UNCHANGED rpc_url
       \/ /\ apc = "flag"
          /\ rpc_url' \in Pool
          /\ apc' = "idle"
          /\ UNCHANGED <<need_reset, set>>
    /\ UNCHANGED <<connVars, spc, poolVars, url, redirected, line, my_diff, restVars>>

ApiSetUrl ==
    /\ \/ /\ apc = "idle" /\ set < MaxSet
          /\ rpc_url' \in Pool
          /\ apc' = "flag" /\ set' = set + 1
          /\ UNCHANGED need_reset
       \/ /\ apc = "flag"
          /\ need_reset' = TRUE
          /\ apc' = "idle"
          /\ UNCHANGED <<rpc_url, set>>
    /\ UNCHANGED <<connVars, spc, poolVars, url, redirected, line, my_diff, restVars>>

-----------------------------------------------------------------------------
(* report_summary_log, called by the reporter thread and by miner 0. The test
   that comes first looks at submit_sum without the lock, or at the time: it lets
   either of them pass at any moment, with sums that are zero too. *)

\* A report that does not take stats_lock.
ReporterUnlocked ==
    /\ rpt = "idle"
    /\ rep' = sums
    /\ rpt' = "reset"
    /\ UNCHANGED <<connVars, spc, poolVars, urlVars, shareVars, accepted_by_pool, line, my_diff,
                   countVars, slock, reported>>

\* Collect the sums ...
ReporterCollect ==
    /\ rpt = "idle"
    /\ slock' = TRUE
    /\ rep' = sums
    /\ rpt' = "reset"
    /\ UNCHANGED <<connVars, spc, poolVars, urlVars, shareVars, accepted_by_pool, line, my_diff,
                   countVars, reported>>

\* ... and reset them.
ReporterReset ==
    /\ rpt = "reset"
    /\ sums' = Zero
    /\ reported' = Add(reported, rep)
    /\ slock' = FALSE /\ rep' = Zero
    /\ rpt' = "idle"
    /\ UNCHANGED <<connVars, spc, poolVars, urlVars, shareVars, accepted_by_pool, line, my_diff,
                   accepted_count, solved_count>>

-----------------------------------------------------------------------------
(* The pool. *)

\* It answers the next request: a share only counts once it has authorized.
PoolAnswers ==
    /\ toPool # <<>> /\ Len(toClient) < MaxLine
    /\ LET r == Head(toPool) IN
       \E v \in {"ok", "job", "no"} :
          /\ v = "job" => r.id = 4
          /\ r.id = 4 /\ granted # "yes" => v = "no"
          /\ toClient' = Append(toClient, [id |-> r.id, verdict |-> v, diff |-> r.diff])
          /\ greeted' = (greeted \/ r.id = 1)
          /\ granted' = IF r.id = 2 THEN (IF v = "ok" THEN "yes" ELSE "refused") ELSE granted
          /\ unasked' = (unasked \/ (r.id = 4 /\ granted = "none"))
          /\ accepted_by_pool' = IF r.id = 4 /\ v = "ok" THEN accepted_by_pool + 1
                                                         ELSE accepted_by_pool
    /\ toPool' = Tail(toPool)
    /\ UNCHANGED <<connVars, spc, urlVars, shareVars, line, my_diff, countVars, repVars>>

PoolSays ==
    /\ conn /\ Len(toClient) < MaxLine
    /\ \E v \in {"other", "reconnect"} :
          toClient' = Append(toClient, [id |-> 0, verdict |-> v, diff |-> 0])
    /\ unasked' = (unasked \/ ~greeted)
    /\ UNCHANGED <<connVars, spc, toPool, greeted, granted, urlVars, shareVars, accepted_by_pool,
                   line, my_diff, countVars, repVars>>

Next ==
    \/ StratumStep
    \/ WorkioStale \/ WorkioSlot \/ WorkioSend \/ WorkioSendFailed
    \/ ApiSetUrl
    \/ ReporterCollect \/ ReporterReset
    \/ PoolAnswers \/ PoolSays

Safety == Init /\ [][Next]_vars

(* The stratum thread and the reporters run, and stats_lock is given to
   whoever waits for it; every wait for a line has a timeout. The pool, the API
   and the shares are not assumed. *)
Fairness ==
    /\ WF_vars(StratumStep) /\ SF_vars(StratumCount)
    /\ WF_vars(ReporterReset)

Spec == Safety /\ Fairness

-----------------------------------------------------------------------------
(* Properties. *)

\* Every variable has the type the code declares for it.
TypeOK ==
    /\ conn \in BOOLEAN /\ retry \in BOOLEAN /\ believed \in BOOLEAN
    /\ spc \in {"top", "reset", "recv", "judge", "count"} \cup LoginPoint
    /\ toPool \in Seq(Request) /\ toClient \in Seq(Line)
    /\ url \in Pool \cup {Elsewhere} /\ rpc_url \in Pool
    /\ wpc \in {"idle", "send", "again", "ended"} /\ unsent \in BOOLEAN
    /\ {share, sharediff, my_diff} \subseteq Diff \cup {0}
    /\ line \in Line
    /\ \A s \in {sums, rep, reported} : s \in Sums
    /\ (spc \in LoginPoint \ {"connect"} => conn)

(* The pool's refusal of an authorization goes unnoticed (stratum_authorize
   returns true, and every share will be rejected) only after a line out of
   turn: a share that workio sent during the login, or a method before the
   answer to subscribe, either of which shifts all answers by one. *)
RefusalMissedOnlyByShift ==
    believed /\ granted # "yes" => unasked

(* The program counts no more accepted shares than the pool has accepted: late
   answers of the login are not taken for those of shares
   (std_stratum_handle_response). *)
AcceptedByPool == accepted_count <= accepted_by_pool

(* Every answer share_result has counted is in exactly one report, or still in
   the sums, and has exactly one verdict (share_result, report_summary_log). *)
ReportsAddUp ==
    LET all == Add(reported, sums) IN
    rpt = "idle" =>
        /\ all.accept = accepted_count
        /\ all.solved = solved_count
        /\ all.submit = all.accept + all.stale + all.reject

(* Whether a share solved the block is decided with the difficulty of another
   share only if that one came later: it or one after it is in the hands of
   workio or on its way, or it was given up. A share that could not be sent has
   left its difficulty in the slot, and may be discarded as stale before it is
   sent again (submit_upstream_work, share_result). *)
SlotIsOfLaterShare ==
    [][spc = "judge" /\ spc' = "count" /\ my_diff' # line.diff =>
          \/ wpc \in {"send", "again"} \/ unsent
          \/ \E i \in DOMAIN toPool : toPool[i].id = 4
          \/ \E i \in DOMAIN toClient : toClient[i].id = 4]_vars

(* No seturl is forgotten: when the flag is down and the stratum thread is past
   it, the connection is for the last URL given, or for the one the pool
   redirected it to (remote_seturl sets the flag after the URL, stratum_thread
   clears it before it looks). *)
UrlIsCurrent ==
    ~need_reset /\ apc = "idle" /\ spc # "reset" => url = rpc_url \/ redirected

(* A seturl takes effect, unless the thread stays for ever in the login loop of
   a pool it cannot reach, which does not look at the flag. *)
SeturlTakesEffect == []<>(~need_reset) \/ <>[](spc \in LoginPoint)
=============================================================================
