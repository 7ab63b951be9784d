------------------------- MODULE StratumSessionProofs -------------------------
(***************************************************************************)
(* Proofs about StratumSession, for all sets of pools and difficulties and *)
(* all bounds, so for lines and shares in any number.                      *)
(*                                                                         *)
(* Whether an answer is taken for that of another request depends on what  *)
(* is on the wire in each phase of the login. IInv says so, with three     *)
(* predicates on a queue: that it has a request or answer of an id, that it*)
(* has it once, and what the last share in it is.                          *)
(***************************************************************************)
EXTENDS StratumSession, SequenceTheorems, FiniteSetTheorems, TLAPS

(* A message of this id is in the queue. *)
Has(q, i) == \E k \in 1..Len(q) : q[k].id = i

(* At most one is. *)
Once(q, i) == \A j, k \in 1..Len(q) : q[j].id = i /\ q[k].id = i => j = k

(* The last share in the queue, if any is, has this difficulty. *)
LastIs(q, d) == \A k \in 1..Len(q) :
    q[k].id = 4 /\ (\A j \in 1..Len(q) : j > k => q[j].id # 4) => q[k].diff = d

(* The line that grants the authorization is in the queue, or one sent after it. *)
Grants(l) == l.verdict = "ok" /\ l.id \in {2, 4}
HasGrant(q) == \E k \in 1..Len(q) : Grants(q[k])

(* The lines for share_result have a verdict on a share. *)
HasVerdict(l) == l.verdict \in {"ok", "job", "no"}
Judged(q) == \A k \in 1..Len(q) : q[k].id = 4 => HasVerdict(q[k])

(* The accepted shares in the queue. *)
OkShare(l) == l.id = 4 /\ l.verdict = "ok"
OkAt(q) == {k \in 1..Len(q) : OkShare(q[k])}
OkShares(q) == Cardinality(OkAt(q))
One(b) == IF b THEN 1 ELSE 0

(* TypeOK leaves out the counters and the state of the pool. *)
MoreTypes ==
    /\ accepted_count \in Nat /\ solved_count \in Nat /\ accepted_by_pool \in Nat
    /\ rpt \in {"idle", "reset"}
    /\ greeted \in BOOLEAN /\ unasked \in BOOLEAN
    /\ Judged(toClient)
    /\ spc \in {"judge", "count"} => HasVerdict(line)

(* Without a connection nothing is on the wire. *)
Offline ==
    /\ ~conn => toPool = <<>> /\ toClient = <<>>
    /\ spc = "connect" => ~conn

(* A request that is not sent yet is not answered. *)
AskedInTurn ==
    /\ spc \in {"subscribe", "subscribe_wait", "auth"} =>
          granted = "none" /\ ~Has(toPool, 2) /\ ~Has(toClient, 2)
    /\ spc \in {"subscribe", "subscribe_wait", "auth", "auth_wait"} =>
          ~Has(toPool, 3) /\ ~Has(toClient, 3)

(* The authorization is asked for and decided once in a session. *)
OneAuth == Once(toPool, 2) /\ (granted # "none" => ~Has(toPool, 2))

(* No request succeeds before the pool has granted the authorization. *)
OkMeansGranted == HasGrant(toClient) => granted = "yes"

(* As long as nothing came out of turn, the answer to subscribe is the first
   line, and is consumed before the authorization is asked for. *)
GreetingInTurn ==
    conn /\ ~unasked =>
       /\ spc \in {"subscribe", "auth", "auth_wait"} => ~Has(toPool, 1) /\ ~Has(toClient, 1)
       /\ spc = "subscribe_wait" => /\ Once(toPool, 1) /\ Once(toClient, 1)
                                    /\ ~(Has(toPool, 1) /\ Has(toClient, 1))
       /\ ~greeted => toClient = <<>> /\ spc \in {"subscribe", "subscribe_wait"}
       /\ spc = "subscribe" /\ ~retry => ~greeted
       /\ spc = "subscribe_wait" /\ ~retry /\ greeted => toClient # <<>> /\ Head(toClient).id = 1

(* An accepted share is on the wire, at share_result or counted. *)
Pending == One(spc \in {"judge", "count"} /\ line.verdict = "ok")
AcceptedAreCounted == accepted_count + OkShares(toClient) + Pending <= accepted_by_pool

(* With no share in the hands of workio, and none given up since, the slot has the
   difficulty of the last share on the wire, or of the one at share_result. *)
SlotIsOfLastShare ==
    /\ wpc = "send" => sharediff = share
    /\ wpc = "ended" => unsent
    /\ wpc = "idle" /\ ~unsent =>
          /\ LastIs(toPool, sharediff)
          /\ ~Has(toPool, 4) => LastIs(toClient, sharediff)
          /\ spc = "judge" /\ ~Has(toPool, 4) /\ ~Has(toClient, 4) => line.diff = sharediff

(* The sums and the reports together are the counters, also while a report has
   its copy; a report has the sums locked. *)
ReportsHold ==
    LET all == Add(reported, sums) IN
    /\ all.accept = accepted_count
    /\ all.solved = solved_count
    /\ all.submit = all.accept + all.stale + all.reject
    /\ rpt = "idle" => ~slock
    /\ rpt = "reset" => slock /\ rep = sums

IInv ==
    /\ TypeOK /\ MoreTypes
    /\ Offline /\ AskedInTurn /\ OneAuth /\ OkMeansGranted /\ GreetingInTurn
    /\ RefusalMissedOnlyByShift
    /\ AcceptedAreCounted /\ SlotIsOfLastShare
    /\ ReportsHold /\ UrlIsCurrent

-----------------------------------------------------------------------------
(* Queues. *)

\* What Append does to the four predicates.
LEMMA AppendQueue ==
    ASSUME NEW S, NEW q \in Seq(S), NEW x \in S
    PROVE /\ \A i : Has(Append(q, x), i) <=> Has(q, i) \/ x.id = i
          /\ \A i : Once(q, i) /\ (x.id # i \/ ~Has(q, i)) => Once(Append(q, x), i)
          /\ \A d : x.id # 4 /\ LastIs(q, d) => LastIs(Append(q, x), d)
          /\ \A d : x.id = 4 /\ x.diff = d => LastIs(Append(q, x), d)
          /\ Judged(q) /\ (x.id = 4 => HasVerdict(x)) => Judged(Append(q, x))
          /\ HasGrant(Append(q, x)) <=> HasGrant(q) \/ Grants(x)
          /\ Append(q, x) # <<>> /\ Append(q, x) \in Seq(S)
          /\ Head(Append(q, x)) = IF q = <<>> THEN x ELSE Head(q)
  <1> DEFINE r == Append(q, x)
             n == Len(q)
  <1>1. /\ n \in Nat /\ Len(r) = n + 1
        /\ \A k \in 1..n : r[k] = q[k]
        /\ r[n + 1] = x
    BY AppendProperties, LenProperties
  <1> HIDE DEF r, n
  <1>2. /\ \A k \in 1..n : k \in 1..(n + 1)
        /\ n + 1 \in 1..(n + 1)
        /\ \A k \in 1..(n + 1) : k \in 1..n \/ k = n + 1
    BY <1>1
  <1>3. \A i : Has(r, i) <=> Has(q, i) \/ x.id = i
    BY <1>1, <1>2 DEF Has, n
  <1>4. \A i : Once(q, i) /\ (x.id # i \/ ~Has(q, i)) => Once(r, i)
    BY <1>1, <1>2 DEF Has, Once, n
  <1>5. ASSUME NEW d, x.id # 4, LastIs(q, d) PROVE LastIs(r, d)
    BY <1>1, <1>2, <1>5 DEF LastIs, n
  <1>6. ASSUME NEW d, x.id = 4, x.diff = d PROVE LastIs(r, d)
    BY <1>1, <1>2, <1>6 DEF LastIs
  <1>7. HasGrant(r) <=> HasGrant(q) \/ Grants(x)
    BY <1>1, <1>2 DEF HasGrant, n
  <1>8. /\ r # <<>> /\ r \in Seq(S) /\ r[1] = Head(r)
        /\ q # <<>> => 1 \in 1..n /\ q[1] = Head(q)
        /\ q = <<>> => n = 0
    BY AppendProperties, HeadTailProperties, EmptySeq, LenProperties DEF r, n
  <1>9. Head(r) = IF q = <<>> THEN x ELSE Head(q)
    BY <1>1, <1>8
  <1>10. Judged(q) /\ (x.id = 4 => HasVerdict(x)) => Judged(r)
    BY <1>1, <1>2 DEF Judged, n
  <1>11. QED
    BY <1>3, <1>4, <1>5, <1>6, <1>7, <1>8, <1>9, <1>10 DEF r

\* What Tail does to them.
LEMMA TailQueue ==
    ASSUME NEW S, NEW q \in Seq(S), q # <<>>
    PROVE /\ \A i : Has(q, i) <=> Head(q).id = i \/ Has(Tail(q), i)
          /\ \A i : Once(q, i) => Once(Tail(q), i)
          /\ \A i : Once(q, i) /\ Head(q).id = i => ~Has(Tail(q), i)
          /\ \A d : LastIs(q, d) => LastIs(Tail(q), d)
          /\ \A d : LastIs(q, d) /\ Head(q).id = 4 /\ ~Has(Tail(q), 4) => Head(q).diff = d
          /\ Judged(q) => Judged(Tail(q)) /\ (Head(q).id = 4 => HasVerdict(Head(q)))
          /\ HasGrant(q) <=> Grants(Head(q)) \/ HasGrant(Tail(q))
          /\ Head(q) \in S /\ Tail(q) \in Seq(S)
  <1> DEFINE r == Tail(q)
             n == Len(r)
             h == Head(q)
  <1>1. /\ n \in Nat /\ Len(q) = n + 1
        /\ \A k \in 1..n : r[k] = q[k + 1]
        /\ h = q[1]
    <2>1. Len(q) \in Nat \ {0}
      BY EmptySeq
    <2>2. /\ Len(r) = Len(q) - 1 /\ h = q[1]
          /\ \A k \in 1..Len(r) : r[k] = q[k + 1]
      BY HeadTailProperties
    <2>3. QED
      BY <2>1, <2>2
  <1> HIDE DEF r, n, h
  <1>2. /\ \A k \in 1..n : k + 1 \in 1..(n + 1) /\ k + 1 # 1
        /\ 1 \in 1..(n + 1)
        /\ \A k \in 1..(n + 1) : k = 1 \/ (k - 1 \in 1..n /\ k = (k - 1) + 1)
    BY <1>1
  <1>3. ASSUME NEW i PROVE Has(q, i) <=> h.id = i \/ Has(r, i)
    <2>1. ASSUME NEW k \in 1..Len(q), q[k].id = i PROVE h.id = i \/ Has(r, i)
      <3>1. CASE k = 1
        BY <1>1, <2>1, <3>1
      <3>2. CASE k # 1
        <4>1. k - 1 \in 1..n /\ r[k - 1] = q[k]
          BY <1>1, <3>2
        <4>2. QED
          BY <2>1, <4>1 DEF Has, n
      <3>3. QED
        BY <3>1, <3>2
    <2>2. ASSUME h.id = i PROVE Has(q, i)
      BY <1>1, <1>2, <2>2 DEF Has
    <2>3. ASSUME NEW k \in 1..n, r[k].id = i PROVE Has(q, i)
      BY <1>1, <1>2, <2>3 DEF Has
    <2>4. QED
      BY <2>1, <2>2, <2>3 DEF Has, n
  <1>4. ASSUME NEW i, Once(q, i) PROVE Once(r, i)
    BY <1>1, <1>2, <1>4 DEF Once, n
  <1>5. ASSUME NEW i, Once(q, i), h.id = i, Has(r, i) PROVE FALSE
    BY <1>1, <1>2, <1>5 DEF Once, Has, n
  <1>6. ASSUME NEW d, LastIs(q, d) PROVE LastIs(r, d)
    <2> SUFFICES ASSUME NEW k \in 1..n, r[k].id = 4,
                        \A j \in 1..n : j > k => r[j].id # 4
                 PROVE r[k].diff = d
      BY DEF LastIs, n
    <2>1. ASSUME NEW j \in 1..Len(q), j > k + 1 PROVE q[j].id # 4
      <3>1. j - 1 \in 1..n /\ j - 1 > k /\ (j - 1) + 1 = j
        BY <1>1, <2>1
      <3>2. QED
        BY <1>1, <3>1
    <2>2. k + 1 \in 1..Len(q) /\ q[k + 1].id = 4
      BY <1>1, <1>2
    <2>3. QED
      BY <1>1, <1>6, <2>1, <2>2 DEF LastIs
  <1>7. ASSUME NEW d, LastIs(q, d), h.id = 4, ~Has(r, 4) PROVE h.diff = d
    <2>1. ASSUME NEW j \in 1..Len(q), j > 1 PROVE q[j].id # 4
      <3>1. j - 1 \in 1..n /\ (j - 1) + 1 = j
        BY <1>1, <2>1
      <3>2. QED
        BY <1>1, <1>7, <3>1 DEF Has, n
    <2>2. QED
      BY <1>1, <1>2, <1>7, <2>1 DEF LastIs
  <1>8. HasGrant(q) <=> Grants(h) \/ HasGrant(r)
    <2>1. ASSUME NEW k \in 1..Len(q), Grants(q[k]) PROVE Grants(h) \/ HasGrant(r)
      <3>1. CASE k = 1
        BY <1>1, <2>1, <3>1
      <3>2. CASE k # 1
        <4>1. k - 1 \in 1..n /\ r[k - 1] = q[k]
          BY <1>1, <3>2
        <4>2. QED
          BY <2>1, <4>1 DEF HasGrant, n
      <3>3. QED
        BY <3>1, <3>2
    <2>2. ASSUME Grants(h) PROVE HasGrant(q)
      BY <1>1, <1>2, <2>2 DEF HasGrant
    <2>3. ASSUME NEW k \in 1..n, Grants(r[k]) PROVE HasGrant(q)
      BY <1>1, <1>2, <2>3 DEF HasGrant
    <2>4. QED
      BY <2>1, <2>2, <2>3 DEF HasGrant, n
  <1>9. h \in S /\ r \in Seq(S)
    BY HeadTailProperties DEF h, r
  <1>10. Judged(q) => Judged(r) /\ (h.id = 4 => HasVerdict(h))
    BY <1>1, <1>2 DEF Judged, n
  <1>11. QED
    BY <1>3, <1>4, <1>5, <1>6, <1>7, <1>8, <1>9, <1>10 DEF r, h

\* Nothing is in the empty queue.
LEMMA EmptyQueue ==
    /\ \A i : ~Has(<<>>, i) /\ Once(<<>>, i)
    /\ \A d : LastIs(<<>>, d)
    /\ ~HasGrant(<<>>) /\ Judged(<<>>)
    /\ OkShares(<<>>) = 0
  <1>1. Len(<<>>) = 0
    BY EmptySeq
  <1>2. 1..Len(<<>>) = {}
    BY <1>1
  <1>3. OkAt(<<>>) = {}
    BY <1>2 DEF OkAt
  <1>4. OkShares(<<>>) = 0
    BY <1>3, FS_EmptySet DEF OkShares
  <1>5. QED
    BY <1>2, <1>4 DEF Has, Once, LastIs, HasGrant, Judged

\* What is not in the queue is not there twice.
LEMMA NoneIsOnce == \A q, i : ~Has(q, i) => Once(q, i)
  BY DEF Has, Once

\* The accepted shares in a queue are finitely many.
LEMMA OkSharesType ==
    ASSUME NEW S, NEW q \in Seq(S)
    PROVE IsFiniteSet(OkAt(q)) /\ OkShares(q) \in Nat
  <1>1. IsFiniteSet(1..Len(q))
    BY LenProperties, FS_Interval
  <1>2. OkAt(q) \in SUBSET (1..Len(q))
    BY DEF OkAt
  <1>3. IsFiniteSet(OkAt(q))
    BY <1>1, <1>2, FS_Subset
  <1>4. QED
    BY <1>3, FS_CardinalityType DEF OkShares

\* A line appended is counted once.
LEMMA OkSharesAppend ==
    ASSUME NEW S, NEW q \in Seq(S), NEW x \in S
    PROVE OkShares(Append(q, x)) = OkShares(q) + One(OkShare(x))
  <1> DEFINE r == Append(q, x)
             n == Len(q)
  <1>1. /\ n \in Nat /\ Len(r) = n + 1
        /\ \A k \in 1..n : r[k] = q[k]
        /\ r[n + 1] = x
    BY AppendProperties, LenProperties
  <1>2. IsFiniteSet(OkAt(q)) /\ OkShares(q) \in Nat
    BY OkSharesType
  <1> HIDE DEF r, n
  <1>3. n + 1 \notin OkAt(q) /\ \A k \in 1..(n + 1) : k \in 1..n \/ k = n + 1
    BY <1>1 DEF OkAt, n
  <1>4. CASE OkShare(x)
    <2>1. OkAt(r) = OkAt(q) \cup {n + 1}
      BY <1>1, <1>3, <1>4 DEF OkAt, n
    <2>2. Cardinality(OkAt(r)) = Cardinality(OkAt(q)) + 1
      BY <1>2, <1>3, <2>1, FS_AddElement
    <2>3. QED
      BY <1>4, <2>2 DEF OkShares, One, r
  <1>5. CASE ~OkShare(x)
    <2>1. OkAt(r) = OkAt(q)
      BY <1>1, <1>3, <1>5 DEF OkAt, n
    <2>2. QED
      BY <1>2, <1>5, <2>1 DEF OkShares, One, r
  <1>6. QED
    BY <1>4, <1>5

\* A line taken is counted no longer.
LEMMA OkSharesTail ==
    ASSUME NEW S, NEW q \in Seq(S), q # <<>>
    PROVE OkShares(q) = OkShares(Tail(q)) + One(OkShare(Head(q)))
  <1> DEFINE r == Tail(q)
             n == Len(r)
             h == Head(q)
             rest == OkAt(q) \ {1}
             f == [k \in OkAt(r) |-> k + 1]
  <1>1. /\ n \in Nat /\ Len(q) = n + 1 /\ r \in Seq(S)
        /\ \A k \in 1..n : r[k] = q[k + 1]
        /\ h = q[1]
    <2>1. Len(q) \in Nat \ {0}
      BY EmptySeq
    <2>2. /\ Len(r) = Len(q) - 1 /\ h = q[1] /\ r \in Seq(S)
          /\ \A k \in 1..Len(r) : r[k] = q[k + 1]
      BY HeadTailProperties
    <2>3. QED
      BY <2>1, <2>2
  <1>2. IsFiniteSet(OkAt(r)) /\ OkShares(r) \in Nat /\ IsFiniteSet(OkAt(q)) /\ OkShares(q) \in Nat
    BY <1>1, OkSharesType
  <1> HIDE DEF r, n, h, rest, f
  <1>3. f \in Bijection(OkAt(r), rest)
    <2>1. ASSUME NEW k \in OkAt(r) PROVE f[k] = k + 1 /\ k \in Nat /\ f[k] \in rest
      <3>1. k \in 1..n /\ OkShare(r[k])
        BY <2>1 DEF OkAt, n
      <3>2. k + 1 \in 1..Len(q) /\ k + 1 # 1 /\ OkShare(q[k + 1]) /\ k \in Nat
        BY <1>1, <3>1
      <3>3. QED
        BY <3>2 DEF OkAt, rest, f
    <2>2. ASSUME NEW k \in rest PROVE \E j \in OkAt(r) : f[j] = k
      <3>1. k \in 1..Len(q) /\ k # 1 /\ OkShare(q[k])
        BY <2>2 DEF OkAt, rest
      <3>2. k - 1 \in 1..n /\ (k - 1) + 1 = k
        BY <1>1, <3>1
      <3>3. k - 1 \in OkAt(r)
        BY <1>1, <3>1, <3>2 DEF OkAt, n
      <3>4. QED
        BY <3>2, <3>3 DEF f
    <2>3. f \in [OkAt(r) -> rest]
      BY <2>1 DEF f
    <2>4. \A j, k \in OkAt(r) : f[j] = f[k] => j = k
      BY <2>1
    <2>5. QED
      BY <2>2, <2>3, <2>4 DEF Bijection, Injection, Surjection, IsInjective
  <1>4. Cardinality(rest) = Cardinality(OkAt(r))
    <2>1. ExistsBijection(OkAt(r), rest)
      BY <1>3 DEF ExistsBijection
    <2>2. QED
      BY <1>2, <2>1, FS_Bijection
  <1>5. 1 \in OkAt(q) <=> OkShare(h)
    BY <1>1 DEF OkAt
  <1>6. Cardinality(rest) = IF 1 \in OkAt(q) THEN Cardinality(OkAt(q)) - 1 ELSE Cardinality(OkAt(q))
    BY <1>2, FS_RemoveElement DEF rest
  <1>7. OkShares(q) = OkShares(r) + One(OkShare(h))
    BY <1>2, <1>4, <1>5, <1>6 DEF OkShares, One
  <1>8. QED
    BY <1>7 DEF r, h

-----------------------------------------------------------------------------
(* What a step does to the session. *)

wireVars == <<connVars, spc, poolVars>>

(* The session ends. *)
Drops ==
    /\ conn' = FALSE /\ believed' = FALSE /\ toPool' = <<>> /\ toClient' = <<>>
    /\ spc' \in {"connect", "top"}
    /\ UNCHANGED <<retry, greeted, granted, unasked>>

(* The stratum thread goes on and leaves the wire alone. *)
Passes ==
    /\ UNCHANGED <<connVars, poolVars>>
    /\ spc \in {"top", "extra", "extra_wait", "judge", "count"}
    /\ spc' \in {"reset", "recv", "connect", "count", "top"}
    /\ spc' = "connect" => ~conn

(* The stratum thread takes a line. *)
Takes ==
    /\ toClient # <<>> /\ toClient' = Tail(toClient)
    /\ UNCHANGED <<conn, toPool, greeted, granted, unasked>>
    /\ LET l == Head(toClient) IN
       \/ /\ spc = "subscribe_wait" /\ spc' = "auth"
          /\ l.id = 1 /\ UNCHANGED <<retry, believed>>
       \/ /\ spc = "subscribe_wait" /\ spc' = "subscribe"
          /\ ~retry /\ retry' = TRUE /\ UNCHANGED believed
       \/ /\ spc = "auth_wait" /\ spc' = "auth_wait"
          /\ l.id = 0 /\ UNCHANGED <<retry, believed>>
       \/ /\ spc = "auth_wait" /\ spc' = "extra"
          /\ l.id # 0 /\ l.verdict = "ok" /\ believed' = TRUE /\ UNCHANGED retry
       \/ /\ spc \in {"extra_wait", "recv"} /\ spc' \in {"recv", "top", "judge"}
          /\ UNCHANGED <<retry, believed>>

\* Every step is one of these, sends a request, connects, is of workio or of the
\* pool, or does not concern the session.
LEMMA WireSteps ==
    ASSUME TypeOK, Offline, [Next]_vars
    PROVE UNCHANGED wireVars \/ Drops \/ Passes \/ Takes \/ StratumConnect \/ StratumAsks
          \/ WorkioSend \/ PoolAnswers \/ PoolSays
  <1>1. CASE StratumTop
    BY <1>1 DEF StratumTop, Passes
  <1>2. CASE StratumReset \/ StratumLoginLost \/ StratumLost
    BY <1>2 DEF StratumReset, StratumLoginLost, LoginFails, StratumLost, Disconnect, Drops
  <1>3. CASE StratumSubscribed
    BY <1>3 DEF StratumSubscribed, LoginFails, Disconnect, Drops, Takes, connVars
  <1>4. CASE StratumMethod
    <2>1. CASE Head(toClient).verdict = "reconnect"
      BY <1>4, <2>1 DEF StratumMethod, Method, Disconnect, Drops
    <2>2. CASE Head(toClient).verdict # "reconnect"
      BY <1>4, <2>2 DEF StratumMethod, Method, IsMethod, Takes, connVars
    <2>3. QED
      BY <2>1, <2>2
  <1>5. CASE StratumAuthorized
    BY <1>5 DEF StratumAuthorized, NotRefused, IsMethod, LoginFails, Disconnect, Drops, Takes
  <1>6. CASE StratumExtra
    BY <1>6 DEF StratumExtra, Passes, Takes, connVars, poolVars
  <1>7. CASE StratumAnswer
    BY <1>7 DEF StratumAnswer, Takes, connVars
  <1>8. CASE StratumJudge \/ StratumCount
    BY <1>8 DEF StratumJudge, StratumCount, Passes
  <1>9. CASE \/ WorkioStale \/ WorkioSlot \/ WorkioSendFailed
             \/ ApiSetUrl \/ ReporterCollect \/ ReporterReset \/ UNCHANGED vars
    BY <1>9 DEF WorkioStale, WorkioSlot, WorkioSendFailed, restOfSubmit, restOfSend, ApiSetUrl,
                ReporterCollect, ReporterReset, vars, wireVars, poolVars
  <1>10. QED
    BY <1>1, <1>2, <1>3, <1>4, <1>5, <1>6, <1>7, <1>8, <1>9 DEF Next, StratumStep

-----------------------------------------------------------------------------
(* What each kind of step does to the two queues. *)

\* The end of a session, and the start of the next, leave nothing.
LEMMA WireEmpty ==
    ASSUME Drops \/ StratumConnect
    PROVE /\ toPool' = <<>> /\ toClient' = <<>>
          /\ \A i : ~Has(toPool', i) /\ Once(toPool', i) /\ ~Has(toClient', i) /\ Once(toClient', i)
          /\ \A d : LastIs(toPool', d) /\ LastIs(toClient', d)
          /\ ~HasGrant(toClient') /\ Judged(toClient')
  <1>1. toPool' = <<>> /\ toClient' = <<>>
    BY DEF Drops, StratumConnect
  <1>2. QED
    BY <1>1, EmptyQueue

\* A line taken.
LEMMA WireTakes ==
    ASSUME TypeOK, Takes
    PROVE LET l == Head(toClient) IN
          /\ l \in Line
          /\ \A i : Has(toClient, i) <=> l.id = i \/ Has(toClient', i)
          /\ \A i : Once(toClient, i) => Once(toClient', i)
          /\ \A i : Once(toClient, i) /\ l.id = i => ~Has(toClient', i)
          /\ \A d : LastIs(toClient, d) => LastIs(toClient', d)
          /\ \A d : LastIs(toClient, d) /\ l.id = 4 /\ ~Has(toClient', 4) => l.diff = d
          /\ HasGrant(toClient) <=> Grants(l) \/ HasGrant(toClient')
          /\ Judged(toClient) => Judged(toClient') /\ (l.id = 4 => HasVerdict(l))
  <1>1. toClient \in Seq(Line) /\ toClient # <<>> /\ toClient' = Tail(toClient)
    BY DEF TypeOK, Takes
  <1>2. QED
    BY <1>1, TailQueue

\* A request or a share sent.
LEMMA WireSends ==
    ASSUME TypeOK, NEW r \in Request, toPool' = Append(toPool, r)
    PROVE /\ \A i : Has(toPool', i) <=> Has(toPool, i) \/ r.id = i
          /\ \A i : Once(toPool, i) /\ (r.id # i \/ ~Has(toPool, i)) => Once(toPool', i)
          /\ \A d : r.id # 4 /\ LastIs(toPool, d) => LastIs(toPool', d)
          /\ \A d : r.id = 4 /\ r.diff = d => LastIs(toPool', d)
  <1>1. toPool \in Seq(Request)
    BY DEF TypeOK
  <1>2. QED
    BY <1>1, AppendQueue

\* A line said by the pool.
LEMMA WireSays ==
    ASSUME TypeOK, NEW l \in Line, toClient' = Append(toClient, l)
    PROVE /\ \A i : Has(toClient', i) <=> Has(toClient, i) \/ l.id = i
          /\ \A i : Once(toClient, i) /\ (l.id # i \/ ~Has(toClient, i)) => Once(toClient', i)
          /\ \A d : l.id # 4 /\ LastIs(toClient, d) => LastIs(toClient', d)
          /\ \A d : l.id = 4 /\ l.diff = d => LastIs(toClient', d)
          /\ HasGrant(toClient') <=> HasGrant(toClient) \/ Grants(l)
          /\ Judged(toClient) /\ (l.id = 4 => HasVerdict(l)) => Judged(toClient')
          /\ toClient' # <<>> /\ Head(toClient') = IF toClient = <<>> THEN l ELSE Head(toClient)
  <1>1. toClient \in Seq(Line)
    BY DEF TypeOK
  <1>2. QED
    BY <1>1, AppendQueue

\* A request taken by the pool.
LEMMA WireAnswers ==
    ASSUME TypeOK, toPool # <<>>, toPool' = Tail(toPool)
    PROVE LET r == Head(toPool) IN
          /\ r \in Request
          /\ \A i : Has(toPool, i) <=> r.id = i \/ Has(toPool', i)
          /\ \A i : Once(toPool, i) => Once(toPool', i)
          /\ \A i : Once(toPool, i) /\ r.id = i => ~Has(toPool', i)
          /\ \A d : LastIs(toPool, d) => LastIs(toPool', d)
          /\ \A d : LastIs(toPool, d) /\ r.id = 4 /\ ~Has(toPool', 4) => r.diff = d
  <1>1. toPool \in Seq(Request)
    BY DEF TypeOK
  <1>2. QED
    BY <1>1, TailQueue

\* An answer of the pool is to the request it takes.
LEMMA AnswerLine ==
    ASSUME TypeOK, PoolAnswers
    PROVE \E l \in Line : LET r == Head(toPool) IN
          /\ toPool # <<>> /\ toPool' = Tail(toPool)
          /\ toClient' = Append(toClient, l)
          /\ l.id = r.id /\ l.diff = r.diff /\ HasVerdict(l)
          /\ r.id = 4 /\ granted # "yes" => l.verdict # "ok"
          /\ greeted' = (greeted \/ r.id = 1)
          /\ granted' = IF r.id = 2 THEN (IF l.verdict = "ok" THEN "yes" ELSE "refused") ELSE granted
          /\ unasked' = (unasked \/ (r.id = 4 /\ granted = "none"))
          /\ accepted_by_pool \in Nat => accepted_by_pool' = accepted_by_pool + One(OkShare(l))
          /\ UNCHANGED <<conn, retry, believed, spc>>
  <1>1. /\ toPool # <<>> /\ toPool' = Tail(toPool)
        /\ UNCHANGED <<conn, retry, believed, spc>>
    BY DEF PoolAnswers, connVars
  <1>2. Head(toPool) \in Request
    BY <1>1, WireAnswers
  <1> DEFINE r == Head(toPool)
             line1(v) == [id |-> r.id, verdict |-> v, diff |-> r.diff]
  <1>3. PICK v \in {"ok", "job", "no"} :
          /\ r.id = 4 /\ granted # "yes" => v = "no"
          /\ toClient' = Append(toClient, line1(v))
          /\ greeted' = (greeted \/ r.id = 1)
          /\ granted' = IF r.id = 2 THEN (IF v = "ok" THEN "yes" ELSE "refused") ELSE granted
          /\ unasked' = (unasked \/ (r.id = 4 /\ granted = "none"))
          /\ accepted_by_pool' = IF r.id = 4 /\ v = "ok" THEN accepted_by_pool + 1
                                                         ELSE accepted_by_pool
    BY DEF PoolAnswers
  <1>4. r.id \in 0..4 /\ r.diff \in Diff \cup {0}
    BY <1>2 DEF Request
  <1>5. /\ line1(v) \in Line /\ HasVerdict(line1(v))
        /\ line1(v).id = r.id /\ line1(v).verdict = v /\ line1(v).diff = r.diff
    BY <1>4 DEF Line, HasVerdict
  <1>6. accepted_by_pool \in Nat => accepted_by_pool' = accepted_by_pool + One(OkShare(line1(v)))
    BY <1>3, <1>5 DEF One, OkShare
  <1> HIDE DEF line1, r
  <1>7. r.id = 4 /\ granted # "yes" => line1(v).verdict # "ok"
    BY <1>3, <1>5
  <1>8. granted' = IF r.id = 2 THEN (IF line1(v).verdict = "ok" THEN "yes" ELSE "refused") ELSE granted
    BY <1>3, <1>5
  <1>9. line1(v) \in Line
    BY <1>5
  <1>10. QED
    BY <1>1, <1>3, <1>5, <1>6, <1>7, <1>8, <1>9 DEF r

\* A method is a line of id 0.
LEMMA SaidLine ==
    ASSUME PoolSays
    PROVE \E l \in Line :
          /\ toClient' = Append(toClient, l)
          /\ l.id = 0 /\ conn
          /\ unasked' = (unasked \/ ~greeted)
          /\ UNCHANGED <<connVars, spc, toPool, greeted, granted>>
  <1> DEFINE line1(v) == [id |-> 0, verdict |-> v, diff |-> 0]
  <1>1. PICK v \in {"other", "reconnect"} : toClient' = Append(toClient, line1(v))
    BY DEF PoolSays
  <1>2. line1(v) \in Line /\ line1(v).id = 0
    BY DEF Line
  <1>3. conn /\ unasked' = (unasked \/ ~greeted) /\ UNCHANGED <<connVars, spc, toPool, greeted, granted>>
    BY DEF PoolSays
  <1> HIDE DEF line1
  <1>4. QED
    BY <1>1, <1>2, <1>3

\* workio sends a share, of id 4.
LEMMA ShareSent ==
    ASSUME TypeOK, WorkioSend
    PROVE /\ UNCHANGED <<connVars, spc, toClient, greeted, granted, unasked>>
          /\ \E r \in Request : toPool' = Append(toPool, r) /\ r.id = 4 /\ r.diff = share /\ conn
  <1> DEFINE r == [id |-> 4, diff |-> share]
  <1>1. r \in Request /\ r.id = 4 /\ r.diff = share
    BY DEF TypeOK, Request
  <1>2. conn /\ toPool' = Append(toPool, r)
    BY DEF WorkioSend
  <1>3. UNCHANGED <<connVars, spc, toClient, greeted, granted, unasked>>
    BY DEF WorkioSend, restOfSend
  <1> HIDE DEF r
  <1>4. QED
    BY <1>1, <1>2, <1>3

\* The login sends a request of id 1, 2 or 3.
LEMMA LoginSent ==
    ASSUME StratumAsks
    PROVE \E r \in Request :
          /\ toPool' = Append(toPool, r)
          /\ \/ spc = "subscribe" /\ spc' = "subscribe_wait" /\ r.id = 1
             \/ spc = "auth" /\ spc' = "auth_wait" /\ r.id = 2
             \/ spc = "extra" /\ spc' = "extra_wait" /\ r.id = 3
          /\ UNCHANGED <<conn, retry, believed, toClient, greeted, granted, unasked>>
  <1>1. \A i \in 1..3 : Ask(i) \in Request /\ Ask(i).id = i
    BY DEF Ask, Request
  <1>2. \E i \in 1..3 :
          /\ toPool' = Append(toPool, Ask(i))
          /\ \/ spc = "subscribe" /\ spc' = "subscribe_wait" /\ i = 1
             \/ spc = "auth" /\ spc' = "auth_wait" /\ i = 2
             \/ spc = "extra" /\ spc' = "extra_wait" /\ i = 3
          /\ UNCHANGED <<conn, retry, believed, toClient, greeted, granted, unasked>>
    <2>1. CASE Send("subscribe", 1, "subscribe_wait")
      BY <2>1 DEF Send, connVars
    <2>2. CASE Send("auth", 2, "auth_wait")
      BY <2>2 DEF Send, connVars
    <2>3. CASE Send("extra", 3, "extra_wait")
      BY <2>3 DEF Send, connVars
    <2>4. QED
      BY <2>1, <2>2, <2>3 DEF StratumAsks
  <1>3. QED
    BY <1>1, <1>2

-----------------------------------------------------------------------------
(* Each part of the invariant about the wire is kept. *)

\* Offline.
LEMMA OfflineStep == IInv /\ [Next]_vars => Offline'
  <1> SUFFICES ASSUME IInv, [Next]_vars PROVE Offline'
    OBVIOUS
  <1> USE DEF Offline, connVars, poolVars
  <1>1. TypeOK /\ Offline
    BY DEF IInv
  <1>2. CASE UNCHANGED wireVars \/ Drops \/ Passes
    BY <1>1, <1>2 DEF wireVars, Drops, Passes
  <1>3. CASE Takes
    BY <1>1, <1>3 DEF Takes
  <1>4. CASE StratumConnect
    BY <1>4 DEF StratumConnect
  <1>5. CASE StratumAsks
    BY <1>1, <1>5, LoginSent DEF TypeOK, LoginPoint
  <1>6. CASE WorkioSend
    BY <1>1, <1>6, ShareSent
  <1>7. CASE PoolAnswers
    BY <1>1, <1>7, AnswerLine
  <1>8. CASE PoolSays
    BY <1>1, <1>8, SaidLine
  <1>9. QED
    BY <1>1, <1>2, <1>3, <1>4, <1>5, <1>6, <1>7, <1>8, WireSteps

\* AskedInTurn.
LEMMA AskedStep == IInv /\ [Next]_vars => AskedInTurn'
  <1> SUFFICES ASSUME IInv, [Next]_vars PROVE AskedInTurn'
    OBVIOUS
  <1> USE DEF AskedInTurn, connVars, poolVars
  <1>1. TypeOK /\ Offline /\ AskedInTurn
    BY DEF IInv
  <1>2. CASE UNCHANGED wireVars \/ Drops \/ Passes
    BY <1>1, <1>2 DEF wireVars, Drops, Passes
  <1>3. CASE Takes
    BY <1>1, <1>3, WireTakes DEF Takes
  <1>4. CASE StratumConnect
    BY <1>4, WireEmpty DEF StratumConnect
  <1>5. CASE StratumAsks
    <2>1. PICK r \in Request :
             /\ toPool' = Append(toPool, r)
             /\ \/ spc = "subscribe" /\ spc' = "subscribe_wait" /\ r.id = 1
                \/ spc = "auth" /\ spc' = "auth_wait" /\ r.id = 2
                \/ spc = "extra" /\ spc' = "extra_wait" /\ r.id = 3
             /\ UNCHANGED <<conn, retry, believed, toClient, greeted, granted, unasked>>
      BY <1>5, LoginSent
    <2>2. /\ \A i : Has(toPool', i) <=> Has(toPool, i) \/ r.id = i
          /\ \A i : Once(toPool, i) /\ (r.id # i \/ ~Has(toPool, i)) => Once(toPool', i)
      BY <1>1, <2>1, WireSends
    <2>3. QED
      BY <1>1, <2>1, <2>2
  <1>6. CASE WorkioSend
    <2>1. UNCHANGED <<connVars, spc, toClient, greeted, granted, unasked>>
      BY <1>1, <1>6, ShareSent
    <2>2. PICK r \in Request : toPool' = Append(toPool, r) /\ r.id = 4
      BY <1>1, <1>6, ShareSent
    <2>3. /\ \A i : Has(toPool', i) <=> Has(toPool, i) \/ r.id = i
          /\ \A i : Once(toPool, i) /\ (r.id # i \/ ~Has(toPool, i)) => Once(toPool', i)
      BY <1>1, <2>2, WireSends
    <2>4. QED
      BY <1>1, <2>1, <2>2, <2>3
  <1>7. CASE PoolAnswers
    BY <1>1, <1>7, AnswerLine, WireAnswers, WireSays
  <1>8. CASE PoolSays
    <2>1. PICK l \in Line :
             /\ toClient' = Append(toClient, l)
             /\ l.id = 0 /\ conn
             /\ unasked' = (unasked \/ ~greeted)
             /\ UNCHANGED <<connVars, spc, toPool, greeted, granted>>
      BY <1>8, SaidLine
    <2>2. /\ \A i : Has(toClient', i) <=> Has(toClient, i) \/ l.id = i
          /\ \A i : Once(toClient, i) /\ (l.id # i \/ ~Has(toClient, i)) => Once(toClient', i)
          /\ toClient' # <<>> /\ Head(toClient') = IF toClient = <<>> THEN l ELSE Head(toClient)
      BY <1>1, <2>1, WireSays
    <2>3. QED
      BY <1>1, <2>1, <2>2
  <1>9. QED
    BY <1>1, <1>2, <1>3, <1>4, <1>5, <1>6, <1>7, <1>8, WireSteps

\* OneAuth.
LEMMA OneAuthStep == IInv /\ [Next]_vars => OneAuth'
  <1> SUFFICES ASSUME IInv, [Next]_vars PROVE OneAuth'
    OBVIOUS
  <1> USE DEF OneAuth, connVars, poolVars
  <1>1. TypeOK /\ Offline /\ AskedInTurn /\ OneAuth
    BY DEF IInv
  <1>2. CASE UNCHANGED wireVars \/ Passes
    BY <1>1, <1>2 DEF wireVars, Passes
  <1>3. CASE Takes
    BY <1>1, <1>3 DEF Takes
  <1>4. CASE Drops \/ StratumConnect
    BY <1>4, WireEmpty
  <1>5. CASE StratumAsks
    <2>1. PICK r \in Request :
             /\ toPool' = Append(toPool, r)
             /\ \/ spc = "subscribe" /\ spc' = "subscribe_wait" /\ r.id = 1
                \/ spc = "auth" /\ spc' = "auth_wait" /\ r.id = 2
                \/ spc = "extra" /\ spc' = "extra_wait" /\ r.id = 3
             /\ UNCHANGED <<conn, retry, believed, toClient, greeted, granted, unasked>>
      BY <1>5, LoginSent
    <2>2. /\ \A i : Has(toPool', i) <=> Has(toPool, i) \/ r.id = i
          /\ \A i : Once(toPool, i) /\ (r.id # i \/ ~Has(toPool, i)) => Once(toPool', i)
      BY <1>1, <2>1, WireSends
    <2>3. QED
      BY <1>1, <2>1, <2>2 DEF AskedInTurn
  <1>6. CASE WorkioSend
    <2>1. UNCHANGED <<connVars, spc, toClient, greeted, granted, unasked>>
      BY <1>1, <1>6, ShareSent
    <2>2. PICK r \in Request : toPool' = Append(toPool, r) /\ r.id = 4
      BY <1>1, <1>6, ShareSent
    <2>3. /\ \A i : Has(toPool', i) <=> Has(toPool, i) \/ r.id = i
          /\ \A i : Once(toPool, i) /\ (r.id # i \/ ~Has(toPool, i)) => Once(toPool', i)
      BY <1>1, <2>2, WireSends
    <2>4. QED
      BY <1>1, <2>1, <2>2, <2>3
  <1>7. CASE PoolAnswers
    BY <1>1, <1>7, AnswerLine, WireAnswers
  <1>8. CASE PoolSays
    BY <1>1, <1>8, SaidLine
  <1>9. QED
    BY <1>1, <1>2, <1>3, <1>4, <1>5, <1>6, <1>7, <1>8, WireSteps

\* OkMeansGranted.
LEMMA GrantedStep == IInv /\ [Next]_vars => OkMeansGranted'
  <1> SUFFICES ASSUME IInv, [Next]_vars PROVE OkMeansGranted'
    OBVIOUS
  <1> USE DEF OkMeansGranted, connVars, poolVars
  <1>1. TypeOK /\ Offline /\ OneAuth /\ OkMeansGranted
    BY DEF IInv
  <1>2. CASE UNCHANGED wireVars \/ Passes
    BY <1>1, <1>2 DEF wireVars, Passes
  <1>3. CASE Takes
    BY <1>1, <1>3, WireTakes DEF Takes
  <1>4. CASE Drops \/ StratumConnect
    BY <1>4, WireEmpty
  <1>5. CASE StratumAsks
    BY <1>1, <1>5, LoginSent
  <1>6. CASE WorkioSend
    BY <1>1, <1>6, ShareSent
  <1>7. CASE PoolAnswers
    <2>1. Has(toPool, Head(toPool).id)
      BY <1>1, <1>7, AnswerLine, WireAnswers
    <2>2. QED
      BY <1>1, <1>7, <2>1, AnswerLine, WireSays DEF OneAuth, Grants
  <1>8. CASE PoolSays
    BY <1>1, <1>8, SaidLine, WireSays DEF Grants
  <1>9. QED
    BY <1>1, <1>2, <1>3, <1>4, <1>5, <1>6, <1>7, <1>8, WireSteps

\* GreetingInTurn: its parts, then the whole.
GreetingOnce ==
    /\ spc \in {"subscribe", "auth", "auth_wait"} => ~Has(toPool, 1) /\ ~Has(toClient, 1)
    /\ spc = "subscribe_wait" => /\ Once(toPool, 1) /\ Once(toClient, 1)
                                 /\ ~(Has(toPool, 1) /\ Has(toClient, 1))
GreetingFirst ==
    /\ ~greeted => toClient = <<>> /\ spc \in {"subscribe", "subscribe_wait"}
    /\ spc = "subscribe" /\ ~retry => ~greeted
    /\ spc = "subscribe_wait" /\ ~retry /\ greeted => toClient # <<>> /\ Head(toClient).id = 1

LEMMA GreetingParts == GreetingInTurn <=> (conn /\ ~unasked => GreetingOnce /\ GreetingFirst)
  BY DEF GreetingInTurn, GreetingOnce, GreetingFirst

LEMMA GreetingStep == IInv /\ [Next]_vars => GreetingInTurn'
  <1> SUFFICES ASSUME IInv, [Next]_vars, conn', ~unasked'
               PROVE GreetingOnce' /\ GreetingFirst'
    BY DEF GreetingInTurn, GreetingOnce, GreetingFirst
  <1> USE DEF connVars, poolVars
  <1>1. /\ TypeOK /\ MoreTypes /\ Offline /\ AskedInTurn
        /\ conn /\ ~unasked => GreetingOnce /\ GreetingFirst
    BY GreetingParts DEF IInv
  <1>2. CASE UNCHANGED wireVars
    <2>1. UNCHANGED <<conn, retry, spc, toPool, toClient, greeted, unasked>>
      BY <1>2 DEF wireVars
    <2>2. GreetingOnce /\ GreetingFirst
      BY <1>1, <2>1
    <2>3. QED
      BY <2>1, <2>2 DEF GreetingOnce, GreetingFirst
  <1>3. CASE Drops
    BY <1>3 DEF Drops
  <1>4. CASE Passes
    BY <1>1, <1>4 DEF Passes, GreetingOnce, GreetingFirst
  <1>5. CASE Takes
    <2>1. GreetingOnce /\ GreetingFirst
      BY <1>1, <1>5 DEF Takes
    <2>2. GreetingOnce'
      BY <1>1, <1>5, <2>1, WireTakes DEF Takes, GreetingOnce, GreetingFirst
    <2>3. GreetingFirst'
      BY <1>1, <1>5, <2>1, WireTakes DEF Takes, GreetingFirst
    <2>4. QED
      BY <2>2, <2>3
  <1>6. CASE StratumConnect
    BY <1>6, WireEmpty DEF StratumConnect, GreetingOnce, GreetingFirst
  <1>7. CASE StratumAsks
    <2>1. PICK r \in Request :
             /\ toPool' = Append(toPool, r)
             /\ \/ spc = "subscribe" /\ spc' = "subscribe_wait" /\ r.id = 1
                \/ spc = "auth" /\ spc' = "auth_wait" /\ r.id = 2
                \/ spc = "extra" /\ spc' = "extra_wait" /\ r.id = 3
             /\ UNCHANGED <<conn, retry, believed, toClient, greeted, granted, unasked>>
      BY <1>7, LoginSent
    <2>2. GreetingOnce /\ GreetingFirst
      BY <1>1, <2>1
    <2>3. /\ \A i : Has(toPool', i) <=> Has(toPool, i) \/ r.id = i
          /\ \A i : Once(toPool, i) /\ (r.id # i \/ ~Has(toPool, i)) => Once(toPool', i)
      BY <1>1, <2>1, WireSends
    <2>4. GreetingOnce'
      BY <2>1, <2>2, <2>3, NoneIsOnce DEF GreetingOnce
    <2>5. GreetingFirst'
      BY <2>1, <2>2 DEF GreetingFirst
    <2>6. QED
      BY <2>4, <2>5
  <1>8. CASE WorkioSend
    <2>1. UNCHANGED <<connVars, spc, toClient, greeted, granted, unasked>>
      BY <1>1, <1>8, ShareSent
    <2>2. GreetingOnce /\ GreetingFirst
      BY <1>1, <2>1
    <2>3. GreetingFirst'
      BY <2>1, <2>2 DEF GreetingFirst
    <2>4. PICK r \in Request : toPool' = Append(toPool, r) /\ r.id = 4
      BY <1>1, <1>8, ShareSent
    <2>5. /\ \A i : Has(toPool', i) <=> Has(toPool, i) \/ r.id = i
          /\ \A i : Once(toPool, i) /\ (r.id # i \/ ~Has(toPool, i)) => Once(toPool', i)
      BY <1>1, <2>4, WireSends
    <2>6. GreetingOnce'
      BY <2>1, <2>2, <2>4, <2>5 DEF GreetingOnce
    <2>7. QED
      BY <1>1, <2>3, <2>6
  <1>9. CASE PoolAnswers
    <2> DEFINE r == Head(toPool)
    <2>1. PICK l \in Line :
             /\ toPool # <<>> /\ toPool' = Tail(toPool)
             /\ toClient' = Append(toClient, l)
             /\ l.id = r.id
             /\ greeted' = (greeted \/ r.id = 1)
             /\ unasked' = (unasked \/ (r.id = 4 /\ granted = "none"))
             /\ UNCHANGED <<conn, retry, believed, spc>>
      BY <1>1, <1>9, AnswerLine
    <2>2. /\ r \in Request
          /\ \A i : Has(toPool, i) <=> r.id = i \/ Has(toPool', i)
          /\ \A i : Once(toPool, i) => Once(toPool', i)
          /\ \A i : Once(toPool, i) /\ r.id = i => ~Has(toPool', i)
      BY <1>1, <2>1, WireAnswers
    <2>3. /\ \A i : Has(toClient', i) <=> Has(toClient, i) \/ r.id = i
          /\ \A i : Once(toClient, i) /\ (r.id # i \/ ~Has(toClient, i)) => Once(toClient', i)
          /\ toClient' # <<>> /\ Head(toClient').id = IF toClient = <<>> THEN r.id ELSE Head(toClient).id
      BY <1>1, <2>1, WireSays
    <2>4. r.id \in 1..4
      BY <2>2 DEF Request
    <2> HIDE DEF r
    <2>5. GreetingOnce /\ GreetingFirst /\ ~(r.id = 4 /\ granted = "none")
      BY <1>1, <2>1 DEF MoreTypes
    <2>6. GreetingOnce'
      BY <2>1, <2>2, <2>3, <2>5 DEF GreetingOnce
    <2>7. spc \in {"subscribe", "subscribe_wait"} => r.id = 1
      BY <1>1, <2>2, <2>4, <2>5 DEF AskedInTurn
    <2>8. CASE greeted
      <3>1. greeted'
        BY <2>1, <2>8
      <3>2. spc' = "subscribe" => retry'
        BY <2>1, <2>5, <2>8 DEF GreetingFirst
      <3>3. spc' = "subscribe_wait" /\ ~retry' => toClient # <<>> /\ Head(toClient).id = 1
        BY <2>1, <2>5, <2>8 DEF GreetingFirst
      <3>4. QED
        BY <2>3, <2>6, <3>1, <3>2, <3>3 DEF GreetingFirst
    <2>9. CASE ~greeted
      <3>1. toClient = <<>> /\ spc = "subscribe_wait" /\ r.id = 1
        BY <2>2, <2>5, <2>7, <2>9 DEF GreetingFirst, GreetingOnce
      <3>2. greeted' /\ spc' = "subscribe_wait"
        BY <2>1, <3>1
      <3>3. QED
        BY <2>3, <2>6, <3>1, <3>2 DEF GreetingFirst
    <2>10. QED
      BY <2>8, <2>9
  <1>10. CASE PoolSays
    <2>1. PICK l \in Line :
             /\ toClient' = Append(toClient, l)
             /\ l.id = 0 /\ conn
             /\ unasked' = (unasked \/ ~greeted)
             /\ UNCHANGED <<connVars, spc, toPool, greeted, granted>>
      BY <1>10, SaidLine
    <2>2. /\ \A i : Has(toClient', i) <=> Has(toClient, i) \/ l.id = i
          /\ \A i : Once(toClient, i) /\ (l.id # i \/ ~Has(toClient, i)) => Once(toClient', i)
          /\ toClient' # <<>> /\ Head(toClient') = IF toClient = <<>> THEN l ELSE Head(toClient)
      BY <1>1, <2>1, WireSays
    <2>3. GreetingOnce /\ GreetingFirst /\ greeted
      BY <1>1, <2>1 DEF MoreTypes
    <2>4. GreetingOnce'
      BY <2>1, <2>2, <2>3 DEF GreetingOnce
    <2>5. GreetingFirst'
      BY <2>1, <2>2, <2>3 DEF GreetingFirst
    <2>6. QED
      BY <2>4, <2>5
  <1>11. QED
    BY <1>1, <1>2, <1>3, <1>5, <1>6, <1>7, <1>8, <1>9, <1>10, <1>4, WireSteps

\* RefusalMissedOnlyByShift.
LEMMA RefusalStep == IInv /\ [Next]_vars => RefusalMissedOnlyByShift'
  <1> SUFFICES ASSUME IInv, [Next]_vars PROVE RefusalMissedOnlyByShift'
    OBVIOUS
  <1> USE DEF RefusalMissedOnlyByShift, connVars, poolVars
  <1>1. TypeOK /\ Offline /\ AskedInTurn /\ OneAuth /\ OkMeansGranted /\ GreetingInTurn
        /\ RefusalMissedOnlyByShift
    BY DEF IInv
  <1>2. CASE UNCHANGED wireVars \/ Passes \/ Drops
    BY <1>1, <1>2 DEF wireVars, Passes, Drops
  <1>3. CASE Takes
    <2> DEFINE l == Head(toClient)
    <2>1. CASE spc = "auth_wait" /\ l.id # 0 /\ l.verdict = "ok" /\ granted # "yes"
      <3>1. l.id \in 0..4 /\ (\A i : l.id = i => Has(toClient, i)) /\ (Grants(l) => HasGrant(toClient))
        BY <1>1, <1>3, WireTakes DEF Line
      <3>2. l.id # 2 /\ l.id # 4
        BY <1>1, <2>1, <3>1 DEF OkMeansGranted, Grants
      <3>3. l.id # 3
        BY <1>1, <2>1, <3>1 DEF AskedInTurn
      <3>4. l.id = 1
        BY <2>1, <3>1, <3>2, <3>3
      <3>5. conn /\ Has(toClient, 1)
        BY <1>1, <2>1, <3>1, <3>4 DEF TypeOK, LoginPoint
      <3>6. unasked
        BY <1>1, <2>1, <3>5 DEF GreetingInTurn
      <3>7. QED
        BY <1>3, <3>6 DEF Takes
    <2>2. CASE ~(spc = "auth_wait" /\ l.id # 0 /\ l.verdict = "ok" /\ granted # "yes")
      BY <1>1, <1>3, <2>2 DEF Takes
    <2>3. QED
      BY <2>1, <2>2
  <1>4. CASE StratumConnect
    BY <1>4 DEF StratumConnect
  <1>5. CASE StratumAsks
    BY <1>1, <1>5, LoginSent
  <1>6. CASE WorkioSend
    BY <1>1, <1>6, ShareSent
  <1>7. CASE PoolAnswers
    BY <1>1, <1>7, AnswerLine, WireAnswers DEF OneAuth
  <1>8. CASE PoolSays
    BY <1>1, <1>8, SaidLine
  <1>9. QED
    BY <1>1, <1>2, <1>3, <1>4, <1>5, <1>6, <1>7, <1>8, WireSteps

-----------------------------------------------------------------------------
(* The counters. *)

\* Sums are added field by field.
LEMMA AddSums ==
    ASSUME NEW a \in Sums, NEW b \in Sums
    PROVE /\ Add(a, b) \in Sums
          /\ Add(a, b).submit = a.submit + b.submit
          /\ Add(a, b).accept = a.accept + b.accept
          /\ Add(a, b).stale = a.stale + b.stale
          /\ Add(a, b).reject = a.reject + b.reject
          /\ Add(a, b).solved = a.solved + b.solved
  <1> DEFINE F == {"submit", "accept", "stale", "reject", "solved"}
             c == [f \in F |-> a[f] + b[f]]
  <1>1. DOMAIN a = F
    BY DEF Sums
  <1>2. Add(a, b) = c
    BY <1>1 DEF Add
  <1>3. /\ a.submit \in Nat /\ a.accept \in Nat /\ a.stale \in Nat /\ a.reject \in Nat /\ a.solved \in Nat
        /\ b.submit \in Nat /\ b.accept \in Nat /\ b.stale \in Nat /\ b.reject \in Nat /\ b.solved \in Nat
    BY DEF Sums
  <1>4. c = [submit |-> a.submit + b.submit, accept |-> a.accept + b.accept,
             stale |-> a.stale + b.stale, reject |-> a.reject + b.reject,
             solved |-> a.solved + b.solved]
    OBVIOUS
  <1>5. c \in Sums
    BY <1>3, <1>4 DEF Sums
  <1>6. QED
    BY <1>2, <1>4, <1>5

\* No sums are zero sums.
LEMMA ZeroSums ==
    /\ Zero \in Sums
    /\ Zero.submit = 0 /\ Zero.accept = 0 /\ Zero.stale = 0 /\ Zero.reject = 0 /\ Zero.solved = 0
  BY DEF Zero, Sums

\* What share_result adds: one answer with one verdict.
LEMMA CountedOnce ==
    ASSUME TypeOK, StratumCount
    PROVE \E now \in Sums :
          /\ sums' = Add(sums, now)
          /\ accepted_count' = accepted_count + now.accept
          /\ solved_count' = solved_count + now.solved
          /\ now.accept = One(line.verdict = "ok")
          /\ now.submit = 1
          /\ HasVerdict(line) => now.submit = now.accept + now.stale + now.reject
  <1> DEFINE one(b) == IF b THEN 1 ELSE 0
             now == [submit |-> 1, accept |-> one(line.verdict = "ok"), stale |-> one(line.verdict = "job"),
                     reject |-> one(line.verdict = "no"), solved |-> one(Solved(line, my_diff))]
  <1>1. /\ sums' = Add(sums, now)
        /\ accepted_count' = accepted_count + now.accept
        /\ solved_count' = solved_count + now.solved
    BY DEF StratumCount
  <1>2. /\ one(line.verdict = "ok") \in Nat /\ one(line.verdict = "job") \in Nat
        /\ one(line.verdict = "no") \in Nat /\ one(Solved(line, my_diff)) \in Nat
    OBVIOUS
  <1>3. /\ now.submit = 1 /\ now.accept = one(line.verdict = "ok")
        /\ now.stale = one(line.verdict = "job") /\ now.reject = one(line.verdict = "no")
    OBVIOUS
  <1>4. now \in Sums
    BY <1>2 DEF Sums
  <1>5. HasVerdict(line) => now.submit = now.accept + now.stale + now.reject
    BY <1>3 DEF HasVerdict
  <1>6. now.accept = One(line.verdict = "ok")
    BY <1>3 DEF One
  <1> HIDE DEF now
  <1>7. QED
    BY <1>1, <1>3, <1>4, <1>5, <1>6

\* The counters and the reports are changed by share_result and by who reports.
LEMMA CountFrame ==
    ASSUME [Next]_vars
    PROVE \/ UNCHANGED <<sums, accepted_count, solved_count, slock, rpt, rep, reported>>
          \/ StratumCount \/ ReporterCollect \/ ReporterReset
  BY DEF Next, StratumStep, StratumTop, StratumReset, StratumConnect, StratumLoginLost, LoginFails,
         StratumAsks, Send, StratumSubscribed, StratumMethod, StratumAuthorized, StratumExtra,
         StratumLost, StratumAnswer, StratumJudge, WorkioStale, WorkioSlot, WorkioSend,
         WorkioSendFailed, restOfSubmit, restOfSend, ApiSetUrl, PoolAnswers, PoolSays,
         vars, restVars, countVars, repVars

\* ReportsHold.
LEMMA ReportsStep == IInv /\ [Next]_vars => ReportsHold'
  <1> SUFFICES ASSUME IInv, [Next]_vars PROVE ReportsHold'
    OBVIOUS
  <1>1. /\ sums \in Sums /\ rep \in Sums /\ reported \in Sums
        /\ MoreTypes /\ ReportsHold /\ TypeOK
    BY DEF IInv, TypeOK
  <1> DEFINE all == Add(reported, sums)
  <1>2. /\ accepted_count \in Nat /\ solved_count \in Nat
        /\ all.accept = accepted_count /\ all.solved = solved_count
        /\ all.submit = all.accept + all.stale + all.reject
    BY <1>1 DEF MoreTypes, ReportsHold
  <1>3. CASE UNCHANGED <<sums, accepted_count, solved_count, slock, rpt, rep, reported>>
    BY <1>1, <1>3 DEF ReportsHold
  <1>4. CASE StratumCount
    <2>1. PICK now \in Sums :
          /\ sums' = Add(sums, now)
          /\ accepted_count' = accepted_count + now.accept
          /\ solved_count' = solved_count + now.solved
          /\ HasVerdict(line) => now.submit = now.accept + now.stale + now.reject
      BY <1>1, <1>4, CountedOnce
    <2>2. HasVerdict(line) /\ ~slock /\ UNCHANGED <<slock, rpt, rep, reported>>
      BY <1>1, <1>4 DEF StratumCount, MoreTypes, repVars
    <2>3. sums' \in Sums /\ reported' \in Sums
      BY <1>1, <2>1, <2>2, AddSums
    <2> DEFINE next == Add(reported, sums')
    <2>4. /\ next.accept = all.accept + now.accept /\ next.solved = all.solved + now.solved
          /\ next.submit = all.submit + now.submit /\ next.stale = all.stale + now.stale
          /\ next.reject = all.reject + now.reject
      <3>1. /\ next.submit = reported.submit + sums'.submit /\ next.accept = reported.accept + sums'.accept
            /\ next.stale = reported.stale + sums'.stale /\ next.reject = reported.reject + sums'.reject
            /\ next.solved = reported.solved + sums'.solved
        BY <1>1, <2>3, AddSums
      <3>2. /\ sums'.submit = sums.submit + now.submit /\ sums'.accept = sums.accept + now.accept
            /\ sums'.stale = sums.stale + now.stale /\ sums'.reject = sums.reject + now.reject
            /\ sums'.solved = sums.solved + now.solved
        BY <1>1, <2>1, AddSums
      <3>3. /\ all.submit = reported.submit + sums.submit /\ all.accept = reported.accept + sums.accept
            /\ all.stale = reported.stale + sums.stale /\ all.reject = reported.reject + sums.reject
            /\ all.solved = reported.solved + sums.solved
        BY <1>1, AddSums
      <3> HIDE DEF next, all
      <3>4. QED
        BY <1>1, <3>1, <3>2, <3>3 DEF Sums
    <2>5. all \in Sums
      BY <1>1, AddSums
    <2> HIDE DEF next, all
    <2>6. /\ next.accept = accepted_count' /\ next.solved = solved_count'
          /\ next.submit = next.accept + next.stale + next.reject
      BY <1>2, <2>1, <2>2, <2>4, <2>5 DEF Sums
    <2>7. next = Add(reported', sums')
      BY <2>2 DEF next
    <2>8. (rpt' = "idle" => ~slock') /\ rpt' # "reset"
      BY <1>1, <2>2 DEF ReportsHold
    <2>9. QED
      BY <2>6, <2>7, <2>8 DEF ReportsHold
  <1>5. CASE ReporterCollect
    BY <1>1, <1>5 DEF ReporterCollect, ReportsHold, countVars
  <1>6. CASE ReporterReset
    <2>1. /\ reported' = Add(reported, sums) /\ sums' = Zero /\ rpt' = "idle" /\ ~slock'
          /\ UNCHANGED <<accepted_count, solved_count>>
      BY <1>1, <1>6 DEF ReporterReset, ReportsHold
    <2>2. all \in Sums
      BY <1>1, AddSums
    <2>3. reported' = all
      BY <2>1
    <2> HIDE DEF all
    <2>4. LET next == Add(all, Zero) IN
          /\ next.accept = all.accept + 0 /\ next.solved = all.solved + 0
          /\ next.submit = all.submit + 0 /\ next.stale = all.stale + 0
          /\ next.reject = all.reject + 0
      BY <2>2, AddSums, ZeroSums
    <2>5. LET next == Add(all, Zero) IN
          /\ next.accept = accepted_count' /\ next.solved = solved_count'
          /\ next.submit = next.accept + next.stale + next.reject
      BY <1>2, <2>1, <2>2, <2>4 DEF Sums
    <2>6. QED
      BY <2>1, <2>3, <2>5 DEF ReportsHold
  <1>7. QED
    BY <1>3, <1>4, <1>5, <1>6, CountFrame

\* UrlIsCurrent.
LEMMA UrlStep == IInv /\ [Next]_vars => UrlIsCurrent'
  <1> SUFFICES ASSUME IInv, [Next]_vars PROVE UrlIsCurrent'
    OBVIOUS
  <1> USE DEF UrlIsCurrent, urlVars, restVars
  <1>1. UrlIsCurrent
    BY DEF IInv
  <1>2. CASE StratumTop
    BY <1>1, <1>2 DEF StratumTop
  <1>3. CASE StratumReset
    BY <1>3 DEF StratumReset
  <1>4. CASE StratumConnect \/ StratumLoginLost \/ StratumAsks
    BY <1>1, <1>4 DEF StratumConnect, StratumLoginLost, LoginFails, StratumAsks, Send
  <1>5. CASE StratumSubscribed
    BY <1>1, <1>5 DEF StratumSubscribed, LoginFails
  <1>6. CASE StratumMethod
    BY <1>1, <1>6 DEF StratumMethod, Method
  <1>7. CASE StratumAuthorized \/ StratumExtra
    BY <1>1, <1>7 DEF StratumAuthorized, StratumExtra, LoginFails
  <1>8. CASE StratumLost \/ StratumAnswer
    BY <1>1, <1>8 DEF StratumLost, StratumAnswer
  <1>9. CASE StratumJudge \/ StratumCount
    BY <1>1, <1>9 DEF StratumJudge, StratumCount
  <1>10. CASE ApiSetUrl
    BY <1>1, <1>10 DEF ApiSetUrl
  <1>11. CASE \/ WorkioStale \/ WorkioSlot \/ WorkioSend \/ WorkioSendFailed
              \/ ReporterCollect \/ ReporterReset
    BY <1>1, <1>11 DEF WorkioStale, WorkioSlot, WorkioSend, WorkioSendFailed, restOfSubmit,
                      restOfSend, ReporterCollect, ReporterReset
  <1>12. CASE PoolAnswers \/ PoolSays
    BY <1>1, <1>12 DEF PoolAnswers, PoolSays
  <1>13. CASE UNCHANGED vars
    BY <1>1, <1>13 DEF vars
  <1>14. QED
    BY <1>2, <1>3, <1>4, <1>5, <1>6, <1>7, <1>8, <1>9, <1>10, <1>11, <1>12, <1>13
       DEF Next, StratumStep

-----------------------------------------------------------------------------
(* The accepted shares, and the slot. *)

\* The two counts of accepted shares, and the answer at share_result.
LEMMA AcceptFrame ==
    ASSUME [Next]_vars
    PROVE /\ UNCHANGED accepted_count \/ StratumCount
          /\ UNCHANGED accepted_by_pool \/ PoolAnswers
          /\ UNCHANGED line \/ StratumAnswer \/ StratumCount
  <1>1. UNCHANGED accepted_count \/ StratumCount
    BY CountFrame DEF ReporterCollect, ReporterReset, countVars
  <1>2. UNCHANGED accepted_by_pool \/ PoolAnswers
    BY DEF Next, StratumStep, StratumTop, StratumReset, StratumConnect, StratumLoginLost, LoginFails,
           StratumAsks, Send, StratumSubscribed, StratumMethod, StratumAuthorized, StratumExtra,
           StratumLost, StratumAnswer, StratumJudge, StratumCount, WorkioStale, WorkioSlot, WorkioSend,
           WorkioSendFailed, restOfSubmit, restOfSend, ApiSetUrl, ReporterCollect, ReporterReset,
           PoolSays, vars, restVars
  <1>3. UNCHANGED line \/ StratumAnswer \/ StratumCount
    BY DEF Next, StratumStep, StratumTop, StratumReset, StratumConnect, StratumLoginLost, LoginFails,
           StratumAsks, Send, StratumSubscribed, StratumMethod, StratumAuthorized, StratumExtra,
           StratumLost, StratumJudge, WorkioStale, WorkioSlot, WorkioSend, WorkioSendFailed, restOfSubmit,
           restOfSend, ApiSetUrl, ReporterCollect, ReporterReset, PoolAnswers, PoolSays, vars
  <1>4. QED
    BY <1>1, <1>2, <1>3

\* The shares of workio.
LEMMA ShareFrame ==
    ASSUME [Next]_vars
    PROVE UNCHANGED shareVars \/ WorkioStale \/ WorkioSlot \/ WorkioSend \/ WorkioSendFailed
  BY DEF Next, StratumStep, StratumTop, StratumReset, StratumConnect, StratumLoginLost, LoginFails,
         StratumAsks, Send, StratumSubscribed, StratumMethod, StratumAuthorized, StratumExtra,
         StratumLost, StratumAnswer, StratumJudge, StratumCount, ApiSetUrl, ReporterCollect,
         ReporterReset, PoolAnswers, PoolSays, vars, restVars

\* An answer goes to share_result from the main loop only.
LEMMA AnswerTaken ==
    ASSUME TypeOK, StratumAnswer
    PROVE /\ Takes
          /\ spc = "recv" /\ spc' \in {"judge", "top"}
          /\ spc' = "judge" => line' = Head(toClient) /\ Head(toClient).id = 4
  <1>1. Takes
    BY DEF StratumAnswer, Takes, connVars
  <1>2. Head(toClient) \in Line
    BY <1>1, WireTakes
  <1>3. Head(toClient).id \in 0..4
    BY <1>2 DEF Line
  <1>4. QED
    BY <1>1, <1>3 DEF StratumAnswer, IsShareAnswer

\* Who leaves the main loop for share_result, and who goes on to the counters.
LEMMA JudgeFrame ==
    ASSUME [Next]_vars
    PROVE /\ spc' = "judge" => UNCHANGED <<spc, line>> \/ StratumAnswer
          /\ spc' = "count" => UNCHANGED line /\ spc \in {"judge", "count"}
  <1>1. CASE StratumStep
    BY <1>1 DEF StratumStep, StratumTop, StratumReset, StratumConnect, StratumLoginLost, LoginFails,
         StratumAsks, Send, StratumSubscribed, StratumMethod, Method, StratumAuthorized, StratumExtra,
         StratumLost, StratumAnswer, StratumJudge, StratumCount
  <1>2. CASE ~StratumStep
    BY <1>2 DEF Next, WorkioStale, WorkioSlot, WorkioSend, WorkioSendFailed, restOfSubmit,
         restOfSend, ApiSetUrl, ReporterCollect, ReporterReset, PoolAnswers,
         PoolSays, vars
  <1>3. QED
    BY <1>1, <1>2

\* Fewer on the wire and at share_result together are below the same bound.
LEMMA SumBelow ==
    \A a, n, p, m, q, b \in Nat :
       /\ m <= n /\ q <= p => m + q <= n + p
       /\ m + q <= n + p /\ a + n + p <= b => a + m + q <= b
  OBVIOUS

\* AcceptedAreCounted.
LEMMA AcceptedStep == IInv /\ [Next]_vars => AcceptedAreCounted'
  <1> SUFFICES ASSUME IInv, [Next]_vars PROVE AcceptedAreCounted'
    OBVIOUS
  <1> DEFINE n == OkShares(toClient)
             p == IF spc \in {"judge", "count"} /\ line.verdict = "ok" THEN 1 ELSE 0
  <1>1. /\ TypeOK /\ MoreTypes /\ Offline
        /\ accepted_count + n + p <= accepted_by_pool
    BY DEF IInv, AcceptedAreCounted, Pending, One
  <1>2. accepted_count' + n' + p' <= accepted_by_pool' => AcceptedAreCounted'
    BY DEF AcceptedAreCounted, Pending, One
  <1>3. n \in Nat /\ accepted_count \in Nat /\ accepted_by_pool \in Nat /\ toClient \in Seq(Line)
    BY <1>1, OkSharesType DEF TypeOK, MoreTypes
  <1>4. CASE StratumAnswer
    <2>1. /\ Takes /\ spc = "recv" /\ spc' \in {"judge", "top"}
          /\ spc' = "judge" => line' = Head(toClient) /\ Head(toClient).id = 4
      BY <1>1, <1>4, AnswerTaken
    <2>2. n = n' + One(OkShare(Head(toClient))) /\ n' \in Nat
      BY <1>3, <2>1, OkSharesTail, OkSharesType, HeadTailProperties DEF Takes
    <2>3. p' <= One(OkShare(Head(toClient))) /\ p' \in 0..1 /\ p = 0
      BY <2>1 DEF One, OkShare
    <2>4. UNCHANGED <<accepted_count, accepted_by_pool>>
      BY <1>4 DEF StratumAnswer, restVars, countVars
    <2> HIDE DEF n, p
    <2>5. n' + p' <= n + p
      <3> DEFINE h == One(OkShare(Head(toClient)))
      <3>1. h \in Nat
        BY DEF One
      <3> HIDE DEF h
      <3>2. QED
        BY <1>3, <2>2, <2>3, <3>1 DEF h
    <2>6. n' \in Nat /\ p' \in Nat /\ p \in Nat
      BY <2>2, <2>3
    <2>7. QED
      BY <1>1, <1>2, <1>3, <2>4, <2>5, <2>6, SumBelow
  <1>5. CASE StratumCount
    <2>1. UNCHANGED <<toClient, accepted_by_pool>> /\ spc = "count" /\ spc' = "top"
      BY <1>5 DEF StratumCount, poolVars
    <2>2. accepted_count' = accepted_count + p
      BY <1>1, <1>5, <2>1, CountedOnce DEF One
    <2>3. p' = 0 /\ n' = n /\ p \in 0..1
      BY <2>1
    <2> HIDE DEF n, p
    <2>4. QED
      BY <1>1, <1>2, <1>3, <2>1, <2>2, <2>3
  <1>6. CASE PoolAnswers
    <2>1. PICK l \in Line :
             /\ toClient' = Append(toClient, l)
             /\ accepted_by_pool' = accepted_by_pool + One(OkShare(l))
      BY <1>1, <1>3, <1>6, AnswerLine
    <2>2. UNCHANGED <<spc, line, accepted_count>>
      BY <1>6 DEF PoolAnswers, countVars
    <2>3. n' = n + One(OkShare(l)) /\ One(OkShare(l)) \in Nat
      BY <1>3, <2>1, OkSharesAppend DEF One
    <2>4. p' = p /\ p \in 0..1
      BY <2>2
    <2> HIDE DEF n, p
    <2>5. QED
      BY <1>1, <1>2, <1>3, <2>1, <2>2, <2>3, <2>4
  <1>7. CASE ~(StratumAnswer \/ StratumCount \/ PoolAnswers)
    <2>1. UNCHANGED <<accepted_count, accepted_by_pool, line>>
      BY <1>7, AcceptFrame
    <2>2. p' <= p /\ p' \in 0..1 /\ p \in 0..1
      BY <1>7, <2>1, JudgeFrame
    <2>3. n' \in Nat /\ n' <= n
      <3>1. CASE UNCHANGED toClient
        BY <1>3, <3>1
      <3>2. CASE Drops \/ StratumConnect
        BY <1>3, <3>2, WireEmpty, EmptyQueue
      <3>3. CASE Takes
        <4>1. n = n' + One(OkShare(Head(toClient))) /\ n' \in Nat
          BY <1>3, <3>3, OkSharesTail, OkSharesType, HeadTailProperties DEF Takes
        <4>2. One(OkShare(Head(toClient))) \in Nat
          BY DEF One
        <4> HIDE DEF n
        <4>3. QED
          BY <4>1, <4>2
      <3>4. CASE PoolSays
        <4>1. PICK l \in Line : toClient' = Append(toClient, l) /\ l.id = 0
          BY <3>4, SaidLine
        <4>2. n' = n + One(OkShare(l))
          BY <1>3, <4>1, OkSharesAppend
        <4>3. One(OkShare(l)) = 0
          BY <4>1 DEF One, OkShare
        <4> HIDE DEF n
        <4>4. QED
          BY <1>3, <4>2, <4>3
      <3>5. UNCHANGED wireVars \/ Passes \/ StratumAsks \/ WorkioSend => UNCHANGED toClient
        BY LoginSent, ShareSent, <1>1 DEF wireVars, Passes, poolVars
      <3>6. QED
        BY <1>1, <1>7, <3>1, <3>2, <3>3, <3>4, <3>5, WireSteps
    <2> HIDE DEF n, p
    <2>4. n' \in Nat /\ p' \in Nat /\ p \in Nat
      BY <2>2, <2>3
    <2>5. n' + p' <= n + p
      BY <1>3, <2>2, <2>3, <2>4, SumBelow
    <2>6. QED
      BY <1>1, <1>2, <1>3, <2>1, <2>4, <2>5, SumBelow
  <1>8. QED
    BY <1>4, <1>5, <1>6, <1>7

\* SlotIsOfLastShare.
LEMMA SlotStep == IInv /\ [Next]_vars => SlotIsOfLastShare'
  <1> SUFFICES ASSUME IInv, [Next]_vars PROVE SlotIsOfLastShare'
    OBVIOUS
  <1>1. TypeOK /\ MoreTypes /\ Offline /\ SlotIsOfLastShare
    BY DEF IInv
  <1>2. CASE WorkioSlot
    BY <1>2 DEF WorkioSlot, SlotIsOfLastShare
  <1>3. CASE WorkioStale
    <2>1. CASE wpc = "again" \/ unsent
      BY <1>3, <2>1 DEF WorkioStale, SlotIsOfLastShare
    <2>2. CASE wpc # "again" /\ ~unsent
      <3>1. /\ wpc = "idle" /\ wpc' = "idle" /\ ~unsent'
            /\ UNCHANGED <<sharediff, spc, toPool, toClient, line>>
        BY <1>3, <2>2 DEF WorkioStale, Submits, restOfSubmit, poolVars
      <3>2. QED
        BY <1>1, <2>2, <3>1 DEF SlotIsOfLastShare
    <2>3. QED
      BY <2>1, <2>2
  <1>4. CASE WorkioSend
    <2> DEFINE r == [id |-> 4, diff |-> share]
    <2>1. r \in Request /\ r.id = 4 /\ r.diff = share
      BY <1>1 DEF TypeOK, Request
    <2>2. toPool' = Append(toPool, r) /\ wpc' = "idle" /\ sharediff' = share
      BY <1>1, <1>4 DEF WorkioSend, restOfSend, SlotIsOfLastShare
    <2> HIDE DEF r
    <2>3. LastIs(toPool', share) /\ Has(toPool', 4)
      BY <1>1, <2>1, <2>2, WireSends
    <2>4. QED
      BY <2>2, <2>3 DEF SlotIsOfLastShare
  <1>5. CASE WorkioSendFailed
    BY <1>5 DEF WorkioSendFailed, SlotIsOfLastShare
  <1>6. CASE ~(WorkioStale \/ WorkioSlot \/ WorkioSend \/ WorkioSendFailed)
    <2> DEFINE d == sharediff
    <2>1. UNCHANGED <<wpc, share, sharediff, unsent>>
      BY <1>6, ShareFrame DEF shareVars
    <2>2. /\ wpc = "send" => sharediff = share
          /\ wpc = "ended" => unsent
          /\ wpc = "idle" /\ ~unsent =>
                /\ LastIs(toPool, d)
                /\ ~Has(toPool, 4) => LastIs(toClient, d)
                /\ spc = "judge" /\ ~Has(toPool, 4) /\ ~Has(toClient, 4) => line.diff = d
      BY <1>1 DEF SlotIsOfLastShare
    <2> DEFINE Goal == /\ LastIs(toPool', d)
                       /\ ~Has(toPool', 4) => LastIs(toClient', d)
                       /\ spc' = "judge" /\ ~Has(toPool', 4) /\ ~Has(toClient', 4) => line'.diff = d
    <2>3. SUFFICES ASSUME wpc = "idle", ~unsent PROVE Goal
      BY <2>1, <2>2 DEF SlotIsOfLastShare
    <2>4. /\ LastIs(toPool, d)
          /\ ~Has(toPool, 4) => LastIs(toClient, d)
          /\ spc = "judge" /\ ~Has(toPool, 4) /\ ~Has(toClient, 4) => line.diff = d
      BY <2>2, <2>3
    <2> HIDE DEF d
    <2>5. CASE UNCHANGED wireVars
      <3>1. UNCHANGED <<spc, toPool, toClient>>
        BY <2>5 DEF wireVars, poolVars
      <3>2. spc' = "judge" => UNCHANGED line
        BY <3>1, JudgeFrame DEF StratumAnswer
      <3>3. QED
        BY <2>4, <3>1, <3>2
    <2>6. CASE Drops \/ StratumConnect
      <3>1. spc' # "judge"
        BY <2>6 DEF Drops, StratumConnect
      <3>2. QED
        BY <2>6, <3>1, WireEmpty
    <2>7. CASE Passes
      BY <2>4, <2>7 DEF Passes, poolVars
    <2>8. CASE StratumAsks
      <3>1. PICK r \in Request :
               /\ toPool' = Append(toPool, r) /\ r.id # 4
               /\ spc' # "judge" /\ UNCHANGED toClient
        BY <2>8, LoginSent
      <3>2. LastIs(toPool', d) /\ (Has(toPool', 4) <=> Has(toPool, 4))
        BY <1>1, <2>4, <3>1, WireSends
      <3>3. QED
        BY <2>4, <3>1, <3>2
    <2>9. CASE Takes
      <3> DEFINE l == Head(toClient)
      <3>1. /\ LastIs(toClient, d) => LastIs(toClient', d)
            /\ LastIs(toClient, d) /\ l.id = 4 /\ ~Has(toClient', 4) => l.diff = d
        BY <1>1, <2>9, WireTakes
      <3>2. UNCHANGED toPool
        BY <2>9 DEF Takes
      <3>3. spc' = "judge" => line' = l /\ l.id = 4
        <4>1. spc' = "judge" => spc # "judge"
          BY <2>9 DEF Takes
        <4>2. spc' = "judge" => StratumAnswer
          BY <4>1, JudgeFrame
        <4>3. QED
          BY <1>1, <4>2, AnswerTaken
      <3> HIDE DEF l
      <3>4. QED
        BY <2>4, <3>1, <3>2, <3>3
    <2>10. CASE PoolAnswers
      <3> DEFINE r == Head(toPool)
      <3>1. PICK l \in Line :
               /\ toPool # <<>> /\ toPool' = Tail(toPool)
               /\ toClient' = Append(toClient, l)
               /\ l.id = r.id /\ l.diff = r.diff
        BY <1>1, <2>10, AnswerLine
      <3>2. UNCHANGED <<spc, line>>
        BY <2>10 DEF PoolAnswers
      <3>3. /\ LastIs(toPool', d)
            /\ Has(toPool, 4) <=> r.id = 4 \/ Has(toPool', 4)
            /\ r.id = 4 /\ ~Has(toPool', 4) => r.diff = d
        BY <1>1, <2>4, <3>1, WireAnswers
      <3>4. /\ Has(toClient', 4) <=> Has(toClient, 4) \/ l.id = 4
            /\ l.id # 4 /\ LastIs(toClient, d) => LastIs(toClient', d)
            /\ l.id = 4 /\ l.diff = d => LastIs(toClient', d)
        BY <1>1, <3>1, WireSays
      <3> HIDE DEF r
      <3>5. QED
        BY <2>4, <3>1, <3>2, <3>3, <3>4
    <2>11. CASE PoolSays
      <3>1. PICK l \in Line : /\ toClient' = Append(toClient, l) /\ l.id = 0
                              /\ UNCHANGED <<spc, toPool>>
        BY <2>11, SaidLine
      <3>2. UNCHANGED line
        BY <2>11 DEF PoolSays
      <3>3. /\ Has(toClient', 4) <=> Has(toClient, 4)
            /\ LastIs(toClient, d) => LastIs(toClient', d)
        BY <1>1, <3>1, WireSays
      <3>4. QED
        BY <2>4, <3>1, <3>2, <3>3
    <2>12. QED
      BY <1>1, <1>6, <2>5, <2>6, <2>7, <2>8, <2>9, <2>10, <2>11, WireSteps
  <1>7. QED
    BY <1>2, <1>3, <1>4, <1>5, <1>6

-----------------------------------------------------------------------------
(* Types. *)

\* The stratum thread and the connection.
LEMMA WireType ==
    ASSUME IInv, [Next]_vars
    PROVE /\ conn' \in BOOLEAN /\ retry' \in BOOLEAN /\ believed' \in BOOLEAN
          /\ spc' \in {"top", "reset", "recv", "judge", "count"} \cup LoginPoint
          /\ spc' \in LoginPoint \ {"connect"} => conn'
          /\ toPool' \in Seq(Request) /\ toClient' \in Seq(Line)
          /\ greeted' \in BOOLEAN /\ unasked' \in BOOLEAN
          /\ Judged(toClient')
  <1> USE DEF LoginPoint, connVars, poolVars
  <1> DEFINE Types == /\ conn \in BOOLEAN /\ retry \in BOOLEAN /\ believed \in BOOLEAN
                      /\ spc \in {"top", "reset", "recv", "judge", "count"} \cup LoginPoint
                      /\ spc \in LoginPoint \ {"connect"} => conn
                      /\ toPool \in Seq(Request) /\ toClient \in Seq(Line)
                      /\ greeted \in BOOLEAN /\ unasked \in BOOLEAN
                      /\ Judged(toClient)
  <1>1. TypeOK /\ Offline /\ Types
    BY DEF IInv, TypeOK, MoreTypes
  <1>2. SUFFICES Types'
    OBVIOUS
  <1>3. CASE UNCHANGED wireVars
    BY <1>1, <1>3 DEF wireVars
  <1>4. CASE Drops
    BY <1>1, <1>4, WireEmpty, EmptySeq DEF Drops
  <1>5. CASE Passes
    BY <1>1, <1>5 DEF Passes
  <1>6. CASE Takes
    <2>1. toClient' \in Seq(Line) /\ Judged(toClient')
      BY <1>1, <1>6, WireTakes, HeadTailProperties DEF Takes
    <2>2. conn
      BY <1>1, <1>6 DEF Takes, Offline
    <2>3. QED
      BY <1>1, <1>6, <2>1, <2>2 DEF Takes
  <1>7. CASE StratumConnect
    <2>1. toPool' = <<>> /\ toClient' = <<>> /\ Judged(toClient')
      BY <1>7, WireEmpty
    <2>2. QED
      BY <1>7, <2>1, EmptySeq DEF StratumConnect
  <1>8. CASE StratumAsks
    <2>1. PICK r \in Request :
             /\ toPool' = Append(toPool, r)
             /\ spc \in {"subscribe", "auth", "extra"}
             /\ spc' \in {"subscribe_wait", "auth_wait", "extra_wait"}
             /\ UNCHANGED <<conn, retry, believed, toClient, greeted, granted, unasked>>
      BY <1>8, LoginSent
    <2>2. toPool' \in Seq(Request)
      BY <1>1, <2>1, AppendProperties
    <2>3. QED
      BY <1>1, <2>1, <2>2
  <1>9. CASE WorkioSend
    <2>1. UNCHANGED <<conn, retry, believed, spc, toClient, greeted, granted, unasked>>
      BY <1>1, <1>9, ShareSent
    <2>2. toPool' \in Seq(Request)
      BY <1>1, <1>9, ShareSent, AppendProperties
    <2>3. QED
      BY <1>1, <2>1, <2>2
  <1>10. CASE PoolAnswers
    <2>1. PICK l \in Line :
             /\ toPool # <<>> /\ toPool' = Tail(toPool)
             /\ toClient' = Append(toClient, l) /\ HasVerdict(l)
             /\ greeted' = (greeted \/ Head(toPool).id = 1)
             /\ unasked' = (unasked \/ (Head(toPool).id = 4 /\ granted = "none"))
             /\ UNCHANGED <<conn, retry, believed, spc>>
      BY <1>1, <1>10, AnswerLine
    <2>2. toPool' \in Seq(Request)
      BY <1>1, <2>1, HeadTailProperties
    <2>3. toClient' \in Seq(Line) /\ Judged(toClient')
      BY <1>1, <2>1, WireSays, AppendProperties
    <2>4. QED
      BY <1>1, <2>1, <2>2, <2>3
  <1>11. CASE PoolSays
    <2>1. PICK l \in Line :
             /\ toClient' = Append(toClient, l) /\ l.id = 0
             /\ unasked' = (unasked \/ ~greeted)
             /\ UNCHANGED <<connVars, spc, toPool, greeted, granted>>
      BY <1>11, SaidLine
    <2>2. toClient' \in Seq(Line) /\ Judged(toClient')
      BY <1>1, <2>1, WireSays, AppendProperties
    <2>3. QED
      BY <1>1, <2>1, <2>2
  <1>12. QED
    BY <1>1, <1>3, <1>4, <1>5, <1>6, <1>7, <1>8, <1>9, <1>10, <1>11, WireSteps

\* The answer at share_result, and the difficulty it is judged with.
LEMMA LineType ==
    ASSUME IInv, [Next]_vars
    PROVE /\ line' \in Line /\ my_diff' \in Diff \cup {0}
          /\ spc' \in {"judge", "count"} => HasVerdict(line')
  <1>1. /\ TypeOK /\ MoreTypes /\ line \in Line
        /\ my_diff \in Diff \cup {0} /\ sharediff \in Diff \cup {0}
        /\ spc \in {"judge", "count"} => HasVerdict(line)
    BY DEF IInv, TypeOK, MoreTypes
  <1>2. my_diff' \in Diff \cup {0}
    <2>1. CASE StratumStep
      BY <1>1, <2>1 DEF StratumStep, StratumTop, StratumReset, StratumConnect, StratumLoginLost,
         LoginFails, StratumAsks, Send, StratumSubscribed, StratumMethod, StratumAuthorized,
         StratumExtra, StratumLost, StratumAnswer, StratumJudge, StratumCount
    <2>2. CASE ~StratumStep
      BY <1>1, <2>2 DEF Next, WorkioStale, WorkioSlot, WorkioSend, WorkioSendFailed, restOfSubmit,
         restOfSend, ApiSetUrl, ReporterCollect, ReporterReset,
         PoolAnswers, PoolSays, vars
    <2>3. QED
      BY <2>1, <2>2
  <1>3. CASE StratumAnswer
    <2>1. /\ Takes /\ spc' \in {"judge", "top"}
          /\ spc' = "judge" => line' = Head(toClient) /\ Head(toClient).id = 4
          /\ spc' = "top" => line' = line
      BY <1>1, <1>3, AnswerTaken DEF StratumAnswer
    <2>2. Head(toClient) \in Line /\ (Head(toClient).id = 4 => HasVerdict(Head(toClient)))
      BY <1>1, <2>1, WireTakes DEF MoreTypes
    <2>3. QED
      BY <1>1, <1>2, <2>1, <2>2
  <1>4. CASE StratumCount
    <2>1. line' = NoLine /\ spc' = "top"
      BY <1>4 DEF StratumCount
    <2>2. NoLine \in Line
      BY DEF NoLine, Line
    <2>3. QED
      BY <1>2, <2>1, <2>2
  <1>5. CASE ~(StratumAnswer \/ StratumCount)
    <2>1. UNCHANGED line /\ (spc' \in {"judge", "count"} => spc \in {"judge", "count"})
      BY <1>5, AcceptFrame, JudgeFrame
    <2>2. QED
      BY <1>1, <1>2, <2>1
  <1>6. QED
    BY <1>3, <1>4, <1>5

\* The addresses, and the shares.
LEMMA UrlType ==
    ASSUME IInv, [Next]_vars
    PROVE url' \in Pool \cup {Elsewhere} /\ rpc_url' \in Pool
  <1> USE DEF urlVars, restVars
  <1>1. url \in Pool \cup {Elsewhere} /\ rpc_url \in Pool
    BY DEF IInv, TypeOK
  <1>2. CASE StratumMethod
    BY <1>1, <1>2 DEF StratumMethod, Method
  <1>3. CASE StratumStep /\ ~StratumMethod
    BY <1>1, <1>3 DEF StratumStep, StratumTop, StratumReset, StratumConnect, StratumLoginLost, LoginFails,
         StratumAsks, Send, StratumSubscribed, StratumAuthorized, StratumExtra,
         StratumLost, StratumAnswer, StratumJudge, StratumCount
  <1>4. CASE ~StratumStep
    BY <1>1, <1>4 DEF Next, WorkioStale, WorkioSlot, WorkioSend, WorkioSendFailed, restOfSubmit,
         restOfSend, ApiSetUrl, ReporterCollect, ReporterReset,
         PoolAnswers, PoolSays, vars
  <1>5. QED
    BY <1>2, <1>3, <1>4

LEMMA ShareType ==
    ASSUME IInv, [Next]_vars
    PROVE /\ wpc' \in {"idle", "send", "again", "ended"} /\ unsent' \in BOOLEAN
          /\ share' \in Diff \cup {0} /\ sharediff' \in Diff \cup {0}
  <1>1. /\ wpc \in {"idle", "send", "again", "ended"} /\ unsent \in BOOLEAN
        /\ share \in Diff \cup {0} /\ sharediff \in Diff \cup {0}
    BY DEF IInv, TypeOK
  <1>2. QED
    BY <1>1, ShareFrame DEF shareVars, Submits, WorkioStale, WorkioSlot, WorkioSend, WorkioSendFailed,
                            restOfSubmit, restOfSend

\* The counters and the reports.
LEMMA CountType ==
    ASSUME IInv, [Next]_vars
    PROVE /\ sums' \in Sums /\ rep' \in Sums /\ reported' \in Sums
          /\ accepted_count' \in Nat /\ solved_count' \in Nat /\ accepted_by_pool' \in Nat
          /\ rpt' \in {"idle", "reset"}
  <1>1. /\ sums \in Sums /\ rep \in Sums /\ reported \in Sums /\ TypeOK
        /\ accepted_count \in Nat /\ solved_count \in Nat /\ accepted_by_pool \in Nat
        /\ rpt \in {"idle", "reset"}
    BY DEF IInv, TypeOK, MoreTypes
  <1>2. accepted_by_pool' \in Nat
    <2>1. CASE PoolAnswers
      BY <1>1, <2>1 DEF PoolAnswers
    <2>2. QED
      BY <1>1, <2>1, AcceptFrame
  <1>3. CASE StratumCount
    <2>1. PICK now \in Sums :
          /\ sums' = Add(sums, now)
          /\ accepted_count' = accepted_count + now.accept
          /\ solved_count' = solved_count + now.solved
      BY <1>1, <1>3, CountedOnce
    <2>2. now.accept \in Nat /\ now.solved \in Nat
      BY DEF Sums
    <2>3. sums' \in Sums
      BY <1>1, <2>1, AddSums
    <2>4. UNCHANGED <<rpt, rep, reported>>
      BY <1>3 DEF StratumCount, repVars
    <2>5. QED
      BY <1>1, <1>2, <2>1, <2>2, <2>3, <2>4
  <1>4. CASE ReporterCollect
    BY <1>1, <1>2, <1>4 DEF ReporterCollect, countVars
  <1>5. CASE ReporterReset
    <2>1. reported' = Add(reported, rep) /\ sums' = Zero /\ rep' = Zero /\ rpt' = "idle"
          /\ UNCHANGED <<accepted_count, solved_count>>
      BY <1>5 DEF ReporterReset
    <2>2. reported' \in Sums /\ Zero \in Sums
      BY <1>1, <2>1, AddSums, ZeroSums
    <2>3. QED
      BY <1>1, <1>2, <2>1, <2>2
  <1>6. QED
    BY <1>1, <1>2, <1>3, <1>4, <1>5, CountFrame

\* TypeOK and the rest of the types.
LEMMA TypeStep == IInv /\ [Next]_vars => TypeOK' /\ MoreTypes'
  <1> SUFFICES ASSUME IInv, [Next]_vars PROVE TypeOK' /\ MoreTypes'
    OBVIOUS
  <1>1. TypeOK'
    <2>1. {share', sharediff', my_diff'} \subseteq Diff \cup {0}
      BY LineType, ShareType
    <2>2. \A s \in {sums', rep', reported'} : s \in Sums
      BY CountType
    <2>3. QED
      BY <2>1, <2>2, WireType, LineType, UrlType, ShareType DEF TypeOK
  <1>2. MoreTypes'
    BY WireType, LineType, CountType DEF MoreTypes
  <1>3. QED
    BY <1>1, <1>2

-----------------------------------------------------------------------------
(* The invariant holds. *)

\* It holds in the initial state.
LEMMA InitInv == Init => IInv
  <1> SUFFICES ASSUME Init PROVE IInv
    OBVIOUS
  <1>1. toPool = <<>> /\ toClient = <<>>
    BY DEF Init
  <1>2. <<>> \in Seq(Request) /\ <<>> \in Seq(Line)
    BY EmptySeq
  <1>3. NoLine \in Line
    BY DEF NoLine, Line
  <1>4. TypeOK
    BY <1>1, <1>2, <1>3, ZeroSums, StratumSessionAssumption DEF Init, TypeOK, LoginPoint
  <1>5. MoreTypes
    BY <1>1, EmptyQueue DEF Init, MoreTypes
  <1>6. Offline /\ AskedInTurn /\ OneAuth /\ OkMeansGranted /\ GreetingInTurn
    BY <1>1, EmptyQueue DEF Init, Offline, AskedInTurn, OneAuth, OkMeansGranted, GreetingInTurn
  <1>7. RefusalMissedOnlyByShift /\ UrlIsCurrent
    BY DEF Init, RefusalMissedOnlyByShift, UrlIsCurrent
  <1>8. AcceptedAreCounted
    BY <1>1, EmptyQueue DEF Init, AcceptedAreCounted, Pending, One
  <1>9. SlotIsOfLastShare
    BY <1>1, EmptyQueue DEF Init, SlotIsOfLastShare
  <1>10. ReportsHold
    BY ZeroSums, AddSums DEF Init, ReportsHold
  <1>11. QED
    BY <1>4, <1>5, <1>6, <1>7, <1>8, <1>9, <1>10 DEF IInv

\* Every step keeps it.
LEMMA StepInv == IInv /\ [Next]_vars => IInv'
  BY TypeStep, OfflineStep, AskedStep, OneAuthStep, GrantedStep, GreetingStep, RefusalStep,
     AcceptedStep, SlotStep, ReportsStep, UrlStep DEF IInv

\* IInv is an invariant of the session.
THEOREM Invariance == Safety => []IInv
  <1>1. Init => IInv
    BY InitInv
  <1>2. IInv /\ [Next]_vars => IInv'
    BY StepInv
  <1>3. QED
    BY <1>1, <1>2, PTL DEF Safety

\* Every variable of the session has the type the code declares for it, whatever
\* the pool says.
THEOREM TypeCorrect == Safety => []TypeOK
  <1>1. IInv => TypeOK
    BY DEF IInv
  <1>2. QED
    BY <1>1, Invariance, PTL

\* A refused authorization is taken for a granted one only if a line nobody
\* waited for shifted the answers of the login (stratum_subscribe and
\* stratum_authorize match them by order).
THEOREM RefusalSafe == Safety => []RefusalMissedOnlyByShift
  <1>1. IInv => RefusalMissedOnlyByShift
    BY DEF IInv
  <1>2. QED
    BY <1>1, Invariance, PTL

\* The program never counts more accepted shares than the pool has accepted,
\* however late the answers of the login come (std_stratum_handle_response).
THEOREM AcceptedSafe == Safety => []AcceptedByPool
  <1>1. IInv => AcceptedByPool
    <2> SUFFICES ASSUME IInv PROVE AcceptedByPool
      OBVIOUS
    <2>1. /\ accepted_count + OkShares(toClient) + Pending <= accepted_by_pool
          /\ accepted_count \in Nat /\ accepted_by_pool \in Nat /\ toClient \in Seq(Line)
      BY DEF IInv, AcceptedAreCounted, MoreTypes, TypeOK
    <2>2. OkShares(toClient) \in Nat /\ Pending \in Nat
      BY <2>1, OkSharesType DEF Pending, One
    <2>3. QED
      BY <2>1, <2>2 DEF AcceptedByPool
  <1>2. QED
    BY <1>1, Invariance, PTL

\* Every answer share_result has counted is in exactly one report or still in the
\* sums, with one verdict, whoever reports and whenever.
THEOREM ReportsSafe == Safety => []ReportsAddUp
  <1>1. IInv => ReportsAddUp
    BY DEF IInv, ReportsHold, ReportsAddUp
  <1>2. QED
    BY <1>1, Invariance, PTL

\* No seturl is forgotten between parse_arg('o'), need_reset and the top of the
\* loop of stratum_thread.
THEOREM UrlSafe == Safety => []UrlIsCurrent
  <1>1. IInv => UrlIsCurrent
    BY DEF IInv
  <1>2. QED
    BY <1>1, Invariance, PTL

\* share_result judges an answer by the difficulty of another share only when a
\* later share is already in the hands of workio or on the wire, or when workio
\* has given up the last one, unsent (submit_upstream_work, workio_submit_work).
THEOREM SlotSafe == Safety => SlotIsOfLaterShare
  <1> DEFINE Judges == spc = "judge" /\ spc' = "count" /\ my_diff' # line.diff =>
          \/ wpc \in {"send", "again"} \/ unsent
          \/ \E i \in DOMAIN toPool : toPool[i].id = 4
          \/ \E i \in DOMAIN toClient : toClient[i].id = 4
  <1>1. IInv /\ [Next]_vars => [Judges]_vars
    <2> SUFFICES ASSUME IInv, [Next]_vars, spc = "judge", spc' = "count", my_diff' # line.diff,
                        wpc \notin {"send", "again"}, ~unsent
                 PROVE \/ \E i \in DOMAIN toPool : toPool[i].id = 4
                       \/ \E i \in DOMAIN toClient : toClient[i].id = 4
      OBVIOUS
    <2>1. StratumJudge
      <3>1. CASE StratumStep
        BY <3>1 DEF StratumStep, StratumTop, StratumReset, StratumConnect, StratumLoginLost, LoginFails,
           StratumAsks, Send, StratumSubscribed, StratumMethod, Method, StratumAuthorized, StratumExtra,
           StratumLost, StratumAnswer, StratumCount
      <3>2. CASE ~StratumStep
        BY <3>2 DEF Next, WorkioStale, WorkioSlot, WorkioSend, WorkioSendFailed, restOfSubmit,
         restOfSend, ApiSetUrl, ReporterCollect, ReporterReset, PoolAnswers,
           PoolSays, vars
      <3>3. QED
        BY <3>1, <3>2
    <2>2. my_diff' = sharediff
      BY <2>1 DEF StratumJudge
    <2>3. Has(toPool, 4) \/ Has(toClient, 4)
      BY <2>2 DEF IInv, TypeOK, SlotIsOfLastShare
    <2>4. DOMAIN toPool = 1..Len(toPool) /\ DOMAIN toClient = 1..Len(toClient)
      BY LenProperties DEF IInv, TypeOK
    <2>5. QED
      BY <2>3, <2>4 DEF Has
  <1>2. QED
    BY <1>1, Invariance, PTL DEF Safety, SlotIsOfLaterShare

=============================================================================
