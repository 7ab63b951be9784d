-------------------------- MODULE ThreadQueueProofs ---------------------------
(***************************************************************************)
(* Proofs about ThreadQueue, for every number of entries: the server never *)
(* sleeps on an entry, nothing that was accepted is lost or overtaken, and *)
(* the queue implements CommandQueue (its safety part; TLC checks the      *)
(* liveness part).                                                         *)
(***************************************************************************)
EXTENDS ThreadQueue, SequenceTheorems, TLAPS

Entry == Command \cup {Null}

-----------------------------------------------------------------------------
(* Sequences. *)

\* Moving the head of the list to the end of what was received changes nothing.
LEMMA MoveHead ==
    ASSUME NEW S, NEW s \in Seq(S), NEW t \in Seq(S), t # <<>>
    PROVE /\ Append(s, Head(t)) \o Tail(t) = s \o t
          /\ Len(s) < Len(s \o t)
          /\ (s \o t)[Len(s) + 1] = Head(t)
  <1>1. Len(t) \in Nat /\ Len(t) # 0 /\ Len(s) \in Nat
    BY EmptySeq, LenProperties
  <1>2. /\ Head(t) \in S /\ Head(t) = t[1]
        /\ Tail(t) \in Seq(S) /\ Len(Tail(t)) = Len(t) - 1
        /\ \A i \in 1..Len(Tail(t)) : Tail(t)[i] = t[i + 1]
    BY <1>1, HeadTailProperties
  <1>3. /\ Append(s, Head(t)) \in Seq(S) /\ Len(Append(s, Head(t))) = Len(s) + 1
        /\ \A i \in 1..Len(s) : Append(s, Head(t))[i] = s[i]
        /\ Append(s, Head(t))[Len(s) + 1] = Head(t)
    BY <1>1, <1>2, AppendProperties
  <1>4. /\ s \o t \in Seq(S) /\ Len(s \o t) = Len(s) + Len(t)
        /\ \A i \in 1..Len(s) + Len(t) :
              (s \o t)[i] = IF i <= Len(s) THEN s[i] ELSE t[i - Len(s)]
    BY ConcatProperties
  <1> DEFINE u == Append(s, Head(t)) \o Tail(t)
  <1>5. /\ u \in Seq(S) /\ Len(u) = Len(s) + Len(t)
        /\ \A i \in 1..Len(s) + Len(t) :
              u[i] = IF i <= Len(s) + 1 THEN Append(s, Head(t))[i]
                                        ELSE Tail(t)[i - (Len(s) + 1)]
    BY <1>1, <1>2, <1>3, ConcatProperties
  <1>6. ASSUME NEW i \in 1..Len(u) PROVE u[i] = (s \o t)[i]
    <2>1. CASE i <= Len(s)
      BY <1>1, <1>3, <1>4, <1>5, <2>1
    <2>2. CASE i = Len(s) + 1
      BY <1>1, <1>2, <1>3, <1>4, <1>5, <2>2
    <2>3. CASE i > Len(s) + 1
      <3>1. i - (Len(s) + 1) \in 1..Len(Tail(t)) /\ i - Len(s) = i - (Len(s) + 1) + 1
        BY <1>1, <1>2, <1>5, <2>3
      <3>2. u[i] = Tail(t)[i - (Len(s) + 1)] /\ (s \o t)[i] = t[i - Len(s)]
        BY <1>1, <1>4, <1>5, <2>3
      <3>3. QED
        BY <1>2, <3>1, <3>2
    <2>4. QED
      BY <1>1, <1>5, <2>1, <2>2, <2>3
  <1>7. u = s \o t
    BY <1>4, <1>5, <1>6, SeqEqual
  <1>8. QED
    BY <1>1, <1>2, <1>4, <1>7

\* An entry at the end of the list is at the end of what was accepted.
LEMMA AddLast ==
    ASSUME NEW S, NEW s \in Seq(S), NEW t \in Seq(S), NEW c \in S
    PROVE s \o Append(t, c) = Append(s \o t, c)
  <1>1. s \o t \in Seq(S) /\ <<c>> \in Seq(S)
    BY ConcatProperties
  <1>2. Append(t, c) = t \o <<c>> /\ Append(s \o t, c) = (s \o t) \o <<c>>
    BY <1>1, AppendIsConcat
  <1>3. QED
    BY <1>1, <1>2, ConcatAssociative

-----------------------------------------------------------------------------
(* The invariant: a server that was woken by a signal finds an entry. *)
Awake ==
    /\ NoSleepOnEntry
    /\ frozen <=> server = "done"
    /\ ~Spurious => server # "null" /\ (server = "woken" => list # <<>>)

QueueInv == TypeOK /\ Awake

LEMMA InitQueue == Init => QueueInv
  <1> SUFFICES ASSUME Init PROVE QueueInv
    OBVIOUS
  <1>1. TypeOK
    BY EmptySeq DEF Init, TypeOK
  <1>2. Awake
    BY DEF Init, Awake, NoSleepOnEntry
  <1>3. QED
    BY <1>1, <1>2 DEF QueueInv

LEMMA TakeStep ==
    ASSUME TypeOK, Take
    PROVE /\ list' \in Seq(Entry) /\ got' \in Seq(Entry)
          /\ (got \o list)' = got \o list
          /\ Len(got) < Len(got \o list)
          /\ (got \o list)[Len(got) + 1] = Head(list)
  <1>1. list \in Seq(Entry) /\ got \in Seq(Entry) /\ list # <<>>
    BY DEF TypeOK, Entry, Take
  <1>2. Head(list) \in Entry /\ Tail(list) \in Seq(Entry)
    BY <1>1, HeadTailProperties
  <1>3. Append(got, Head(list)) \in Seq(Entry)
    BY <1>1, <1>2, AppendProperties
  <1>4. QED
    BY <1>1, <1>2, <1>3, MoveHead DEF Take

LEMMA PushStep ==
    ASSUME TypeOK, NEW c \in Entry, list' = ListAddTail(c), UNCHANGED got
    PROVE /\ list' \in Seq(Entry) /\ list' # <<>>
          /\ (got \o list)' = Append(got \o list, c)
  <1>1. list \in Seq(Entry) /\ got \in Seq(Entry)
    BY DEF TypeOK, Entry
  <1>2. list' \in Seq(Entry) /\ Len(list') = Len(list) + 1
    BY <1>1, AppendProperties DEF ListAddTail
  <1>3. list' # <<>>
    BY <1>1, <1>2, EmptySeq, LenProperties
  <1>4. QED
    BY <1>1, <1>2, <1>3, AddLast DEF ListAddTail

LEMMA NextQueue == QueueInv /\ [Next]_vars => QueueInv'
  <1> SUFFICES ASSUME QueueInv, [Next]_vars PROVE QueueInv'
    OBVIOUS
  <1> USE DEF QueueInv
  <1>1. CASE Push
    <2>1. PICK c \in Entry : list' = ListAddTail(c)
      BY <1>1 DEF Push, Entry
    <2>2. list' \in Seq(Entry) /\ list' # <<>>
      BY <1>1, <2>1, PushStep DEF Push
    <2>3. TypeOK'
      BY <1>1, <2>2 DEF Push, TypeOK, Signal, Entry
    <2>4. Awake'
      BY <1>1, <2>2 DEF Push, Awake, NoSleepOnEntry, Signal
    <2>5. QED
      BY <2>3, <2>4
  <1>2. CASE PushRefused
    <2>1. TypeOK'
      BY <1>2 DEF PushRefused, TypeOK, Signal
    <2>2. Awake'
      BY <1>2 DEF PushRefused, Awake, NoSleepOnEntry, Signal
    <2>3. QED
      BY <2>1, <2>2
  <1>3. CASE PopNow \/ PopWoken
    <2>1. Take /\ server # "done"
      BY <1>3 DEF PopNow, PopWoken
    <2>2. TypeOK'
      BY <2>1, TakeStep DEF Take, TypeOK, Entry
    <2>3. Awake'
      BY <2>1 DEF Take, Awake, NoSleepOnEntry
    <2>4. QED
      BY <2>2, <2>3
  <1>4. CASE PopWait \/ SpuriousWakeup \/ PopNothing \/ WorkDone \/ Freeze
    <2>1. TypeOK'
      BY <1>4 DEF PopWait, SpuriousWakeup, PopNothing, WorkDone, Freeze, TypeOK
    <2>2. Awake'
      BY <1>4 DEF PopWait, SpuriousWakeup, PopNothing, WorkDone, Freeze, Awake,
                  NoSleepOnEntry, TypeOK
    <2>3. QED
      BY <2>1, <2>2
  <1>5. CASE UNCHANGED vars
    BY <1>5 DEF vars, TypeOK, Awake, NoSleepOnEntry
  <1>6. QED
    BY <1>1, <1>2, <1>3, <1>4, <1>5 DEF Next, ServerStep

(* Every entry, every phase and both flags keep their types (tq_push, tq_pop). *)
THEOREM TypeCorrect == Safety => []TypeOK
  <1>1. QueueInv => TypeOK
    BY DEF QueueInv
  <1>2. QED
    BY <1>1, InitQueue, NextQueue, PTL DEF Safety

(* pthread_cond_signal in tq_push is enough: tq_pop never sleeps on a queue that
   has an entry. *)
THEOREM NoLostWakeup == Safety => []NoSleepOnEntry
  <1>1. QueueInv => NoSleepOnEntry
    BY DEF QueueInv, Awake
  <1>2. QED
    BY <1>1, InitQueue, NextQueue, PTL DEF Safety

(* Without spurious wakeups tq_pop gives NULL only when NULL was pushed. *)
THEOREM PopWaits == ASSUME ~Spurious PROVE Safety => []PopWaitsForCommand
  <1>1. QueueInv => PopWaitsForCommand
    BY DEF QueueInv, Awake, PopWaitsForCommand
  <1>2. QED
    BY <1>1, InitQueue, NextQueue, PTL DEF Safety

-----------------------------------------------------------------------------
(* What was accepted stays accepted, in its place. *)

\* A sequence begins with itself, and still does with one entry more.
LEMMA BeginsWithItself ==
    ASSUME NEW S, NEW s \in Seq(S)
    PROVE SubSeq(s, 1, Len(s)) = s
  BY SubSeqFull

LEMMA BeginsWithLonger ==
    ASSUME NEW S, NEW s \in Seq(S), NEW c \in S
    PROVE SubSeq(Append(s, c), 1, Len(s)) = s
  <1>1. Len(s) \in Nat
    BY LenProperties
  <1>2. /\ Append(s, c) \in Seq(S) /\ Len(Append(s, c)) = Len(s) + 1
        /\ \A i \in 1..Len(s) : Append(s, c)[i] = s[i]
    BY <1>1, AppendProperties
  <1> DEFINE u == SubSeq(Append(s, c), 1, Len(s))
  <1>3. /\ u \in Seq(S) /\ Len(u) = Len(s)
        /\ \A i \in 1..Len(s) : u[i] = Append(s, c)[i]
    BY <1>1, <1>2, SubSeqProperties
  <1>4. \A i \in 1..Len(u) : u[i] = s[i]
    BY <1>2, <1>3
  <1>5. QED
    BY <1>3, <1>4, SeqEqual

\* A push adds one entry at the end; no other step changes what was accepted.
LEMMA AcceptedFrame ==
    ASSUME QueueInv, [Next]_vars
    PROVE \/ (got \o list)' = got \o list
          \/ \E c \in Entry : (got \o list)' = Append(got \o list, c)
  <1> USE DEF QueueInv
  <1>1. CASE Push
    <2>1. PICK c \in Entry : list' = ListAddTail(c)
      BY <1>1 DEF Push, Entry
    <2>2. QED
      BY <1>1, <2>1, PushStep DEF Push
  <1>2. CASE PopNow \/ PopWoken
    <2>1. Take
      BY <1>2 DEF PopNow, PopWoken
    <2>2. QED
      BY <2>1, TakeStep
  <1>3. CASE PushRefused \/ PopWait \/ SpuriousWakeup \/ PopNothing \/ WorkDone \/ Freeze
             \/ UNCHANGED vars
    BY <1>3 DEF PushRefused, PopWait, SpuriousWakeup, PopNothing, WorkDone, Freeze, vars
  <1>4. QED
    BY <1>1, <1>2, <1>3 DEF Next, ServerStep

(* No entry that tq_push accepted is lost, doubled or overtaken: what was
   received followed by what waits in the list only grows at its end. *)
THEOREM NothingIsLost == Safety => AcceptedIsKept
  <1>1. ASSUME QueueInv, [Next]_vars
        PROVE SubSeq((got \o list)', 1, Len(got \o list)) = got \o list
    <2>1. got \o list \in Seq(Entry)
      <3>1. got \in Seq(Entry) /\ list \in Seq(Entry)
        BY <1>1 DEF QueueInv, TypeOK, Entry
      <3>2. QED
        BY <3>1, ConcatProperties
    <2>2. CASE (got \o list)' = got \o list
      BY <2>1, <2>2, BeginsWithItself
    <2>3. ASSUME NEW c \in Entry, (got \o list)' = Append(got \o list, c)
          PROVE SubSeq((got \o list)', 1, Len(got \o list)) = got \o list
      BY <2>1, <2>3, BeginsWithLonger
    <2>4. QED
      BY <1>1, <2>2, <2>3, AcceptedFrame
  <1>2. QueueInv /\ [Next]_vars
          => [SubSeq((got \o list)', 1, Len(got \o list)) = got \o list]_vars
    BY <1>1
  <1>3. QED
    BY <1>2, InitQueue, NextQueue, PTL DEF Safety, AcceptedIsKept

-----------------------------------------------------------------------------
(* The refinement. *)

LEMMA InitRefines == Init => Queue!Init
  <1> SUFFICES ASSUME Init PROVE Queue!Init
    OBVIOUS
  <1>1. got \o list = <<>>
    BY EmptySeq, ConcatEmptySeq DEF Init
  <1>2. QED
    BY <1>1 DEF Init, Queue!Init, Phase

LEMMA NextRefines ==
    ASSUME QueueInv, [Next]_vars
    PROVE [Queue!Next]_(Queue!vars)
  <1> USE DEF QueueInv
  <1>1. CASE Push
    <2>1. PICK c \in Entry : list' = ListAddTail(c)
      BY <1>1 DEF Push, Entry
    <2>2. (got \o list)' = Append(got \o list, c)
      BY <1>1, <2>1, PushStep DEF Push
    <2>3. Phase' = Phase /\ Phase # "closed"
      BY <1>1 DEF Push, Phase, Signal, Awake, TypeOK
    <2>4. Queue!Accept
      BY <1>1, <2>2, <2>3 DEF Push, Queue!Accept, Entry
    <2>5. QED
      BY <2>4 DEF Queue!Next
  <1>2. CASE PushRefused
    BY <1>2 DEF PushRefused, Queue!vars, Phase, Signal, Awake
  <1>3. CASE PopNow \/ PopWoken
    <2>1. Take /\ Phase = "ready"
      BY <1>3 DEF PopNow, PopWoken, Phase
    <2>2. Phase' = IF Head(list) = Null THEN "closing" ELSE "busy"
      BY <2>1 DEF Take, Phase
    <2>3. Queue!Deliver
      BY <2>1, <2>2, TakeStep DEF Take, Queue!Deliver
    <2>4. QED
      BY <2>3 DEF Queue!Next
  <1>4. CASE PopWait \/ SpuriousWakeup
    BY <1>4 DEF PopWait, SpuriousWakeup, Queue!vars, Phase
  <1>5. CASE WorkDone
    BY <1>5 DEF WorkDone, Queue!Next, Queue!Finish, Phase
  <1>6. CASE Freeze
    BY <1>6 DEF Freeze, Queue!Next, Queue!Close, Phase, Awake
  <1>7. CASE UNCHANGED vars
    BY <1>7 DEF vars, Queue!vars, Phase
  <1>8. CASE PopNothing
    <2>1. got \o list = got
      BY <1>8, ConcatEmptySeq DEF PopNothing, TypeOK
    <2>2. Spurious
      BY <1>8 DEF PopNothing, Awake
    <2>3. Queue!Quit
      BY <1>8, <2>1, <2>2 DEF PopNothing, Queue!Quit, Phase
    <2>4. QED
      BY <2>3 DEF Queue!Next
  <1>9. QED
    BY <1>1, <1>2, <1>3, <1>4, <1>5, <1>6, <1>7, <1>8 DEF Next, ServerStep

(* The queue is a CommandQueue: everything accepted is received in order, and the
   server ends only by a NULL entry, by a command that failed or, where
   pthread_cond_wait may return without a signal, with an empty queue. *)
THEOREM Implements == Safety => Queue!Safety
  <1>1. QueueInv /\ [Next]_vars => [Queue!Next]_(Queue!vars)
    BY NextRefines
  <1>2. QED
    BY <1>1, InitRefines, InitQueue, NextQueue, PTL DEF Safety, Queue!Safety
=============================================================================
