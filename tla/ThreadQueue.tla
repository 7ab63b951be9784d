----------------------------- MODULE ThreadQueue ------------------------------
(***************************************************************************)
(* The thread queue of util.c (tq_push, tq_pop, tq_freeze) with the loop   *)
(* of the workio thread, the one thread that pops from its queue.          *)
(*                                                                         *)
(* The list and the frozen flag are only touched with the mutex of the     *)
(* queue held, so each critical section is one step; tq_pop has two, one   *)
(* before and one after pthread_cond_wait. Every call in the program       *)
(* passes no abstime, so the wait has no time out.                         *)
(***************************************************************************)
EXTENDS Naturals, Sequences

CONSTANTS
    Command,    \* the commands threads push
    Null,       \* the NULL that ends the server
    Spurious,   \* may pthread_cond_wait return without a signal? POSIX: TRUE
    MaxPush     \* bound: entries accepted in a behaviour

ASSUME ThreadQueueAssumption ==
    /\ Null \notin Command
    /\ Spurious \in BOOLEAN
    /\ MaxPush \in Nat

VARIABLES
    list,       \* tq->q: the data of its entries, oldest first
    frozen,     \* tq->frozen
    server,     \* the server: "pop", "wait" and "woken" in tq_pop, "work" on a
                \* command, "null" after tq_pop gave NULL, "freeze", "done"
    got         \* history: the data of every entry that was popped

vars == <<list, frozen, server, got>>

Init ==
    /\ list = <<>>
    /\ frozen = FALSE
    /\ server = "pop"
    /\ got = <<>>

-----------------------------------------------------------------------------
(* pthread_cond_signal: only a thread that waits at this moment is woken. *)
NoSignal == server
Signal == IF server = "wait" THEN "woken" ELSE server

\* list_add_tail.
ListAdd(c) == <<c>> \o list
ListAddTail(c) == Append(list, c)

\* A frozen queue refuses the entry; the signal is sent either way.
Push ==
    /\ ~frozen
    /\ Len(got) + Len(list) < MaxPush
    /\ \E c \in Command \cup {Null} : list' = ListAddTail(c)
    /\ server' = Signal
    /\ UNCHANGED <<frozen, got>>

PushRefused ==
    /\ frozen
    /\ server' = Signal
    /\ UNCHANGED <<list, frozen, got>>

(* The pop of the head: what tq_pop returns, and what the server does with it. *)
Take ==
    /\ list # <<>>
    /\ list' = Tail(list)
    /\ got' = Append(got, Head(list))
    /\ server' = IF Head(list) = Null THEN "freeze" ELSE "work"
    /\ UNCHANGED frozen

PopNow == server = "pop" /\ Take

PopWait ==
    /\ server = "pop"
    /\ list = <<>>
    /\ server' = "wait"
    /\ UNCHANGED <<list, frozen, got>>

SpuriousWakeup ==
    /\ Spurious
    /\ server = "wait"
    /\ server' = "woken"
    /\ UNCHANGED <<list, frozen, got>>

PopWoken == server = "woken" /\ Take

\* There is no loop around pthread_cond_wait: an empty list gives NULL.
PopNothing ==
    /\ server = "woken"
    /\ list = <<>>
    /\ server' = "null"
    /\ UNCHANGED <<list, frozen, got>>

\* The command is done, or it failed and ends the loop.
WorkDone ==
    /\ server = "work"
    /\ server' \in {"pop", "freeze"}
    /\ UNCHANGED <<list, frozen, got>>

\* tq_freeze on its own queue: nobody else waits for the signal.
Freeze ==
    /\ server \in {"null", "freeze"}
    /\ frozen' = TRUE
    /\ server' = "done"
    /\ UNCHANGED <<list, got>>

ServerStep == PopNow \/ PopWait \/ PopWoken \/ PopNothing \/ Freeze

Next == Push \/ PushRefused \/ SpuriousWakeup \/ ServerStep \/ WorkDone

Safety == Init /\ [][Next]_vars

(* The server runs whenever it can; a command may be retried for ever
   (opt_retries < 0), so nothing is assumed of WorkDone. *)
Spec == Safety /\ WF_vars(ServerStep)

-----------------------------------------------------------------------------
(* Properties. *)

TypeOK ==
    /\ list \in Seq(Command \cup {Null})
    /\ frozen \in BOOLEAN
    /\ server \in {"pop", "wait", "woken", "work", "null", "freeze", "done"}
    /\ got \in Seq(Command \cup {Null})

(* A wakeup is not lost: the server never sleeps on a queue that has an entry. *)
NoSleepOnEntry == server = "wait" => list = <<>>

(* What was accepted is received in that order: nothing is lost, doubled or
   overtaken, even by a server that stops waiting too early. *)
AcceptedIsKept == [][SubSeq((got \o list)', 1, Len(got \o list)) = got \o list]_vars

(* tq_pop returns when there is something to return: "wait for workio_cmd sent
   to us, on our queue" (cpu-miner.c:1896). *)
PopWaitsForCommand == server # "null"

-----------------------------------------------------------------------------
(* The queue implements CommandQueue: what it accepted is what was received and
   what is in the list. *)
Phase ==
    CASE server \in {"pop", "wait", "woken"} -> "ready"
      [] server = "work" -> "busy"
      [] server \in {"null", "freeze"} -> "closing"
      [] server = "done" -> "closed"

Queue == INSTANCE CommandQueue WITH
             accepted <- got \o list, server <- Phase, MayQuit <- Spurious

(* Every entry is received, once and in the order of the calls, and the server
   ends only by a NULL entry, by a command that failed or by a wakeup without a
   signal when nothing is left (tq_push, tq_pop). *)
ImplementsCommandQueue == Queue!Spec
=============================================================================
