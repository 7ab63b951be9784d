----------------------------- MODULE CommandQueue -----------------------------
(***************************************************************************)
(* What a thread queue of cpu-miner promises the threads that use it: any  *)
(* thread sends, one server thread receives everything that was accepted,  *)
(* in order, one command at a time, and ends after a NULL command, after a *)
(* command that failed or, if it may quit, with nothing left to receive.   *)
(***************************************************************************)
EXTENDS Naturals, Sequences

CONSTANTS
    Command,    \* the commands threads send
    Null,       \* the command that ends the server
    MayQuit     \* may the server end by itself?

VARIABLES
    accepted,   \* every command the queue took, in order
    got,        \* every command the server received, in order
    server      \* "ready" for a command, "busy" with one, "closing" or "closed"

vars == <<accepted, got, server>>

Init ==
    /\ accepted = <<>>
    /\ got = <<>>
    /\ server = "ready"

Accept ==
    /\ server # "closed"
    /\ \E c \in Command \cup {Null} : accepted' = Append(accepted, c)
    /\ UNCHANGED <<got, server>>

Deliver ==
    /\ server = "ready"
    /\ Len(got) < Len(accepted)
    /\ LET c == accepted[Len(got) + 1]
       IN  /\ got' = Append(got, c)
           /\ server' = IF c = Null THEN "closing" ELSE "busy"
    /\ UNCHANGED accepted

Finish ==
    /\ server = "busy"
    /\ server' \in {"ready", "closing"}
    /\ UNCHANGED <<accepted, got>>

Quit ==
    /\ MayQuit
    /\ server = "ready"
    /\ got = accepted
    /\ server' = "closing"
    /\ UNCHANGED <<accepted, got>>

Close ==
    /\ server = "closing"
    /\ server' = "closed"
    /\ UNCHANGED <<accepted, got>>

Next == Accept \/ Deliver \/ Finish \/ Quit \/ Close

Safety == Init /\ [][Next]_vars

(* A command may take for ever; a ready server with a command to receive, or one
   that is closing, does not. *)
Spec == Safety /\ WF_vars(Deliver) /\ WF_vars(Close)
=============================================================================
