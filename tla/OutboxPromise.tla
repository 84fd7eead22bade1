--------------------------- MODULE OutboxPromise ----------------------------
(***************************************************************************)
(* What a message outbox of the mobile application promises its user: a     *)
(* message that was written is kept until the server has it, the server     *)
(* gets it once, only a sign-out takes unsent messages away, and, where the *)
(* outbox is ordered, no message of a thread overtakes a kept one.          *)
(***************************************************************************)
EXTENDS Naturals

CONSTANTS MaxMessages, ThreadOf

Message == 1 .. MaxMessages

VARIABLES
    ordered,    \* whether a thread is first in, first out
    status      \* message -> where it is

vars == <<ordered, status>>

Init ==
    /\ ordered \in BOOLEAN
    /\ status = [m \in Message |-> "new"]

\* Messages are numbered in the order they are written.
Write(m) ==
    /\ status[m] = "new"
    /\ \A n \in Message : n < m => status[n] # "new"
    /\ status' = [status EXCEPT ![m] = "kept"]
    /\ UNCHANGED ordered

\* A request that left before a sign-out may be served after it.
Store(m) ==
    /\ status[m] \in {"kept", "erased"}
    /\ ordered => \A n \in Message :
        ThreadOf[n] = ThreadOf[m] /\ n < m => status[n] # "kept"
    /\ status' = [status EXCEPT ![m] = "stored"]
    /\ UNCHANGED ordered

SignOut ==
    /\ status' = [m \in Message |-> IF status[m] = "kept" THEN "erased" ELSE status[m]]
    /\ UNCHANGED ordered

Next == SignOut \/ \E m \in Message : Write(m) \/ Store(m)

Spec == Init /\ [][Next]_vars

=============================================================================
