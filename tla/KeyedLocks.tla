----------------------------- MODULE KeyedLocks -----------------------------
(***************************************************************************)
(* The in-process keyed locks of perum-core (app/core/locks.py).  A lock is *)
(* an asyncio.Lock: waiters are served in the order they asked, so a lock   *)
(* is the FIFO queue of the jobs that asked for it and the head owns it.    *)
(***************************************************************************)
EXTENDS Sequences

VARIABLE
    queue       \* lock key -> sequence of jobs, the owner first

Holds(key, j) == queue[key] # <<>> /\ Head(queue[key]) = j

Acquire(key, j) == queue' = [queue EXCEPT ![key] = Append(@, j)]

Release(key) == queue' = [queue EXCEPT ![key] = Tail(@)]

=============================================================================
