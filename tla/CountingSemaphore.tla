-------------------------- MODULE CountingSemaphore --------------------------
(***************************************************************************)
(* What execution/docker_semaphore.py promises its callers: a semaphore    *)
(* shared by all tasks of all worker processes that is never held by more  *)
(* than Limit of them at once.  A holder that dies stops holding.          *)
(***************************************************************************)
EXTENDS Naturals, FiniteSets

CONSTANTS Tasks,   \* coroutines of any worker process
          Limit    \* the largest number of simultaneous holders

VARIABLE holders   \* the tasks inside the "async with" block

Init == holders = {}

Acquire(t) ==
    /\ t \notin holders
    /\ Cardinality(holders) < Limit
    /\ holders' = holders \cup {t}

Leave(t) ==
    /\ t \in holders
    /\ holders' = holders \ {t}

Next == \E t \in Tasks : Acquire(t) \/ Leave(t)

Spec == Init /\ [][Next]_holders
=============================================================================
