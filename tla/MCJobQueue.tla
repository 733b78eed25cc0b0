------------------------------ MODULE MCJobQueue ------------------------------
EXTENDS JobQueue, TLC

\* Handlers, slots and requests are interchangeable.
QueueSymmetry ==
    Permutations(Clients) \cup Permutations(Slots) \cup Permutations(Jobs)
=============================================================================
