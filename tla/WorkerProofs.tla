----------------------------- MODULE WorkerProofs -----------------------------
(***************************************************************************)
(* Proofs about the worker processes: the prewarm that several of them     *)
(* take part in at their start (Prewarm), for every set of processes and   *)
(* pools, every target and cap, and the end of one of them (WorkerProcess, *)
(* here Process), for every number of slots, languages and jobs.           *)
(***************************************************************************)
EXTENDS Prewarm, Sequences, FiniteSetTheorems, WellFoundedInduction, TLAPS

-----------------------------------------------------------------------------
(* Prewarm *)

\* Every reachable state is well typed: among others, the count of the pool stays
\* between 0 and its cap although prewarms and jobs change it side by side.
THEOREM TypeCorrect == Spec => []TypeOK
<1> USE DEF TypeOK, Stages, LockKey
<1>1. Init => TypeOK
  BY TargetAssumption, BoundAssumption DEF Init
<1>2. TypeOK /\ [Next]_vars => TypeOK'
  <2> SUFFICES ASSUME TypeOK, [Next]_vars PROVE TypeOK'
    BY Zenon
  <2> USE TargetAssumption, BoundAssumption DEF prewarmVars, reaperVars, Goto, Fault
  <2>1. ASSUME NEW w \in Workers, SetNx(w) PROVE TypeOK'
    BY <2>1 DEF SetNx
  <2>2. ASSUME NEW w \in Workers, Llen(w) PROVE TypeOK'
    BY <2>2, Zenon DEF Llen
  <2>3. ASSUME NEW w \in Workers, Wait(w) \/ Run(w) \/ Started(w) PROVE TypeOK'
    BY <2>3 DEF Wait, Run, Started
  <2>4. ASSUME NEW w \in Workers, CappedPush(w) PROVE TypeOK'
    BY <2>4 DEF CappedPush
  <2>5. ASSUME NEW w \in Workers, Get(w) PROVE TypeOK'
    BY <2>5, Zenon DEF Get
  <2>6. ASSUME NEW w \in Workers, Del(w) PROVE TypeOK'
    BY <2>6, Zenon DEF Del
  <2>7. ASSUME NEW w \in Workers, RunFails(w) \/ Crash(w) PROVE TypeOK'
    BY <2>7 DEF RunFails, Crash
  <2>8. CASE Expire
    BY <2>8, Zenon DEF Expire
  <2>9. CASE Jobs
    BY <2>9 DEF Jobs
  <2>10. CASE Drained
    BY <2>10, Zenon DEF Drained
  <2>11. CASE ReaperStep
    BY <2>11 DEF ReaperStep, ScanStart, ScanPool, ScanLock, ScanEnd
  <2>12. CASE UNCHANGED vars
    BY <2>12, Zenon DEF vars
  <2>13. QED
    BY <2>1, <2>2, <2>3, <2>4, <2>5, <2>6, <2>7, <2>8, <2>9, <2>10, <2>11, <2>12, Zenon
       DEF Next, PrewarmStep
<1>3. QED BY <1>1, <1>2, PTL DEF Spec

\* From the SET that succeeds to the DEL the lock is the worker's, or went away from
\* under it: another worker's SET NX never replaces it.
Holding ==
    \A w \in Workers : pc[w] \notin {"start", "done"} => lock = w \/ w \in lapsed

\* Holding is an invariant: SET NX finds the lock free, so whoever held it before
\* has lost it, and a DEL or an expiry that takes a lock away is on record.
THEOREM HoldingInvariant == Spec => []Holding
<1>1. Init => Holding
  BY DEF Init, Holding
<1>2. TypeOK /\ Holding /\ [Next]_vars => Holding'
  <2> SUFFICES ASSUME TypeOK, Holding, [Next]_vars PROVE Holding'
    OBVIOUS
  <2> USE DEF prewarmVars, reaperVars, Goto, Holding
  <2>0. pc \in [Workers -> Stages]
    BY Zenon DEF TypeOK
  <2>1. ASSUME NEW w \in Workers, SetNx(w) PROVE Holding'
    BY <2>0, <2>1, NoWorkerAssumption DEF SetNx
  <2>2. ASSUME NEW w \in Workers, Llen(w) PROVE Holding'
    BY <2>0, <2>2 DEF Llen
  <2>3. ASSUME NEW w \in Workers, Wait(w) \/ Run(w) \/ Started(w) PROVE Holding'
    BY <2>0, <2>3, Zenon DEF Wait, Run, Started
  <2>4. ASSUME NEW w \in Workers, CappedPush(w) PROVE Holding'
    BY <2>0, <2>4 DEF CappedPush
  <2>5. ASSUME NEW w \in Workers, Get(w) PROVE Holding'
    BY <2>0, <2>5 DEF Get
  <2>6. ASSUME NEW w \in Workers, Del(w) PROVE Holding'
    BY <2>0, <2>6, NoWorkerAssumption DEF Del
  <2>7. ASSUME NEW w \in Workers, RunFails(w) \/ Crash(w) PROVE Holding'
    BY <2>0, <2>7 DEF RunFails, Crash
  <2>8. CASE Expire
    BY <2>8 DEF Expire
  <2>9. CASE Jobs \/ Drained \/ ReaperStep \/ UNCHANGED vars
    BY <2>9, Zenon DEF Jobs, Drained, ReaperStep, ScanStart, ScanPool, ScanLock, ScanEnd, vars
  <2>10. QED
    BY <2>1, <2>2, <2>3, <2>4, <2>5, <2>6, <2>7, <2>8, <2>9, Zenon DEF Next, PrewarmStep
<1>3. QED BY <1>1, <1>2, TypeCorrect, PTL DEF Spec

\* As long as no lock goes away before its time, at most one worker process fills
\* the pool of an image, however many start together (the lock of
\* ensure_pool_target).
THEOREM OnePrewarm == Spec => []LockExcludes
<1>1. Holding => LockExcludes
  <2> SUFFICES ASSUME Holding, lapsed = {} PROVE Cardinality(Prewarming) <= 1
    BY DEF LockExcludes
  <2>1. Prewarming \subseteq {lock}
    BY DEF Holding, Prewarming
  <2>2. IsFiniteSet({lock}) /\ Cardinality({lock}) = 1
    BY FS_Singleton, Zenon
  <2>3. QED BY <2>1, <2>2, FS_Subset
<1>2. QED BY <1>1, HoldingInvariant, PTL

\* A worker's DEL takes away the lock of another one only if the worker lost its own
\* lock after it read it back: the comparison between GET and DEL.
THEOREM NoForeignRelease == Spec => ForeignLockKept
<1> DEFINE Kept(w) == pc[w] = "del" /\ pc'[w] = "done" /\ lock' # lock =>
                         lock = w \/ (w \in lapsed /\ seen[w] = w)
<1>1. TypeOK /\ Holding /\ [Next]_vars => [\A w \in Workers : Kept(w)]_vars
  <2> SUFFICES ASSUME TypeOK, Holding, Next, NEW w \in Workers,
                      pc[w] = "del", pc'[w] = "done", lock' # lock
               PROVE  lock = w \/ (w \in lapsed /\ seen[w] = w)
    OBVIOUS
  <2>1. lock = w \/ w \in lapsed
    BY DEF Holding
  <2>2. seen[w] = w
    <3>1. ASSUME NEW u \in Workers, PrewarmStep(u) \/ RunFails(u) \/ Crash(u)
          PROVE  Del(w)
      <4>1. u = w
        BY <3>1, Zenon DEF PrewarmStep, SetNx, Llen, Wait, Run, Started, CappedPush, Get, Del,
                    RunFails, Crash, Goto, TypeOK
      <4>2. QED
        BY <3>1, <4>1, Zenon DEF PrewarmStep, SetNx, Llen, Wait, Run, Started, CappedPush,
                          Get, RunFails, Crash
    <3>2. ~(Expire \/ Jobs \/ Drained \/ ReaperStep)
      BY Zenon DEF Expire, Jobs, Drained, ReaperStep, ScanStart, ScanPool, ScanLock, ScanEnd,
             prewarmVars
    <3>3. QED BY <3>1, <3>2, Zenon DEF Next, Del
  <2>3. QED BY <2>1, <2>2
<1>2. QED BY <1>1, TypeCorrect, HoldingInvariant, PTL DEF Spec, ForeignLockKept

-----------------------------------------------------------------------------
(* WorkerProcess *)

CONSTANTS Slots, Languages, MaxArrivals
VARIABLES queued, arrivals, shutdown, slot, taken, reporter, prewarm, reaper

Process == INSTANCE WorkerProcess

\* What WorkerProcess assumes of its constants.
ProcessAssumptions == Len(Languages) \in Nat \ {0} /\ MaxArrivals \in Nat

\* A non-empty set of natural numbers contains its minimum.
LEMMA MinInSet ==
  ASSUME NEW S \in SUBSET Nat, S # {}
  PROVE  Process!Min(S) \in S /\ \A y \in S : Process!Min(S) <= y
<1> DEFINE Less == OpToRel(<, Nat)
<1>1. IsWellFoundedOn(Less, Nat)
  BY NatLessThanWellFounded, Zenon
<1>2. \A x, y \in Nat : y < x => <<y, x>> \in Less
  BY DEF OpToRel
<1> HIDE DEF Less
<1>3. PICK x \in S : \A y \in S : ~(<<y, x>> \in Less)
  BY <1>1, WFMin, Zenon
<1>4. ASSUME NEW y \in S PROVE x <= y
  <2>1. ~(y < x)
    BY <1>2, <1>3, Zenon
  <2>2. QED BY <2>1
<1>5. QED BY <1>4, Zenon DEF Process!Min

\* BRPOP takes its job from a queue that has one, and from the first of those.
LEMMA FirstNonempty ==
  ASSUME ProcessAssumptions, Process!Nonempty # {}
  PROVE  /\ Process!Min(Process!Nonempty) \in Process!Queues
         /\ queued[Process!Min(Process!Nonempty)] > 0
         /\ \A q \in Process!Queues : q < Process!Min(Process!Nonempty) => ~(queued[q] > 0)
<1>1. Process!Nonempty \in SUBSET Nat
  BY DEF ProcessAssumptions, Process!Nonempty, Process!Queues
<1>2. /\ Process!Min(Process!Nonempty) \in Process!Nonempty
      /\ \A q \in Process!Nonempty : Process!Min(Process!Nonempty) <= q
  BY <1>1, MinInSet
<1>3. Process!Min(Process!Nonempty) \in Process!Queues /\ queued[Process!Min(Process!Nonempty)] > 0
  BY <1>2 DEF Process!Nonempty
<1>4. ASSUME NEW q \in Process!Queues, q < Process!Min(Process!Nonempty), queued[q] > 0 PROVE FALSE
  <2>1. q \in Process!Nonempty
    BY <1>4 DEF Process!Nonempty
  <2>2. q \in Nat /\ Process!Min(Process!Nonempty) \in Nat /\ Process!Min(Process!Nonempty) <= q
    BY <1>1, <1>2, <2>1, Zenon
  <2>3. QED BY <1>4, <2>2
<1>5. QED BY <1>3, <1>4

\* What the slots and the queues are between two steps: a queue has no more jobs than
\* have arrived, and a slot that took one after the signal is not waiting in BRPOP.
Draining ==
    /\ \A q \in Process!Queues : queued[q] <= arrivals
    /\ \A s \in Slots : \/ taken[s] = 0
                        \/ taken[s] = 1 /\ shutdown = 1 /\ slot[s] # "pop" /\ arrivals > 0

\* Every reachable state is well typed (no queue gets a negative length), and
\* Draining holds in it.
THEOREM ProcessTypeCorrect ==
  ASSUME ProcessAssumptions
  PROVE  Process!Spec => [](Process!TypeOK /\ Draining)
<1>0. MaxArrivals \in Nat
  BY DEF ProcessAssumptions
<1>1. Process!Init => Process!TypeOK /\ Draining
  BY <1>0 DEF Process!Init, Process!TypeOK, Draining
<1>2. Process!TypeOK /\ Draining /\ [Process!Next]_Process!vars => Process!TypeOK' /\ Draining'
  <2> SUFFICES ASSUME Process!TypeOK, Draining, [Process!Next]_Process!vars
               PROVE  Process!TypeOK' /\ Draining'
    OBVIOUS
  <2> USE <1>0 DEF Process!TypeOK, Draining, Process!taskVars
  <2>1. CASE Process!Arrive
    BY <2>1 DEF Process!Arrive
  <2>2. CASE Process!Signal
    BY <2>2 DEF Process!Signal
  <2>3. ASSUME NEW s \in Slots, Process!Loop(s) PROVE Process!TypeOK' /\ Draining'
    BY <2>3 DEF Process!Loop
  <2>4. ASSUME NEW s \in Slots, Process!Brpop(s) PROVE Process!TypeOK' /\ Draining'
    <3> DEFINE q == Process!Min(Process!Nonempty)
    <3>1. q \in Process!Queues /\ queued[q] > 0
      BY <2>4, FirstNonempty DEF Process!Brpop
    <3> HIDE DEF q
    <3>2. slot[s] = "pop" /\ Process!Pop(s, q)
      BY <2>4 DEF Process!Brpop, q
    <3>3. taken[s] = 0 /\ arrivals > 0
      BY <3>1, <3>2
    <3>4. /\ queued' \in [Process!Queues -> 0..MaxArrivals]
          /\ \A k \in Process!Queues : queued'[k] <= arrivals'
      BY <3>1, <3>2 DEF Process!Pop
    <3>5. /\ taken' \in [Slots -> 0..MaxArrivals]
          /\ \A k \in Slots \ {s} : taken'[k] = taken[k] /\ slot'[k] = slot[k]
          /\ taken'[s] = shutdown /\ slot'[s] = "job"
      BY <3>2, <3>3 DEF Process!Pop
    <3>6. QED BY <3>2, <3>3, <3>4, <3>5, Zenon DEF Process!Pop
  <2>5. ASSUME NEW s \in Slots, Process!BrpopNothing(s) \/ Process!JobDone(s) \/ Process!SlotDies(s)
        PROVE  Process!TypeOK' /\ Draining'
    BY <2>5 DEF Process!BrpopNothing, Process!JobDone, Process!SlotDies
  <2>6. CASE Process!Report \/ Process!PrewarmEnd \/ Process!Reap
    BY <2>6 DEF Process!Report, Process!PrewarmEnd, Process!Reap
  <2>7. CASE UNCHANGED Process!vars
    BY <2>7, Zenon DEF Process!vars
  <2>8. QED
    BY <2>1, <2>2, <2>3, <2>4, <2>5, <2>6, <2>7, Zenon DEF Process!Next, Process!SlotStep
<1>3. QED BY <1>1, <1>2, PTL DEF Process!Spec

\* After the signal a slot takes at most one more job, the one its BRPOP was
\* waiting for (_slot looks at _shutdown before each BRPOP).
THEOREM OneMoreJob ==
  ASSUME ProcessAssumptions
  PROVE  Process!Spec => []Process!AtMostOneMore
<1>1. Draining => Process!AtMostOneMore
  BY DEF Draining, Process!AtMostOneMore
<1>2. QED BY <1>1, ProcessTypeCorrect, PTL
=============================================================================
