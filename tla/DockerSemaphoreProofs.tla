------------------------ MODULE DockerSemaphoreProofs ------------------------
(***************************************************************************)
(* Proofs about DockerSemaphore, for every finite set of tasks, every      *)
(* Concurrency and every number of faults and restarts.                    *)
(***************************************************************************)
EXTENDS DockerSemaphore, FiniteSetTheorems, TLAPS

\* The sets the invariants count are finite.
LEMMA HeldFinite == IsFiniteSet(Held) /\ Cardinality(Held) \in Nat
BY TasksFinite, FS_Subset, FS_CardinalityType DEF Held

LEMMA InitialisersFinite ==
    IsFiniteSet(Initialisers) /\ Cardinality(Initialisers) \in Nat
BY TasksFinite, FS_Subset, FS_CardinalityType DEF Initialisers

\* Every reachable state of the semaphore is well typed; in particular the length
\* of the Redis list never goes below zero (BRPOP takes only what is there).
THEOREM TypeCorrect == Spec => []TypeOK
<1>1. Init => TypeOK
  BY FaultBounds DEF Init, TypeOK, Stages
<1>2. TypeOK /\ [Next]_vars => TypeOK'
  BY FaultBounds, ConcurrencyPositive
     DEF TypeOK, Stages, Next, vars, faultVars, Move, Setnx, Delete, Rpush, Brpop,
         BrpopTimeout, Release, Lose, Owes, RedisRestart
<1>3. QED BY <1>1, <1>2, PTL DEF Spec

\* How a step of one task changes the number of holders and of initialisers.
LEMMA HeldAfter ==
    ASSUME TypeOK, NEW t \in Tasks, NEW to \in Stages,
           pc' = [pc EXCEPT ![t] = to]
    PROVE  /\ to = "held" /\ pc[t] # "held"
                 => Cardinality(Held') = Cardinality(Held) + 1
           /\ to # "held" /\ pc[t] = "held"
                 => Cardinality(Held') = Cardinality(Held) - 1
           /\ (to = "held" <=> pc[t] = "held")
                 => Cardinality(Held') = Cardinality(Held)
<1>1. CASE to = "held" /\ pc[t] # "held"
  <2>1. Held' = Held \cup {t} /\ t \notin Held
    BY <1>1 DEF TypeOK, Held
  <2>2. QED BY <2>1, <1>1, HeldFinite, FS_AddElement, Zenon
<1>2. CASE to # "held" /\ pc[t] = "held"
  <2>1. Held' = Held \ {t} /\ t \in Held
    BY <1>2 DEF TypeOK, Held
  <2>2. QED BY <2>1, <1>2, HeldFinite, FS_RemoveElement
<1>3. CASE to = "held" <=> pc[t] = "held"
  <2>1. Held' = Held
    BY <1>3 DEF TypeOK, Held
  <2>2. QED BY <2>1, <1>3
<1>4. QED BY <1>1, <1>2, <1>3

LEMMA InitialisersAfter ==
    ASSUME TypeOK, NEW t \in Tasks, NEW to \in Stages,
           pc' = [pc EXCEPT ![t] = to]
    PROVE  /\ to \in {"delete", "rpush"} /\ t \notin Initialisers
                 => Cardinality(Initialisers') = Cardinality(Initialisers) + 1
           /\ to \notin {"delete", "rpush"} /\ t \in Initialisers
                 => Cardinality(Initialisers') = Cardinality(Initialisers) - 1
           /\ (to \in {"delete", "rpush"} <=> t \in Initialisers)
                 => Cardinality(Initialisers') = Cardinality(Initialisers)
<1>1. CASE to \in {"delete", "rpush"} /\ t \notin Initialisers
  <2>1. Initialisers' = Initialisers \cup {t}
    BY <1>1 DEF TypeOK, Initialisers
  <2>2. QED BY <2>1, <1>1, InitialisersFinite, FS_AddElement
<1>2. CASE to \notin {"delete", "rpush"} /\ t \in Initialisers
  <2>1. Initialisers' = Initialisers \ {t}
    BY <1>2 DEF TypeOK, Initialisers
  <2>2. QED BY <2>1, <1>2, InitialisersFinite, FS_RemoveElement
<1>3. CASE to \in {"delete", "rpush"} <=> t \in Initialisers
  <2>1. Initialisers' = Initialisers
    BY <1>3 DEF TypeOK, Initialisers
  <2>2. QED BY <2>1, <1>3
<1>4. QED BY <1>1, <1>2, <1>3

\* Tokens are conserved: whatever tasks interleave, crash or meet a Redis restart
\* between SETNX, DEL, RPUSH, BRPOP and LPUSH, there are never more tokens than
\* one initialisation per Redis lifetime pushes.
THEOREM BudgetKept == Spec => []SlotBudget
<1>1. Init => SlotBudget
  <2> SUFFICES ASSUME Init PROVE SlotBudget
    OBVIOUS
  <2>1. Held = {} /\ Initialisers = {}
    BY DEF Init, Held, Initialisers
  <2>2. QED BY <2>1, FS_EmptySet, ConcurrencyPositive DEF Init, SlotBudget
<1>2. TypeOK /\ SlotBudget /\ [Next]_vars => SlotBudget'
  <2> SUFFICES ASSUME TypeOK, SlotBudget, [Next]_vars PROVE SlotBudget'
    OBVIOUS
  <2> DEFINE h == Cardinality(Held)
             i == Cardinality(Initialisers)
  <2>0. /\ h \in Nat /\ i \in Nat /\ slots \in Nat /\ restarts \in Nat
        /\ init \in {0, 1} /\ Concurrency \in Nat
        /\ slots + h + Concurrency * i <= Concurrency * (restarts + init)
    BY HeldFinite, InitialisersFinite, ConcurrencyPositive, FaultBounds
       DEF TypeOK, SlotBudget
  <2> SUFFICES slots' + h' + Concurrency * i' <= Concurrency * (restarts' + init')
    BY DEF SlotBudget
  <2>1. ASSUME NEW t \in Tasks, Setnx(t)
        PROVE  slots' + h' + Concurrency * i' <= Concurrency * (restarts' + init')
    <3>1. CASE init = 1
      <4>1. h' = h /\ i' = i
        BY <2>1, <3>1, HeldAfter, InitialisersAfter, Zenon
           DEF Setnx, Move, Stages, Initialisers
      <4>2. QED BY <4>1, <3>1, <2>0, <2>1 DEF Setnx, faultVars
    <3>2. CASE init = 0
      <4>0. /\ pc[t] = "idle" /\ t \notin Initialisers
            /\ pc' = [pc EXCEPT ![t] = "delete"]
        BY <2>1, <3>2 DEF Setnx, Move, Initialisers
      <4>1. h' = h /\ i' = i + 1
        BY <4>0, HeldAfter, InitialisersAfter, Zenon DEF Stages
      <4>2. Concurrency * (i + 1) = Concurrency * i + Concurrency
        BY <2>0
      <4>3. Concurrency * (restarts + 1) = Concurrency * (restarts + 0) + Concurrency
        BY <2>0
      <4> HIDE DEF h, i
      <4>4. QED BY <4>1, <4>2, <4>3, <3>2, <2>0, <2>1 DEF Setnx, faultVars
    <3>3. QED BY <3>1, <3>2, <2>0
  <2>2. ASSUME NEW t \in Tasks, Delete(t)
        PROVE  slots' + h' + Concurrency * i' <= Concurrency * (restarts' + init')
    <3>1. h' = h /\ i' = i
      BY <2>2, HeldAfter, InitialisersAfter, Zenon
         DEF Delete, Move, Stages, Initialisers
    <3>2. QED BY <3>1, <2>0, <2>2 DEF Delete, faultVars
  <2>3. ASSUME NEW t \in Tasks, Rpush(t)
        PROVE  slots' + h' + Concurrency * i' <= Concurrency * (restarts' + init')
    <3>1. h' = h /\ i' = i - 1
      BY <2>3, HeldAfter, InitialisersAfter, Zenon
         DEF Rpush, Move, Stages, Initialisers
    <3>2. Concurrency * (i - 1) = Concurrency * i - Concurrency
      BY <2>0
    <3> HIDE DEF h, i
    <3>3. QED BY <3>1, <3>2, <2>0, <2>3 DEF Rpush, faultVars
  <2>4. ASSUME NEW t \in Tasks, Brpop(t)
        PROVE  slots' + h' + Concurrency * i' <= Concurrency * (restarts' + init')
    <3>1. h' = h + 1 /\ i' = i
      BY <2>4, HeldAfter, InitialisersAfter, Zenon
         DEF Brpop, Move, Stages, Initialisers
    <3>2. QED BY <3>1, <2>0, <2>4 DEF Brpop, faultVars
  <2>5. ASSUME NEW t \in Tasks, BrpopTimeout(t)
        PROVE  slots' + h' + Concurrency * i' <= Concurrency * (restarts' + init')
    <3>1. h' = h /\ i' = i
      BY <2>5, HeldAfter, InitialisersAfter, Zenon
         DEF BrpopTimeout, Move, Stages, Initialisers
    <3>2. QED BY <3>1, <2>0, <2>5 DEF BrpopTimeout, faultVars
  <2>6. ASSUME NEW t \in Tasks, Release(t)
        PROVE  slots' + h' + Concurrency * i' <= Concurrency * (restarts' + init')
    <3>1. h' = h - 1 /\ i' = i
      BY <2>6, HeldAfter, InitialisersAfter, Zenon
         DEF Release, Move, Stages, Initialisers
    <3>2. QED BY <3>1, <2>0, <2>6 DEF Release, faultVars
  <2>7. ASSUME NEW t \in Tasks, Lose(t)
        PROVE  slots' + h' + Concurrency * i' <= Concurrency * (restarts' + init')
    <3>0. pc' = [pc EXCEPT ![t] = "idle"] /\ "idle" \in Stages
      BY <2>7 DEF Lose, Stages
    <3>1. h' = h \/ h' = h - 1
      BY <3>0, HeldAfter, Zenon
    <3>2. i' = i \/ i' = i - 1
      BY <3>0, InitialisersAfter, Zenon
    <3>3. Concurrency * (i - 1) = Concurrency * i - Concurrency
      BY <2>0
    <3> HIDE DEF h, i
    <3>4. QED BY <3>1, <3>2, <3>3, <2>0, <2>7 DEF Lose
  <2>8. CASE RedisRestart
    <3>1. h' = h /\ i' = i
      BY <2>8 DEF RedisRestart, Held, Initialisers
    <3>2. /\ Concurrency * (restarts + 1 + 0) = Concurrency * restarts + Concurrency
          /\ Concurrency * (restarts + 0) = Concurrency * restarts
          /\ Concurrency * (restarts + 1) = Concurrency * restarts + Concurrency
      BY <2>0
    <3> HIDE DEF h, i
    <3>3. QED BY <3>1, <3>2, <2>0, <2>8 DEF RedisRestart
  <2>9. CASE UNCHANGED vars
    <3>1. h' = h /\ i' = i
      BY <2>9 DEF vars, faultVars, Held, Initialisers
    <3>2. QED BY <3>1, <2>0, <2>9 DEF vars, faultVars
  <2>10. QED
    BY <2>1, <2>2, <2>3, <2>4, <2>5, <2>6, <2>7, <2>8, <2>9 DEF Next
<1>3. QED BY <1>1, <1>2, TypeCorrect, PTL DEF Spec

\* A budget of one initialisation more is worth Concurrency slots more.
LEMMA BudgetMonotone ==
    ASSUME NEW a \in Nat, NEW b \in Nat, a <= b
    PROVE  Concurrency * a <= Concurrency * b
<1>1. PICK d \in Nat : b = a + d
  <2>1. b - a \in Nat /\ b = a + (b - a)
    OBVIOUS
  <2>2. QED BY <2>1
<1>2. Concurrency * (a + d) = Concurrency * a + Concurrency * d
  BY ConcurrencyPositive
<1>3. Concurrency * d \in Nat /\ Concurrency * a \in Nat
  BY ConcurrencyPositive
<1>4. QED BY <1>1, <1>2, <1>3

\* The holders that the budget leaves room for.
LEMMA HoldersWithinBudget ==
    ASSUME TypeOK, SlotBudget
    PROVE  /\ slots + Cardinality(Held) <= Concurrency * (restarts + 1)
           /\ slots + Cardinality(Held) <= Concurrency * (MaxRestarts + 1)
<1> DEFINE h == Cardinality(Held)
           i == Cardinality(Initialisers)
<1>1. /\ h \in Nat /\ i \in Nat /\ slots \in Nat /\ Concurrency \in Nat
      /\ restarts \in Nat /\ MaxRestarts \in Nat /\ restarts <= MaxRestarts
      /\ init \in {0, 1}
  BY HeldFinite, InitialisersFinite, ConcurrencyPositive, FaultBounds DEF TypeOK
<1>2. /\ Concurrency * (restarts + init) <= Concurrency * (restarts + 1)
      /\ Concurrency * (restarts + 1) <= Concurrency * (MaxRestarts + 1)
  <2>1. /\ restarts + init \in Nat /\ restarts + 1 \in Nat /\ MaxRestarts + 1 \in Nat
        /\ restarts + init <= restarts + 1 /\ restarts + 1 <= MaxRestarts + 1
    BY <1>1
  <2>2. QED BY <2>1, BudgetMonotone
<1>3. /\ Concurrency * i \in Nat
      /\ Concurrency * (restarts + init) \in Nat
      /\ Concurrency * (restarts + 1) \in Nat
      /\ Concurrency * (MaxRestarts + 1) \in Nat
  BY <1>1
<1>4. slots + h + Concurrency * i <= Concurrency * (restarts + init)
  BY DEF SlotBudget
<1> HIDE DEF h, i
<1>5. /\ slots + h <= Concurrency * (restarts + 1)
      /\ slots + h <= Concurrency * (MaxRestarts + 1)
  BY <1>1, <1>2, <1>3, <1>4
<1>6. QED BY <1>5 DEF h

\* "Limits concurrent compilers": for every number of tasks, however many of them
\* are lost, at most Concurrency are inside the block in the first lifetime of
\* Redis, and each restart admits at most Concurrency more.
THEOREM HoldersBounded == Spec => []BoundedHolders
<1>1. TypeOK /\ SlotBudget => BoundedHolders
  <2> SUFFICES ASSUME TypeOK, SlotBudget PROVE BoundedHolders
    OBVIOUS
  <2>1. /\ Cardinality(Held) \in Nat /\ slots \in Nat
        /\ Concurrency * (restarts + 1) \in Nat
    BY HeldFinite, ConcurrencyPositive, FaultBounds DEF TypeOK
  <2>2. QED BY <2>1, HoldersWithinBudget DEF BoundedHolders
<1>2. QED BY <1>1, TypeCorrect, BudgetKept, PTL

\* Every slot that is missing went with a lost task: the initialiser that wins
\* SETNX brings all the slots, and BRPOP and LPUSH only move them.
THEOREM SlotsKept == Spec => []NoSlotLost
<1>1. Init => NoSlotLost
  BY DEF Init, NoSlotLost
<1>2. TypeOK /\ NoSlotLost /\ [Next]_vars => NoSlotLost'
  <2> SUFFICES ASSUME TypeOK, NoSlotLost, [Next]_vars,
                      init' = 1, Initialisers' = {}
               PROVE  slots' + Cardinality(Held)' + lost' >= Concurrency
    BY DEF NoSlotLost
  <2> DEFINE h == Cardinality(Held)
  <2>0. /\ h \in Nat /\ slots \in Nat /\ lost \in Nat /\ Concurrency \in Nat
        /\ init \in {0, 1} /\ pc \in [Tasks -> Stages]
    BY HeldFinite, ConcurrencyPositive, FaultBounds DEF TypeOK
  <2>1. ASSUME NEW t \in Tasks, Setnx(t)
        PROVE  slots' + h' + lost' >= Concurrency
    <3>1. init = 1
      BY <2>1, <2>0 DEF Setnx, Move, Initialisers
    <3>2. Initialisers = {}
      BY <2>1, <2>0, <3>1 DEF Setnx, Move, Initialisers
    <3>3. h' = h
      BY <2>1, <3>1, HeldAfter, Zenon DEF Setnx, Move, Stages
    <3>4. QED BY <2>0, <2>1, <3>1, <3>2, <3>3 DEF NoSlotLost, Setnx, faultVars
  <2>2. ASSUME NEW t \in Tasks, Delete(t)
        PROVE  slots' + h' + lost' >= Concurrency
    BY <2>2, <2>0 DEF Delete, Move, Initialisers
  <2>3. ASSUME NEW t \in Tasks, Rpush(t)
        PROVE  slots' + h' + lost' >= Concurrency
    <3>1. h' = h
      BY <2>3, HeldAfter, Zenon DEF Rpush, Move, Stages
    <3>2. QED BY <2>0, <2>3, <3>1 DEF Rpush, faultVars
  <2>4. ASSUME NEW t \in Tasks,
               Brpop(t) \/ BrpopTimeout(t) \/ Release(t)
        PROVE  slots' + h' + lost' >= Concurrency
    <3>1. Initialisers = {} /\ init = 1 /\ lost' = lost
      BY <2>4, <2>0
         DEF Brpop, BrpopTimeout, Release, Move, Initialisers, faultVars
    <3>2. slots' + h' = slots + h
      BY <2>4, <2>0, HeldAfter DEF Brpop, BrpopTimeout, Release, Move, Stages
    <3>3. h' \in Int /\ slots' \in Int
      <4>1. h' = h \/ h' = h - 1 \/ h' = h + 1
        BY <2>4, HeldAfter, Zenon DEF Brpop, BrpopTimeout, Release, Move, Stages
      <4>2. slots' = slots \/ slots' = slots - 1 \/ slots' = slots + 1
        BY <2>4 DEF Brpop, BrpopTimeout, Release
      <4> HIDE DEF h
      <4>3. QED BY <4>1, <4>2, <2>0
    <3> HIDE DEF h
    <3>4. slots + h + lost >= Concurrency
      BY <3>1 DEF NoSlotLost, h
    <3>5. QED BY <3>1, <3>2, <3>3, <3>4, <2>0
  <2>5. ASSUME NEW t \in Tasks, Lose(t)
        PROVE  slots' + h' + lost' >= Concurrency
    <3>0. /\ pc' = [pc EXCEPT ![t] = "idle"] /\ "idle" \in Stages
          /\ slots' = slots /\ init = 1 /\ lost' = lost + Owes(t)
      BY <2>5 DEF Lose, Stages
    <3>1. CASE t \in Initialisers
      <4>1. Owes(t) = Concurrency
        BY <3>1 DEF Owes, Initialisers
      <4>2. h' = h
        BY <3>0, <3>1, HeldAfter, Zenon DEF Initialisers
      <4>3. QED BY <4>1, <4>2, <3>0, <2>0
    <3>2. CASE t \notin Initialisers
      <4>1. Initialisers = {}
        BY <3>0, <3>2, <2>0 DEF Initialisers
      <4>2. h' + Owes(t) = h
        <5>1. CASE pc[t] = "held"
          <6>1. h' = h - 1
            BY <5>1, <3>0, HeldAfter, Zenon
          <6>2. Owes(t) = 1
            BY <5>1 DEF Owes, Initialisers
          <6> HIDE DEF h
          <6>3. QED BY <6>1, <6>2, <2>0
        <5>2. CASE pc[t] # "held"
          <6>1. h' = h
            BY <5>2, <3>0, HeldAfter, Zenon
          <6>2. QED BY <6>1, <5>2, <3>2, <2>0 DEF Owes
        <5>3. QED BY <5>1, <5>2
      <4>3. h' \in Int /\ Owes(t) \in Int
        <5>1. Owes(t) \in Int
          BY ConcurrencyPositive DEF Owes
        <5>2. h' = h \/ h' = h - 1
          BY <3>0, HeldAfter, Zenon
        <5> HIDE DEF h
        <5>3. QED BY <5>1, <5>2, <2>0
      <4> HIDE DEF h
      <4>4. slots + h + lost >= Concurrency
        BY <4>1, <3>0 DEF NoSlotLost, h
      <4>5. QED BY <4>2, <4>3, <4>4, <3>0, <2>0
    <3>3. QED BY <3>1, <3>2
  <2>6. CASE RedisRestart
    BY <2>6 DEF RedisRestart
  <2>7. CASE UNCHANGED vars
    BY <2>7 DEF vars, faultVars, NoSlotLost, Held, Initialisers
  <2>8. QED BY <2>1, <2>2, <2>3, <2>4, <2>5, <2>6, <2>7 DEF Next
<1>3. QED BY <1>1, <1>2, TypeCorrect, PTL DEF Spec

\* _semaphore() implements a counting semaphore: with no Redis restart, one of
\* Concurrency slots, whichever tasks are lost on the way.
THEOREM Refinement == Spec => ImplementsSemaphore
<1>1. Init => Semaphore!Init
  BY DEF Init, Semaphore!Init, Held
<1>2. TypeOK /\ SlotBudget /\ [Next]_vars => [Semaphore!Next]_Held
  <2> SUFFICES ASSUME TypeOK, SlotBudget, [Next]_vars
               PROVE  Semaphore!Next \/ Held' = Held
    OBVIOUS
  <2>1. ASSUME NEW t \in Tasks, Brpop(t)
        PROVE  Semaphore!Acquire(t)
    <3>1. t \notin Held /\ Held' = Held \cup {t}
      BY <2>1 DEF Brpop, Move, Held, TypeOK
    <3>2. Cardinality(Held) < Concurrency * (MaxRestarts + 1)
      <4>1. /\ Cardinality(Held) \in Nat /\ slots \in Nat /\ slots > 0
            /\ Concurrency * (MaxRestarts + 1) \in Nat
        BY <2>1, HeldFinite, ConcurrencyPositive, FaultBounds DEF TypeOK, Brpop
      <4>2. QED BY <4>1, HoldersWithinBudget
    <3>3. QED BY <3>1, <3>2 DEF Semaphore!Acquire, Semaphore!Cardinality, Cardinality,
        Semaphore!IsFiniteSet, IsFiniteSet
  <2>2. ASSUME NEW t \in Tasks, Release(t) \/ Lose(t)
        PROVE  Semaphore!Leave(t) \/ Held' = Held
    BY <2>2 DEF Release, Lose, Move, Held, TypeOK, Semaphore!Leave
  <2>3. ASSUME NEW t \in Tasks,
               Setnx(t) \/ Delete(t) \/ Rpush(t) \/ BrpopTimeout(t)
        PROVE  Held' = Held
    BY <2>3 DEF Setnx, Delete, Rpush, BrpopTimeout, Move, Held, TypeOK
  <2>4. CASE RedisRestart \/ UNCHANGED vars
    BY <2>4 DEF RedisRestart, vars, Held
  <2>5. QED BY <2>1, <2>2, <2>3, <2>4 DEF Next, Semaphore!Next
<1>3. QED
  BY <1>1, <1>2, TypeCorrect, BudgetKept, PTL
     DEF Spec, ImplementsSemaphore, Semaphore!Spec
=============================================================================
