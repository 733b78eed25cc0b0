------------------------- MODULE JobQueueInvariant --------------------------
(*****************************************************************************)
(* The inductive invariant of JobQueue, for every set of handlers, slots and *)
(* requests, every limit and every number of faults, and that every step     *)
(* preserves each of its parts: the types, Handlers (about the handlers),    *)
(* Places (where a job is), RunBudget (its code is run once) and Truth       *)
(* (reports agree with runs).                                                *)
(*****************************************************************************)
EXTENDS JobQueue, TLAPS

\* Where a job can be on its way, and who is still going to run its code.
InQueue(j) == \E i \in 1..Len(queue) : queue[i] = j
Held(j) == \E s \in Slots : Busy(s) /\ job[s] = j
Assigned(j) == \E s \in Slots : spc[s] \in {"mark", "execute"} /\ job[s] = j
DirectOwes(j) == \E c \in Clients : pc[c] \in {"push", "sem", "direct"} /\ cur[c] = j

\* A request is with one handler, which has not answered it yet.
Handlers ==
    /\ \A c, d \in Clients : cur[c] \in Jobs /\ cur[c] = cur[d] => c = d
    /\ \A c \in Clients : cur[c] \in Jobs => answer[cur[c]] = "none"
    /\ \A c \in Clients : pc[c] = "push" => age[cur[c]] = Unsent
    /\ \A c \in Clients : pc[c] \in {"sem", "direct"} /\ age[cur[c]] # Unsent => cur[c] \in unsure

\* A job is in one place: before it is sent nowhere, then in the queue, with one slot,
\* or in the list of its results.
OnceQueued == \A i, k \in 1..Len(queue) : queue[i] = queue[k] => i = k
OnceHeld == \A s, t \in Slots : Busy(s) /\ Busy(t) /\ job[s] = job[t] => s = t
Placed(j) ==
    /\ age[j] = Unsent => ~InQueue(j) /\ ~Held(j) /\ results[j] = <<>> /\ j \notin unsure
    /\ InQueue(j) => ~Held(j) /\ results[j] = <<>>
    /\ j \notin unsure /\ (InQueue(j) \/ Held(j)) => results[j] = <<>> /\ answer[j] \notin Results
    /\ j \notin unsure /\ results[j] # <<>> => Len(results[j]) = 1 /\ answer[j] \notin Results
Places == OnceQueued /\ OnceHeld /\ \A j \in Jobs : Placed(j)

\* The code of a request is run once, or twice if the request is in doubt, counting the
\* runs that are still to come.
SlotOwes(j) == InQueue(j) \/ Assigned(j)
Budget(j) ==
    /\ age[j] = Unsent /\ answer[j] = "none" => runs[j] = 0
    /\ SlotOwes(j) \/ DirectOwes(j) => runs[j] <= 1
    /\ SlotOwes(j) /\ DirectOwes(j) => runs[j] = 0 /\ j \in unsure
    /\ j \notin unsure /\ (SlotOwes(j) \/ DirectOwes(j)) => runs[j] = 0
RunBudget == \A j \in Jobs : Budget(j)

\* The results that agree with what the runs of each request came to
TrueOf ==
    [j \in Jobs |-> {o \in Results :
        /\ o = "result" => "result" \in outcomes[j]
        /\ o = "rejected" => "rejected" \in outcomes[j]
        /\ o = "internal" => "internal" \in outcomes[j] \/ faults > 0
        /\ o = "expired" => runs[j] = 0 \/ j \in unsure}]

\* What a slot is going to report and what it has reported is true.
Truth ==
    /\ \A s \in Slots : spc[s] \in {"done", "report"} => found[s] \in TrueOf[job[s]]
    /\ \A j \in Jobs : \A i \in 1..Len(results[j]) : results[j][i] \in TrueOf[j]

\* The inductive invariant
IInv == TypeOK /\ Handlers /\ Places /\ RunBudget /\ Truth

\* The types of the handlers', the slots', Redis's and the history's variables
HandlerTypes ==
    /\ pc \in [Clients -> ClientStages]
    /\ cur \in [Clients -> Jobs \cup {NoJob}]
    /\ \A c \in Clients : pc[c] # "idle" => cur[c] \in Jobs
    /\ answer \in [Jobs -> {"none"} \cup Results \cup HttpErrors]
SlotTypes ==
    /\ spc \in [Slots -> SlotStages]
    /\ job \in [Slots -> Jobs \cup {NoJob}]
    /\ \A s \in Slots : Busy(s) => job[s] \in Jobs
    /\ found \in [Slots -> Results \cup {"none"}]
StoreTypes == results \in [Jobs -> Seq(Results)] /\ age \in [Jobs -> Int]
HistTypes == runs \in [Jobs -> Nat] /\ outcomes \in [Jobs -> SUBSET Executed] /\ faults \in Nat

\* TypeOK, in parts that a step needs one or two of
LEMMA TypesOf == TypeOK => HandlerTypes /\ SlotTypes /\ StoreTypes /\ HistTypes
BY DEF TypeOK, HandlerTypes, SlotTypes, StoreTypes, HistTypes

-----------------------------------------------------------------------------
(* What the commands on the queue do to it. *)

\* LPUSH puts the job into the queue and moves the others up.
LEMMA AfterPush ==
    ASSUME TypeOK, NEW k \in Jobs, queue' = <<k>> \o queue
    PROVE  /\ queue' \in Seq(Jobs)
           /\ \A j : InQueue(j)' <=> j = k \/ InQueue(j)
           /\ OnceQueued /\ ~InQueue(k) => OnceQueued'
<1>1. /\ queue' \in Seq(Jobs) /\ Len(queue') = Len(queue) + 1 /\ Len(queue) \in Nat
      /\ queue'[1] = k /\ \A i \in 1..Len(queue) : queue'[i + 1] = queue[i]
  BY DEF TypeOK
<1>2. \A i \in 1..Len(queue') : i = 1 \/ (i - 1 \in 1..Len(queue) /\ queue'[i] = queue[i - 1])
  BY <1>1
<1>3. \A j : InQueue(j)' <=> j = k \/ InQueue(j)
  <2> TAKE j
  <2>1. ASSUME InQueue(j)' PROVE j = k \/ InQueue(j)
    BY <1>1, <1>2, <2>1 DEF InQueue
  <2>2. ASSUME InQueue(j) PROVE InQueue(j)'
    <3>1. PICK i \in 1..Len(queue) : queue[i] = j
      BY <2>2 DEF InQueue
    <3>2. i + 1 \in 1..Len(queue') /\ queue'[i + 1] = j
      BY <1>1, <3>1
    <3>3. QED BY <3>2 DEF InQueue
  <2>3. InQueue(k)'
    <3>1. 1 \in 1..Len(queue') /\ queue'[1] = k
      BY <1>1
    <3>2. QED BY <3>1 DEF InQueue
  <2>4. QED BY <2>1, <2>2, <2>3
<1>4. ASSUME OnceQueued, ~InQueue(k) PROVE OnceQueued'
  <2> SUFFICES ASSUME NEW i \in 1..Len(queue'), NEW n \in 1..Len(queue'), queue'[i] = queue'[n]
               PROVE  i = n
    BY Zenon DEF OnceQueued
  <2>1. CASE i = 1 \/ n = 1
    BY <1>1, <1>2, <1>4, <2>1 DEF InQueue
  <2>2. CASE i # 1 /\ n # 1
    <3>1. /\ i - 1 \in 1..Len(queue) /\ n - 1 \in 1..Len(queue)
          /\ queue[i - 1] = queue[n - 1]
      BY <1>2, <2>2
    <3>2. i - 1 = n - 1
      BY <1>4, <3>1, Zenon DEF OnceQueued
    <3>3. QED BY <1>1, <3>2
  <2>3. QED BY <2>1, <2>2
<1>5. QED BY <1>1, <1>3, <1>4

\* The others keep their places when the last element of a sequence goes.
LEMMA WithoutLast ==
    ASSUME NEW S, NEW q \in Seq(S), q # <<>>
    PROVE  LET r == SubSeq(q, 1, Len(q) - 1) IN
           /\ r \in Seq(S) /\ Len(r) = Len(q) - 1 /\ Len(q) \in Nat \ {0} /\ q[Len(q)] \in S
           /\ \A i \in 1..(Len(q) - 1) : r[i] = q[i]
<1> DEFINE r == SubSeq(q, 1, Len(q) - 1)
<1>1. Len(q) \in Nat \ {0} /\ q[Len(q)] \in S
  OBVIOUS
<1>2. r \in Seq(S) /\ Len(r) = Len(q) - 1
  <2>1. r \in Seq(S) /\ Len(r) = IF 1 <= Len(q) - 1 THEN Len(q) - 1 - 1 + 1 ELSE 0
    BY <1>1
  <2>2. \A n \in Nat \ {0} : (IF 1 <= n - 1 THEN n - 1 - 1 + 1 ELSE 0) = n - 1
    OBVIOUS
  <2>3. QED BY <1>1, <2>1, <2>2, Zenon
<1>3. \A i \in 1..(Len(q) - 1) : r[i] = q[i]
  BY <1>1
<1>4. QED BY <1>1, <1>2, <1>3

\* RPOP takes the oldest job out.
LEMMA AfterPop ==
    ASSUME TypeOK, queue # <<>>, OnceQueued, queue' = SubSeq(queue, 1, Len(queue) - 1)
    PROVE  /\ queue' \in Seq(Jobs) /\ queue[Len(queue)] \in Jobs /\ InQueue(queue[Len(queue)])
           /\ \A j : InQueue(j)' <=> InQueue(j) /\ j # queue[Len(queue)]
           /\ OnceQueued'
<1>1. /\ queue' \in Seq(Jobs) /\ Len(queue') = Len(queue) - 1 /\ Len(queue) \in Nat \ {0}
      /\ queue[Len(queue)] \in Jobs /\ \A i \in 1..(Len(queue) - 1) : queue'[i] = queue[i]
  BY WithoutLast DEF TypeOK
<1>2. InQueue(queue[Len(queue)])
  BY <1>1 DEF InQueue
<1>3. \A j : InQueue(j)' <=> InQueue(j) /\ j # queue[Len(queue)]
  BY <1>1 DEF InQueue, OnceQueued
<1>4. OnceQueued'
  BY <1>1 DEF OnceQueued
<1>5. QED BY <1>1, <1>2, <1>3, <1>4

\* Nothing is left of a list of one result once it was taken.
LEMMA TailOfOne ==
    ASSUME NEW S, NEW q \in Seq(S), Len(q) = 1
    PROVE  Tail(q) = <<>>
<1>1. Tail(q) \in Seq(S) /\ Len(Tail(q)) = Len(q) - 1
  OBVIOUS
<1>2. Len(Tail(q)) = 0
  BY <1>1
<1>3. \A r \in Seq(S) : Len(r) = 0 => r = <<>>
  OBVIOUS
<1>4. QED BY <1>1, <1>2, <1>3, Zenon

-----------------------------------------------------------------------------
(* The invariant, one conjunct at a time. *)

\* Types
LEMMA TypeStep == IInv /\ [Next]_vars => TypeOK'
<1> SUFFICES ASSUME IInv, [Next]_vars PROVE TypeOK'
  OBVIOUS
<1> USE FaultAssumption, NoJobAssumption DEF IInv, TypeOK, Busy, redisVars, queueVars, clientVars, slotVars, histVars
<1>1. ASSUME NEW c \in Clients, Llen(c) PROVE TypeOK'
  <2>1. PICK j \in Jobs :
           \/ /\ pc' = [pc EXCEPT ![c] = "push"]
              /\ cur' = [cur EXCEPT ![c] = j]
              /\ UNCHANGED answer
           \/ /\ answer' = [answer EXCEPT ![j] = "503"]
              /\ UNCHANGED <<pc, cur>>
    BY <1>1, Zenon DEF Llen
  <2>2. UNCHANGED <<redisVars, age, sem, slotVars, stopping, histVars, unsure, faults>>
    BY <1>1, Zenon DEF Llen
  <2>3. answer' \in [Jobs -> {"none"} \cup Results \cup HttpErrors]
    BY <2>1, Zenon DEF HttpErrors
  <2>4. /\ pc' \in [Clients -> ClientStages]
        /\ cur' \in [Clients -> Jobs \cup {NoJob}]
        /\ \A d \in Clients : pc'[d] # "idle" => cur'[d] \in Jobs
    <3>1. CASE pc' = [pc EXCEPT ![c] = "push"] /\ cur' = [cur EXCEPT ![c] = j]
      BY <3>1 DEF ClientStages
    <3>2. CASE UNCHANGED <<pc, cur>>
      BY <3>2, Zenon
    <3>3. QED BY <2>1, <3>1, <3>2, Zenon
  <2>5. QED BY <2>2, <2>3, <2>4, Zenon
<1>2. ASSUME NEW c \in Clients, Enqueue(c) PROVE TypeOK'
  <2>1. cur[c] \in Jobs /\ queue' \in Seq(Jobs)
    BY <1>2, AfterPush, Zenon DEF Enqueue, Pushed
  <2>2. QED BY <1>2, <2>1 DEF Enqueue, Pushed, ClientStages
<1>3. ASSUME NEW c \in Clients, Blpop(c) PROVE TypeOK'
  BY <1>3 DEF Blpop, Answer, ClientStages
<1>4. ASSUME NEW c \in Clients, BlpopTimeout(c) \/ SemTimeout(c) PROVE TypeOK'
  <2>1. CASE BlpopTimeout(c)
    BY <2>1, Zenon DEF BlpopTimeout, Answer, ClientStages, HttpErrors
  <2>2. CASE SemTimeout(c)
    BY <2>2, Zenon DEF SemTimeout, Answer, ClientStages, HttpErrors
  <2>3. QED BY <1>4, <2>1, <2>2, Zenon
<1>5. ASSUME NEW c \in Clients, SemAcquire(c) PROVE TypeOK'
  BY <1>5 DEF SemAcquire, ClientStages
<1>6. ASSUME NEW c \in Clients, DirectDone(c) PROVE TypeOK'
  BY <1>6 DEF DirectDone, Answer, Run, HttpOf, ClientStages, HttpErrors, Results, Executed
<1>7. ASSUME NEW c \in Clients, LlenFails(c) PROVE TypeOK'
  BY <1>7 DEF LlenFails, Fault, ClientStages
<1>8. ASSUME NEW c \in Clients, EnqueueFails(c) PROVE TypeOK'
  <2>1. CASE UNCHANGED <<redisVars, age, unsure>>
    BY <1>8, <2>1 DEF EnqueueFails, Fault, ClientStages
  <2>2. CASE Pushed(c) /\ unsure' = unsure \cup {cur[c]}
    <3>1. cur[c] \in Jobs /\ queue' \in Seq(Jobs)
      BY <1>8, <2>2, AfterPush, Zenon DEF EnqueueFails, Pushed
    <3>2. QED BY <1>8, <2>2, <3>1 DEF EnqueueFails, Pushed, Fault, ClientStages
  <2>3. QED BY <1>8, <2>1, <2>2, Zenon DEF EnqueueFails
<1>9. ASSUME NEW c \in Clients, BlpopFails(c) PROVE TypeOK'
  <2>1. cur[c] \in Jobs
    BY <1>9, Zenon DEF BlpopFails
  <2>2. results' \in [Jobs -> Seq(Results)]
    <3>1. results[cur[c]] # <<>> => Tail(results[cur[c]]) \in Seq(Results)
      BY <2>1
    <3>2. QED BY <1>9, <2>1, <3>1, Zenon DEF BlpopFails
  <2>3. Answer(c, "503") /\ Fault /\ UNCHANGED <<queueVars, status, age, sem, slotVars, stopping, histVars, unsure>>
    BY <1>9, Zenon DEF BlpopFails
  <2>4. QED BY <2>1, <2>2, <2>3 DEF Answer, Fault, ClientStages, HttpErrors
<1>10. ASSUME NEW s \in Slots, Brpop(s) PROVE TypeOK'
  <2>1. queue' \in Seq(Jobs) /\ queue[Len(queue)] \in Jobs
    BY <1>10, AfterPop, Zenon DEF Brpop, Popped, Places
  <2>2. by' \in [Jobs -> Clients \cup {NoJob}]
    BY <1>10, <2>1, Zenon DEF Brpop, Popped
  <2>3. job' = [job EXCEPT ![s] = queue[Len(queue)]]
    BY <1>10, Zenon DEF Brpop
  <2>4. \/ spc' = [spc EXCEPT ![s] = "report"] /\ found' = [found EXCEPT ![s] = "expired"]
        \/ spc' = [spc EXCEPT ![s] = "mark"] /\ UNCHANGED found
    BY <1>10, Zenon DEF Brpop
  <2>5. UNCHANGED <<status, results, age, clientVars, stopping, histVars, unsure, faults>>
    BY <1>10, Zenon DEF Brpop
  <2>6. QED BY <2>1, <2>2, <2>3, <2>4, <2>5, Zenon DEF SlotStages, Results, Busy
<1>11. ASSUME NEW s \in Slots, SlotExit(s) PROVE TypeOK'
  BY <1>11, Zenon DEF SlotExit, SlotStages, Busy
<1>12. ASSUME NEW s \in Slots, MarkRunning(s) PROVE TypeOK'
  BY <1>12, Zenon DEF MarkRunning, SlotStages, Busy
<1>13. ASSUME NEW s \in Slots, Execute(s) PROVE TypeOK'
  BY <1>13 DEF Execute, Run, SlotStages, Busy, Results, Executed
<1>14. ASSUME NEW s \in Slots, MarkDone(s) PROVE TypeOK'
  <2>1. job[s] \in Jobs /\ found[s] \in Results
    BY <1>14, Zenon DEF MarkDone, Truth, TrueOf, Busy
  <2>2. <<found[s]>> \o results[job[s]] \in Seq(Results)
    BY <2>1
  <2>3. results' \in [Jobs -> Seq(Results)] /\ status' \in [Jobs -> {"none", "queued", "running", "done"}]
    BY <1>14, <2>1, <2>2, Zenon DEF MarkDone, Reported
  <2>4. QED BY <1>14, <2>3 DEF MarkDone, Reported, NextRound, SlotStages, Busy
<1>15. ASSUME NEW s \in Slots, BrpopFails(s) PROVE TypeOK'
  <2>1. queue' \in Seq(Jobs) /\ queue[Len(queue)] \in Jobs
    BY <1>15, AfterPop, Zenon DEF BrpopFails, Popped, Places
  <2>2. QED BY <1>15, <2>1 DEF BrpopFails, Popped, Fault
<1>16. ASSUME NEW s \in Slots, MarkRunningFails(s) PROVE TypeOK'
  <2>1. status' \in [Jobs -> {"none", "queued", "running", "done"}]
    BY <1>16, Zenon DEF MarkRunningFails
  <2>2. QED BY <1>16, <2>1 DEF MarkRunningFails, Dies, Fault, SlotStages, Busy
<1>17. ASSUME NEW s \in Slots, MarkDoneFails(s) PROVE TypeOK'
  <2>1. job[s] \in Jobs /\ found[s] \in Results
    BY <1>17, Zenon DEF MarkDoneFails, Truth, TrueOf, Busy
  <2>2. <<found[s]>> \o results[job[s]] \in Seq(Results)
    BY <2>1
  <2>3. /\ results' \in [Jobs -> Seq(Results)]
        /\ status' \in [Jobs -> {"none", "queued", "running", "done"}]
        /\ unsure' \in SUBSET Jobs
        /\ UNCHANGED queueVars
    <3>1. CASE UNCHANGED <<redisVars, unsure>>
      BY <3>1, Zenon
    <3>2. CASE Reported(job[s], found[s]) /\ unsure' = unsure \cup {job[s]}
      BY <2>1, <2>2, <3>2, Zenon DEF Reported
    <3>3. QED BY <1>17, <3>1, <3>2, Zenon DEF MarkDoneFails
  <2>4. Fault /\ UNCHANGED <<age, clientVars, stopping, histVars>>
    BY <1>17, Zenon DEF MarkDoneFails
  <2>5. CASE spc' = [spc EXCEPT ![s] = "report"] /\ found' = [found EXCEPT ![s] = "internal"] /\ UNCHANGED job
    <3>1. found' \in [Slots -> Results \cup {"none"}]
      BY <2>5, Zenon DEF Results, Executed
    <3>2. QED BY <2>1, <2>3, <2>4, <2>5, <3>1 DEF Fault, SlotStages
  <2>6. CASE Dies(s)
    BY <2>3, <2>4, <2>6 DEF Dies, Fault, SlotStages
  <2>7. QED BY <1>17, <2>5, <2>6, Zenon DEF MarkDoneFails
<1>18. ASSUME NEW s \in Slots, WorkerCrash(s) PROVE TypeOK'
  BY <1>18 DEF WorkerCrash, Fault, SlotStages, Busy
<1>19. ASSUME NEW s \in Slots, Signal(s) PROVE TypeOK'
  BY <1>19, Zenon DEF Signal, Busy
<1>20. CASE RedisRestart
  BY <1>20 DEF RedisRestart, Fault, ClientStages, HttpErrors, Busy
<1>21. CASE Tick
  BY <1>21 DEF Tick, Aging, Busy
<1>22. CASE UNCHANGED vars
  BY <1>22, Zenon DEF vars, Busy
<1>23. QED
  BY <1>1, <1>2, <1>3, <1>4, <1>5, <1>6, <1>7, <1>8, <1>9, <1>10, <1>11, <1>12, <1>13, <1>14, <1>15,
     <1>16, <1>17, <1>18, <1>19, <1>20, <1>21, <1>22, Zenon DEF Next, ClientStep, SlotStep, Finished

\* The steps of a slot leave the handlers and the ages alone.
LEMMA SlotFrame ==
    ASSUME NEW s \in Slots,
           \/ SlotStep(s) \/ BrpopFails(s) \/ MarkRunningFails(s) \/ MarkDoneFails(s)
           \/ WorkerCrash(s) \/ Signal(s)
    PROVE  UNCHANGED <<age, pc, cur, answer>> /\ unsure \subseteq unsure'
<1> USE DEF clientVars
<1>1. CASE SlotStep(s)
  BY <1>1, Zenon DEF SlotStep, Brpop, SlotExit, MarkRunning, Execute, MarkDone
<1>2. CASE BrpopFails(s) \/ MarkRunningFails(s) \/ MarkDoneFails(s) \/ WorkerCrash(s) \/ Signal(s)
  BY <1>2, Zenon DEF BrpopFails, MarkRunningFails, MarkDoneFails, WorkerCrash, Signal
<1>3. QED BY <1>1, <1>2

\* Handlers: Fresh() keeps a request from being taken twice.
LEMMA HandlersStep == IInv /\ [Next]_vars => Handlers'
<1> SUFFICES ASSUME IInv, [Next]_vars PROVE Handlers'
  OBVIOUS
<1>y. HandlerTypes /\ StoreTypes /\ Handlers
  BY TypesOf DEF IInv
<1> USE <1>y, NoJobAssumption DEF HandlerTypes, StoreTypes, Handlers, Unsent
<1>1. ASSUME NEW c \in Clients, Llen(c) PROVE Handlers'
  <2>1. PICK j \in Jobs :
           /\ Fresh(j)
           /\ \/ /\ pc' = [pc EXCEPT ![c] = "push"]
                 /\ cur' = [cur EXCEPT ![c] = j]
                 /\ UNCHANGED answer
              \/ /\ answer' = [answer EXCEPT ![j] = "503"]
                 /\ UNCHANGED <<pc, cur>>
    BY <1>1, Zenon DEF Llen
  <2>2. UNCHANGED <<age, unsure>>
    BY <1>1, Zenon DEF Llen
  <2>3. CASE /\ pc' = [pc EXCEPT ![c] = "push"]
             /\ cur' = [cur EXCEPT ![c] = j]
             /\ UNCHANGED answer
    BY <2>1, <2>2, <2>3 DEF Fresh
  <2>4. CASE answer' = [answer EXCEPT ![j] = "503"] /\ UNCHANGED <<pc, cur>>
    BY <2>1, <2>2, <2>4, Zenon DEF Fresh
  <2>5. QED BY <2>1, <2>3, <2>4, Zenon
<1>2. ASSUME NEW c \in Clients, Enqueue(c) PROVE Handlers'
  BY <1>2 DEF Enqueue, Pushed
<1>3. ASSUME NEW c \in Clients, Blpop(c) PROVE Handlers'
  BY <1>3 DEF Blpop, Answer
<1>4. ASSUME NEW c \in Clients, BlpopTimeout(c) PROVE Handlers'
  BY <1>4 DEF BlpopTimeout, Answer
<1>5. ASSUME NEW c \in Clients, SemAcquire(c) PROVE Handlers'
  BY <1>5 DEF SemAcquire
<1>6. ASSUME NEW c \in Clients, SemTimeout(c) PROVE Handlers'
  BY <1>6 DEF SemTimeout, Answer
<1>7. ASSUME NEW c \in Clients, DirectDone(c) PROVE Handlers'
  BY <1>7 DEF DirectDone, Answer
<1>8. ASSUME NEW c \in Clients, LlenFails(c) PROVE Handlers'
  BY <1>8 DEF LlenFails, Fresh
<1>9. ASSUME NEW c \in Clients, EnqueueFails(c) PROVE Handlers'
  BY <1>9 DEF EnqueueFails, Pushed
<1>10. ASSUME NEW c \in Clients, BlpopFails(c) PROVE Handlers'
  BY <1>10, Zenon DEF BlpopFails, Answer
<1>11. ASSUME UNCHANGED <<age, pc, cur, answer>>, unsure \subseteq unsure' PROVE Handlers'
  BY <1>11, Zenon
<1>12. CASE RedisRestart
  BY <1>12 DEF RedisRestart
<1>13. CASE Tick
  BY <1>13 DEF Tick, Aging, clientVars
<1>14. CASE UNCHANGED vars
  BY <1>11, <1>14, Zenon DEF vars, clientVars
<1>15. QED
  BY <1>1, <1>2, <1>3, <1>4, <1>5, <1>6, <1>7, <1>8, <1>9, <1>10, <1>11, <1>12, <1>13, <1>14, SlotFrame,
     Zenon DEF Next, ClientStep, Finished

-----------------------------------------------------------------------------
(* A job is in one place at a time: Places is preserved. *)

\* A step after which jobs are at most where they were, and nobody got a result, keeps
\* every job in one place.
LEMMA PlacesShrink ==
    ASSUME IInv, TypeOK', OnceQueued', unsure' = unsure,
           \A s \in Slots : Busy(s)' => Busy(s) /\ job'[s] = job[s],
           \A j \in Jobs : /\ InQueue(j)' => InQueue(j)
                           /\ results'[j] \in {results[j], <<>>}
                           /\ age'[j] = Unsent => age[j] = Unsent
                           /\ answer'[j] \in Results => answer[j] \in Results
    PROVE  Places'
<1>1. OnceHeld'
  BY Zenon DEF IInv, Places, OnceHeld
<1>2. \A j : Held(j)' => Held(j)
  BY Zenon DEF Held
<1>3. ASSUME NEW j \in Jobs PROVE Placed(j)'
  <2>1. Placed(j)
    BY Zenon DEF IInv, Places
  <2>2. QED BY <1>2, <2>1, Zenon DEF Placed
<1>4. QED BY <1>1, <1>3 DEF Places

\* Places: a job is pushed once, handed to one slot and reported once; a second report
\* puts it in doubt.
LEMMA PlacesStep == IInv /\ [Next]_vars => Places'
<1> SUFFICES ASSUME IInv, [Next]_vars PROVE Places'
  OBVIOUS
<1>t. TypeOK /\ TypeOK' /\ Handlers /\ Places
  BY TypeStep DEF IInv
<1>y. HandlerTypes /\ SlotTypes /\ StoreTypes /\ HistTypes
  BY <1>t, TypesOf
<1>q. ASSUME UNCHANGED queue PROVE OnceQueued' /\ \A j : InQueue(j)' <=> InQueue(j)
  BY <1>t, <1>q DEF Places, OnceQueued, InQueue
<1>h. ASSUME UNCHANGED <<spc, job>>
      PROVE  OnceHeld' /\ (\A s \in Slots : Busy(s)' <=> Busy(s)) /\ \A j : Held(j)' <=> Held(j)
  BY <1>t, <1>h DEF Places, OnceHeld, Held, Busy
<1>1. ASSUME NEW c \in Clients, Llen(c) PROVE Places'
  <2>1. UNCHANGED <<queue, spc, job, results, age, unsure>>
    BY <1>1 DEF Llen, redisVars, queueVars, slotVars
  <2>2. \A j \in Jobs : answer'[j] \in Results => answer[j] \in Results
    BY <1>1, <1>y DEF Llen, Results, Executed, HandlerTypes
  <2>3. QED BY <1>t, <1>q, <1>h, <2>1, <2>2, PlacesShrink, Zenon
<1>2. ASSUME NEW c \in Clients, BlpopTimeout(c) PROVE Places'
  <2>1. UNCHANGED <<queue, spc, job, results, age, unsure>>
    BY <1>2 DEF BlpopTimeout, redisVars, queueVars, slotVars
  <2>2. \A j \in Jobs : answer'[j] \in Results => answer[j] \in Results
    BY <1>2, <1>y, Zenon DEF BlpopTimeout, Answer, Results, Executed, HandlerTypes
  <2>3. QED BY <1>t, <1>q, <1>h, <2>1, <2>2, PlacesShrink, Zenon
<1>3. ASSUME NEW c \in Clients, SemTimeout(c) PROVE Places'
  <2>1. UNCHANGED <<queue, spc, job, results, age, unsure>>
    BY <1>3 DEF SemTimeout, redisVars, queueVars, slotVars
  <2>2. \A j \in Jobs : answer'[j] \in Results => answer[j] \in Results
    BY <1>3, <1>y, Zenon DEF SemTimeout, Answer, Results, Executed, HandlerTypes
  <2>3. QED BY <1>t, <1>q, <1>h, <2>1, <2>2, PlacesShrink, Zenon
<1>4. ASSUME NEW c \in Clients, SemAcquire(c) \/ LlenFails(c) PROVE Places'
  <2>1. UNCHANGED <<queue, spc, job, results, age, unsure, answer>>
    BY <1>4, Zenon DEF SemAcquire, LlenFails, redisVars, queueVars, slotVars
  <2>2. QED BY <1>t, <1>q, <1>h, <2>1, PlacesShrink, Zenon
<1>5. ASSUME NEW c \in Clients, pc[c] = "push", Pushed(c), UNCHANGED <<spc, job, answer>>,
             unsure' \in {unsure, unsure \cup {cur[c]}}
      PROVE  Places'
  <2>1. /\ cur[c] \in Jobs /\ age[cur[c]] = Unsent /\ answer[cur[c]] = "none"
        /\ queue' = <<cur[c]>> \o queue /\ UNCHANGED results
        /\ \A j \in Jobs : age'[j] = IF j = cur[c] THEN 0 ELSE age[j]
    BY <1>5, <1>t, <1>y, Zenon DEF Handlers, Pushed, HandlerTypes, StoreTypes
  <2>2. ~InQueue(cur[c]) /\ ~Held(cur[c]) /\ results[cur[c]] = <<>>
    BY <1>t, <2>1, Zenon DEF Places, Placed
  <2>3. OnceQueued' /\ \A j : InQueue(j)' <=> j = cur[c] \/ InQueue(j)
    BY <1>t, <2>1, <2>2, AfterPush, Zenon DEF Places
  <2>4. OnceHeld' /\ \A j : Held(j)' <=> Held(j)
    BY <1>5, <1>h
  <2>5. ASSUME NEW j \in Jobs PROVE Placed(j)'
    <3>1. Placed(j)
      BY <1>t DEF Places
    <3>2. QED BY <1>5, <2>1, <2>2, <2>3, <2>4, <3>1 DEF Placed, Unsent, Results, Executed
  <2>6. QED BY <2>3, <2>4, <2>5 DEF Places
<1>6. ASSUME NEW c \in Clients, Enqueue(c) PROVE Places'
  BY <1>5, <1>6 DEF Enqueue, slotVars
<1>7. ASSUME NEW c \in Clients, EnqueueFails(c) PROVE Places'
  <2>1. CASE UNCHANGED <<redisVars, age, unsure>>
    <3>1. UNCHANGED <<queue, spc, job, results, age, unsure, answer>>
      BY <1>7, <2>1 DEF EnqueueFails, redisVars, queueVars, slotVars
    <3>2. QED BY <1>t, <1>q, <1>h, <3>1, PlacesShrink, Zenon
  <2>2. CASE Pushed(c) /\ unsure' = unsure \cup {cur[c]}
    BY <1>5, <1>7, <2>2 DEF EnqueueFails, slotVars
  <2>3. QED BY <1>7, <2>1, <2>2 DEF EnqueueFails
<1>8. ASSUME NEW c \in Clients, Blpop(c) PROVE Places'
  <2>1. /\ cur[c] \in Jobs /\ results[cur[c]] # <<>> /\ answer[cur[c]] = "none"
        /\ results' = [results EXCEPT ![cur[c]] = Tail(@)]
        /\ answer' = [answer EXCEPT ![cur[c]] = Head(results[cur[c]])]
        /\ UNCHANGED <<queue, spc, job, age, unsure>>
    BY <1>8, <1>t, <1>y, Zenon DEF Blpop, Answer, Handlers, queueVars, slotVars, HandlerTypes, StoreTypes
  <2>2. Len(results[cur[c]]) = 1 => Tail(results[cur[c]]) = <<>>
    BY <1>y, <2>1, TailOfOne, Zenon DEF StoreTypes
  <2>3. ASSUME NEW j \in Jobs PROVE Placed(j)'
    <3>1. Placed(j)
      BY <1>t DEF Places
    <3>2. CASE j = cur[c]
      BY <1>y, <1>q, <1>h, <2>1, <2>2, <3>1, <3>2, Zenon DEF Placed, StoreTypes
    <3>3. CASE j # cur[c]
      BY <1>y, <1>q, <1>h, <2>1, <3>1, <3>3 DEF Placed, StoreTypes
    <3>4. QED BY <3>2, <3>3
  <2>4. QED BY <1>q, <1>h, <2>1, <2>3, Zenon DEF Places
<1>9. ASSUME NEW c \in Clients, BlpopFails(c) PROVE Places'
  <2>1. /\ cur[c] \in Jobs
        /\ answer' = [answer EXCEPT ![cur[c]] = "503"]
        /\ UNCHANGED <<queue, spc, job, age, unsure>>
    BY <1>9, <1>y, Zenon DEF BlpopFails, Answer, queueVars, slotVars, HandlerTypes, StoreTypes
  <2>2. \A j \in Jobs : \/ results'[j] = results[j]
                        \/ results[j] # <<>> /\ results'[j] = Tail(results[j])
    <3>1. CASE UNCHANGED results
      BY <3>1
    <3>2. CASE results' = [results EXCEPT ![cur[c]] = IF @ = <<>> THEN @ ELSE Tail(@)]
      <4>1. results \in [Jobs -> Seq(Results)]
        BY <1>y DEF StoreTypes
      <4>2. \A j \in Jobs : results'[j] = IF j = cur[c] /\ results[j] # <<>> THEN Tail(results[j]) ELSE results[j]
        BY <2>1, <3>2, <4>1, Zenon
      <4>3. QED BY <4>2
    <3>3. QED BY <1>9, <3>1, <3>2, Zenon DEF BlpopFails
  <2>3. \A j \in Jobs : Len(results[j]) = 1 => Tail(results[j]) = <<>>
    BY <1>y, TailOfOne DEF StoreTypes
  <2>4. \A j \in Jobs : answer'[j] \in Results => answer[j] \in Results
    BY <1>y, <2>1 DEF Results, Executed, HandlerTypes
  <2>5. ASSUME NEW j \in Jobs PROVE Placed(j)'
    <3>1. Placed(j)
      BY <1>t DEF Places
    <3>2. QED BY <1>q, <1>h, <2>1, <2>2, <2>3, <2>4, <3>1, Zenon DEF Placed
  <2>6. QED BY <1>q, <1>h, <2>1, <2>5 DEF Places
<1>10. ASSUME NEW c \in Clients, DirectDone(c) PROVE Places'
  <2>1. /\ cur[c] \in Jobs /\ UNCHANGED <<queue, spc, job, results, age, unsure>>
        /\ age[cur[c]] # Unsent => cur[c] \in unsure
        /\ \A j \in Jobs : j # cur[c] => answer'[j] = answer[j]
    BY <1>10, <1>t, <1>y, Zenon DEF DirectDone, Answer, Handlers, redisVars, queueVars, slotVars, HandlerTypes
  <2>2. ASSUME NEW j \in Jobs PROVE Placed(j)'
    <3>1. Placed(j)
      BY <1>t DEF Places
    <3>2. QED BY <1>q, <1>h, <2>1, <3>1, Zenon DEF Placed
  <2>3. QED BY <1>q, <1>h, <2>1, <2>2 DEF Places
<1>11. ASSUME NEW s \in Slots, Brpop(s) PROVE Places'
  <2> DEFINE k == queue[Len(queue)]
  <2>1. /\ spc[s] = "brpop" /\ queue # <<>> /\ queue' = SubSeq(queue, 1, Len(queue) - 1)
        /\ job' = [job EXCEPT ![s] = k]
        /\ spc' = [spc EXCEPT ![s] = "mark"] \/ spc' = [spc EXCEPT ![s] = "report"]
        /\ UNCHANGED <<results, age, answer, unsure>>
    BY <1>11, Zenon DEF Brpop, Popped, clientVars
  <2>2. k \in Jobs /\ InQueue(k) /\ OnceQueued' /\ \A j : InQueue(j)' <=> InQueue(j) /\ j # k
    BY <1>t, <2>1, AfterPop, Zenon DEF Places
  <2> HIDE DEF k
  <2>3. \A t \in Slots : (Busy(t)' <=> Busy(t) \/ t = s) /\ job'[t] = IF t = s THEN k ELSE job[t]
    BY <1>y, <2>1 DEF Busy, SlotTypes
  <2>4. ~Busy(s) /\ ~Held(k)
    BY <1>t, <2>1, <2>2, Zenon DEF Busy, Places, Placed
  <2>5. OnceHeld'
    BY <1>t, <2>3, <2>4 DEF Places, OnceHeld, Held
  <2>6. \A j : Held(j)' <=> Held(j) \/ j = k
    BY <2>3, <2>4 DEF Held
  <2>7. ASSUME NEW j \in Jobs PROVE Placed(j)'
    <3>1. Placed(j)
      BY <1>t DEF Places
    <3>2. QED BY <2>1, <2>2, <2>6, <3>1, Zenon DEF Placed
  <2>8. QED BY <2>2, <2>5, <2>7 DEF Places
<1>12. ASSUME NEW s \in Slots, BrpopFails(s) PROVE Places'
  <2>1. /\ queue # <<>> /\ queue' = SubSeq(queue, 1, Len(queue) - 1)
        /\ UNCHANGED <<spc, job, results, age, answer, unsure>>
    BY <1>12 DEF BrpopFails, Popped, clientVars, slotVars
  <2>2. OnceQueued' /\ \A j : InQueue(j)' => InQueue(j)
    BY <1>t, <2>1, AfterPop DEF Places
  <2>3. QED BY <1>t, <1>h, <2>1, <2>2, PlacesShrink, Zenon
<1>13. ASSUME NEW s \in Slots, SlotExit(s) \/ MarkRunning(s) \/ Execute(s) \/ WorkerCrash(s) \/ Signal(s)
       PROVE  Places'
  <2>1. UNCHANGED <<queue, results, age, answer, unsure>>
    BY <1>13, Zenon DEF SlotExit, MarkRunning, Execute, WorkerCrash, Signal, redisVars, queueVars, clientVars
  <2>2. \A t \in Slots : Busy(t)' => Busy(t) /\ job'[t] = job[t]
    <3>1. CASE SlotExit(s) \/ MarkRunning(s)
      BY <1>y, <3>1 DEF SlotExit, MarkRunning, Busy, SlotTypes
    <3>2. CASE Execute(s)
      BY <1>y, <3>2, Zenon DEF Execute, Busy, SlotTypes
    <3>3. CASE WorkerCrash(s)
      BY <1>y, <3>3, Zenon DEF WorkerCrash, Busy, SlotTypes
    <3>4. CASE Signal(s)
      BY <3>4 DEF Signal, slotVars, Busy
    <3>5. QED BY <1>13, <3>1, <3>2, <3>3, <3>4
  <2>3. QED BY <1>t, <1>q, <2>1, <2>2, PlacesShrink
<1>14. ASSUME NEW s \in Slots, MarkRunningFails(s) PROVE Places'
  <2>1. UNCHANGED <<queue, results, age, answer, unsure>>
    BY <1>14 DEF MarkRunningFails, queueVars, clientVars
  <2>2. \A t \in Slots : Busy(t)' => Busy(t) /\ job'[t] = job[t]
    BY <1>14, <1>y, Zenon DEF MarkRunningFails, Dies, Busy, SlotTypes
  <2>3. QED BY <1>t, <1>q, <2>1, <2>2, PlacesShrink
<1>15. ASSUME NEW s \in Slots, MarkDone(s) PROVE Places'
  <2>1. /\ Busy(s) /\ job[s] \in Jobs
        /\ results' = [results EXCEPT ![job[s]] = <<found[s]>> \o @]
        /\ UNCHANGED <<queue, age, answer, unsure>>
    BY <1>15, <1>y, Zenon DEF MarkDone, Reported, Busy, queueVars, clientVars, SlotTypes, StoreTypes
  <2>2. \A t \in Slots : (Busy(t)' <=> Busy(t) /\ t # s) /\ (t # s => job'[t] = job[t])
    BY <1>15, <1>y, Zenon DEF MarkDone, NextRound, Busy, SlotTypes
  <2>3. OnceHeld' /\ \A j : Held(j)' <=> Held(j) /\ j # job[s]
    BY <1>t, <2>1, <2>2, Zenon DEF Places, OnceHeld, Held
  <2>4. Held(job[s])
    BY <2>1, Zenon DEF Held
  <2>5. results[job[s]] = <<>> => Len(<<found[s]>> \o results[job[s]]) = 1
    BY <2>1
  <2>6. ASSUME NEW j \in Jobs PROVE Placed(j)'
    <3>1. Placed(j)
      BY <1>t DEF Places
    <3>2. CASE j = job[s]
      BY <1>y, <1>q, <2>1, <2>3, <2>4, <2>5, <3>1, <3>2, Zenon DEF Placed, StoreTypes
    <3>3. CASE j # job[s]
      BY <1>y, <1>q, <2>1, <2>3, <3>1, <3>3, Zenon DEF Placed, StoreTypes
    <3>4. QED BY <3>2, <3>3
  <2>7. QED BY <1>q, <2>1, <2>3, <2>6, Zenon DEF Places
<1>16. ASSUME NEW s \in Slots, MarkDoneFails(s) PROVE Places'
  <2>1. Busy(s) /\ job[s] \in Jobs /\ UNCHANGED <<queue, age, answer>>
    BY <1>16, <1>y, Zenon DEF MarkDoneFails, Reported, Busy, redisVars, queueVars, clientVars, SlotTypes, StoreTypes
  <2>2. \A t \in Slots : Busy(t)' => Busy(t) /\ job'[t] = job[t]
    BY <1>16, <1>y, Zenon DEF MarkDoneFails, Dies, Busy, SlotTypes
  <2>3. CASE UNCHANGED <<results, unsure>>
    BY <1>t, <1>q, <2>1, <2>2, <2>3, PlacesShrink
  <2>4. CASE Reported(job[s], found[s]) /\ unsure' = unsure \cup {job[s]}
    <3>1. OnceHeld' /\ \A j : Held(j)' => Held(j)
      BY <1>t, <2>2 DEF Places, OnceHeld, Held
    <3>2. Held(job[s])
      BY <2>1 DEF Held
    <3>3. ASSUME NEW j \in Jobs PROVE Placed(j)'
      <4>1. Placed(j)
        BY <1>t DEF Places
      <4>2. j # job[s] => results'[j] = results[j]
        BY <1>y, <2>1, <2>4, Zenon DEF Reported, StoreTypes
      <4>3. QED BY <1>q, <2>1, <2>4, <3>1, <3>2, <4>1, <4>2, Zenon DEF Placed
    <3>4. QED BY <1>q, <2>1, <3>1, <3>3 DEF Places
  <2>5. QED BY <1>16, <2>3, <2>4 DEF MarkDoneFails, redisVars
<1>17. CASE RedisRestart
  <2>1. /\ queue' = <<>> /\ UNCHANGED <<spc, job, age, unsure>>
        /\ \A j \in Jobs : results'[j] = <<>>
    BY <1>17, Zenon DEF RedisRestart, slotVars
  <2>2. OnceQueued' /\ \A j : ~InQueue(j)'
    BY <2>1 DEF OnceQueued, InQueue
  <2>3. \A j \in Jobs : answer'[j] \in Results => answer[j] \in Results
    BY <1>17, Zenon DEF RedisRestart, Results, Executed
  <2>4. QED BY <1>t, <1>h, <2>1, <2>2, <2>3, PlacesShrink, Zenon
<1>18. CASE Tick
  <2>1. UNCHANGED <<queue, spc, job, results, unsure, answer>>
    BY <1>18 DEF Tick, redisVars, queueVars, slotVars, clientVars
  <2>2. \A j \in Jobs : age'[j] = Unsent => age[j] = Unsent
    BY <1>18, <1>y DEF Tick, Aging, Unsent, StoreTypes
  <2>3. QED BY <1>t, <1>q, <1>h, <2>1, <2>2, PlacesShrink, Zenon
<1>19. CASE UNCHANGED vars
  <2>1. UNCHANGED <<queue, spc, job, results, age, unsure, answer>>
    BY <1>19 DEF vars, redisVars, queueVars, slotVars, clientVars
  <2>2. QED BY <1>t, <1>q, <1>h, <2>1, PlacesShrink, Zenon
<1>20. QED
  BY <1>1, <1>2, <1>3, <1>4, <1>6, <1>7, <1>8, <1>9, <1>10, <1>11, <1>12, <1>13, <1>14, <1>15,
     <1>16, <1>17, <1>18, <1>19 DEF Next, ClientStep, SlotStep, Finished

-----------------------------------------------------------------------------
(* The code of a request is run once: RunBudget is preserved. *)

\* Runs that are still to come get fewer, and none takes place.
LEMMA BudgetShrinks ==
    ASSUME IInv, runs' = runs, unsure \subseteq unsure',
           \A j \in Jobs : /\ SlotOwes(j)' => SlotOwes(j)
                           /\ DirectOwes(j)' => DirectOwes(j)
                           /\ age'[j] = Unsent => age[j] = Unsent
                           /\ answer'[j] = "none" => answer[j] = "none"
    PROVE  RunBudget'
<1> SUFFICES ASSUME NEW j \in Jobs PROVE Budget(j)'
  BY DEF RunBudget
<1>1. Budget(j)
  BY DEF IInv, RunBudget
<1>2. QED BY <1>1, Zenon DEF Budget

\* RunBudget: a push hands the run over to the slots; only if it is in doubt does the
\* handler keep it as well.
LEMMA BudgetStep == IInv /\ [Next]_vars => RunBudget'
<1> SUFFICES ASSUME IInv, [Next]_vars PROVE RunBudget'
  OBVIOUS
<1>t. TypeOK /\ TypeOK' /\ Handlers /\ Places /\ RunBudget
  BY TypeStep DEF IInv
<1>y. HandlerTypes /\ SlotTypes /\ StoreTypes /\ HistTypes
  BY <1>t, TypesOf
<1>s. ASSUME UNCHANGED <<queue, spc, job>> PROVE \A j : SlotOwes(j)' <=> SlotOwes(j)
  BY <1>s DEF SlotOwes, InQueue, Assigned
<1>d. ASSUME UNCHANGED <<pc, cur>> PROVE \A j : DirectOwes(j)' <=> DirectOwes(j)
  BY <1>d DEF DirectOwes
<1>f. ASSUME NEW j \in Jobs, age[j] = Unsent PROVE ~SlotOwes(j) /\ j \notin unsure
  <2>1. Placed(j)
    BY <1>t DEF Places
  <2>2. QED BY <1>f, <2>1, Zenon DEF Placed, SlotOwes, Assigned, Held, Busy
<1>1. ASSUME NEW c \in Clients, NEW k \in Jobs, Fresh(k),
             pc' = [pc EXCEPT ![c] = "push"] \/ pc' = [pc EXCEPT ![c] = "sem"],
             cur' = [cur EXCEPT ![c] = k],
             UNCHANGED <<queue, spc, job, runs, unsure, age, answer>>
      PROVE  RunBudget'
  <2>1. \A j : DirectOwes(j)' => DirectOwes(j) \/ j = k
    BY <1>1, <1>y, Zenon DEF DirectOwes, HandlerTypes
  <2>2. runs[k] = 0 /\ ~SlotOwes(k)
    BY <1>1, <1>t, <1>f, Zenon DEF Fresh, RunBudget, Budget
  <2>3. ASSUME NEW j \in Jobs PROVE Budget(j)'
    <3>1. Budget(j)
      BY <1>t DEF RunBudget
    <3>2. QED BY <1>1, <1>s, <2>1, <2>2, <3>1 DEF Budget
  <2>4. QED BY <2>3 DEF RunBudget
<1>2. ASSUME NEW c \in Clients, Llen(c) PROVE RunBudget'
  <2>1. PICK k \in Jobs :
           /\ Fresh(k)
           /\ \/ /\ pc' = [pc EXCEPT ![c] = "push"]
                 /\ cur' = [cur EXCEPT ![c] = k]
                 /\ UNCHANGED answer
              \/ /\ answer' = [answer EXCEPT ![k] = "503"]
                 /\ UNCHANGED <<pc, cur>>
    BY <1>2, Zenon DEF Llen
  <2>2. UNCHANGED <<queue, spc, job, runs, unsure, age>>
    BY <1>2 DEF Llen, redisVars, queueVars, slotVars, histVars
  <2>3. CASE /\ pc' = [pc EXCEPT ![c] = "push"]
             /\ cur' = [cur EXCEPT ![c] = k]
             /\ UNCHANGED answer
    BY <1>1, <2>1, <2>2, <2>3, Zenon
  <2>4. CASE answer' = [answer EXCEPT ![k] = "503"] /\ UNCHANGED <<pc, cur>>
    <3>1. \A j \in Jobs : answer'[j] = "none" => answer[j] = "none"
      BY <1>y, <2>4 DEF HandlerTypes
    <3>2. QED BY <1>s, <1>d, <2>2, <2>4, <3>1, BudgetShrinks
  <2>5. QED BY <2>1, <2>3, <2>4
<1>3. ASSUME NEW c \in Clients, LlenFails(c) PROVE RunBudget'
  BY <1>1, <1>3, Zenon DEF LlenFails, redisVars, queueVars, slotVars, histVars
<1>4. ASSUME NEW c \in Clients, Enqueue(c) PROVE RunBudget'
  <2>1. /\ cur[c] \in Jobs /\ queue' = <<cur[c]>> \o queue
        /\ pc[c] = "push" /\ pc' = [pc EXCEPT ![c] = "wait"]
        /\ age[cur[c]] = Unsent
        /\ UNCHANGED <<cur, spc, job, runs, unsure, answer>>
        /\ \A j \in Jobs : age'[j] = IF j = cur[c] THEN 0 ELSE age[j]
    BY <1>4, <1>t, <1>y, Zenon DEF Enqueue, Pushed, Handlers, slotVars, histVars, HandlerTypes, StoreTypes
  <2>2. \A j : SlotOwes(j)' <=> SlotOwes(j) \/ j = cur[c]
    BY <1>t, <2>1, AfterPush, Zenon DEF SlotOwes, Assigned
  <2>3. \A j \in Jobs : DirectOwes(j)' <=> DirectOwes(j) /\ j # cur[c]
    BY <1>t, <1>y, <2>1 DEF DirectOwes, Handlers, HandlerTypes
  <2>4. DirectOwes(cur[c]) /\ runs[cur[c]] = 0
    <3>1. DirectOwes(cur[c])
      BY <2>1, Zenon DEF DirectOwes
    <3>2. QED BY <1>t, <1>f, <2>1, <3>1, Zenon DEF RunBudget, Budget
  <2>5. ASSUME NEW j \in Jobs PROVE Budget(j)'
    <3>1. Budget(j)
      BY <1>t DEF RunBudget
    <3>2. QED BY <2>1, <2>2, <2>3, <2>4, <3>1, Zenon DEF Budget, Unsent
  <2>6. QED BY <2>5 DEF RunBudget
<1>5. ASSUME NEW c \in Clients, EnqueueFails(c) PROVE RunBudget'
  <2>1. /\ cur[c] \in Jobs /\ pc[c] = "push" /\ pc' = [pc EXCEPT ![c] = "sem"]
        /\ age[cur[c]] = Unsent
        /\ UNCHANGED <<cur, spc, job, runs, answer>>
    BY <1>5, <1>t, <1>y, Zenon DEF EnqueueFails, Handlers, slotVars, histVars, HandlerTypes
  <2>2. \A j : DirectOwes(j)' <=> DirectOwes(j)
    BY <1>y, <2>1, Zenon DEF DirectOwes, HandlerTypes
  <2>3. CASE UNCHANGED <<redisVars, age, unsure>>
    BY <1>s, <2>1, <2>2, <2>3, BudgetShrinks DEF redisVars, queueVars
  <2>4. CASE Pushed(c) /\ unsure' = unsure \cup {cur[c]}
    <3>1. /\ queue' = <<cur[c]>> \o queue
          /\ \A j \in Jobs : age'[j] = IF j = cur[c] THEN 0 ELSE age[j]
      BY <1>y, <2>1, <2>4, Zenon DEF Pushed, StoreTypes
    <3>2. \A j : SlotOwes(j)' <=> SlotOwes(j) \/ j = cur[c]
      BY <1>t, <2>1, <3>1, AfterPush, Zenon DEF SlotOwes, Assigned
    <3>3. runs[cur[c]] = 0
      <4>1. DirectOwes(cur[c])
        BY <2>1 DEF DirectOwes
      <4>2. QED BY <1>t, <1>f, <2>1, <4>1, Zenon DEF RunBudget, Budget
    <3>4. ASSUME NEW j \in Jobs PROVE Budget(j)'
      <4>1. Budget(j)
        BY <1>t DEF RunBudget
      <4>2. QED BY <2>1, <2>2, <2>4, <3>1, <3>2, <3>3, <4>1 DEF Budget, Unsent
    <3>5. QED BY <3>4 DEF RunBudget
  <2>5. QED BY <1>5, <2>3, <2>4 DEF EnqueueFails
<1>6. ASSUME NEW c \in Clients, NEW a, a # "none", pc[c] # "idle", Answer(c, a),
             UNCHANGED <<queue, spc, job, runs, unsure, age>>
      PROVE  RunBudget'
  <2>1. \A j : DirectOwes(j)' => DirectOwes(j)
    BY <1>6, <1>y, Zenon DEF DirectOwes, Answer, HandlerTypes
  <2>2. \A j \in Jobs : answer'[j] = "none" => answer[j] = "none"
    BY <1>6, <1>y, Zenon DEF Answer, HandlerTypes
  <2>3. QED BY <1>6, <1>s, <2>1, <2>2, BudgetShrinks
<1>7. ASSUME NEW c \in Clients, Blpop(c) PROVE RunBudget'
  <2>1. Head(results[cur[c]]) # "none"
    <3>1. results[cur[c]] \in Seq(Results) /\ results[cur[c]] # <<>>
      BY <1>7, <1>y, Zenon DEF Blpop, HandlerTypes, StoreTypes
    <3>2. Head(results[cur[c]]) \in Results
      BY <3>1
    <3>3. QED BY <3>2 DEF Results, Executed
  <2>2. QED BY <1>6, <1>7, <2>1, Zenon DEF Blpop, queueVars, slotVars, histVars
<1>8. ASSUME NEW c \in Clients, BlpopTimeout(c) \/ SemTimeout(c) \/ BlpopFails(c) PROVE RunBudget'
  BY <1>6, <1>8, Zenon DEF BlpopTimeout, SemTimeout, BlpopFails, redisVars, queueVars, slotVars, histVars
<1>9. ASSUME NEW c \in Clients, SemAcquire(c) PROVE RunBudget'
  <2>1. \A j : DirectOwes(j)' => DirectOwes(j)
    BY <1>9, <1>y, Zenon DEF SemAcquire, DirectOwes, HandlerTypes
  <2>2. QED BY <1>9, <1>s, <2>1, BudgetShrinks DEF SemAcquire, redisVars, queueVars, slotVars, histVars
<1>10. ASSUME NEW c \in Clients, DirectDone(c) PROVE RunBudget'
  <2>1. PICK o \in Executed : Run(cur[c], o) /\ Answer(c, HttpOf(o))
    BY <1>10 DEF DirectDone
  <2>2. /\ cur[c] \in Jobs /\ pc[c] = "direct" /\ HttpOf(o) # "none"
        /\ UNCHANGED <<queue, spc, job, unsure, age>>
    BY <1>10, <1>y DEF DirectDone, HttpOf, redisVars, queueVars, slotVars, HandlerTypes
  <2>3. \A j \in Jobs : /\ runs[j] \in Nat
                        /\ runs'[j] = IF j = cur[c] THEN runs[j] + 1 ELSE runs[j]
                        /\ answer'[j] = IF j = cur[c] THEN HttpOf(o) ELSE answer[j]
    BY <1>y, <2>1, <2>2, Zenon DEF Run, Answer, HandlerTypes, HistTypes
  <2>4. \A j \in Jobs : DirectOwes(j)' <=> DirectOwes(j) /\ j # cur[c]
    BY <1>t, <1>y, <2>1, <2>2, Zenon DEF Answer, DirectOwes, Handlers, HandlerTypes
  <2>5. DirectOwes(cur[c])
    BY <2>2 DEF DirectOwes
  <2>6. ASSUME NEW j \in Jobs PROVE Budget(j)'
    <3>1. Budget(j) /\ UNCHANGED unsure /\ (SlotOwes(j)' <=> SlotOwes(j))
      BY <1>s, <1>t, <2>2 DEF RunBudget
    <3>2. CASE j # cur[c]
      BY <2>2, <2>3, <2>4, <3>1, <3>2, Zenon DEF Budget
    <3>3. CASE j = cur[c]
      <4>1. DirectOwes(j) /\ ~DirectOwes(j)' /\ answer'[j] # "none"
        BY <2>2, <2>3, <2>4, <2>5, <3>3, Zenon
      <4>2. SlotOwes(j) => runs'[j] = 1 /\ j \in unsure
        BY <2>3, <3>1, <3>3, <4>1 DEF Budget
      <4>3. QED BY <3>1, <4>1, <4>2 DEF Budget
    <3>4. QED BY <3>2, <3>3
  <2>7. QED BY <2>6 DEF RunBudget
<1>11. ASSUME NEW s \in Slots, Brpop(s) PROVE RunBudget'
  <2> DEFINE k == queue[Len(queue)]
  <2>1. /\ spc[s] = "brpop" /\ queue # <<>> /\ queue' = SubSeq(queue, 1, Len(queue) - 1)
        /\ job' = [job EXCEPT ![s] = k]
        /\ spc' = [spc EXCEPT ![s] = "mark"] \/ spc' = [spc EXCEPT ![s] = "report"]
        /\ UNCHANGED <<pc, cur, answer, age, unsure, runs>>
    BY <1>11, Zenon DEF Brpop, Popped, clientVars, histVars
  <2>2. InQueue(k) /\ \A j : InQueue(j)' => InQueue(j)
    BY <1>t, <2>1, AfterPop, Zenon DEF Places
  <2> HIDE DEF k
  <2>3. \A j : Assigned(j)' => Assigned(j) \/ j = k
    BY <1>y, <2>1 DEF Assigned, SlotTypes
  <2>4. \A j : SlotOwes(j)' => SlotOwes(j)
    BY <2>2, <2>3 DEF SlotOwes
  <2>5. QED BY <1>d, <2>1, <2>4, BudgetShrinks
<1>12. ASSUME NEW s \in Slots, BrpopFails(s) PROVE RunBudget'
  <2>1. /\ queue # <<>> /\ queue' = SubSeq(queue, 1, Len(queue) - 1)
        /\ UNCHANGED <<spc, job, pc, cur, age, answer, unsure, runs>>
    BY <1>12 DEF BrpopFails, Popped, clientVars, slotVars, histVars
  <2>2. \A j : SlotOwes(j)' => SlotOwes(j)
    BY <1>t, <2>1, AfterPop, Zenon DEF Places, SlotOwes, Assigned
  <2>3. QED BY <1>d, <2>1, <2>2, BudgetShrinks
<1>13. ASSUME NEW s \in Slots, SlotExit(s) \/ MarkRunning(s) \/ WorkerCrash(s) \/ Signal(s) PROVE RunBudget'
  <2>1. UNCHANGED <<queue, pc, cur, age, answer, unsure, runs>>
    BY <1>13, Zenon DEF SlotExit, MarkRunning, WorkerCrash, Signal, redisVars, queueVars, clientVars, histVars
  <2>2. \A j : Assigned(j)' => Assigned(j)
    BY <1>13, <1>y, Zenon DEF SlotExit, MarkRunning, WorkerCrash, Signal, Assigned, slotVars, SlotTypes
  <2>3. \A j : SlotOwes(j)' => SlotOwes(j)
    BY <2>1, <2>2 DEF SlotOwes, InQueue
  <2>4. QED BY <1>d, <2>1, <2>3, BudgetShrinks
<1>14. ASSUME NEW s \in Slots, MarkRunningFails(s) \/ MarkDone(s) \/ MarkDoneFails(s) PROVE RunBudget'
  <2>1. UNCHANGED <<queue, pc, cur, age, answer, runs>> /\ unsure \subseteq unsure'
    BY <1>14, Zenon DEF MarkRunningFails, MarkDone, MarkDoneFails, Reported, redisVars, queueVars, clientVars, histVars
  <2>2. \A j : Assigned(j)' => Assigned(j)
    <3>1. CASE MarkRunningFails(s)
      BY <1>y, <3>1, Zenon DEF MarkRunningFails, Dies, Assigned, SlotTypes
    <3>2. CASE MarkDone(s)
      BY <1>y, <3>2, Zenon DEF MarkDone, NextRound, Assigned, SlotTypes
    <3>3. CASE MarkDoneFails(s)
      BY <1>y, <3>3 DEF MarkDoneFails, Dies, Assigned, SlotTypes
    <3>4. QED BY <1>14, <3>1, <3>2, <3>3
  <2>3. \A j : SlotOwes(j)' => SlotOwes(j)
    BY <2>1, <2>2 DEF SlotOwes, InQueue
  <2>4. QED BY <1>d, <2>1, <2>3, BudgetShrinks
<1>15. ASSUME NEW s \in Slots, Execute(s) PROVE RunBudget'
  <2>1. PICK o \in Executed :
           /\ Run(job[s], o)
           /\ spc' = [spc EXCEPT ![s] = IF o = "result" THEN "done" ELSE "report"]
    BY <1>15, Zenon DEF Execute
  <2>2. /\ job[s] \in Jobs /\ spc[s] = "execute"
        /\ UNCHANGED <<queue, job, pc, cur, age, answer, unsure>>
    BY <1>15, <1>y, Zenon DEF Execute, Busy, redisVars, queueVars, clientVars, SlotTypes
  <2>3. \A j \in Jobs : /\ runs[j] \in Nat
                        /\ runs'[j] = IF j = job[s] THEN runs[j] + 1 ELSE runs[j]
    BY <1>y, <2>1, <2>2, Zenon DEF Run, HistTypes
  <2>4. Assigned(job[s]) /\ Held(job[s])
    BY <2>2 DEF Assigned, Held, Busy
  <2>5. \A j : Assigned(j)' <=> Assigned(j) /\ j # job[s]
    BY <1>t, <1>y, <2>1, <2>2, Zenon DEF Assigned, Places, OnceHeld, Busy, SlotTypes
  <2>6. ~InQueue(job[s]) /\ age[job[s]] # Unsent
    BY <1>t, <2>2, <2>4, Zenon DEF Places, Placed
  <2>7. \A j : SlotOwes(j)' <=> SlotOwes(j) /\ j # job[s]
    BY <2>2, <2>5, <2>6 DEF SlotOwes, InQueue
  <2>8. ASSUME NEW j \in Jobs PROVE Budget(j)'
    <3>1. Budget(j)
      BY <1>t DEF RunBudget
    <3>2. SlotOwes(job[s])
      BY <2>4 DEF SlotOwes
    <3>3. (SlotOwes(j)' <=> SlotOwes(j) /\ j # job[s]) /\ (DirectOwes(j)' <=> DirectOwes(j))
      BY <1>d, <2>2, <2>7
    <3>4. CASE j = job[s]
      BY <2>2, <2>3, <2>6, <3>1, <3>2, <3>3, <3>4 DEF Budget
    <3>5. CASE j # job[s]
      BY <2>2, <2>3, <3>1, <3>3, <3>5, Zenon DEF Budget
    <3>6. QED BY <3>4, <3>5
  <2>9. QED BY <2>8 DEF RunBudget
<1>16. CASE RedisRestart
  <2>1. queue' = <<>> /\ UNCHANGED <<spc, job, age, unsure, runs>>
    BY <1>16, Zenon DEF RedisRestart, slotVars, histVars
  <2>2. \A j : SlotOwes(j)' => SlotOwes(j)
    BY <2>1 DEF SlotOwes, InQueue, Assigned
  <2>3. \A j : DirectOwes(j)' => DirectOwes(j)
    BY <1>16, Zenon DEF RedisRestart, DirectOwes
  <2>4. \A j \in Jobs : answer'[j] = "none" => answer[j] = "none"
    BY <1>16, Zenon DEF RedisRestart
  <2>5. QED BY <2>1, <2>2, <2>3, <2>4, BudgetShrinks
<1>17. CASE Tick
  <2>1. UNCHANGED <<queue, spc, job, pc, cur, unsure, answer, runs>>
    BY <1>17 DEF Tick, redisVars, queueVars, slotVars, clientVars, histVars
  <2>2. \A j \in Jobs : age'[j] = Unsent => age[j] = Unsent
    BY <1>17, <1>y DEF Tick, Aging, Unsent, StoreTypes
  <2>3. QED BY <1>s, <1>d, <2>1, <2>2, BudgetShrinks
<1>18. CASE UNCHANGED vars
  BY <1>s, <1>d, <1>18, BudgetShrinks, Zenon DEF vars, redisVars, queueVars, slotVars, clientVars, histVars
<1>19. QED
  BY <1>2, <1>3, <1>4, <1>5, <1>7, <1>8, <1>9, <1>10, <1>11, <1>12, <1>13, <1>14, <1>15, <1>16, <1>17,
     <1>18 DEF Next, ClientStep, SlotStep, Finished

-----------------------------------------------------------------------------
(* Reports agree with runs: Truth is preserved. *)

\* What was true stays true as long as the code is not run again.
LEMMA TrueStays ==
    ASSUME NEW j \in Jobs, TypeOK, TypeOK', faults <= faults', unsure \subseteq unsure',
           outcomes[j] \subseteq outcomes'[j], runs'[j] = runs[j] \/ j \in unsure'
    PROVE  TrueOf[j] \subseteq TrueOf'[j]
BY DEF TrueOf, TypeOK

\* No step but an execution touches the history of runs.
LEMMA TruthFrame ==
    ASSUME IInv, TypeOK', UNCHANGED histVars, faults <= faults', unsure \subseteq unsure',
           \A s \in Slots : spc'[s] \in {"done", "report"} =>
               \/ spc[s] \in {"done", "report"} /\ found'[s] = found[s] /\ job'[s] = job[s]
               \/ found'[s] \in TrueOf'[job'[s]],
           \A j \in Jobs : \A i \in 1..Len(results'[j]) :
               \/ \E k \in 1..Len(results[j]) : results'[j][i] = results[j][k]
               \/ results'[j][i] \in TrueOf'[j]
    PROVE  Truth'
<1>1. \A j \in Jobs : TrueOf[j] \subseteq TrueOf'[j]
  BY TrueStays, Zenon DEF IInv, histVars
<1>2. ASSUME NEW s \in Slots, spc'[s] \in {"done", "report"} PROVE found'[s] \in TrueOf'[job'[s]]
  <2>1. CASE spc[s] \in {"done", "report"} /\ found'[s] = found[s] /\ job'[s] = job[s]
    <3>1. job[s] \in Jobs /\ found[s] \in TrueOf[job[s]]
      BY <2>1, Zenon DEF IInv, Truth, TypeOK, Busy
    <3>2. QED BY <1>1, <2>1, <3>1, Zenon
  <2>2. QED BY <1>2, <2>1, Zenon
<1>3. ASSUME NEW j \in Jobs, NEW i \in 1..Len(results'[j]) PROVE results'[j][i] \in TrueOf'[j]
  <2>1. CASE \E k \in 1..Len(results[j]) : results'[j][i] = results[j][k]
    <3>1. PICK k \in 1..Len(results[j]) : results'[j][i] = results[j][k]
      BY <2>1, Zenon
    <3>2. results[j][k] \in TrueOf[j]
      BY Zenon DEF IInv, Truth
    <3>3. QED BY <1>1, <3>1, <3>2, Zenon
  <2>2. QED BY <2>1, Zenon
<1>4. QED BY <1>2, <1>3, Zenon DEF Truth

\* A step is a fault or leaves the number of faults alone; only a fault puts a request in doubt.
LEMMA FaultsGrow ==
    ASSUME TypeOK, [Next]_vars
    PROVE  /\ faults \in Nat /\ faults <= faults'
           /\ unsure' = unsure \/ (unsure \subseteq unsure' /\ faults' > 0)
<1>1. faults \in Nat /\ (Fault => faults <= faults' /\ faults' > 0)
  BY DEF Fault, TypeOK
<1>2. \/ Fault /\ unsure \subseteq unsure'
      \/ UNCHANGED <<faults, unsure>>
  <2>1. ASSUME NEW c \in Clients, Llen(c) \/ ClientStep(c) PROVE UNCHANGED <<faults, unsure>>
    BY <2>1, Zenon DEF ClientStep, Llen, Enqueue, Blpop, BlpopTimeout, SemAcquire, SemTimeout, DirectDone
  <2>2. ASSUME NEW c \in Clients, LlenFails(c) \/ EnqueueFails(c) \/ BlpopFails(c)
        PROVE  Fault /\ unsure \subseteq unsure'
    BY <2>2, Zenon DEF LlenFails, EnqueueFails, BlpopFails
  <2>3. ASSUME NEW s \in Slots, SlotStep(s) \/ Signal(s) PROVE UNCHANGED <<faults, unsure>>
    BY <2>3, Zenon DEF SlotStep, Brpop, SlotExit, MarkRunning, Execute, MarkDone, Signal
  <2>4. ASSUME NEW s \in Slots, BrpopFails(s) \/ MarkRunningFails(s) \/ MarkDoneFails(s) \/ WorkerCrash(s)
        PROVE  Fault /\ unsure \subseteq unsure'
    BY <2>4, Zenon DEF BrpopFails, MarkRunningFails, MarkDoneFails, WorkerCrash
  <2>5. CASE RedisRestart
    BY <2>5 DEF RedisRestart
  <2>6. CASE Tick \/ Finished \/ UNCHANGED vars
    BY <2>6, Zenon DEF Tick, Finished, vars
  <2>7. QED BY <2>1, <2>2, <2>3, <2>4, <2>5, <2>6 DEF Next
<1>3. QED BY <1>1, <1>2

\* Truth: a job that is found expired has not been run, an internal error is reported after
\* one or after a fault, and a run is reported by the only slot that has the job.
LEMMA TruthStep == IInv /\ [Next]_vars => Truth'
<1> SUFFICES ASSUME IInv, [Next]_vars PROVE Truth'
  OBVIOUS
<1>t. TypeOK /\ TypeOK' /\ Handlers /\ Places /\ RunBudget /\ Truth
  BY TypeStep DEF IInv
<1>y. HandlerTypes /\ SlotTypes /\ StoreTypes /\ HistTypes
  BY <1>t, TypesOf
<1>f. faults <= faults' /\ faults \in Nat
  BY <1>t, FaultsGrow
<1>s. ASSUME UNCHANGED slotVars
      PROVE  \A s \in Slots : spc'[s] \in {"done", "report"} =>
                spc[s] \in {"done", "report"} /\ found'[s] = found[s] /\ job'[s] = job[s]
  BY <1>s DEF slotVars
<1>r. ASSUME NEW j, results'[j] = results[j], NEW i \in 1..Len(results'[j])
      PROVE  \E k \in 1..Len(results[j]) : results'[j][i] = results[j][k]
  BY <1>r
<1>1. ASSUME UNCHANGED <<slotVars, results, histVars>>, unsure \subseteq unsure' PROVE Truth'
  BY <1>1, <1>t, <1>f, <1>s, <1>r, TruthFrame, Zenon
<1>2. ASSUME NEW c \in Clients, Llen(c) \/ LlenFails(c) \/ Enqueue(c) \/ EnqueueFails(c)
                 \/ BlpopTimeout(c) \/ SemAcquire(c) \/ SemTimeout(c)
      PROVE  Truth'
  BY <1>1, <1>2, Zenon DEF Llen, LlenFails, Enqueue, EnqueueFails, BlpopTimeout, SemAcquire, SemTimeout,
     Pushed, redisVars
<1>3. ASSUME NEW c \in Clients, Blpop(c) \/ BlpopFails(c) PROVE Truth'
  <2>1. cur[c] \in Jobs /\ UNCHANGED <<slotVars, histVars, unsure>>
    BY <1>3, <1>y, Zenon DEF Blpop, BlpopFails, HandlerTypes, StoreTypes
  <2>2. ASSUME NEW j \in Jobs, NEW i \in 1..Len(results'[j])
        PROVE  \E k \in 1..Len(results[j]) : results'[j][i] = results[j][k]
    <3>1. CASE results'[j] = results[j]
      BY <1>r, <3>1
    <3>2. CASE results[j] # <<>> /\ results'[j] = Tail(results[j])
      <4>1. results[j] \in Seq(Results)
        BY <1>y DEF StoreTypes
      <4>2. i + 1 \in 1..Len(results[j]) /\ results'[j][i] = results[j][i + 1]
        BY <2>2, <3>2, <4>1
      <4>3. QED BY <4>2
    <3>3. results'[j] = results[j] \/ (results[j] # <<>> /\ results'[j] = Tail(results[j]))
      <4>1. CASE Blpop(c)
        BY <1>y, <4>1, Zenon DEF Blpop, HandlerTypes, StoreTypes
      <4>2. CASE BlpopFails(c)
        BY <1>y, <4>2, Zenon DEF BlpopFails, HandlerTypes, StoreTypes
      <4>3. QED BY <1>3, <4>1, <4>2
    <3>4. QED BY <3>1, <3>2, <3>3
  <2>3. QED BY <1>t, <1>f, <1>s, <2>1, <2>2, TruthFrame, Zenon
<1>4. ASSUME NEW c \in Clients, DirectDone(c) PROVE Truth'
  <2> DEFINE k == cur[c]
  <2>1. PICK o \in Executed : Run(k, o)
    BY <1>4 DEF DirectDone
  <2>2. /\ k \in Jobs /\ pc[c] = "direct" /\ UNCHANGED <<slotVars, results, unsure, faults, age>>
    BY <1>4, <1>y DEF DirectDone, redisVars, HandlerTypes
  <2> HIDE DEF k
  <2>3. \A j \in Jobs : /\ outcomes[j] \subseteq outcomes'[j]
                        /\ j # k => runs'[j] = runs[j]
    BY <1>y, <2>1, <2>2 DEF Run, HistTypes
  <2>4. \A j \in Jobs : j # k \/ j \in unsure => TrueOf[j] \subseteq TrueOf'[j]
    BY <1>t, <1>f, <2>2, <2>3, TrueStays
  <2>5. k \in unsure \/ (~Held(k) /\ results[k] = <<>>)
    BY <1>t, <2>2, Zenon DEF Handlers, Places, Placed, k
  <2>6. ASSUME NEW s \in Slots, spc'[s] \in {"done", "report"} PROVE found'[s] \in TrueOf'[job'[s]]
    <3>1. spc[s] \in {"done", "report"} /\ found'[s] = found[s] /\ job'[s] = job[s]
      BY <1>s, <2>2, <2>6
    <3>2. job[s] \in Jobs /\ found[s] \in TrueOf[job[s]] /\ Held(job[s])
      BY <1>t, <1>y, <3>1, Zenon DEF Truth, Busy, Held, SlotTypes
    <3>3. QED BY <2>4, <2>5, <3>1, <3>2
  <2>7. ASSUME NEW j \in Jobs, NEW i \in 1..Len(results'[j]) PROVE results'[j][i] \in TrueOf'[j]
    <3>1. results'[j] = results[j] /\ results[j][i] \in TrueOf[j]
      BY <1>t, <2>2, <2>7 DEF Truth
    <3>2. results[j] # <<>>
      BY <2>7, <3>1
    <3>3. QED BY <2>4, <2>5, <3>1, <3>2
  <2>8. QED BY <2>6, <2>7 DEF Truth
<1>5. ASSUME NEW s \in Slots, Execute(s) PROVE Truth'
  <2> DEFINE k == job[s]
  <2>1. PICK o \in Executed : Run(k, o) /\ found' = [found EXCEPT ![s] = o]
                              /\ spc' = [spc EXCEPT ![s] = IF o = "result" THEN "done" ELSE "report"]
    BY <1>5, Zenon DEF Execute
  <2>2. k \in Jobs /\ spc[s] = "execute" /\ UNCHANGED <<job, results, unsure, faults>>
    BY <1>5, <1>y DEF Execute, Busy, redisVars, SlotTypes
  <2>3. \A j \in Jobs : /\ outcomes[j] \subseteq outcomes'[j]
                        /\ j # k => runs'[j] = runs[j]
    BY <1>y, <2>1, <2>2, Zenon DEF Run, HistTypes
  <2>4. \A j \in Jobs : j # k \/ j \in unsure => TrueOf[j] \subseteq TrueOf'[j]
    BY <1>t, <1>f, <2>2, <2>3, TrueStays
  <2>5. k \in unsure \/ results[k] = <<>>
    <3>1. Held(k) /\ Placed(k)
      BY <1>t, <2>2 DEF Held, Busy, Places
    <3>2. QED BY <3>1, Zenon DEF Placed
  <2>6. ASSUME NEW t \in Slots, spc'[t] \in {"done", "report"} PROVE found'[t] \in TrueOf'[job'[t]]
    <3>1. CASE t = s
      <4>1. found'[t] = o /\ job'[t] = k /\ o \in outcomes'[k] /\ o \in Results /\ o # "expired"
        BY <1>y, <2>1, <2>2, <3>1, Zenon DEF Run, Executed, Results, HistTypes, SlotTypes
      <4>2. QED BY <2>2, <4>1, Zenon DEF TrueOf
    <3>2. CASE t # s
      <4>1. spc[t] \in {"done", "report"} /\ found'[t] = found[t] /\ job'[t] = job[t]
        BY <1>y, <2>1, <2>2, <2>6, <3>2 DEF SlotTypes
      <4>2. job[t] \in Jobs /\ found[t] \in TrueOf[job[t]] /\ job[t] # k
        BY <1>t, <1>y, <2>2, <3>2, <4>1, Zenon DEF Truth, Busy, Places, OnceHeld, SlotTypes
      <4>3. QED BY <2>4, <4>1, <4>2
    <3>3. QED BY <3>1, <3>2
  <2>7. ASSUME NEW j \in Jobs, NEW i \in 1..Len(results'[j]) PROVE results'[j][i] \in TrueOf'[j]
    <3>1. results'[j] = results[j] /\ results[j][i] \in TrueOf[j]
      BY <1>t, <2>2, <2>7 DEF Truth
    <3>2. results[j] # <<>>
      BY <2>7, <3>1
    <3>3. QED BY <2>4, <2>5, <3>1, <3>2
  <2>8. QED BY <2>6, <2>7 DEF Truth
<1>6. ASSUME NEW s \in Slots, Brpop(s) PROVE Truth'
  <2> DEFINE k == queue[Len(queue)]
  <2>1. /\ queue # <<>> /\ queue' = SubSeq(queue, 1, Len(queue) - 1)
        /\ job' = [job EXCEPT ![s] = k]
        /\ \/ spc' = [spc EXCEPT ![s] = "report"] /\ found' = [found EXCEPT ![s] = "expired"]
           \/ spc' = [spc EXCEPT ![s] = "mark"] /\ UNCHANGED found
        /\ UNCHANGED <<results, histVars, unsure>>
    BY <1>6, Zenon DEF Brpop, Popped
  <2>2. k \in Jobs /\ InQueue(k)
    BY <1>t, <2>1, AfterPop, Zenon DEF Places
  <2> HIDE DEF k
  <2>3. runs'[k] = 0 \/ k \in unsure'
    BY <1>t, <2>1, <2>2, Zenon DEF RunBudget, Budget, SlotOwes, histVars
  <2>4. "expired" \in TrueOf'[k]
    BY <2>2, <2>3 DEF TrueOf, Results, Executed
  <2>5. \A t \in Slots : spc'[t] \in {"done", "report"} =>
           \/ spc[t] \in {"done", "report"} /\ found'[t] = found[t] /\ job'[t] = job[t]
           \/ found'[t] \in TrueOf'[job'[t]]
    BY <1>y, <2>1, <2>4, Zenon DEF SlotTypes
  <2>6. QED BY <1>t, <1>f, <1>r, <2>1, <2>5, TruthFrame, Zenon
<1>7. ASSUME NEW s \in Slots, BrpopFails(s) \/ Signal(s) PROVE Truth'
  BY <1>1, <1>7 DEF BrpopFails, Signal, redisVars
<1>8. ASSUME NEW s \in Slots, SlotExit(s) \/ MarkRunning(s) \/ MarkRunningFails(s) \/ WorkerCrash(s)
      PROVE  Truth'
  <2>1. UNCHANGED <<results, histVars, unsure>>
    BY <1>8, Zenon DEF SlotExit, MarkRunning, MarkRunningFails, WorkerCrash, redisVars
  <2>2. \A t \in Slots : spc'[t] \in {"done", "report"} =>
           spc[t] \in {"done", "report"} /\ found'[t] = found[t] /\ job'[t] = job[t]
    BY <1>8, <1>y DEF SlotExit, MarkRunning, MarkRunningFails, WorkerCrash, Dies, SlotTypes
  <2>3. QED BY <1>t, <1>f, <1>r, <2>1, <2>2, TruthFrame, Zenon
<1>9. ASSUME NEW s \in Slots, spc[s] \in {"done", "report"}, Reported(job[s], found[s]),
             UNCHANGED histVars, unsure \subseteq unsure',
             NEW j \in Jobs, NEW i \in 1..Len(results'[j])
      PROVE  \/ \E k \in 1..Len(results[j]) : results'[j][i] = results[j][k]
             \/ results'[j][i] \in TrueOf'[j]
  <2>1. CASE j # job[s]
    <3>1. results'[j] = results[j]
      BY <1>9, <1>y, <2>1, Zenon DEF Reported, StoreTypes
    <3>2. QED BY <1>r, <3>1
  <2>2. CASE j = job[s]
    <3>1. /\ found[s] \in TrueOf[j] /\ results[j] \in Seq(Results) /\ found[s] \in Results
          /\ results'[j] = <<found[s]>> \o results[j]
      BY <1>9, <1>t, <1>y, <2>2, Zenon DEF Reported, Truth, TrueOf, StoreTypes
    <3>2. found[s] \in TrueOf'[j]
      BY <1>9, <1>t, <1>f, <3>1, TrueStays, Zenon DEF histVars
    <3>3. i = 1 \/ (i - 1 \in 1..Len(results[j]) /\ results'[j][i] = results[j][i - 1])
      BY <1>9, <3>1
    <3>4. CASE i = 1
      BY <3>1, <3>2, <3>4
    <3>5. QED BY <3>3, <3>4, Zenon
  <2>3. QED BY <2>1, <2>2, Zenon
<1>10. ASSUME NEW s \in Slots, MarkDone(s) PROVE Truth'
  <2>1. \A t \in Slots : spc'[t] \in {"done", "report"} =>
           spc[t] \in {"done", "report"} /\ found'[t] = found[t] /\ job'[t] = job[t]
    BY <1>10, <1>y, Zenon DEF MarkDone, NextRound, SlotTypes
  <2>2. \A j \in Jobs : \A i \in 1..Len(results'[j]) :
           \/ \E k \in 1..Len(results[j]) : results'[j][i] = results[j][k]
           \/ results'[j][i] \in TrueOf'[j]
    BY <1>9, <1>10, Zenon DEF MarkDone
  <2>3. QED BY <1>10, <1>t, <1>f, <2>1, <2>2, TruthFrame, Zenon DEF MarkDone
<1>11. ASSUME NEW s \in Slots, MarkDoneFails(s) PROVE Truth'
  <2>1. /\ spc[s] \in {"done", "report"} /\ job[s] \in Jobs /\ faults' > 0
        /\ UNCHANGED histVars /\ unsure \subseteq unsure'
    BY <1>11, <1>y, <1>f DEF MarkDoneFails, Fault, Busy, SlotTypes, HistTypes
  <2>2. "internal" \in TrueOf'[job[s]]
    BY <2>1 DEF TrueOf, Results, Executed
  <2>3. \A t \in Slots : spc'[t] \in {"done", "report"} =>
           \/ spc[t] \in {"done", "report"} /\ found'[t] = found[t] /\ job'[t] = job[t]
           \/ found'[t] \in TrueOf'[job'[t]]
    BY <1>11, <1>y, <2>2 DEF MarkDoneFails, Dies, SlotTypes
  <2>4. \A j \in Jobs : \A i \in 1..Len(results'[j]) :
           \/ \E k \in 1..Len(results[j]) : results'[j][i] = results[j][k]
           \/ results'[j][i] \in TrueOf'[j]
    BY <1>9, <1>11, <1>r, <2>1, Zenon DEF MarkDoneFails, redisVars
  <2>5. QED BY <1>t, <1>f, <2>1, <2>3, <2>4, TruthFrame, Zenon
<1>12. CASE RedisRestart
  <2>1. \A j \in Jobs : \A i \in 1..Len(results'[j]) : FALSE
    <3>1. \A j \in Jobs : results'[j] = <<>>
      BY <1>12 DEF RedisRestart
    <3>2. QED BY <3>1
  <2>2. UNCHANGED <<slotVars, histVars, unsure>>
    BY <1>12 DEF RedisRestart
  <2>3. QED BY <1>t, <1>f, <1>s, <2>1, <2>2, TruthFrame
<1>13. CASE Tick \/ UNCHANGED vars
  BY <1>1, <1>13 DEF Tick, vars, redisVars
<1>14. QED
  BY <1>2, <1>3, <1>4, <1>5, <1>6, <1>7, <1>8, <1>10, <1>11, <1>12, <1>13, Zenon DEF Next, ClientStep,
     SlotStep, Finished
=============================================================================
