--------------------------- MODULE JobQueueProofs ---------------------------
(*****************************************************************************)
(* The theorems about JobQueue: its invariant, what follows from it for the  *)
(* clients, that it implements ExecutionService, and how far the queue can   *)
(* grow past MAX_QUEUE_DEPTH.                                                *)
(*****************************************************************************)
EXTENDS JobQueueInvariant, FiniteSetTheorems

\* The invariant is inductive: no step of handlers, slots or Redis, failing or not, leads out.
THEOREM Invariant == Spec => []IInv
<1>1. Init => IInv
  <2> SUFFICES ASSUME Init PROVE IInv
    OBVIOUS
  <2> USE DEF Init
  <2>1. TypeOK
    BY FallbackAssumption, FaultAssumption DEF TypeOK, ClientStages, SlotStages, Busy, Unsent
  <2>2. Handlers
    BY NoJobAssumption DEF Handlers
  <2>3. Places
    BY DEF Places, OnceQueued, OnceHeld, Placed, InQueue, Held, Busy
  <2>4. RunBudget
    BY DEF RunBudget, Budget, SlotOwes, DirectOwes, InQueue, Assigned
  <2>5. Truth
    BY DEF Truth
  <2>6. QED BY <2>1, <2>2, <2>3, <2>4, <2>5 DEF IInv
<1>2. IInv /\ [Next]_vars => IInv'
  BY TypeStep, HandlersStep, PlacesStep, BudgetStep, TruthStep DEF IInv
<1>3. QED BY <1>1, <1>2, PTL DEF Spec

\* The variables keep their types; a slot that is busy and a handler that is not idle
\* have a job (_process, enqueue).
THEOREM TypeCorrect == Spec => []TypeOK
<1>1. IInv => TypeOK
  BY DEF IInv
<1>2. QED BY <1>1, Invariant, PTL

\* At most one result is ever offered to the client of a job (mark_done, BLPOP).
THEOREM OneResultOffered == Spec => []OneResult
<1>1. IInv => OneResult
  <2> SUFFICES ASSUME IInv, NEW j \in Jobs \ unsure
               PROVE  Len(results[j]) + (IF answer[j] \in Results THEN 1 ELSE 0) <= 1
    BY Zenon DEF OneResult
  <2>1. Placed(j) /\ results[j] \in Seq(Results)
    BY Zenon DEF IInv, Places, TypeOK
  <2>2. results[j] = <<>> => Len(results[j]) = 0
    BY <2>1
  <2>3. CASE results[j] = <<>>
    BY <2>2, <2>3
  <2>4. CASE results[j] # <<>>
    <3>1. Len(results[j]) = 1 /\ answer[j] \notin Results
      BY <2>1, <2>4 DEF Placed
    <3>2. QED BY <3>1
  <2>5. QED BY <2>3, <2>4, Zenon
<1>2. QED BY <1>1, Invariant, PTL

\* A job is on its way.
Kept(j) == InQueue(j) \/ Held(j) \/ results[j] # <<>>

\* The job of a waiting handler is on its way until a command fails (_slot, _on_signal).
LEMMA KeptStep == IInv /\ JobNotLost /\ [Next]_vars => JobNotLost'
<1> SUFFICES ASSUME IInv, JobNotLost, [Next]_vars, faults' = 0,
                    NEW d \in Clients, pc'[d] = "wait"
             PROVE  Kept(cur[d])'
  BY Zenon DEF JobNotLost, Kept, InQueue, Held, Busy
<1>t. TypeOK /\ TypeOK' /\ Handlers /\ Places
  BY TypeStep DEF IInv
<1>y. HandlerTypes /\ SlotTypes /\ StoreTypes /\ HistTypes
  BY <1>t, TypesOf
<1>f. faults = 0 /\ ~Fault
  BY <1>t, FaultsGrow DEF Fault
<1>k. ASSUME pc[d] = "wait" PROVE cur[d] \in Jobs /\ Kept(cur[d])
  BY <1>f, <1>k, <1>y, Zenon DEF JobNotLost, Kept, InQueue, Held, Busy, HandlerTypes, SlotTypes
<1>h. ASSUME UNCHANGED <<queue, slotVars>>
      PROVE  \A j : (InQueue(j)' <=> InQueue(j)) /\ (Held(j)' <=> Held(j))
  BY <1>h DEF InQueue, Held, Busy, slotVars
<1>1. ASSUME NEW c \in Clients, NEW p, p # "wait", pc' = [pc EXCEPT ![c] = p],
             \A b \in Clients \ {c} : cur'[b] = cur[b] /\ results'[cur[b]] = results[cur[b]],
             UNCHANGED <<queue, slotVars>>
      PROVE  Kept(cur[d])'
  <2>1. d # c /\ pc[d] = "wait"
    BY <1>1, <1>y DEF HandlerTypes
  <2>2. cur'[d] = cur[d] /\ results'[cur[d]] = results[cur[d]]
    BY <1>1, <2>1
  <2>3. QED BY <1>1, <1>k, <1>h, <2>1, <2>2 DEF Kept
<1>2. ASSUME UNCHANGED <<pc, cur>>, \A j \in Jobs : Kept(j) => Kept(j)' PROVE Kept(cur[d])'
  <2>1. PICK k : k = cur[d]
    OBVIOUS
  <2>2. pc[d] = "wait" /\ cur'[d] = k
    BY <1>2, <2>1
  <2>3. k \in Jobs /\ Kept(k)
    BY <1>k, <2>1, <2>2
  <2>4. Kept(k)'
    BY <1>2, <2>3
  <2>5. QED BY <2>2, <2>4 DEF Kept, InQueue, Held, Busy
<1>3. ASSUME NEW c \in Clients, Llen(c) PROVE Kept(cur[d])'
  <2>1. UNCHANGED <<queue, slotVars, results>>
    BY <1>3 DEF Llen, redisVars, queueVars
  <2>2. CASE UNCHANGED <<pc, cur>>
    BY <1>2, <1>h, <2>1, <2>2 DEF Kept
  <2>3. CASE \E j \in Jobs : pc' = [pc EXCEPT ![c] = "push"] /\ cur' = [cur EXCEPT ![c] = j]
    BY <1>1, <1>y, <2>1, <2>3, Zenon DEF HandlerTypes
  <2>4. QED BY <1>3, <2>2, <2>3 DEF Llen
<1>4. ASSUME NEW c \in Clients, Enqueue(c) PROVE Kept(cur[d])'
  <2>1. PICK k : k = cur[d]
    OBVIOUS
  <2>2. /\ pc[c] = "push" /\ cur[c] \in Jobs /\ queue' = <<cur[c]>> \o queue
        /\ pc' = [pc EXCEPT ![c] = "wait"] /\ UNCHANGED <<cur, slotVars, results>>
    BY <1>4, <1>y, Zenon DEF Enqueue, Pushed, HandlerTypes, StoreTypes
  <2>3. \A j : InQueue(j)' <=> j = cur[c] \/ InQueue(j)
    BY <1>t, <2>2, AfterPush
  <2>4. \A j : Held(j)' <=> Held(j)
    BY <2>2 DEF Held, Busy, slotVars
  <2>5. CASE d = c
    <3>1. InQueue(k)'
      BY <2>1, <2>3, <2>5
    <3>2. QED BY <2>1, <2>2, <3>1 DEF Kept, InQueue
  <2>6. CASE d # c
    <3>1. pc[d] = "wait"
      BY <1>y, <2>2, <2>6 DEF HandlerTypes
    <3>2. Kept(k)
      BY <1>k, <2>1, <3>1
    <3>3. Kept(k)'
      BY <2>2, <2>3, <2>4, <3>2 DEF Kept
    <3>4. QED BY <2>1, <2>2, <3>3 DEF Kept, InQueue, Held, Busy
  <2>7. QED BY <2>5, <2>6
<1>5. ASSUME NEW c \in Clients, Blpop(c) PROVE Kept(cur[d])'
  <2>1. /\ pc[c] = "wait" /\ cur[c] \in Jobs /\ pc' = [pc EXCEPT ![c] = "idle"]
        /\ cur' = [cur EXCEPT ![c] = NoJob] /\ results' = [results EXCEPT ![cur[c]] = Tail(@)]
        /\ UNCHANGED <<queue, slotVars>>
    BY <1>5, <1>y, Zenon DEF Blpop, Answer, queueVars, HandlerTypes, StoreTypes
  <2>2. ASSUME NEW b \in Clients \ {c} PROVE cur'[b] = cur[b] /\ results'[cur[b]] = results[cur[b]]
    <3>1. cur'[b] = cur[b] /\ cur[b] # cur[c]
      BY <1>t, <1>y, <2>1, Zenon DEF Handlers, HandlerTypes
    <3>2. QED BY <1>y, <2>1, <3>1 DEF StoreTypes
  <2>3. QED BY <1>1, <2>1, <2>2, Zenon
<1>6. ASSUME NEW c \in Clients, BlpopTimeout(c) \/ SemTimeout(c) \/ SemAcquire(c) \/ DirectDone(c)
      PROVE  Kept(cur[d])'
  <2>1. UNCHANGED <<queue, slotVars, results>>
    BY <1>6, Zenon DEF BlpopTimeout, SemTimeout, SemAcquire, DirectDone, redisVars, queueVars
  <2>2. pc' = [pc EXCEPT ![c] = "idle"] \/ pc' = [pc EXCEPT ![c] = "direct"]
    BY <1>6, Zenon DEF BlpopTimeout, SemTimeout, SemAcquire, DirectDone, Answer
  <2>3. \A b \in Clients \ {c} : cur'[b] = cur[b]
    BY <1>6, <1>y, Zenon DEF BlpopTimeout, SemTimeout, SemAcquire, DirectDone, Answer, HandlerTypes
  <2>4. QED BY <1>1, <2>1, <2>2, <2>3
<1>7. ASSUME NEW s \in Slots, Brpop(s) PROVE Kept(cur[d])'
  <2> DEFINE k == queue[Len(queue)]
  <2>1. /\ spc[s] = "brpop" /\ queue # <<>> /\ queue' = SubSeq(queue, 1, Len(queue) - 1)
        /\ job' = [job EXCEPT ![s] = k]
        /\ spc' = [spc EXCEPT ![s] = "mark"] \/ spc' = [spc EXCEPT ![s] = "report"]
        /\ UNCHANGED <<pc, cur, results>>
    BY <1>7, Zenon DEF Brpop, Popped, clientVars
  <2>2. \A j : InQueue(j)' <=> InQueue(j) /\ j # k
    BY <1>t, <2>1, AfterPop DEF Places
  <2> HIDE DEF k
  <2>3. \A j : Held(j) \/ j = k => Held(j)'
    BY <1>y, <2>1, Zenon DEF Held, Busy, SlotTypes
  <2>4. QED BY <1>2, <2>1, <2>2, <2>3 DEF Kept
<1>8. ASSUME NEW s \in Slots, SlotExit(s) \/ MarkRunning(s) \/ Execute(s) PROVE Kept(cur[d])'
  <2>1. UNCHANGED <<pc, cur, queue, results, job>>
    BY <1>8, Zenon DEF SlotExit, MarkRunning, Execute, redisVars, queueVars, clientVars
  <2>2. \A t \in Slots : Busy(t) => Busy(t)'
    BY <1>8, <1>y, Zenon DEF SlotExit, MarkRunning, Execute, Busy, SlotTypes
  <2>3. QED BY <1>2, <2>1, <2>2 DEF Kept, Held, InQueue
<1>9. ASSUME NEW s \in Slots, MarkDone(s) PROVE Kept(cur[d])'
  <2>1. /\ spc[s] \in {"done", "report"} /\ job[s] \in Jobs
        /\ results' = [results EXCEPT ![job[s]] = <<found[s]>> \o @]
        /\ UNCHANGED <<pc, cur, queue>>
    BY <1>9, <1>y, Zenon DEF MarkDone, Reported, Busy, queueVars, clientVars, SlotTypes
  <2>2. \A j \in Jobs : Held(j) => Held(j)' \/ j = job[s]
    BY <1>9, <1>y DEF MarkDone, NextRound, Held, Busy, SlotTypes
  <2>3. \A j \in Jobs : j # job[s] => results'[j] = results[j]
    BY <1>y, <2>1, Zenon DEF StoreTypes
  <2>4. results'[job[s]] # <<>>
    BY <1>y, <2>1 DEF StoreTypes
  <2>5. QED BY <1>2, <2>1, <2>2, <2>3, <2>4, Zenon DEF Kept, InQueue
<1>10. ASSUME NEW s \in Slots, Signal(s) PROVE Kept(cur[d])'
  BY <1>2, <1>10, <1>h DEF Signal, redisVars, queueVars, clientVars, Kept
<1>11. CASE Tick \/ UNCHANGED vars
  BY <1>2, <1>11, <1>h, Zenon DEF Tick, vars, redisVars, queueVars, clientVars, Kept
<1>12. ~RedisRestart /\ \A c \in Clients : ~LlenFails(c) /\ ~EnqueueFails(c) /\ ~BlpopFails(c)
  BY <1>f, Zenon DEF RedisRestart, LlenFails, EnqueueFails, BlpopFails
<1>13. \A s \in Slots : ~BrpopFails(s) /\ ~MarkRunningFails(s) /\ ~MarkDoneFails(s) /\ ~WorkerCrash(s)
  BY <1>f, Zenon DEF BrpopFails, MarkRunningFails, MarkDoneFails, WorkerCrash
<1>14. QED
  BY <1>3, <1>4, <1>5, <1>6, <1>7, <1>8, <1>9, <1>10, <1>11, <1>12, <1>13 DEF Next, ClientStep,
     SlotStep, Finished

\* As long as nothing fails, a job that is waited for is never dropped, workers that are
\* being stopped included (_slot, _on_signal).
THEOREM JobsKept == Spec => []JobNotLost
<1>1. Init => JobNotLost
  BY DEF Init, JobNotLost
<1>2. QED BY <1>1, Invariant, KeptStep, PTL DEF Spec

-----------------------------------------------------------------------------
(* The refinement. *)

\* What is true of a request is a truthful answer.
LEMMA TrueReply ==
    ASSUME NEW j \in Jobs, NEW a \in TrueOf'[j]
    PROVE  Service!Truthful(j, a)' /\ a \in Service!Answers
<1>1. /\ a \in Results
      /\ a = "result" => "result" \in outcomes'[j]
      /\ a = "rejected" => "rejected" \in outcomes'[j]
      /\ a = "internal" => "internal" \in outcomes'[j] \/ faults' > 0
      /\ a = "expired" => runs'[j] = 0 \/ j \in unsure'
  BY DEF TrueOf
<1>2. QED BY <1>1 DEF Service!Truthful, Service!Answers, Results, Executed

\* A step that answers the requests js, perhaps none, without running any.
LEMMA ServiceReplies ==
    ASSUME TypeOK, NEW js \in SUBSET Jobs, NEW a \in Service!Answers,
           \A j \in js : answer[j] = "none" /\ Service!Truthful(j, a)',
           answer' = [j \in Jobs |-> IF j \in js THEN a ELSE answer[j]],
           UNCHANGED histVars, Service!Trouble
    PROVE  Service!Next
<1>1. Service!Reply(js, a)
  BY DEF Service!Reply
<1>2. QED BY <1>1 DEF Service!Next, histVars

\* The service's invariant part of every step.
LEMMA ServiceTrouble ==
    ASSUME TypeOK, TypeOK', [Next]_vars PROVE Service!Trouble
<1>1. /\ faults \in Nat /\ faults <= faults'
      /\ unsure' = unsure \/ (unsure \subseteq unsure' /\ faults' > 0)
  BY FaultsGrow
<1>2. faults' \in Nat
  BY DEF TypeOK
<1>3. QED BY <1>1, <1>2 DEF Service!Trouble

\* Every step of handlers, queue and slots is a step of the service.
LEMMA ServiceStep == IInv /\ [Next]_vars => Service!Next
<1> SUFFICES ASSUME IInv, [Next]_vars PROVE Service!Next
  OBVIOUS
<1>t. TypeOK /\ TypeOK' /\ Handlers /\ Places /\ RunBudget /\ Truth /\ Truth'
  BY TypeStep, TruthStep DEF IInv
<1>y. HandlerTypes /\ SlotTypes /\ StoreTypes /\ HistTypes
  BY <1>t, TypesOf
<1>b. Service!Trouble
  BY <1>t, ServiceTrouble
<1>1. ASSUME UNCHANGED <<answer, histVars>> PROVE Service!Next
  <2>1. PICK js \in SUBSET Jobs : js = {}
    BY Zenon
  <2>2. answer' = [j \in Jobs |-> IF j \in js THEN "503" ELSE answer[j]]
    BY <1>1, <1>y, <2>1 DEF HandlerTypes
  <2>3. "503" \in Service!Answers /\ \A j \in js : answer[j] = "none" /\ Service!Truthful(j, "503")'
    BY <2>1 DEF Service!Answers
  <2>4. QED BY <1>1, <1>t, <1>b, <2>2, <2>3, ServiceReplies
<1>2. ASSUME NEW a \in {"503", "504"}, NEW j PROVE a \in Service!Answers /\ Service!Truthful(j, a)'
  BY <1>2 DEF Service!Answers, Service!Truthful
<1>3. ASSUME NEW k \in Jobs, NEW a \in Service!Answers, answer[k] = "none", Service!Truthful(k, a)',
             answer' = [answer EXCEPT ![k] = a], UNCHANGED histVars
      PROVE  Service!Next
  <2>1. PICK js \in SUBSET Jobs : js = {k}
    BY Zenon
  <2>2. answer' = [j \in Jobs |-> IF j \in js THEN a ELSE answer[j]]
    BY <1>3, <1>y, <2>1, Zenon DEF HandlerTypes
  <2>3. \A j \in js : answer[j] = "none" /\ Service!Truthful(j, a)'
    BY <1>3, <2>1
  <2>4. QED BY <1>3, <1>t, <1>b, <2>2, <2>3, ServiceReplies, Zenon
<1>4. ASSUME NEW c \in Clients, Llen(c) PROVE Service!Next
  <2>1. UNCHANGED histVars
    BY <1>4 DEF Llen
  <2>2. CASE UNCHANGED answer
    BY <1>1, <2>1, <2>2
  <2>3. CASE \E j \in Jobs : Fresh(j) /\ answer' = [answer EXCEPT ![j] = "503"]
    BY <1>2, <1>3, <2>1, <2>3, Zenon DEF Fresh
  <2>4. QED BY <1>4, <2>2, <2>3 DEF Llen
<1>5. ASSUME NEW c \in Clients, LlenFails(c) \/ Enqueue(c) \/ EnqueueFails(c) \/ SemAcquire(c)
      PROVE  Service!Next
  BY <1>1, <1>5, Zenon DEF LlenFails, Enqueue, EnqueueFails, SemAcquire
<1>6. ASSUME NEW c \in Clients, BlpopTimeout(c) \/ BlpopFails(c) \/ SemTimeout(c) PROVE Service!Next
  <2>1. PICK k \in Jobs, a \in {"503", "504"} :
           answer[k] = "none" /\ answer' = [answer EXCEPT ![k] = a]
    <3>1. cur[c] \in Jobs /\ answer[cur[c]] = "none"
      BY <1>6, <1>t, <1>y, Zenon DEF BlpopTimeout, BlpopFails, SemTimeout, Handlers, HandlerTypes, StoreTypes
    <3>2. \E a \in {"503", "504"} : Answer(c, a)
      BY <1>6, Zenon DEF BlpopTimeout, BlpopFails, SemTimeout
    <3>3. QED BY <3>1, <3>2, Zenon DEF Answer
  <2>2. UNCHANGED histVars
    BY <1>6, Zenon DEF BlpopTimeout, BlpopFails, SemTimeout
  <2>3. QED BY <1>2, <1>3, <2>1, <2>2, Zenon
<1>7. ASSUME NEW c \in Clients, Blpop(c) PROVE Service!Next
  <2>1. PICK k, a : k = cur[c] /\ a = Head(results[cur[c]])
    OBVIOUS
  <2>2. /\ k \in Jobs /\ answer[k] = "none" /\ results[k] # <<>>
        /\ answer' = [answer EXCEPT ![k] = a] /\ UNCHANGED <<histVars, unsure, faults>>
    BY <1>7, <1>t, <1>y, <2>1, Zenon DEF Blpop, Answer, Handlers, HandlerTypes, StoreTypes
  <2>3. a \in TrueOf[k]
    <3>1. results[k] \in Seq(Results) /\ 1 \in 1..Len(results[k]) /\ a = results[k][1]
      BY <1>y, <2>1, <2>2 DEF StoreTypes
    <3>2. QED BY <1>t, <2>2, <3>1 DEF Truth
  <2>4. a \in TrueOf'[k]
    BY <2>2, <2>3 DEF TrueOf, histVars
  <2>5. QED BY <1>3, <2>2, <2>4, TrueReply, Zenon
<1>8. ASSUME NEW k \in Jobs, NEW o \in Executed, Run(k, o),
             runs[k] = 0 \/ (runs[k] <= 1 /\ k \in unsure), answer[k] = "expired" => k \in unsure
      PROVE  Service!Execute(k, o) /\ o \in Service!Outcomes
  <2>1. runs[k] < (IF k \in unsure THEN 2 ELSE 1)
    BY <1>8, <1>y DEF HistTypes
  <2>2. QED BY <1>8, <2>1 DEF Run, Executed, Service!Execute, Service!Outcomes
<1>9. ASSUME NEW c \in Clients, DirectDone(c) PROVE Service!Next
  <2>k. PICK k : k = cur[c]
    OBVIOUS
  <2>1. PICK o \in Executed : Run(k, o) /\ answer' = [answer EXCEPT ![k] = HttpOf(o)]
    BY <1>9, <2>k, Zenon DEF DirectDone, Answer
  <2>2. k \in Jobs /\ answer[k] = "none" /\ DirectOwes(k)
    BY <1>9, <1>t, <1>y, <2>k, Zenon DEF DirectDone, Handlers, DirectOwes, HandlerTypes
  <2>3. Service!Execute(k, o) /\ o \in Service!Outcomes
    BY <1>t, <1>8, <2>1, <2>2 DEF RunBudget, Budget
  <2>4. PICK a : a = HttpOf(o)
    OBVIOUS
  <2>5. a \in Service!Answers /\ Service!Truthful(k, a)'
    <3>1. o \in outcomes'[k]
      BY <1>y, <2>1, <2>2 DEF Run, HistTypes
    <3>2. QED BY <2>1, <2>4, <3>1 DEF HttpOf, Executed, Service!Truthful, Service!Answers
  <2>6. answer' = [j \in Jobs |-> IF j \in {k} THEN a ELSE answer[j]]
    BY <1>y, <2>1, <2>2, <2>4, Zenon DEF HandlerTypes
  <2>7. Service!Reply({k}, a)
    BY <2>2, <2>5, <2>6 DEF Service!Reply
  <2>8. QED BY <1>b, <2>2, <2>3, <2>5, <2>7 DEF Service!Next
<1>10. ASSUME NEW s \in Slots, Execute(s) PROVE Service!Next
  <2>k. PICK k : k = job[s]
    OBVIOUS
  <2>1. PICK o \in Executed : Run(k, o)
    BY <1>10, <2>k DEF Execute
  <2>2. k \in Jobs /\ Assigned(k) /\ Held(k) /\ UNCHANGED answer
    BY <1>10, <1>y, <2>k DEF Execute, Assigned, Held, Busy, clientVars, SlotTypes
  <2>3. runs[k] = 0 \/ (runs[k] <= 1 /\ k \in unsure)
    BY <1>t, <2>2 DEF RunBudget, Budget, SlotOwes
  <2>4. answer[k] = "expired" => k \in unsure
    BY <1>t, <2>2 DEF Places, Placed, Results
  <2>5. QED BY <1>b, <1>8, <2>1, <2>2, <2>3, <2>4 DEF Service!Next
<1>11. ASSUME NEW s \in Slots, Brpop(s) \/ SlotExit(s) \/ MarkRunning(s) \/ MarkDone(s) \/ BrpopFails(s)
                  \/ MarkRunningFails(s) \/ MarkDoneFails(s) \/ WorkerCrash(s) \/ Signal(s)
       PROVE  Service!Next
  BY <1>1, <1>11, Zenon DEF Brpop, SlotExit, MarkRunning, MarkDone, BrpopFails, MarkRunningFails,
     MarkDoneFails, WorkerCrash, Signal, clientVars
<1>12. CASE RedisRestart
  <2>1. PICK js \in SUBSET Jobs : js = {j \in Jobs : \E c \in Clients : pc[c] = "wait" /\ cur[c] = j}
    BY Zenon
  <2>2. \A j \in js : answer[j] = "none"
    BY <1>t, <2>1 DEF Handlers
  <2>3. answer' = [j \in Jobs |-> IF j \in js THEN "503" ELSE answer[j]] /\ UNCHANGED histVars
    BY <1>12, <2>1 DEF RedisRestart
  <2>4. QED BY <1>t, <1>b, <1>2, <2>2, <2>3, ServiceReplies
<1>13. CASE Tick \/ UNCHANGED vars
  BY <1>1, <1>13 DEF Tick, vars, clientVars
<1>14. QED
  BY <1>4, <1>5, <1>6, <1>7, <1>9, <1>10, <1>11, <1>12, <1>13 DEF Next, ClientStep, SlotStep, Finished

\* Handlers, queue and slots implement the service of ExecutionService: no code is run
\* twice, every client gets one answer, and that is what the run came to.
THEOREM Refinement == Spec => ImplementsService
<1>1. Init => Service!Init
  BY DEF Init, Service!Init
<1>2. IInv /\ [Next]_vars => [Service!Next]_<<Service!served, unsure, faults > 0>>
  BY ServiceStep
<1>3. QED BY <1>1, <1>2, Invariant, PTL DEF Spec, ImplementsService, Service!Spec

-----------------------------------------------------------------------------
(* Depth: LLEN and LPUSH of enqueue() are two commands. *)

\* The places of the jobs from the MAX_QUEUE_DEPTH-th on; the newest is the first.
Excess == 1..(Len(queue) - MaxQueueDepth + 1)

\* The jobs in excess come from different handlers, and none of these is between its
\* LLEN and its LPUSH: the check would have failed.
OnePerHandler ==
    /\ \A i \in 1..Len(queue) : by[queue[i]] \in Clients
    /\ \A i, k \in Excess : by[queue[i]] = by[queue[k]] => i = k
    /\ \A c \in Clients : pc[c] = "push" => \A i \in Excess : by[queue[i]] # c

\* A step that leaves the queue alone and lets no handler pass the check
LEMMA DepthFrame ==
    ASSUME OnePerHandler, UNCHANGED <<queue, by>>,
           \A c \in Clients : pc'[c] = "push" => pc[c] = "push"
    PROVE  OnePerHandler'
BY DEF OnePerHandler, Excess

\* LPUSH (Pushed) adds one job of a handler that has none in excess.
LEMMA DepthPush ==
    ASSUME IInv, OnePerHandler, NEW c \in Clients, pc[c] = "push", Pushed(c),
           NEW p, p # "push", pc' = [pc EXCEPT ![c] = p]
    PROVE  OnePerHandler'
<1> DEFINE j == cur[c]
<1>1. /\ j \in Jobs /\ queue \in Seq(Jobs) /\ Len(queue) \in Nat /\ MaxQueueDepth \in Nat \ {0}
      /\ pc \in [Clients -> ClientStages] /\ by \in [Jobs -> Clients \cup {NoJob}]
  BY DepthAssumption DEF IInv, TypeOK
<1>2. ~InQueue(j)
  <2>1. age[j] = Unsent
    BY DEF IInv, Handlers
  <2>2. Placed(j)
    BY <1>1 DEF IInv, Places
  <2>3. QED BY <2>1, <2>2, Zenon DEF Placed
<1>3. /\ Len(queue') = Len(queue) + 1 /\ queue'[1] = j
      /\ \A i \in 1..Len(queue) : queue'[i + 1] = queue[i]
  BY <1>1 DEF Pushed
<1>4. by' = [by EXCEPT ![j] = c]
  BY DEF Pushed
<1>5. by'[queue'[1]] = c
  BY <1>1, <1>3, <1>4
<1>6. ASSUME NEW i \in 1..Len(queue) PROVE by'[queue'[i + 1]] = by[queue[i]]
  <2>1. queue[i] \in Jobs /\ queue[i] # j
    BY <1>1, <1>2 DEF InQueue
  <2>2. QED BY <1>1, <1>3, <1>4, <2>1
<1>7. \A i \in 1..Len(queue') : i = 1 \/ (i - 1 \in 1..Len(queue) /\ by'[queue'[i]] = by[queue[i - 1]])
  <2> SUFFICES ASSUME NEW i \in 1..Len(queue'), i # 1
               PROVE  i - 1 \in 1..Len(queue) /\ by'[queue'[i]] = by[queue[i - 1]]
    OBVIOUS
  <2>1. i - 1 \in 1..Len(queue) /\ (i - 1) + 1 = i
    BY <1>1, <1>3
  <2>2. QED BY <1>6, <2>1
<1>8. ASSUME NEW i \in Excess', i # 1 PROVE i - 1 \in Excess /\ by'[queue'[i]] = by[queue[i - 1]]
  <2>1. i \in 1..Len(queue') /\ i - 1 \in Excess
    BY <1>1, <1>3, <1>8 DEF Excess
  <2>2. QED BY <1>7, <1>8, <2>1, Zenon
<1>9. \A i \in 1..Len(queue') : by'[queue'[i]] \in Clients
  BY <1>5, <1>7, Zenon DEF OnePerHandler
<1>10. ASSUME NEW i \in Excess', NEW k \in Excess', by'[queue'[i]] = by'[queue'[k]] PROVE i = k
  <2>1. CASE i # 1 /\ k # 1
    <3>1. i - 1 = k - 1
      BY <1>8, <1>10, <2>1 DEF OnePerHandler
    <3>2. QED BY <3>1, <1>1, <1>3 DEF Excess
  <2>2. CASE i = 1 /\ k # 1
    BY <1>5, <1>8, <1>10, <2>2, Zenon DEF OnePerHandler
  <2>3. CASE i # 1 /\ k = 1
    BY <1>5, <1>8, <1>10, <2>3, Zenon DEF OnePerHandler
  <2>4. QED BY <2>1, <2>2, <2>3
<1>11. ASSUME NEW d \in Clients, pc'[d] = "push", NEW i \in Excess' PROVE by'[queue'[i]] # d
  <2>1. d # c /\ pc[d] = "push"
    BY <1>1, <1>11
  <2>2. QED BY <1>5, <1>8, <1>11, <2>1, Zenon DEF OnePerHandler
<1>12. QED BY <1>9, <1>10, <1>11, Zenon DEF OnePerHandler

\* BRPOP (Popped) takes the oldest job, and what was in excess moves to places in excess.
LEMMA DepthPop ==
    ASSUME IInv, OnePerHandler, queue # <<>>, Popped, UNCHANGED pc
    PROVE  OnePerHandler'
<1> DEFINE j == queue[Len(queue)]
<1>1. /\ queue \in Seq(Jobs) /\ OnceQueued /\ MaxQueueDepth \in Nat \ {0}
      /\ by \in [Jobs -> Clients \cup {NoJob}] /\ queue' = SubSeq(queue, 1, Len(queue) - 1)
      /\ by' = [by EXCEPT ![j] = NoJob]
  BY DepthAssumption DEF IInv, TypeOK, Places, Popped
<1>2. Len(queue) \in Nat \ {0} /\ \A i \in 1..Len(queue) : queue[i] \in Jobs
  BY <1>1
<1>3. Len(queue') = Len(queue) - 1 /\ \A i \in 1..(Len(queue) - 1) : queue'[i] = queue[i]
  BY <1>1, WithoutLast, Zenon
<1>4. ASSUME NEW i \in 1..Len(queue') PROVE i \in 1..Len(queue) /\ by'[queue'[i]] = by[queue[i]]
  <2>1. i \in 1..Len(queue) /\ i # Len(queue) /\ queue'[i] = queue[i]
    BY <1>2, <1>3
  <2>2. queue[i] # j
    BY <1>1, <1>2, <2>1 DEF OnceQueued
  <2>3. QED BY <1>1, <1>2, <2>1, <2>2
<1>5. ASSUME NEW i \in Excess' PROVE i \in Excess /\ by'[queue'[i]] = by[queue[i]]
  <2>1. i \in Excess /\ i \in 1..Len(queue')
    BY <1>1, <1>2, <1>3 DEF Excess
  <2>2. QED BY <1>4, <2>1, Zenon
<1>6. QED BY <1>4, <1>5, Zenon DEF OnePerHandler

\* LLEN lets a handler pass only while nothing is in excess.
LEMMA DepthStep == IInv /\ OnePerHandler /\ [Next]_vars => OnePerHandler'
<1> SUFFICES ASSUME IInv, OnePerHandler, [Next]_vars PROVE OnePerHandler'
  OBVIOUS
<1>y. HandlerTypes
  BY TypesOf DEF IInv
<1> USE DEF queueVars, redisVars, clientVars
<1>1. ASSUME NEW c \in Clients, Llen(c) PROVE OnePerHandler'
  <2>1. UNCHANGED <<queue, by>>
    BY <1>1 DEF Llen
  <2>2. CASE Len(queue) < MaxQueueDepth
    <3>1. Len(queue) \in Nat /\ MaxQueueDepth \in Nat
      BY DepthAssumption DEF IInv, TypeOK
    <3>2. Excess' = {}
      BY <2>1, <2>2, <3>1 DEF Excess
    <3>3. QED BY <2>1, <3>2 DEF OnePerHandler
  <2>3. CASE UNCHANGED <<pc, cur>>
    BY <2>1, <2>3, DepthFrame
  <2>4. QED BY <1>1, <2>2, <2>3 DEF Llen
<1>2. ASSUME NEW c \in Clients, NEW p, p # "push", pc' = [pc EXCEPT ![c] = p], UNCHANGED <<queue, by>>
      PROVE  OnePerHandler'
  <2>1. \A d \in Clients : pc'[d] = "push" => pc[d] = "push"
    BY <1>2, <1>y DEF HandlerTypes
  <2>2. QED BY <1>2, <2>1, DepthFrame
<1>3. ASSUME NEW c \in Clients, Enqueue(c) PROVE OnePerHandler'
  <2>1. pc[c] = "push" /\ Pushed(c) /\ pc' = [pc EXCEPT ![c] = "wait"]
    BY <1>3 DEF Enqueue
  <2>2. QED BY <2>1, DepthPush, Zenon
<1>4. ASSUME NEW c \in Clients, EnqueueFails(c) PROVE OnePerHandler'
  <2>1. pc[c] = "push" /\ pc' = [pc EXCEPT ![c] = "sem"]
    BY <1>4 DEF EnqueueFails
  <2>2. CASE Pushed(c)
    BY <2>1, <2>2, DepthPush, Zenon
  <2>3. CASE UNCHANGED <<queue, by>>
    BY <1>2, <2>1, <2>3, Zenon
  <2>4. QED BY <1>4, <2>2, <2>3 DEF EnqueueFails
<1>5. ASSUME NEW c \in Clients, Blpop(c) \/ BlpopTimeout(c) \/ BlpopFails(c) \/ SemTimeout(c) \/ DirectDone(c)
      PROVE  OnePerHandler'
  <2>1. pc' = [pc EXCEPT ![c] = "idle"] /\ UNCHANGED <<queue, by>>
    BY <1>5, Zenon DEF Blpop, BlpopTimeout, BlpopFails, SemTimeout, DirectDone, Answer
  <2>2. QED BY <1>2, <2>1, Zenon
<1>6. ASSUME NEW c \in Clients, SemAcquire(c) \/ LlenFails(c) PROVE OnePerHandler'
  <2>1. UNCHANGED <<queue, by>>
    BY <1>6 DEF SemAcquire, LlenFails
  <2>2. pc' = [pc EXCEPT ![c] = "direct"] \/ pc' = [pc EXCEPT ![c] = "sem"]
    BY <1>6 DEF SemAcquire, LlenFails
  <2>3. QED BY <1>2, <2>1, <2>2
<1>7. ASSUME NEW s \in Slots, Brpop(s) \/ BrpopFails(s) PROVE OnePerHandler'
  <2>1. queue # <<>> /\ Popped /\ UNCHANGED pc
    BY <1>7 DEF Brpop, BrpopFails
  <2>2. QED BY <2>1, DepthPop
<1>8. ASSUME UNCHANGED <<queue, by, pc>> PROVE OnePerHandler'
  BY <1>8, DepthFrame
<1>9. ASSUME NEW s \in Slots,
             \/ SlotExit(s) \/ MarkRunning(s) \/ Execute(s) \/ MarkDone(s) \/ MarkRunningFails(s)
             \/ MarkDoneFails(s) \/ WorkerCrash(s) \/ Signal(s)
      PROVE  OnePerHandler'
  <2>1. CASE SlotExit(s) \/ MarkRunning(s) \/ Execute(s) \/ MarkRunningFails(s) \/ WorkerCrash(s) \/ Signal(s)
    BY <1>8, <2>1, Zenon DEF SlotExit, MarkRunning, Execute, MarkRunningFails, WorkerCrash, Signal
  <2>2. CASE MarkDone(s) \/ MarkDoneFails(s)
    BY <1>8, <2>2, Zenon DEF MarkDone, MarkDoneFails, Reported
  <2>3. QED BY <1>9, <2>1, <2>2
<1>10. CASE RedisRestart
  <2>1. queue' = <<>>
    BY <1>10 DEF RedisRestart
  <2>2. Len(queue') = 0 /\ MaxQueueDepth \in Nat \ {0}
    BY <2>1, DepthAssumption
  <2>3. 1..Len(queue') = {} /\ Excess' = {}
    BY <2>2 DEF Excess
  <2>4. QED BY <2>3 DEF OnePerHandler
<1>11. CASE Tick
  BY <1>8, <1>11 DEF Tick
<1>12. CASE UNCHANGED vars
  BY <1>8, <1>12 DEF vars
<1>13. QED
  BY <1>1, <1>3, <1>4, <1>5, <1>6, <1>7, <1>9, <1>10, <1>11, <1>12, Zenon
     DEF Next, ClientStep, SlotStep, Finished

\* The queue is as long as LLEN allows, and beyond that by at most one job of each handler
\* with a job in it.
LEMMA ExcessByHandlers == IInv /\ OnePerHandler => OverfullByRaceOnly
<1> SUFFICES ASSUME IInv, OnePerHandler PROVE OverfullByRaceOnly
  OBVIOUS
<1> DEFINE T == {by[queue[i]] : i \in 1..Len(queue)}
           f == [i \in Excess |-> by[queue[i]]]
<1>1. Len(queue) \in Nat /\ MaxQueueDepth \in Nat \ {0}
  BY DepthAssumption DEF IInv, TypeOK
<1>2. T \in SUBSET Clients
  BY DEF OnePerHandler
<1>3. IsFiniteSet(T) /\ Cardinality(T) \in Nat
  BY <1>2, ClientsFinite, FS_Subset, FS_CardinalityType
<1>4. Excess \subseteq 1..Len(queue)
  BY <1>1 DEF Excess
<1>5. f \in Injection(Excess, T)
  <2>1. f \in [Excess -> T]
    BY <1>4
  <2>2. \A i, k \in Excess : f[i] = f[k] => i = k
    BY DEF OnePerHandler
  <2>3. QED BY <2>1, <2>2 DEF Injection, IsInjective
<1>6. Cardinality(Excess) <= Cardinality(T)
  BY <1>3, <1>5, FS_Injection
<1>7. Len(queue) - MaxQueueDepth + 1 <= Cardinality(T)
  <2>1. CASE Len(queue) < MaxQueueDepth
    BY <1>1, <1>3, <2>1
  <2>2. CASE Len(queue) >= MaxQueueDepth
    <3>1. Cardinality(Excess) = Len(queue) - MaxQueueDepth + 1
      BY <1>1, <2>2, FS_Interval DEF Excess
    <3>2. QED BY <1>6, <3>1
  <2>3. QED BY <1>1, <2>1, <2>2
<1>8. Len(queue) <= MaxQueueDepth - 1 + Cardinality(T)
  BY <1>1, <1>3, <1>7
<1>9. QED BY <1>8 DEF OverfullByRaceOnly

\* LLEN and LPUSH are two commands (enqueue): beyond the limit the queue has at most one job
\* of each handler.
THEOREM DepthKept == Spec => []OverfullByRaceOnly
<1>1. Init => OnePerHandler
  BY DepthAssumption DEF Init, OnePerHandler, Excess
<1>2. QED BY <1>1, DepthStep, ExcessByHandlers, Invariant, PTL DEF Spec

\* With n handlers (coroutines of all API processes in enqueue) the queue is at most n - 1
\* jobs longer than MAX_QUEUE_DEPTH.
THEOREM LengthBounded == Spec => []QueueBounded
<1>1. IInv /\ OnePerHandler => QueueBounded
  <2> SUFFICES ASSUME IInv, OnePerHandler PROVE QueueBounded
    OBVIOUS
  <2> DEFINE T == {by[queue[i]] : i \in 1..Len(queue)}
  <2>1. Len(queue) \in Nat /\ MaxQueueDepth \in Nat \ {0}
    BY DepthAssumption DEF IInv, TypeOK
  <2>2. T \in SUBSET Clients
    BY DEF OnePerHandler
  <2>3. /\ Cardinality(T) <= Cardinality(Clients)
        /\ Cardinality(T) \in Nat /\ Cardinality(Clients) \in Nat
    BY <2>2, ClientsFinite, FS_Subset, FS_CardinalityType
  <2>4. Len(queue) <= MaxQueueDepth - 1 + Cardinality(T)
    BY ExcessByHandlers DEF OverfullByRaceOnly
  <2>5. QED BY <2>1, <2>3, <2>4 DEF QueueBounded
<1>2. Init => OnePerHandler
  BY DepthAssumption DEF Init, OnePerHandler, Excess
<1>3. QED BY <1>1, <1>2, DepthStep, Invariant, PTL DEF Spec
=============================================================================
