------------------------------ MODULE JobQueue -------------------------------
(***************************************************************************)
(* The path of a request: the API handler of api/main.py, the Redis queue  *)
(* and the job keys of jobqueue/job.py, the slots of worker.py.  One       *)
(* language queue; every await on Redis is a step of its own.              *)
(*                                                                         *)
(* Faults, at most MaxFaults of them: a Redis command raises, with or      *)
(* without having taken effect; an API handler or a worker goes away; and  *)
(* Redis, which keeps nothing on disk, restarts.                           *)
(***************************************************************************)
EXTENDS Integers, Sequences, FiniteSets

CONSTANTS Clients,        \* coroutines of the API that serve a request each
          Slots,          \* _slot() coroutines
          Jobs,           \* requests; a request that is enqueued has its own job_id
          MaxQueueDepth,  \* MAX_QUEUE_DEPTH
          JobMaxAge,      \* JOB_MAX_AGE
          ResultTimeout,  \* QUEUE_RESULT_TIMEOUT_SECONDS
          FallbackMax,    \* FALLBACK_MAX_CONCURRENT
          MaxFaults,      \* bound on faults
          MaxStops,       \* bound on workers that are being stopped at a time
          NoJob           \* a handler or a slot without a job

ASSUME ClientsFinite == IsFiniteSet(Clients)
ASSUME DepthAssumption == MaxQueueDepth \in Nat \ {0}
ASSUME AgeAssumption == JobMaxAge \in Nat /\ ResultTimeout \in Nat
ASSUME FallbackAssumption == FallbackMax \in Nat
ASSUME FaultAssumption == MaxFaults \in Nat /\ MaxStops \in Nat
ASSUME NoJobAssumption == NoJob \notin Jobs

VARIABLES queue,    \* exec:queue:<language>, head first
          by,       \* history: the handler that pushed each queued job
          status,   \* exec:job:<id>: its "status", "none" without the key
          results,  \* exec:job:result:<id>, head first
          age,      \* time since enqueued_at, Unsent before
          pc,       \* where each handler is
          cur,      \* its request
          answer,   \* of each request: what its client got, "none" so far
          sem,      \* free permits of _fallback_sem
          spc,      \* where each slot is
          job,      \* its job
          found,    \* what it is going to report about the job
          stopping, \* the slots of processes whose _shutdown is set
          runs,     \* history: how often the code of a request was executed
          outcomes, \* history: the outcomes of these executions
          unsure,   \* history: requests of which a command raised after taking effect
          faults    \* faults so far

queueVars == <<queue, by>>
redisVars == <<queueVars, status, results>>
clientVars == <<pc, cur, answer, sem>>
slotVars == <<spc, job, found>>
histVars == <<runs, outcomes>>
vars == <<redisVars, age, clientVars, slotVars, stopping, histVars, unsure, faults>>

Unsent == -1
MaxAge == IF JobMaxAge > ResultTimeout THEN JobMaxAge + 1 ELSE ResultTimeout + 1

\* What pipeline.execute() comes to: a result, a ValueError, another exception.
Executed == {"result", "rejected", "internal"}
Results == Executed \cup {"expired"}
HttpErrors == {"400", "500", "503", "504"}

ClientStages == {"idle", "push", "wait", "sem", "direct"}
\* "done" is mark_done inside the try block; "report" one whose exception nothing
\* catches: in an except clause, or for an expired job.
SlotStages == {"brpop", "mark", "execute", "done", "report", "exited", "dead"}

Busy(s) == spc[s] \in {"mark", "execute", "done", "report"}

Init ==
    /\ queue = <<>>
    /\ by = [j \in Jobs |-> NoJob]
    /\ status = [j \in Jobs |-> "none"]
    /\ results = [j \in Jobs |-> <<>>]
    /\ age = [j \in Jobs |-> Unsent]
    /\ pc = [c \in Clients |-> "idle"]
    /\ cur = [c \in Clients |-> NoJob]
    /\ answer = [j \in Jobs |-> "none"]
    /\ sem = FallbackMax
    /\ spc = [s \in Slots |-> "brpop"]
    /\ job = [s \in Slots |-> NoJob]
    /\ found = [s \in Slots |-> "none"]
    /\ stopping = {}
    /\ runs = [j \in Jobs |-> 0]
    /\ outcomes = [j \in Jobs |-> {}]
    /\ unsure = {}
    /\ faults = 0

Fault ==
    /\ faults < MaxFaults
    /\ faults' = faults + 1

\* The handler ends its request with the answer a.
Answer(c, a) ==
    /\ answer' = [answer EXCEPT ![cur[c]] = a]
    /\ pc' = [pc EXCEPT ![c] = "idle"]
    /\ cur' = [cur EXCEPT ![c] = NoJob]

\* The code of request j is run and comes to o.
Run(j, o) ==
    /\ runs' = [runs EXCEPT ![j] = @ + 1]
    /\ outcomes' = [outcomes EXCEPT ![j] = @ \cup {o}]

Fresh(j) == answer[j] = "none" /\ age[j] = Unsent /\ \A c \in Clients : cur[c] # j

-----------------------------------------------------------------------------
(* The API. *)

\* (mutant) One job too many.
LlenOffByOne(c) ==
    /\ pc[c] = "idle"
    /\ Len(queue) <= MaxQueueDepth
    /\ \E j \in Jobs :
          /\ Fresh(j)
          /\ pc' = [pc EXCEPT ![c] = "push"]
          /\ cur' = [cur EXCEPT ![c] = j]
    /\ UNCHANGED <<redisVars, age, answer, sem, slotVars, stopping, histVars, unsure, faults>>

\* enqueue: LLEN and the comparison with MAX_QUEUE_DEPTH; 503 when it is reached
Llen(c) ==
    /\ pc[c] = "idle"
    /\ \E j \in Jobs :
          /\ Fresh(j)
          /\ \/ /\ Len(queue) < MaxQueueDepth
                /\ pc' = [pc EXCEPT ![c] = "push"]
                /\ cur' = [cur EXCEPT ![c] = j]
                /\ UNCHANGED answer
             \/ /\ Len(queue) >= MaxQueueDepth
                /\ answer' = [answer EXCEPT ![j] = "503"]
                /\ UNCHANGED <<pc, cur>>
    /\ UNCHANGED <<redisVars, age, sem, slotVars, stopping, histVars, unsure, faults>>

\* enqueue: LLEN raises, the request is executed directly
LlenFails(c) ==
    /\ Fault
    /\ pc[c] = "idle"
    /\ \E j \in Jobs :
          /\ Fresh(j)
          /\ pc' = [pc EXCEPT ![c] = "sem"]
          /\ cur' = [cur EXCEPT ![c] = j]
    /\ UNCHANGED <<redisVars, age, answer, sem, slotVars, stopping, histVars, unsure>>

\* MULTI; LPUSH queue; SET exec:job:<id> queued; EXEC
Pushed(c) == LET j == cur[c] IN
    /\ queue' = <<j>> \o queue
    /\ by' = [by EXCEPT ![j] = c]
    /\ status' = [status EXCEPT ![j] = "queued"]
    /\ age' = [age EXCEPT ![j] = 0]
    /\ UNCHANGED results

\* enqueue: the job is made and pushed, the handler waits for the result
Enqueue(c) ==
    /\ pc[c] = "push"
    /\ Pushed(c)
    /\ pc' = [pc EXCEPT ![c] = "wait"]
    /\ UNCHANGED <<cur, answer, sem, slotVars, stopping, histVars, unsure, faults>>

\* enqueue: the pipeline raises; EXEC may have been applied all the same
EnqueueFails(c) ==
    /\ Fault
    /\ pc[c] = "push"
    /\ \/ UNCHANGED <<redisVars, age, unsure>>
       \/ Pushed(c) /\ unsure' = unsure \cup {cur[c]}
    /\ pc' = [pc EXCEPT ![c] = "sem"]
    /\ UNCHANGED <<cur, answer, sem, slotVars, stopping, histVars>>

\* (mutant) LINDEX in place of BLPOP.
BlpopPeek(c) ==
    /\ pc[c] = "wait"
    /\ results[cur[c]] # <<>>
    /\ Answer(c, Head(results[cur[c]]))
    /\ UNCHANGED <<redisVars, age, sem, slotVars, stopping, histVars, unsure, faults>>

\* wait_for_job_result: BLPOP returns a result, 200
Blpop(c) ==
    /\ pc[c] = "wait"
    /\ results[cur[c]] # <<>>
    /\ results' = [results EXCEPT ![cur[c]] = Tail(@)]
    /\ Answer(c, Head(results[cur[c]]))
    /\ UNCHANGED <<queueVars, status, age, sem, slotVars, stopping, histVars, unsure, faults>>

\* (mutant) The handler waits again, as often as it takes.
BlpopForever(c) ==
    /\ pc[c] = "wait"
    /\ results[cur[c]] = <<>>
    /\ UNCHANGED vars

\* ... None once the timeout is over, 504.  The wait begins after enqueued_at.
BlpopTimeout(c) ==
    /\ pc[c] = "wait"
    /\ results[cur[c]] = <<>>
    /\ age[cur[c]] >= ResultTimeout
    /\ Answer(c, "504")
    /\ UNCHANGED <<redisVars, age, sem, slotVars, stopping, histVars, unsure, faults>>

\* ... raises, 503; an element that was popped already is lost
BlpopFails(c) ==
    /\ Fault
    /\ pc[c] = "wait"
    /\ results' \in {results, [results EXCEPT ![cur[c]] =
                                  IF @ = <<>> THEN @ ELSE Tail(@)]}
    /\ Answer(c, "503")
    /\ UNCHANGED <<queueVars, status, age, sem, slotVars, stopping, histVars, unsure>>

\* _execute_direct: asyncio.wait_for(_fallback_sem.acquire(), 30)
SemAcquire(c) ==
    /\ pc[c] = "sem"
    /\ sem > 0
    /\ sem' = sem - 1
    /\ pc' = [pc EXCEPT ![c] = "direct"]
    /\ UNCHANGED <<redisVars, age, cur, answer, slotVars, stopping, histVars, unsure, faults>>

SemTimeout(c) ==
    /\ pc[c] = "sem"
    /\ sem = 0
    /\ Answer(c, "503")
    /\ UNCHANGED <<redisVars, age, sem, slotVars, stopping, histVars, unsure, faults>>

\* What the handler answers to an outcome: a ValueError is a 400, another
\* exception leaves the handler as a 500.
HttpOf(o) == CASE o = "result" -> "result" [] o = "rejected" -> "400" [] OTHER -> "500"

\* ... pipeline.execute(), its answer, and release() in the finally block
DirectDone(c) ==
    /\ pc[c] = "direct"
    /\ \E o \in Executed : Run(cur[c], o) /\ Answer(c, HttpOf(o))
    /\ sem' = sem + 1
    /\ UNCHANGED <<redisVars, age, slotVars, stopping, unsure, faults>>

-----------------------------------------------------------------------------
(* The slots of the workers. *)

\* RPOP of the oldest job.
Popped ==
    /\ queue' = SubSeq(queue, 1, Len(queue) - 1)
    /\ by' = [by EXCEPT ![queue[Len(queue)]] = NoJob]

\* (mutant) _shutdown looked at after the pop.
BrpopDropsOnShutdown(s) ==
    /\ spc[s] = "brpop"
    /\ queue # <<>>
    /\ Popped
    /\ \/ /\ s \notin stopping
          /\ job' = [job EXCEPT ![s] = queue[Len(queue)]]
          /\ spc' = [spc EXCEPT ![s] = "mark"]
       \/ /\ s \in stopping
          /\ spc' = [spc EXCEPT ![s] = "exited"]
          /\ UNCHANGED job
    /\ UNCHANGED <<status, results, age, clientVars, found, stopping, histVars, unsure, faults>>

\* BRPOP returns a job (a BRPOP in flight when the signal comes still does) and
\* _process looks at its age.
Brpop(s) ==
    /\ spc[s] = "brpop"
    /\ queue # <<>>
    /\ LET j == queue[Len(queue)] IN
          /\ job' = [job EXCEPT ![s] = j]
          /\ \/ /\ age[j] > JobMaxAge
                /\ spc' = [spc EXCEPT ![s] = "report"]
                /\ found' = [found EXCEPT ![s] = "expired"]
             \/ /\ age[j] <= JobMaxAge
                /\ spc' = [spc EXCEPT ![s] = "mark"]
                /\ UNCHANGED found
    /\ Popped
    /\ UNCHANGED <<status, results, age, clientVars, stopping, histVars, unsure, faults>>

\* BRPOP raises, the slot tries again; an element that was popped already is lost
BrpopFails(s) ==
    /\ Fault
    /\ spc[s] = "brpop"
    /\ queue # <<>>
    /\ Popped
    /\ UNCHANGED <<status, results, age, clientVars, slotVars, stopping, histVars, unsure>>

\* while not _shutdown, after a BRPOP without a job
SlotExit(s) ==
    /\ spc[s] = "brpop"
    /\ s \in stopping
    /\ spc' = [spc EXCEPT ![s] = "exited"]
    /\ UNCHANGED <<redisVars, age, clientVars, job, found, stopping, histVars, unsure, faults>>

\* mark_running
MarkRunning(s) ==
    /\ spc[s] = "mark"
    /\ status' = [status EXCEPT ![job[s]] = "running"]
    /\ spc' = [spc EXCEPT ![s] = "execute"]
    /\ UNCHANGED <<queueVars, results, age, clientVars, job, found, stopping, histVars, unsure, faults>>

\* An exception leaves _process and with it _slot: asyncio.gather keeps it as the
\* slot's result, nothing starts the slot again.
Dies(s) ==
    /\ spc' = [spc EXCEPT ![s] = "dead"]
    /\ job' = [job EXCEPT ![s] = NoJob]
    /\ found' = [found EXCEPT ![s] = "none"]

\* mark_running raises outside the try block
MarkRunningFails(s) ==
    /\ Fault
    /\ spc[s] = "mark"
    /\ status' \in {status, [status EXCEPT ![job[s]] = "running"]}
    /\ Dies(s)
    /\ UNCHANGED <<queueVars, results, age, clientVars, stopping, histVars, unsure>>

\* pipeline.execute(): what it returns goes to mark_done in the try block, what
\* it raises to mark_done in an except clause
Execute(s) ==
    /\ spc[s] = "execute"
    /\ \E o \in Executed :
          /\ Run(job[s], o)
          /\ found' = [found EXCEPT ![s] = o]
          /\ spc' = [spc EXCEPT ![s] = IF o = "result" THEN "done" ELSE "report"]
    /\ UNCHANGED <<redisVars, age, clientVars, job, stopping, unsure, faults>>

\* MULTI; SET exec:job:<id> done; LPUSH exec:job:result:<id>; EXEC
Reported(j, o) ==
    /\ status' = [status EXCEPT ![j] = "done"]
    /\ results' = [results EXCEPT ![j] = <<o>> \o @]
    /\ UNCHANGED queueVars

\* The slot is through with its job and goes round the loop.
NextRound(s) ==
    /\ spc' = [spc EXCEPT ![s] = IF s \in stopping THEN "exited" ELSE "brpop"]
    /\ job' = [job EXCEPT ![s] = NoJob]
    /\ found' = [found EXCEPT ![s] = "none"]

\* (mutant) An expired job is skipped without a result.
MarkDoneSkipsExpired(s) ==
    /\ spc[s] \in {"done", "report"}
    /\ IF found[s] = "expired" THEN UNCHANGED redisVars ELSE Reported(job[s], found[s])
    /\ NextRound(s)
    /\ UNCHANGED <<age, clientVars, stopping, histVars, unsure, faults>>

\* (mutant) No return after an expired job was reported.
MarkDoneNoReturn(s) ==
    /\ spc[s] \in {"done", "report"}
    /\ Reported(job[s], found[s])
    /\ \/ /\ found[s] = "expired"
          /\ spc' = [spc EXCEPT ![s] = "mark"]
          /\ UNCHANGED <<job, found>>
       \/ found[s] # "expired" /\ NextRound(s)
    /\ UNCHANGED <<age, clientVars, stopping, histVars, unsure, faults>>

\* mark_done
MarkDone(s) ==
    /\ spc[s] \in {"done", "report"}
    /\ Reported(job[s], found[s])
    /\ NextRound(s)
    /\ UNCHANGED <<age, clientVars, stopping, histVars, unsure, faults>>

\* mark_done raises.  In the try block "except Exception" reports an internal
\* error instead; anywhere else the slot dies.
MarkDoneFails(s) ==
    /\ Fault
    /\ spc[s] \in {"done", "report"}
    /\ \/ UNCHANGED <<redisVars, unsure>>
       \/ Reported(job[s], found[s]) /\ unsure' = unsure \cup {job[s]}
    /\ \/ /\ spc[s] = "done"
          /\ spc' = [spc EXCEPT ![s] = "report"]
          /\ found' = [found EXCEPT ![s] = "internal"]
          /\ UNCHANGED job
       \/ /\ spc[s] = "report"
          /\ Dies(s)
    /\ UNCHANGED <<age, clientVars, stopping, histVars>>

-----------------------------------------------------------------------------
(* The surroundings. *)

\* The process of the slot is killed and started again (restart: always).
WorkerCrash(s) ==
    /\ Fault
    /\ spc[s] # "brpop"
    /\ spc' = [spc EXCEPT ![s] = "brpop"]
    /\ job' = [job EXCEPT ![s] = NoJob]
    /\ found' = [found EXCEPT ![s] = "none"]
    /\ stopping' = stopping \ {s}
    /\ UNCHANGED <<redisVars, age, clientVars, histVars, unsure>>

\* Redis restarts empty; whoever is blocked on it gets a connection error, which
\* a slot survives and a handler answers with 503.
RedisRestart ==
    /\ Fault
    /\ queue' = <<>>
    /\ by' = [j \in Jobs |-> NoJob]
    /\ status' = [j \in Jobs |-> "none"]
    /\ results' = [j \in Jobs |-> <<>>]
    /\ LET Waiting == {c \in Clients : pc[c] = "wait"} IN
          /\ answer' = [j \in Jobs |->
                          IF \E c \in Waiting : cur[c] = j THEN "503" ELSE answer[j]]
          /\ pc' = [c \in Clients |-> IF c \in Waiting THEN "idle" ELSE pc[c]]
          /\ cur' = [c \in Clients |-> IF c \in Waiting THEN NoJob ELSE cur[c]]
    /\ UNCHANGED <<age, sem, slotVars, stopping, histVars, unsure>>

\* _on_signal
Signal(s) ==
    /\ Cardinality(stopping) < MaxStops
    /\ stopping' = stopping \cup {s}
    /\ UNCHANGED <<redisVars, age, clientVars, slotVars, histVars, unsure, faults>>

\* Only the age of a queued job and of one that is waited for is looked at.
Aging == {j \in Jobs : /\ age[j] \in 0..(MaxAge - 1)
                       /\ by[j] # NoJob \/ \E c \in Clients : pc[c] = "wait" /\ cur[c] = j}

Tick ==
    /\ Aging # {}
    /\ age' = [j \in Jobs |-> IF j \in Aging THEN age[j] + 1 ELSE age[j]]
    /\ UNCHANGED <<redisVars, clientVars, slotVars, stopping, histVars, unsure, faults>>

\* Every request has been answered: only the finite set of requests ends here.
Finished ==
    /\ \A j \in Jobs : ~Fresh(j) /\ \A c \in Clients : cur[c] # j
    /\ UNCHANGED vars

ClientStep(c) ==
    \/ Enqueue(c)
    \/ Blpop(c)
    \/ BlpopTimeout(c)
    \/ SemAcquire(c)
    \/ SemTimeout(c)
    \/ DirectDone(c)

SlotStep(s) ==
    \/ Brpop(s)
    \/ SlotExit(s)
    \/ MarkRunning(s)
    \/ Execute(s)
    \/ MarkDone(s)

Next ==
    \/ \E c \in Clients :
          \/ Llen(c)
          \/ ClientStep(c)
          \/ LlenFails(c)
          \/ EnqueueFails(c)
          \/ BlpopFails(c)
    \/ \E s \in Slots :
          \/ SlotStep(s)
          \/ BrpopFails(s)
          \/ MarkRunningFails(s)
          \/ MarkDoneFails(s)
          \/ WorkerCrash(s)
          \/ Signal(s)
    \/ RedisRestart
    \/ Tick
    \/ Finished

Spec == Init /\ [][Next]_vars

\* Time passes, the event loops resume every coroutine whose await is over, and
\* Redis serves every client of a list in turn.  No request has to come.
FairSpec ==
    /\ Spec
    /\ WF_vars(Tick)
    /\ \A c \in Clients : WF_vars(ClientStep(c))
    /\ \A s \in Slots : WF_vars(SlotStep(s))

-----------------------------------------------------------------------------

TypeOK ==
    /\ queue \in Seq(Jobs)
    /\ by \in [Jobs -> Clients \cup {NoJob}]
    /\ status \in [Jobs -> {"none", "queued", "running", "done"}]
    /\ results \in [Jobs -> Seq(Results)]
    /\ age \in [Jobs -> Int]
    /\ pc \in [Clients -> ClientStages]
    /\ cur \in [Clients -> Jobs \cup {NoJob}]
    /\ \A c \in Clients : pc[c] # "idle" => cur[c] \in Jobs
    /\ answer \in [Jobs -> {"none"} \cup Results \cup HttpErrors]
    /\ sem \in Nat
    /\ spc \in [Slots -> SlotStages]
    /\ job \in [Slots -> Jobs \cup {NoJob}]
    /\ \A s \in Slots : Busy(s) => job[s] \in Jobs
    /\ found \in [Slots -> Results \cup {"none"}]
    /\ stopping \in SUBSET Slots
    /\ runs \in [Jobs -> Nat]
    /\ outcomes \in [Jobs -> SUBSET Executed]
    /\ unsure \in SUBSET Jobs
    /\ faults \in 0..MaxFaults

\* LLEN and LPUSH are two commands: handlers that passed the check together all
\* push.  No more than that: all jobs from the MAX_QUEUE_DEPTH-th on come from
\* different handlers, none of which can add a second one before the queue is
\* shorter again.
OverfullByRaceOnly ==
    Len(queue) <= MaxQueueDepth - 1 + Cardinality({by[queue[i]] : i \in 1..Len(queue)})

\* ... so that the queue is never longer than this.
QueueBounded == Len(queue) <= MaxQueueDepth - 1 + Cardinality(Clients)

\* "refuse new jobs above this" (job.py:26), read as a bound on the queue.
QueueWithinDepth == Len(queue) <= MaxQueueDepth

\* At most one result is ever offered to the client of a job (mark_done is called
\* once, or again only after it raised), unless a command took effect and raised.
OneResult ==
    \A j \in Jobs \ unsure :
        Len(results[j]) + (IF answer[j] \in Results THEN 1 ELSE 0) <= 1

\* As long as nothing fails, the job of a waiting handler is in the queue, with a
\* slot or reported: a worker that is being stopped drops none.
JobNotLost ==
    faults = 0 =>
        \A c \in Clients : pc[c] = "wait" =>
            \/ \E i \in 1..Len(queue) : queue[i] = cur[c]
            \/ \E s \in Slots : Busy(s) /\ job[s] = cur[c]
            \/ results[cur[c]] # <<>>

\* Handlers, queue and slots implement the service that ExecutionService describes,
\* across crashes, failed commands and Redis restarts: BRPOP hands a job to one slot
\* and nothing is redelivered, so that no code is run twice (unless enqueue() raised
\* after EXEC had been applied, and the API runs it as well); every client gets one
\* answer, and that is what the execution came to; a job reported as expired is not
\* run any more.
Service == INSTANCE ExecutionService WITH doubtful <- unsure, troubled <- faults > 0

ImplementsService == Service!Spec

\* Every request is answered, whatever fails and even if no slot is left: BLPOP
\* and the wait for a permit have timeouts, and each error path has a status code.
EveryRequestAnswered == \A c \in Clients : pc[c] # "idle" ~> pc[c] = "idle"

\* As long as nothing fails or stops, every accepted job is reported, the ones
\* that expire in the queue included.
JobsFinish ==
    \A j \in Jobs :
        status[j] = "queued" ~> (status[j] = "done" \/ faults > 0 \/ stopping # {})

\* "Loops forever ... until the shutdown flag is set" (worker.py:168-169).
SlotLoopsUntilShutdown ==
    \A s \in Slots : spc[s] \in {"exited", "dead"} => s \in stopping

\* "... and the queue is drained" (worker.py:169): a slot that was told to stop
\* goes on while there are jobs.
DrainsQueue ==
    [][\A s \in Slots : (spc[s] # "exited" /\ spc'[s] = "exited") => queue' = <<>>]_vars

\* "matches API timeout" (job.py:25): when a job is abandoned as too old, its
\* client has been told so by the API's own timeout.
AbandonedAfterTimeout ==
    \A s \in Slots : (spc[s] = "report" /\ found[s] = "expired")
        => \A c \in Clients : cur[c] # job[s]
=============================================================================
