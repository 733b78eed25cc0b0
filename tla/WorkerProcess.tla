----------------------------- MODULE WorkerProcess -----------------------------
(***************************************************************************)
(* One worker process (worker._main): the tasks that asyncio.gather runs   *)
(* side by side - the slots, the queue depth reporter, the prewarm and the *)
(* reaper - from the start to the end of the process, which waits for all  *)
(* of them.  The slots take jobs from one queue per language.  JobQueue    *)
(* has what happens to a job; here a queue is its length.                  *)
(***************************************************************************)
EXTENDS Integers, Sequences, FiniteSetsExt

CONSTANTS Slots,        \* range(WORKER_CONCURRENCY)
          Languages,    \* WORKER_LANGUAGES, a sequence: BRPOP looks in this order
          MaxArrivals   \* bound on the jobs that arrive

ASSUME LanguagesAssumption == Len(Languages) \in Nat \ {0}
ASSUME ArrivalAssumption == MaxArrivals \in Nat

VARIABLES queued,    \* length of each queue
          arrivals,  \* jobs that have arrived
          shutdown,  \* _shutdown, 0 or 1
          slot,      \* each slot: "pop" in BRPOP, "job" in _process, "loop", "ended", "dead"
          taken,     \* history: jobs each slot has taken since the signal
          reporter,  \* "report", "sleep", "ended"
          prewarm,   \* "running", "ended"
          reaper     \* "sleep", "reap"

taskVars == <<reporter, prewarm, reaper>>
vars == <<queued, arrivals, shutdown, slot, taken, taskVars>>

Queues == 1..Len(Languages)

Init ==
    /\ queued = [q \in Queues |-> 0]
    /\ arrivals = 0
    /\ shutdown = 0
    /\ slot = [s \in Slots |-> "loop"]
    /\ taken = [s \in Slots |-> 0]
    /\ reporter = "report"
    /\ prewarm = "running"
    /\ reaper = "sleep"

\* A client's LPUSH
Arrive ==
    /\ arrivals < MaxArrivals
    /\ arrivals' = arrivals + 1
    /\ \E q \in Queues : queued' = [queued EXCEPT ![q] = @ + 1]
    /\ UNCHANGED <<shutdown, slot, taken, taskVars>>

\* _on_signal
Signal ==
    /\ shutdown = 0
    /\ shutdown' = 1
    /\ UNCHANGED <<queued, arrivals, slot, taken, taskVars>>

-----------------------------------------------------------------------------
(* _slot *)

\* (mutant) while True
LoopForever(s) ==
    /\ slot[s] = "loop"
    /\ slot' = [slot EXCEPT ![s] = "pop"]
    /\ UNCHANGED <<queued, arrivals, shutdown, taken, taskVars>>

\* (mutant) The slot drains the queues before it looks at the flag.
LoopDrains(s) ==
    /\ slot[s] = "loop"
    /\ slot' = [slot EXCEPT ![s] =
                   IF shutdown = 0 \/ \E q \in Queues : queued[q] > 0 THEN "pop" ELSE "ended"]
    /\ UNCHANGED <<queued, arrivals, shutdown, taken, taskVars>>

\* while not _shutdown
Loop(s) ==
    /\ slot[s] = "loop"
    /\ slot' = [slot EXCEPT ![s] = IF shutdown = 0 THEN "pop" ELSE "ended"]
    /\ UNCHANGED <<queued, arrivals, shutdown, taken, taskVars>>

Nonempty == {q \in Queues : queued[q] > 0}

Pop(s, q) ==
    /\ queued' = [queued EXCEPT ![q] = @ - 1]
    /\ slot' = [slot EXCEPT ![s] = "job"]
    /\ taken' = [taken EXCEPT ![s] = @ + shutdown]
    /\ UNCHANGED <<arrivals, shutdown, taskVars>>

\* (mutant) Only the first language's queue.
BrpopFirstKey(s) ==
    /\ slot[s] = "pop"
    /\ 1 \in Nonempty
    /\ Pop(s, 1)

\* BRPOP: the first key that has a job
Brpop(s) ==
    /\ slot[s] = "pop"
    /\ Nonempty # {}
    /\ Pop(s, Min(Nonempty))

\* ... None after BRPOP_TIMEOUT, or an error and a second's sleep
BrpopNothing(s) ==
    /\ slot[s] = "pop"
    /\ slot' = [slot EXCEPT ![s] = "loop"]
    /\ UNCHANGED <<queued, arrivals, shutdown, taken, taskVars>>

\* _process returns
JobDone(s) ==
    /\ slot[s] = "job"
    /\ slot' = [slot EXCEPT ![s] = "loop"]
    /\ UNCHANGED <<queued, arrivals, shutdown, taken, taskVars>>

\* An exception leaves _process, and _slot with it; gather keeps it as a result.
SlotDies(s) ==
    /\ slot[s] = "job"
    /\ slot' = [slot EXCEPT ![s] = "dead"]
    /\ UNCHANGED <<queued, arrivals, shutdown, taken, taskVars>>

-----------------------------------------------------------------------------
(* The other tasks. *)

\* _queue_depth_reporter
Report ==
    /\ reporter # "ended"
    /\ reporter' = CASE reporter = "report" -> "sleep"
                     [] reporter = "sleep" /\ shutdown = 0 -> "report"
                     [] OTHER -> "ended"
    /\ UNCHANGED <<queued, arrivals, shutdown, slot, taken, prewarm, reaper>>

\* ensure_pool_target returns or raises; module Prewarm shows that it does
PrewarmEnd ==
    /\ prewarm = "running"
    /\ prewarm' = "ended"
    /\ UNCHANGED <<queued, arrivals, shutdown, slot, taken, reporter, reaper>>

\* reaper_loop: while True
Reap ==
    /\ reaper' = IF reaper = "sleep" THEN "reap" ELSE "sleep"
    /\ UNCHANGED <<queued, arrivals, shutdown, slot, taken, reporter, prewarm>>

\* gather returns: no task is left
Exited ==
    /\ \A s \in Slots : slot[s] \in {"ended", "dead"}
    /\ reporter = "ended"
    /\ prewarm = "ended"
    /\ reaper = "ended"

SlotStep(s) == Loop(s) \/ Brpop(s) \/ BrpopNothing(s) \/ JobDone(s)

Next ==
    \/ Arrive
    \/ Signal
    \/ \E s \in Slots : SlotStep(s) \/ SlotDies(s)
    \/ Report
    \/ PrewarmEnd
    \/ Reap

Spec == Init /\ [][Next]_vars

\* The event loop resumes every task, and Redis answers a slot's BRPOP with a job
\* if there is one again and again.
FairSpec ==
    /\ Spec
    /\ \A s \in Slots : WF_vars(SlotStep(s)) /\ SF_vars(Brpop(s))
    /\ WF_vars(Report)
    /\ WF_vars(PrewarmEnd)
    /\ WF_vars(Reap)

-----------------------------------------------------------------------------

TypeOK ==
    /\ queued \in [Queues -> 0..MaxArrivals]
    /\ arrivals \in 0..MaxArrivals
    /\ shutdown \in {0, 1}
    /\ slot \in [Slots -> {"loop", "pop", "job", "ended", "dead"}]
    /\ taken \in [Slots -> 0..MaxArrivals]
    /\ reporter \in {"report", "sleep", "ended"}
    /\ prewarm \in {"running", "ended"}
    /\ reaper \in {"sleep", "reap"}

\* After the signal a slot takes at most one more job, the one its BRPOP was
\* waiting for: the flag is looked at before each BRPOP.
AtMostOneMore == \A s \in Slots : taken[s] <= 1

\* A signal stops every slot and the reporter, whatever still arrives.
SlotsStop == shutdown = 1 ~> reporter = "ended" /\ \A s \in Slots : slot[s] \in {"ended", "dead"}

\* Every language is served: no queue stays non-empty for ever while a slot lives
\* and no signal comes, although BRPOP prefers the languages at the front.  (It
\* needs arrivals to pause: jobs that never stop coming for a language at the front
\* keep those behind it waiting.)
EveryLanguageServed ==
    \A q \in Queues :
        []<>(queued[q] = 0 \/ shutdown = 1 \/ \A s \in Slots : slot[s] = "dead")

\* "finishing in-flight jobs then exiting" (worker.py:59): after a signal gather
\* returns once all its tasks have.
ExitsAfterSignal == shutdown = 1 ~> Exited
=============================================================================
