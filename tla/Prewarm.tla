-------------------------------- MODULE Prewarm --------------------------------
(***************************************************************************)
(* container_pool.ensure_pool_target, which every worker process calls at  *)
(* its start to fill the pool of one image under a lock in Redis, and the  *)
(* rounds of the reaper over the keys of all pools.  The lock is a key     *)
(* with an expiry; its name begins like those of the pools.  WarmPool has  *)
(* what happens inside one pool; here a pool is its length.                *)
(***************************************************************************)
EXTENDS Integers, FiniteSets

CONSTANTS Workers,    \* starts of worker processes
          Pools,      \* images with a pool; Image is one of them
          Image,      \* the image that is prewarmed
          Target,     \* CPP_PREWARM_TARGET
          PoolMax,    \* WARM_POOL_MAX_PER_IMAGE
          MaxFaults,  \* bound on crashes and failing docker runs
          MaxMoves,   \* bound on what the jobs do to the pool and to the queue
          NoWorker    \* no lock

ASSUME PoolsAssumption == Image \in Pools
ASSUME TargetAssumption == Target \in Nat /\ PoolMax \in Nat
ASSUME BoundAssumption == MaxFaults \in Nat /\ MaxMoves \in Nat
ASSUME NoWorkerAssumption == NoWorker \notin Workers

VARIABLES pc,       \* where each ensure_pool_target is
          current,  \* its current
          lock,     \* whose value is in the lock key
          seen,     \* current_lock_value: whose value the GET returned
          lapsed,   \* history: workers whose lock went away before they removed it
          pool,     \* LLEN of Image's pool
          busy,     \* 1 when queue_depth() > 0
          scan,     \* keys the reaper's round has still to visit
          round,    \* "sleep", "scan", or how the round ended: "ended", "failed"
          faults, moves

prewarmVars == <<pc, current, lock, seen, lapsed>>
reaperVars == <<scan, round>>
vars == <<prewarmVars, pool, busy, reaperVars, faults, moves>>

Stages == {"start", "llen", "loop", "run", "push", "size", "get", "del", "done"}

\* Workers that have the lock, as far as they know, and may start containers
Prewarming == {w \in Workers : pc[w] \in {"llen", "loop", "run", "push", "size"}}

\* Not a key of a pool, but one that scan_iter finds
LockKey == NoWorker

Init ==
    /\ pc = [w \in Workers |-> "start"]
    /\ current = [w \in Workers |-> 0]
    /\ lock = NoWorker
    /\ seen = [w \in Workers |-> NoWorker]
    /\ lapsed = {}
    /\ pool = 0
    /\ busy = 0
    /\ scan = {}
    /\ round = "sleep"
    /\ faults = 0
    /\ moves = 0

Goto(w, stage) == pc' = [pc EXCEPT ![w] = stage]

Fault ==
    /\ faults < MaxFaults
    /\ faults' = faults + 1

-----------------------------------------------------------------------------
(* ensure_pool_target *)

\* (mutant) SET without NX.
SetAlways(w) ==
    /\ pc[w] = "start"
    /\ lock' = w
    /\ Goto(w, "llen")
    /\ UNCHANGED <<current, seen, lapsed, pool, busy, reaperVars, faults, moves>>

\* SET NX EX 900
SetNx(w) ==
    /\ pc[w] = "start"
    /\ IF Target > 0 /\ lock = NoWorker
       THEN lock' = w /\ Goto(w, "llen")
       ELSE UNCHANGED lock /\ Goto(w, "done")
    /\ UNCHANGED <<current, seen, lapsed, pool, busy, reaperVars, faults, moves>>

\* (mutant) The target is compared with what was there at first.
LlenOnce(w) ==
    /\ pc[w] \in {"llen", "size"}
    /\ current' = [current EXCEPT ![w] = IF pc[w] = "llen" THEN pool ELSE @]
    /\ Goto(w, IF current'[w] < Target THEN "loop" ELSE "get")
    /\ UNCHANGED <<lock, seen, lapsed, pool, busy, reaperVars, faults, moves>>

\* LLEN, and the loop's test
Llen(w) ==
    /\ pc[w] \in {"llen", "size"}
    /\ current' = [current EXCEPT ![w] = pool]
    /\ Goto(w, IF pool < Target THEN "loop" ELSE "get")
    /\ UNCHANGED <<lock, seen, lapsed, pool, busy, reaperVars, faults, moves>>

\* queue_depth() > 0: sleep(1) and LLEN
Wait(w) ==
    /\ pc[w] = "loop"
    /\ busy = 1
    /\ Goto(w, "size")
    /\ UNCHANGED <<current, lock, seen, lapsed, pool, busy, reaperVars, faults, moves>>

\* docker run under docker_run_semaphore()
Run(w) ==
    /\ pc[w] = "loop"
    /\ busy = 0
    /\ Goto(w, "run")
    /\ UNCHANGED <<current, lock, seen, lapsed, pool, busy, reaperVars, faults, moves>>

Started(w) ==
    /\ pc[w] = "run"
    /\ Goto(w, "push")
    /\ UNCHANGED <<current, lock, seen, lapsed, pool, busy, reaperVars, faults, moves>>

\* It fails, or takes more than 60 s: break.  After a timeout the container may
\* start all the same.
RunFails(w) ==
    /\ Fault
    /\ pc[w] = "run"
    /\ Goto(w, "get")
    /\ UNCHANGED <<current, lock, seen, lapsed, pool, busy, reaperVars, moves>>

\* _LUA_CAPPED_PUSH; the container is removed when the pool is full
CappedPush(w) ==
    /\ pc[w] = "push"
    /\ pool' = IF pool < PoolMax THEN pool + 1 ELSE pool
    /\ Goto(w, "size")
    /\ UNCHANGED <<current, lock, seen, lapsed, busy, reaperVars, faults, moves>>

\* finally: GET lock_key
Get(w) ==
    /\ pc[w] = "get"
    /\ seen' = [seen EXCEPT ![w] = lock]
    /\ Goto(w, "del")
    /\ UNCHANGED <<current, lock, lapsed, pool, busy, reaperVars, faults, moves>>

\* (mutant) The lock is deleted whosever it is.
DelAlways(w) ==
    /\ pc[w] = "del"
    /\ lock' = NoWorker
    /\ Goto(w, "done")
    /\ UNCHANGED <<current, seen, lapsed, pool, busy, reaperVars, faults, moves>>

\* DEL, if the value was this worker's when it was read
Del(w) ==
    /\ pc[w] = "del"
    /\ lock' = IF seen[w] = w THEN NoWorker ELSE lock
    /\ lapsed' = IF seen[w] = w THEN lapsed \cup ({lock} \ {w, NoWorker}) ELSE lapsed
    /\ Goto(w, "done")
    /\ UNCHANGED <<current, seen, pool, busy, reaperVars, faults, moves>>

\* The process ends, with or without a container in hand; the lock stays.
Crash(w) ==
    /\ Fault
    /\ pc[w] \notin {"start", "done"}
    /\ Goto(w, "done")
    /\ UNCHANGED <<current, lock, seen, lapsed, pool, busy, reaperVars, moves>>

\* (mutant) A lock without an expiry.
ExpireNever ==
    /\ FALSE
    /\ UNCHANGED vars

\* 900 s are over.  Nobody waits for them: a prewarm can take longer, for one
\* because it stands back as long as jobs are queued.
Expire ==
    /\ lock # NoWorker
    /\ lock' = NoWorker
    /\ lapsed' = lapsed \cup {lock}
    /\ UNCHANGED <<pc, current, seen, pool, busy, reaperVars, faults, moves>>

-----------------------------------------------------------------------------
(* The jobs, and the reaper's round. *)

\* acquire() takes a container, release() puts one back, a job is queued
Jobs ==
    /\ moves < MaxMoves
    /\ moves' = moves + 1
    /\ \/ pool > 0 /\ pool' = pool - 1 /\ UNCHANGED busy
       \/ pool < PoolMax /\ pool' = pool + 1 /\ UNCHANGED busy
       \/ busy' = 1 /\ UNCHANGED pool
    /\ UNCHANGED <<prewarmVars, reaperVars, faults>>

\* The slots have taken every queued job.
Drained ==
    /\ busy = 1
    /\ busy' = 0
    /\ UNCHANGED <<prewarmVars, pool, reaperVars, faults, moves>>

\* scan_iter("warm_pool:*")
ScanStart ==
    /\ round # "scan"
    /\ round' = "scan"
    /\ scan' = Pools \cup {LockKey}
    /\ UNCHANGED <<prewarmVars, pool, busy, faults, moves>>

\* LRANGE of a list, and what WarmPool's reaper does with it
ScanPool ==
    /\ round = "scan"
    /\ \E k \in scan \cap Pools : scan' = scan \ {k}
    /\ UNCHANGED <<prewarmVars, pool, busy, round, faults, moves>>

\* LRANGE of the lock, which is a string: an error that ends the round.  When
\* the lock does not exist scan_iter does not find it, or LRANGE is empty.
ScanLock ==
    /\ round = "scan"
    /\ LockKey \in scan
    /\ IF lock = NoWorker
       THEN scan' = scan \ {LockKey} /\ UNCHANGED round
       ELSE scan' = scan \ {LockKey} /\ round' = "failed"
    /\ UNCHANGED <<prewarmVars, pool, busy, faults, moves>>

ScanEnd ==
    /\ round = "scan"
    /\ scan = {}
    /\ round' = "ended"
    /\ UNCHANGED <<prewarmVars, pool, busy, scan, faults, moves>>

PrewarmStep(w) ==
    \/ SetNx(w)
    \/ Llen(w)
    \/ Wait(w)
    \/ Run(w)
    \/ Started(w)
    \/ CappedPush(w)
    \/ Get(w)
    \/ Del(w)

ReaperStep == ScanStart \/ ScanPool \/ ScanLock \/ ScanEnd

Next ==
    \/ \E w \in Workers : PrewarmStep(w) \/ RunFails(w) \/ Crash(w)
    \/ Expire
    \/ Jobs
    \/ Drained
    \/ ReaperStep

Spec == Init /\ [][Next]_vars

\* The event loop resumes every coroutine, the slots empty the queue, and Redis
\* removes the lock of a worker that is gone.
FairSpec ==
    /\ Spec
    /\ \A w \in Workers : WF_vars(PrewarmStep(w))
    /\ WF_vars(ReaperStep)
    /\ WF_vars(Drained)
    /\ WF_vars(Expire)

-----------------------------------------------------------------------------

TypeOK ==
    /\ pc \in [Workers -> Stages]
    /\ current \in [Workers -> 0..PoolMax]
    /\ lock \in Workers \cup {NoWorker}
    /\ seen \in [Workers -> Workers \cup {NoWorker}]
    /\ lapsed \subseteq Workers
    /\ pool \in 0..PoolMax
    /\ busy \in {0, 1}
    /\ scan \subseteq Pools \cup {LockKey}
    /\ round \in {"sleep", "scan", "ended", "failed"}
    /\ faults \in 0..MaxFaults
    /\ moves \in 0..MaxMoves

\* As long as no lock goes away before its time, at most one worker fills the pool.
LockExcludes == lapsed = {} => Cardinality(Prewarming) <= 1

\* A worker removes a lock that is not its own only if it lost its own after it read
\* it: GET and DEL are two commands, and the comparison between them keeps a worker
\* that was overtaken from freeing its successor's lock.  (A lock that expires in
\* the gap can start a chain: its worker frees the next one's lock, and so on.)
ForeignLockKept ==
    [][\A w \in Workers :
          pc[w] = "del" /\ pc'[w] = "done" /\ lock' # lock =>
              lock = w \/ (w \in lapsed /\ seen[w] = w)]_vars

\* Every call of ensure_pool_target ends, if the target is within the capacity of
\* the pool and jobs stop coming: a push that finds the pool full, and containers
\* that jobs take away, do not keep it going for ever.
PrewarmEnds == \A w \in Workers : <>(pc[w] = "done")

\* Rounds of the reaper go on coming to their end: a round fails while a prewarm
\* holds the lock, and the lock goes away even if its worker does not remove it.
RoundsEnd == []<>(round = "ended")

\* "One process per image takes a Redis lock and tops the pool up"
\* (container_pool.py:229-230).
OneProcessPerImage == Cardinality(Prewarming) <= 1

\* "Periodically scan all warm pool keys" (container_pool.py:345): a round that
\* Redis answers visits every pool.
ScansAllPools == round \in {"ended", "failed"} => scan = {}
=============================================================================
