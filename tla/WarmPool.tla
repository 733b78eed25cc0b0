------------------------------- MODULE WarmPool -------------------------------
(***************************************************************************)
(* execution/container_pool.py for one image: the Redis list of warm       *)
(* containers, the jobs that acquire and release containers, the reaper of *)
(* every worker process, and the _kill_container tasks they leave behind.  *)
(* The executors' side (a cold docker run on a miss, use, cleanup) is the  *)
(* one the languages/*.py executors share.                                 *)
(*                                                                         *)
(* Every await that reads or writes Redis or Docker is a step of its own.  *)
(* Time is a counter that all processes of the one host read.              *)
(***************************************************************************)
EXTENDS Integers, Sequences, FiniteSets

CONSTANTS Jobs,        \* coroutines that run one job after another
          Reapers,     \* reaper_loop() of each worker process
          Containers,  \* container ids (with their temp_dir) docker may hand out
          PoolMax,     \* WARM_POOL_MAX_PER_IMAGE
          TTL,         \* WARM_CONTAINER_TTL_SECONDS
          MaxTime,     \* bound on the clock
          MaxFaults,   \* bound on crashes, deaths, failed starts and hung removals
          NoEntry      \* None: the job has no container

ASSUME PoolMaxAssumption == PoolMax \in Nat
ASSUME TimeAssumption == TTL \in Nat /\ MaxTime \in Nat
ASSUME FaultAssumption == MaxFaults \in Nat

\* The JSON object pushed into the list.
Entries == [id : Containers, born : 0..MaxTime]

ASSUME NoEntryAssumption == NoEntry \notin Entries

VARIABLES now,     \* time.time()
          pool,    \* warm_pool:<image>, head first; LPUSH at the head, RPOP at the tail
          status,  \* of each container: "unborn", "running" or "gone"
          dirs,    \* containers whose temp_dir exists on disk
          kills,   \* containers with a pending _kill_container task
          pc,      \* where each job is
          mine,    \* the entry a job works with
          rpc,     \* where each reaper is in _reap_once
          rnow,    \* its "now"
          raw,     \* its raw_entries
          pos,     \* its place in the loop over raw_entries
          keep,    \* its keep
          raced,   \* history: the reapers that replaced a list which had changed
                   \* since they read it
          faults   \* crashes, deaths, failed starts and hung removals so far

jobVars == <<pc, mine>>
reaperVars == <<rpc, rnow, raw, pos, keep, raced>>
dockerVars == <<status, dirs, kills>>
vars == <<now, pool, dockerVars, jobVars, reaperVars, faults>>

\* The stages in which a job works with the container of its entry.
Owning == {"check", "using", "push"}
Owners == {j \in Jobs : pc[j] \in Owning}
Owned == {mine[j].id : j \in Owners}

Expired(e, t) == t - e.born > TTL
Pooled == {pool[i].id : i \in 1..Len(pool)}

Init ==
    /\ now = 0
    /\ pool = <<>>
    /\ status = [c \in Containers |-> "unborn"]
    /\ dirs = {}
    /\ kills = {}
    /\ pc = [j \in Jobs |-> "acquire"]
    /\ mine = [j \in Jobs |-> NoEntry]
    /\ rpc = [r \in Reapers |-> "sleep"]
    /\ rnow = [r \in Reapers |-> 0]
    /\ raw = [r \in Reapers |-> <<>>]
    /\ pos = [r \in Reapers |-> 1]
    /\ keep = [r \in Reapers |-> <<>>]
    /\ raced = {}
    /\ faults = 0

-----------------------------------------------------------------------------
(* Jobs: acquire, cold start, use, release. *)

\* The job goes on without a container.
Drop(j) ==
    /\ pc' = [pc EXCEPT ![j] = "acquire"]
    /\ mine' = [mine EXCEPT ![j] = NoEntry]

\* acquire: RPOP finds the pool empty, the executor starts a container itself.
RpopMiss(j) ==
    /\ pc[j] = "acquire"
    /\ pool = <<>>
    /\ pc' = [pc EXCEPT ![j] = "cold"]
    /\ UNCHANGED <<now, pool, dockerVars, mine, reaperVars, faults>>

\* (mutant) LINDEX in place of RPOP: the entry stays on offer.
RpopPeek(j) ==
    /\ pc[j] = "acquire"
    /\ pool # <<>>
    /\ ~Expired(pool[Len(pool)], now)
    /\ pc' = [pc EXCEPT ![j] = "check"]
    /\ mine' = [mine EXCEPT ![j] = pool[Len(pool)]]
    /\ UNCHANGED <<now, pool, dockerVars, reaperVars, faults>>

\* acquire: RPOP returns an entry.  One that is too old is killed in the
\* background and the loop goes on; the others are checked for liveness.
Rpop(j) ==
    /\ pc[j] = "acquire"
    /\ pool # <<>>
    /\ LET e == pool[Len(pool)] IN
          \/ /\ Expired(e, now)
             /\ kills' = kills \cup {e.id}
             /\ UNCHANGED <<pc, mine>>
          \/ /\ ~Expired(e, now)
             /\ pc' = [pc EXCEPT ![j] = "check"]
             /\ mine' = [mine EXCEPT ![j] = e]
             /\ UNCHANGED kills
    /\ pool' = SubSeq(pool, 1, Len(pool) - 1)
    /\ UNCHANGED <<now, status, dirs, reaperVars, faults>>

\* (mutant) No "continue" after the kill: the refused container is used.
CheckUsableFallsThrough(j) ==
    /\ pc[j] = "check"
    /\ kills' \in {kills, kills \cup {mine[j].id}}
    /\ pc' = [pc EXCEPT ![j] = "using"]
    /\ UNCHANGED <<now, pool, mine, status, dirs, reaperVars, faults>>

\* acquire: _container_is_usable.  A running container may be refused as well,
\* when a deploy has rebuilt the image.
CheckUsable(j) ==
    /\ pc[j] = "check"
    /\ \/ /\ status[mine[j].id] = "running"
          /\ pc' = [pc EXCEPT ![j] = "using"]
          /\ UNCHANGED <<mine, kills>>
       \/ /\ kills' = kills \cup {mine[j].id}
          /\ Drop(j)
    /\ UNCHANGED <<now, pool, status, dirs, reaperVars, faults>>

\* c is the next id docker hands out: which of the new ones makes no difference.
NextId(c) ==
    /\ status[c] = "unborn"
    /\ c = CHOOSE d \in Containers : status[d] = "unborn"

\* The executor's mkdtemp and docker run -d.
ColdStart(j) ==
    /\ pc[j] = "cold"
    /\ \E c \in Containers :
          /\ NextId(c)
          /\ status' = [status EXCEPT ![c] = "running"]
          /\ dirs' = dirs \cup {c}
          /\ mine' = [mine EXCEPT ![j] = [id |-> c, born |-> now]]
    /\ pc' = [pc EXCEPT ![j] = "using"]
    /\ UNCHANGED <<now, pool, kills, reaperVars, faults>>

\* docker run fails, or the wait for it is given up while the daemon goes on and
\* starts the container.  container_id stays None, so cleanup() does nothing.
ColdStartFails(j) ==
    /\ faults < MaxFaults
    /\ pc[j] = "cold"
    /\ \E c \in Containers, s \in {"running", "gone"} :
          /\ NextId(c)
          /\ status' = [status EXCEPT ![c] = s]
          /\ dirs' = dirs \cup {c}
    /\ Drop(j)
    /\ faults' = faults + 1
    /\ UNCHANGED <<now, pool, kills, reaperVars>>

\* release: _sanitize; what it finds dead is discarded, what is alive gets a new
\* entry.
Sanitize(j) ==
    /\ pc[j] = "using"
    /\ \/ /\ status[mine[j].id] = "running"
          /\ pc' = [pc EXCEPT ![j] = "push"]
          /\ mine' = [mine EXCEPT ![j] = [id |-> mine[j].id, born |-> now]]
          /\ UNCHANGED dirs
       \/ /\ status[mine[j].id] # "running"
          /\ dirs' = dirs \ {mine[j].id}
          /\ Drop(j)
    /\ UNCHANGED <<now, pool, status, kills, reaperVars, faults>>

\* (mutants) The cap is off by one; a container that did not fit is forgotten.
CappedPushOffByOne(j) ==
    /\ pc[j] = "push"
    /\ Len(pool) <= PoolMax
    /\ pool' = <<mine[j]>> \o pool
    /\ Drop(j)
    /\ UNCHANGED <<now, dockerVars, reaperVars, faults>>

CappedPushForgets(j) ==
    /\ pc[j] = "push"
    /\ pool' = IF Len(pool) < PoolMax THEN <<mine[j]>> \o pool ELSE pool
    /\ Drop(j)
    /\ UNCHANGED <<now, dockerVars, reaperVars, faults>>

\* release: _LUA_CAPPED_PUSH, atomic in Redis, and the kill of what did not fit.
CappedPush(j) ==
    /\ pc[j] = "push"
    /\ \/ /\ Len(pool) < PoolMax
          /\ pool' = <<mine[j]>> \o pool
          /\ UNCHANGED kills
       \/ /\ Len(pool) >= PoolMax
          /\ kills' = kills \cup {mine[j].id}
          /\ UNCHANGED pool
    /\ Drop(j)
    /\ UNCHANGED <<now, status, dirs, reaperVars, faults>>

\* The worker of the job is killed: nobody cleans up after the job.
JobCrash(j) ==
    /\ faults < MaxFaults
    /\ pc[j] # "acquire"
    /\ Drop(j)
    /\ faults' = faults + 1
    /\ UNCHANGED <<now, pool, dockerVars, reaperVars>>
-----------------------------------------------------------------------------
(* The reaper, _reap_once. *)

\* The round is over and its locals are gone.
Asleep(r) ==
    /\ rpc' = [rpc EXCEPT ![r] = "sleep"]
    /\ rnow' = [rnow EXCEPT ![r] = 0]
    /\ raw' = [raw EXCEPT ![r] = <<>>]
    /\ pos' = [pos EXCEPT ![r] = 1]
    /\ keep' = [keep EXCEPT ![r] = <<>>]

\* now = time.time()
ReapStart(r) ==
    /\ rpc[r] = "sleep"
    /\ rpc' = [rpc EXCEPT ![r] = "lrange"]
    /\ rnow' = [rnow EXCEPT ![r] = now]
    /\ UNCHANGED <<now, pool, dockerVars, jobVars, raw, pos, keep, raced, faults>>

\* raw_entries = await r.lrange(key, 0, -1); nothing to do when it is empty
ReapLrange(r) ==
    /\ rpc[r] = "lrange"
    /\ \/ /\ pool = <<>>
          /\ Asleep(r)
       \/ /\ pool # <<>>
          /\ rpc' = [rpc EXCEPT ![r] = "scan"]
          /\ raw' = [raw EXCEPT ![r] = pool]
          /\ UNCHANGED <<rnow, pos, keep>>
    /\ UNCHANGED <<now, pool, dockerVars, jobVars, raced, faults>>

\* (mutant) The age of the entry is not looked at.
ReapEntryKeepsAll(r) ==
    /\ rpc[r] = "scan"
    /\ pos[r] <= Len(raw[r])
    /\ keep' = [keep EXCEPT ![r] = Append(keep[r], raw[r][pos[r]])]
    /\ pos' = [pos EXCEPT ![r] = pos[r] + 1]
    /\ UNCHANGED <<now, pool, dockerVars, jobVars, rpc, rnow, raw, raced, faults>>

\* One round of "for raw in raw_entries": kill in the background, or keep.
ReapEntry(r) ==
    /\ rpc[r] = "scan"
    /\ pos[r] <= Len(raw[r])
    /\ LET e == raw[r][pos[r]] IN
          \/ /\ Expired(e, rnow[r])
             /\ kills' = kills \cup {e.id}
             /\ UNCHANGED keep
          \/ /\ ~Expired(e, rnow[r])
             /\ keep' = [keep EXCEPT ![r] = Append(keep[r], e)]
             /\ UNCHANGED kills
    /\ pos' = [pos EXCEPT ![r] = pos[r] + 1]
    /\ UNCHANGED <<now, pool, status, dirs, jobVars, rpc, rnow, raw, raced, faults>>

\* MULTI; DEL key; RPUSH key *keep; EXEC
ReapReplace(r) ==
    /\ rpc[r] = "scan"
    /\ pos[r] > Len(raw[r])
    /\ pool' = keep[r]
    /\ raced' = IF pool = raw[r] THEN raced ELSE raced \cup {r}
    /\ Asleep(r)
    /\ UNCHANGED <<now, dockerVars, jobVars, faults>>

\* An exception or a crash ends the round; reaper_loop starts over.
ReapFails(r) ==
    /\ faults < MaxFaults
    /\ rpc[r] # "sleep"
    /\ Asleep(r)
    /\ faults' = faults + 1
    /\ UNCHANGED <<now, pool, dockerVars, jobVars, raced>>

-----------------------------------------------------------------------------
(* Docker and the clock. *)

\* _kill_container: docker rm -f, then rmtree
Kill(c) ==
    /\ c \in kills
    /\ status' = [status EXCEPT ![c] = "gone"]
    /\ dirs' = dirs \ {c}
    /\ kills' = kills \ {c}
    /\ UNCHANGED <<now, pool, jobVars, reaperVars, faults>>

\* docker rm -f hangs, is killed after 15 s, and the directory goes all the same;
\* or the worker goes away with the task.
KillFails(c) ==
    /\ faults < MaxFaults
    /\ c \in kills
    /\ dirs' \in {dirs, dirs \ {c}}
    /\ kills' = kills \ {c}
    /\ faults' = faults + 1
    /\ UNCHANGED <<now, pool, status, jobVars, reaperVars>>

\* A container ends on its own (out of memory, docker daemon, host).
Die(c) ==
    /\ faults < MaxFaults
    /\ status[c] = "running"
    /\ status' = [status EXCEPT ![c] = "gone"]
    /\ faults' = faults + 1
    /\ UNCHANGED <<now, pool, dirs, kills, jobVars, reaperVars>>

Tick ==
    /\ now < MaxTime
    /\ now' = now + 1
    /\ UNCHANGED <<pool, dockerVars, jobVars, reaperVars, faults>>

JobStep(j) ==
    \/ RpopMiss(j)
    \/ Rpop(j)
    \/ CheckUsable(j)
    \/ ColdStart(j)
    \/ Sanitize(j)
    \/ CappedPush(j)

ReaperStep(r) ==
    \/ ReapStart(r)
    \/ ReapLrange(r)
    \/ ReapEntry(r)
    \/ ReapReplace(r)

Next ==
    \/ \E j \in Jobs : JobStep(j) \/ ColdStartFails(j) \/ JobCrash(j)
    \/ \E r \in Reapers : ReaperStep(r) \/ ReapFails(r)
    \/ \E c \in Containers : Kill(c) \/ KillFails(c) \/ Die(c)
    \/ Tick

Spec == Init /\ [][Next]_vars

\* reaper_loop catches every exception and goes round again: every reaper makes
\* progress.  Nothing is assumed of the jobs.
FairSpec == Spec /\ \A r \in Reapers : WF_vars(ReaperStep(r))

-----------------------------------------------------------------------------

TypeOK ==
    /\ now \in 0..MaxTime
    /\ pool \in Seq(Entries)
    /\ status \in [Containers -> {"unborn", "running", "gone"}]
    /\ dirs \in SUBSET Containers
    /\ kills \in SUBSET Containers
    /\ pc \in [Jobs -> {"acquire", "cold"} \cup Owning]
    /\ mine \in [Jobs -> Entries \cup {NoEntry}]
    /\ \A j \in Owners : mine[j] \in Entries
    /\ rpc \in [Reapers -> {"sleep", "lrange", "scan"}]
    /\ rnow \in [Reapers -> 0..MaxTime]
    /\ raw \in [Reapers -> Seq(Entries)]
    /\ pos \in [Reapers -> Nat \ {0}]
    /\ keep \in [Reapers -> Seq(Entries)]
    /\ raced \in SUBSET Reapers
    /\ faults \in 0..MaxFaults

\* "prevents exceeding max under concurrency" (container_pool.py:216): the pool
\* never outgrows its cap, although releases race each other and reapers write
\* back lists they read earlier.
PoolBounded == Len(pool) <= PoolMax

\* The container ids in the list are distinct.
DistinctIds(s) == \A i, k \in 1..Len(s) : s[i].id = s[k].id => i = k

\* No container has two users or is on offer while in use.
OneUser ==
    /\ \A j, k \in Owners : mine[j].id = mine[k].id => j = k
    /\ Owned \cap Pooled = {}
    /\ DistinctIds(pool)

\* acquire pops atomically and release pushes once: whatever jobs, kills, crashes
\* and expiries interleave, a container has one user, unless a reaper replaced a
\* list that changed after its LRANGE.
Exclusive == raced = {} => OneUser

\* Nobody pulls a container from under a job: one in use is never up for removal
\* and its temp_dir (mounted as /app) exists, with the same exception.
Undisturbed == raced = {} => /\ Owned \cap kills = {}
                             /\ Owned \subseteq dirs

\* Every running container is used, on offer or about to be removed, but for one
\* for every crash, failed start or hung removal (again with the reaper's
\* exception): no other path of acquire, release and reaper leaves a container
\* running for ever ("sleep infinity") with nobody knowing of it.
Accounted ==
    raced = {} =>
        Cardinality({c \in Containers :
            status[c] = "running" /\ c \notin Owned \cup Pooled \cup kills}) <= faults

\* "kills containers that have been idle longer than WARM_CONTAINER_TTL_SECONDS"
\* (container_pool.py:9-10): again and again no entry of the pool is expired,
\* although a reaper that looked earlier may put one back for a while.  With a
\* clock that stops at MaxTime this says that every expired entry leaves.
ExpiredLeaves == []<>(\A i \in 1..Len(pool) : ~Expired(pool[i], now))

\* "Atomically replace the list with only the live entries"
\* (container_pool.py:380): a reaper's replacement drops no entry that is still
\* alive and brings back none that was taken.
ReplacesAtomically ==
    [][\A r \in Reapers : ReapReplace(r) =>
          /\ \A i \in 1..Len(pool') : \E k \in 1..Len(pool) : pool'[i] = pool[k]
          /\ \A k \in 1..Len(pool) :
                Expired(pool[k], now) \/ \E i \in 1..Len(pool') : pool'[i] = pool[k]]_vars
=============================================================================
