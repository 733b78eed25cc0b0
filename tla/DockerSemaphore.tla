--------------------------- MODULE DockerSemaphore ---------------------------
(***************************************************************************)
(* execution/docker_semaphore.py: a counting semaphore kept in Redis.  The *)
(* list "key" holds one token per free slot; "key:init" says that the      *)
(* tokens were created.  Every await is a step of its own, so that tasks   *)
(* of several worker processes interleave between the commands.            *)
(*                                                                         *)
(* Two kinds of faults happen around the code.  A task may be lost at any  *)
(* await: its worker crashes, or a Redis command raises.  And Redis, which *)
(* runs without persistence, may restart empty while tasks hold slots.     *)
(***************************************************************************)
EXTENDS Integers, FiniteSets

CONSTANTS Tasks,        \* coroutines that enter the semaphore
          Concurrency,  \* slots created by the initialiser
          MaxFaults,    \* bound on the number of lost tasks
          MaxRestarts   \* bound on the number of Redis restarts

ASSUME TasksFinite == IsFiniteSet(Tasks)
ASSUME ConcurrencyPositive == Concurrency \in Nat \ {0}
ASSUME FaultBounds == MaxFaults \in Nat /\ MaxRestarts \in Nat

VARIABLES init,      \* EXISTS "key:init"
          slots,     \* LLEN key
          pc,        \* where each task is in _semaphore()
          faults,    \* tasks lost so far
          lost,      \* slots that went with them since Redis started
          restarts   \* Redis restarts so far

faultVars == <<faults, lost, restarts>>
vars == <<init, slots, pc, faultVars>>

\* "delete" and "rpush" are the two awaits of the task that won SETNX.
Stages == {"idle", "delete", "rpush", "brpop", "held"}

Held == {t \in Tasks : pc[t] = "held"}
Initialisers == {t \in Tasks : pc[t] \in {"delete", "rpush"}}

Move(t, from, to) ==
    /\ pc[t] = from
    /\ pc' = [pc EXCEPT ![t] = to]

Init ==
    /\ init = 0
    /\ slots = 0
    /\ pc = [t \in Tasks |-> "idle"]
    /\ faults = 0
    /\ lost = 0
    /\ restarts = 0

-----------------------------------------------------------------------------

\* (mutants) The initialiser does not look at the key; it runs once per process
\* and not after a Redis restart.
SetnxAlways(t) ==
    /\ Move(t, "idle", "delete")
    /\ init' = 1
    /\ UNCHANGED <<slots, faultVars>>

SetnxOncePerProcess(t) ==
    /\ Move(t, "idle", IF init = 1 \/ restarts > 0 THEN "brpop" ELSE "delete")
    /\ init' = 1
    /\ UNCHANGED <<slots, faultVars>>

\* if await r.setnx(f"{key}:init", "1")
Setnx(t) ==
    /\ Move(t, "idle", IF init = 1 THEN "brpop" ELSE "delete")
    /\ init' = 1
    /\ UNCHANGED <<slots, faultVars>>

\* await r.delete(key)
Delete(t) ==
    /\ Move(t, "delete", "rpush")
    /\ slots' = 0
    /\ UNCHANGED <<init, faultVars>>

\* await r.rpush(key, *["t"] * concurrency)
Rpush(t) ==
    /\ Move(t, "rpush", "brpop")
    /\ slots' = slots + Concurrency
    /\ UNCHANGED <<init, faultVars>>

\* (mutant) RPOP whose nil answer is taken for a token.
BrpopUnchecked(t) ==
    /\ Move(t, "brpop", "held")
    /\ slots' = slots - 1
    /\ UNCHANGED <<init, faultVars>>

\* await r.brpop(key, timeout=_ACQUIRE_TIMEOUT) returns a token
Brpop(t) ==
    /\ slots > 0
    /\ Move(t, "brpop", "held")
    /\ slots' = slots - 1
    /\ UNCHANGED <<init, faultVars>>

\* ... or None once the timeout is over: RuntimeError, nothing to give back
BrpopTimeout(t) ==
    /\ slots = 0
    /\ Move(t, "brpop", "idle")
    /\ UNCHANGED <<init, slots, faultVars>>

\* (mutant) The token is not given back.
ReleaseWithoutLpush(t) ==
    /\ Move(t, "held", "idle")
    /\ UNCHANGED <<slots, init, faultVars>>

\* finally: await r.lpush(key, "t")
Release(t) ==
    /\ Move(t, "held", "idle")
    /\ slots' = slots + 1
    /\ UNCHANGED <<init, faultVars>>

\* What is never pushed when t goes away: the slot it holds, or all of them.
Owes(t) == CASE pc[t] = "held" -> 1
             [] t \in Initialisers -> Concurrency
             [] OTHER -> 0

\* The task goes away between two awaits, and with it what it still had to do.
Lose(t) ==
    /\ faults < MaxFaults
    /\ pc[t] # "idle"
    /\ pc' = [pc EXCEPT ![t] = "idle"]
    /\ faults' = faults + 1
    /\ lost' = lost + Owes(t)
    /\ UNCHANGED <<init, slots, restarts>>

\* redis-server --save "" --appendonly no: both keys are gone afterwards.  The
\* tasks of the workers go on with their next command.
RedisRestart ==
    /\ restarts < MaxRestarts
    /\ init' = 0
    /\ slots' = 0
    /\ restarts' = restarts + 1
    /\ lost' = 0
    /\ UNCHANGED <<pc, faults>>

Next ==
    \/ \E t \in Tasks :
          \/ Setnx(t)
          \/ Delete(t)
          \/ Rpush(t)
          \/ Brpop(t)
          \/ BrpopTimeout(t)
          \/ Release(t)
          \/ Lose(t)
    \/ RedisRestart

Spec == Init /\ [][Next]_vars

Step(t) == \/ Setnx(t)
           \/ Delete(t)
           \/ Rpush(t)
           \/ Brpop(t)
           \/ BrpopTimeout(t)
           \/ Release(t)

\* Jobs keep arriving, the event loop resumes every coroutine whose command was
\* answered, and what runs inside the block (docker run, a compiler) ends.
FairSpec == Spec /\ \A t \in Tasks : WF_vars(Step(t))

-----------------------------------------------------------------------------

TypeOK ==
    /\ init \in {0, 1}
    /\ slots \in Nat
    /\ pc \in [Tasks -> Stages]
    /\ faults \in 0..MaxFaults
    /\ lost \in Nat
    /\ restarts \in 0..MaxRestarts

\* Tokens are conserved across any interleaving, crash and restart: the free
\* slots, the held ones and those an initialiser has still to push (lines 39-41)
\* never exceed what one initialisation per Redis lifetime accounts for.
SlotBudget ==
    slots + Cardinality(Held) + Concurrency * Cardinality(Initialisers)
        <= Concurrency * (restarts + init)

\* What the callers rely on ("Limits concurrent compilers to ~CPU core count"):
\* as long as Redis has not restarted no more than Concurrency tasks are inside
\* the block, whatever tasks crash; each restart adds at most Concurrency more.
BoundedHolders == Cardinality(Held) <= Concurrency * (restarts + 1)

\* Every missing slot is accounted for: once an initialisation is over, all the
\* Concurrency tokens are in the list or held but for one per holder that went away
\* and all of them per initialiser that did, also after a Redis restart that caught
\* another initialiser between SETNX, DEL and RPUSH (lines 39-41).
NoSlotLost ==
    (init = 1 /\ Initialisers = {})
        => slots + Cardinality(Held) + lost >= Concurrency

\* While jobs keep coming the semaphore keeps being granted: after a Redis restart
\* (the purpose of checking SETNX on every acquire), and after the loss of some
\* holders.  It stops for good only when all its slots were lost, one by one or
\* with one initialiser (line 41), and Redis was not restarted since.
KeepsServing == []<>(Held # {} \/ lost >= Concurrency)

\* The module's promise (lines 2-11) read as it stands, Redis restarts included:
\* never more than Concurrency tasks inside the block.
LimitKept == Cardinality(Held) <= Concurrency

\* "the slots are gone and must be recreated" (lines 36-38): when the init key is
\* there and nobody is creating slots any more, there are slots.
SlotsRecreated ==
    (init = 1 /\ Initialisers = {}) => slots + Cardinality(Held) > 0

\* With at most MaxRestarts Redis restarts _semaphore() implements a counting
\* semaphore of that many times Concurrency; without restarts, of Concurrency.
Semaphore == INSTANCE CountingSemaphore WITH
                 holders <- Held,
                 Limit <- Concurrency * (MaxRestarts + 1)

ImplementsSemaphore == Semaphore!Spec

=============================================================================
