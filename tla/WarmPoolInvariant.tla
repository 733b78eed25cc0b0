------------------------- MODULE WarmPoolInvariant -------------------------
(***************************************************************************)
(* Proofs about WarmPool, for every set of jobs, reapers and containers,   *)
(* every cap and TTL: types, the capacity of the list, and the invariant   *)
(* Safe, which the steps of the jobs keep.                                 *)
(***************************************************************************)
EXTENDS WarmPool, TLAPS

\* Every reachable state is well typed; a job that works with a container has the
\* entry of one.
THEOREM TypeCorrect == Spec => []TypeOK
<1>1. Init => TypeOK
  BY TimeAssumption, FaultAssumption DEF Init, TypeOK, Owners, Owning
<1>2. TypeOK /\ [Next]_vars => TypeOK'
  <2> SUFFICES ASSUME TypeOK, [Next]_vars PROVE TypeOK'
    OBVIOUS
  <2> USE DEF TypeOK, Owners, Owning, dockerVars, jobVars, reaperVars
  <2>1. ASSUME NEW j \in Jobs, RpopMiss(j) PROVE TypeOK'
    BY <2>1, Zenon DEF RpopMiss
  <2>2. ASSUME NEW j \in Jobs, Rpop(j) PROVE TypeOK'
    <3>1. pool[Len(pool)] \in Entries
      BY <2>2 DEF Rpop
    <3>2. SubSeq(pool, 1, Len(pool) - 1) \in Seq(Entries)
      BY <2>2 DEF Rpop
    <3>3. pool' = SubSeq(pool, 1, Len(pool) - 1) /\ UNCHANGED <<now, status, dirs, reaperVars, faults>>
      BY <2>2, Zenon DEF Rpop
    <3>4. CASE Expired(pool[Len(pool)], now)
      <4>1. kills' = kills \cup {pool[Len(pool)].id} /\ UNCHANGED <<pc, mine>>
        BY <2>2, <3>4, Zenon DEF Rpop
      <4>2. kills' \in SUBSET Containers
        BY <3>1, <4>1, Zenon DEF Entries
      <4>3. QED BY <3>2, <3>3, <4>1, <4>2, Zenon
    <3>5. CASE ~Expired(pool[Len(pool)], now)
      <4>1. /\ mine' = [mine EXCEPT ![j] = pool[Len(pool)]]
            /\ pc' = [pc EXCEPT ![j] = "check"]
            /\ UNCHANGED kills
        BY <2>2, <3>5, Zenon DEF Rpop
      <4>2. /\ mine' \in [Jobs -> Entries \cup {NoEntry}]
            /\ \A k \in Owners' : mine'[k] \in Entries
        BY <3>1, <4>1
      <4>3. QED BY <3>2, <3>3, <4>1, <4>2, Zenon
    <3>6. QED BY <3>4, <3>5, Zenon
  <2>3. ASSUME NEW j \in Jobs, CheckUsable(j) PROVE TypeOK'
    <3>1. mine[j].id \in Containers
      BY <2>3, Zenon DEF CheckUsable, Entries
    <3>2. CASE pc' = [pc EXCEPT ![j] = "using"] /\ UNCHANGED <<mine, kills>>
      <4>1. pc[j] = "check" /\ UNCHANGED <<now, pool, status, dirs, reaperVars, faults>>
        BY <2>3, Zenon DEF CheckUsable
      <4>2. QED BY <3>2, <4>1, Zenon
    <3>3. CASE kills' = kills \cup {mine[j].id} /\ Drop(j)
      <4>1. UNCHANGED <<now, pool, status, dirs, reaperVars, faults>>
        BY <2>3, Zenon DEF CheckUsable
      <4>2. QED BY <3>1, <3>3, <4>1, Zenon DEF Drop
    <3>4. QED BY <2>3, <3>2, <3>3, Zenon DEF CheckUsable
  <2>4. ASSUME NEW j \in Jobs, ColdStart(j) PROVE TypeOK'
    <3>1. PICK c \in Containers :
             /\ status' = [status EXCEPT ![c] = "running"]
             /\ dirs' = dirs \cup {c}
             /\ mine' = [mine EXCEPT ![j] = [id |-> c, born |-> now]]
      BY <2>4, Zenon DEF ColdStart
    <3>2. [id |-> c, born |-> now] \in Entries
      BY Zenon DEF Entries
    <3>3. QED BY <2>4, <3>1, <3>2, Zenon DEF ColdStart
  <2>5. ASSUME NEW j \in Jobs, ColdStartFails(j) PROVE TypeOK'
    BY <2>5, FaultAssumption DEF ColdStartFails, Drop
  <2>6. ASSUME NEW j \in Jobs, Sanitize(j) PROVE TypeOK'
    <3>1. [id |-> mine[j].id, born |-> now] \in Entries
      BY <2>6, Zenon DEF Sanitize, Entries
    <3>2. CASE status[mine[j].id] = "running"
      <4>1. PICK e \in Entries :
               /\ mine' = [mine EXCEPT ![j] = e]
               /\ pc' = [pc EXCEPT ![j] = "push"]
               /\ UNCHANGED <<now, pool, dockerVars, reaperVars, faults>>
        BY <2>6, <3>1, <3>2, Zenon DEF Sanitize
      <4>2. QED BY <4>1, Zenon
    <3>3. CASE status[mine[j].id] # "running"
      BY <2>6, <3>3, Zenon DEF Sanitize, Drop
    <3>4. QED BY <3>2, <3>3, Zenon
  <2>7. ASSUME NEW j \in Jobs, CappedPush(j) PROVE TypeOK'
    <3>1. mine[j].id \in Containers
      BY <2>7, Zenon DEF CappedPush, Entries
    <3>2. <<mine[j]>> \o pool \in Seq(Entries)
      BY <2>7 DEF CappedPush
    <3>3. QED BY <2>7, <3>1, <3>2, Zenon DEF CappedPush, Drop
  <2>8. ASSUME NEW j \in Jobs, JobCrash(j) PROVE TypeOK'
    BY <2>8, FaultAssumption DEF JobCrash, Drop
  <2>9. ASSUME NEW r \in Reapers, ReapStart(r) PROVE TypeOK'
    BY <2>9, Zenon DEF ReapStart
  <2>10. ASSUME NEW r \in Reapers, ReapLrange(r) PROVE TypeOK'
    <3>1. CASE pool = <<>>
      <4>1. Asleep(r) /\ UNCHANGED <<now, pool, dockerVars, jobVars, raced, faults>>
        BY <2>10, <3>1, Zenon DEF ReapLrange
      <4>2. QED BY <4>1, TimeAssumption DEF Asleep
    <3>2. CASE pool # <<>>
      <4>1. /\ rpc' = [rpc EXCEPT ![r] = "scan"]
            /\ raw' = [raw EXCEPT ![r] = pool]
            /\ UNCHANGED <<now, pool, dockerVars, jobVars, rnow, pos, keep, raced, faults>>
        BY <2>10, <3>2, Zenon DEF ReapLrange
      <4>2. raw' \in [Reapers -> Seq(Entries)]
        BY <4>1, Zenon
      <4>3. rpc' \in [Reapers -> {"sleep", "lrange", "scan"}]
        BY <4>1, Zenon
      <4>4. QED BY <4>1, <4>2, <4>3, Zenon
    <3>3. QED BY <3>1, <3>2, Zenon
  <2>11. ASSUME NEW r \in Reapers, ReapEntry(r) PROVE TypeOK'
    <3>1. raw[r][pos[r]] \in Entries
      BY <2>11 DEF ReapEntry
    <3>2. Append(keep[r], raw[r][pos[r]]) \in Seq(Entries)
      BY <3>1
    <3>3. raw[r][pos[r]].id \in Containers
      BY <3>1, Zenon DEF Entries
    <3>4. pos[r] + 1 \in Nat \ {0}
      OBVIOUS
    <3>5. QED BY <2>11, <3>2, <3>3, <3>4, Zenon DEF ReapEntry
  <2>12. ASSUME NEW r \in Reapers, ReapReplace(r) PROVE TypeOK'
    BY <2>12, TimeAssumption DEF ReapReplace, Asleep
  <2>13. ASSUME NEW r \in Reapers, ReapFails(r) PROVE TypeOK'
    BY <2>13, TimeAssumption, FaultAssumption DEF ReapFails, Asleep
  <2>14. ASSUME NEW c \in Containers, Kill(c) \/ KillFails(c) \/ Die(c)
         PROVE  TypeOK'
    <3>1. CASE Kill(c)
      BY <3>1, Zenon DEF Kill
    <3>2. CASE KillFails(c)
      BY <3>2, FaultAssumption DEF KillFails
    <3>3. CASE Die(c)
      BY <3>3, FaultAssumption DEF Die
    <3>4. QED BY <2>14, <3>1, <3>2, <3>3, Zenon
  <2>15. CASE Tick
    BY <2>15, TimeAssumption DEF Tick
  <2>16. CASE UNCHANGED vars
    BY <2>16, Zenon DEF vars
  <2>17. QED
    BY <2>1, <2>2, <2>3, <2>4, <2>5, <2>6, <2>7, <2>8, <2>9, <2>10, <2>11,
       <2>12, <2>13, <2>14, <2>15, <2>16, Zenon DEF Next, JobStep, ReaperStep
<1>3. QED BY <1>1, <1>2, PTL DEF Spec

\* What a reaper holds while it scans: a list that fitted the pool when it was read,
\* and at most one kept entry for each one it has passed.
CopiesBounded ==
    \A r \in Reapers :
        /\ Len(raw[r]) <= PoolMax
        /\ pos[r] <= Len(raw[r]) + 1
        /\ Len(keep[r]) < pos[r]
        /\ rpc[r] # "scan" => pos[r] = 1

\* The pool never outgrows its cap, although releases race each other and reapers
\* write back lists they read earlier (capped push and the reaper's replacement).
THEOREM CapacityKept == Spec => []PoolBounded
<1> DEFINE IInv == PoolBounded /\ CopiesBounded
<1>1. Init => IInv
  BY PoolMaxAssumption DEF Init, PoolBounded, CopiesBounded
<1>2. TypeOK /\ IInv /\ [Next]_vars => IInv'
  <2> SUFFICES ASSUME TypeOK, PoolBounded, CopiesBounded, [Next]_vars
               PROVE  PoolBounded' /\ CopiesBounded'
    OBVIOUS
  <2> USE DEF PoolBounded, dockerVars, jobVars, reaperVars
  <2>0. Len(pool) \in Nat /\ PoolMax \in Nat
    BY PoolMaxAssumption DEF TypeOK
  <2>1. ASSUME NEW j \in Jobs, Rpop(j) PROVE PoolBounded' /\ CopiesBounded'
    <3>1. Len(pool') = Len(pool) - 1
      <4>1. pool \in Seq(Entries) /\ pool # <<>> /\ pool' = SubSeq(pool, 1, Len(pool) - 1)
        BY <2>1, Zenon DEF Rpop, TypeOK
      <4>2. Len(pool) \in Nat \ {0}
        BY <4>1
      <4>3. \A i \in 1..(Len(pool) - 1) : pool[i] \in Entries
        BY <4>1, <4>2
      <4> DEFINE n == Len(pool)
                 m == Len(SubSeq(pool, 1, n - 1))
      <4>4. n \in Nat \ {0} /\ m = IF 1 <= n - 1 THEN (n - 1) - 1 + 1 ELSE 0
        BY <4>2, <4>3
      <4> HIDE DEF n, m
      <4>5. m = n - 1
        BY <4>4
      <4>6. QED BY <4>1, <4>5, Zenon DEF m, n
    <3>2. PoolBounded'
      BY <2>0, <3>1
    <3>3. CopiesBounded'
      BY <2>1, Zenon DEF Rpop, CopiesBounded
    <3>4. QED BY <3>2, <3>3
  <2>2. ASSUME NEW j \in Jobs, CappedPush(j) PROVE PoolBounded' /\ CopiesBounded'
    <3>1. mine[j] \in Entries
      BY <2>2, Zenon DEF CappedPush, TypeOK, Owners, Owning
    <3>2. Len(<<mine[j]>> \o pool) = Len(pool) + 1
      BY <3>1 DEF TypeOK
    <3>3. QED BY <2>0, <2>2, <3>2 DEF CappedPush, CopiesBounded
  <2>3. ASSUME NEW r \in Reapers, Asleep(r) PROVE CopiesBounded'
    BY <2>0, <2>3 DEF Asleep, CopiesBounded, TypeOK
  <2>4. ASSUME NEW r \in Reapers, ReapLrange(r) PROVE PoolBounded' /\ CopiesBounded'
    <3>1. CASE pool = <<>>
      BY <2>3, <2>4, <3>1 DEF ReapLrange
    <3>2. CASE pool # <<>>
      <4>1. /\ raw' = [raw EXCEPT ![r] = pool]
            /\ UNCHANGED <<pool, pos, keep>>
            /\ rpc[r] = "lrange"
        BY <2>4, <3>2, Zenon DEF ReapLrange
      <4>2. pos[r] = 1
        BY <4>1, Zenon DEF CopiesBounded, TypeOK
      <4>3. \A s \in Reapers : pos[s] \in Nat /\ Len(raw[s]) \in Nat /\ Len(keep[s]) \in Nat
        BY DEF TypeOK
      <4>4. raw'[r] = pool /\ \A s \in Reapers \ {r} : raw'[s] = raw[s] /\ rpc'[s] = rpc[s]
        BY <2>4, <3>2, <4>1 DEF ReapLrange, TypeOK
      <4>5. QED BY <2>0, <4>1, <4>2, <4>3, <4>4 DEF CopiesBounded
    <3>3. QED BY <3>1, <3>2
  <2>5. ASSUME NEW r \in Reapers, ReapEntry(r) PROVE PoolBounded' /\ CopiesBounded'
    <3>1. raw[r][pos[r]] \in Entries /\ keep[r] \in Seq(Entries)
      BY <2>5 DEF ReapEntry, TypeOK
    <3>2. Len(Append(keep[r], raw[r][pos[r]])) = Len(keep[r]) + 1
      BY <3>1
    <3>3. Len(keep'[r]) <= Len(keep[r]) + 1 /\ Len(keep'[r]) \in Nat
      BY <2>5, <3>1, <3>2 DEF ReapEntry, TypeOK
    <3>4. /\ \A s \in Reapers \ {r} : keep'[s] = keep[s] /\ pos'[s] = pos[s]
          /\ pos'[r] = pos[r] + 1 /\ pos[r] <= Len(raw[r])
          /\ UNCHANGED <<pool, raw>>
      BY <2>5, Zenon DEF ReapEntry, TypeOK
    <3>5. \A s \in Reapers : pos[s] \in Nat /\ Len(raw[s]) \in Nat /\ Len(keep[s]) \in Nat
      BY DEF TypeOK
    <3>6. rpc' = rpc /\ rpc[r] = "scan"
      BY <2>5, Zenon DEF ReapEntry
    <3>7. ASSUME NEW s \in Reapers
          PROVE  /\ Len(raw'[s]) <= PoolMax
                 /\ pos'[s] <= Len(raw'[s]) + 1
                 /\ Len(keep'[s]) < pos'[s]
                 /\ rpc'[s] # "scan" => pos'[s] = 1
      <4>1. CASE s = r
        <5>1. Len(raw[r]) <= PoolMax /\ Len(keep[r]) < pos[r]
          BY Zenon DEF CopiesBounded
        <5>2. pos[r] \in Nat /\ Len(raw[r]) \in Nat /\ Len(keep[r]) \in Nat
          BY <3>5
        <5>3. raw'[s] = raw[r] /\ pos'[s] = pos[r] + 1 /\ pos[r] <= Len(raw[r])
          BY <3>4, <4>1, Zenon
        <5>4. Len(raw'[s]) <= PoolMax
          BY <5>1, <5>3
        <5>5. pos'[s] <= Len(raw'[s]) + 1
          BY <5>2, <5>3
        <5>6. Len(keep'[s]) < pos'[s]
          BY <3>3, <4>1, <5>1, <5>2, <5>3
        <5>7. QED BY <3>6, <4>1, <5>4, <5>5, <5>6
      <4>2. CASE s # r
        BY <3>4, <3>6, <4>2 DEF CopiesBounded
      <4>3. QED BY <4>1, <4>2, Zenon
    <3>8. QED BY <3>4, <3>7, Zenon DEF CopiesBounded
  <2>6. ASSUME NEW r \in Reapers, ReapReplace(r) PROVE PoolBounded' /\ CopiesBounded'
    <3>1. Len(keep[r]) \in Nat /\ Len(raw[r]) \in Nat /\ pos[r] \in Nat
      BY DEF TypeOK
    <3>2. pool' = keep[r] /\ Asleep(r)
      BY <2>6, Zenon DEF ReapReplace
    <3>3. Len(keep[r]) <= PoolMax
      BY <2>0, <3>1 DEF CopiesBounded
    <3>4. QED BY <2>3, <3>2, <3>3
  <2>7. ASSUME NEW r \in Reapers, ReapFails(r) PROVE PoolBounded' /\ CopiesBounded'
    BY <2>3, <2>7 DEF ReapFails
  <2>8. ASSUME NEW r \in Reapers, ReapStart(r) PROVE PoolBounded' /\ CopiesBounded'
    BY <2>8, Zenon DEF ReapStart, CopiesBounded, TypeOK
  <2>9. CASE UNCHANGED <<pool, rpc, raw, pos, keep>>
    BY <2>9 DEF CopiesBounded
  <2>10. QED
    BY <2>1, <2>2, <2>4, <2>5, <2>6, <2>7, <2>8, <2>9, Zenon
       DEF Next, vars, JobStep, ReaperStep, RpopMiss, CheckUsable, ColdStart,
           Sanitize, ColdStartFails, JobCrash, Kill, KillFails, Die, Tick
<1>3. QED BY <1>1, <1>2, TypeCorrect, PTL DEF Spec

-----------------------------------------------------------------------------
(* A container has one user, and nobody removes it from under the user. *)

\* The list has an entry of the container that is expired at time t.
ExpiredIn(list, t, c) == \E i \in 1..Len(list) : list[i].id = c /\ Expired(list[i], t)

\* A reaper has killed the container because of its age, or is going to.
Stale(c) == \E r \in Reapers : ExpiredIn(raw[r], rnow[r], c)

\* The container has no directory, or is being removed, or will be.
Doomed(c) == c \in kills \/ c \notin dirs \/ Stale(c)

\* OneUser, element by element
Apart ==
    /\ \A j, k \in Owners : mine[j].id = mine[k].id => j = k
    /\ \A j \in Owners : \A i \in 1..Len(pool) : mine[j].id # pool[i].id
    /\ DistinctIds(pool)

\* A container is started before anybody knows of it.
Born ==
    /\ \A j \in Owners : status[mine[j].id] # "unborn"
    /\ \A i \in 1..Len(pool) : status[pool[i].id] # "unborn"
    /\ \A c \in kills \cup dirs : status[c] # "unborn"
    /\ \A r \in Reapers : \A i \in 1..Len(raw[r]) : status[raw[r][i].id] # "unborn"

\* No job works with a doomed container, and none will get one from the pool: the
\* entry of a doomed container has expired.
Unharmed ==
    /\ \A j \in Owners : ~Doomed(mine[j].id)
    /\ \A i \in 1..Len(pool) : Doomed(pool[i].id) => Expired(pool[i], now)

\* live has those of the first n - 1 entries of the list that are not expired at t.
KeepsLive(list, t, n, live) ==
    /\ n <= Len(list) + 1
    /\ DistinctIds(list)
    /\ DistinctIds(live)
    /\ \A m \in 1..Len(live) : \E i \in 1..(n - 1) : live[m] = list[i]
    /\ \A i \in 1..(n - 1) : Expired(list[i], t) \/ \E m \in 1..Len(live) : live[m] = list[i]

\* The locals of the reapers: between two rounds they are empty.
Copies ==
    \A r \in Reapers :
        /\ rnow[r] <= now
        /\ rpc[r] # "scan" => raw[r] = <<>> /\ keep[r] = <<>> /\ pos[r] = 1
        /\ KeepsLive(raw[r], rnow[r], pos[r], keep[r])

Safe == Apart /\ Born /\ Unharmed /\ Copies

\* A job that drops its container is no owner any more; nothing else changes for the
\* other jobs.
LEMMA AfterDrop ==
    ASSUME TypeOK, NEW j \in Jobs, Drop(j)
    PROVE  Owners' = Owners \ {j} /\ \A k \in Owners' : mine'[k] = mine[k]
BY DEF Drop, Owners, Owning, TypeOK

\* Entries name containers, wherever they are.
LEMMA EntryIds ==
    ASSUME TypeOK
    PROVE  /\ \A j \in Owners : mine[j] \in Entries /\ mine[j].id \in Containers
           /\ \A i \in 1..Len(pool) : pool[i] \in Entries /\ pool[i].id \in Containers
           /\ \A r \in Reapers : \A i \in 1..Len(raw[r]) :
                 raw[r][i] \in Entries /\ raw[r][i].id \in Containers
<1>1. \A e \in Entries : e.id \in Containers
  BY DEF Entries
<1>2. pool \in Seq(Entries) /\ raw \in [Reapers -> Seq(Entries)]
  BY Zenon DEF TypeOK
<1>3. \A j \in Owners : mine[j] \in Entries
  BY Zenon DEF TypeOK
<1>4. \A i \in 1..Len(pool) : pool[i] \in Entries
  BY <1>2
<1>5. \A r \in Reapers : \A i \in 1..Len(raw[r]) : raw[r][i] \in Entries
  BY <1>2
<1>6. QED BY <1>1, <1>3, <1>4, <1>5

\* Expired entries stay expired.
LEMMA StaysExpired ==
    ASSUME TypeOK, TypeOK', NEW e \in Entries, Expired(e, now), now <= now'
    PROVE  Expired(e, now')
<1>1. now \in Nat /\ now' \in Nat /\ e.born \in Nat
  BY TimeAssumption DEF TypeOK, Entries
<1>2. QED BY <1>1, TimeAssumption DEF Expired

\* A step that lets jobs go on with at most the containers they have, leaves at most
\* the entries in the pool that were there, and dooms no container but d, which nobody
\* uses and whose entry has expired.
LEMMA SafeFrame ==
    ASSUME TypeOK, TypeOK', Safe, Copies', now <= now', DistinctIds(pool'),
           \A m \in 1..Len(pool') : \E i \in 1..Len(pool) : pool'[m] = pool[i],
           \A r \in Reapers : raw'[r] = <<>> \/ (raw'[r] = raw[r] /\ rnow'[r] = rnow[r]),
           Owners' \subseteq Owners, \A j \in Owners' : mine'[j].id = mine[j].id,
           \A c \in Containers : status'[c] = "unborn" => status[c] = "unborn",
           \A c \in dirs' \ dirs : status'[c] # "unborn",
           NEW d, kills' \subseteq kills \cup {d}, dirs \subseteq dirs' \cup kills \cup {d},
           d \in kills' => status[d] # "unborn",
           \A j \in Owners' : mine[j].id # d,
           \A m \in 1..Len(pool') : pool'[m].id = d => Expired(pool'[m], now)
    PROVE  Safe'
<1>0. Apart /\ Born /\ Unharmed /\ kills' \subseteq Containers /\ dirs' \subseteq Containers
  BY Zenon DEF Safe, TypeOK
<1>1. Apart'
  BY <1>0 DEF Apart
<1>2. Born'
  <2>1. \A j \in Owners' : status'[mine'[j].id] # "unborn"
    BY <1>0, EntryIds DEF Born
  <2>2. \A r \in Reapers : \A i \in 1..Len(raw'[r]) : status'[raw'[r][i].id] # "unborn"
    <3> SUFFICES ASSUME NEW r \in Reapers, NEW i \in 1..Len(raw'[r])
                 PROVE  status'[raw'[r][i].id] # "unborn"
      BY Zenon
    <3>1. raw'[r] = raw[r]
      OBVIOUS
    <3>2. QED BY <1>0, <3>1, EntryIds DEF Born
  <2>3. \A m \in 1..Len(pool') : status'[pool'[m].id] # "unborn"
    BY <1>0, EntryIds DEF Born
  <2>4. \A c \in kills' \cup dirs' : status'[c] # "unborn"
    BY <1>0 DEF Born
  <2>5. QED BY <2>1, <2>2, <2>3, <2>4, Zenon DEF Born
<1>3. ASSUME NEW c, c \in kills' \/ c \notin dirs' \/ Stale(c)' PROVE Doomed(c) \/ c = d
  <2>1. CASE Stale(c)'
    <3>1. PICK r \in Reapers : ExpiredIn(raw'[r], rnow'[r], c)
      BY <2>1, Zenon DEF Stale, ExpiredIn, Expired
    <3>2. raw'[r] = raw[r] /\ rnow'[r] = rnow[r]
      BY <3>1 DEF ExpiredIn
    <3>3. QED BY <3>1, <3>2, Zenon DEF Doomed, Stale
  <2>2. QED BY <1>3, <2>1, Zenon DEF Doomed
<1>4. \A j \in Owners' : (~Doomed(mine[j].id))'
  <2> SUFFICES ASSUME NEW j \in Owners', Doomed(mine[j].id)' PROVE FALSE
    BY Zenon
  <2>1. PICK c : c = mine[j].id
    BY Zenon
  <2>2. c \in kills' \/ c \notin dirs' \/ Stale(c)'
    BY <2>1, Zenon DEF Doomed, Stale
  <2>3. QED BY <1>0, <1>3, <2>1, <2>2 DEF Unharmed
<1>5. \A m \in 1..Len(pool') : (Doomed(pool[m].id) => Expired(pool[m], now))'
  <2> SUFFICES ASSUME NEW m \in 1..Len(pool'), Doomed(pool[m].id)'
               PROVE  Expired(pool[m], now)'
    BY Zenon
  <2>1. PICK i \in 1..Len(pool) : pool'[m] = pool[i]
    BY Zenon
  <2>2. PICK c : c = pool[i].id
    BY Zenon
  <2>3. c \in kills' \/ c \notin dirs' \/ Stale(c)'
    BY <2>1, <2>2, Zenon DEF Doomed, Stale
  <2>4. Expired(pool[i], now) /\ pool[i] \in Entries
    BY <1>0, <1>3, <2>1, <2>2, <2>3, EntryIds, Zenon DEF Unharmed
  <2>5. QED BY <2>1, <2>4, StaysExpired, Zenon DEF Expired
<1>6. QED BY <1>1, <1>2, <1>4, <1>5, Zenon DEF Safe, Unharmed

\* A reaper that goes to sleep forgets its copies.
LEMMA CopiesFrame ==
    ASSUME TypeOK, TypeOK', Copies, now <= now',
           UNCHANGED <<rpc, rnow, raw, pos, keep>> \/ \E r \in Reapers : Asleep(r)
    PROVE  /\ Copies'
           /\ \A r \in Reapers : raw'[r] = <<>> \/ (raw'[r] = raw[r] /\ rnow'[r] = rnow[r])
<1>0. now \in Nat /\ now' \in Nat /\ \A r \in Reapers : rnow[r] \in Nat
  BY TimeAssumption DEF TypeOK
<1>1. CASE UNCHANGED <<rpc, rnow, raw, pos, keep>>
  BY <1>0, <1>1 DEF Copies
<1>2. ASSUME NEW r \in Reapers, Asleep(r)
      PROVE  /\ Copies'
             /\ \A q \in Reapers : raw'[q] = <<>> \/ (raw'[q] = raw[q] /\ rnow'[q] = rnow[q])
  <2>1. /\ rpc'[r] = "sleep" /\ rnow'[r] = 0 /\ raw'[r] = <<>> /\ pos'[r] = 1 /\ keep'[r] = <<>>
        /\ \A q \in Reapers \ {r} : /\ rpc'[q] = rpc[q] /\ rnow'[q] = rnow[q] /\ raw'[q] = raw[q]
                                    /\ pos'[q] = pos[q] /\ keep'[q] = keep[q]
    BY <1>2 DEF Asleep, TypeOK
  <2>2. KeepsLive(<<>>, 0, 1, <<>>)
    BY DEF KeepsLive, DistinctIds
  <2>3. QED BY <1>0, <2>1, <2>2 DEF Copies
<1>3. QED BY <1>1, <1>2, Zenon

\* A step that leaves the pool alone, takes containers from jobs at most, and removes
\* nothing that was not to be removed.
LEMMA QuietFrame ==
    ASSUME TypeOK, TypeOK', Safe, now' \in {now, now + 1}, UNCHANGED pool,
           UNCHANGED <<rpc, rnow, raw, pos, keep>> \/ \E r \in Reapers : Asleep(r),
           Owners' \subseteq Owners, \A j \in Owners' : mine'[j].id = mine[j].id,
           \A c \in Containers : status'[c] = "unborn" => status[c] = "unborn",
           \A c \in dirs' \ dirs : status'[c] # "unborn",
           kills' \subseteq kills, dirs \subseteq dirs' \cup kills
    PROVE  Safe'
<1>1. PICK none : none \notin Containers
  BY NoSetContainsEverything, Zenon
<1>2. /\ kills' \subseteq Containers /\ \A j \in Owners' : mine[j].id # none
      /\ \A i \in 1..Len(pool) : pool[i].id # none
  <2>1. kills' \subseteq Containers
    BY Zenon DEF TypeOK
  <2>2. QED BY <1>1, <2>1, EntryIds
<1>3. DistinctIds(pool') /\ \A m \in 1..Len(pool') : \E i \in 1..Len(pool) : pool'[m] = pool[i]
  BY Zenon DEF Safe, Apart
<1>4. now <= now'
  BY TimeAssumption DEF TypeOK
<1>5. /\ Copies'
      /\ \A r \in Reapers : raw'[r] = <<>> \/ (raw'[r] = raw[r] /\ rnow'[r] = rnow[r])
  BY <1>4, CopiesFrame, Zenon DEF Safe
<1>6. QED BY <1>1, <1>2, <1>3, <1>4, <1>5, SafeFrame, Zenon

\* A job gives its container up: the container is to be killed, or its directory goes.
LEMMA Discard ==
    ASSUME TypeOK, TypeOK', Safe, NEW j \in Owners, Drop(j),
           UNCHANGED <<now, pool, status, reaperVars>>,
           \/ kills' = kills \cup {mine[j].id} /\ dirs' = dirs
           \/ kills' = kills /\ dirs' = dirs \ {mine[j].id}
    PROVE  Safe'
<1>1. PICK d : d = mine[j].id
  BY Zenon
<1>2. Owners' = Owners \ {j} /\ \A k \in Owners' : mine'[k] = mine[k]
  BY AfterDrop, Zenon DEF Owners
<1>3. /\ status[d] # "unborn" /\ now <= now
      /\ \A k \in Owners' : mine[k].id # d
      /\ \A i \in 1..Len(pool) : pool[i].id # d
  BY <1>1, <1>2, TimeAssumption DEF Safe, Apart, Born, TypeOK
<1>4. DistinctIds(pool) /\ Copies /\ Copies'
  BY Zenon DEF Safe, Apart, Copies, reaperVars
<1>5. QED BY <1>1, <1>2, <1>3, <1>4, SafeFrame DEF reaperVars

\* RPOP: the others stay where they are.
LEMMA RpopRemovesLast ==
    ASSUME TypeOK, NEW j \in Jobs, Rpop(j)
    PROVE  /\ Len(pool) \in Nat \ {0} /\ Len(pool') = Len(pool) - 1
           /\ pool[Len(pool)] \in Entries
           /\ \A i \in 1..Len(pool') : pool'[i] = pool[i] /\ i \in 1..Len(pool) /\ i # Len(pool)
<1>1. pool \in Seq(Entries) /\ pool # <<>> /\ pool' = SubSeq(pool, 1, Len(pool) - 1)
  BY Zenon DEF Rpop, TypeOK
<1>2. Len(pool) \in Nat \ {0} /\ pool[Len(pool)] \in Entries
  BY <1>1
<1>3. \A i \in 1..(Len(pool) - 1) : pool[i] \in Entries
  BY <1>1, <1>2
<1> DEFINE n == Len(pool)
           rest == SubSeq(pool, 1, n - 1)
<1>4. /\ n \in Nat \ {0}
      /\ Len(rest) = IF 1 <= n - 1 THEN (n - 1) - 1 + 1 ELSE 0
      /\ \A i \in 1..((n - 1) - 1 + 1) : rest[i] = pool[1 + i - 1]
  BY <1>2, <1>3
<1> HIDE DEF rest, n
<1>5. Len(rest) = n - 1
  BY <1>4
<1>6. \A i \in 1..(n - 1) : rest[i] = pool[i] /\ i \in 1..n /\ i # n
  BY <1>4
<1>7. pool' = rest
  BY <1>1 DEF rest, n
<1>8. QED BY <1>2, <1>5, <1>6, <1>7 DEF n

\* LPUSH: the others move one place on.
LEMMA PushedInFront ==
    ASSUME TypeOK, NEW e \in Entries, pool' = <<e>> \o pool
    PROVE  \A i \in 1..Len(pool') : \/ i = 1 /\ pool'[i] = e
                                    \/ i - 1 \in 1..Len(pool) /\ pool'[i] = pool[i - 1]
BY DEF TypeOK

\* One round of the reaper's loop: the entry is passed over or kept.
LEMMA KeepStep ==
    ASSUME NEW list \in Seq(Entries), NEW t, NEW n \in Nat \ {0}, NEW live \in Seq(Entries),
           n <= Len(list), KeepsLive(list, t, n, live)
    PROVE  /\ Expired(list[n], t) => KeepsLive(list, t, n + 1, live)
           /\ KeepsLive(list, t, n + 1, Append(live, list[n]))
<1>0. Len(list) \in Nat /\ Len(live) \in Nat /\ list[n] \in Entries
  OBVIOUS
<1>1. n + 1 <= Len(list) + 1 /\ 1..(n + 1 - 1) = 1..n /\ n \in 1..n /\ 1..(n - 1) \subseteq 1..n
  BY <1>0
<1>2. ASSUME Expired(list[n], t) PROVE KeepsLive(list, t, n + 1, live)
  <2>1. \A m \in 1..Len(live) : \E i \in 1..n : live[m] = list[i]
    BY <1>1 DEF KeepsLive
  <2>2. \A i \in 1..n : i = n \/ i \in 1..(n - 1)
    OBVIOUS
  <2>3. \A i \in 1..n : Expired(list[i], t) \/ \E m \in 1..Len(live) : live[m] = list[i]
    BY <1>2, <2>2, Zenon DEF KeepsLive
  <2>4. QED BY <1>1, <2>1, <2>3 DEF KeepsLive
<1>3. KeepsLive(list, t, n + 1, Append(live, list[n]))
  <2> DEFINE more == Append(live, list[n])
             q == Len(live) + 1
  <2>1. Len(more) = q /\ more[q] = list[n] /\ \A m \in 1..Len(live) : more[m] = live[m]
    BY <1>0
  <2>2. \A m \in 1..q : m = q \/ m \in 1..Len(live)
    BY <1>0
  <2>3. q \in 1..q /\ 1..Len(live) \subseteq 1..q
    BY <1>0
  <2> HIDE DEF more, q
  <2>4. \A m \in 1..Len(more) : \E i \in 1..n : more[m] = list[i]
    <3> SUFFICES ASSUME NEW m \in 1..q PROVE \E i \in 1..n : more[m] = list[i]
      BY <2>1, Zenon
    <3>1. CASE m = q
      BY <1>1, <2>1, <3>1
    <3>2. CASE m \in 1..Len(live)
      BY <1>1, <2>1, <3>2, Zenon DEF KeepsLive
    <3>3. QED BY <2>2, <3>1, <3>2
  <2>5. \A i \in 1..n : Expired(list[i], t) \/ \E m \in 1..Len(more) : more[m] = list[i]
    <3> SUFFICES ASSUME NEW i \in 1..n, ~Expired(list[i], t)
                 PROVE  \E m \in 1..Len(more) : more[m] = list[i]
      OBVIOUS
    <3>1. CASE i = n
      BY <2>1, <2>3, <3>1
    <3>2. CASE i # n
      <4>1. i \in 1..(n - 1)
        BY <3>2
      <4>2. QED BY <2>1, <2>3, <4>1, Zenon DEF KeepsLive
    <3>3. QED BY <3>1, <3>2
  <2>6. \A m \in 1..Len(live) : live[m].id # list[n].id
    <3> SUFFICES ASSUME NEW m \in 1..Len(live), live[m].id = list[n].id PROVE FALSE
      OBVIOUS
    <3>1. PICK i \in 1..(n - 1) : live[m] = list[i]
      BY Zenon DEF KeepsLive
    <3>2. i \in 1..Len(list) /\ n \in 1..Len(list) /\ i # n
      BY <1>0
    <3>3. QED BY <3>1, <3>2, Zenon DEF KeepsLive, DistinctIds
  <2>7. DistinctIds(more)
    BY <2>1, <2>2, <2>6, Zenon DEF KeepsLive, DistinctIds
  <2>8. DistinctIds(list)
    BY Zenon DEF KeepsLive
  <2>9. KeepsLive(list, t, n + 1, more)
    BY <1>1, <2>4, <2>5, <2>7, <2>8 DEF KeepsLive
  <2>10. QED BY <2>9 DEF more
<1>4. QED BY <1>2, <1>3

\* The steps of the jobs keep Safe.
LEMMA SafeJobStep ==
    ASSUME TypeOK, TypeOK', Safe,
           NEW j \in Jobs, JobStep(j) \/ ColdStartFails(j) \/ JobCrash(j)
    PROVE  Safe'
<1> USE DEF dockerVars, jobVars, reaperVars
<1>0. Apart /\ Born /\ Unharmed /\ Copies
  BY DEF Safe
<1>t. /\ now \in Nat /\ now' \in Nat
      /\ pc \in [Jobs -> {"acquire", "cold"} \cup Owning]
      /\ mine \in [Jobs -> Entries \cup {NoEntry}]
      /\ status \in [Containers -> {"unborn", "running", "gone"}]
      /\ kills \in SUBSET Containers /\ dirs \in SUBSET Containers
  BY TimeAssumption DEF TypeOK
<1>c. UNCHANGED <<now, reaperVars>> => Copies'
  BY <1>0, <1>t, CopiesFrame
<1>1. CASE RpopMiss(j)
  <2>1. Owners' = Owners /\ UNCHANGED <<mine, now, pool, dockerVars, reaperVars>>
    BY <1>1, <1>t, Zenon DEF RpopMiss, Owners, Owning
  <2>2. QED BY <2>1, QuietFrame, Zenon
<1>2. CASE Rpop(j)
  <2> DEFINE n == Len(pool)
             e == pool[n]
  <2>1. /\ n \in Nat \ {0} /\ Len(pool') = n - 1 /\ e \in Entries
        /\ \A i \in 1..Len(pool') : pool'[i] = pool[i] /\ i \in 1..n /\ i # n
    BY <1>2, RpopRemovesLast, Zenon DEF Rpop
  <2>2. pc[j] = "acquire" /\ UNCHANGED <<now, status, dirs, reaperVars>>
    BY <1>2, Zenon DEF Rpop
  <2>3. j \notin Owners /\ n \in 1..n /\ e.id \in Containers
    BY <2>1, <2>2, EntryIds DEF Owners, Owning
  <2> HIDE DEF n
  <2>4. DistinctIds(pool') /\ \A i \in 1..Len(pool') : pool'[i].id # e.id
    <3>1. \A i, k \in 1..n : pool[i].id = pool[k].id => i = k
      BY <1>0, Zenon DEF Apart, DistinctIds, n
    <3>2. DistinctIds(pool')
      BY <2>1, <3>1 DEF DistinctIds
    <3>3. \A i \in 1..Len(pool') : pool'[i].id # pool[n].id
      BY <2>1, <2>3, <3>1
    <3>4. QED BY <3>2, <3>3
  <2>5. CASE Expired(e, now)
    <3>1. kills' = kills \cup {e.id} /\ UNCHANGED <<pc, mine>>
      BY <1>2, <2>5, Zenon DEF Rpop, n
    <3>2. PICK d : d = e.id
      OBVIOUS
    <3>3. Owners' = Owners /\ status[d] # "unborn" /\ \A k \in Owners : mine[k].id # d
      <4>1. Owners' = Owners
        BY <3>1 DEF Owners
      <4>2. status[d] # "unborn"
        BY <1>0, <2>3, <3>2, Zenon DEF Born, n
      <4>3. \A k \in Owners : mine[k].id # d
        BY <1>0, <2>3, <3>2 DEF Apart, n
      <4>4. QED BY <4>1, <4>2, <4>3
    <3>4. /\ \A m \in 1..Len(pool') : \E i \in 1..Len(pool) : pool'[m] = pool[i]
          /\ \A m \in 1..Len(pool') : pool'[m].id # d
      BY <2>1, <2>4, <3>2, Zenon DEF n
    <3>5. Copies' /\ now <= now'
      BY <1>c, <1>t, <2>2
    <3>6. QED BY <2>2, <2>4, <3>1, <3>2, <3>3, <3>4, <3>5, SafeFrame, Zenon
  <2>6. CASE ~Expired(e, now)
    <3>1. /\ pc' = [pc EXCEPT ![j] = "check"]
          /\ mine' = [mine EXCEPT ![j] = e]
          /\ UNCHANGED kills
      BY <1>2, <2>6, Zenon DEF Rpop, n
    <3>2. /\ Owners' = Owners \cup {j}
          /\ mine'[j] = e /\ \A k \in Owners : mine'[k] = mine[k]
      BY <1>t, <2>2, <2>3, <3>1, Zenon DEF Owners, Owning
    <3>3. ~Doomed(e.id)
      BY <1>0, <2>3, <2>6 DEF Unharmed, n
    <3>4. Apart'
      <4>1. \A k \in Owners : \A i \in 1..n : mine[k].id # pool[i].id
        BY <1>0 DEF Apart, n
      <4>2. \A k \in Owners : mine'[k].id = mine[k].id /\ mine[k].id # e.id
        BY <2>3, <3>2, <4>1 DEF n
      <4>3. \A k, m \in Owners' : mine'[k].id = mine'[m].id => k = m
        BY <1>0, <3>2, <4>2 DEF Apart
      <4>4. \A k \in Owners' : \A i \in 1..Len(pool') : mine'[k].id # pool'[i].id
        <5> SUFFICES ASSUME NEW k \in Owners', NEW i \in 1..Len(pool')
                     PROVE  mine'[k].id # pool'[i].id
          OBVIOUS
        <5>1. pool'[i] = pool[i] /\ i \in 1..n /\ pool'[i].id # e.id
          BY <2>1, <2>4
        <5>2. QED BY <3>2, <4>1, <4>2, <5>1, Zenon
      <4>5. QED BY <2>4, <4>3, <4>4 DEF Apart
    <3>5. Born'
      BY <1>0, <2>1, <2>2, <2>3, <3>1, <3>2 DEF Born, n
    <3>6. Unharmed'
      <4>1. ASSUME NEW k \in Owners' PROVE ~Doomed(mine[k].id)'
        <5>1. CASE k = j
          <6>1. mine'[k].id = e.id
            BY <3>2, <5>1
          <6>2. QED BY <2>2, <3>1, <3>3, <6>1 DEF Doomed, Stale
        <5>2. CASE k \in Owners
          <6>1. mine'[k] = mine[k] /\ ~Doomed(mine[k].id)
            BY <1>0, <3>2, <5>2 DEF Unharmed
          <6>2. QED BY <2>2, <3>1, <6>1 DEF Doomed, Stale
        <5>3. QED BY <3>2, <5>1, <5>2
      <4>2. ASSUME NEW i \in 1..Len(pool'), Doomed(pool[i].id)'
            PROVE  Expired(pool'[i], now')
        <5>1. pool'[i] = pool[i] /\ i \in 1..n
          BY <2>1
        <5>2. Doomed(pool[i].id)
          BY <2>2, <3>1, <4>2, <5>1, Zenon DEF Doomed, Stale
        <5>3. QED BY <1>0, <2>2, <5>1, <5>2 DEF Unharmed, n
      <4>3. QED BY <4>1, <4>2 DEF Unharmed
    <3>7. QED BY <1>c, <2>2, <3>4, <3>5, <3>6 DEF Safe
  <2>7. QED BY <2>5, <2>6
<1>3. CASE CheckUsable(j)
  <2>1. j \in Owners /\ UNCHANGED <<now, pool, status, dirs, reaperVars>>
    BY <1>3, Zenon DEF CheckUsable, Owners, Owning
  <2>2. CASE pc' = [pc EXCEPT ![j] = "using"] /\ UNCHANGED <<mine, kills>>
    <3>1. Owners' = Owners
      BY <1>t, <2>1, <2>2 DEF Owners, Owning
    <3>2. QED BY <2>1, <2>2, <3>1, QuietFrame
  <2>3. CASE kills' = kills \cup {mine[j].id} /\ Drop(j)
    BY <2>1, <2>3, Discard, Zenon
  <2>4. QED BY <1>3, <2>2, <2>3, Zenon DEF CheckUsable
<1>4. CASE ColdStart(j)
  <2>1. PICK c \in Containers :
           /\ status[c] = "unborn"
           /\ status' = [status EXCEPT ![c] = "running"]
           /\ dirs' = dirs \cup {c}
           /\ mine' = [mine EXCEPT ![j] = [id |-> c, born |-> now]]
    BY <1>4, Zenon DEF ColdStart, NextId
  <2>2. pc' = [pc EXCEPT ![j] = "using"] /\ UNCHANGED <<now, pool, kills, reaperVars>>
    BY <1>4, Zenon DEF ColdStart
  <2>3. /\ Owners' = Owners \cup {j} /\ j \notin Owners
        /\ mine'[j].id = c /\ \A k \in Owners : mine'[k] = mine[k]
    BY <1>4, <1>t, <2>1, <2>2 DEF ColdStart, Owners, Owning
  <2>4. /\ \A k \in Owners : mine[k].id # c
        /\ \A i \in 1..Len(pool) : pool[i].id # c
        /\ c \notin kills /\ ~Stale(c)
    <3>1. /\ \A k \in Owners : mine[k].id # c
          /\ \A i \in 1..Len(pool) : pool[i].id # c
      BY <1>0, <2>1, Zenon DEF Born
    <3>2. c \notin kills
      BY <1>0, <2>1, Zenon DEF Born
    <3>3. ~Stale(c)
      BY <1>0, <2>1, Zenon DEF Born, Stale, ExpiredIn
    <3>4. QED BY <3>1, <3>2, <3>3
  <2>5. Apart'
    <3>1. \A k, m \in Owners' : mine'[k].id = mine'[m].id => k = m
      BY <1>0, <2>3, <2>4 DEF Apart
    <3>2. \A k \in Owners' : \A i \in 1..Len(pool) : mine'[k].id # pool[i].id
      BY <1>0, <2>3, <2>4 DEF Apart
    <3>3. QED BY <1>0, <2>2, <3>1, <3>2, Zenon DEF Apart
  <2>6. Born'
    <3>1. \A d \in Containers : status'[d] = "unborn" => status[d] = "unborn"
      BY <1>t, <2>1, Zenon
    <3>2. status'[c] # "unborn"
      BY <1>t, <2>1
    <3>3. QED BY <1>0, <1>t, <2>1, <2>2, <2>3, <3>1, <3>2, EntryIds DEF Born
  <2>7. Unharmed'
    BY <1>0, <2>1, <2>2, <2>3, <2>4 DEF Unharmed, Doomed, Stale
  <2>8. QED BY <1>c, <2>2, <2>5, <2>6, <2>7 DEF Safe
<1>5. CASE ColdStartFails(j) \/ JobCrash(j)
  <2>1. Drop(j) /\ UNCHANGED <<now, pool, kills, reaperVars>>
    BY <1>5, Zenon DEF ColdStartFails, JobCrash
  <2>2. Owners' \subseteq Owners /\ \A k \in Owners' : mine'[k] = mine[k]
    BY <2>1, AfterDrop
  <2>3. /\ dirs \subseteq dirs' /\ \A c \in dirs' \ dirs : status'[c] # "unborn"
        /\ \A c \in Containers : status'[c] = "unborn" => status[c] = "unborn"
    BY <1>5, <1>t, Zenon DEF ColdStartFails, JobCrash
  <2>4. QED BY <2>1, <2>2, <2>3, QuietFrame, Zenon
<1>6. CASE Sanitize(j)
  <2>1. j \in Owners /\ UNCHANGED <<now, pool, status, kills, reaperVars>>
    BY <1>6, Zenon DEF Sanitize, Owners, Owning
  <2>2. CASE /\ pc' = [pc EXCEPT ![j] = "push"]
             /\ mine' = [mine EXCEPT ![j] = [id |-> mine[j].id, born |-> now]]
             /\ UNCHANGED dirs
    <3>1. Owners' = Owners /\ \A k \in Owners' : mine'[k].id = mine[k].id
      BY <1>t, <2>1, <2>2, Zenon DEF Owners, Owning
    <3>2. QED BY <2>1, <2>2, <3>1, QuietFrame, Zenon
  <2>3. CASE dirs' = dirs \ {mine[j].id} /\ Drop(j)
    BY <2>1, <2>3, Discard, Zenon
  <2>4. QED BY <1>6, <2>2, <2>3, Zenon DEF Sanitize
<1>7. CASE CappedPush(j)
  <2>1. /\ pc[j] = "push" /\ Drop(j) /\ UNCHANGED <<now, status, dirs, reaperVars>>
    BY <1>7, Zenon DEF CappedPush
  <2>2. j \in Owners /\ mine[j] \in Entries /\ mine[j].id \in Containers
    BY <2>1, EntryIds, Zenon DEF Owners, Owning
  <2>3. Owners' = Owners \ {j} /\ \A k \in Owners' : mine'[k] = mine[k]
    BY <2>1, AfterDrop
  <2>4. CASE kills' = kills \cup {mine[j].id} /\ UNCHANGED pool
    BY <2>1, <2>2, <2>4, Discard, Zenon
  <2>5. CASE pool' = <<mine[j]>> \o pool /\ UNCHANGED kills
    <3>1. \A i \in 1..Len(pool') : \/ i = 1 /\ pool'[i] = mine[j]
                                   \/ i - 1 \in 1..Len(pool) /\ pool'[i] = pool[i - 1]
      BY <2>2, <2>5, PushedInFront, Zenon
    <3>2. Apart'
      <4>1. DistinctIds(pool')
        <5> SUFFICES ASSUME NEW i \in 1..Len(pool'), NEW k \in 1..Len(pool'),
                            pool'[i].id = pool'[k].id
                     PROVE  i = k
          BY DEF DistinctIds
        <5>1. CASE i = 1 \/ k = 1
          <6>1. \A m \in 1..Len(pool) : mine[j].id # pool[m].id
            BY <1>0, <2>2, Zenon DEF Apart
          <6>2. CASE i = 1
            <7>1. pool'[i] = mine[j]
              BY <3>1, <6>2
            <7>2. CASE k - 1 \in 1..Len(pool) /\ pool'[k] = pool[k - 1]
              BY <6>1, <7>1, <7>2
            <7>3. QED BY <3>1, <6>2, <7>2
          <6>3. CASE k = 1
            BY <3>1, <6>1, <6>3
          <6>4. QED BY <5>1, <6>2, <6>3
        <5>2. CASE i # 1 /\ k # 1
          <6>1. /\ i - 1 \in 1..Len(pool) /\ k - 1 \in 1..Len(pool)
                /\ pool[i - 1].id = pool[k - 1].id
            BY <3>1, <5>2
          <6>2. i - 1 = k - 1
            BY <1>0, <6>1, Zenon DEF Apart, DistinctIds
          <6>3. QED BY <6>2
        <5>3. QED BY <5>1, <5>2
      <4>2. \A k \in Owners' : \A i \in 1..Len(pool') : mine'[k].id # pool'[i].id
        <5> SUFFICES ASSUME NEW k \in Owners', NEW i \in 1..Len(pool')
                     PROVE  mine'[k].id # pool'[i].id
          OBVIOUS
        <5>1. k \in Owners /\ k # j /\ mine'[k].id = mine[k].id
          BY <2>3
        <5>2. CASE i = 1 /\ pool'[i] = mine[j]
          BY <1>0, <2>2, <5>1, <5>2 DEF Apart
        <5>3. CASE i - 1 \in 1..Len(pool) /\ pool'[i] = pool[i - 1]
          BY <1>0, <5>1, <5>3 DEF Apart
        <5>4. QED BY <3>1, <5>2, <5>3
      <4>3. QED BY <1>0, <2>3, <4>1, <4>2 DEF Apart
    <3>3. Born'
      BY <1>0, <2>1, <2>2, <2>3, <2>5, <3>1, Zenon DEF Born
    <3>4. Unharmed'
      <4>1. ASSUME NEW k \in Owners' PROVE ~Doomed(mine[k].id)'
        <5>1. mine'[k] = mine[k] /\ ~Doomed(mine[k].id)
          BY <1>0, <2>3 DEF Unharmed
        <5>2. QED BY <2>1, <2>5, <5>1, Zenon DEF Doomed, Stale
      <4>2. ASSUME NEW i \in 1..Len(pool'), Doomed(pool[i].id)'
            PROVE  Expired(pool'[i], now')
        <5>1. CASE pool'[i] = mine[j]
          <6>1. ~Doomed(mine[j].id)
            BY <1>0, <2>2 DEF Unharmed
          <6>2. QED BY <2>1, <2>5, <4>2, <5>1, <6>1, Zenon DEF Doomed, Stale
        <5>2. CASE i - 1 \in 1..Len(pool) /\ pool'[i] = pool[i - 1]
          <6>1. Doomed(pool[i - 1].id)
            BY <2>1, <2>5, <4>2, <5>2, Zenon DEF Doomed, Stale
          <6>2. QED BY <1>0, <2>1, <5>2, <6>1, Zenon DEF Unharmed
        <5>3. QED BY <3>1, <5>1, <5>2
      <4>3. QED BY <4>1, <4>2 DEF Unharmed
    <3>5. QED BY <1>c, <2>1, <3>2, <3>3, <3>4 DEF Safe
  <2>6. QED BY <1>7, <2>4, <2>5, Zenon DEF CappedPush
<1>8. QED BY <1>1, <1>2, <1>3, <1>4, <1>5, <1>6, <1>7 DEF JobStep
=============================================================================
