---------------------------- MODULE WarmPoolProofs ----------------------------
(***************************************************************************)
(* The steps of the reapers keep the invariant of WarmPoolInvariant too;   *)
(* what follows from it: one user for each container, users left alone,    *)
(* and every running container accounted for.                              *)
(***************************************************************************)
EXTENDS WarmPoolInvariant, FiniteSetTheorems

\* The steps of the reapers keep Safe, but for replacing a list that has changed.
LEMMA SafeReaperStep ==
    ASSUME TypeOK, TypeOK', Safe, raced' = {},
           NEW r \in Reapers, ReaperStep(r) \/ ReapFails(r)
    PROVE  Safe'
<1> USE DEF dockerVars, jobVars, reaperVars
<1>0. Apart /\ Born /\ Unharmed /\ Copies
  BY DEF Safe
<1>t. /\ now \in Nat /\ now' \in Nat
      /\ pc \in [Jobs -> {"acquire", "cold"} \cup Owning]
      /\ mine \in [Jobs -> Entries \cup {NoEntry}]
      /\ status \in [Containers -> {"unborn", "running", "gone"}]
      /\ kills \in SUBSET Containers /\ dirs \in SUBSET Containers
  BY TimeAssumption DEF TypeOK
<1>1. CASE ReapFails(r) \/ (ReapLrange(r) /\ Asleep(r))
  <2>1. Asleep(r) /\ UNCHANGED <<now, pool, dockerVars, jobVars>>
    BY <1>1, Zenon DEF ReapFails, ReapLrange
  <2>2. Owners' = Owners
    BY <2>1 DEF Owners
  <2>3. QED BY <2>1, <2>2, QuietFrame
<1>2. CASE ReapStart(r)
  <2>1. /\ rpc[r] = "sleep" /\ rpc'[r] = "lrange" /\ rnow'[r] = now
        /\ \A q \in Reapers \ {r} : rpc'[q] = rpc[q] /\ rnow'[q] = rnow[q]
        /\ UNCHANGED <<now, pool, dockerVars, jobVars, raw, pos, keep>>
    BY <1>2, Zenon DEF ReapStart, TypeOK
  <2>2. raw[r] = <<>> /\ keep[r] = <<>> /\ pos[r] = 1 /\ KeepsLive(<<>>, now, 1, <<>>)
    BY <1>0, <2>1 DEF Copies, KeepsLive, DistinctIds
  <2>3. Copies'
    BY <1>0, <1>t, <2>1, <2>2 DEF Copies
  <2>4. Apart' /\ Born'
    BY <1>0, <2>1 DEF Apart, Born, Owners
  <2>5. Unharmed'
    BY <1>0, <2>1, <2>2 DEF Unharmed, Doomed, Stale, ExpiredIn, Owners
  <2>6. QED BY <2>3, <2>4, <2>5 DEF Safe
<1>3. CASE ReapLrange(r)
  <2>1. rpc[r] = "lrange" /\ UNCHANGED <<now, pool, dockerVars, jobVars>>
    BY <1>3 DEF ReapLrange
  <2>2. Owners' = Owners
    BY <2>1 DEF Owners
  <2>3. CASE Asleep(r)
    BY <1>1, <1>3, <2>3
  <2>4. CASE /\ rpc' = [rpc EXCEPT ![r] = "scan"]
             /\ raw' = [raw EXCEPT ![r] = pool]
             /\ UNCHANGED <<rnow, pos, keep>>
    <3>1. /\ rpc'[r] = "scan" /\ raw'[r] = pool
          /\ \A q \in Reapers \ {r} : rpc'[q] = rpc[q] /\ raw'[q] = raw[q]
      BY <2>4, Zenon DEF TypeOK
    <3>2. keep[r] = <<>> /\ pos[r] = 1 /\ rnow[r] <= now
      BY <1>0, <2>1 DEF Copies
    <3>3. KeepsLive(pool, rnow[r], 1, <<>>)
      <4>1. Len(pool) \in Nat
        BY DEF TypeOK
      <4>2. QED BY <1>0, <4>1 DEF KeepsLive, DistinctIds, Apart
    <3>4. Copies'
      BY <1>0, <2>1, <2>4, <3>1, <3>2, <3>3, Zenon DEF Copies
    <3>5. Apart'
      BY <1>0, <2>1, <2>2, Zenon DEF Apart
    <3>6. Born'
      BY <1>0, <2>1, <2>2, <3>1 DEF Born
    <3>8. ASSUME NEW i \in 1..Len(pool), Expired(pool[i], rnow[r]) PROVE Expired(pool[i], now)
      <4>1. pool[i] \in Entries /\ rnow[r] \in Nat
        BY EntryIds, TimeAssumption DEF TypeOK
      <4>2. QED BY <1>t, <3>2, <3>8, <4>1, TimeAssumption DEF Expired, Entries
    <3>9. \A k \in Owners : ~ExpiredIn(pool, rnow[r], mine[k].id)
      BY <1>0 DEF ExpiredIn, Apart
    <3>10. \A i \in 1..Len(pool) : ExpiredIn(pool, rnow[r], pool[i].id) => Expired(pool[i], now)
      BY <1>0, <3>8, Zenon DEF ExpiredIn, Apart, DistinctIds
    <3>11. Unharmed'
      BY <1>0, <2>1, <2>2, <2>4, <3>1, <3>9, <3>10 DEF Unharmed, Doomed, Stale
    <3>12. QED BY <3>4, <3>5, <3>6, <3>11 DEF Safe
  <2>5. QED BY <1>3, <2>3, <2>4 DEF ReapLrange
<1>4. CASE ReapEntry(r)
  <2> DEFINE e == raw[r][pos[r]]
  <2>1. /\ pos[r] \in Nat \ {0} /\ raw[r] \in Seq(Entries) /\ keep[r] \in Seq(Entries)
        /\ rpc[r] = "scan" /\ pos[r] <= Len(raw[r])
        /\ UNCHANGED <<now, pool, status, dirs, jobVars, rpc, rnow, raw>>
    BY <1>4, Zenon DEF ReapEntry, TypeOK
  <2>2. pos[r] \in 1..Len(raw[r]) /\ e.id \in Containers
    BY <2>1, EntryIds
  <2>3. pos'[r] = pos[r] + 1 /\ \A q \in Reapers \ {r} : pos'[q] = pos[q]
    BY <1>4, Zenon DEF ReapEntry, TypeOK
  <2>4. \/ Expired(e, rnow[r]) /\ kills' = kills \cup {e.id} /\ keep' = keep
        \/ keep' = [keep EXCEPT ![r] = Append(keep[r], e)] /\ kills' = kills
    BY <1>4, Zenon DEF ReapEntry
  <2>5. Copies'
    <3>1. KeepsLive(raw[r], rnow[r], pos[r], keep[r])
      BY <1>0 DEF Copies
    <3>2. KeepsLive(raw[r], rnow[r], pos[r] + 1, keep'[r])
      <4>1. CASE Expired(e, rnow[r]) /\ keep' = keep
        BY <2>1, <3>1, <4>1, KeepStep, Zenon
      <4>2. CASE keep' = [keep EXCEPT ![r] = Append(keep[r], e)]
        <5>1. keep'[r] = Append(keep[r], e)
          BY <4>2, Zenon DEF TypeOK
        <5>2. QED BY <2>1, <3>1, <5>1, KeepStep, Zenon
      <4>3. QED BY <2>4, <4>1, <4>2, Zenon
    <3>3. \A q \in Reapers \ {r} : keep'[q] = keep[q]
      BY <2>4, Zenon DEF TypeOK
    <3>4. QED BY <1>0, <2>1, <2>3, <3>2, <3>3, Zenon DEF Copies
  <2>6. Owners' = Owners
    BY <2>1 DEF Owners
  <2>7. kills' = kills \/ (kills' = kills \cup {e.id} /\ Doomed(e.id))
    BY <2>2, <2>4, Zenon DEF Doomed, Stale, ExpiredIn
  <2>8. PICK d : \/ d = e.id /\ kills' = kills \cup {d} /\ Doomed(d)
                 \/ d \notin Containers /\ kills' = kills
    BY <2>7, NoSetContainsEverything, Zenon
  <2>9. /\ d \in kills' => status[d] # "unborn"
        /\ DistinctIds(pool) /\ now <= now
        /\ \A k \in Owners : mine[k].id # d
        /\ \A i \in 1..Len(pool) : pool[i].id = d => Expired(pool[i], now)
    <3>1. CASE d = e.id /\ kills' = kills \cup {d} /\ Doomed(d)
      BY <1>0, <1>t, <2>2, <3>1 DEF Apart, Born, Unharmed
    <3>2. CASE d \notin Containers /\ kills' = kills
      BY <1>0, <1>t, <3>2, EntryIds DEF Apart
    <3>3. QED BY <2>8, <3>1, <3>2, Zenon
  <2>10. QED BY <2>1, <2>5, <2>6, <2>8, <2>9, SafeFrame, Zenon
<1>5. CASE ReapReplace(r)
  <2>1. /\ rpc[r] = "scan" /\ pos[r] > Len(raw[r]) /\ pool' = keep[r] /\ Asleep(r)
        /\ UNCHANGED <<now, dockerVars, jobVars>>
    BY <1>5, Zenon DEF ReapReplace
  <2>2. pool = raw[r]
    BY <1>5, Zenon DEF ReapReplace
  <2>3. Owners' = Owners
    BY <2>1 DEF Owners
  <2>4. /\ Copies'
        /\ \A q \in Reapers : raw'[q] = <<>> \/ (raw'[q] = raw[q] /\ rnow'[q] = rnow[q])
    BY <1>0, <1>t, <2>1, CopiesFrame
  <2>5. KeepsLive(pool, rnow[r], pos[r], keep[r]) /\ pos[r] \in Nat /\ Len(pool) \in Nat
    BY <1>0, <2>2 DEF Copies, TypeOK
  <2>6. /\ DistinctIds(pool')
        /\ \A m \in 1..Len(pool') : \E i \in 1..Len(pool) : pool'[m] = pool[i]
    <3>1. 1..(pos[r] - 1) \subseteq 1..Len(pool)
      BY <2>5 DEF KeepsLive
    <3>2. QED BY <2>1, <2>5, <3>1, Zenon DEF KeepsLive
  <2>7. PICK none : none \notin Containers
    BY NoSetContainsEverything
  <2>8. kills \subseteq Containers /\ (\A k \in Owners : mine[k].id # none) /\ now <= now
    BY <1>t, <2>7, EntryIds
  <2>9. \A m \in 1..Len(pool') : pool'[m].id # none
    BY <2>6, <2>7, EntryIds, Zenon
  <2>10. QED BY <2>1, <2>3, <2>4, <2>6, <2>7, <2>8, <2>9, SafeFrame, Zenon
<1>6. QED BY <1>1, <1>2, <1>3, <1>4, <1>5 DEF ReaperStep

\* Every step keeps Safe, unless a reaper replaces a list that has changed.
LEMMA SafeStep ==
    ASSUME TypeOK, TypeOK', Safe, [Next]_vars, raced' = {}
    PROVE  Safe'
<1> USE DEF dockerVars, jobVars, reaperVars
<1>1. ASSUME NEW c \in Containers, Kill(c) \/ KillFails(c) \/ Die(c) PROVE Safe'
  <2>1. /\ UNCHANGED <<now, pool, jobVars, reaperVars>>
        /\ kills' \subseteq kills /\ dirs' \subseteq dirs /\ dirs \subseteq dirs' \cup kills
        /\ \A d \in Containers : status'[d] = "unborn" => status[d] = "unborn"
    BY <1>1, Zenon DEF TypeOK, Kill, KillFails, Die
  <2>2. Owners' = Owners
    BY <2>1 DEF Owners
  <2>3. QED BY <2>1, <2>2, QuietFrame, Zenon
<1>2. CASE Tick \/ UNCHANGED vars
  <2>1. now' \in {now, now + 1} /\ UNCHANGED <<pool, dockerVars, jobVars, reaperVars>>
    BY <1>2, Zenon DEF Tick, vars
  <2>2. Owners' = Owners
    BY <2>1 DEF Owners
  <2>3. QED BY <2>1, <2>2, QuietFrame
<1>3. QED BY <1>1, <1>2, SafeJobStep, SafeReaperStep DEF Next

\* Nothing makes a race of a reaper undone.
LEMMA RacedGrows == [Next]_vars /\ raced' = {} => raced = {}
BY Zenon DEF Next, JobStep, ReaperStep, RpopMiss, Rpop, CheckUsable, ColdStart, ColdStartFails,
       Sanitize, CappedPush, JobCrash, ReapStart, ReapLrange, ReapEntry, ReapReplace,
       ReapFails, Kill, KillFails, Die, Tick, reaperVars, vars

\* The containers have one user each, and those in use are left alone, as long as no
\* reaper replaces a list that has changed since it read it.
THEOREM SafeInvariant == Spec => [](raced = {} => Safe)
<1>1. Init => Safe
  <2> SUFFICES ASSUME Init PROVE Safe
    OBVIOUS
  <2>1. Owners = {} /\ pool = <<>> /\ kills = {} /\ dirs = {}
    BY DEF Init, Owners, Owning
  <2>2. \A r \in Reapers : raw[r] = <<>> /\ keep[r] = <<>> /\ pos[r] = 1 /\ rnow[r] <= now
    BY DEF Init
  <2>3. KeepsLive(<<>>, 0, 1, <<>>)
    BY DEF KeepsLive, DistinctIds
  <2>4. Copies
    BY <2>2, <2>3 DEF Init, Copies
  <2>5. QED BY <2>1, <2>2, <2>4 DEF Safe, Apart, Born, Unharmed, DistinctIds
<1> DEFINE IInv == raced = {} => Safe
<1>2. TypeOK /\ TypeOK' /\ IInv /\ [Next]_vars => IInv'
  BY RacedGrows, SafeStep
<1>3. Init => IInv
  BY <1>1
<1> HIDE DEF IInv
<1>4. Spec => []IInv
  BY <1>2, <1>3, TypeCorrect, PTL DEF Spec
<1>5. QED BY <1>4 DEF IInv

\* acquire pops atomically and release pushes once: a container has one user.
THEOREM OneUserEach == Spec => []Exclusive
<1>1. (raced = {} => Safe) => Exclusive
  BY Zenon DEF Safe, Apart, Exclusive, OneUser, Owned, Pooled
<1>2. QED BY <1>1, SafeInvariant, PTL

\* Neither the reaper nor a kill task takes a container or its directory from a job.
THEOREM UsersUndisturbed == Spec => []Undisturbed
<1>1. (raced = {} => Safe) => Undisturbed
  BY Zenon DEF Safe, Unharmed, Doomed, Undisturbed, Owned
<1>2. QED BY <1>1, SafeInvariant, PTL

-----------------------------------------------------------------------------
(* Every running container is accounted for, but for one for each fault. *)

\* A reaper has come past an expired entry of the container, and has started its kill.
PassedIn(list, t, n, c) == \E i \in 1..(n - 1) : list[i].id = c /\ Expired(list[i], t)
Passed(c) == \E r \in Reapers : PassedIn(raw[r], rnow[r], pos[r], c)

\* The running containers nobody will use or remove.  The entry of one that a reaper
\* has passed does not count: the reaper is going to leave it out of the list.
Lost ==
    {c \in Containers : /\ status[c] = "running"
                        /\ c \notin Owned
                        /\ c \notin kills
                        /\ c \in Pooled => Passed(c)}

Losses == IsFiniteSet(Lost) /\ Cardinality(Lost) <= faults

\* What a reaper has passed it found expired.
LEMMA PassedIsStale ==
    ASSUME TypeOK, Copies, NEW c, Passed(c)
    PROVE  Stale(c)
<1>1. PICK r \in Reapers : PassedIn(raw[r], rnow[r], pos[r], c)
  BY DEF Passed
<1>2. pos[r] \in Nat /\ Len(raw[r]) \in Nat /\ pos[r] <= Len(raw[r]) + 1
  BY DEF TypeOK, Copies, KeepsLive
<1>3. 1..(pos[r] - 1) \subseteq 1..Len(raw[r])
  BY <1>2
<1>4. QED BY <1>1, <1>3 DEF PassedIn, Stale, ExpiredIn

\* Nothing gets lost in a step in which the jobs keep their containers, or hand them
\* over to a kill, and the reapers pass nothing.
LEMMA NothingLost ==
    ASSUME TypeOK, NEW d, UNCHANGED pool,
           \A c \in Containers \ {d} : status'[c] = "running" => status[c] = "running",
           \A c \in Containers \ {d} : c \in Owned \cup kills => c \in Owned' \cup kills',
           \A r \in Reapers : pos'[r] = 1
                              \/ (raw'[r] = raw[r] /\ rnow'[r] = rnow[r] /\ pos'[r] = pos[r])
    PROVE  Lost' \subseteq Lost \cup {d}
<1> SUFFICES ASSUME NEW c \in Lost', c # d PROVE c \in Lost
  OBVIOUS
<1>1. /\ c \in Containers /\ status'[c] = "running" /\ c \notin Owned' /\ c \notin kills'
      /\ c \in Pooled' => Passed(c)'
  BY DEF Lost
<1>2. Pooled' = Pooled
  BY DEF Pooled
<1>3. Passed(c)' => Passed(c)
  <2> SUFFICES ASSUME Passed(c)' PROVE Passed(c)
    OBVIOUS
  <2>1. PICK r \in Reapers : PassedIn(raw'[r], rnow'[r], pos'[r], c)
    BY DEF Passed
  <2>2. pos'[r] # 1
    BY <2>1 DEF PassedIn
  <2>3. QED BY <2>1, <2>2 DEF Passed
<1>4. QED BY <1>1, <1>2, <1>3 DEF Lost

\* A step loses at most one container, and none without a fault.
LEMMA LostStep ==
    ASSUME TypeOK, TypeOK', Safe, [Next]_vars, raced' = {}
    PROVE  \/ Lost' \subseteq Lost /\ faults <= faults'
           \/ \E d : Lost' \subseteq Lost \cup {d} /\ faults' = faults + 1
<1> USE DEF dockerVars, jobVars, reaperVars
<1> DEFINE Goal == \/ Lost' \subseteq Lost /\ faults <= faults'
                   \/ \E d : Lost' \subseteq Lost \cup {d} /\ faults' = faults + 1
<1>0. Apart /\ Born /\ Unharmed /\ Copies
  BY DEF Safe
<1>t. /\ faults \in Nat
      /\ pc \in [Jobs -> {"acquire", "cold"} \cup Owning]
      /\ mine \in [Jobs -> Entries \cup {NoEntry}]
      /\ status \in [Containers -> {"unborn", "running", "gone"}]
      /\ kills \in SUBSET Containers
      /\ rnow \in [Reapers -> 0..MaxTime] /\ raw \in [Reapers -> Seq(Entries)]
      /\ pos \in [Reapers -> Nat \ {0}]
  BY FaultAssumption DEF TypeOK
<1>n. PICK none : none \notin Containers
  BY NoSetContainsEverything
<1>r. UNCHANGED reaperVars => \A r \in Reapers :
         pos'[r] = 1 \/ (raw'[r] = raw[r] /\ rnow'[r] = rnow[r] /\ pos'[r] = pos[r])
  OBVIOUS
<1>d. ASSUME NEW j \in Jobs, Drop(j)
      PROVE  Owned \subseteq Owned' \cup {mine[j].id} /\ (j \notin Owners => Owned \subseteq Owned')
  BY <1>d, AfterDrop DEF Owned
<1>1. ASSUME NEW j \in Jobs, RpopMiss(j) PROVE Goal
  <2>1. Owners' = Owners /\ UNCHANGED <<mine, pool, dockerVars, reaperVars, faults>>
    BY <1>1, <1>t DEF RpopMiss, Owners, Owning
  <2>2. Owned' = Owned
    BY <2>1 DEF Owned
  <2>3. Lost' \subseteq Lost \cup {none}
    BY <1>r, <2>1, <2>2, NothingLost
  <2>4. QED BY <1>n, <1>t, <2>1, <2>3 DEF Lost
<1>2. ASSUME NEW j \in Jobs, CheckUsable(j) PROVE Goal
  <2>1. j \in Owners /\ UNCHANGED <<pool, status, reaperVars, faults>>
    BY <1>2 DEF CheckUsable, Owners, Owning
  <2>2. Owned \subseteq Owned' \cup kills' /\ kills \subseteq kills'
    <3>1. CASE pc' = [pc EXCEPT ![j] = "using"] /\ UNCHANGED <<mine, kills>>
      <4>1. Owners' = Owners
        BY <1>t, <2>1, <3>1 DEF Owners, Owning
      <4>2. QED BY <3>1, <4>1 DEF Owned
    <3>2. CASE kills' = kills \cup {mine[j].id} /\ Drop(j)
      BY <1>d, <3>2
    <3>3. QED BY <1>2, <3>1, <3>2 DEF CheckUsable
  <2>3. Lost' \subseteq Lost \cup {none}
    BY <1>r, <2>1, <2>2, NothingLost
  <2>4. QED BY <1>n, <1>t, <2>1, <2>3 DEF Lost
<1>3. ASSUME NEW j \in Jobs, ColdStartFails(j) PROVE Goal
  <2>1. PICK c \in Containers, x \in {"running", "gone"} : status' = [status EXCEPT ![c] = x]
    BY <1>3, Zenon DEF ColdStartFails
  <2>2. j \notin Owners /\ Drop(j) /\ faults' = faults + 1 /\ UNCHANGED <<pool, kills, reaperVars>>
    BY <1>3 DEF ColdStartFails, Owners, Owning
  <2>3. \A k \in Containers \ {c} : status'[k] = "running" => status[k] = "running"
    BY <1>t, <2>1
  <2>4. Owned \subseteq Owned'
    BY <1>d, <2>2
  <2>5. Lost' \subseteq Lost \cup {c}
    BY <1>r, <2>2, <2>3, <2>4, NothingLost
  <2>6. QED BY <2>2, <2>5
<1>4. ASSUME NEW j \in Jobs, JobCrash(j) PROVE Goal
  <2>1. Drop(j) /\ faults' = faults + 1 /\ UNCHANGED <<pool, dockerVars, reaperVars>>
    BY <1>4 DEF JobCrash
  <2>2. PICK d : d = mine[j].id
    OBVIOUS
  <2>3. Owned \subseteq Owned' \cup {d}
    BY <1>d, <2>1, <2>2
  <2>4. Lost' \subseteq Lost \cup {d}
    BY <1>r, <2>1, <2>3, NothingLost
  <2>5. QED BY <2>1, <2>4
<1>5. ASSUME NEW j \in Jobs, Sanitize(j) PROVE Goal
  <2>1. j \in Owners /\ UNCHANGED <<pool, status, kills, reaperVars, faults>>
    BY <1>5, Zenon DEF Sanitize, Owners, Owning
  <2>2. CASE /\ pc' = [pc EXCEPT ![j] = "push"]
             /\ mine' = [mine EXCEPT ![j] = [id |-> mine[j].id, born |-> now]]
    <3>1. Owners' = Owners /\ \A k \in Owners : mine'[k].id = mine[k].id
      BY <1>t, <2>1, <2>2 DEF Owners, Owning
    <3>2. Owned \subseteq Owned'
      BY <3>1 DEF Owned
    <3>3. Lost' \subseteq Lost \cup {none}
      BY <1>r, <2>1, <3>2, NothingLost
    <3>4. QED BY <1>n, <1>t, <2>1, <3>3 DEF Lost
  <2>3. CASE status[mine[j].id] # "running" /\ Drop(j)
    <3>1. PICK d : d = mine[j].id
      OBVIOUS
    <3>2. Owned \subseteq Owned' \cup {d}
      BY <1>d, <2>3, <3>1
    <3>3. Lost' \subseteq Lost \cup {d}
      BY <1>r, <2>1, <3>2, NothingLost
    <3>4. d \notin Lost'
      BY <2>1, <2>3, <3>1 DEF Lost
    <3>5. QED BY <1>t, <2>1, <3>3, <3>4
  <2>4. QED BY <1>5, <2>2, <2>3, Zenon DEF Sanitize
<1>6. ASSUME NEW j \in Jobs, ColdStart(j) PROVE Goal
  <2>1. PICK c \in Containers :
           /\ status' = [status EXCEPT ![c] = "running"]
           /\ mine' = [mine EXCEPT ![j] = [id |-> c, born |-> now]]
    BY <1>6, Zenon DEF ColdStart
  <2>2. /\ pc[j] = "cold" /\ pc' = [pc EXCEPT ![j] = "using"]
        /\ UNCHANGED <<pool, kills, reaperVars, faults>>
    BY <1>6 DEF ColdStart
  <2>3. /\ Owners' = Owners \cup {j} /\ j \notin Owners
        /\ mine'[j].id = c /\ \A k \in Owners : mine'[k] = mine[k]
    BY <1>t, <2>1, <2>2 DEF Owners, Owning
  <2>4. Owned \subseteq Owned' /\ c \in Owned'
    BY <2>3 DEF Owned
  <2>5. \A k \in Containers \ {c} : status'[k] = "running" => status[k] = "running"
    BY <1>t, <2>1
  <2>6. Lost' \subseteq Lost \cup {c}
    BY <1>r, <2>2, <2>4, <2>5, NothingLost
  <2>7. QED BY <1>t, <2>2, <2>4, <2>6 DEF Lost
<1>7. ASSUME NEW c \in Containers, Kill(c) \/ KillFails(c) \/ Die(c) PROVE Goal
  <2>1. /\ UNCHANGED <<pool, jobVars, reaperVars>>
        /\ \A k \in Containers : status'[k] = "running" => status[k] = "running"
        /\ kills \subseteq kills' \cup {c}
    BY <1>7, <1>t, Zenon DEF Kill, KillFails, Die
  <2>2. Owned' = Owned
    BY <2>1 DEF Owned, Owners
  <2>3. Lost' \subseteq Lost \cup {c}
    BY <1>r, <2>1, <2>2, NothingLost
  <2>4. CASE Kill(c)
    <3>1. status'[c] = "gone" /\ faults' = faults
      BY <1>t, <2>4 DEF Kill
    <3>2. QED BY <1>t, <2>3, <3>1 DEF Lost
  <2>5. CASE KillFails(c) \/ Die(c)
    BY <2>3, <2>5 DEF KillFails, Die
  <2>6. QED BY <1>7, <2>4, <2>5
<1>8. CASE Tick \/ UNCHANGED vars
  <2>1. UNCHANGED <<pool, dockerVars, jobVars, reaperVars, faults>>
    BY <1>8 DEF Tick, vars
  <2>2. Owned' = Owned
    BY <2>1 DEF Owned, Owners
  <2>3. Lost' \subseteq Lost \cup {none}
    BY <1>r, <2>1, <2>2, NothingLost
  <2>4. QED BY <1>n, <1>t, <2>1, <2>3 DEF Lost
<1>9. ASSUME NEW r \in Reapers, ReapStart(r) \/ ReapLrange(r) \/ ReapFails(r) PROVE Goal
  <2>1. UNCHANGED <<pool, dockerVars, jobVars>>
    BY <1>9 DEF ReapStart, ReapLrange, ReapFails
  <2>2. Owned' = Owned
    BY <2>1 DEF Owned, Owners
  <2>3. \A q \in Reapers : q # r => raw'[q] = raw[q] /\ rnow'[q] = rnow[q] /\ pos'[q] = pos[q]
    <3>1. CASE ReapStart(r)
      BY <1>t, <3>1 DEF ReapStart
    <3>2. CASE ReapLrange(r)
      BY <1>t, <3>2 DEF ReapLrange, Asleep
    <3>3. CASE ReapFails(r)
      BY <1>t, <3>3 DEF ReapFails, Asleep
    <3>4. QED BY <1>9, <3>1, <3>2, <3>3
  <2>4. pos'[r] = 1
    <3>1. rpc[r] # "scan" => pos[r] = 1
      BY <1>0 DEF Copies
    <3>2. QED BY <1>9, <1>t, <3>1, Zenon DEF ReapStart, ReapLrange, ReapFails, Asleep
  <2>5. Lost' \subseteq Lost \cup {none}
    BY <2>1, <2>2, <2>3, <2>4, NothingLost
  <2>6. faults <= faults'
    BY <1>9, <1>t DEF ReapStart, ReapLrange, ReapFails
  <2>7. QED BY <1>n, <2>5, <2>6 DEF Lost
<1>10. ASSUME NEW r \in Reapers, ReapEntry(r) PROVE Goal
  <2> DEFINE e == raw[r][pos[r]]
  <2>1. /\ UNCHANGED <<pool, status, jobVars, raw, rnow, faults>>
        /\ pos[r] \in Nat \ {0} /\ pos'[r] = pos[r] + 1
        /\ \A q \in Reapers : q # r => pos'[q] = pos[q]
    BY <1>10, Zenon DEF ReapEntry, TypeOK
  <2>2. /\ kills \subseteq kills'
        /\ Expired(e, rnow[r]) => e.id \in kills'
    BY <1>10, Zenon DEF ReapEntry
  <2>3. Owned' = Owned /\ Pooled' = Pooled
    BY <2>1 DEF Owned, Owners, Pooled
  <2>4. ASSUME NEW c, c \notin kills', Passed(c)' PROVE Passed(c)
    <3>1. PICK q \in Reapers : PassedIn(raw[q], rnow[q], pos'[q], c)
      BY <2>1, <2>4 DEF Passed
    <3>2. CASE q # r
      BY <2>1, <3>1, <3>2 DEF Passed
    <3>3. CASE q = r
      <4>1. PICK i \in 1..pos[r] : raw[r][i].id = c /\ Expired(raw[r][i], rnow[r])
        BY <2>1, <3>1, <3>3 DEF PassedIn
      <4>2. i # pos[r]
        BY <2>2, <2>4, <4>1
      <4>3. i \in 1..(pos[r] - 1)
        BY <2>1, <4>1, <4>2
      <4>4. QED BY <4>1, <4>3 DEF Passed, PassedIn
    <3>4. QED BY <3>2, <3>3
  <2>5. Lost' \subseteq Lost
    BY <2>1, <2>2, <2>3, <2>4 DEF Lost
  <2>6. QED BY <1>t, <2>1, <2>5
<1>11. ASSUME NEW r \in Reapers, ReapReplace(r) PROVE Goal
  <2>1. /\ pool = raw[r] /\ pool' = keep[r] /\ pos[r] > Len(raw[r]) /\ Asleep(r)
        /\ UNCHANGED <<dockerVars, jobVars, faults>>
    BY <1>11, Zenon DEF ReapReplace
  <2>2. Owned' = Owned
    BY <2>1 DEF Owned, Owners
  <2>3. ASSUME NEW c, Passed(c)' PROVE Passed(c)
    <3>1. PICK q \in Reapers : PassedIn(raw'[q], rnow'[q], pos'[q], c)
      BY <2>3 DEF Passed
    <3>2. pos'[r] = 1 /\ \A k \in Reapers : k # r => raw'[k] = raw[k] /\ rnow'[k] = rnow[k] /\ pos'[k] = pos[k]
      BY <2>1, Zenon DEF Asleep, TypeOK
    <3>3. q # r
      BY <3>1, <3>2 DEF PassedIn
    <3>4. QED BY <3>1, <3>2, <3>3 DEF Passed
  <2>4. ASSUME NEW c \in Pooled, ~Passed(c) PROVE c \in Pooled'
    <3>1. PICK i \in 1..Len(pool) : pool[i].id = c
      BY <2>4 DEF Pooled
    <3>2. i \in 1..(pos[r] - 1)
      BY <2>1, <3>1 DEF TypeOK
    <3>3. ~Expired(raw[r][i], rnow[r])
      BY <2>1, <2>4, <3>1, <3>2 DEF Passed, PassedIn
    <3>4. \E m \in 1..Len(keep[r]) : keep[r][m] = raw[r][i]
      BY <1>0, <3>2, <3>3 DEF Copies, KeepsLive
    <3>5. QED BY <2>1, <3>1, <3>4 DEF Pooled
  <2>5. Lost' \subseteq Lost
    BY <2>1, <2>2, <2>3, <2>4 DEF Lost
  <2>6. QED BY <1>t, <2>1, <2>5
<1>12. ASSUME NEW j \in Jobs, Rpop(j) PROVE Goal
  <2> DEFINE e == pool[Len(pool)]
  <2>1. UNCHANGED <<status, reaperVars, faults>>
    BY <1>12 DEF Rpop
  <2>2. \A c \in Pooled : c = e.id \/ c \in Pooled'
    <3> SUFFICES ASSUME NEW c \in Pooled, c # e.id PROVE c \in Pooled'
      OBVIOUS
    <3>1. PICK i \in 1..Len(pool) : pool[i].id = c
      BY DEF Pooled
    <3>2. i \in 1..Len(pool') /\ pool'[i] = pool[i]
      BY <1>12, <3>1, RpopRemovesLast
    <3>3. QED BY <3>1, <3>2 DEF Pooled
  <2>3. kills \subseteq kills' /\ Owned \subseteq Owned' /\ e.id \in Owned' \cup kills'
    <3>1. CASE Expired(e, now)
      <4>1. kills' = kills \cup {e.id} /\ UNCHANGED <<pc, mine>>
        BY <1>12, <3>1 DEF Rpop
      <4>2. QED BY <4>1 DEF Owned, Owners
    <3>2. CASE ~Expired(e, now)
      <4>1. /\ pc' = [pc EXCEPT ![j] = "check"]
            /\ mine' = [mine EXCEPT ![j] = e]
            /\ UNCHANGED kills /\ pc[j] = "acquire"
        BY <1>12, <3>2 DEF Rpop
      <4>2. /\ Owners' = Owners \cup {j} /\ j \notin Owners
            /\ mine'[j] = e /\ \A k \in Owners : mine'[k] = mine[k]
        BY <1>t, <4>1 DEF Owners, Owning
      <4>3. QED BY <4>1, <4>2 DEF Owned
    <3>3. QED BY <3>1, <3>2
  <2>4. \A c : Passed(c)' <=> Passed(c)
    BY <2>1 DEF Passed
  <2>5. Lost' \subseteq Lost
    BY <2>1, <2>2, <2>3, <2>4 DEF Lost
  <2>6. QED BY <1>t, <2>1, <2>5
<1>13. ASSUME NEW j \in Jobs, CappedPush(j) PROVE Goal
  <2>1. Drop(j) /\ UNCHANGED <<status, reaperVars, faults>>
    BY <1>13 DEF CappedPush
  <2>2. j \in Owners /\ mine[j] \in Entries
    BY <1>13, EntryIds, Zenon DEF CappedPush, Owners, Owning
  <2>3. Owned \subseteq Owned' \cup {mine[j].id}
    BY <1>d, <2>1
  <2>4. CASE kills' = kills \cup {mine[j].id} /\ UNCHANGED pool
    <3>1. Lost' \subseteq Lost \cup {none}
      BY <1>r, <2>1, <2>3, <2>4, NothingLost
    <3>2. QED BY <1>n, <1>t, <2>1, <3>1 DEF Lost
  <2>5. CASE pool' = <<mine[j]>> \o pool /\ UNCHANGED kills
    <3>1. ~Passed(mine[j].id)
      BY <1>0, <2>2, PassedIsStale DEF Unharmed, Doomed
    <3>2. Pooled \subseteq Pooled' /\ mine[j].id \in Pooled'
      <4>1. /\ Len(pool) \in Nat /\ Len(pool') = Len(pool) + 1 /\ pool'[1] = mine[j]
            /\ \A i \in 1..Len(pool) : i + 1 \in 1..Len(pool') /\ pool'[i + 1] = pool[i]
        BY <2>2, <2>5 DEF TypeOK
      <4>2. mine[j].id \in Pooled'
        BY <4>1 DEF Pooled
      <4>3. ASSUME NEW c \in Pooled PROVE c \in Pooled'
        <5>1. PICK i \in 1..Len(pool) : pool[i].id = c
          BY DEF Pooled
        <5>2. i + 1 \in 1..Len(pool') /\ pool'[i + 1].id = c
          BY <4>1, <5>1
        <5>3. QED BY <5>2 DEF Pooled
      <4>4. QED BY <4>2, <4>3
    <3>3. \A c : Passed(c)' <=> Passed(c)
      BY <2>1 DEF Passed
    <3>4. Lost' \subseteq Lost
      BY <2>1, <2>3, <2>5, <3>1, <3>2, <3>3 DEF Lost
    <3>5. QED BY <1>t, <2>1, <3>4
  <2>6. QED BY <1>13, <2>4, <2>5, Zenon DEF CappedPush
<1>14. QED
  BY <1>1, <1>2, <1>3, <1>4, <1>5, <1>6, <1>7, <1>8, <1>9, <1>10, <1>11, <1>12, <1>13
     DEF Next, JobStep, ReaperStep

\* No path of acquire, release and reaper leaves a container running with nobody
\* knowing of it, but for one for every crash, failed start or hung removal.
THEOREM ContainersAccounted == Spec => []Accounted
<1> DEFINE IInv == raced = {} => Losses
<1>1. Init => IInv
  <2>1. Init => Lost = {} /\ faults = 0
    BY DEF Init, Lost
  <2>2. QED BY <2>1, FS_EmptySet DEF Losses
<1>2. TypeOK /\ TypeOK' /\ (raced = {} => Safe) /\ IInv /\ [Next]_vars => IInv'
  <2> SUFFICES ASSUME TypeOK, TypeOK', raced = {} => Safe, IInv, [Next]_vars, raced' = {}
               PROVE  Losses'
    OBVIOUS
  <2>1. raced = {}
    BY RacedGrows
  <2>2. Safe /\ IsFiniteSet(Lost) /\ Cardinality(Lost) <= faults
    BY <2>1 DEF Losses
  <2>3. faults \in Nat /\ faults' \in Nat /\ Cardinality(Lost) \in Nat
    BY <2>2, FS_CardinalityType, FaultAssumption DEF TypeOK
  <2>4. CASE Lost' \subseteq Lost /\ faults <= faults'
    <3>1. IsFiniteSet(Lost') /\ Cardinality(Lost') <= Cardinality(Lost)
      BY <2>2, <2>4, FS_Subset
    <3>2. Cardinality(Lost') \in Nat
      BY <3>1, FS_CardinalityType
    <3>3. QED BY <2>2, <2>3, <2>4, <3>1, <3>2 DEF Losses
  <2>5. ASSUME NEW d, Lost' \subseteq Lost \cup {d}, faults' = faults + 1 PROVE Losses'
    <3>1. IsFiniteSet(Lost \cup {d}) /\ Cardinality(Lost \cup {d}) <= Cardinality(Lost) + 1
      BY <2>2, <2>3, FS_AddElement
    <3>2. IsFiniteSet(Lost') /\ Cardinality(Lost') <= Cardinality(Lost \cup {d})
      BY <2>5, <3>1, FS_Subset
    <3>3. Cardinality(Lost') \in Nat /\ Cardinality(Lost \cup {d}) \in Nat
      BY <3>1, <3>2, FS_CardinalityType
    <3>4. QED BY <2>2, <2>3, <2>5, <3>1, <3>2, <3>3 DEF Losses
  <2>6. QED BY <2>2, <2>4, <2>5, LostStep
<1>3. (TypeOK /\ IInv) => Accounted
  <2> SUFFICES ASSUME TypeOK, IInv, raced = {}
               PROVE  Cardinality({c \in Containers : /\ status[c] = "running"
                                     /\ c \notin Owned \cup Pooled \cup kills}) <= faults
    BY DEF Accounted
  <2> DEFINE Unknown == {c \in Containers : /\ status[c] = "running"
                                            /\ c \notin Owned \cup Pooled \cup kills}
  <2>1. Unknown \subseteq Lost
    BY DEF Lost
  <2>2. IsFiniteSet(Lost) /\ Cardinality(Lost) <= faults
    BY DEF Losses
  <2>3. IsFiniteSet(Unknown) /\ Cardinality(Unknown) <= Cardinality(Lost)
    BY <2>1, <2>2, FS_Subset
  <2>4. Cardinality(Unknown) \in Nat /\ Cardinality(Lost) \in Nat /\ faults \in Nat
    BY <2>2, <2>3, FS_CardinalityType, FaultAssumption DEF TypeOK
  <2> HIDE DEF Unknown
  <2>5. Cardinality(Unknown) <= faults
    BY <2>2, <2>3, <2>4
  <2>6. QED BY <2>5 DEF Unknown
<1> HIDE DEF IInv
<1>4. QED BY <1>1, <1>2, <1>3, TypeCorrect, SafeInvariant, PTL DEF Spec
=============================================================================
