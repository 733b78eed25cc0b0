--------------------------- MODULE ExecutionProofs ---------------------------
(***************************************************************************)
(* What follows from the invariant of ExecutionInvariant by counting: the  *)
(* permits of the two semaphores, the compilers that run and the           *)
(* containers that are left when all executions are over.                  *)
(***************************************************************************)
EXTENDS ExecutionInvariant, FiniteSetTheorems

(* The permits. *)

\* Neither semaphore is over its limit.
Bounded ==
    /\ IsFiniteSet(runHeld) /\ Cardinality(runHeld) <= RunMax
    /\ IsFiniteSet(compHeld) /\ Cardinality(compHeld) <= CompileMax

\* Only the head of the block of a semaphore takes one of its permits.
LEMMA HeldStep ==
    ASSUME NEW e \in Executions, Moves(e)
    PROVE  /\ runHeld' \subseteq runHeld \/ RunPermit(e)
           /\ compHeld' \subseteq compHeld \/ CompilePermit(e)
<1>1. CASE Prepares(e)
    BY <1>1, Zenon DEF Prepares, Begin, NoSandboxRoot, AcquireRaises, AcquireWarm, AcquireMiss,
       RunPermit, NoRunPermit, Start, StartFails, StartHangs, StartTimeout, Exit, permitVars
<1>2. CASE Builds(e)
    BY <1>2, Zenon DEF Builds, Wrap, NoCompilePermit, CompilePermit, Built, BuildFails,
       BuildTimeout, BuildExit, Exit, permitVars
<1>3. CASE Closes(e)
    BY <1>3, Zenon DEF Closes, Tidy, TidyRaises, Run, Cleanup, CleanupRaises, End, BuildExit,
       Exit, permitVars
<1>4. CASE RunsRaw(e)
    BY <1>4, Zenon DEF RunsRaw, RawBegin, RawFails, RawRun, Communicate, RawTimeout, RawEnd,
       permitVars
<1>. QED
    BY <1>1, <1>2, <1>3, <1>4, Zenon DEF Moves

\* One more holder, under the limit.
LEMMA OneMoreHolder ==
    ASSUME NEW H, IsFiniteSet(H), NEW n \in Nat, Cardinality(H) < n, NEW e
    PROVE  IsFiniteSet(H \cup {e}) /\ Cardinality(H \cup {e}) <= n
<1>1. Cardinality(H) \in Nat
    BY FS_CardinalityType
<1>2. /\ IsFiniteSet(H \cup {e})
      /\ Cardinality(H \cup {e}) = IF e \in H THEN Cardinality(H) ELSE Cardinality(H) + 1
    BY FS_AddElement
<1>. QED
    BY <1>1, <1>2

\* Permits that are given back.
LEMMA FewerHolders ==
    ASSUME NEW H, IsFiniteSet(H), NEW n \in Nat, Cardinality(H) <= n, NEW G, G \subseteq H
    PROVE  IsFiniteSet(G) /\ Cardinality(G) <= n
<1>1. G \in SUBSET H
    OBVIOUS
<1>2. IsFiniteSet(G) /\ Cardinality(G) <= Cardinality(H)
    BY <1>1, FS_Subset
<1>. QED
    BY <1>2, FS_CardinalityType

\* Every step keeps both limits.
LEMMA BoundedStep == Bounded /\ [Next]_vars => Bounded'
<1> SUFFICES ASSUME Bounded, [Next]_vars
             PROVE  Bounded'
    OBVIOUS
<1>1. ASSUME runHeld' \subseteq runHeld \/ (\E e \in Executions : RunPermit(e)),
             compHeld' \subseteq compHeld \/ (\E e \in Executions : CompilePermit(e))
      PROVE  Bounded'
    <2>1. IsFiniteSet(runHeld') /\ Cardinality(runHeld') <= RunMax
        BY <1>1, LimitAssumption, OneMoreHolder, FewerHolders DEF Bounded, RunPermit
    <2>2. IsFiniteSet(compHeld') /\ Cardinality(compHeld') <= CompileMax
        BY <1>1, LimitAssumption, OneMoreHolder, FewerHolders, Zenon DEF Bounded, CompilePermit
    <2>. QED
        BY <2>1, <2>2, Zenon DEF Bounded
<1>2. ASSUME UNCHANGED permitVars
      PROVE  Bounded'
    BY <1>2, Zenon DEF Bounded, permitVars
<1>3. ASSUME NEW e \in Executions, Step(e) \/ JudgeFault(e) \/ RawFault(e)
      PROVE  Bounded'
    <2>1. CASE Moves(e)
        BY <2>1, <1>1, HeldStep, Zenon
    <2>. QED
        BY <2>1, <1>2, <1>3, StepCases, Zenon DEF AcquireDiscard, Daemon, DaemonRefuses
<1>4. ASSUME NEW c \in Containers, CompilerEnds(c) \/ Die(c)
      PROVE  Bounded'
    BY <1>2, <1>4, Zenon DEF CompilerEnds, Die
<1>5. CASE UNCHANGED vars
    BY <1>2, <1>5, Zenon DEF vars
<1>. QED
    BY <1>2, <1>3, <1>4, <1>5, Zenon DEF Next, Finished

\* Both limits hold in every reachable state.
LEMMA BoundedInvariant == Spec => []Bounded
<1>1. Init => Bounded
    BY FS_EmptySet, LimitAssumption DEF Init, Bounded
<1>. QED
    BY <1>1, BoundedStep, PTL DEF Spec

\* Permits: no way out of execute() keeps a permit, but for one that an outage of Redis
\* caught at the end of the block of docker_run_semaphore or compile_semaphore, and
\* neither semaphore gives out more than its limit.
THEOREM PermitsKept == Spec => []PermitsReturned
<1>1. Inv /\ Bounded => PermitsReturned
    <2>1. Inv => \A e \in Executions \ failed :
                    pc[e] \in {"cleanup", "ended"} => e \notin runHeld \cup compHeld
        BY Zenon DEF Inv, Local, FineAt, Fine
    <2>. QED
        BY <2>1, Zenon DEF Bounded, PermitsReturned
<1>. QED
    BY <1>1, InvInvariant, BoundedInvariant, PTL

-----------------------------------------------------------------------------
(* The compilers. *)

\* Builds inside the semaphore, the containers they are in, and the compilers in any
\* other container.
Building == {e \in compHeld : pc[e] = "build"}
Compiling == {cid[e] : e \in Building}
Stray == compilers \ Compiling

\* Executions whose compiler was too slow, and those that hold a permit without a
\* build.
Slow == {e \in Executions : cause[e] = "slow"}
Blamed == Slow \cup (compHeld \ Building)

\* There are no more members of S than of T; T may grow by y, and if it does, S by x.
Covered(S, T) == IsFiniteSet(S) /\ IsFiniteSet(T) /\ Cardinality(S) <= Cardinality(T)

Paid(S, T, S2, T2, x, y) ==
    /\ S2 \subseteq S \cup {x}
    /\ T \subseteq T2 /\ T2 \subseteq T \cup {y}
    /\ S2 \subseteq S \/ y \in T2 \ T

Charged == Covered(Stray, Blamed)

\* Charged is kept by a step that is paid for.
LEMMA Charge ==
    ASSUME NEW S, NEW T, Covered(S, T),
           NEW S2, NEW T2, NEW x, NEW y, Paid(S, T, S2, T2, x, y)
    PROVE  Covered(S2, T2)
<1>c. IsFiniteSet(S) /\ IsFiniteSet(T) /\ Cardinality(S) <= Cardinality(T)
    BY Zenon DEF Covered
<1>p. /\ S2 \subseteq S \cup {x} /\ T \subseteq T2 /\ T2 \subseteq T \cup {y}
      /\ S2 \subseteq S \/ y \in T2 \ T
    BY Zenon DEF Paid
<1>1. /\ IsFiniteSet(S \cup {x})
      /\ Cardinality(S \cup {x}) = IF x \in S THEN Cardinality(S) ELSE Cardinality(S) + 1
    BY <1>c, FS_AddElement
<1>2. /\ IsFiniteSet(T \cup {y})
      /\ Cardinality(T \cup {y}) = IF y \in T THEN Cardinality(T) ELSE Cardinality(T) + 1
    BY <1>c, FS_AddElement
<1>3. S2 \in SUBSET (S \cup {x}) /\ T2 \in SUBSET (T \cup {y}) /\ T \in SUBSET T2
    BY <1>p, Zenon
<1>4. IsFiniteSet(S2) /\ Cardinality(S2) <= Cardinality(S \cup {x})
    BY <1>1, <1>3, FS_Subset
<1>5. IsFiniteSet(T2)
    BY <1>2, <1>3, FS_Subset
<1>6. Cardinality(T) <= Cardinality(T2)
    BY <1>3, <1>5, FS_Subset
<1>n. /\ Cardinality(S) \in Nat /\ Cardinality(T) \in Nat
      /\ Cardinality(S2) \in Nat /\ Cardinality(T2) \in Nat
    BY <1>c, <1>4, <1>5, FS_CardinalityType
<1>7. CASE S2 \subseteq S
    <2>1. S2 \in SUBSET S
        BY <1>7, Zenon
    <2>2. Cardinality(S2) <= Cardinality(S)
        BY <2>1, <1>c, FS_Subset
    <2>. QED
        BY <2>2, <1>c, <1>4, <1>5, <1>6, <1>n DEF Covered
<1>8. CASE y \in T2 \ T
    <2>1. T2 = T \cup {y} /\ y \notin T
        BY <1>8, <1>3, Zenon
    <2>2. Cardinality(T2) = Cardinality(T) + 1
        BY <2>1, <1>2, Zenon
    <2>. QED
        BY <2>2, <1>c, <1>1, <1>4, <1>5, <1>n DEF Covered
<1>. QED
    BY <1>7, <1>8, <1>p, Zenon

\* What a step of e owes for the compiler it leaves.
Pays(e) ==
    /\ e \in Blamed => e \in Blamed'
    /\ \/ compilers' \subseteq compilers
       \/ compilers' \subseteq compilers \cup {cid'[e]} /\ e \in Building'
    /\ e \in Building => cid[e] \notin compilers' \/ e \in Blamed' \ Blamed

\* An execution outside of the build step and the steps after it has nothing to do
\* with any compiler.
LEMMA NoCompiler ==
    ASSUME Inv, NEW e \in Executions,
           pc[e] \notin {"build", "tidy", "cleanup", "ended"}
    PROVE  e \notin Blamed /\ e \notin Building
BY Zenon DEF Inv, OwnTypes, Local, FineAt, Fine, Blamed, Slow, Building

\* Before the build and in raw mode there is no compiler to pay for.
LEMMA PreparesPays ==
    ASSUME Inv, NEW e \in Executions, Prepares(e) \/ RunsRaw(e)
    PROVE  Pays(e)
<1>1. CASE Prepares(e)
    <2>1. pc[e] \in {"idle", "acquire", "permit", "start", "hung"} /\ UNCHANGED compilers
        BY <1>1, Zenon DEF Prepares, Begin, NoSandboxRoot, AcquireRaises, AcquireWarm,
           AcquireMiss, RunPermit, NoRunPermit, Start, StartFails, StartHangs, StartTimeout,
           hostVars
    <2>. QED
        BY <2>1, NoCompiler DEF Pays
<1>2. CASE RunsRaw(e)
    <2>1. pc[e] \in {"idle", "raw", "wait"} /\ UNCHANGED compilers
        BY <1>2, Zenon DEF RunsRaw, RawBegin, RawFails, RawRun, Communicate, RawTimeout, RawEnd,
           hostVars
    <2>. QED
        BY <2>1, NoCompiler DEF Pays
<1>. QED
    BY <1>1, <1>2, Zenon

\* The compiler runs from the permit on and ends with the build, or the build is too slow.
LEMMA BuildsPays ==
    ASSUME Inv, NEW e \in Executions, Builds(e)
    PROVE  Pays(e)
<1>t. OwnTypes /\ FineAt(e)
    BY Zenon DEF Inv, Local
<1>1. CASE Wrap(e) \/ NoCompilePermit(e)
    <2>1. pc[e] \in {"wrap", "cpermit"} /\ UNCHANGED compilers
        BY <1>1, Zenon DEF Wrap, NoCompilePermit, hostVars
    <2>. QED
        BY <2>1, NoCompiler DEF Pays
<1>2. CASE CompilePermit(e)
    <2>1. e \notin Blamed /\ e \notin Building
        BY <1>2, NoCompiler DEF CompilePermit
    <2>2. e \in Building' /\ compilers' = compilers \cup {cid'[e]}
        BY <1>2, <1>t, Zenon DEF OwnTypes, CompilePermit, Goto, Building
    <2>. QED
        BY <2>1, <2>2, Zenon DEF Pays
<1>3. ASSUME pc[e] = "build"
      PROVE  e \notin Blamed
    BY <1>3, <1>t DEF FineAt, Fine, Blamed, Slow, Building
<1>4. CASE Built(e) \/ BuildFails(e)
    <2>1. pc[e] = "build" /\ compilers' = compilers \ {cid[e]}
        BY <1>4, Zenon DEF Built, BuildFails
    <2>. QED
        BY <2>1, <1>3 DEF Pays
<1>5. CASE BuildTimeout(e)
    <2>1. pc[e] = "build" /\ UNCHANGED compilers
        BY <1>5, Zenon DEF BuildTimeout, hostVars
    <2>2. e \in Building => e \in Blamed'
        BY <1>5, <1>t DEF OwnTypes, BuildTimeout, BuildExit, ExitRaises, Exit, CompileError,
           Conclude, Building, Blamed, Slow
    <2>. QED
        BY <2>1, <2>2, <1>3, Zenon DEF Pays
<1>. QED
    BY <1>1, <1>2, <1>4, <1>5, Zenon DEF Builds

\* After the build no compiler is started, and a slow one stays on its execution's account.
LEMMA ClosesPays ==
    ASSUME Inv, NEW e \in Executions, Closes(e)
    PROVE  Pays(e)
<1>t. OwnTypes /\ FineAt(e)
    BY Zenon DEF Inv, Local
<1>1. pc[e] \in {"tidy", "run", "cleanup"} /\ compilers' \subseteq compilers
    BY Zenon DEF Closes, Tidy, TidyRaises, Run, Cleanup, CleanupRaises, Release, ReleaseRaises, hostVars
<1>2. e \notin Building
    BY <1>1 DEF Building
<1>3. CASE Run(e)
    <2>1. pc[e] = "run"
        BY <1>3, Zenon DEF Run
    <2>. QED
        BY <2>1, <1>1, NoCompiler DEF Pays
<1>4. CASE Tidy(e)
    <2>1. e \in Blamed => e \in Blamed'
        BY <1>4, <1>t DEF OwnTypes, FineAt, Fine, Tidy, BuildExit, ExitRaises, Exit, Conclude,
           Blamed, Slow, Building
    <2>. QED
        BY <2>1, <1>1, <1>2, Zenon DEF Pays
<1>5. CASE TidyRaises(e) \/ Cleanup(e) \/ CleanupRaises(e)
    <2>1. e \in Blamed => e \in Blamed'
        BY <1>5, <1>t, Zenon DEF OwnTypes, TidyRaises, Cleanup, CleanupRaises, End, Conclude,
           Blamed, Slow, Building, permitVars
    <2>. QED
        BY <2>1, <1>1, <1>2, Zenon DEF Pays
<1>. QED
    BY <1>3, <1>4, <1>5, Zenon DEF Closes

\* A step of one execution that pays keeps the account of all.
LEMMA ChargedByMove ==
    ASSUME Inv, Inv', Charged, NEW e \in Executions, Untouched(e), Pays(e)
    PROVE  Charged'
<1>t. OwnTypes /\ OwnTypes'
    BY Zenon DEF Inv
<1>1. Blamed \subseteq Blamed' /\ Blamed' \subseteq Blamed \cup {e}
    BY <1>t DEF OwnTypes, Untouched, Pays, Blamed, Slow, Building
<1>2. \A f \in Building \ {e} : f \in Building' /\ cid'[f] = cid[f]
    BY <1>t, Zenon DEF OwnTypes, Untouched, Building
<1>3. ASSUME NEW x \in Stray'
      PROVE  x \in Stray \/ (x = cid[e] /\ e \in Blamed' \ Blamed)
    <2>1. x \in compilers' /\ x \notin Compiling'
        BY <1>3, Zenon DEF Stray
    <2>2. x \in compilers
        BY <2>1 DEF Pays, Compiling
    <2>3. ASSUME NEW f \in Building, x = cid[f]
          PROVE  x = cid[e] /\ e \in Blamed' \ Blamed
        <3>1. f = e
            BY <2>1, <2>3, <1>2 DEF Compiling
        <3>. QED
            BY <3>1, <2>1, <2>3, Zenon DEF Pays
    <2>. QED
        BY <2>2, <2>3 DEF Stray, Compiling
<1>4. Stray' \subseteq Stray \cup {cid[e]} /\ (Stray' \subseteq Stray \/ e \in Blamed' \ Blamed)
    BY <1>3, Zenon
<1>5. Paid(Stray, Blamed, Stray', Blamed', cid[e], e)
    BY <1>1, <1>4, Zenon DEF Paid
<1>. QED
    BY <1>5, Charge, Zenon DEF Charged

\* So does a step of no execution: compilers only end.
LEMMA ChargedQuietly ==
    ASSUME Charged, UNCHANGED <<ownVars, permitVars>>, compilers' \subseteq compilers
    PROVE  Charged'
<1>1. Blamed' = Blamed /\ Compiling' = Compiling
    BY Zenon DEF Blamed, Slow, Compiling, Building, ownVars, permitVars
<1>2. Paid(Stray, Blamed, Stray', Blamed', None, None)
    BY <1>1, Zenon DEF Paid, Stray
<1>. QED
    BY <1>2, Charge, Zenon DEF Charged

\* Every step keeps the account.
LEMMA ChargedStep == Inv /\ Charged /\ [Next]_vars => Charged'
<1> SUFFICES ASSUME Inv, Charged, [Next]_vars
             PROVE  Charged'
    OBVIOUS
<1>1. ASSUME NEW e \in Executions, Moves(e)
      PROVE  Charged'
    <2>1. Inv' /\ Untouched(e)
        BY <1>1, PreparesKeeps, BuildsKeeps, ClosesKeeps, RunsRawKeeps, Zenon DEF Moves
    <2>2. Pays(e)
        BY <1>1, PreparesPays, BuildsPays, ClosesPays, Zenon DEF Moves
    <2>. QED
        BY <2>1, <2>2, ChargedByMove, Zenon
<1>2. ASSUME NEW e \in Executions, AcquireDiscard(e) \/ Daemon(e) \/ DaemonRefuses(e)
      PROVE  Charged'
    <2>1. UNCHANGED <<ownVars, permitVars>> /\ compilers' \subseteq compilers
        BY <1>2, Zenon DEF AcquireDiscard, Daemon, DaemonRefuses, hostVars
    <2>. QED
        BY <2>1, ChargedQuietly, Zenon
<1>3. ASSUME NEW e \in Executions, Step(e) \/ JudgeFault(e) \/ RawFault(e)
      PROVE  Charged'
    BY <1>1, <1>2, <1>3, StepCases, Zenon
<1>4. ASSUME NEW c \in Containers, CompilerEnds(c) \/ Die(c)
      PROVE  Charged'
    <2>1. UNCHANGED <<ownVars, permitVars>> /\ compilers' \subseteq compilers
        BY <1>4, Zenon DEF CompilerEnds, Die
    <2>. QED
        BY <2>1, ChargedQuietly, Zenon
<1>5. ASSUME UNCHANGED <<ownVars, hostVars, permitVars>> \/ UNCHANGED vars
      PROVE  Charged'
    <2>1. UNCHANGED <<ownVars, permitVars>> /\ compilers' \subseteq compilers
        BY <1>5, Zenon DEF vars, hostVars
    <2>. QED
        BY <2>1, ChargedQuietly, Zenon
<1>. QED
    BY <1>3, <1>4, <1>5, Zenon DEF Next, Finished

\* The account holds in every reachable state.
LEMMA ChargedInvariant == Spec => []Charged
<1>1. Init => Charged
    <2>1. Init => Stray = {} /\ Blamed = {}
        BY DEF Init, Stray, Blamed, Slow, Compiling, Building
    <2>. QED
        BY <2>1, FS_EmptySet DEF Charged, Covered
<1>. QED
    BY <1>1, ChargedStep, InvInvariant, PTL DEF Spec

\* Compilers: there are never more of them than permits held and builds given up as too
\* slow, so compile_semaphore bounds the load but for what its time limit leaves behind.
THEOREM CompilersCounted == Spec => []CompilersExplained
<1>1. ASSUME Bounded, Charged
      PROVE  CompilersExplained
    <2>1. Building \in SUBSET compHeld /\ Slow \in SUBSET Blamed
        BY Zenon DEF Building, Blamed
    <2>2. IsFiniteSet(Building) /\ IsFiniteSet(Slow) /\ IsFiniteSet(compHeld)
        BY <1>1, <2>1, FS_Subset DEF Bounded, Charged, Covered
    <2>3. IsFiniteSet(Compiling) /\ Cardinality(Compiling) <= Cardinality(Building)
        <3> DEFINE container == [e \in Building |-> cid[e]]
        <3>1. container \in Surjection(Building, Compiling)
            BY DEF Surjection, Compiling
        <3>. QED
            BY <3>1, <2>2, FS_Surjection
    <2>4. compilers \in SUBSET (Stray \cup Compiling)
        BY Zenon DEF Stray
    <2>5. /\ IsFiniteSet(Stray \cup Compiling)
          /\ Cardinality(Stray \cup Compiling) =
                Cardinality(Stray) + Cardinality(Compiling) - Cardinality(Stray \cap Compiling)
        BY <1>1, <2>3, FS_Union DEF Charged, Covered
    <2>6. IsFiniteSet(compilers) /\ Cardinality(compilers) <= Cardinality(Stray \cup Compiling)
        BY <2>4, <2>5, FS_Subset
    <2>7. /\ IsFiniteSet(compHeld \ Building)
          /\ Cardinality(compHeld \ Building) =
                Cardinality(compHeld) - Cardinality(compHeld \cap Building)
        BY <2>2, FS_Difference
    <2>8. Cardinality(compHeld \ Building) = Cardinality(compHeld) - Cardinality(Building)
        <3>1. compHeld \cap Building = Building
            BY <2>1, Zenon
        <3>. QED
            BY <3>1, <2>7, Zenon
    <2>9. Cardinality(Blamed) = Cardinality(Slow) + Cardinality(compHeld \ Building)
                                   - Cardinality(Slow \cap (compHeld \ Building))
        BY <2>2, <2>7, FS_Union DEF Blamed
    <2>10. IsFiniteSet(Stray \cap Compiling) /\ IsFiniteSet(Slow \cap (compHeld \ Building))
        BY <2>2, <2>3, FS_Intersection, Zenon
    <2>11. /\ Cardinality(Stray) \in Nat /\ Cardinality(Compiling) \in Nat
           /\ Cardinality(Building) \in Nat /\ Cardinality(Slow) \in Nat
           /\ Cardinality(compHeld) \in Nat /\ Cardinality(compilers) \in Nat
           /\ Cardinality(Stray \cap Compiling) \in Nat
           /\ Cardinality(Slow \cap (compHeld \ Building)) \in Nat
        BY <1>1, <2>2, <2>3, <2>6, <2>10, FS_CardinalityType DEF Charged, Covered
    <2>12. Cardinality(compilers) <= Cardinality(compHeld) + Cardinality(Slow)
        <3>1. Cardinality(compilers) <= Cardinality(Stray) + Cardinality(Compiling)
            BY <2>5, <2>6, <2>11
        <3>2. Cardinality(Blamed) <= Cardinality(Slow) + Cardinality(compHeld) - Cardinality(Building)
            BY <2>8, <2>9, <2>11
        <3>3. Cardinality(Stray) <= Cardinality(Blamed) /\ Cardinality(Blamed) \in Nat
            BY <1>1, FS_CardinalityType DEF Charged, Covered
        <3>. QED
            BY <3>1, <3>2, <3>3, <2>3, <2>11
    <2>. QED
        BY <2>12, Zenon DEF CompilersExplained, Slow
<1>. QED
    BY <1>1, BoundedInvariant, ChargedInvariant, PTL

-----------------------------------------------------------------------------
(* What is left behind. *)

\* Containers and directories that are neither pooled nor an execution's, and the
\* executions that left one.
Left == (alive \cup dirs) \ (idle \cup {tmp[e] : e \in Executions})
Lost == {e \in failed : tmp[e] = None}
Leaks == Covered(Left, Lost)

\* The container of a raw execution is the daemon's, and only what was made runs.
Apart ==
    /\ \A c \in alive : image[c] # "none"
    /\ \A e \in Executions : pc[e] \in {"raw", "wait"} => tmp[e] \notin alive

\* What a step of e does to the containers: it takes some for e, gives e's own back,
\* or loses it and is among failed.
Settles(e) ==
    /\ e \in Lost => e \in Lost'
    /\ alive' \cup dirs' \subseteq alive \cup dirs \cup {tmp'[e]}
    /\ idle \subseteq idle' \cup {tmp'[e]}
    /\ \/ tmp'[e] = tmp[e]
       \/ tmp[e] = None
       \/ tmp[e] \notin (alive' \cup dirs') \ idle'
       \/ e \in Lost' \ Lost

\* A new container is of its execution; if the cold start fails, the execution is lost.
LEMMA PreparesSettles ==
    ASSUME Inv, NEW e \in Executions, Prepares(e)
    PROVE  Settles(e)
<1>t. OwnTypes /\ FineAt(e) /\ Owned
    BY Zenon DEF Inv, Local
<1>0. e \notin Lost
    <2>1. pc[e] \in {"idle", "acquire", "permit", "start", "hung"}
        BY Zenon DEF Prepares, Begin, NoSandboxRoot, AcquireRaises, AcquireWarm, AcquireMiss,
           RunPermit, NoRunPermit, Start, StartFails, StartHangs, StartTimeout
    <2>. QED
        BY <2>1, <1>t, Zenon DEF FineAt, Fine, Lost
<1>1. CASE AcquireWarm(e)
    BY <1>1, <1>0, <1>t, Zenon DEF OwnTypes, FineAt, Fine, AcquireWarm, Settles
<1>2. CASE AcquireMiss(e)
    BY <1>2, <1>0, <1>t, Zenon DEF OwnTypes, FineAt, Fine, AcquireMiss, Settles
<1>3. CASE Start(e) \/ StartTimeout(e)
    <2>1. /\ UNCHANGED <<tmp, idle, dirs>> /\ alive' \subseteq alive \cup {tmp[e]}
        BY <1>3, Zenon DEF Start, StartTimeout
    <2>. QED
        BY <2>1, <1>0 DEF Settles
<1>4. CASE UNCHANGED <<tmp, hostVars>>
    BY <1>4, <1>0, Zenon DEF Settles, hostVars
<1>. QED
    BY <1>1, <1>2, <1>3, <1>4, Zenon DEF Prepares, Begin, NoSandboxRoot, AcquireRaises,
       RunPermit, NoRunPermit, StartFails, StartHangs

\* A build makes and leaves nothing.
LEMMA BuildsSettles ==
    ASSUME Inv, NEW e \in Executions, Builds(e)
    PROVE  Settles(e)
<1>1. e \notin Lost
    <2>1. pc[e] \in {"wrap", "cpermit", "build"}
        BY Zenon DEF Builds, Wrap, CompilePermit, NoCompilePermit, Built, BuildFails, BuildTimeout
    <2>. QED
        BY <2>1, Zenon DEF Inv, Local, FineAt, Fine, Lost
<1>2. UNCHANGED <<tmp, idle, alive, dirs>>
    BY Zenon DEF Builds, Wrap, CompilePermit, NoCompilePermit, Built, BuildFails, BuildTimeout,
       hostVars
<1>. QED
    BY <1>1, <1>2, Zenon DEF Settles

\* Cleanup gives the container back or removes it; if the release raises, the execution is lost.
LEMMA ClosesSettles ==
    ASSUME Inv, NEW e \in Executions, Closes(e)
    PROVE  Settles(e)
<1>t. /\ OwnTypes /\ FineAt(e)
      /\ tmp[e] # None => tmp[e] \in dirs \ idle
    BY Zenon DEF Inv, Local, Owned
<1>c. ASSUME cid[e] # None
      PROVE  cid[e] = tmp[e] /\ e \notin Lost
    BY <1>c, <1>t, Zenon DEF FineAt, Fine, Lost
<1>1. CASE Run(e)
    <2>1. UNCHANGED <<tmp, idle, alive, dirs, failed>>
        BY <1>1, Zenon DEF Run, hostVars
    <2>. QED
        BY <2>1, Zenon DEF Settles, Lost
<1>2. ASSUME cid[e] # None, Release(cid[e]), tmp' = [tmp EXCEPT ![e] = None]
      PROVE  Settles(e)
    BY <1>2, <1>t, <1>c, Zenon DEF OwnTypes, Release, Settles
<1>3. ASSUME cid[e] # None, ReleaseRaises(cid[e]), tmp' = [tmp EXCEPT ![e] = None],
             failed' = failed \cup {e}
      PROVE  Settles(e)
    BY <1>3, <1>t, <1>c, Zenon DEF OwnTypes, ReleaseRaises, Settles, Lost
<1>4. CASE Tidy(e)
    <2>1. cid[e] # None
        BY <1>4, <1>t, NoneIsNot DEF OwnTypes, Tidy
    <2>. QED
        BY <2>1, <1>4, <1>2, Zenon DEF Tidy, Forget
<1>5. CASE TidyRaises(e)
    <2>1. cid[e] # None
        BY <1>5, <1>t, NoneIsNot DEF OwnTypes, TidyRaises
    <2>. QED
        BY <2>1, <1>5, <1>3, Zenon DEF TidyRaises, Forget
<1>6. CASE Cleanup(e)
    <2>1. CASE cid[e] = None
        <3>1. tmp[e] # None => e \in failed
            BY <2>1, <1>6, <1>t, Zenon DEF FineAt, Fine, Cleanup
        <3>2. UNCHANGED <<idle, alive, dirs, failed>> /\ tmp' = [tmp EXCEPT ![e] = None]
            BY <2>1, <1>6, Zenon DEF Cleanup, End
        <3>. QED
            BY <3>1, <3>2, <1>t, Zenon DEF OwnTypes, Settles, Lost
    <2>2. CASE cid[e] # None
        BY <2>2, <1>6, <1>2, Zenon DEF Cleanup, End
    <2>. QED
        BY <2>1, <2>2, Zenon
<1>7. CASE CleanupRaises(e)
    BY <1>7, <1>3, Zenon DEF CleanupRaises, End
<1>. QED
    BY <1>1, <1>4, <1>5, <1>6, <1>7, Zenon DEF Closes

\* Raw mode removes the directory on every way out but a failing set-up.
LEMMA RunsRawSettles ==
    ASSUME Inv, Apart, NEW e \in Executions, RunsRaw(e)
    PROVE  Settles(e)
<1>t. /\ OwnTypes /\ FineAt(e)
      /\ tmp[e] # None => tmp[e] \in dirs \ idle
    BY Zenon DEF Inv, Local, Owned
<1>0. pc[e] \in {"idle", "raw", "wait"} /\ e \notin Lost
    <2>1. pc[e] \in {"idle", "raw", "wait"}
        BY Zenon DEF RunsRaw, RawBegin, RawFails, RawRun, Communicate, RawTimeout
    <2>. QED
        BY <2>1, <1>t, Zenon DEF FineAt, Fine, Lost
<1>1. CASE RawBegin(e)
    BY <1>1, <1>0, <1>t DEF OwnTypes, FineAt, Fine, RawBegin, Settles
<1>2. CASE RawFails(e)
    <2>1. UNCHANGED <<idle, alive, dirs>> /\ tmp' = [tmp EXCEPT ![e] = None]
        BY <1>2, Zenon DEF RawFails, RawEnd
    <2>2. tmp[e] = None \/ e \in failed'
        BY <1>2, <1>t, Zenon DEF FineAt, Fine, RawFails
    <2>. QED
        BY <2>1, <2>2, <1>0, <1>t, Zenon DEF OwnTypes, Settles, Lost
<1>3. CASE RawRun(e)
    <2>1. UNCHANGED <<tmp, idle, alive, dirs>>
        BY <1>3, Zenon DEF RawRun, hostVars
    <2>. QED
        BY <2>1, <1>0, Zenon DEF Settles
<1>4. CASE Communicate(e) \/ RawTimeout(e)
    <2>1. /\ pc[e] = "wait" /\ tmp' = [tmp EXCEPT ![e] = None]
          /\ UNCHANGED <<idle, alive>> /\ dirs' = dirs \ {tmp[e]}
        BY <1>4, Zenon DEF Communicate, RawTimeout, RawEnd
    <2>2. tmp[e] \notin alive
        BY <2>1, Zenon DEF Apart
    <2>. QED
        BY <2>1, <2>2, <1>0, <1>t DEF OwnTypes, Settles
<1>. QED
    BY <1>1, <1>2, <1>3, <1>4, Zenon DEF RunsRaw

\* A step of one execution that settles keeps the account of all.
LEMMA LeaksByMove ==
    ASSUME Inv, Inv', Leaks, NEW e \in Executions, Untouched(e), Settles(e)
    PROVE  Leaks'
<1>t. OwnTypes /\ OwnTypes' /\ HostTypes /\ Owned
    BY Zenon DEF Inv
<1>1. Lost \subseteq Lost' /\ Lost' \subseteq Lost \cup {e}
    BY <1>t DEF OwnTypes, Untouched, Settles, Lost
<1>2. ASSUME NEW x \in Left'
      PROVE  x \in Left \/ (x = tmp[e] /\ e \in Lost' \ Lost)
    <2>1. x \in (alive' \cup dirs') \ idle' /\ \A f \in Executions : x # tmp'[f]
        BY <1>2 DEF Left
    <2>2. x \in alive \cup dirs /\ x \notin idle
        BY <2>1, Zenon DEF Settles
    <2>3. \A f \in Executions : x = tmp[f] => f = e
        BY <2>1, Zenon DEF Untouched
    <2>4. x = tmp[e] => e \in Lost' \ Lost
        <3>1. x # None
            BY <2>2, <1>t, NoneIsNot DEF HostTypes
        <3>. QED
            BY <3>1, <2>1, Zenon DEF Settles
    <2>. QED
        BY <2>2, <2>3, <2>4 DEF Left
<1>3. Paid(Left, Lost, Left', Lost', tmp[e], e)
    BY <1>1, <1>2, Zenon DEF Paid
<1>. QED
    BY <1>3, Charge, Zenon DEF Leaks

\* So does a step of no execution that adds nothing to what is left.
LEMMA LeaksQuietly ==
    ASSUME Leaks, UNCHANGED <<ownVars, failed>>, Left' \subseteq Left
    PROVE  Leaks'
<1>1. Paid(Left, Lost, Left', Lost', None, None)
    BY Zenon DEF Paid, Lost, ownVars
<1>. QED
    BY <1>1, Charge, Zenon DEF Leaks

\* Only docker run starts a container, and an execution that is at it is not raw.
LEMMA AliveStep ==
    ASSUME NEW e \in Executions, Moves(e)
    PROVE  \/ alive' \subseteq alive
           \/ pc[e] \in {"start", "hung"} /\ alive' \subseteq alive \cup {tmp[e]}
<1>1. CASE Prepares(e)
    BY <1>1, Zenon DEF Prepares, Begin, NoSandboxRoot, AcquireRaises, AcquireWarm, AcquireMiss,
       RunPermit, NoRunPermit, Start, StartFails, StartHangs, StartTimeout, hostVars
<1>2. CASE Builds(e)
    BY <1>2, Zenon DEF Builds, Wrap, CompilePermit, NoCompilePermit, Built, BuildFails,
       BuildTimeout, hostVars
<1>3. CASE Closes(e)
    BY <1>3, Zenon DEF Closes, Tidy, TidyRaises, Run, Cleanup, CleanupRaises, Release,
       ReleaseRaises, hostVars
<1>4. CASE RunsRaw(e)
    BY <1>4, Zenon DEF RunsRaw, RawBegin, RawFails, RawRun, Communicate, RawTimeout, RawEnd,
       hostVars
<1>. QED
    BY <1>1, <1>2, <1>3, <1>4, Zenon DEF Moves

\* The stages of raw mode are entered by its own actions.
LEMMA RawStages ==
    ASSUME OwnTypes, NEW e \in Executions, Moves(e), pc'[e] \in {"raw", "wait"}
    PROVE  RawBegin(e) \/ RawRun(e)
<1>t. pc \in [Executions -> Stages]
    BY Zenon DEF OwnTypes
<1>1. CASE Prepares(e)
    <2>1. ~(Begin(e) \/ NoSandboxRoot(e) \/ AcquireRaises(e) \/ AcquireWarm(e) \/ AcquireMiss(e))
        BY <1>t, Zenon DEF Begin, NoSandboxRoot, AcquireRaises, AcquireWarm, AcquireMiss, Goto, Conclude
    <2>2. ~(RunPermit(e) \/ NoRunPermit(e) \/ StartFails(e) \/ StartHangs(e))
        BY <1>t, Zenon DEF RunPermit, NoRunPermit, StartFails, StartHangs, ExitRaises, Goto, Conclude
    <2>3. ~(Start(e) \/ StartTimeout(e))
        BY <1>t, Zenon DEF Start, StartTimeout, ExitRaises, Goto, Conclude
    <2>. QED
        BY <1>1, <2>1, <2>2, <2>3, Zenon DEF Prepares
<1>2. CASE Builds(e)
    <2>1. ~Wrap(e)
        <3>1. ASSUME Wrap(e)
              PROVE  Prof(e).build \in {"none", "check", "compiler"}
            BY <3>1, RegistryFacts, Zenon DEF OwnTypes, Wrap, Prof
        <3>. QED
            BY <3>1, <1>t, Zenon DEF Wrap, Goto, Conclude
    <2>2. ~(CompilePermit(e) \/ NoCompilePermit(e) \/ Built(e))
        BY <1>t, Zenon DEF CompilePermit, NoCompilePermit, Built, BuildExit, ExitRaises, Goto, Conclude
    <2>3. ~(BuildFails(e) \/ BuildTimeout(e))
        BY <1>t, Zenon DEF BuildFails, BuildTimeout, BuildExit, ExitRaises, CompileError, Conclude
    <2>. QED
        BY <1>2, <2>1, <2>2, <2>3, Zenon DEF Builds
<1>3. CASE Closes(e)
    BY <1>3, <1>t, Zenon DEF Closes, Tidy, TidyRaises, Run, Cleanup, CleanupRaises, BuildExit,
       ExitRaises, End, Conclude
<1>4. CASE RunsRaw(e)
    BY <1>4, <1>t, Zenon DEF RunsRaw, RawFails, Communicate, RawTimeout, RawEnd
<1>. QED
    BY <1>1, <1>2, <1>3, <1>4, Zenon DEF Moves

\* Every step keeps raw directories apart from the containers.
LEMMA ApartStep == Inv /\ Apart /\ [Next]_vars => Apart'
<1> SUFFICES ASSUME Inv, Apart, [Next]_vars
             PROVE  Apart'
    OBVIOUS
<1>t. OwnTypes /\ HostTypes /\ Local /\ Owned
    BY Zenon DEF Inv
<1>1. ASSUME NEW e \in Executions, Moves(e)
      PROVE  Apart'
    <2>1. Untouched(e)
        BY <1>1, PreparesKeeps, BuildsKeeps, ClosesKeeps, RunsRawKeeps, Zenon DEF Moves
    <2>2. \/ alive' \subseteq alive
          \/ pc[e] \in {"start", "hung"} /\ alive' \subseteq alive \cup {tmp[e]}
        BY <1>1, AliveStep, Zenon
    <2>3. ASSUME NEW c \in alive'
          PROVE  image'[c] # "none"
        <3>1. image[c] # "none" /\ c \in Containers
            BY <2>2, <2>3, <1>t, Zenon DEF HostTypes, Owned, Local, FineAt, Fine, Apart
        <3>2. UNCHANGED image \/ AcquireMiss(e) \/ RawBegin(e)
            BY <1>1, ImageKept, Zenon
        <3>. QED
            BY <3>1, <3>2, <1>t, FreshIsNew, Zenon DEF HostTypes, AcquireMiss, RawBegin
    <2>4. ASSUME NEW f \in Executions, pc'[f] \in {"raw", "wait"}
          PROVE  tmp'[f] \notin alive'
        <3>1. CASE f # e
            <4>1. pc[f] \in {"raw", "wait"} /\ tmp'[f] = tmp[f]
                BY <3>1, <2>1, <2>4, Zenon DEF Untouched
            <4>2. tmp[f] # None /\ tmp[f] \notin alive
                BY <4>1, <1>t, Zenon DEF Local, FineAt, Fine, Apart
            <4>3. tmp[f] # tmp[e]
                BY <4>2, <3>1, <1>t, Zenon DEF Owned
            <4>. QED
                BY <4>1, <4>2, <4>3, <2>2, Zenon
        <3>2. CASE f = e
            <4>1. RawBegin(e) \/ RawRun(e)
                BY <3>2, <2>4, <1>1, <1>t, RawStages, Zenon
            <4>2. CASE RawBegin(e)
                BY <4>2, <3>2, <1>t, FreshIsNew DEF OwnTypes, RawBegin, Apart
            <4>3. CASE RawRun(e)
                BY <4>3, <3>2, Zenon DEF RawRun, hostVars, Apart
            <4>. QED
                BY <4>1, <4>2, <4>3, Zenon
        <3>. QED
            BY <3>1, <3>2, Zenon
    <2>. QED
        BY <2>3, <2>4, Zenon DEF Apart
<1>2. ASSUME UNCHANGED <<ownVars, image>>, alive' \subseteq alive
      PROVE  Apart'
    BY <1>2, Zenon DEF Apart, ownVars
<1>3. ASSUME NEW e \in Executions, AcquireDiscard(e) \/ Daemon(e) \/ DaemonRefuses(e)
      PROVE  Apart'
    <2>1. UNCHANGED <<ownVars, image>> /\ alive' \subseteq alive
        BY <1>3, Zenon DEF AcquireDiscard, Daemon, DaemonRefuses, hostVars
    <2>. QED
        BY <2>1, <1>2, Zenon
<1>4. ASSUME NEW e \in Executions, Step(e) \/ JudgeFault(e) \/ RawFault(e)
      PROVE  Apart'
    BY <1>1, <1>3, <1>4, StepCases, Zenon
<1>5. ASSUME NEW c \in Containers, CompilerEnds(c) \/ Die(c)
      PROVE  Apart'
    <2>1. UNCHANGED <<ownVars, image>> /\ alive' \subseteq alive
        BY <1>5, Zenon DEF CompilerEnds, Die
    <2>. QED
        BY <2>1, <1>2, Zenon
<1>6. ASSUME UNCHANGED <<ownVars, hostVars>> \/ UNCHANGED vars
      PROVE  Apart'
    BY <1>6, <1>2, Zenon DEF vars, hostVars
<1>. QED
    BY <1>4, <1>5, <1>6, Zenon DEF Next, Finished

\* Every step keeps the account of what is left.
LEMMA LeaksStep == Inv /\ Apart /\ Leaks /\ [Next]_vars => Leaks'
<1> SUFFICES ASSUME Inv, Apart, Leaks, [Next]_vars
             PROVE  Leaks'
    OBVIOUS
<1>1. ASSUME NEW e \in Executions, Moves(e)
      PROVE  Leaks'
    <2>1. Inv' /\ Untouched(e)
        BY <1>1, PreparesKeeps, BuildsKeeps, ClosesKeeps, RunsRawKeeps, Zenon DEF Moves
    <2>2. Settles(e)
        BY <1>1, PreparesSettles, BuildsSettles, ClosesSettles, RunsRawSettles, Zenon DEF Moves
    <2>. QED
        BY <2>1, <2>2, LeaksByMove, Zenon
<1>2. ASSUME NEW e \in Executions, AcquireDiscard(e)
      PROVE  Leaks'
    <2>1. UNCHANGED <<ownVars, failed>> /\ Left' \subseteq Left
        BY <1>2 DEF AcquireDiscard, Left, ownVars
    <2>. QED
        BY <2>1, LeaksQuietly, Zenon
<1>3. ASSUME UNCHANGED <<ownVars, failed, idle, dirs>>, alive' \subseteq alive
      PROVE  Leaks'
    <2>1. Left' \subseteq Left
        BY <1>3, Zenon DEF Left, ownVars
    <2>. QED
        BY <1>3, <2>1, LeaksQuietly, Zenon
<1>4. ASSUME NEW e \in Executions, Step(e) \/ JudgeFault(e) \/ RawFault(e)
      PROVE  Leaks'
    <2>1. CASE Daemon(e) \/ DaemonRefuses(e)
        BY <2>1, <1>3, Zenon DEF Daemon, DaemonRefuses, hostVars
    <2>. QED
        BY <1>1, <1>2, <2>1, <1>4, StepCases, Zenon
<1>5. ASSUME NEW c \in Containers, CompilerEnds(c) \/ Die(c)
      PROVE  Leaks'
    BY <1>3, <1>5, Zenon DEF CompilerEnds, Die
<1>6. ASSUME UNCHANGED <<ownVars, hostVars, failed>> \/ UNCHANGED vars
      PROVE  Leaks'
    BY <1>3, <1>6, Zenon DEF vars, hostVars
<1>. QED
    BY <1>4, <1>5, <1>6, Zenon DEF Next, Finished

\* Nothing is left: when all executions are over, what still runs and every directory
\* that still exists is of a container in the pool, but for one container for each
\* execution of which the cold start, the release or the raw set-up failed.
THEOREM NothingLeftBehind == Spec => []NothingLeft
<1>1. Init => Apart /\ Leaks
    <2>1. Init => Apart /\ Left = {} /\ Lost = {}
        BY DEF Init, Apart, Left, Lost
    <2>. QED
        BY <2>1, FS_EmptySet DEF Leaks, Covered
<1>2. Inv /\ (Apart /\ Leaks) /\ [Next]_vars => (Apart /\ Leaks)'
    BY ApartStep, LeaksStep, Zenon
<1>3. ASSUME Inv, Leaks, \A e \in Executions : pc[e] = "ended"
      PROVE  Cardinality((alive \cup dirs) \ (idle \cap dirs)) <= Cardinality(failed)
    <2>1. \A e \in Executions : tmp[e] = None
        BY <1>3 DEF Inv, Local, FineAt, Fine
    <2>2. Lost = failed
        BY <1>3, <2>1, Zenon DEF Inv, OwnTypes, Lost
    <2>3. (alive \cup dirs) \ (idle \cap dirs) = Left
        BY <1>3, <2>1, NoneIsNot DEF Inv, HostTypes, Owned, Left
    <2>. QED
        BY <1>3, <2>2, <2>3, Zenon DEF Leaks, Covered
<1>4. Inv /\ Leaks => NothingLeft
    BY <1>3, Zenon DEF NothingLeft
<1>. QED
    BY <1>1, <1>2, <1>4, InvInvariant, PTL DEF Spec
=============================================================================
