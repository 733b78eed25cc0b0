------------------------- MODULE ExecutionInvariant -------------------------
(***************************************************************************)
(* Proofs about Execution, for every set of executions, languages and      *)
(* containers, every limit and every number of faults: the invariant Inv,  *)
(* which says of each execution what it holds at each stage (Local) and of *)
(* the containers whose they are (Owned), that every step keeps it, and    *)
(* what follows from it alone.                                             *)
(***************************************************************************)
EXTENDS Execution, TLAPS

\* What can be said of one execution by itself: its stage p, its container_id c and
\* temp_dir t, its verdict v and the cause w, and whether it is among runHeld,
\* compHeld and failed.
Fine(p, c, t, v, w, run, comp, f) ==
    /\ p \in {"idle", "acquire", "permit", "start", "hung", "raw", "wait", "ended"} => c = None
    /\ p \in {"idle", "acquire", "ended"} => t = None
    /\ p \in {"permit", "start", "hung", "raw", "wait"} => t # None
    /\ c \in {None, t}
    /\ run => p \in {"start", "hung"} \/ f
    /\ comp => p \in {"build", "tidy"} \/ f
    /\ f => p \in {"cleanup", "ended"}
    /\ p = "cleanup" /\ c = None /\ t # None => f
    /\ v \in {"compilation_error", "rejected"} => w # "sandbox"
    /\ p = "tidy" => w \in {"user", "death", "slow"}
    /\ p = "tidy" /\ comp => w = "slow"
    /\ p \notin {"tidy", "cleanup", "ended"} => w = "none"

FineAt(e) ==
    Fine(pc[e], cid[e], tmp[e], verdict[e], cause[e], e \in runHeld, e \in compHeld, e \in failed)

Local == \A e \in Executions : FineAt(e)

\* The parts of TypeOK: the executors, the containers, the rest.
OwnTypes ==
    /\ pc \in [Executions -> Stages]
    /\ lang \in [Executions -> Languages \cup {None}]
    /\ \A e \in Executions : pc[e] \notin {"idle", "raw", "wait", "ended"} => lang[e] \in Languages
    /\ cid \in [Executions -> Containers \cup {None}]
    /\ \A e \in Executions :
          pc[e] \in {"wrap", "cpermit", "build", "tidy", "run"} => cid[e] \in Containers
    /\ tmp \in [Executions -> Containers \cup {None}]
    /\ verdict \in [Executions -> {"none", "accepted", "rejected", "compilation_error",
                                   "error", "raised", "exited", "refused", "timeout"}]
    /\ cause \in [Executions -> {"none", "user", "slow", "death", "sandbox"}]
    /\ runHeld \in SUBSET Executions
    /\ compHeld \in SUBSET Executions
    /\ failed \in SUBSET Executions
    /\ faults \in 0..MaxFaults

HostTypes ==
    /\ image \in [Containers -> {"none", "raw"} \cup {Registry[l].image : l \in Languages}]
    /\ idle \in SUBSET Containers
    /\ alive \in SUBSET Containers
    /\ dirs \in SUBSET Containers
    /\ compilers \in SUBSET Containers

EnvTypes ==
    /\ redis \in {"up", "down"}
    /\ deployed \in {None} \cup Rebuilt
    /\ old \in SUBSET Containers
    /\ known \in {"none", "old", "new"}
    /\ program \in [Executions -> {"none", "asked", "running", "exited", "refused"}]

\* The three parts are all of TypeOK.
LEMMA TypeParts == TypeOK <=> OwnTypes /\ HostTypes /\ EnvTypes
BY Zenon DEF TypeOK, OwnTypes, HostTypes, EnvTypes

\* What the registry of the executors says of every language.
LEMMA RegistryFacts ==
    ASSUME NEW l \in Languages
    PROVE  /\ Registry[l].image \notin {"none", "raw"}
           /\ Registry[l].build \in {"none", "check", "compiler"}
BY LanguagesAssumption DEF Registry, Python, JavaScript, TypeScript, Java, Kotlin, CSharp, Cpp, C, Go, Rust

\* A temp_dir is one execution's, or it is that of a container in the pool, and only
\* what was made has one.
Owned ==
    /\ \A e \in Executions : tmp[e] # None => tmp[e] \in dirs \ idle
    /\ \A e, f \in Executions : tmp[e] # None /\ tmp[e] = tmp[f] => e = f
    /\ idle \subseteq dirs
    /\ \A c \in dirs : image[c] # "none"

Inv == OwnTypes /\ HostTypes /\ Local /\ Owned

\* The actions that change the executor of e, by the part of execute() they are in.
Prepares(e) ==
    \/ Begin(e) \/ NoSandboxRoot(e) \/ AcquireRaises(e) \/ AcquireWarm(e) \/ AcquireMiss(e)
    \/ RunPermit(e) \/ NoRunPermit(e)
    \/ Start(e) \/ StartFails(e) \/ StartHangs(e) \/ StartTimeout(e)

Builds(e) ==
    \/ Wrap(e) \/ CompilePermit(e) \/ NoCompilePermit(e)
    \/ Built(e) \/ BuildFails(e) \/ BuildTimeout(e)

Closes(e) == Tidy(e) \/ TidyRaises(e) \/ Run(e) \/ Cleanup(e) \/ CleanupRaises(e)

RunsRaw(e) == RawBegin(e) \/ RawFails(e) \/ RawRun(e) \/ Communicate(e) \/ RawTimeout(e)

Moves(e) == Prepares(e) \/ Builds(e) \/ Closes(e) \/ RunsRaw(e)

\* A step of e changes nothing of the other executions.
Untouched(e) ==
    \A f \in Executions \ {e} :
        /\ pc'[f] = pc[f]
        /\ cid'[f] = cid[f]
        /\ tmp'[f] = tmp[f]
        /\ verdict'[f] = verdict[f]
        /\ cause'[f] = cause[f]
        /\ (f \in runHeld') = (f \in runHeld)
        /\ (f \in compHeld') = (f \in compHeld)
        /\ (f \in failed') = (f \in failed)

\* Python's None is no container.
LEMMA NoneIsNot == None \notin Containers
BY NoneAssumption, Zenon

\* mkdtemp: a directory that was never there.
LEMMA FreshIsNew ==
    ASSUME NEW c \in Fresh
    PROVE  c \in Containers /\ image[c] = "none"
BY Zenon DEF Fresh

\* What Inv needs of a step of e: Fine for e, and the parts that executions share.
LEMMA OthersFine ==
    ASSUME Local, NEW e \in Executions, Untouched(e), FineAt(e)', OwnTypes', HostTypes', Owned'
    PROVE  Inv' /\ Untouched(e)
<1>1. \A f \in Executions \ {e} : FineAt(f)' = FineAt(f)
    BY Zenon DEF Untouched, FineAt
<1>. QED
    BY <1>1, Zenon DEF Inv, Local

\* An execution that forgets its temp_dir, with the container in the pool, removed,
\* or left where it is, disturbs no other.
LEMMA GivenBack ==
    ASSUME Owned, NEW e \in Executions, tmp \in [Executions -> Containers \cup {None}],
           tmp' = [tmp EXCEPT ![e] = None], image' = image,
           idle' \subseteq idle \cup {tmp[e]}, idle' \subseteq dirs',
           dirs' \subseteq dirs, dirs \subseteq dirs' \cup {tmp[e]}
    PROVE  Owned'
BY DEF Owned

\* compile() up to the started container: who owns what, with the permit, whatever fails.
LEMMA PreparesKeeps ==
    ASSUME Inv, NEW e \in Executions, Prepares(e)
    PROVE  Inv' /\ Untouched(e)
<1>t. OwnTypes /\ HostTypes /\ Local /\ Owned
    BY Zenon DEF Inv
<1>1. CASE Begin(e)
    <2>1. OwnTypes'
        BY <1>1, <1>t DEF OwnTypes, Begin, Goto, Conclude, Stages, permitVars
    <2>2. FineAt(e)'
        BY <1>1, <1>t DEF OwnTypes, Local, FineAt, Fine, Begin, Goto, Conclude, permitVars
    <2>3. Untouched(e)
        BY <1>1, <1>t DEF OwnTypes, Untouched, Begin, Goto, Conclude, permitVars
    <2>4. HostTypes' /\ Owned'
        BY <1>1, <1>t, Zenon DEF HostTypes, Owned, Begin, hostVars
    <2>. QED
        BY <1>t, <2>1, <2>2, <2>3, <2>4, OthersFine
<1>2. CASE NoSandboxRoot(e)
    <2>1. OwnTypes'
        BY <1>2, <1>t, FaultAssumption DEF OwnTypes, NoSandboxRoot, Conclude, Stages, permitVars, Fault
    <2>2. FineAt(e)'
        BY <1>2, <1>t, Zenon DEF OwnTypes, Local, FineAt, Fine, NoSandboxRoot, Conclude, permitVars
    <2>3. Untouched(e)
        BY <1>2, <1>t, Zenon DEF OwnTypes, Untouched, NoSandboxRoot, Conclude, permitVars
    <2>4. HostTypes' /\ Owned'
        BY <1>2, <1>t, Zenon DEF HostTypes, Owned, NoSandboxRoot, hostVars
    <2>. QED
        BY <1>t, <2>1, <2>2, <2>3, <2>4, OthersFine
<1>3. CASE AcquireRaises(e)
    <2>1. OwnTypes'
        BY <1>3, <1>t, Zenon DEF OwnTypes, AcquireRaises, Conclude, Stages, permitVars
    <2>2. FineAt(e)'
        BY <1>3, <1>t, Zenon DEF OwnTypes, Local, FineAt, Fine, AcquireRaises, Conclude, permitVars
    <2>3. Untouched(e)
        BY <1>3, <1>t, Zenon DEF OwnTypes, Untouched, AcquireRaises, Conclude, permitVars
    <2>4. HostTypes' /\ Owned'
        BY <1>3, <1>t, Zenon DEF HostTypes, Owned, AcquireRaises, hostVars
    <2>. QED
        BY <1>t, <2>1, <2>2, <2>3, <2>4, OthersFine
<1>4. CASE AcquireWarm(e)
    <2>1. OwnTypes'
        BY <1>4, <1>t DEF OwnTypes, HostTypes, AcquireWarm, Goto, IdleOf, Stages, permitVars
    <2>2. FineAt(e)'
        BY <1>4, <1>t, NoneIsNot DEF OwnTypes, Local, FineAt, Fine, AcquireWarm, Goto, IdleOf, permitVars
    <2>3. Untouched(e)
        BY <1>4, <1>t DEF OwnTypes, Untouched, AcquireWarm, Goto, IdleOf, permitVars
    <2>4. HostTypes'
        BY <1>4, <1>t, Zenon DEF HostTypes, AcquireWarm
    <2>5. Owned'
        BY <1>4, <1>t DEF OwnTypes, Owned, AcquireWarm, IdleOf
    <2>. QED
        BY <1>t, <2>1, <2>2, <2>3, <2>4, <2>5, OthersFine
<1>5. CASE AcquireMiss(e)
    <2>1. OwnTypes'
        BY <1>5, <1>t, FreshIsNew DEF OwnTypes, AcquireMiss, Goto, Stages, permitVars
    <2>2. FineAt(e)'
        BY <1>5, <1>t, FreshIsNew, NoneIsNot DEF OwnTypes, Local, FineAt, Fine, AcquireMiss, Goto, permitVars
    <2>3. Untouched(e)
        BY <1>5, <1>t DEF OwnTypes, Untouched, AcquireMiss, Goto, permitVars
    <2>4. HostTypes'
        BY <1>5, <1>t, FreshIsNew DEF OwnTypes, HostTypes, AcquireMiss, Prof
    <2>5. Owned'
        BY <1>5, <1>t, FreshIsNew, RegistryFacts DEF OwnTypes, HostTypes, Owned, AcquireMiss, Prof
    <2>. QED
        BY <1>t, <2>1, <2>2, <2>3, <2>4, <2>5, OthersFine
<1>6. CASE RunPermit(e)
    <2>1. OwnTypes'
        BY <1>6, <1>t, Zenon DEF OwnTypes, RunPermit, Goto, Stages
    <2>2. FineAt(e)'
        BY <1>6, <1>t, Zenon DEF OwnTypes, Local, FineAt, Fine, RunPermit, Goto
    <2>3. Untouched(e)
        BY <1>6, <1>t DEF OwnTypes, Untouched, RunPermit, Goto
    <2>4. HostTypes' /\ Owned'
        BY <1>6, <1>t, Zenon DEF HostTypes, Owned, RunPermit, hostVars
    <2>. QED
        BY <1>t, <2>1, <2>2, <2>3, <2>4, OthersFine
<1>7. CASE NoRunPermit(e)
    <2>1. OwnTypes'
        BY <1>7, <1>t DEF OwnTypes, NoRunPermit, Conclude, Stages, permitVars
    <2>2. FineAt(e)'
        BY <1>7, <1>t, Zenon DEF OwnTypes, Local, FineAt, Fine, NoRunPermit, Conclude, permitVars
    <2>3. Untouched(e)
        BY <1>7, <1>t DEF OwnTypes, Untouched, NoRunPermit, Conclude, permitVars
    <2>4. HostTypes' /\ Owned'
        BY <1>7, <1>t, Zenon DEF HostTypes, Owned, NoRunPermit, hostVars
    <2>. QED
        BY <1>t, <2>1, <2>2, <2>3, <2>4, OthersFine
<1>8. CASE Start(e)
    <2>1. OwnTypes'
        BY <1>8, <1>t DEF OwnTypes, Local, FineAt, Fine, Start, Goto, ExitRaises, Exit, Conclude, Stages
    <2>2. FineAt(e)'
        BY <1>8, <1>t DEF OwnTypes, Local, FineAt, Fine, Start, Goto, ExitRaises, Exit, Conclude
    <2>3. Untouched(e)
        BY <1>8, <1>t DEF OwnTypes, Untouched, Start, Goto, ExitRaises, Exit, Conclude
    <2>4. HostTypes'
        BY <1>8, <1>t DEF HostTypes, OwnTypes, Local, FineAt, Fine, Start
    <2>5. Owned'
        BY <1>8, <1>t, Zenon DEF Owned, Start
    <2>. QED
        BY <1>t, <2>1, <2>2, <2>3, <2>4, <2>5, OthersFine
<1>9. CASE StartFails(e)
    <2>1. OwnTypes'
        BY <1>9, <1>t, FaultAssumption DEF OwnTypes, StartFails, ExitRaises, Exit, Conclude, Stages, Fault
    <2>2. FineAt(e)'
        BY <1>9, <1>t DEF OwnTypes, Local, FineAt, Fine, StartFails, ExitRaises, Exit, Conclude
    <2>3. Untouched(e)
        BY <1>9, <1>t DEF OwnTypes, Untouched, StartFails, ExitRaises, Exit, Conclude
    <2>4. HostTypes' /\ Owned'
        BY <1>9, <1>t, Zenon DEF HostTypes, Owned, StartFails, hostVars
    <2>. QED
        BY <1>t, <2>1, <2>2, <2>3, <2>4, OthersFine
<1>10. CASE StartHangs(e)
    <2>1. OwnTypes'
        BY <1>10, <1>t, FaultAssumption DEF OwnTypes, StartHangs, Goto, Stages, permitVars, Fault
    <2>2. FineAt(e)'
        BY <1>10, <1>t, Zenon DEF OwnTypes, Local, FineAt, Fine, StartHangs, Goto, permitVars
    <2>3. Untouched(e)
        BY <1>10, <1>t, Zenon DEF OwnTypes, Untouched, StartHangs, Goto, permitVars
    <2>4. HostTypes' /\ Owned'
        BY <1>10, <1>t, Zenon DEF HostTypes, Owned, StartHangs, hostVars
    <2>. QED
        BY <1>t, <2>1, <2>2, <2>3, <2>4, OthersFine
<1>11. CASE StartTimeout(e)
    <2>1. OwnTypes'
        BY <1>11, <1>t DEF OwnTypes, StartTimeout, ExitRaises, Exit, Conclude, Stages
    <2>2. FineAt(e)'
        BY <1>11, <1>t DEF OwnTypes, Local, FineAt, Fine, StartTimeout, ExitRaises, Exit, Conclude
    <2>3. Untouched(e)
        BY <1>11, <1>t DEF OwnTypes, Untouched, StartTimeout, ExitRaises, Exit, Conclude
    <2>4. HostTypes'
        BY <1>11, <1>t DEF HostTypes, OwnTypes, Local, FineAt, Fine, StartTimeout
    <2>5. Owned'
        BY <1>11, <1>t, Zenon DEF Owned, StartTimeout
    <2>. QED
        BY <1>t, <2>1, <2>2, <2>3, <2>4, <2>5, OthersFine
<1>. QED
    BY <1>1, <1>2, <1>3, <1>4, <1>5, <1>6, <1>7, <1>8, <1>9, <1>10, <1>11, Zenon DEF Prepares

\* The wrapper and the build step: the container stays the executor's, the permit is
\* given back or its loss is recorded.
LEMMA BuildsKeeps ==
    ASSUME Inv, NEW e \in Executions, Builds(e)
    PROVE  Inv' /\ Untouched(e)
<1>t. OwnTypes /\ HostTypes /\ Local /\ Owned
    BY Zenon DEF Inv
<1>1. CASE Wrap(e)
    <2>0. Prof(e).build \in {"none", "check", "compiler"}
        BY <1>1, <1>t, RegistryFacts, Zenon DEF OwnTypes, Wrap, Prof
    <2>1. OwnTypes'
        BY <1>1, <1>t, <2>0 DEF OwnTypes, Wrap, Goto, Conclude, Stages, permitVars
    <2>2. FineAt(e)'
        BY <1>1, <1>t, NoneIsNot, <2>0 DEF OwnTypes, Local, FineAt, Fine, Wrap, Goto, Conclude, permitVars
    <2>3. Untouched(e)
        BY <1>1, <1>t DEF OwnTypes, Untouched, Wrap, Goto, Conclude, permitVars
    <2>4. HostTypes' /\ Owned'
        BY <1>1, <1>t, Zenon DEF HostTypes, Owned, Wrap, hostVars
    <2>. QED
        BY <1>t, <2>1, <2>2, <2>3, <2>4, OthersFine
<1>2. CASE CompilePermit(e)
    <2>1. OwnTypes'
        BY <1>2, <1>t DEF OwnTypes, CompilePermit, Goto, Stages
    <2>2. FineAt(e)'
        BY <1>2, <1>t, Zenon DEF OwnTypes, Local, FineAt, Fine, CompilePermit, Goto
    <2>3. Untouched(e)
        BY <1>2, <1>t DEF OwnTypes, Untouched, CompilePermit, Goto
    <2>4. HostTypes'
        BY <1>2, <1>t DEF HostTypes, OwnTypes, CompilePermit
    <2>5. Owned'
        BY <1>2, <1>t, Zenon DEF Owned, CompilePermit
    <2>. QED
        BY <1>t, <2>1, <2>2, <2>3, <2>4, <2>5, OthersFine
<1>3. CASE NoCompilePermit(e)
    <2>1. OwnTypes'
        BY <1>3, <1>t, Zenon DEF OwnTypes, NoCompilePermit, Conclude, Stages, permitVars
    <2>2. FineAt(e)'
        BY <1>3, <1>t, NoneIsNot, Zenon DEF OwnTypes, Local, FineAt, Fine, NoCompilePermit, Conclude, permitVars
    <2>3. Untouched(e)
        BY <1>3, <1>t, Zenon DEF OwnTypes, Untouched, NoCompilePermit, Conclude, permitVars
    <2>4. HostTypes' /\ Owned'
        BY <1>3, <1>t, Zenon DEF HostTypes, Owned, NoCompilePermit, hostVars
    <2>. QED
        BY <1>t, <2>1, <2>2, <2>3, <2>4, OthersFine
<1>4. CASE Built(e)
    <2>1. OwnTypes'
        BY <1>4, <1>t DEF OwnTypes, Built, BuildExit, ExitRaises, Exit, Goto, Conclude, Stages
    <2>2. FineAt(e)'
        BY <1>4, <1>t, NoneIsNot DEF OwnTypes, Local, FineAt, Fine, Built, BuildExit, ExitRaises, Exit, Goto, Conclude
    <2>3. Untouched(e)
        BY <1>4, <1>t DEF OwnTypes, Untouched, Built, BuildExit, ExitRaises, Exit, Goto, Conclude
    <2>4. HostTypes'
        BY <1>4, <1>t, Zenon DEF HostTypes, Built
    <2>5. Owned'
        BY <1>4, <1>t, Zenon DEF Owned, Built
    <2>. QED
        BY <1>t, <2>1, <2>2, <2>3, <2>4, <2>5, OthersFine
<1>5. CASE BuildFails(e)
    <2>1. OwnTypes'
        BY <1>5, <1>t DEF OwnTypes, BuildFails, BuildExit, CompileError, ExitRaises, Exit, Conclude, Stages
    <2>2. FineAt(e)'
        BY <1>5, <1>t, NoneIsNot DEF OwnTypes, Local, FineAt, Fine, BuildFails, BuildExit, CompileError, ExitRaises, Exit, Conclude
    <2>3. Untouched(e)
        BY <1>5, <1>t DEF OwnTypes, Untouched, BuildFails, BuildExit, CompileError, ExitRaises, Exit, Conclude
    <2>4. HostTypes'
        BY <1>5, <1>t, Zenon DEF HostTypes, BuildFails
    <2>5. Owned'
        BY <1>5, <1>t, Zenon DEF Owned, BuildFails
    <2>. QED
        BY <1>t, <2>1, <2>2, <2>3, <2>4, <2>5, OthersFine
<1>6. CASE BuildTimeout(e)
    <2>1. OwnTypes'
        BY <1>6, <1>t DEF OwnTypes, BuildTimeout, BuildExit, CompileError, ExitRaises, Exit, Conclude, Stages
    <2>2. FineAt(e)'
        BY <1>6, <1>t, NoneIsNot DEF OwnTypes, Local, FineAt, Fine, BuildTimeout, BuildExit, CompileError, ExitRaises, Exit, Conclude
    <2>3. Untouched(e)
        BY <1>6, <1>t DEF OwnTypes, Untouched, BuildTimeout, BuildExit, CompileError, ExitRaises, Exit, Conclude
    <2>4. HostTypes' /\ Owned'
        BY <1>6, <1>t, Zenon DEF HostTypes, Owned, BuildTimeout, hostVars
    <2>. QED
        BY <1>t, <2>1, <2>2, <2>3, <2>4, OthersFine
<1>. QED
    BY <1>1, <1>2, <1>3, <1>4, <1>5, <1>6, Zenon DEF Builds

\* The cleanups and the run: a container that is given back is nobody else's.
LEMMA ClosesKeeps ==
    ASSUME Inv, NEW e \in Executions, Closes(e)
    PROVE  Inv' /\ Untouched(e)
<1>t. OwnTypes /\ HostTypes /\ Local /\ Owned
    BY Zenon DEF Inv
<1>1. CASE Tidy(e)
    <2>1. OwnTypes'
        BY <1>1, <1>t DEF OwnTypes, Tidy, Forget, BuildExit, ExitRaises, Exit, Conclude, Stages
    <2>2. FineAt(e)'
        BY <1>1, <1>t DEF OwnTypes, Local, FineAt, Fine, Tidy, Forget, BuildExit, ExitRaises, Exit, Conclude
    <2>3. Untouched(e)
        BY <1>1, <1>t DEF OwnTypes, Untouched, Tidy, Forget, BuildExit, ExitRaises, Exit, Conclude
    <2>4. HostTypes'
        BY <1>1, <1>t, Zenon DEF HostTypes, OwnTypes, Tidy, Release, Forget
    <2>5. Owned'
        BY <1>1, <1>t, GivenBack, NoneIsNot DEF OwnTypes, Owned, Local, FineAt, Fine, Tidy, Release, Forget
    <2>. QED
        BY <1>t, <2>1, <2>2, <2>3, <2>4, <2>5, OthersFine
<1>2. CASE TidyRaises(e)
    <2>1. OwnTypes'
        BY <1>2, <1>t, Zenon DEF OwnTypes, TidyRaises, Forget, Conclude, Stages, permitVars
    <2>2. FineAt(e)'
        BY <1>2, <1>t, Zenon DEF OwnTypes, Local, FineAt, Fine, TidyRaises, Forget, Conclude, permitVars
    <2>3. Untouched(e)
        BY <1>2, <1>t DEF OwnTypes, Untouched, TidyRaises, Forget, Conclude, permitVars
    <2>4. HostTypes'
        BY <1>2, <1>t, Zenon DEF HostTypes, OwnTypes, TidyRaises, ReleaseRaises, Forget
    <2>5. Owned'
        BY <1>2, <1>t, GivenBack, NoneIsNot DEF OwnTypes, Owned, Local, FineAt, Fine, TidyRaises, ReleaseRaises, Forget
    <2>. QED
        BY <1>t, <2>1, <2>2, <2>3, <2>4, <2>5, OthersFine
<1>3. CASE Run(e)
    <2>1. OwnTypes'
        BY <1>3, <1>t, Zenon DEF OwnTypes, Run, Conclude, Stages, permitVars
    <2>2. FineAt(e)'
        BY <1>3, <1>t, NoneIsNot DEF OwnTypes, Local, FineAt, Fine, Run, Conclude, permitVars
    <2>3. Untouched(e)
        BY <1>3, <1>t DEF OwnTypes, Untouched, Run, Conclude, permitVars
    <2>4. HostTypes' /\ Owned'
        BY <1>3, <1>t, Zenon DEF HostTypes, Owned, Run, hostVars
    <2>. QED
        BY <1>t, <2>1, <2>2, <2>3, <2>4, OthersFine
<1>4. CASE Cleanup(e)
    <2>1. OwnTypes'
        BY <1>4, <1>t DEF OwnTypes, Cleanup, End, Stages, permitVars
    <2>2. FineAt(e)'
        BY <1>4, <1>t DEF OwnTypes, Local, FineAt, Fine, Cleanup, End, permitVars
    <2>3. Untouched(e)
        BY <1>4, <1>t, Zenon DEF OwnTypes, Untouched, Cleanup, End, permitVars
    <2>4. HostTypes'
        BY <1>4, <1>t DEF HostTypes, OwnTypes, Cleanup, Release, End
    <2>5. Owned'
        BY <1>4, <1>t, GivenBack, NoneIsNot DEF OwnTypes, Owned, Local, FineAt, Fine, Cleanup, Release, End
    <2>. QED
        BY <1>t, <2>1, <2>2, <2>3, <2>4, <2>5, OthersFine
<1>5. CASE CleanupRaises(e)
    <2>1. OwnTypes'
        BY <1>5, <1>t, Zenon DEF OwnTypes, CleanupRaises, End, Stages, permitVars
    <2>2. FineAt(e)'
        BY <1>5, <1>t, Zenon DEF OwnTypes, Local, FineAt, Fine, CleanupRaises, End, permitVars
    <2>3. Untouched(e)
        BY <1>5, <1>t DEF OwnTypes, Untouched, CleanupRaises, End, permitVars
    <2>4. HostTypes'
        BY <1>5, <1>t, Zenon DEF HostTypes, OwnTypes, CleanupRaises, ReleaseRaises, End
    <2>5. Owned'
        BY <1>5, <1>t, GivenBack, NoneIsNot DEF OwnTypes, Owned, Local, FineAt, Fine, CleanupRaises, ReleaseRaises, End
    <2>. QED
        BY <1>t, <2>1, <2>2, <2>3, <2>4, <2>5, OthersFine
<1>. QED
    BY <1>1, <1>2, <1>3, <1>4, <1>5, Zenon DEF Closes

\* _execute_raw: the directory is the execution's own until it is removed or left.
LEMMA RunsRawKeeps ==
    ASSUME Inv, NEW e \in Executions, RunsRaw(e)
    PROVE  Inv' /\ Untouched(e)
<1>t. OwnTypes /\ HostTypes /\ Local /\ Owned
    BY Zenon DEF Inv
<1>1. CASE RawBegin(e)
    <2>1. OwnTypes'
        BY <1>1, <1>t, FreshIsNew DEF OwnTypes, RawBegin, Goto, Stages, permitVars
    <2>2. FineAt(e)'
        BY <1>1, <1>t, FreshIsNew, NoneIsNot DEF OwnTypes, Local, FineAt, Fine, RawBegin, Goto, permitVars
    <2>3. Untouched(e)
        BY <1>1, <1>t DEF OwnTypes, Untouched, RawBegin, Goto, permitVars
    <2>4. HostTypes'
        BY <1>1, <1>t, FreshIsNew DEF OwnTypes, HostTypes, RawBegin
    <2>5. Owned'
        BY <1>1, <1>t, FreshIsNew DEF OwnTypes, HostTypes, Owned, RawBegin
    <2>. QED
        BY <1>t, <2>1, <2>2, <2>3, <2>4, <2>5, OthersFine
<1>2. CASE RawFails(e)
    <2>1. OwnTypes'
        BY <1>2, <1>t, FaultAssumption DEF OwnTypes, RawFails, RawEnd, Stages, permitVars, Fault
    <2>2. FineAt(e)'
        BY <1>2, <1>t, Zenon DEF OwnTypes, Local, FineAt, Fine, RawFails, RawEnd, permitVars
    <2>3. Untouched(e)
        BY <1>2, <1>t DEF OwnTypes, Untouched, RawFails, RawEnd, permitVars
    <2>4. HostTypes'
        BY <1>2, <1>t, Zenon DEF HostTypes, RawFails, RawEnd
    <2>5. Owned'
        BY <1>2, <1>t, GivenBack, Zenon DEF OwnTypes, Owned, Local, FineAt, Fine, RawFails, RawEnd
    <2>. QED
        BY <1>t, <2>1, <2>2, <2>3, <2>4, <2>5, OthersFine
<1>3. CASE RawRun(e)
    <2>1. OwnTypes'
        BY <1>3, <1>t, Zenon DEF OwnTypes, RawRun, Goto, Stages, permitVars
    <2>2. FineAt(e)'
        BY <1>3, <1>t, Zenon DEF OwnTypes, Local, FineAt, Fine, RawRun, Goto, permitVars
    <2>3. Untouched(e)
        BY <1>3, <1>t, Zenon DEF OwnTypes, Untouched, RawRun, Goto, permitVars
    <2>4. HostTypes' /\ Owned'
        BY <1>3, <1>t, Zenon DEF HostTypes, Owned, RawRun, hostVars
    <2>. QED
        BY <1>t, <2>1, <2>2, <2>3, <2>4, OthersFine
<1>4. CASE Communicate(e)
    <2>1. OwnTypes'
        BY <1>4, <1>t, Zenon DEF OwnTypes, Communicate, RawEnd, Stages, permitVars
    <2>2. FineAt(e)'
        BY <1>4, <1>t, Zenon DEF OwnTypes, Local, FineAt, Fine, Communicate, RawEnd, permitVars
    <2>3. Untouched(e)
        BY <1>4, <1>t, Zenon DEF OwnTypes, Untouched, Communicate, RawEnd, permitVars
    <2>4. HostTypes'
        BY <1>4, <1>t, Zenon DEF HostTypes, Communicate, RawEnd
    <2>5. Owned'
        BY <1>4, <1>t, GivenBack, Zenon DEF OwnTypes, Owned, Local, FineAt, Fine, Communicate, RawEnd
    <2>. QED
        BY <1>t, <2>1, <2>2, <2>3, <2>4, <2>5, OthersFine
<1>5. CASE RawTimeout(e)
    <2>1. OwnTypes'
        BY <1>5, <1>t, Zenon DEF OwnTypes, RawTimeout, RawEnd, Stages, permitVars
    <2>2. FineAt(e)'
        BY <1>5, <1>t, Zenon DEF OwnTypes, Local, FineAt, Fine, RawTimeout, RawEnd, permitVars
    <2>3. Untouched(e)
        BY <1>5, <1>t, Zenon DEF OwnTypes, Untouched, RawTimeout, RawEnd, permitVars
    <2>4. HostTypes'
        BY <1>5, <1>t, Zenon DEF HostTypes, RawTimeout, RawEnd
    <2>5. Owned'
        BY <1>5, <1>t, GivenBack, Zenon DEF OwnTypes, Owned, Local, FineAt, Fine, RawTimeout, RawEnd
    <2>. QED
        BY <1>t, <2>1, <2>2, <2>3, <2>4, <2>5, OthersFine
<1>. QED
    BY <1>1, <1>2, <1>3, <1>4, <1>5, Zenon DEF RunsRaw

-----------------------------------------------------------------------------
(* Every step. *)

\* Which of the groups a step is of, or what else it is.
LEMMA StepCases ==
    ASSUME NEW e \in Executions, Step(e) \/ JudgeFault(e) \/ RawFault(e)
    PROVE  Moves(e) \/ AcquireDiscard(e) \/ Daemon(e) \/ DaemonRefuses(e)
<1>1. CASE Step(e)
    BY <1>1, Zenon DEF Step, Acquire, JudgeStep, RawStep, Moves, Prepares, Builds, Closes, RunsRaw
<1>2. CASE JudgeFault(e) \/ RawFault(e)
    BY <1>2, Zenon DEF JudgeFault, RawFault, Moves, Prepares, RunsRaw
<1>. QED
    BY <1>1, <1>2, Zenon

\* What Inv needs of a step that changes no executor.
LEMMA QuietKeeps ==
    ASSUME Inv, UNCHANGED <<ownVars, permitVars, failed>>, faults' \in 0..MaxFaults,
           HostTypes', Owned'
    PROVE  Inv'
<1>1. OwnTypes'
    BY Zenon DEF Inv, OwnTypes, ownVars, permitVars
<1>2. Local'
    BY Zenon DEF Inv, Local, FineAt, ownVars, permitVars
<1>. QED
    BY <1>1, <1>2, Zenon DEF Inv

\* Every step keeps Inv.
LEMMA InvStep == Inv /\ [Next]_vars => Inv'
<1> SUFFICES ASSUME Inv, [Next]_vars
             PROVE  Inv'
    OBVIOUS
<1>t. OwnTypes /\ HostTypes /\ Owned /\ faults \in 0..MaxFaults
    BY Zenon DEF Inv, OwnTypes
<1>f. ASSUME Fault
      PROVE  faults' \in 0..MaxFaults
    BY <1>f, <1>t, FaultAssumption DEF Fault
<1>1. ASSUME NEW e \in Executions, Moves(e)
      PROVE  Inv'
    BY <1>1, PreparesKeeps, BuildsKeeps, ClosesKeeps, RunsRawKeeps, Zenon DEF Moves
<1>2. ASSUME NEW e \in Executions, AcquireDiscard(e)
      PROVE  Inv'
    <2>1. HostTypes' /\ Owned'
        BY <1>2, <1>t DEF HostTypes, Owned, AcquireDiscard, IdleOf, ownVars
    <2>. QED
        BY <1>2, <1>t, <2>1, QuietKeeps, Zenon DEF AcquireDiscard
<1>3. ASSUME NEW e \in Executions, Daemon(e) \/ DaemonRefuses(e)
      PROVE  Inv'
    <2>1. HostTypes' /\ Owned'
        BY <1>3, <1>t, Zenon DEF HostTypes, Owned, Daemon, DaemonRefuses, ownVars, hostVars
    <2>. QED
        BY <1>3, <1>t, <1>f, <2>1, QuietKeeps DEF Daemon, DaemonRefuses
<1>4. ASSUME NEW c \in Containers, CompilerEnds(c) \/ Die(c)
      PROVE  Inv'
    <2>1. HostTypes' /\ Owned'
        BY <1>4, <1>t, Zenon DEF HostTypes, Owned, CompilerEnds, Die, ownVars
    <2>. QED
        BY <1>4, <1>t, <1>f, <2>1, QuietKeeps, Zenon DEF CompilerEnds, Die
<1>5. ASSUME UNCHANGED <<ownVars, hostVars, permitVars, failed>>, UNCHANGED faults \/ Fault
      PROVE  Inv'
    <2>1. HostTypes' /\ Owned'
        BY <1>5, <1>t, Zenon DEF HostTypes, Owned, ownVars, hostVars
    <2>. QED
        BY <1>5, <1>t, <1>f, <2>1, QuietKeeps
<1>6. ASSUME NEW e \in Executions, Step(e) \/ JudgeFault(e) \/ RawFault(e)
      PROVE  Inv'
    BY <1>6, <1>1, <1>2, <1>3, StepCases, Zenon
<1>7. CASE Outage /\ UNCHANGED <<ownVars, hostVars, permitVars, buildVars, program, failed>>
    BY <1>7, <1>5, Zenon DEF Outage
<1>8. CASE /\ CacheExpires \/ \E i \in Rebuilt : Deploy(i)
           /\ UNCHANGED <<ownVars, hostVars, permitVars, redis, program, failed>>
    BY <1>8, <1>5, Zenon DEF CacheExpires, Deploy
<1>9. CASE UNCHANGED vars
    BY <1>9, <1>5, Zenon DEF vars
<1>. QED
    BY <1>4, <1>6, <1>7, <1>8, <1>9, Zenon DEF Next, Finished

\* Redis, the builds and the programs of raw executions.
LEMMA EnvStep == EnvTypes /\ [Next]_vars => EnvTypes'
<1> SUFFICES ASSUME EnvTypes, [Next]_vars
             PROVE  EnvTypes'
    OBVIOUS
<1>1. ASSUME UNCHANGED <<redis, deployed, old, program>>, known' \in {"none", "old", "new"}
      PROVE  EnvTypes'
    BY <1>1, Zenon DEF EnvTypes
<1>2. ASSUME UNCHANGED <<envVars, program>>
      PROVE  EnvTypes'
    BY <1>2, Zenon DEF EnvTypes, envVars, buildVars
<1>3. ASSUME NEW e \in Executions, Acquire(e), UNCHANGED <<redis, program>>
      PROVE  EnvTypes'
    BY <1>3, <1>1, Zenon DEF EnvTypes, Acquire, AcquireWarm, AcquireDiscard, Lookup
<1>4. ASSUME NEW e \in Executions, RawStep(e) \/ RawFault(e), UNCHANGED envVars
      PROVE  EnvTypes'
    <2>1. program' \in [Executions -> {"none", "asked", "running", "exited", "refused"}]
        BY <1>4, Zenon DEF EnvTypes, RawStep, RawFault, RawBegin, RawRun, Communicate, RawTimeout,
           RawFails, RawEnd, Daemon, DaemonRefuses
    <2>. QED
        BY <1>4, <2>1, Zenon DEF EnvTypes, envVars, buildVars
<1>5. CASE Outage /\ UNCHANGED <<ownVars, hostVars, permitVars, buildVars, program, failed>>
    BY <1>5, Zenon DEF EnvTypes, Outage, buildVars
<1>6. CASE CacheExpires /\ UNCHANGED <<redis, program>>
    BY <1>6, <1>1, Zenon DEF CacheExpires
<1>7. ASSUME NEW i \in Rebuilt, Deploy(i), UNCHANGED <<redis, program>>
      PROVE  EnvTypes'
    BY <1>7, Zenon DEF EnvTypes, Deploy
<1>8. CASE UNCHANGED vars
    BY <1>8, <1>2, Zenon DEF vars
<1>9. ASSUME NEW e \in Executions, Step(e)
      PROVE  EnvTypes'
    BY <1>9, <1>2, <1>3, <1>4, Zenon DEF Step
<1>. QED
    BY <1>2, <1>4, <1>5, <1>6, <1>7, <1>8, <1>9, Zenon DEF Next, Finished

\* Inv and the types of the environment hold in every reachable state: no step of an
\* execution, of Redis, of the daemon or of a deploy, failing or not, leads out.
THEOREM InvInvariant == Spec => [](Inv /\ EnvTypes)
<1>1. Init => Inv /\ EnvTypes
    <2>1. Init => OwnTypes /\ HostTypes /\ EnvTypes
        BY FaultAssumption DEF Init, OwnTypes, HostTypes, EnvTypes, Stages
    <2>2. Init => Local /\ Owned
        BY DEF Init, Local, FineAt, Fine, Owned
    <2>. QED
        BY <2>1, <2>2, Zenon DEF Inv
<1>2. (Inv /\ EnvTypes) /\ [Next]_vars => (Inv /\ EnvTypes)'
    BY InvStep, EnvStep, Zenon
<1>. QED
    BY <1>1, <1>2, PTL DEF Spec

\* Types: the whole pipeline stays inside the states it is meant to have.
THEOREM TypeCorrect == Spec => []TypeOK
<1>1. Inv /\ EnvTypes => TypeOK
    BY TypeParts, Zenon DEF Inv
<1>. QED
    BY <1>1, InvInvariant, PTL

\* One user each: two executions never work in one container, none works in a container
\* that is in the pool, and none without its temp_dir, whichever of TypeScript's own
\* cleanup and the finally block of execute() gives the container back.
THEOREM OneUserEach == Spec => []Exclusive
<1>1. Inv => Exclusive
    BY DEF Inv, OwnTypes, Local, FineAt, Fine, Owned, Exclusive
<1>. QED
    BY <1>1, InvInvariant, PTL

\* Blame: a compilation error or a wrong answer is never what execute() makes of a
\* failing docker run, a permit that did not come or an outage of Redis.
THEOREM BlameIsRight == Spec => []BlamesSandbox
<1>1. Inv => BlamesSandbox
    BY Zenon DEF Inv, Local, FineAt, Fine, BlamesSandbox
<1>. QED
    BY <1>1, InvInvariant, PTL

-----------------------------------------------------------------------------
(* The build that acquire() hands out. *)

\* old holds containers of the rebuilt image only.
OldBuild == \A c \in old : image[c] = deployed /\ image[c] # "none"

\* The image of a container is settled when its directory is made.
LEMMA ImageKept ==
    ASSUME NEW e \in Executions, Moves(e)
    PROVE  UNCHANGED image \/ AcquireMiss(e) \/ RawBegin(e)
<1>1. CASE Prepares(e)
    BY <1>1, Zenon DEF Prepares, Begin, NoSandboxRoot, AcquireRaises, AcquireWarm, RunPermit,
       NoRunPermit, Start, StartFails, StartHangs, StartTimeout, hostVars
<1>2. CASE Builds(e)
    BY <1>2, Zenon DEF Builds, Wrap, CompilePermit, NoCompilePermit, Built, BuildFails,
       BuildTimeout, hostVars
<1>3. CASE Closes(e)
    BY <1>3, Zenon DEF Closes, Tidy, TidyRaises, Run, Cleanup, CleanupRaises, End, hostVars
<1>4. CASE RunsRaw(e)
    BY <1>4, Zenon DEF RunsRaw, RawFails, RawRun, Communicate, RawTimeout, RawEnd, hostVars
<1>. QED
    BY <1>1, <1>2, <1>3, <1>4, Zenon DEF Moves

\* No step of an execution changes which containers are of the old build.
LEMMA BuildsKept ==
    ASSUME NEW e \in Executions,
           \/ Step(e)
           \/ JudgeFault(e) /\ UNCHANGED <<envVars, program>>
           \/ RawFault(e) /\ UNCHANGED envVars
    PROVE  UNCHANGED <<deployed, old>>
BY Zenon DEF Step, Acquire, AcquireWarm, AcquireDiscard, envVars, buildVars

\* Every step keeps OldBuild: a deploy sets old, and only new containers get an image.
LEMMA OldStep == Inv /\ EnvTypes /\ OldBuild /\ [Next]_vars => OldBuild'
<1> SUFFICES ASSUME Inv, EnvTypes, OldBuild, [Next]_vars
             PROVE  OldBuild'
    OBVIOUS
<1>t. HostTypes /\ old \subseteq Containers
    BY Zenon DEF Inv, EnvTypes
<1>1. ASSUME UNCHANGED <<image, deployed, old>>
      PROVE  OldBuild'
    BY <1>1, Zenon DEF OldBuild
<1>2. ASSUME NEW e \in Executions, UNCHANGED <<deployed, old>>, AcquireMiss(e) \/ RawBegin(e)
      PROVE  OldBuild'
    BY <1>2, <1>t, FreshIsNew DEF HostTypes, OldBuild, AcquireMiss, RawBegin
<1>3. ASSUME NEW e \in Executions,
             \/ Step(e)
             \/ JudgeFault(e) /\ UNCHANGED <<envVars, program>>
             \/ RawFault(e) /\ UNCHANGED envVars
      PROVE  OldBuild'
    <2>1. UNCHANGED <<deployed, old>>
        BY <1>3, BuildsKept, Zenon
    <2>2. Moves(e) \/ AcquireDiscard(e) \/ Daemon(e) \/ DaemonRefuses(e)
        BY <1>3, StepCases, Zenon
    <2>3. UNCHANGED image \/ AcquireMiss(e) \/ RawBegin(e)
        BY <2>2, ImageKept, Zenon DEF AcquireDiscard, Daemon, DaemonRefuses, hostVars
    <2>. QED
        BY <2>1, <2>3, <1>1, <1>2, Zenon
<1>4. ASSUME NEW i \in Rebuilt, Deploy(i), UNCHANGED hostVars
      PROVE  OldBuild'
    <2>1. i # "none"
        BY RebuiltAssumption, RegistryFacts
    <2>. QED
        BY <1>4, <2>1 DEF OldBuild, Deploy, hostVars
<1>5. ASSUME UNCHANGED <<hostVars, buildVars>> \/ UNCHANGED vars
      PROVE  OldBuild'
    BY <1>5, <1>1, Zenon DEF vars, envVars, hostVars, buildVars
<1>6. ASSUME NEW c \in Containers, CompilerEnds(c) \/ Die(c), UNCHANGED <<envVars, program>>
      PROVE  OldBuild'
    BY <1>6, <1>1, Zenon DEF CompilerEnds, Die, envVars, buildVars
<1>7. CASE CacheExpires /\ UNCHANGED hostVars
    BY <1>7, <1>1, Zenon DEF CacheExpires, hostVars
<1>. QED
    BY <1>3, <1>4, <1>5, <1>6, <1>7, Zenon DEF Next, Finished

\* Only a start and a warm container give an executor its container_id.
LEMMA ContainerTaken ==
    ASSUME OwnTypes, NEW e \in Executions, Moves(e)
    PROVE  cid'[e] \in {cid[e], None} \/ pc[e] = "start" \/ AcquireWarm(e)
<1>t. cid \in [Executions -> Containers \cup {None}]
    BY Zenon DEF OwnTypes
<1>1. CASE Prepares(e)
    BY <1>1, Zenon DEF Prepares, Begin, NoSandboxRoot, AcquireRaises, AcquireMiss, RunPermit,
       NoRunPermit, Start, StartFails, StartHangs, StartTimeout
<1>2. CASE Builds(e)
    BY <1>2, Zenon DEF Builds, Wrap, CompilePermit, NoCompilePermit, Built, BuildFails,
       BuildTimeout
<1>3. CASE Closes(e)
    BY <1>3, <1>t, Zenon DEF Closes, Tidy, TidyRaises, Run, Cleanup, CleanupRaises, Forget
<1>4. CASE RunsRaw(e)
    BY <1>4, Zenon DEF RunsRaw, RawBegin, RawFails, RawRun, Communicate, RawTimeout, RawEnd
<1>. QED
    BY <1>1, <1>2, <1>3, <1>4, Zenon DEF Moves

\* After a deploy acquire() compares the builds: no execution is given a container of
\* the old build, unless the cached image id is the old one's or its docker run was in
\* flight.
THEOREM CurrentBuildTaken == Spec => TakesCurrentBuild
<1> DEFINE A == \A e \in Executions :
                   cid[e] # cid'[e] /\ cid'[e] \in old => known = "old" \/ pc[e] = "start"
           IInv == Inv /\ EnvTypes /\ OldBuild
<1>1. Init => OldBuild
    BY Zenon DEF Init, OldBuild
<1>2. IInv /\ [Next]_vars => A
    <2> SUFFICES ASSUME IInv, [Next]_vars
                 PROVE  A
        BY Zenon
    <2>t. OwnTypes /\ None \notin old
        BY NoneIsNot, Zenon DEF Inv, EnvTypes
    <2>1. ASSUME UNCHANGED cid
          PROVE  A
        BY <2>1, Zenon
    <2>2. ASSUME NEW e \in Executions, AcquireWarm(e)
          PROVE  cid'[e] \in old => known = "old"
        BY <2>2, <2>t, Zenon DEF OwnTypes, OldBuild, AcquireWarm, Usable
    <2>3. ASSUME NEW e \in Executions, Moves(e)
          PROVE  A
        <3>1. Untouched(e)
            BY <2>3, PreparesKeeps, BuildsKeeps, ClosesKeeps, RunsRawKeeps, Zenon DEF Moves
        <3>2. cid'[e] \in {cid[e], None} \/ pc[e] = "start" \/ AcquireWarm(e)
            BY <2>3, <2>t, ContainerTaken, Zenon
        <3>. QED
            BY <3>1, <3>2, <2>2, <2>t, Zenon DEF Untouched
    <2>4. ASSUME NEW e \in Executions, Step(e) \/ JudgeFault(e) \/ RawFault(e)
          PROVE  A
        BY <2>1, <2>3, <2>4, StepCases, Zenon DEF AcquireDiscard, Daemon, DaemonRefuses, ownVars
    <2>5. ASSUME NEW c \in Containers, CompilerEnds(c) \/ Die(c)
          PROVE  A
        BY <2>1, <2>5, Zenon DEF CompilerEnds, Die, ownVars
    <2>6. ASSUME UNCHANGED ownVars \/ UNCHANGED vars
          PROVE  A
        BY <2>1, <2>6, Zenon DEF vars, ownVars
    <2>. QED
        BY <2>4, <2>5, <2>6, Zenon DEF Next, Finished
<1>3. OldBuild /\ Inv /\ EnvTypes /\ [Next]_vars => OldBuild'
    BY OldStep, Zenon
<1>4. IInv /\ [Next]_vars => [A]_vars
    BY <1>2, Zenon
<1>. QED
    BY <1>1, <1>3, <1>4, InvInvariant, PTL DEF Spec, TakesCurrentBuild
=============================================================================
