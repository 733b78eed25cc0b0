------------------------------ MODULE Execution ------------------------------
(***************************************************************************)
(* ExecutionPipeline.execute (execution/pipeline.py), in judge mode with   *)
(* the executors of languages/*.py: what each execution acquires (a warm   *)
(* container or a new one, its temp_dir, a permit to start a container, a  *)
(* permit to compile), in which order, and how it gives everything back on *)
(* every way out.  Several executions run at a time; they share the pool   *)
(* and the two semaphores, of which WarmPool and DockerSemaphore are the   *)
(* detailed models.  Both live in Redis: during an outage every call of    *)
(* either raises, and an execution that begins in an outage is one that    *)
(* the API runs itself (api/main.py, _execute_direct).  A deploy may       *)
(* rebuild an image; acquire() compares builds by an image id it keeps for *)
(* a while.  In raw mode (_execute_raw) the program runs in a container of *)
(* its own that "docker run -i --rm" makes, with a time limit on the       *)
(* docker CLI only: the container is the daemon's, and Redis is not used.  *)
(***************************************************************************)
EXTENDS Integers, FiniteSets

CONSTANTS Executions,    \* ExecutionPipeline objects
          Languages,     \* a subset of the registry's languages
          Containers,    \* containers (with their temp_dir) that can be made
          Rebuilt,       \* images that a deploy may rebuild
          PoolMax,       \* WARM_POOL_MAX_PER_IMAGE
          RunMax,        \* DOCKER_RUN_CONCURRENCY
          CompileMax,    \* COMPILE_CONCURRENCY
          MaxFaults,     \* bound on deploys and on what Docker, Redis and the
                         \* configuration do wrong
          None           \* None

\* What the executors differ in: the image they share a pool by; whether the
\* code is parsed before anything is acquired; whether "docker run" has a
\* timeout; whether the wrapper needs the function's signature; the build step
\* ("compiler" under the semaphore and a timeout, "check" without either); and
\* whether compile() calls cleanup() itself when the build fails.
Python     == [image |-> "python", syntax |-> TRUE,  limit |-> TRUE,  signature |-> FALSE, build |-> "none",     tidy |-> FALSE]
JavaScript == [image |-> "js",     syntax |-> FALSE, limit |-> FALSE, signature |-> FALSE, build |-> "check",    tidy |-> FALSE]
TypeScript == [image |-> "js",     syntax |-> FALSE, limit |-> FALSE, signature |-> FALSE, build |-> "compiler", tidy |-> TRUE]
Java       == [image |-> "java",   syntax |-> FALSE, limit |-> FALSE, signature |-> FALSE, build |-> "compiler", tidy |-> FALSE]
Kotlin     == [image |-> "kotlin", syntax |-> FALSE, limit |-> FALSE, signature |-> FALSE, build |-> "compiler", tidy |-> FALSE]
CSharp     == [image |-> "csharp", syntax |-> FALSE, limit |-> FALSE, signature |-> FALSE, build |-> "compiler", tidy |-> FALSE]
Cpp        == [image |-> "cpp",    syntax |-> FALSE, limit |-> TRUE,  signature |-> TRUE,  build |-> "compiler", tidy |-> FALSE]
C          == [image |-> "cpp",    syntax |-> FALSE, limit |-> FALSE, signature |-> TRUE,  build |-> "compiler", tidy |-> FALSE]
Go         == [image |-> "go",     syntax |-> FALSE, limit |-> TRUE,  signature |-> TRUE,  build |-> "compiler", tidy |-> FALSE]
Rust       == [image |-> "rust",   syntax |-> FALSE, limit |-> FALSE, signature |-> TRUE,  build |-> "compiler", tidy |-> FALSE]

\* ExecutorFactory._registry
Registry == [python |-> Python, javascript |-> JavaScript, typescript |-> TypeScript,
             java |-> Java, kotlin |-> Kotlin, csharp |-> CSharp, cpp |-> Cpp,
             go |-> Go, c |-> C, rust |-> Rust]

ASSUME LanguagesAssumption == Languages \subseteq DOMAIN Registry
ASSUME RebuiltAssumption == Rebuilt \subseteq {Registry[l].image : l \in Languages}
ASSUME LimitAssumption == PoolMax \in Nat /\ RunMax \in Nat /\ CompileMax \in Nat
ASSUME FaultAssumption == MaxFaults \in Nat
ASSUME NoneAssumption == None \notin Containers \cup DOMAIN Registry

VARIABLES pc,       \* where each execution is
          lang,     \* its language
          cid,      \* executor.container_id
          tmp,      \* executor.temp_dir
          verdict,  \* what it returns; "raised": an exception left execute()
          cause,    \* history: what made it fail: the "user", a compiler that was
                    \* too "slow", the "death" of its container, the "sandbox"
          image,    \* of each container that was made
          idle,     \* containers in the warm pools
          alive,    \* containers that run
          dirs,     \* temp_dirs that exist
          compilers,\* containers in which a compiler runs
          runHeld,  \* executions inside docker_run_semaphore()
          compHeld, \* executions inside compile_semaphore()
          redis,    \* "up" or "down"
          deployed, \* the image that was rebuilt, None before
          old,      \* its containers of the build before
          known,    \* its entry in _image_ids after the deploy: "old", "new" or "none"
          program,  \* of raw executions: "asked" for, "running", "exited", "refused"
          failed,   \* history: executions whose start, raw set-up, or release of a
                    \* container or of a permit failed
          faults    \* faults so far

ownVars == <<pc, lang, cid, tmp, verdict, cause>>
hostVars == <<image, idle, alive, dirs, compilers>>
permitVars == <<runHeld, compHeld>>
buildVars == <<deployed, old, known>>
envVars == <<redis, buildVars>>
vars == <<ownVars, hostVars, permitVars, envVars, program, failed, faults>>

Prof(e) == Registry[lang[e]]
IdleOf(i) == {c \in idle : image[c] = i}

\* The next container to be made: which one it is makes no difference.
Fresh ==
    LET New == {c \in Containers : image[c] = "none"}
    IN  IF New = {} THEN {} ELSE {CHOOSE c \in New : TRUE}

Stages == {"idle", "acquire", "permit", "start", "hung", "wrap", "cpermit", "build",
           "tidy", "run", "cleanup", "raw", "wait", "ended"}

Init ==
    /\ pc = [e \in Executions |-> "idle"]
    /\ lang = [e \in Executions |-> None]
    /\ cid = [e \in Executions |-> None]
    /\ tmp = [e \in Executions |-> None]
    /\ verdict = [e \in Executions |-> "none"]
    /\ cause = [e \in Executions |-> "none"]
    /\ image = [c \in Containers |-> "none"]
    /\ idle = {}
    /\ alive = {}
    /\ dirs = {}
    /\ compilers = {}
    /\ runHeld = {}
    /\ compHeld = {}
    /\ redis = "up"
    /\ deployed = None
    /\ old = {}
    /\ known = "none"
    /\ program = [e \in Executions |-> "none"]
    /\ failed = {}
    /\ faults = 0

Fault ==
    /\ faults < MaxFaults
    /\ faults' = faults + 1

Goto(e, stage) ==
    /\ pc' = [pc EXCEPT ![e] = stage]
    /\ UNCHANGED <<verdict, cause>>

\* The verdict is settled; the finally block is next.
Conclude(e, v, why) ==
    /\ pc' = [pc EXCEPT ![e] = "cleanup"]
    /\ verdict' = [verdict EXCEPT ![e] = v]
    /\ cause' = [cause EXCEPT ![e] = why]

-----------------------------------------------------------------------------
(* compile(): a container *)

\* get_executor; Python parses the code before it asks for a container
Begin(e) ==
    /\ pc[e] = "idle"
    /\ \E l \in Languages :
          /\ lang' = [lang EXCEPT ![e] = l]
          /\ \/ Goto(e, "acquire")
             \/ Registry[l].syntax /\ Conclude(e, "compilation_error", "user")
    /\ UNCHANGED <<cid, tmp, hostVars, permitVars, failed, faults>>

\* get_sandbox_roots() raises RuntimeExecutionError
NoSandboxRoot(e) ==
    /\ Fault
    /\ pc[e] = "acquire"
    /\ Conclude(e, "error", "sandbox")
    /\ UNCHANGED <<lang, cid, tmp, hostVars, permitVars, failed>>

\* container_pool.acquire raises a Redis error, which nothing catches
AcquireRaises(e) ==
    /\ pc[e] = "acquire"
    /\ redis = "down"
    /\ Conclude(e, "raised", "sandbox")
    /\ UNCHANGED <<lang, cid, tmp, hostVars, permitVars, failed, faults>>

\* _container_is_usable: the container runs, and its build is the one that
\* _current_image_id returns, from its cache or from docker
Usable(c) ==
    /\ c \in alive
    /\ image[c] = deployed => (c \in old <=> known = "old")

\* ... which asks docker, and remembers, when the cache has no entry
Lookup(c) == known' = IF image[c] = deployed /\ c \in alive /\ known = "none" THEN "new" ELSE known

\* (mutant) Any running container will do.
AcquireWarmAnyBuild(e) ==
    /\ pc[e] = "acquire"
    /\ redis = "up"
    /\ \E c \in IdleOf(Prof(e).image) \cap alive :
          /\ Lookup(c)
          /\ idle' = idle \ {c}
          /\ cid' = [cid EXCEPT ![e] = c]
          /\ tmp' = [tmp EXCEPT ![e] = c]
    /\ Goto(e, "wrap")
    /\ UNCHANGED <<lang, image, alive, dirs, compilers, permitVars, deployed, old, failed, faults>>

\* container_pool.acquire: a warm container of the image
AcquireWarm(e) ==
    /\ pc[e] = "acquire"
    /\ redis = "up"
    /\ \E c \in IdleOf(Prof(e).image) :
          /\ Usable(c)
          /\ Lookup(c)
          /\ idle' = idle \ {c}
          /\ cid' = [cid EXCEPT ![e] = c]
          /\ tmp' = [tmp EXCEPT ![e] = c]
    /\ Goto(e, "wrap")
    /\ UNCHANGED <<lang, image, alive, dirs, compilers, permitVars, deployed, old, failed, faults>>

\* ... one that is not usable is removed, and the next one tried
AcquireDiscard(e) ==
    /\ pc[e] = "acquire"
    /\ redis = "up"
    /\ \E c \in IdleOf(Prof(e).image) :
          /\ ~Usable(c)
          /\ Lookup(c)
          /\ idle' = idle \ {c}
          /\ alive' = alive \ {c}
          /\ dirs' = dirs \ {c}
          /\ compilers' = compilers \ {c}
    /\ UNCHANGED <<ownVars, image, permitVars, deployed, old, failed, faults>>

\* ... None: mkdtemp
AcquireMiss(e) ==
    /\ pc[e] = "acquire"
    /\ redis = "up"
    /\ IdleOf(Prof(e).image) = {}
    /\ \E c \in Fresh :
          /\ image' = [image EXCEPT ![c] = Prof(e).image]
          /\ dirs' = dirs \cup {c}
          /\ tmp' = [tmp EXCEPT ![e] = c]
    /\ Goto(e, "permit")
    /\ UNCHANGED <<lang, cid, idle, alive, compilers, permitVars, failed, faults>>

\* async with docker_run_semaphore()
RunPermit(e) ==
    /\ pc[e] = "permit"
    /\ redis = "up"
    /\ Cardinality(runHeld) < RunMax
    /\ runHeld' = runHeld \cup {e}
    /\ Goto(e, "start")
    /\ UNCHANGED <<lang, cid, tmp, hostVars, compHeld, failed, faults>>

\* (mutant) A wait for a permit that starts again when it times out.
NoRunPermitWaits(e) ==
    /\ pc[e] = "permit"
    /\ Cardinality(runHeld) >= RunMax \/ redis = "down"
    /\ UNCHANGED vars

\* ... RuntimeError after _ACQUIRE_TIMEOUT, or a Redis error; compile()'s caller
\* catches neither
NoRunPermit(e) ==
    /\ pc[e] = "permit"
    /\ Cardinality(runHeld) >= RunMax \/ redis = "down"
    /\ Conclude(e, "raised", "sandbox")
    /\ failed' = failed \cup {e}
    /\ UNCHANGED <<lang, cid, tmp, hostVars, permitVars, faults>>

\* The end of the block: LPUSH.  When it raises, the permit is gone, and its
\* exception takes the place of whatever the block came to.
Exit(e, held) == IF redis = "up" THEN held \ {e} ELSE held

ExitRaises(e) ==
    /\ redis = "down"
    /\ Conclude(e, "raised", "sandbox")
    /\ failed' = failed \cup {e}

\* docker run -d --rm.  container_id is set after the block.
Start(e) ==
    /\ pc[e] = "start"
    /\ alive' = alive \cup {tmp[e]}
    /\ runHeld' = Exit(e, runHeld)
    /\ \/ /\ redis = "up"
          /\ cid' = [cid EXCEPT ![e] = tmp[e]]
          /\ Goto(e, "wrap")
          /\ UNCHANGED failed
       \/ /\ ExitRaises(e)
          /\ UNCHANGED cid
    /\ UNCHANGED <<lang, tmp, image, idle, dirs, compilers, compHeld, faults>>

\* (mutants) The permit is kept when docker run fails; the failure is taken for one
\* of the code.
StartFailsKeepsPermit(e) ==
    /\ Fault
    /\ pc[e] = "start"
    /\ Conclude(e, "error", "sandbox")
    /\ UNCHANGED <<lang, cid, tmp, hostVars, permitVars, failed>>

StartFailsAsCompileError(e) ==
    /\ Fault
    /\ pc[e] = "start"
    /\ runHeld' = Exit(e, runHeld)
    /\ Conclude(e, "compilation_error", "sandbox")
    /\ failed' = failed \cup {e}
    /\ UNCHANGED <<lang, cid, tmp, hostVars, compHeld>>

\* ... fails: RuntimeExecutionError, with container_id still None
StartFails(e) ==
    /\ Fault
    /\ pc[e] = "start"
    /\ runHeld' = Exit(e, runHeld)
    /\ \/ redis = "up" /\ Conclude(e, "error", "sandbox") /\ failed' = failed \cup {e}
       \/ ExitRaises(e)
    /\ UNCHANGED <<lang, cid, tmp, hostVars, compHeld>>

\* ... does not answer, and goes on not answering
StartHangs(e) ==
    /\ Fault
    /\ pc[e] = "start"
    /\ Goto(e, "hung")
    /\ UNCHANGED <<lang, cid, tmp, hostVars, permitVars, failed>>

\* ... until the 30 s of the executors that have the timeout are over.  Only the
\* docker CLI is killed: the daemon may have started the container.
StartTimeout(e) ==
    /\ pc[e] = "hung"
    /\ Prof(e).limit
    /\ alive' \in {alive, alive \cup {tmp[e]}}
    /\ runHeld' = Exit(e, runHeld)
    /\ \/ redis = "up" /\ Conclude(e, "error", "sandbox") /\ failed' = failed \cup {e}
       \/ ExitRaises(e)
    /\ UNCHANGED <<lang, cid, tmp, image, idle, dirs, compilers, compHeld, faults>>

-----------------------------------------------------------------------------
(* compile(): the wrapper and the build *)

\* The wrapper is generated and written.  Without the signature of the function
\* the executors that need it raise CompileError.
Wrap(e) ==
    /\ pc[e] = "wrap"
    /\ \/ Goto(e, CASE Prof(e).build = "none" -> "run"
                    [] Prof(e).build = "check" -> "build"
                    [] Prof(e).build = "compiler" -> "cpermit")
       \/ Prof(e).signature /\ Conclude(e, "compilation_error", "user")
    /\ UNCHANGED <<lang, cid, tmp, hostVars, permitVars, failed, faults>>

\* (mutant) The block ends before the compiler does.
CompilePermitBriefly(e) ==
    /\ pc[e] = "cpermit"
    /\ redis = "up"
    /\ Cardinality(compHeld) < CompileMax
    /\ compilers' = compilers \cup {cid[e]}
    /\ Goto(e, "build")
    /\ UNCHANGED <<lang, cid, tmp, image, idle, alive, dirs, permitVars, failed, faults>>

\* async with compile_semaphore()
CompilePermit(e) ==
    /\ pc[e] = "cpermit"
    /\ redis = "up"
    /\ Cardinality(compHeld) < CompileMax
    /\ compHeld' = compHeld \cup {e}
    /\ compilers' = compilers \cup {cid[e]}
    /\ Goto(e, "build")
    /\ UNCHANGED <<lang, cid, tmp, image, idle, alive, dirs, runHeld, failed, faults>>

NoCompilePermit(e) ==
    /\ pc[e] = "cpermit"
    /\ Cardinality(compHeld) >= CompileMax \/ redis = "down"
    /\ Conclude(e, "raised", "sandbox")
    /\ UNCHANGED <<lang, cid, tmp, hostVars, permitVars, failed, faults>>

\* The end of the build step, in the block of the semaphore or, for a check,
\* without one; "then" is what follows when the permit is given back.
BuildExit(e, then) ==
    /\ compHeld' = Exit(e, compHeld)
    /\ \/ (redis = "up" \/ e \notin compHeld) /\ then /\ UNCHANGED failed
       \/ e \in compHeld /\ ExitRaises(e)

\* docker exec <compiler>: it succeeds
Built(e) ==
    /\ pc[e] = "build"
    /\ cid[e] \in alive
    /\ compilers' = compilers \ {cid[e]}
    /\ BuildExit(e, Goto(e, "run"))
    /\ UNCHANGED <<lang, cid, tmp, image, idle, alive, dirs, runHeld, faults>>

\* raise CompileError; TypeScript calls cleanup() first
CompileError(e, why) ==
    IF Prof(e).tidy
    THEN /\ pc' = [pc EXCEPT ![e] = "tidy"]
         /\ cause' = [cause EXCEPT ![e] = why]
         /\ UNCHANGED verdict
    ELSE Conclude(e, "compilation_error", why)

\* ... it fails, for what the user wrote or because the container is dead
BuildFails(e) ==
    /\ pc[e] = "build"
    /\ compilers' = compilers \ {cid[e]}
    /\ BuildExit(e, CompileError(e, IF cid[e] \in alive THEN "user" ELSE "death"))
    /\ UNCHANGED <<lang, cid, tmp, image, idle, alive, dirs, runHeld, faults>>

\* ... it takes too long: the docker CLI is killed, the compiler in the container
\* is not.  TypeScript cleans up with the semaphore still held.
BuildTimeout(e) ==
    /\ pc[e] = "build"
    /\ Prof(e).build = "compiler"
    /\ cid[e] \in alive
    /\ IF Prof(e).tidy
       THEN CompileError(e, "slow") /\ UNCHANGED <<compHeld, failed>>
       ELSE BuildExit(e, CompileError(e, "slow"))
    /\ UNCHANGED <<lang, cid, tmp, hostVars, runHeld, faults>>

\* A compiler nobody waits for any more comes to its end.
CompilerEnds(c) ==
    /\ c \in compilers
    /\ \A e \in Executions : cid[e] = c => pc[e] # "build"
    /\ compilers' = compilers \ {c}
    /\ UNCHANGED <<ownVars, image, idle, alive, dirs, permitVars, failed, faults>>

\* container_pool.release: back to the pool, where _sanitize may have missed the
\* compiler (see module Sanitize); removed when the pool is full; only the directory
\* removed when the container is dead
Release(c) ==
    \/ /\ c \in alive
       /\ redis = "up"
       /\ \/ /\ Cardinality(IdleOf(image[c])) < PoolMax
             /\ idle' = idle \cup {c}
             /\ compilers' \in {compilers, compilers \ {c}}
             /\ UNCHANGED <<alive, dirs>>
          \/ /\ Cardinality(IdleOf(image[c])) >= PoolMax
             /\ alive' = alive \ {c}
             /\ dirs' = dirs \ {c}
             /\ compilers' = compilers \ {c}
             /\ UNCHANGED idle
    \/ /\ c \notin alive
       /\ dirs' = dirs \ {c}
       /\ UNCHANGED <<idle, alive, compilers>>

\* cleanup(): the executor forgets its container, then releases it
Forget(e) ==
    /\ cid' = [cid EXCEPT ![e] = None]
    /\ tmp' = [tmp EXCEPT ![e] = None]

\* (mutant) TypeScript's own cleanup leaves container_id in place.
TidyKeepsId(e) ==
    /\ pc[e] = "tidy"
    /\ Release(cid[e])
    /\ BuildExit(e, Conclude(e, "compilation_error", cause[e]))
    /\ UNCHANGED <<lang, cid, tmp, image, runHeld, faults>>

\* TypeScript: await self.cleanup(), then CompileError
Tidy(e) ==
    /\ pc[e] = "tidy"
    /\ Release(cid[e])
    /\ Forget(e)
    /\ BuildExit(e, Conclude(e, "compilation_error", cause[e]))
    /\ UNCHANGED <<lang, image, runHeld, faults>>

\* container_pool.release raises a Redis error, from the push or, with the
\* container in the pool already, from the LLEN after it
ReleaseRaises(c) ==
    /\ c \in alive
    /\ redis = "down"
    /\ \/ UNCHANGED idle
       \/ /\ Cardinality(IdleOf(image[c])) < PoolMax
          /\ idle' = idle \cup {c}
    /\ UNCHANGED <<alive, dirs, compilers>>

TidyRaises(e) ==
    /\ pc[e] = "tidy"
    /\ ReleaseRaises(cid[e])
    /\ Forget(e)
    /\ Conclude(e, "raised", cause[e])
    /\ failed' = failed \cup {e}
    /\ UNCHANGED <<lang, image, permitVars, faults>>

-----------------------------------------------------------------------------
(* The test cases and the finally block. *)

\* run_batch() or run() for each test case.  "rejected" is a wrong answer, a runtime
\* error or a timeout: module Judge has the details.
Run(e) ==
    /\ pc[e] = "run"
    /\ \/ /\ cid[e] \in alive
          /\ Conclude(e, "accepted", "none")
       \/ /\ cid[e] \in alive
          /\ Conclude(e, "rejected", "user")
       \/ /\ cid[e] \notin alive
          /\ Conclude(e, "rejected", "death")
    /\ UNCHANGED <<lang, cid, tmp, hostVars, permitVars, failed, faults>>

\* execute() is over, and with it the pipeline object
End(e) ==
    /\ pc' = [pc EXCEPT ![e] = "ended"]
    /\ lang' = [lang EXCEPT ![e] = None]
    /\ tmp' = [tmp EXCEPT ![e] = None]
    /\ UNCHANGED <<cause, image, permitVars, faults>>

\* (mutant) cleanup() only for executions that came to a verdict on the code.
CleanupNoFinally(e) ==
    /\ pc[e] = "cleanup"
    /\ IF cid[e] = None \/ verdict[e] = "raised"
       THEN UNCHANGED <<cid, idle, alive, dirs, compilers>>
       ELSE Release(cid[e]) /\ cid' = [cid EXCEPT ![e] = None]
    /\ End(e)
    /\ UNCHANGED <<verdict, failed>>

\* finally: executor.cleanup(), which does nothing without a container_id
Cleanup(e) ==
    /\ pc[e] = "cleanup"
    /\ IF cid[e] = None
       THEN UNCHANGED <<cid, idle, alive, dirs, compilers>>
       ELSE Release(cid[e]) /\ cid' = [cid EXCEPT ![e] = None]
    /\ End(e)
    /\ UNCHANGED <<verdict, failed>>

\* ... in which release() raises: the verdict is lost with it
CleanupRaises(e) ==
    /\ pc[e] = "cleanup"
    /\ cid[e] # None
    /\ ReleaseRaises(cid[e])
    /\ cid' = [cid EXCEPT ![e] = None]
    /\ End(e)
    /\ verdict' = [verdict EXCEPT ![e] = "raised"]
    /\ failed' = failed \cup {e}

\* A container ends on its own, in use or not (out of memory, daemon restart).
Die(c) ==
    /\ Fault
    /\ c \in alive
    /\ alive' = alive \ {c}
    /\ compilers' = compilers \ {c}
    /\ UNCHANGED <<ownVars, image, idle, dirs, permitVars, failed>>

\* Redis goes away, and comes back.
Outage ==
    \/ redis = "up" /\ redis' = "down" /\ Fault
    \/ redis = "down" /\ redis' = "up" /\ UNCHANGED faults

\* A deploy rebuilds image i.  A docker run in flight may take either build, and
\* the id of the old one may be in _image_ids, or on its way there.
Deploy(i) ==
    /\ Fault
    /\ deployed = None
    /\ deployed' = i
    /\ \E S \in SUBSET {tmp[e] : e \in {f \in Executions : pc[f] \in {"start", "hung"}}} :
          old' = {c \in Containers : image[c] = i /\ c \in alive \cup S}
    /\ known' \in {"none", "old"}

\* _IMAGE_ID_CACHE_SECONDS are over
CacheExpires ==
    /\ known = "old"
    /\ known' = "none"
    /\ UNCHANGED <<deployed, old, faults>>

-----------------------------------------------------------------------------
(* _execute_raw *)

\* mkdtemp; the source is written next
RawBegin(e) ==
    /\ pc[e] = "idle"
    /\ \E c \in Fresh :
          /\ tmp' = [tmp EXCEPT ![e] = c]
          /\ image' = [image EXCEPT ![c] = "raw"]
          /\ dirs' = dirs \cup {c}
    /\ Goto(e, "raw")
    /\ UNCHANGED <<lang, cid, idle, alive, compilers, permitVars, program, failed, faults>>

RawEnd(e, v) ==
    /\ pc' = [pc EXCEPT ![e] = "ended"]
    /\ tmp' = [tmp EXCEPT ![e] = None]
    /\ verdict' = [verdict EXCEPT ![e] = v]
    /\ UNCHANGED <<lang, cid, cause, image, idle, alive, compilers, permitVars, program>>

\* get_sandbox_roots() raises, or the source cannot be written: outside the try block
RawFails(e) ==
    /\ Fault
    /\ pc[e] \in {"idle", "raw"}
    /\ RawEnd(e, "raised")
    /\ failed' = IF pc[e] = "raw" THEN failed \cup {e} ELSE failed
    /\ UNCHANGED dirs

\* create_subprocess_exec of docker run, without a semaphore
RawRun(e) ==
    /\ pc[e] = "raw"
    /\ program' = [program EXCEPT ![e] = "asked"]
    /\ Goto(e, "wait")
    /\ UNCHANGED <<lang, cid, tmp, hostVars, permitVars, failed, faults>>

\* The daemon starts the container, and the program in it ends
Daemon(e) ==
    /\ \/ program[e] = "asked" /\ program' = [program EXCEPT ![e] = "running"]
       \/ program[e] = "running" /\ program' = [program EXCEPT ![e] = "exited"]
    /\ UNCHANGED <<ownVars, hostVars, permitVars, failed, faults>>

\* ... or refuses to start it (no image, no memory)
DaemonRefuses(e) ==
    /\ Fault
    /\ program[e] = "asked"
    /\ program' = [program EXCEPT ![e] = "refused"]
    /\ UNCHANGED <<ownVars, hostVars, permitVars, failed>>

\* communicate(): the program's exit code, or docker's own; finally: rmtree
Communicate(e) ==
    /\ pc[e] = "wait"
    /\ program[e] \in {"exited", "refused"}
    /\ RawEnd(e, program[e])
    /\ dirs' = dirs \ {tmp[e]}
    /\ UNCHANGED <<failed, faults>>

\* 30 s are over: the CLI is killed, exit_code 124; finally: rmtree
RawTimeout(e) ==
    /\ pc[e] = "wait"
    /\ RawEnd(e, "timeout")
    /\ dirs' = dirs \ {tmp[e]}
    /\ UNCHANGED <<failed, faults>>

RawStep(e) == RawBegin(e) \/ RawRun(e) \/ Communicate(e) \/ RawTimeout(e)

-----------------------------------------------------------------------------

Acquire(e) == AcquireWarm(e) \/ AcquireDiscard(e)

JudgeStep(e) ==
    \/ Begin(e)
    \/ AcquireRaises(e)
    \/ AcquireMiss(e)
    \/ RunPermit(e)
    \/ NoRunPermit(e)
    \/ Start(e)
    \/ StartTimeout(e)
    \/ Wrap(e)
    \/ CompilePermit(e)
    \/ NoCompilePermit(e)
    \/ Built(e)
    \/ BuildFails(e)
    \/ BuildTimeout(e)
    \/ Tidy(e)
    \/ TidyRaises(e)
    \/ Run(e)
    \/ Cleanup(e)
    \/ CleanupRaises(e)

Step(e) ==
    \/ Acquire(e) /\ UNCHANGED <<redis, program>>
    \/ JudgeStep(e) /\ UNCHANGED <<envVars, program>>
    \/ RawStep(e) /\ UNCHANGED envVars

\* A docker run without a timeout, with a daemon that does not answer.
Stuck(e) == pc[e] = "hung" /\ ~Prof(e).limit

\* All executions are over, but for the stuck ones.
Finished ==
    /\ \A e \in Executions : pc[e] = "ended" \/ Stuck(e)
    /\ UNCHANGED vars

JudgeFault(e) == NoSandboxRoot(e) \/ StartFails(e) \/ StartHangs(e)

RawFault(e) == RawFails(e) \/ Daemon(e) \/ DaemonRefuses(e)

Next ==
    \/ \E e \in Executions :
          \/ Step(e)
          \/ JudgeFault(e) /\ UNCHANGED <<envVars, program>>
          \/ RawFault(e) /\ UNCHANGED envVars
    \/ \E c \in Containers : (CompilerEnds(c) \/ Die(c)) /\ UNCHANGED <<envVars, program>>
    \/ Outage /\ UNCHANGED <<ownVars, hostVars, permitVars, buildVars, program, failed>>
    \/ /\ CacheExpires \/ \E i \in Rebuilt : Deploy(i)
       /\ UNCHANGED <<ownVars, hostVars, permitVars, redis, program, failed>>
    \/ Finished

Spec == Init /\ [][Next]_vars

\* The event loop resumes every coroutine; docker commands, and the waits on the
\* semaphores, come to an end.  Nothing is assumed of a raw program.
FairSpec == Spec /\ \A e \in Executions : WF_vars(Step(e))

-----------------------------------------------------------------------------

TypeOK ==
    /\ pc \in [Executions -> Stages]
    /\ lang \in [Executions -> Languages \cup {None}]
    /\ \A e \in Executions : pc[e] \notin {"idle", "raw", "wait", "ended"} => lang[e] \in Languages
    /\ cid \in [Executions -> Containers \cup {None}]
    /\ \A e \in Executions :
          pc[e] \in {"wrap", "cpermit", "build", "tidy", "run"} => cid[e] \in Containers
    /\ tmp \in [Executions -> Containers \cup {None}]
    /\ verdict \in [Executions -> {"none", "accepted", "rejected", "compilation_error",
                                   "error", "raised", "exited", "refused", "timeout"}]
    /\ cause \in [Executions -> {"none", "user", "slow", "death", "sandbox"}]
    /\ image \in [Containers -> {"none", "raw"} \cup {Registry[l].image : l \in Languages}]
    /\ idle \in SUBSET Containers
    /\ alive \in SUBSET Containers
    /\ dirs \in SUBSET Containers
    /\ compilers \in SUBSET Containers
    /\ runHeld \in SUBSET Executions
    /\ compHeld \in SUBSET Executions
    /\ redis \in {"up", "down"}
    /\ deployed \in {None} \cup Rebuilt
    /\ old \in SUBSET Containers
    /\ known \in {"none", "old", "new"}
    /\ program \in [Executions -> {"none", "asked", "running", "exited", "refused"}]
    /\ failed \in SUBSET Executions
    /\ faults \in 0..MaxFaults

\* A container belongs to one execution or to the pool, and its temp_dir exists:
\* whichever of TypeScript's own cleanup and the pipeline's finally block comes
\* first, a container goes back to the pool once.
Exclusive ==
    \A e \in Executions : cid[e] # None =>
        /\ cid[e] \notin idle
        /\ cid[e] \in dirs
        /\ \A f \in Executions : cid[f] = cid[e] => f = e

\* Every way out of execute() gives both permits back, but for one that an outage
\* of Redis caught at the end of the block, and neither semaphore is ever over its
\* limit.
PermitsReturned ==
    /\ \A e \in Executions \ failed :
          pc[e] \in {"cleanup", "ended"} => e \notin runHeld \cup compHeld
    /\ Cardinality(runHeld) <= RunMax
    /\ Cardinality(compHeld) <= CompileMax

\* The finally block leaves nothing behind: once all executions are over, what
\* runs is in a pool and every directory is the one of a pooled container, but for
\* one container for every execution of which the cold start, the release or the
\* set-up as a raw program failed.  An execution that the API begins in an outage
\* of Redis fails in acquire() and leaves nothing.
NothingLeft ==
    (\A e \in Executions : pc[e] = "ended") =>
        Cardinality((alive \cup dirs) \ (idle \cap dirs)) <= Cardinality(failed)

\* A compiler is one that an execution holds a permit for, or one that its time
\* limit left behind: a build is inside the semaphore from its first to its last
\* moment, whatever fails around it.
CompilersExplained ==
    Cardinality(compilers) <=
        Cardinality(compHeld) + Cardinality({e \in Executions : cause[e] = "slow"})

\* A verdict on the code is about the code, or its container died under it: no
\* failing start, no missing permit and no outage of Redis is reported as the
\* user's error.
BlamesSandbox ==
    \A e \in Executions :
        verdict[e] \in {"compilation_error", "rejected"} => cause[e] # "sandbox"

\* After a deploy no execution is given a container of the old build, unless the
\* cached image id is still the old one's or a docker run was in flight.
TakesCurrentBuild ==
    [][\A e \in Executions :
          cid[e] # cid'[e] /\ cid'[e] \in old => known = "old" \/ pc[e] = "start"]_vars

\* Every execution, judged or raw, ends but one whose own docker run hangs where the executor
\* sets no timeout: that one keeps its permit for ever, and the timeout on the wait
\* for a permit still lets all the others end.
EveryExecutionEnds ==
    \A e \in Executions : pc[e] # "idle" ~> (pc[e] = "ended" \/ Stuck(e))

\* "started from the current build of the image (not one replaced by a deploy)"
\* (container_pool.py:103): no execution is given a container of the old build, and
\* none of the new build is thrown away.
OnlyCurrentBuild ==
    [][\A e \in Executions : Acquire(e) =>
          \A c \in idle \ idle' : image[c] = deployed /\ c \in alive => (c \in old <=> cid'[e] # c)]_vars

\* "Redis unavailable, falling back to direct execution" (main.py:82): an execution
\* that begins while Redis is down and stays so is run.
FallbackRuns ==
    [][\A e \in Executions : AcquireRaises(e) => FALSE]_vars

\* "finally block always calls executor.cleanup(): ... deletes temp files"
\* (readme.md:84-86): after the last execution only pooled containers have a
\* directory.
TempFilesDeleted ==
    (\A e \in Executions : pc[e] = "ended") => dirs \subseteq idle

\* "The sandbox could not be prepared (container start, Docker daemon, ...) - not
\* a problem with the user's code" (pipeline.py:251-252): a compilation error is
\* the user's.
BlamesUserOnly ==
    \A e \in Executions : verdict[e] = "compilation_error" => cause[e] \in {"user", "slow"}

\* "Max simultaneous compiler invocations (g++, javac, rustc, etc.) across all
\* worker slots" (limits.py:59).
CompilersBounded == Cardinality(compilers) <= CompileMax

\* "Max simultaneous docker run calls across all worker slots" (limits.py:56).
DockerRunsBounded ==
    Cardinality(runHeld \cup {e \in Executions : pc[e] = "wait"}) <= RunMax
=============================================================================
