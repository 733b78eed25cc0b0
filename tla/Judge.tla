-------------------------------- MODULE Judge ---------------------------------
(***************************************************************************)
(* How a submission is judged (execution/process.py and the second half of *)
(* ExecutionPipeline.execute): the wrapper process in the sandbox runs the *)
(* test cases and prints a block per result; the judge reads what it       *)
(* prints, with a time limit and an output limit, and makes a verdict of   *)
(* it.  Java and C run all test cases in one process (run_batch), the      *)
(* other languages start one per test case (run).                          *)
(***************************************************************************)
EXTENDS Integers, Sequences, FiniteSetsExt, SequencesExt

CONSTANTS MaxCases,  \* test cases per request
          Limit,     \* EXECUTION_TIMEOUT_SECONDS, in units of the time of a quick test case
          Kinds      \* what a test case can do, a subset of AllKinds

\* pass: the right result after one unit; slow: the right result, one unit over
\* the limit; wrong: another result; throw: an exception the wrapper reports;
\* crash: the process dies; hang: no result, ever; flood: the right result after
\* more output than MAX_STDOUT_BYTES; linger: the right result, and the process
\* cannot end after its last test case (a thread of the user's is still running)
AllKinds == {"pass", "slow", "wrong", "throw", "crash", "hang", "flood", "linger"}

ASSUME CasesAssumption == MaxCases \in Nat \ {0}
ASSUME LimitAssumption == Limit \in Nat \ {0}
ASSUME KindsAssumption == Kinds \subseteq AllKinds

VARIABLES mode,     \* "single" or "batch": does the executor have run_batch?
          prog,     \* what each test case does; the cases are 0 .. Count - 1
          index,    \* the test case that runs
          phase,    \* of the process: "work", "print", "exit", "ended"
          left,     \* time the test case still needs
          clock,    \* time since the process was started
          out,      \* what the process has printed
          buf,      \* what the judge has read of it
          rc,       \* its exit code
          verdict   \* what execute() returns

processVars == <<index, phase, left, clock, out, buf, rc>>
vars == <<mode, prog, processVars, verdict>>

Count == Len(prog)
Kind(i) == prog[i + 1]
Cost(k) == IF k = "slow" THEN Limit + 1 ELSE 1

\* What is told apart in the output: the two markers, the JSON between them, and
\* whatever else the user's code prints.
Token(kind, i) == [kind |-> kind, index |-> i]
IsJson(t) == t.kind \in {"right", "wrong", "error"}

None == [verdict |-> "none", index |-> 0]
Verdict(v, i) == [verdict |-> v, index |-> i]
Judged == verdict # None

\* The limit of the process: run(), run_batch()
Timeout == IF mode = "single" THEN Limit ELSE Limit * Count

Init ==
    /\ mode \in {"single", "batch"}
    /\ prog \in UNION {[1..n -> Kinds] : n \in 1..MaxCases}
    /\ index = 0
    /\ phase = "work"
    /\ left = Cost(Kind(0))
    /\ clock = 0
    /\ out = <<>>
    /\ buf = <<>>
    /\ rc = 0
    /\ verdict = None

-----------------------------------------------------------------------------
(* Reading the blocks. *)

\* str.find: the first position from pos on, 0 when there is none
Find(s, kind, pos) ==
    LET found == {p \in pos..Len(s) : s[p].kind = kind}
    IN  IF found = {} THEN 0 ELSE Min(found)

\* json.loads of what stands between the markers at a and b
Parsed(s, a, b) == IF b = a + 2 /\ IsJson(s[a + 1]) THEN <<s[a + 1]>> ELSE <<>>

RECURSIVE BlocksFrom(_, _)
BlocksFrom(s, pos) ==
    LET start == Find(s, "start", pos)
        end == Find(s, "end", start + 1)
    IN  IF start = 0 \/ end = 0 THEN <<>> ELSE Parsed(s, start, end) \o BlocksFrom(s, end + 1)

parse_all_wrapper_outputs(s) == BlocksFrom(s, 1)

\* The last block; <<>> is None
parse_wrapper_output(s) ==
    LET starts == {p \in 1..Len(s) : s[p].kind = "start"}
        start == Max(starts \cup {0})
        end == Find(s, "end", start + 1)
    IN  IF start = 0 \/ end = 0 THEN <<>> ELSE Parsed(s, start, end)

-----------------------------------------------------------------------------
(* The process. *)

Running == ~Judged /\ phase # "ended"

\* The user's function runs; it may print something of its own.
Work ==
    /\ Running
    /\ phase = "work"
    /\ clock < Timeout
    /\ clock' = clock + 1
    /\ left' = IF Kind(index) = "hang" THEN left ELSE left - 1
    /\ phase' = IF left' = 0 THEN (IF Kind(index) = "crash" THEN "exit" ELSE "print") ELSE "work"
    /\ rc' = IF left' = 0 /\ Kind(index) = "crash" THEN 139 ELSE rc
    /\ out' = out \o (IF Kind(index) = "flood" THEN <<Token("flood", 0)>> ELSE <<>>)
    /\ UNCHANGED <<mode, prog, index, buf, verdict>>

Block(i) ==
    <<Token("start", i),
      Token(CASE Kind(i) = "wrong" -> "wrong" [] Kind(i) = "throw" -> "error" [] OTHER -> "right", i),
      Token("end", i)>>

\* (mutant) The wrapper prints the results it has when all test cases are over.
EmitAtEnd ==
    /\ Running
    /\ phase = "print"
    /\ IF Kind(index) = "throw" \/ mode = "single" \/ index = Count - 1
       THEN /\ out' = out \o FlattenSeq([i \in 1..(index + 1) |-> Block(i - 1)])
            /\ phase' = "exit"
            /\ UNCHANGED <<index, left>>
       ELSE /\ out' = out
            /\ index' = index + 1
            /\ left' = Cost(Kind(index + 1))
            /\ phase' = "work"
    /\ rc' = IF Kind(index) = "throw" THEN 1 ELSE 0
    /\ UNCHANGED <<mode, prog, clock, buf, verdict>>

\* emit(): a block for the result or, with exit code 1, for the exception; then
\* the next test case of the batch.  The judge can see any part of a block.
Emit ==
    /\ Running
    /\ phase = "print"
    /\ out' = out \o Block(index)
    /\ IF Kind(index) # "throw" /\ mode = "batch" /\ index < Count - 1
       THEN /\ index' = index + 1
            /\ left' = Cost(Kind(index + 1))
            /\ phase' = "work"
       ELSE phase' = "exit" /\ UNCHANGED <<index, left>>
    /\ rc' = IF Kind(index) = "throw" THEN 1 ELSE 0
    /\ UNCHANGED <<mode, prog, clock, buf, verdict>>

Lingers == \E i \in 0..index : Kind(i) = "linger" /\ (mode = "batch" \/ i = index)

Exit ==
    /\ Running
    /\ phase = "exit"
    /\ rc = 0 => ~Lingers
    /\ phase' = "ended"
    /\ UNCHANGED <<mode, prog, index, left, clock, out, buf, rc, verdict>>

\* A process that does not exit lets the time pass.
Linger ==
    /\ Running
    /\ phase = "exit"
    /\ rc = 0 /\ Lingers
    /\ clock < Timeout
    /\ clock' = clock + 1
    /\ UNCHANGED <<mode, prog, index, phase, left, out, buf, rc, verdict>>

-----------------------------------------------------------------------------
(* The judge. *)

Flooded(s) == \E p \in 1..Len(s) : s[p].kind = "flood"

\* communicate(), _drain(): a chunk, which ends anywhere
Drain ==
    /\ ~Judged
    /\ \E n \in (Len(buf) + 1)..Len(out) : buf' = SubSeq(out, 1, n)
    /\ UNCHANGED <<mode, prog, index, phase, left, clock, out, rc, verdict>>

\* _outputs_match, on results the user's code computed
FirstWrong(results) == {i \in 0..(Len(results) - 1) : results[i + 1].kind = "wrong"}

\* run() for the next test case: a new process
NextCase ==
    /\ index' = index + 1
    /\ phase' = "work"
    /\ left' = Cost(Kind(index + 1))
    /\ clock' = 0
    /\ out' = <<>>
    /\ buf' = <<>>
    /\ rc' = 0
    /\ UNCHANGED verdict

Finish(v, i) ==
    /\ verdict' = Verdict(v, i)
    /\ UNCHANGED processVars

\* (mutant) The output limit is not looked at.
SingleResultNoLimit ==
    /\ ~Judged
    /\ mode = "single"
    /\ phase = "ended" /\ buf = out
    /\ LET parsed == parse_wrapper_output(buf)
           ok == rc = 0 /\ parsed # <<>> /\ parsed[1].kind # "error"
       IN  \/ ~ok /\ Finish("runtime_error", index)
           \/ ok /\ parsed[1].kind = "wrong" /\ Finish("wrong_answer", index)
           \/ ok /\ parsed[1].kind = "right" /\ index = Count - 1 /\ Finish("accepted", 0)
           \/ ok /\ parsed[1].kind = "right" /\ index < Count - 1 /\ NextCase
    /\ UNCHANGED <<mode, prog>>

\* run_wrapper, and the loop of execute() over the test cases
SingleResult ==
    /\ ~Judged
    /\ mode = "single"
    /\ phase = "ended" /\ buf = out
    /\ LET parsed == parse_wrapper_output(buf)
           ok == ~Flooded(buf) /\ rc = 0 /\ parsed # <<>> /\ parsed[1].kind # "error"
       IN  \/ ~ok /\ Finish("runtime_error", index)
           \/ ok /\ parsed[1].kind = "wrong" /\ Finish("wrong_answer", index)
           \/ ok /\ parsed[1].kind = "right" /\ index = Count - 1 /\ Finish("accepted", 0)
           \/ ok /\ parsed[1].kind = "right" /\ index < Count - 1 /\ NextCase
    /\ UNCHANGED <<mode, prog>>

\* (mutant) A test case that times out is waited for again.
SingleTimeoutRetries ==
    /\ ~Judged
    /\ mode = "single"
    /\ clock = Timeout
    /\ phase # "ended"
    /\ clock' = 0
    /\ UNCHANGED <<mode, prog, index, phase, left, out, buf, rc, verdict>>

\* run_in_sandbox: the time limit
SingleTimeout ==
    /\ ~Judged
    /\ mode = "single"
    /\ clock = Timeout
    /\ phase # "ended"
    /\ Finish("timeout", index)
    /\ UNCHANGED <<mode, prog>>

\* run_batch_wrapper when the process has ended, and the comparison in execute()
BatchResult ==
    /\ ~Judged
    /\ mode = "batch"
    /\ phase = "ended" /\ buf = out /\ ~Flooded(buf)
    /\ LET blocks == parse_all_wrapper_outputs(buf)
           errors == {p \in 1..Len(blocks) : blocks[p].kind = "error"}
           ok == errors = {} /\ rc = 0 /\ Len(blocks) = Count
       IN  \/ errors # {} /\ Finish("runtime_error", blocks[Min(errors)].index)
           \/ errors = {} /\ ~ok /\ Finish("runtime_error", Len(blocks))
           \/ ok /\ FirstWrong(blocks) # {} /\ Finish("wrong_answer", Min(FirstWrong(blocks)))
           \/ ok /\ FirstWrong(blocks) = {} /\ Finish("accepted", 0)
    /\ UNCHANGED <<mode, prog>>

\* _drain: the output limit; the exception has no failed_test_case_index
BatchOverflow ==
    /\ ~Judged
    /\ mode = "batch"
    /\ Flooded(buf)
    /\ Finish("runtime_error", 0)
    /\ UNCHANGED <<mode, prog>>

\* The time limit: the first test case whose result is not in the buffer
BatchTimeout ==
    /\ ~Judged
    /\ mode = "batch"
    /\ clock = Timeout
    /\ phase # "ended"
    /\ LET done == Len(parse_all_wrapper_outputs(buf))
       IN  Finish("timeout", Min({done, Count - 1}))
    /\ UNCHANGED <<mode, prog>>

Finished == Judged /\ UNCHANGED vars

Progress ==
    \/ Work
    \/ Emit
    \/ Exit
    \/ Linger
    \/ Drain
    \/ SingleResult
    \/ SingleTimeout
    \/ BatchResult
    \/ BatchOverflow
    \/ BatchTimeout

Next == Progress \/ Finished

Spec == Init /\ [][Next]_vars

\* Time passes, and the event loop reads, resumes and times out.
FairSpec == Spec /\ WF_vars(Progress)

-----------------------------------------------------------------------------

TypeOK ==
    /\ mode \in {"single", "batch"}
    /\ \A i \in 0..(Count - 1) : Kind(i) \in Kinds
    /\ index \in 0..(Count - 1)
    /\ phase \in {"work", "print", "exit", "ended"}
    /\ left \in 0..(Limit + 1)
    /\ clock \in 0..Timeout
    /\ IsPrefix(buf, out)
    /\ rc \in {0, 1, 139}
    /\ verdict \in [verdict : {"none", "accepted", "wrong_answer", "runtime_error", "timeout"},
                    index : 0..(Count - 1)]

\* What a test case deserves, judged on its own.
Deserves(k) ==
    CASE k = "pass" -> "accepted"
      [] k = "wrong" -> "wrong_answer"
      [] k \in {"slow", "hang", "linger"} -> "timeout"
      [] OTHER -> "runtime_error"

FirstFailure ==
    LET failing == {i \in 0..(Count - 1) : Deserves(Kind(i)) # "accepted"}
    IN  IF failing = {} THEN Verdict("accepted", 0) ELSE Verdict(Deserves(Kind(Min(failing))), Min(failing))

\* A language without run_batch gets the verdict and the index of the first test
\* case that fails, whatever the later ones would have done and however the reads
\* are cut into chunks (the loop of execute()).
SingleFirstFailure == (Judged /\ mode = "single") => verdict = FirstFailure

\* The verdict of a batch.  It is accepted only when every test case computes its
\* result, and always when every one does within its limit: a process that dies after
\* the last block, or before it, is not taken for a success (run_batch_wrapper's
\* count).  The index is one of a test case also when all results were there at the
\* time limit; and within the output limit no test case before it ended the process,
\* the one that did is named exactly, and a wrong answer is the first wrong result.
BatchVerdict ==
    (Judged /\ mode = "batch") =>
        LET i == verdict.index
        IN  /\ verdict.verdict = "accepted" => \A j \in 0..(Count - 1) : Kind(j) \in {"pass", "slow"}
            /\ (\A j \in 0..(Count - 1) : Kind(j) = "pass") => verdict.verdict = "accepted"
            /\ i < Count
            /\ (verdict.verdict # "accepted" /\ \A j \in 0..index : Kind(j) # "flood") =>
                  /\ \A j \in 0..(i - 1) : Kind(j) \notin {"throw", "crash", "hang"}
                  /\ verdict.verdict = "runtime_error" => Kind(i) \in {"throw", "crash"}
                  /\ verdict.verdict = "wrong_answer" =>
                        Kind(i) = "wrong" /\ \A j \in 0..(i - 1) : Kind(j) # "wrong"

\* Every submission gets a verdict: the limits end what does not end on its own.
EveryRunJudged == <>Judged

\* "Returns the first failing verdict early" (readme.md:22).
ReturnsFirstFailing ==
    (Judged /\ mode = "batch" /\ \A i \in 0..(Count - 1) : Kind(i) \in {"pass", "wrong", "throw"})
        => verdict = FirstFailure

\* "Execution timeout per test case: 30s" (readme.md:199).
TimeoutPerTestCase ==
    (Judged /\ verdict.verdict = "accepted") => \A i \in 0..(Count - 1) : Kind(i) # "slow"

\* "so a crash part-way through still reports which test case failed"
\* (process.py:141-142): the failure of a batch without wrong results is reported
\* for the test case that made it.
ReportsWhichFailed ==
    (Judged /\ mode = "batch" /\ verdict.verdict = "runtime_error") =>
        Deserves(Kind(verdict.index)) = "runtime_error"
=============================================================================
