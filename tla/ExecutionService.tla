-------------------------- MODULE ExecutionService ---------------------------
(***************************************************************************)
(* What api/main.py, jobqueue/job.py and worker.py together promise the    *)
(* clients, without queue, keys, slots and timeouts: the code of a request *)
(* is run at most once, the request is answered once, and the answer is    *)
(* the truth about what was run.  Some requests become doubtful: a command *)
(* to Redis took effect and was reported as failed.  Their code may be run *)
(* a second time, by the API itself.                                       *)
(***************************************************************************)
EXTENDS Naturals

CONSTANTS Jobs

VARIABLES answer,    \* what the client of each request got, "none" so far
          runs,      \* how often its code was run
          outcomes,  \* what the runs came to
          doubtful,  \* requests of which a command failed after taking effect
          troubled   \* something has failed

served == <<answer, runs, outcomes>>

Init ==
    /\ answer = [j \in Jobs |-> "none"]
    /\ runs = [j \in Jobs |-> 0]
    /\ outcomes = [j \in Jobs |-> {}]
    /\ doubtful = {}
    /\ troubled = FALSE

Execute(j, o) ==
    /\ runs[j] < (IF j \in doubtful THEN 2 ELSE 1)
    /\ answer[j] = "expired" => j \in doubtful
    /\ runs' = [runs EXCEPT ![j] = @ + 1]
    /\ outcomes' = [outcomes EXCEPT ![j] = @ \cup {o}]

\* The answer a to j agrees with what has been run.  503 and 504 say nothing.
Truthful(j, a) ==
    CASE a = "result" -> "result" \in outcomes[j]
      [] a \in {"rejected", "400"} -> "rejected" \in outcomes[j]
      [] a \in {"internal", "500"} -> "internal" \in outcomes[j] \/ troubled
      [] a = "expired" -> runs[j] = 0 \/ j \in doubtful
      [] OTHER -> a \in {"503", "504"}

\* Several clients get the same answer at once when Redis goes away.
Reply(js, a) ==
    /\ \A j \in js : answer[j] = "none" /\ Truthful(j, a)'
    /\ answer' = [j \in Jobs |-> IF j \in js THEN a ELSE answer[j]]

Trouble ==
    /\ doubtful \subseteq doubtful'
    /\ troubled => troubled'
    /\ doubtful # doubtful' => troubled'

Answers == {"result", "rejected", "internal", "expired", "400", "500", "503", "504"}
Outcomes == {"result", "rejected", "internal"}

Next ==
    /\ \/ \E j \in Jobs, o \in Outcomes : Execute(j, o) /\ UNCHANGED answer
       \/ \E js \in SUBSET Jobs, a \in Answers : Reply(js, a) /\ UNCHANGED <<runs, outcomes>>
       \/ \E j \in Jobs, o \in Outcomes, a \in Answers : Execute(j, o) /\ Reply({j}, a)
    /\ Trouble

Spec == Init /\ [][Next]_<<served, doubtful, troubled>>
=============================================================================
