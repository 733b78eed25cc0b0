------------------------------- MODULE Sanitize -------------------------------
(***************************************************************************)
(* container_pool._sanitize: the shell that docker exec starts in a        *)
(* container to make it ready for the next job.  It lists /proc, kills the *)
(* processes of the list one after the other, and wipes /app.  Processes   *)
(* the last job left behind run on, and may fork, meanwhile.               *)
(***************************************************************************)
EXTENDS Integers, Sequences

CONSTANTS FirstPid,  \* the first pid the job's processes may have
          MaxPid     \* bound on the pids given out

VARIABLES procs,    \* pids of the processes in the container
          nextPid,  \* the kernel gives out pids in order
          shell,    \* pid of sh -c, 0 before
          phase,    \* of the shell: "before", "ls", "kill", "over"
          list,     \* $(ls /proc | grep ...): the pids still to come
          listed,   \* history: the job's processes that ls saw
          app       \* what is in /app: files of the job or nothing

vars == <<procs, nextPid, shell, phase, list, listed, app>>

Digits(n) == IF n < 10 THEN <<n>> ELSE <<n \div 10, n % 10>>

\* ls sorts names, not numbers: "10" comes before "9"
LsBefore(a, b) ==
    LET x == Digits(a)
        y == Digits(b)
    IN  \/ x[1] < y[1]
        \/ /\ x[1] = y[1]
           /\ \/ Len(x) < Len(y)
              \/ Len(x) = Len(y) /\ Len(x) = 2 /\ x[2] < y[2]

\* pid 1 is the container's own sleep; the job's files are in /app
Init ==
    /\ procs = {1}
    /\ nextPid = FirstPid
    /\ shell = 0
    /\ phase = "before"
    /\ list = {}
    /\ listed = {}
    /\ app = "files"

\* The job, or a process it left behind, starts a process.
Fork ==
    /\ phase = "before" \/ procs \ {1, shell} # {}
    /\ nextPid <= MaxPid
    /\ procs' = procs \cup {nextPid}
    /\ nextPid' = nextPid + 1
    /\ UNCHANGED <<shell, phase, list, listed, app>>

\* A process of the job ends.
Exit ==
    /\ \E p \in procs \ {1, shell} : procs' = procs \ {p}
    /\ UNCHANGED <<nextPid, shell, phase, list, listed, app>>

\* docker exec ... sh -c
Exec ==
    /\ phase = "before"
    /\ nextPid <= MaxPid
    /\ shell' = nextPid
    /\ procs' = procs \cup {nextPid}
    /\ nextPid' = nextPid + 1
    /\ phase' = "ls"
    /\ UNCHANGED <<list, listed, app>>

\* The command substitution.  Its own processes are on the list and gone when the
\* loop begins; a kill of one of them does nothing.
Ls ==
    /\ phase = "ls"
    /\ list' = procs
    /\ listed' = procs \ {1, shell}
    /\ phase' = "kill"
    /\ UNCHANGED <<procs, nextPid, shell, app>>

\* rm -rf, when the loop has come to its end
Wipe ==
    /\ app' = "empty"
    /\ procs' = procs \ {shell}
    /\ phase' = "over"
    /\ UNCHANGED list

\* The pid whose turn it is.
Pid == CHOOSE p \in list : \A q \in list \ {p} : LsBefore(p, q)

\* [ $pid -gt 1 ] && kill -9 $pid; the shell is on its own list
Kill ==
    /\ phase = "kill"
    /\ \/ list = {} /\ Wipe
       \/ /\ list # {}
          /\ list' = list \ {Pid}
          /\ procs' = IF Pid > 1 THEN procs \ {Pid} ELSE procs
          /\ phase' = IF shell \notin procs' THEN "over" ELSE phase
          /\ UNCHANGED app
    /\ UNCHANGED <<nextPid, shell, listed>>

\* release() puts the container back.
Over ==
    /\ phase = "over" \/ nextPid > MaxPid
    /\ UNCHANGED vars

Next == Fork \/ Exit \/ Exec \/ Ls \/ Kill \/ Over

Spec == Init /\ [][Next]_vars

-----------------------------------------------------------------------------

TypeOK ==
    /\ procs \subseteq 1..MaxPid
    /\ nextPid \in FirstPid..(MaxPid + 1)
    /\ shell \in {0} \cup FirstPid..MaxPid
    /\ phase \in {"before", "ls", "kill", "over"}
    /\ list \subseteq 1..MaxPid
    /\ listed \subseteq FirstPid..MaxPid
    /\ app \in {"files", "empty"}

\* "sanitized (stray processes killed, ...)" (container_pool.py:4-5), for the
\* processes that ls saw.
StrayProcessesKilled == phase = "over" => listed \cap procs = {}

\* "... /app wiped" (container_pool.py:4-5): when the container goes back to the
\* pool, nothing of the last job is in it.
AppWiped == phase = "over" => app = "empty"
=============================================================================
