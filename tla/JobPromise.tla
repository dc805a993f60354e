----------------------------- MODULE JobPromise -----------------------------
(***************************************************************************)
(* What running a custom tool through the job queue promises its caller    *)
(* (CustomTool.Execute, jobqueue.Worker): an answer is given at most once, *)
(* a success only after a run succeeded, a failure only after the job had  *)
(* its first attempt and all its retries, or has no handler at all.        *)
(***************************************************************************)
EXTENDS Naturals

CONSTANTS Jobs,            \* the jobs enqueued, one per tool call
          Handled,         \* those whose type a worker has a handler for
          DefaultRetries   \* cfg.JobQueue.DefaultRetries

VARIABLES runs,   \* how often the handler was started on a job
          wins,   \* a run of the job ended with output that is valid JSON
          told    \* what Execute reported to the agent

vars == <<runs, wins, told>>

Init ==
    /\ runs = [j \in Jobs |-> 0]
    /\ wins = [j \in Jobs |-> FALSE]
    /\ told = [j \in Jobs |-> "nothing"]

Attempt(j) ==
    /\ j \in Handled
    /\ runs' = [runs EXCEPT ![j] = @ + 1]
    /\ UNCHANGED <<wins, told>>

Succeed(j) ==
    /\ runs[j] > 0
    /\ wins' = [wins EXCEPT ![j] = TRUE]
    /\ UNCHANGED <<runs, told>>

\* "gaveup": the caller left, or Redis failed it.
Justified(j, answer) ==
    \/ answer = "gaveup"
    \/ answer = "ok" /\ wins[j]
    \/ answer = "failed" /\ (j \notin Handled \/ runs[j] > DefaultRetries)

Answer(j) ==
    /\ told[j] = "nothing"
    /\ \E a \in {"ok", "failed", "gaveup"} :
           Justified(j, a) /\ told' = [told EXCEPT ![j] = a]
    /\ UNCHANGED <<runs, wins>>

Next == \E j \in Jobs : Attempt(j) \/ Succeed(j) \/ Answer(j)

Spec == Init /\ [][Next]_vars
=============================================================================
