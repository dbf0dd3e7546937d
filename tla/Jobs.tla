-------------------------------- MODULE Jobs --------------------------------
(***************************************************************************)
(* Kubernetes Jobs as the operator uses them.  `job' is a function from    *)
(* the Jobs that exist to their records.  A Job keeps the arguments (arg)  *)
(* its Pod template was built with; its Pod runs a script step by step and *)
(* keeps what the script wrote (got) for the container that publishes it.  *)
(* A Pod that fails is replaced BackoffLimit times; a failed Job stays.    *)
(***************************************************************************)
EXTENDS Naturals

CONSTANTS
    None,
    BackoffLimit      \* Pods a Job replaces before it fails (4 in the code)

NewJob(arg) == [state |-> "active", step |-> "start", tries |-> 0, arg |-> arg, got |-> None]

\* A Job that exists is left as it is, whatever became of it.
ensureJobs(job, jobs, arg) ==
    [n \in DOMAIN job \cup jobs |-> IF n \in DOMAIN job THEN job[n] ELSE NewJob(arg)]
ensureJob(job, j, arg) == ensureJobs(job, {j}, arg)

Without(job, deleted) == [n \in DOMAIN job \ deleted |-> job[n]]

Running(job, j, step) == j \in DOMAIN job /\ job[j].state = "active" /\ job[j].step = step
Advanced(job, j, step, got) == [job EXCEPT ![j].step = step, ![j].got = got]
Succeeded(job, j) == [job EXCEPT ![j].state = "succeeded", ![j].step = "start", ![j].got = None]
jobFailed(job, j) == j \in DOMAIN job /\ job[j].state = "failed"
jobSucceeded(job, j) == j \in DOMAIN job /\ job[j].state = "succeeded"

\* Mutant of AfterPod: there is always another Pod.
AfterPod_forever(job, j) == [job EXCEPT ![j].step = "start", ![j].tries = @ + 1, ![j].got = None]

AfterPod(job, j) ==
    IF job[j].tries = BackoffLimit
    THEN [job EXCEPT ![j].state = "failed", ![j].step = "start", ![j].got = None]
    ELSE [job EXCEPT ![j].tries = @ + 1, ![j].step = "start", ![j].got = None]
=============================================================================
