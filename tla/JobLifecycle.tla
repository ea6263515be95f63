---------------------------- MODULE JobLifecycle ----------------------------
(***************************************************************************)
(* What the CI server promises of a job, whatever happens to workers,      *)
(* messages and processes: it waits, it is run at most MaxAttempts times,  *)
(* one run at a time, it is run again only when a run ended without a      *)
(* verdict, and once it has ended it stays as it is.                       *)
(***************************************************************************)
EXTENDS Naturals

CONSTANTS Jobs, MaxAttempts

VARIABLES
    status,   \* status[j]: the status of job j
    granted   \* granted[j]: how often a worker has been given j

Init == /\ status = [j \in Jobs |-> "absent"]
        /\ granted = [j \in Jobs |-> 0]

Becomes(j, s) == status'[j] = s /\ granted'[j] = granted[j]

Submit(j) == status[j] = "absent" /\ Becomes(j, "QUEUED")

Grant(j) == /\ status[j] = "QUEUED" /\ granted[j] < MaxAttempts
            /\ status'[j] = "RUNNING" /\ granted'[j] = granted[j] + 1

Finish(j) == status[j] = "RUNNING" /\ (Becomes(j, "SUCCEEDED") \/ Becomes(j, "FAILED"))

Retry(j) == status[j] = "RUNNING" /\ granted[j] < MaxAttempts /\ Becomes(j, "QUEUED")

GiveUp(j) == status[j] = "RUNNING" /\ granted[j] = MaxAttempts /\ Becomes(j, "ERRORED")

\* Several jobs may move at once: a tick of the reaper commits all it has done.
Next == \A j \in Jobs :
           \/ Submit(j) \/ Grant(j) \/ Finish(j) \/ Retry(j) \/ GiveUp(j)
           \/ Becomes(j, status[j])

Spec == Init /\ [][Next]_<<status, granted>>
=============================================================================
