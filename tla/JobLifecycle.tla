---------------------------- MODULE JobLifecycle ----------------------------
(***************************************************************************)
(* What a worker pool promises about the jobs it accepts, with no threads, *)
(* locks or queue: jobs are accepted in id order while the pool is open,   *)
(* start in id order, and end in exactly one of completed, failed and      *)
(* cancelled.  A job withdrawn before it starts never starts.  Closing the *)
(* pool withdraws every job that has not started, for good.                *)
(***************************************************************************)
EXTENDS Naturals

CONSTANT MaxJobs    \* bound on the number of jobs ever accepted

VARIABLES
    status,   \* status[j]: where job j is in its life
    open      \* the pool still accepts and starts jobs

lifecycleVars == <<status, open>>

JobIds == 0 .. MaxJobs - 1

Ended == {"completed", "failed", "cancelled"}

Status == {"none", "queued", "withdrawn", "running"} \union Ended

LifecycleTypeOK ==
    /\ status \in [JobIds -> Status]
    /\ open \in BOOLEAN

Move(j, from, to) ==
    /\ status[j] = from
    /\ status' = [status EXCEPT ![j] = to]
    /\ UNCHANGED open

Init ==
    /\ status = [j \in JobIds |-> "none"]
    /\ open = TRUE

Accept(j) ==
    /\ open
    /\ \A i \in JobIds : i < j => status[i] # "none"
    /\ Move(j, "none", "queued")

Start(j) ==
    /\ open
    /\ \A i \in JobIds : i < j => status[i] # "queued"
    /\ Move(j, "queued", "running")

Withdraw(j) == Move(j, "queued", "withdrawn")

CancelWithdrawn(j) == Move(j, "withdrawn", "cancelled")

End(j) == \E result \in Ended : Move(j, "running", result)

Close ==
    /\ open
    /\ open' = FALSE
    /\ status' = [j \in JobIds |->
                    IF status[j] = "queued" THEN "withdrawn" ELSE status[j]]

Next ==
    \/ \E j \in JobIds : \/ Accept(j)
                         \/ Start(j)
                         \/ Withdraw(j)
                         \/ CancelWithdrawn(j)
                         \/ End(j)
    \/ Close

Spec == Init /\ [][Next]_lifecycleVars

=============================================================================
