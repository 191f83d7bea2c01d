------------------------------- MODULE JobQueue -------------------------------
(***************************************************************************)
(* What the job queue of app/services/job_service.py promises when each of *)
(* its operations is taken as one indivisible step: the life cycle of a    *)
(* job row, the retry budget, and the single dispatch of the follow-up     *)
(* handler.  Time is abstracted: a lease may run out whenever a job is     *)
(* active.  JobService models the operations as the database executes      *)
(* them and is shown to implement this module when requests do not overlap.*)
(***************************************************************************)
EXTENDS Integers

CONSTANTS
  Jobs,         \* job rows
  Workers,      \* worker ids
  NoWorker,     \* worker_id IS NULL
  MaxAttempts   \* column max_attempts of each job

ASSUME QueueAssumption ==
  /\ NoWorker \notin Workers
  /\ MaxAttempts \in [Jobs -> Nat \ {0}]

VARIABLES
  status,       \* column status; "none": the row does not exist yet
  owner,        \* column worker_id
  attempts,     \* column attempts
  dispatched    \* how often the completion handler of the job was called

vars == <<status, owner, attempts, dispatched>>

JobStatus == {"pending", "assigned", "processing",
              "completed", "failed", "cancelled"}

Active == {"assigned", "processing"}

\* The table VALID_TRANSITIONS: the statuses a job may move to.
ValidTransitions ==
  [pending    |-> {"assigned", "cancelled"},
   assigned   |-> {"processing", "pending", "cancelled"},
   processing |-> {"completed", "failed", "pending"},
   failed     |-> {"pending"},
   completed  |-> {},
   cancelled  |-> {}]

\* _ensure_transition: the guard every report of a worker goes through.
EnsureTransition(current, new) ==
  /\ current \in JobStatus
  /\ new \in ValidTransitions[current]

Init ==
  /\ status = [j \in Jobs |-> "none"]
  /\ owner = [j \in Jobs |-> NoWorker]
  /\ attempts = [j \in Jobs |-> 0]
  /\ dispatched = [j \in Jobs |-> 0]

-----------------------------------------------------------------------------
Create(j) ==
  /\ status[j] = "none"
  /\ status' = [status EXCEPT ![j] = "pending"]
  /\ UNCHANGED <<owner, attempts, dispatched>>

\* Mutant: the recovery keeps worker_id.
Recovered_KeepsOwner(R) ==
  /\ R \subseteq {j \in Jobs : status[j] \in Active}
  /\ status' = [j \in Jobs |-> IF j \in R THEN "pending" ELSE status[j]]
  /\ UNCHANGED <<owner, attempts, dispatched>>

\* The jobs of R lose their lease: back to the queue, without an owner.
Recovered(R) ==
  /\ R \subseteq {j \in Jobs : status[j] \in Active}
  /\ status' = [j \in Jobs |-> IF j \in R THEN "pending" ELSE status[j]]
  /\ owner' = [j \in Jobs |-> IF j \in R THEN NoWorker ELSE owner[j]]
  /\ UNCHANGED <<attempts, dispatched>>

\* A poll that recovers the jobs of R and hands nothing out.
TimeOut == \E R \in SUBSET Jobs : Recovered(R)

\* A poll that recovers the jobs of R and hands job j to worker w.
Claim(w, j) ==
  \E R \in SUBSET {k \in Jobs : status[k] \in Active} :
    /\ j \in R \/ status[j] = "pending"
    /\ status' = [k \in Jobs |-> IF k = j THEN "assigned"
                                 ELSE IF k \in R THEN "pending" ELSE status[k]]
    /\ owner' = [k \in Jobs |-> IF k = j THEN w
                                ELSE IF k \in R THEN NoWorker ELSE owner[k]]
    /\ UNCHANGED <<attempts, dispatched>>

Start(j) ==
  /\ EnsureTransition(status[j], "processing")
  /\ status' = [status EXCEPT ![j] = "processing"]
  /\ UNCHANGED <<owner, attempts, dispatched>>

Complete(j) ==
  /\ EnsureTransition(status[j], "completed")
  /\ status' = [status EXCEPT ![j] = "completed"]
  /\ UNCHANGED <<owner, attempts, dispatched>>

\* The handler runs after the commit of the completion, once.
Dispatch(j) ==
  /\ status[j] = "completed"
  /\ dispatched[j] = 0
  /\ dispatched' = [dispatched EXCEPT ![j] = 1]
  /\ UNCHANGED <<status, owner, attempts>>

\* Mutant: one retry too many.
Retry_OffByOne(j) ==
  /\ EnsureTransition(status[j], "failed")
  /\ attempts[j] + 1 <= MaxAttempts[j]
  /\ status' = [status EXCEPT ![j] = "pending"]
  /\ owner' = [owner EXCEPT ![j] = NoWorker]
  /\ attempts' = [attempts EXCEPT ![j] = @ + 1]
  /\ UNCHANGED dispatched

\* A failure that leaves attempts in the budget: the job is queued again.
Retry(j) ==
  /\ EnsureTransition(status[j], "failed")
  /\ attempts[j] + 1 < MaxAttempts[j]
  /\ status' = [status EXCEPT ![j] = "pending"]
  /\ owner' = [owner EXCEPT ![j] = NoWorker]
  /\ attempts' = [attempts EXCEPT ![j] = @ + 1]
  /\ UNCHANGED dispatched

\* The last failure of the budget; the worker stays named on the row.
Exhaust(j) ==
  /\ EnsureTransition(status[j], "failed")
  /\ attempts[j] + 1 >= MaxAttempts[j]
  /\ status' = [status EXCEPT ![j] = "failed"]
  /\ attempts' = [attempts EXCEPT ![j] = @ + 1]
  /\ UNCHANGED <<owner, dispatched>>

\* Mutant: a job is cancelled whatever its status.
Cancel_Unchecked(j) ==
  /\ status[j] # "none"
  /\ status' = [status EXCEPT ![j] = "cancelled"]
  /\ UNCHANGED <<owner, attempts, dispatched>>

Cancel(j) ==
  /\ EnsureTransition(status[j], "cancelled")
  /\ status' = [status EXCEPT ![j] = "cancelled"]
  /\ UNCHANGED <<owner, attempts, dispatched>>

Next ==
  \/ TimeOut
  \/ \E j \in Jobs :
       \/ Create(j) \/ Start(j) \/ Complete(j) \/ Dispatch(j)
       \/ Retry(j) \/ Exhaust(j) \/ Cancel(j)
       \/ \E w \in Workers : Claim(w, j)

Spec == Init /\ [][Next]_vars

-----------------------------------------------------------------------------
TypeOK ==
  /\ status \in [Jobs -> JobStatus \cup {"none"}]
  /\ owner \in [Jobs -> Workers \cup {NoWorker}]
  /\ attempts \in [Jobs -> Nat]
  /\ dispatched \in [Jobs -> {0, 1}]

\* The retry budget of fail_job, exactly: a job is given up when, and only
\* when, max_attempts failures were reported; lease recoveries are free.
RetryBudget ==
  \A j \in Jobs :
    /\ attempts[j] <= MaxAttempts[j]
    /\ (status[j] = "failed") <=> (attempts[j] = MaxAttempts[j])

\* A job in the queue has no owner and a job being worked on has one, across
\* every path back to the queue (recovery, retry) and out of it.
OwnerMatchesStatus ==
  \A j \in Jobs :
    /\ status[j] \in {"none", "pending"} => owner[j] = NoWorker
    /\ status[j] \in Active \cup {"completed", "failed"} => owner[j] \in Workers

\* The follow-up of a job is created only for a job that is, and stays,
\* completed.
FollowUpOnlyIfCompleted ==
  \A j \in Jobs : dispatched[j] = 1 => status[j] = "completed"

\* A job that reached completed or cancelled never leaves it, and no other
\* change of status leaves the table VALID_TRANSITIONS (a recovered job may
\* be assigned again in the same step).
LegalChange(from, to) ==
  \/ from = to
  \/ from = "none" /\ to = "pending"
  \/ EnsureTransition(from, to)
  \/ from \in Active /\ to = "assigned"

TransitionsValid ==
  [][\A j \in Jobs : LegalChange(status[j], status'[j])]_status
=============================================================================
