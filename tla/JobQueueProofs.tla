---------------------------- MODULE JobQueueProofs ----------------------------
(***************************************************************************)
(* Proofs about the promise of the job queue, for every set of jobs and    *)
(* workers and every retry budget.                                         *)
(***************************************************************************)
EXTENDS JobQueue, TLAPS

-----------------------------------------------------------------------------
LEMMA InitTypeOK == Init => TypeOK
BY DEF Init, TypeOK

LEMMA NextTypeOK == TypeOK /\ [Next]_vars => TypeOK'
<1> SUFFICES ASSUME TypeOK, [Next]_vars PROVE TypeOK'
  OBVIOUS
<1> USE DEF TypeOK, JobStatus
<1>1. CASE TimeOut
  BY <1>1 DEF TimeOut, Recovered
<1>2. ASSUME NEW j \in Jobs, Create(j) PROVE TypeOK'
  BY <1>2 DEF Create
<1>3. ASSUME NEW j \in Jobs, Start(j) PROVE TypeOK'
  BY <1>3 DEF Start
<1>4. ASSUME NEW j \in Jobs, Complete(j) PROVE TypeOK'
  BY <1>4 DEF Complete
<1>5. ASSUME NEW j \in Jobs, Dispatch(j) PROVE TypeOK'
  BY <1>5 DEF Dispatch
<1>6. ASSUME NEW j \in Jobs, Retry(j) PROVE TypeOK'
  BY <1>6 DEF Retry
<1>7. ASSUME NEW j \in Jobs, Exhaust(j) PROVE TypeOK'
  BY <1>7 DEF Exhaust
<1>8. ASSUME NEW j \in Jobs, Cancel(j) PROVE TypeOK'
  BY <1>8 DEF Cancel
<1>9. ASSUME NEW j \in Jobs, NEW w \in Workers, Claim(w, j) PROVE TypeOK'
  BY <1>9 DEF Claim
<1>10. CASE UNCHANGED vars
  BY <1>10 DEF vars
<1> QED
  BY <1>1, <1>2, <1>3, <1>4, <1>5, <1>6, <1>7, <1>8, <1>9, <1>10 DEF Next

\* Every row the queue can reach is well typed, and the completion handler of
\* a job has been called at most once.
THEOREM QueueTypeOK == Spec => []TypeOK
BY InitTypeOK, NextTypeOK, PTL DEF Spec

-----------------------------------------------------------------------------
\* What a status tells of the other columns, action by action.  The budget and
\* the ownership are inductive over the types alone: RetryBudget already says
\* that a job which is not failed has attempts left.
LEMMA InitRows ==
  Init => RetryBudget /\ OwnerMatchesStatus /\ FollowUpOnlyIfCompleted
BY QueueAssumption
   DEF Init, RetryBudget, OwnerMatchesStatus, FollowUpOnlyIfCompleted, Active

LEMMA NextRetryBudget ==
  TypeOK /\ RetryBudget /\ [Next]_vars => RetryBudget'
<1> SUFFICES ASSUME TypeOK, RetryBudget, [Next]_vars PROVE RetryBudget'
  OBVIOUS
<1> USE QueueAssumption DEF TypeOK, RetryBudget
<1>1. CASE TimeOut
  BY <1>1 DEF TimeOut, Recovered, Active
<1>2. ASSUME NEW j \in Jobs, Create(j) PROVE RetryBudget'
  BY <1>2 DEF Create
<1>3. ASSUME NEW j \in Jobs, Retry(j) PROVE RetryBudget'
  BY <1>3 DEF Retry, EnsureTransition, ValidTransitions, JobStatus
<1>4. ASSUME NEW j \in Jobs, Exhaust(j) PROVE RetryBudget'
  BY <1>4 DEF Exhaust, EnsureTransition, ValidTransitions, JobStatus
<1>5. ASSUME NEW j \in Jobs, Start(j) \/ Complete(j) \/ Cancel(j)
      PROVE RetryBudget'
  BY <1>5 DEF Start, Complete, Cancel, EnsureTransition, ValidTransitions, JobStatus
<1>6. ASSUME NEW j \in Jobs, NEW w \in Workers, Claim(w, j) PROVE RetryBudget'
  BY <1>6 DEF Claim, Active
<1>7. ASSUME NEW j \in Jobs, Dispatch(j) PROVE RetryBudget'
  BY <1>7 DEF Dispatch
<1>8. CASE UNCHANGED vars
  BY <1>8 DEF vars
<1> QED
  BY <1>1, <1>2, <1>3, <1>4, <1>5, <1>6, <1>7, <1>8 DEF Next

LEMMA NextOwner ==
  TypeOK /\ OwnerMatchesStatus /\ [Next]_vars => OwnerMatchesStatus'
<1> SUFFICES ASSUME TypeOK, OwnerMatchesStatus, [Next]_vars
             PROVE  OwnerMatchesStatus'
  OBVIOUS
<1> USE QueueAssumption DEF TypeOK, OwnerMatchesStatus, Active
<1>1. CASE TimeOut
  BY <1>1 DEF TimeOut, Recovered
<1>2. ASSUME NEW j \in Jobs, Create(j) PROVE OwnerMatchesStatus'
  BY <1>2 DEF Create
<1>3. ASSUME NEW j \in Jobs, Retry(j) PROVE OwnerMatchesStatus'
  BY <1>3 DEF Retry
<1>4. ASSUME NEW j \in Jobs,
             Start(j) \/ Complete(j) \/ Exhaust(j) \/ Cancel(j)
      PROVE OwnerMatchesStatus'
  BY <1>4 DEF Start, Complete, Exhaust, Cancel, EnsureTransition,
              ValidTransitions, JobStatus
<1>5. ASSUME NEW j \in Jobs, NEW w \in Workers, Claim(w, j)
      PROVE OwnerMatchesStatus'
  BY <1>5 DEF Claim
<1>6. ASSUME NEW j \in Jobs, Dispatch(j) PROVE OwnerMatchesStatus'
  BY <1>6 DEF Dispatch
<1>7. CASE UNCHANGED vars
  BY <1>7 DEF vars
<1> QED
  BY <1>1, <1>2, <1>3, <1>4, <1>5, <1>6, <1>7 DEF Next

\* No change of status leaves the table: also what makes a completion final.
LEMMA NextLegal ==
  ASSUME TypeOK, [Next]_vars, NEW k \in Jobs
  PROVE  LegalChange(status[k], status'[k])
<1> USE DEF TypeOK, LegalChange, EnsureTransition, ValidTransitions, JobStatus
<1>1. CASE TimeOut
  BY <1>1 DEF TimeOut, Recovered, Active
<1>2. ASSUME NEW j \in Jobs, Create(j)
      PROVE LegalChange(status[k], status'[k])
  BY <1>2 DEF Create
<1>3. ASSUME NEW j \in Jobs,
             \/ Start(j) \/ Complete(j) \/ Cancel(j) \/ Retry(j) \/ Exhaust(j)
      PROVE LegalChange(status[k], status'[k])
  BY <1>3 DEF Start, Complete, Cancel, Retry, Exhaust
<1>4. ASSUME NEW j \in Jobs, NEW w \in Workers, Claim(w, j)
      PROVE LegalChange(status[k], status'[k])
  BY <1>4 DEF Claim, Active
<1>5. ASSUME NEW j \in Jobs, Dispatch(j)
      PROVE LegalChange(status[k], status'[k])
  BY <1>5 DEF Dispatch
<1>6. CASE UNCHANGED vars
  BY <1>6 DEF vars
<1> QED
  BY <1>1, <1>2, <1>3, <1>4, <1>5, <1>6 DEF Next

LEMMA NextFollowUp ==
  TypeOK /\ FollowUpOnlyIfCompleted /\ [Next]_vars => FollowUpOnlyIfCompleted'
<1> SUFFICES ASSUME TypeOK, FollowUpOnlyIfCompleted, [Next]_vars,
                    NEW k \in Jobs, dispatched'[k] = 1
             PROVE  status'[k] = "completed"
  BY DEF FollowUpOnlyIfCompleted
<1>1. status[k] = "completed"
  <2>1. CASE dispatched[k] = 1
    BY <2>1 DEF FollowUpOnlyIfCompleted
  <2>2. CASE dispatched[k] # 1
    \* Only Dispatch changes the counter, and it asks for a completed job.
    <3>1. PICK j \in Jobs : Dispatch(j)
      BY <2>2 DEF Next, vars, TimeOut, Recovered, Create, Start, Complete,
                  Retry, Exhaust, Cancel, Claim
    <3> QED
      BY <2>2, <3>1 DEF Dispatch, TypeOK
  <2> QED
    BY <2>1, <2>2
<1>2. LegalChange(status[k], status'[k])
  BY NextLegal
<1> QED
  BY <1>1, <1>2 DEF LegalChange, EnsureTransition, ValidTransitions, Active

-----------------------------------------------------------------------------
\* fail_job: a job is given up exactly when max_attempts failures are on its
\* row, whatever recoveries and claims happen in between.
THEOREM RetryBudgetHolds == Spec => []RetryBudget
BY QueueTypeOK, InitRows, NextRetryBudget, PTL DEF Spec

\* A queued job belongs to no worker, and a job in work, completed or failed
\* names the worker it was claimed by.
THEOREM OwnerMatchesStatusHolds == Spec => []OwnerMatchesStatus
BY QueueTypeOK, InitRows, NextOwner, PTL DEF Spec

\* The follow-up of a job is created only after it was completed, and the job
\* stays completed.
THEOREM FollowUpHolds == Spec => []FollowUpOnlyIfCompleted
BY QueueTypeOK, InitRows, NextFollowUp, PTL DEF Spec

\* Every change of status is one VALID_TRANSITIONS allows.
THEOREM TransitionsValidHolds == Spec => TransitionsValid
<1>1. TypeOK /\ [Next]_vars
        => [\A j \in Jobs : LegalChange(status[j], status'[j])]_status
  BY NextLegal
<1> QED
  BY <1>1, QueueTypeOK, PTL DEF Spec, TransitionsValid

\* All of it together, for the modules that run the queue: what workers, polls and
\* handlers rely on whatever is built on top.
THEOREM QueuePromise ==
  Spec => /\ []RetryBudget /\ []OwnerMatchesStatus /\ []FollowUpOnlyIfCompleted
          /\ TransitionsValid
BY RetryBudgetHolds, OwnerMatchesStatusHolds, FollowUpHolds, TransitionsValidHolds, PTL
=============================================================================
