--------------------------- MODULE JobServiceProofs ---------------------------
(***************************************************************************)
(* Proofs about the coordinator's job table, for any number of overlapping *)
(* requests, jobs and workers.                                             *)
(***************************************************************************)
EXTENDS JobService, TLAPS

\* What a request carries from its read to its commit.
RequestsOK ==
  \A r \in Slots :
    /\ tx[r].op # "idle" => tx[r].job \in Jobs
    /\ tx[r].op = "claim" => tx[r].by \in Workers
    /\ tx[r].op \in {"claim", "start", "heartbeat"} => tx[r].timer \in -1 .. LeaseTicks
    /\ tx[r].op = "fail" => tx[r].timer \in Int

\* FOR UPDATE SKIP LOCKED: no row is in the hands of two polls, neither one they hand
\* out nor one they recover.
ClaimsDisjoint ==
  \A q, r \in Slots : q # r => LocksOf(q) \cap LocksOf(r) = {}

\* Rows a poll has locked are still as the poll found them: this is what row
\* locks are for, and why a claim never takes a job from a working owner.
ClaimsFresh ==
  \A r \in Slots : tx[r].op = "claim" =>
    /\ status[tx[r].job] = "pending" \/ tx[r].job \in tx[r].expired
    /\ \A j \in tx[r].expired : Lapsed(j)

TypeInv == TypeOK /\ RequestsOK

-----------------------------------------------------------------------------
\* Types.  A request's record is written once and read once: what the commit
\* stores was typed when it was read.
LEMMA IdleIsRequest == Idle \in Request
BY ServiceAssumption DEF Idle, Request, Ops

LEMMA RequestUpdate ==
  ASSUME NEW t \in Request
  PROVE  /\ \A n \in Int \cup {NoLease} :
              /\ [t EXCEPT !.timer = n] \in Request
              /\ [t EXCEPT !.timer = n].timer = n
              /\ [t EXCEPT !.timer = n].op = t.op
              /\ [t EXCEPT !.timer = n].job = t.job
              /\ [t EXCEPT !.timer = n].by = t.by
              /\ [t EXCEPT !.timer = n].expired = t.expired
         /\ \A p \in Ops :
              /\ [t EXCEPT !.op = p] \in Request
              /\ [t EXCEPT !.op = p].op = p
              /\ [t EXCEPT !.op = p].job = t.job
BY DEF Request

LEMMA CountdownType ==
  /\ \A t \in -1 .. LeaseTicks : Countdown(t) \in -1 .. LeaseTicks
  /\ \A t \in Int : Countdown(t) \in Int
  /\ Countdown(NoLease) = NoLease
BY ServiceAssumption DEF Countdown

LEMMA InitTypeInv == Init => TypeInv
BY ServiceAssumption, IdleIsRequest
   DEF Init, TypeInv, TypeOK, RequestsOK, Idle

\* A slot that is freed keeps the invariant of the requests.
LEMMA DoneRequestsOK ==
  ASSUME TypeOK, RequestsOK, NEW r \in Slots, Done(r)
  PROVE  tx' \in [Slots -> Request] /\ RequestsOK'
BY IdleIsRequest DEF TypeOK, RequestsOK, Done, Idle

\* A slot that takes up a well formed request keeps it, too.
LEMMA TakeRequestsOK ==
  ASSUME TypeOK, RequestsOK, NEW r \in Slots, NEW t \in Request,
         tx' = [tx EXCEPT ![r] = t], t.job \in Jobs,
         t.op = "claim" => t.by \in Workers,
         t.op \in {"claim", "start", "heartbeat"} => t.timer \in -1 .. LeaseTicks,
         t.op = "fail" => t.timer \in Int
  PROVE  tx' \in [Slots -> Request] /\ RequestsOK'
BY DEF TypeOK, RequestsOK

LEMMA ReadTypeInv ==
  ASSUME TypeInv, NEW r \in Slots, NEW op \in Ops \ {"claim"},
         NEW j \in Jobs, NEW w \in Workers \cup {NoWorker},
         NEW n \in Int \cup {NoLease}, NEW a \in 0 .. AttemptCap,
         op \in {"start", "heartbeat"} => n \in -1 .. LeaseTicks,
         op = "fail" => n \in Int,
         Read(r, op, w, j, n, a)
  PROVE  TypeInv'
<1> DEFINE t == [op |-> op, job |-> j, by |-> w, timer |-> n,
                 attempts |-> a, expired |-> {}]
<1>1. /\ t \in Request /\ t.job \in Jobs /\ t.op # "claim"
      /\ t.op \in {"start", "heartbeat"} => t.timer \in -1 .. LeaseTicks
      /\ t.op = "fail" => t.timer \in Int
  BY DEF Request
<1>2. tx' = [tx EXCEPT ![r] = t]
  BY DEF Read
<1>3. tx' \in [Slots -> Request] /\ RequestsOK'
  <2> HIDE DEF t
  <2> QED
    BY <1>1, <1>2, TakeRequestsOK DEF TypeInv
<1>4. UNCHANGED <<status, owner, attempts, lease, wait, held, dispatched>>
  BY DEF Read, table
<1> QED
  BY <1>3, <1>4 DEF TypeInv, TypeOK

LEMMA ReportTypeInv ==
  ASSUME TypeInv, NEW r \in Slots, NEW j \in Jobs, NEW w \in Workers,
         Report(r, w, j)
  PROVE  TypeInv'
<1> USE ServiceAssumption
<1>1. LeaseTicks \in -1 .. LeaseTicks /\ 0 \in 0 .. AttemptCap
  OBVIOUS
<1>2. CASE StartRead(r, w, j)
  BY <1>1, <1>2, ReadTypeInv DEF StartRead, Ops
<1>3. CASE CompleteRead(r, w, j)
  BY <1>1, <1>3, ReadTypeInv DEF CompleteRead, Ops
<1>4. CASE FailRead(r, w, j)
  <2>1. Backoff[attempts[j] + 1] \in Int /\ attempts[j] + 1 \in 0 .. AttemptCap
    BY <1>4 DEF FailRead, TypeInv, TypeOK
  <2> QED
    BY <1>4, <2>1, ReadTypeInv DEF FailRead, Ops
<1>5. CASE HeartbeatRead(r, w, j)
  BY <1>1, <1>5, ReadTypeInv DEF HeartbeatRead, Ops
<1> QED
  BY <1>2, <1>3, <1>4, <1>5 DEF Report

LEMMA CancelReadTypeInv ==
  ASSUME TypeInv, NEW r \in Slots, NEW j \in Jobs, CancelRead(r, j)
  PROVE  TypeInv'
<1>1. lease[j] \in Int \cup {NoLease} /\ 0 \in 0 .. AttemptCap
  BY ServiceAssumption DEF TypeInv, TypeOK
<1> QED
  BY <1>1, ReadTypeInv DEF CancelRead, Ops

LEMMA ClaimSelectTypeInv ==
  ASSUME TypeInv, NEW r \in Slots, NEW w \in Workers, ClaimSelect(r, w)
  PROVE  TypeInv'
<1>1. PICK j \in Claimable(r) :
        tx' = [tx EXCEPT ![r] =
                 [op |-> "claim", job |-> j, by |-> w, timer |-> LeaseTicks,
                  attempts |-> 0, expired |-> Expired]]
  BY DEF ClaimSelect
<1> DEFINE t == [op |-> "claim", job |-> j, by |-> w, timer |-> LeaseTicks,
                 attempts |-> 0, expired |-> Expired]
<1>2. j \in Jobs /\ Expired \subseteq Jobs
  BY <1>1 DEF Claimable, Expired
<1>3. /\ t \in Request /\ t.job \in Jobs /\ t.by \in Workers
      /\ t.timer \in -1 .. LeaseTicks /\ t.op = "claim"
  BY <1>2, ServiceAssumption DEF Request, Ops
<1>4. tx' \in [Slots -> Request] /\ RequestsOK'
  <2>1. tx' = [tx EXCEPT ![r] = t]
    BY <1>1
  <2> HIDE DEF t
  <2> QED
    BY <1>3, <2>1, TakeRequestsOK DEF TypeInv
<1>5. UNCHANGED <<status, owner, attempts, lease, wait, held, dispatched>>
  BY DEF ClaimSelect, table
<1> QED
  BY <1>4, <1>5 DEF TypeInv, TypeOK

LEMMA ClaimCommitTypeInv ==
  ASSUME TypeInv, NEW r \in Slots, ClaimCommit(r)
  PROVE  TypeInv'
<1>1. /\ tx[r].job \in Jobs /\ tx[r].by \in Workers
      /\ tx[r].timer \in -1 .. LeaseTicks
  BY DEF ClaimCommit, TypeInv, RequestsOK
<1>2. /\ status' \in [Jobs -> Queue!JobStatus \cup {"none"}]
      /\ owner' \in [Jobs -> Workers \cup {NoWorker}]
      /\ lease' \in [Jobs -> (-1 .. LeaseTicks) \cup {NoLease}]
  <2> DEFINE n == tx[r].timer
             k == tx[r].job
             w == tx[r].by
             E == tx[r].expired
  <2>1. n \in -1 .. LeaseTicks /\ w \in Workers
    BY <1>1
  <2>2. /\ status' = [j \in Jobs |-> IF j = k THEN "assigned"
                                     ELSE IF j \in E THEN "pending" ELSE status[j]]
        /\ owner' = [j \in Jobs |-> IF j = k THEN w
                                    ELSE IF j \in E THEN NoWorker ELSE owner[j]]
        /\ lease' = [j \in Jobs |-> IF j = k THEN n
                                    ELSE IF j \in E THEN NoLease ELSE lease[j]]
    BY DEF ClaimCommit
  <2> HIDE DEF n, k, w, E
  <2> QED
    BY <2>1, <2>2 DEF TypeInv, TypeOK, Queue!JobStatus
<1>3. held' \in [Workers -> SUBSET Jobs]
  <2>1. CASE held' = held
    BY <2>1 DEF TypeInv, TypeOK
  <2>2. CASE held' = [held EXCEPT ![tx[r].by] = @ \cup {tx[r].job}]
    BY <1>1, <2>2 DEF TypeInv, TypeOK
  <2> QED
    BY <2>1, <2>2 DEF ClaimCommit
<1>4. Done(r) /\ UNCHANGED <<attempts, wait, dispatched>>
  BY DEF ClaimCommit, Done
<1>5. tx' \in [Slots -> Request] /\ RequestsOK'
  BY <1>4, DoneRequestsOK DEF TypeInv
<1> QED
  BY <1>2, <1>3, <1>4, <1>5 DEF TypeInv, TypeOK

LEMMA ClaimEmptyTypeInv ==
  ASSUME TypeInv, NEW r \in Slots, ClaimEmpty(r)
  PROVE  TypeInv'
BY DEF ClaimEmpty, TypeInv, TypeOK, RequestsOK, Queue!JobStatus

\* The commits that free their slot: what they store was checked at the read.
LEMMA CommitTypeInv ==
  ASSUME TypeInv, NEW r \in Slots,
         \/ StartCommit(r) \/ RetryCommit(r) \/ ExhaustCommit(r)
         \/ HeartbeatCommit(r) \/ CancelCommit(r) \/ Dispatch(r) \/ Abort(r)
  PROVE  TypeInv'
<1>1. tx' \in [Slots -> Request] /\ RequestsOK'
  BY DoneRequestsOK DEF TypeInv, StartCommit, RetryCommit, ExhaustCommit,
     HeartbeatCommit, CancelCommit, Dispatch, Abort
<1>2. tx[r].op # "idle" => tx[r].job \in Jobs
  BY DEF TypeInv, RequestsOK
<1>3. tx[r].attempts \in 0 .. AttemptCap
  BY DEF TypeInv, TypeOK, Request
<1>4. /\ tx[r].op \in {"start", "heartbeat"} => tx[r].timer \in -1 .. LeaseTicks
      /\ tx[r].op = "fail" => tx[r].timer \in Int
  BY DEF TypeInv, RequestsOK
<1> USE DEF TypeOK, Writes, Queue!JobStatus
<1>5. CASE StartCommit(r)
  BY <1>1, <1>2, <1>4, <1>5 DEF StartCommit, TypeInv
<1>6. CASE RetryCommit(r)
  BY <1>1, <1>2, <1>3, <1>4, <1>6 DEF RetryCommit, TypeInv
<1>7. CASE ExhaustCommit(r)
  BY <1>1, <1>2, <1>3, <1>7 DEF ExhaustCommit, TypeInv
<1>8. CASE HeartbeatCommit(r)
  BY <1>1, <1>2, <1>4, <1>8 DEF HeartbeatCommit, TypeInv
<1>9. CASE CancelCommit(r)
  BY <1>1, <1>2, <1>9 DEF CancelCommit, TypeInv
<1>10. CASE Dispatch(r)
  <2>1. \A n \in 0 .. 2 : (IF n = 2 THEN 2 ELSE n + 1) \in 0 .. 2
    OBVIOUS
  <2>2. dispatched' \in [Jobs -> 0 .. 2]
    BY <1>2, <1>10, <2>1 DEF Dispatch, TypeInv
  <2> QED
    BY <1>1, <1>10, <2>2 DEF Dispatch, TypeInv, table
<1>11. CASE Abort(r)
  BY <1>1, <1>11 DEF Abort, TypeInv, table
<1> QED
  BY <1>5, <1>6, <1>7, <1>8, <1>9, <1>10, <1>11

LEMMA CompleteCommitTypeInv ==
  ASSUME TypeInv, NEW r \in Slots, CompleteCommit(r)
  PROVE  TypeInv'
<1>1. tx[r] \in Request /\ tx[r].job \in Jobs
  BY DEF CompleteCommit, Writes, TypeInv, TypeOK, RequestsOK
<1> DEFINE t == [tx[r] EXCEPT !.op = "dispatch"]
<1>2. t \in Request /\ t.job \in Jobs /\ t.op = "dispatch"
  BY <1>1, RequestUpdate DEF Ops
<1>3. tx' = [tx EXCEPT ![r] = t]
  BY DEF CompleteCommit
<1>4. tx' \in [Slots -> Request] /\ RequestsOK'
  <2> HIDE DEF t
  <2> QED
    BY <1>2, <1>3, TakeRequestsOK DEF TypeInv
<1> QED
  BY <1>1, <1>4 DEF CompleteCommit, TypeInv, TypeOK, Queue!JobStatus

LEMMA TickTypeInv == TypeInv /\ Tick => TypeInv'
<1> SUFFICES ASSUME TypeInv, Tick PROVE TypeInv'
  OBVIOUS
<1>1. lease' \in [Jobs -> (-1 .. LeaseTicks) \cup {NoLease}]
      /\ wait' \in [Jobs -> Int]
  BY CountdownType DEF Tick, TypeInv, TypeOK
<1>2. ASSUME NEW r \in Slots
      PROVE  /\ tx'[r] \in Request
             /\ tx'[r].op = tx[r].op /\ tx'[r].job = tx[r].job /\ tx'[r].by = tx[r].by
             /\ tx'[r].timer = Countdown(tx[r].timer)
  <2>1. tx[r] \in Request
    BY DEF TypeInv, TypeOK
  <2>2. Countdown(tx[r].timer) \in Int \cup {NoLease}
    BY <2>1, CountdownType DEF Request
  <2>3. tx'[r] = [tx[r] EXCEPT !.timer = Countdown(tx[r].timer)]
    BY DEF Tick
  <2> QED
    BY <2>1, <2>2, <2>3, RequestUpdate
<1>3. tx' \in [Slots -> Request]
  BY <1>2 DEF Tick
<1>4. RequestsOK'
  <2> SUFFICES ASSUME NEW r \in Slots
               PROVE  /\ tx'[r].op # "idle" => tx'[r].job \in Jobs
                      /\ tx'[r].op = "claim" => tx'[r].by \in Workers
                      /\ tx'[r].op \in {"claim", "start", "heartbeat"}
                           => tx'[r].timer \in -1 .. LeaseTicks
                      /\ tx'[r].op = "fail" => tx'[r].timer \in Int
    BY DEF RequestsOK
  <2> QED
    BY <1>2, CountdownType DEF TypeInv, RequestsOK
<1> QED
  BY <1>1, <1>3, <1>4 DEF Tick, TypeInv, TypeOK

LEMMA NextTypeInv == TypeInv /\ [Next]_vars => TypeInv'
<1> SUFFICES ASSUME TypeInv, [Next]_vars PROVE TypeInv'
  OBVIOUS
<1>1. ASSUME NEW j \in Jobs, CreateJob(j) PROVE TypeInv'
  BY <1>1 DEF CreateJob, TypeInv, TypeOK, RequestsOK, Queue!JobStatus
<1>2. ASSUME NEW w \in Workers, NEW j \in Jobs, Forget(w, j) PROVE TypeInv'
  BY <1>2 DEF Forget, TypeInv, TypeOK, RequestsOK, table
<1>3. CASE UNCHANGED vars
  BY <1>3 DEF vars, TypeInv, TypeOK, RequestsOK
<1> QED
  BY <1>1, <1>2, <1>3, TickTypeInv, ReportTypeInv, CancelReadTypeInv,
     ClaimSelectTypeInv, ClaimCommitTypeInv, ClaimEmptyTypeInv, CommitTypeInv,
     CompleteCommitTypeInv DEF Next, Poll, Commit

\* Every reachable row and request is well typed, however requests overlap.
THEOREM ServiceTypeOK == Spec => []TypeOK
<1>1. Spec => []TypeInv
  BY InitTypeInv, NextTypeInv, PTL DEF Spec
<1> QED
  BY <1>1, PTL DEF TypeInv

-----------------------------------------------------------------------------
\* Only the commits write rows.
LEMMA ReadsLeaveRows ==
  ASSUME NEW r \in Slots, NEW j \in Jobs,
         \/ CancelRead(r, j)
         \/ \E w \in Workers : Report(r, w, j) \/ ClaimSelect(r, w)
  PROVE  UNCHANGED <<status, owner, attempts, lease, wait>>
BY DEF CancelRead, Report, StartRead, CompleteRead, FailRead, HeartbeatRead,
       Read, ClaimSelect, table

\* Recoverability.  Every commit that makes a job active writes its lease, and
\* every commit that clears the lease takes the job out of the active statuses.
LEMMA NextActiveHasLease ==
  TypeInv /\ ActiveHasLease /\ [Next]_vars => ActiveHasLease'
<1> SUFFICES ASSUME TypeInv, ActiveHasLease, [Next]_vars, NEW k \in Jobs,
                    status'[k] \in Active
             PROVE  lease'[k] # NoLease
  BY DEF ActiveHasLease
<1> USE ServiceAssumption DEF TypeInv, TypeOK, ActiveHasLease, Active,
        Queue!Active, Writes, Done
<1>a. \A r \in Slots : tx[r].op \in {"claim", "start", "heartbeat"}
                         => tx[r].timer # NoLease
  BY DEF RequestsOK
<1>1. CASE Tick
  BY <1>1 DEF Tick, Countdown
<1>2. ASSUME NEW j \in Jobs, CreateJob(j) PROVE lease'[k] # NoLease
  BY <1>2 DEF CreateJob
<1>3. ASSUME NEW w \in Workers, NEW j \in Jobs, Forget(w, j)
      PROVE lease'[k] # NoLease
  BY <1>3 DEF Forget, table
<1>4. ASSUME NEW r \in Slots, ClaimCommit(r) PROVE lease'[k] # NoLease
  BY <1>4, <1>a DEF ClaimCommit
<1>5. ASSUME NEW r \in Slots, ClaimEmpty(r) PROVE lease'[k] # NoLease
  BY <1>5 DEF ClaimEmpty
<1>6. ASSUME NEW r \in Slots, StartCommit(r) \/ HeartbeatCommit(r)
      PROVE lease'[k] # NoLease
  BY <1>6, <1>a DEF StartCommit, HeartbeatCommit
<1>7. ASSUME NEW r \in Slots, CompleteCommit(r) PROVE lease'[k] # NoLease
  BY <1>7 DEF CompleteCommit
<1>8. ASSUME NEW r \in Slots, RetryCommit(r) \/ ExhaustCommit(r)
      PROVE lease'[k] # NoLease
  BY <1>8 DEF RetryCommit, ExhaustCommit
<1>9. ASSUME NEW r \in Slots, CancelCommit(r) PROVE lease'[k] # NoLease
  BY <1>9 DEF CancelCommit
<1>10. ASSUME NEW r \in Slots, Dispatch(r) \/ Abort(r) PROVE lease'[k] # NoLease
  BY <1>10 DEF Dispatch, Abort, table
<1>11. CASE UNCHANGED vars
  BY <1>11 DEF vars
<1>12. ASSUME UNCHANGED <<status, owner, attempts, lease, wait>>
       PROVE lease'[k] # NoLease
  BY <1>12
<1> QED
  BY <1>1, <1>2, <1>3, <1>4, <1>5, <1>6, <1>7, <1>8, <1>9, <1>10, <1>11, <1>12,
     ReadsLeaveRows DEF Next, Poll, Commit

\* Giving up.  attempts is written together with the status, so the status
\* failed always comes with the count that justified it.
LEMMA NextFailedIsExhausted ==
  TypeInv /\ FailedIsExhausted /\ [Next]_vars => FailedIsExhausted'
<1> SUFFICES ASSUME TypeInv, FailedIsExhausted, [Next]_vars, NEW k \in Jobs,
                    status'[k] = "failed"
             PROVE  attempts'[k] >= MaxAttempts[k]
  BY DEF FailedIsExhausted
<1> USE DEF TypeInv, TypeOK, FailedIsExhausted, Writes
<1>1. CASE Tick
  BY <1>1 DEF Tick
<1>2. ASSUME NEW j \in Jobs, CreateJob(j) PROVE attempts'[k] >= MaxAttempts[k]
  BY <1>2 DEF CreateJob
<1>3. ASSUME NEW w \in Workers, NEW j \in Jobs, Forget(w, j)
      PROVE attempts'[k] >= MaxAttempts[k]
  BY <1>3 DEF Forget, table
<1>4. ASSUME NEW r \in Slots, ClaimCommit(r) \/ ClaimEmpty(r)
      PROVE attempts'[k] >= MaxAttempts[k]
  BY <1>4 DEF ClaimCommit, ClaimEmpty
<1>5. ASSUME NEW r \in Slots, StartCommit(r) \/ HeartbeatCommit(r)
                                \/ CompleteCommit(r) \/ CancelCommit(r)
      PROVE attempts'[k] >= MaxAttempts[k]
  BY <1>5 DEF StartCommit, HeartbeatCommit, CompleteCommit, CancelCommit
<1>6. ASSUME NEW r \in Slots, RetryCommit(r) PROVE attempts'[k] >= MaxAttempts[k]
  BY <1>6 DEF RetryCommit
<1>7. ASSUME NEW r \in Slots, ExhaustCommit(r) PROVE attempts'[k] >= MaxAttempts[k]
  BY <1>7 DEF ExhaustCommit
<1>8. ASSUME NEW r \in Slots, Dispatch(r) \/ Abort(r)
      PROVE attempts'[k] >= MaxAttempts[k]
  BY <1>8 DEF Dispatch, Abort, table
<1>9. CASE UNCHANGED vars
  BY <1>9 DEF vars
<1>10. ASSUME UNCHANGED <<status, owner, attempts, lease, wait>>
       PROVE attempts'[k] >= MaxAttempts[k]
  BY <1>10
<1> QED
  BY <1>1, <1>2, <1>3, <1>4, <1>5, <1>6, <1>7, <1>8, <1>9, <1>10,
     ReadsLeaveRows DEF Next, Poll, Commit

LEMMA InitRows == Init => ActiveHasLease /\ FailedIsExhausted
BY DEF Init, ActiveHasLease, FailedIsExhausted, Active, Queue!Active

\* No interleaving of requests leaves a job assigned or processing without a
\* lease: claim_next_job can recover every job that is in the hands of a worker.
THEOREM ActiveHasLeaseHolds == Spec => []ActiveHasLease
<1>1. Spec => []TypeInv
  BY InitTypeInv, NextTypeInv, PTL DEF Spec
<1> QED
  BY <1>1, InitRows, NextActiveHasLease, PTL DEF Spec

\* No interleaving of failure reports gives a job up before max_attempts.
THEOREM FailedIsExhaustedHolds == Spec => []FailedIsExhausted
<1>1. Spec => []TypeInv
  BY InitTypeInv, NextTypeInv, PTL DEF Spec
<1> QED
  BY <1>1, InitRows, NextFailedIsExhausted, PTL DEF Spec

-----------------------------------------------------------------------------
\* Exclusive claims.  The step of a slot leaves the requests of the others as
\* they are, and the rows they have locked.
SlotStep(r) ==
  \/ Commit(r) \/ Dispatch(r) \/ Abort(r) \/ ClaimEmpty(r)
  \/ \E j \in Jobs : CancelRead(r, j)
  \/ \E w \in Workers : ClaimSelect(r, w)
  \/ \E w \in Workers, j \in Jobs : Report(r, w, j)

LEMMA NextIsSlotStep ==
  [Next]_vars =>
    \/ Tick
    \/ \E j \in Jobs : CreateJob(j)
    \/ \E w \in Workers, j \in Jobs : Forget(w, j)
    \/ \E r \in Slots : SlotStep(r)
    \/ UNCHANGED vars
BY DEF Next, Poll, SlotStep

LEMMA OthersKeepRequests ==
  ASSUME TypeOK, NEW r \in Slots, SlotStep(r), NEW q \in Slots \ {r}
  PROVE  tx'[q] = tx[q]
BY DEF TypeOK, SlotStep, Commit, Dispatch, Abort, ClaimEmpty, CancelRead,
   ClaimSelect, Report, StartRead, CompleteRead, FailRead, HeartbeatRead, Read,
   ClaimCommit, StartCommit, CompleteCommit, RetryCommit, ExhaustCommit,
   HeartbeatCommit, CancelCommit, Done

LEMMA LockedRowsAreStable ==
  ASSUME TypeInv, ClaimsDisjoint, NEW r \in Slots, SlotStep(r),
         NEW q \in Slots \ {r}, NEW k \in LocksOf(q), k \in Jobs
  PROVE  status'[k] = status[k] /\ lease'[k] = lease[k]
<1>1. k \in LockedByOthers(r)
  BY DEF LockedByOthers
<1> USE DEF TypeInv, TypeOK, Writes
<1>2. CASE ClaimCommit(r)
  <2>1. k # tx[r].job /\ k \notin tx[r].expired
    BY <1>2 DEF ClaimCommit, ClaimsDisjoint, LocksOf
  <2> QED
    BY <1>2, <2>1 DEF ClaimCommit
<1>3. CASE ClaimEmpty(r)
  BY <1>1, <1>3 DEF ClaimEmpty
<1>4. CASE \/ StartCommit(r) \/ CompleteCommit(r) \/ RetryCommit(r)
           \/ ExhaustCommit(r) \/ HeartbeatCommit(r) \/ CancelCommit(r)
  <2>1. tx[r].job # k
    BY <1>1, <1>4 DEF StartCommit, CompleteCommit, RetryCommit, ExhaustCommit,
       HeartbeatCommit, CancelCommit
  <2> QED
    BY <1>4, <2>1 DEF StartCommit, CompleteCommit, RetryCommit, ExhaustCommit,
       HeartbeatCommit, CancelCommit
<1>5. CASE Dispatch(r) \/ Abort(r)
  BY <1>5 DEF Dispatch, Abort, table
<1>6. CASE UNCHANGED <<status, owner, attempts, lease, wait>>
  BY <1>6
<1> QED
  BY <1>2, <1>3, <1>4, <1>5, <1>6, ReadsLeaveRows DEF SlotStep, Commit

\* A slot that comes out of its step with a claim has just selected it.
LEMMA NewClaim ==
  ASSUME TypeInv, NEW r \in Slots, SlotStep(r), tx'[r].op = "claim"
  PROVE  /\ tx'[r].job \in Claimable(r)
         /\ tx'[r].expired = Expired
         /\ Expired \cap LockedByOthers(r) = {}
         /\ UNCHANGED <<status, owner, attempts, lease, wait>>
<1> USE DEF TypeInv, TypeOK, Idle, Writes, Done
<1>1. CASE \E w \in Workers : ClaimSelect(r, w)
  BY <1>1 DEF ClaimSelect, table
<1>2. CASE ClaimEmpty(r)
  BY <1>2 DEF ClaimEmpty
<1>3. CASE Commit(r) \/ Dispatch(r) \/ Abort(r)
  <2>1. tx'[r].op \in {"idle", "dispatch"}
    BY <1>3 DEF Commit, ClaimCommit, StartCommit, CompleteCommit, RetryCommit,
       ExhaustCommit, HeartbeatCommit, CancelCommit, Dispatch, Abort, Request
  <2> QED
    BY <2>1
<1>4. CASE \/ \E j \in Jobs : CancelRead(r, j)
           \/ \E w \in Workers, j \in Jobs : Report(r, w, j)
  <2>1. tx'[r].op # "claim"
    BY <1>4 DEF CancelRead, Report, StartRead, CompleteRead, FailRead,
       HeartbeatRead, Read
  <2> QED
    BY <2>1
<1> QED
  BY <1>1, <1>2, <1>3, <1>4 DEF SlotStep

LEMMA SlotStepClaims ==
  ASSUME TypeInv, ClaimsFresh, ClaimsDisjoint, NEW r \in Slots, SlotStep(r)
  PROVE  ClaimsFresh' /\ ClaimsDisjoint'
<1>1. ClaimsFresh'
  <2> SUFFICES ASSUME NEW q \in Slots, tx'[q].op = "claim"
               PROVE  /\ status'[tx'[q].job] = "pending"
                           \/ tx'[q].job \in tx'[q].expired
                      /\ \A j \in tx'[q].expired : Lapsed(j)'
    BY DEF ClaimsFresh
  <2>1. CASE q = r
    <3>1. /\ tx'[r].job \in Claimable(r) /\ tx'[r].expired = Expired
          /\ UNCHANGED <<status, owner, attempts, lease, wait>>
      BY <2>1, NewClaim
    <3> QED
      BY <2>1, <3>1 DEF Claimable, Expired, Lapsed
  <2>2. CASE q # r
    <3>1. tx'[q] = tx[q]
      BY <2>2, OthersKeepRequests DEF TypeInv
    <3>2. /\ tx[q].expired \subseteq LocksOf(q) \cap Jobs
          /\ tx[q].job \in LocksOf(q) \cap Jobs
      BY <3>1 DEF LocksOf, TypeInv, TypeOK, RequestsOK, Request
    <3>3. \A k \in LocksOf(q) \cap Jobs : status'[k] = status[k] /\ lease'[k] = lease[k]
      BY <2>2, LockedRowsAreStable
    <3> QED
      BY <3>1, <3>2, <3>3 DEF ClaimsFresh, Lapsed
  <2> QED
    BY <2>1, <2>2
<1>2. ClaimsDisjoint'
  <2>1. \A q \in Slots \ {r} : LocksOf(q)' = LocksOf(q)
    BY OthersKeepRequests DEF LocksOf, TypeInv
  <2>2. \A q \in Slots \ {r} : LocksOf(r)' \cap LocksOf(q) = {}
    <3>1. CASE tx'[r].op = "claim"
      <4>1. LocksOf(r)' \cap LockedByOthers(r) = {}
        BY <3>1, NewClaim DEF LocksOf, Claimable
      <4> QED
        BY <4>1 DEF LockedByOthers
    <3>2. CASE tx'[r].op # "claim"
      BY <3>2 DEF LocksOf
    <3> QED
      BY <3>1, <3>2
  <2> QED
    BY <2>1, <2>2 DEF ClaimsDisjoint
<1> QED
  BY <1>1, <1>2

LEMMA TickClaims ==
  ASSUME TypeInv, ClaimsFresh, ClaimsDisjoint, Tick
  PROVE  ClaimsFresh' /\ ClaimsDisjoint'
<1>1. \A r \in Slots : /\ tx'[r].op = tx[r].op /\ tx'[r].job = tx[r].job
                       /\ tx'[r].expired = tx[r].expired
  BY DEF Tick, TypeInv, TypeOK, Request
<1>2. \A k \in Jobs : Lapsed(k) => Lapsed(k)'
  BY ServiceAssumption DEF Tick, Lapsed, Countdown, TypeInv, TypeOK
<1>3. \A r \in Slots : tx[r].expired \subseteq Jobs
  BY DEF TypeInv, TypeOK, Request
<1>4. ClaimsFresh'
  BY <1>1, <1>2, <1>3 DEF ClaimsFresh, Tick
<1>5. ClaimsDisjoint'
  BY <1>1 DEF ClaimsDisjoint, LocksOf
<1> QED
  BY <1>4, <1>5

LEMMA NextClaims ==
  TypeInv /\ ClaimsFresh /\ ClaimsDisjoint /\ [Next]_vars
    => ClaimsFresh' /\ ClaimsDisjoint'
<1> SUFFICES ASSUME TypeInv, ClaimsFresh, ClaimsDisjoint, [Next]_vars
             PROVE  ClaimsFresh' /\ ClaimsDisjoint'
  OBVIOUS
<1>1. ASSUME NEW j \in Jobs, CreateJob(j) PROVE ClaimsFresh' /\ ClaimsDisjoint'
  <2>1. status[j] = "none" /\ tx' = tx /\ lease' = lease
        /\ \A k \in Jobs \ {j} : status'[k] = status[k]
    BY <1>1 DEF CreateJob, TypeInv, TypeOK
  <2>2. \A r \in Slots : tx[r].op = "claim" => j \notin tx[r].expired /\ j # tx[r].job
    BY <2>1 DEF ClaimsFresh, Lapsed, Active, Queue!Active
  <2>3. \A r \in Slots : /\ tx[r].expired \subseteq Jobs
                         /\ tx[r].op = "claim" => tx[r].job \in Jobs
    BY DEF TypeInv, TypeOK, RequestsOK, Request
  <2> QED
    BY <2>1, <2>2, <2>3 DEF ClaimsFresh, ClaimsDisjoint, LocksOf, Lapsed
<1>2. ASSUME NEW w \in Workers, NEW j \in Jobs, Forget(w, j)
      PROVE ClaimsFresh' /\ ClaimsDisjoint'
  BY <1>2 DEF Forget, table, ClaimsFresh, ClaimsDisjoint, LocksOf, Lapsed
<1>3. CASE UNCHANGED vars
  BY <1>3 DEF vars, ClaimsFresh, ClaimsDisjoint, LocksOf, Lapsed
<1> QED
  BY <1>1, <1>2, <1>3, NextIsSlotStep, SlotStepClaims, TickClaims

LEMMA ClaimsInvariant == Spec => [](TypeInv /\ ClaimsFresh /\ ClaimsDisjoint)
<1>1. Init => ClaimsFresh /\ ClaimsDisjoint
  BY DEF Init, ClaimsFresh, ClaimsDisjoint, LocksOf, Idle
<1> QED
  BY <1>1, InitTypeInv, NextTypeInv, NextClaims, PTL DEF Spec

\* Two workers never get the same job: a worker only gets a queued job or one
\* whose lease has run out, however polls and reports interleave.
THEOREM OnlyFreeJobsAreClaimedHolds == Spec => OnlyFreeJobsAreClaimed
<1>1. TypeInv /\ ClaimsFresh /\ [Next]_vars =>
        [\A j \in Jobs :
           owner'[j] # owner[j] /\ owner'[j] \in Workers
             => status[j] = "pending" \/ Lapsed(j)]_owner
  <2> SUFFICES ASSUME TypeInv, ClaimsFresh, [Next]_vars, NEW j \in Jobs,
                      owner'[j] # owner[j], owner'[j] \in Workers
               PROVE  status[j] = "pending" \/ Lapsed(j)
    OBVIOUS
  <2>1. PICK r \in Slots : ClaimCommit(r) \/ ClaimEmpty(r) \/ RetryCommit(r)
    BY NextIsSlotStep, ReadsLeaveRows
       DEF SlotStep, Commit, Tick, CreateJob, Forget, table, vars, Dispatch, Abort,
           StartCommit, CompleteCommit, ExhaustCommit, HeartbeatCommit, CancelCommit
  <2>2. ClaimCommit(r) /\ tx[r].job = j
    BY <2>1, ServiceAssumption
       DEF ClaimCommit, ClaimEmpty, RetryCommit, TypeInv, TypeOK
  <2> QED
    BY <2>2 DEF ClaimCommit, ClaimsFresh
<1> QED
  BY <1>1, ClaimsInvariant, PTL DEF Spec, OnlyFreeJobsAreClaimed

-----------------------------------------------------------------------------
(***************************************************************************)
(* When requests do not overlap (a single slot), the coordinator keeps the *)
(* promise of JobQueue: every step of JobService is a step of JobQueue or  *)
(* leaves its variables alone; follow-up work is started once, and no      *)
(* report is taken from a worker that has lost the job.  Nothing is        *)
(* assumed of the workers, of the clock, or of requests that are rolled    *)
(* back.                                                                   *)
(***************************************************************************)

\* What a request has read is still so: with one slot, no other commit comes
\* between its read and its own.
ReadsFresh ==
  \A r \in Slots :
    LET t == tx[r] IN
    /\ t.op = "start" => status[t.job] = "assigned"
    /\ t.op \in {"complete", "fail"} => status[t.job] = "processing"
    /\ t.op = "fail" => t.attempts = attempts[t.job] + 1 /\ t.by = owner[t.job]
    /\ t.op = "cancel" => status[t.job] \in {"pending", "assigned"}
    /\ t.op = "dispatch" => status[t.job] = "completed" /\ dispatched[t.job] = 0

\* A handler was called for jobs that are completed, and once.
DispatchedIsCompleted ==
  \A j \in Jobs : dispatched[j] # 0 => dispatched[j] = 1 /\ status[j] = "completed"

SerialInv ==
  TypeInv /\ ClaimsFresh /\ ReadsFresh /\ DispatchedIsCompleted

-----------------------------------------------------------------------------
\* What the checks of each report establish at its read.
LEMMA ReadEstablishes ==
  ASSUME TypeInv, NEW r \in Slots, NEW j \in Jobs,
         CancelRead(r, j) \/ \E w \in Workers : Report(r, w, j)
  PROVE  LET t == tx'[r] IN
         /\ t.job = j
         /\ t.op = "start" => status[j] = "assigned"
         /\ t.op \in {"complete", "fail"} => status[j] = "processing"
         /\ t.op = "fail" => t.attempts = attempts[j] + 1 /\ t.by = owner[j]
         /\ t.op = "cancel" => status[j] \in {"pending", "assigned"}
         /\ t.op \in {"start", "complete", "fail", "heartbeat", "cancel"}
         /\ UNCHANGED <<status, owner, attempts, lease, wait, held, dispatched>>
<1> USE DEF TypeInv, TypeOK, Read, table, Queue!EnsureTransition,
        Queue!ValidTransitions, Queue!JobStatus
<1>1. CASE CancelRead(r, j)
  BY <1>1 DEF CancelRead
<1>2. ASSUME NEW w \in Workers, StartRead(r, w, j)
      PROVE  /\ tx'[r].job = j /\ tx'[r].op = "start" /\ status[j] = "assigned"
             /\ UNCHANGED <<status, owner, attempts, lease, wait, held, dispatched>>
  BY <1>2 DEF StartRead
<1>3. ASSUME NEW w \in Workers, CompleteRead(r, w, j)
      PROVE  /\ tx'[r].job = j /\ tx'[r].op = "complete" /\ status[j] = "processing"
             /\ UNCHANGED <<status, owner, attempts, lease, wait, held, dispatched>>
  BY <1>3 DEF CompleteRead
<1>4. ASSUME NEW w \in Workers, FailRead(r, w, j)
      PROVE  /\ tx'[r].job = j /\ tx'[r].op = "fail" /\ status[j] = "processing"
             /\ tx'[r].attempts = attempts[j] + 1 /\ tx'[r].by = owner[j]
             /\ UNCHANGED <<status, owner, attempts, lease, wait, held, dispatched>>
  BY <1>4 DEF FailRead
<1>5. ASSUME NEW w \in Workers, HeartbeatRead(r, w, j)
      PROVE  /\ tx'[r].job = j /\ tx'[r].op = "heartbeat"
             /\ UNCHANGED <<status, owner, attempts, lease, wait, held, dispatched>>
  BY <1>5 DEF HeartbeatRead
<1> QED
  BY <1>1, <1>2, <1>3, <1>4, <1>5 DEF Report

LEMMA InitSerial == Init => Queue!Init /\ ReadsFresh /\ DispatchedIsCompleted
BY DEF Init, Queue!Init, ReadsFresh, DispatchedIsCompleted, Idle

\* Every commit is the operation of JobQueue with the same name.
LEMMA CommitSimulates ==
  ASSUME SerialInv, NEW r \in Slots, Commit(r) \/ Dispatch(r) \/ ClaimEmpty(r)
  PROVE  Queue!Next \/ UNCHANGED Queue!vars
<1> USE ServiceAssumption DEF SerialInv, TypeInv, TypeOK, Writes
<1>1. tx[r].op # "idle" => tx[r].job \in Jobs
  BY DEF RequestsOK
<1>2. CASE ClaimCommit(r)
  <2>1. /\ tx[r].expired \in SUBSET {k \in Jobs : status[k] \in Queue!Active}
        /\ tx[r].job \in tx[r].expired \/ status[tx[r].job] = "pending"
        /\ tx[r].by \in Workers /\ tx[r].job \in Jobs
    BY <1>2 DEF ClaimCommit, ClaimsFresh, RequestsOK, Lapsed, Active, Request
  <2>2. Queue!Claim(tx[r].by, tx[r].job)
    BY <1>2, <2>1 DEF ClaimCommit, Queue!Claim
  <2> QED
    BY <2>1, <2>2 DEF Queue!Next
<1>3. CASE ClaimEmpty(r)
  <2>1. Queue!Recovered(Expired)
    BY <1>3 DEF ClaimEmpty, Queue!Recovered, Expired, Active
  <2> QED
    BY <2>1 DEF Queue!Next, Queue!TimeOut, Expired
<1> USE DEF Queue!EnsureTransition, Queue!ValidTransitions, Queue!JobStatus
<1>4. CASE StartCommit(r)
  <2>1. tx[r].job \in Jobs /\ Queue!Start(tx[r].job)
    BY <1>1, <1>4 DEF StartCommit, Queue!Start, ReadsFresh
  <2> QED
    BY <2>1 DEF Queue!Next
<1>5. CASE CompleteCommit(r)
  <2>1. tx[r].job \in Jobs /\ Queue!Complete(tx[r].job)
    BY <1>1, <1>5 DEF CompleteCommit, Queue!Complete, ReadsFresh
  <2> QED
    BY <2>1 DEF Queue!Next
<1>6. CASE RetryCommit(r)
  <2>1. /\ tx[r].job \in Jobs /\ status[tx[r].job] = "processing"
        /\ tx[r].attempts = attempts[tx[r].job] + 1
    BY <1>1, <1>6 DEF RetryCommit, ReadsFresh
  <2>2. attempts' = [attempts EXCEPT ![tx[r].job] = @ + 1]
    BY <1>6, <2>1 DEF RetryCommit
  <2>3. Queue!Retry(tx[r].job)
    BY <1>6, <2>1, <2>2 DEF RetryCommit, Queue!Retry
  <2> QED
    BY <2>1, <2>3 DEF Queue!Next
<1>7. CASE ExhaustCommit(r)
  <2>1. /\ tx[r].job \in Jobs /\ status[tx[r].job] = "processing"
        /\ tx[r].attempts = attempts[tx[r].job] + 1
    BY <1>1, <1>7 DEF ExhaustCommit, ReadsFresh
  <2>2. attempts' = [attempts EXCEPT ![tx[r].job] = @ + 1]
    BY <1>7, <2>1 DEF ExhaustCommit
  <2>3. Queue!Exhaust(tx[r].job)
    BY <1>7, <2>1, <2>2 DEF ExhaustCommit, Queue!Exhaust
  <2> QED
    BY <2>1, <2>3 DEF Queue!Next
<1>8. CASE HeartbeatCommit(r)
  BY <1>8 DEF HeartbeatCommit, Queue!vars
<1>9. CASE CancelCommit(r)
  <2>1. tx[r].job \in Jobs /\ Queue!Cancel(tx[r].job)
    BY <1>1, <1>9 DEF CancelCommit, Queue!Cancel, ReadsFresh
  <2> QED
    BY <2>1 DEF Queue!Next
<1>10. CASE Dispatch(r)
  <2>1. /\ tx[r].job \in Jobs /\ status[tx[r].job] = "completed"
        /\ dispatched[tx[r].job] = 0
    BY <1>1, <1>10 DEF Dispatch, ReadsFresh
  <2>2. dispatched' = [dispatched EXCEPT ![tx[r].job] = 1]
    BY <1>10, <2>1 DEF Dispatch
  <2>3. Queue!Dispatch(tx[r].job)
    BY <1>10, <2>1, <2>2 DEF Dispatch, Queue!Dispatch, table
  <2> QED
    BY <2>1, <2>3 DEF Queue!Next
<1> QED
  BY <1>2, <1>3, <1>4, <1>5, <1>6, <1>7, <1>8, <1>9, <1>10 DEF Commit

LEMMA NextSimulates ==
  SerialInv /\ [Next]_vars => [Queue!Next]_(Queue!vars)
<1> SUFFICES ASSUME SerialInv, [Next]_vars PROVE Queue!Next \/ UNCHANGED Queue!vars
  OBVIOUS
<1>1. CASE Tick
  BY <1>1 DEF Tick, Queue!vars
<1>2. ASSUME NEW j \in Jobs, CreateJob(j) PROVE Queue!Next
  BY <1>2 DEF CreateJob, Queue!Next, Queue!Create
<1>3. ASSUME NEW w \in Workers, NEW j \in Jobs, Forget(w, j)
      PROVE UNCHANGED Queue!vars
  BY <1>3 DEF Forget, table, Queue!vars
<1>4. ASSUME NEW r \in Slots, NEW j \in Jobs,
             CancelRead(r, j) \/ \E w \in Workers : Report(r, w, j)
      PROVE UNCHANGED Queue!vars
  BY <1>4, ReadEstablishes DEF SerialInv, Queue!vars
<1>5. ASSUME NEW r \in Slots, NEW w \in Workers, ClaimSelect(r, w)
      PROVE UNCHANGED Queue!vars
  BY <1>5 DEF ClaimSelect, table, Queue!vars
<1>6. ASSUME NEW r \in Slots, Abort(r) PROVE UNCHANGED Queue!vars
  BY <1>6 DEF Abort, table, Queue!vars
<1>7. CASE UNCHANGED vars
  BY <1>7 DEF vars, Queue!vars
<1> QED
  BY <1>1, <1>2, <1>3, <1>4, <1>5, <1>6, <1>7, CommitSimulates DEF Next, Poll

-----------------------------------------------------------------------------
\* With a single slot, what a request has read holds until it commits.
LEMMA NextSerial ==
  ASSUME NEW s, Slots = {s}, SerialInv, [Next]_vars
  PROVE  ReadsFresh' /\ DispatchedIsCompleted'
<1> USE DEF SerialInv, ReadsFresh, DispatchedIsCompleted, TypeInv, TypeOK, Writes,
        Done, Idle
<1>0. \A r \in Slots : tx[r].op # "idle" => tx[r].job \in Jobs
  BY DEF RequestsOK
<1>1. CASE Tick
  <2>1. \A r \in Slots : /\ tx'[r].op = tx[r].op /\ tx'[r].job = tx[r].job
                         /\ tx'[r].attempts = tx[r].attempts /\ tx'[r].by = tx[r].by
    BY <1>1 DEF Tick, Request
  <2> QED
    BY <1>1, <2>1 DEF Tick
<1>2. ASSUME NEW j \in Jobs, CreateJob(j) PROVE ReadsFresh' /\ DispatchedIsCompleted'
  BY <1>0, <1>2 DEF CreateJob
<1>3. ASSUME NEW w \in Workers, NEW j \in Jobs, Forget(w, j)
      PROVE ReadsFresh' /\ DispatchedIsCompleted'
  BY <1>3 DEF Forget, table
<1>4. ASSUME NEW r \in Slots, NEW j \in Jobs,
             CancelRead(r, j) \/ \E w \in Workers : Report(r, w, j)
      PROVE ReadsFresh' /\ DispatchedIsCompleted'
  BY <1>4, ReadEstablishes
<1>5. ASSUME NEW r \in Slots, NEW w \in Workers, ClaimSelect(r, w)
      PROVE ReadsFresh' /\ DispatchedIsCompleted'
  BY <1>5 DEF ClaimSelect, table
<1>6. ASSUME NEW r \in Slots, Abort(r) PROVE ReadsFresh' /\ DispatchedIsCompleted'
  BY <1>6 DEF Abort, table
<1>7. CASE UNCHANGED vars
  BY <1>7 DEF vars
<1>8. ASSUME NEW r \in Slots, ClaimCommit(r) PROVE ReadsFresh' /\ DispatchedIsCompleted'
  <2>1. \A j \in Jobs : status[j] = "completed" => status'[j] = "completed"
    BY <1>8 DEF ClaimCommit, ClaimsFresh, Lapsed, Active, Queue!Active
  <2> QED
    BY <1>8, <2>1 DEF ClaimCommit
<1>9. ASSUME NEW r \in Slots, ClaimEmpty(r) PROVE ReadsFresh' /\ DispatchedIsCompleted'
  BY <1>9 DEF ClaimEmpty, Expired, Active, Queue!Active
<1>10. ASSUME NEW r \in Slots, CompleteCommit(r)
       PROVE ReadsFresh' /\ DispatchedIsCompleted'
  <2>1. /\ tx[r].job \in Jobs /\ status[tx[r].job] = "processing"
        /\ dispatched[tx[r].job] = 0
    BY <1>0, <1>10 DEF CompleteCommit
  <2>2. tx'[r].op = "dispatch" /\ tx'[r].job = tx[r].job
    BY <1>10 DEF CompleteCommit, Request
  <2> QED
    BY <1>10, <2>1, <2>2 DEF CompleteCommit
<1>11. ASSUME NEW r \in Slots,
              \/ StartCommit(r) \/ RetryCommit(r) \/ ExhaustCommit(r)
              \/ HeartbeatCommit(r) \/ CancelCommit(r)
       PROVE ReadsFresh' /\ DispatchedIsCompleted'
  BY <1>0, <1>11 DEF StartCommit, RetryCommit, ExhaustCommit, HeartbeatCommit,
     CancelCommit
<1>12. ASSUME NEW r \in Slots, Dispatch(r) PROVE ReadsFresh' /\ DispatchedIsCompleted'
  <2>1. tx[r].job \in Jobs /\ dispatched[tx[r].job] = 0
    BY <1>0, <1>12 DEF Dispatch
  <2>2. dispatched' = [dispatched EXCEPT ![tx[r].job] = 1]
    BY <1>12, <2>1 DEF Dispatch
  <2>3. status[tx[r].job] = "completed" /\ status' = status
    BY <1>12 DEF Dispatch, table
  <2>4. \A q \in Slots : tx'[q].op = "idle"
    BY <1>12 DEF Dispatch
  <2>5. ReadsFresh'
    BY <2>4
  <2> QED
    BY <2>1, <2>2, <2>3, <2>5
<1> QED
  BY <1>1, <1>2, <1>3, <1>4, <1>5, <1>6, <1>7, <1>8, <1>9, <1>10, <1>11, <1>12
     DEF Next, Poll, Commit

\* With a single slot the strengthening holds throughout.
LEMMA SerialInvariant ==
  ASSUME NEW s, Slots = {s}
  PROVE  Spec => []SerialInv
<1>1. Init => ReadsFresh /\ DispatchedIsCompleted
  BY InitSerial
<1>2. TypeInv /\ ClaimsFresh /\ ReadsFresh /\ DispatchedIsCompleted /\ [Next]_vars
        => ReadsFresh' /\ DispatchedIsCompleted'
  BY NextSerial DEF SerialInv
<1> QED
  BY <1>1, <1>2, ClaimsInvariant, PTL DEF Spec, SerialInv

\* With requests that do not overlap, the coordinator implements JobQueue, for
\* any jobs, workers, leases, priorities and budgets.
THEOREM SerialImplementsQueue ==
  ASSUME NEW s, Slots = {s}
  PROVE  Spec => ImplementsQueue
<1>1. Init => Queue!Init
  BY InitSerial
<1>2. SerialInv /\ [Next]_vars => [Queue!Next]_(Queue!vars)
  BY NextSimulates
<1> QED
  BY <1>1, <1>2, SerialInvariant, PTL DEF Spec, ImplementsQueue, Queue!Spec

-----------------------------------------------------------------------------
\* With requests that do not overlap, the handler of a completion runs at most once,
\* whatever workers repeat and whatever is rolled back.
THEOREM FollowUpOnceHolds ==
  ASSUME NEW s, Slots = {s}
  PROVE  Spec => []FollowUpOnce
<1>1. SerialInv => FollowUpOnce
  BY DEF SerialInv, DispatchedIsCompleted, FollowUpOnce, TypeInv, TypeOK
<1> QED
  BY <1>1, SerialInvariant, PTL

\* A step takes a job from its worker by recovering a lease that has run out, or by
\* the worker's own report of failure.
LEMMA OwnerStep ==
  ASSUME SerialInv, [Next]_vars, NEW j \in Jobs, owner'[j] # owner[j],
         status[j] \in Active, lease[j] # NoLease, lease[j] >= 0
  PROVE  \E r \in Slots : tx[r].op = "fail" /\ tx[r].job = j /\ tx[r].by = owner[j]
<1> USE DEF SerialInv, TypeInv, TypeOK
<1>1. ~Lapsed(j) /\ status[j] # "pending"
  BY DEF Lapsed, Active, Queue!Active
<1>2. ASSUME NEW r \in Slots, ClaimCommit(r) PROVE FALSE
  <2>1. j = tx[r].job \/ j \in tx[r].expired
    BY <1>2 DEF ClaimCommit
  <2> QED
    BY <1>1, <1>2, <2>1 DEF ClaimCommit, ClaimsFresh
<1>3. ASSUME NEW r \in Slots, ClaimEmpty(r) PROVE FALSE
  BY <1>1, <1>3 DEF ClaimEmpty, Expired, Lapsed
<1>4. ASSUME NEW r \in Slots, RetryCommit(r)
      PROVE  tx[r].op = "fail" /\ tx[r].job = j /\ tx[r].by = owner[j]
  <2>1. tx[r].job = j /\ tx[r].op = "fail"
    BY <1>4 DEF RetryCommit, Writes
  <2> QED
    BY <2>1 DEF ReadsFresh
<1>5. PICK r \in Slots : ClaimCommit(r) \/ ClaimEmpty(r) \/ RetryCommit(r)
  BY DEF Next, Poll, Commit, Tick, CreateJob, Forget, Dispatch, Abort, ClaimSelect,
     CancelRead, Report, Read, StartRead, CompleteRead, FailRead, HeartbeatRead,
     StartCommit, CompleteCommit, ExhaustCommit, HeartbeatCommit, CancelCommit,
     table, vars
<1> QED
  BY <1>2, <1>3, <1>4, <1>5

\* With requests that do not overlap, a worker whose lease is running keeps its job
\* until it reports itself.
THEOREM LeaseProtectsOwnerHolds ==
  ASSUME NEW s, Slots = {s}
  PROVE  Spec => LeaseProtectsOwner
<1>1. SerialInv /\ [Next]_vars =>
        [\A j \in Jobs :
           /\ status[j] \in Active
           /\ lease[j] # NoLease /\ lease[j] >= 0
           /\ owner'[j] # owner[j]
           => \E r \in Slots :
                tx[r].op = "fail" /\ tx[r].job = j /\ tx[r].by = owner[j]]_owner
  BY OwnerStep
<1> QED
  BY <1>1, SerialInvariant, PTL DEF Spec, LeaseProtectsOwner
=============================================================================
