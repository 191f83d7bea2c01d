------------------------------ MODULE JobService ------------------------------
(***************************************************************************)
(* The job queue of app/services/job_service.py as the coordinator runs    *)
(* it.  Every request is served by a thread of the server's pool with a    *)
(* database session of its own (a slot).  A report of a worker is a read   *)
(* (db.get, no lock), the checks, and an UPDATE of the changed columns at  *)
(* commit: two steps, between which other requests commit.  Only a poll    *)
(* for work takes row locks: the UPDATE that recovers expired leases and   *)
(* the SELECT ... FOR UPDATE SKIP LOCKED hold theirs until it commits.     *)
(*                                                                         *)
(* Timestamps are counted down: lease[j] and wait[j] are the ticks left    *)
(* until lease_until and available_at, -1 once they have passed.           *)
(***************************************************************************)
EXTENDS Integers, FiniteSets

CONSTANTS
  Jobs,         \* job rows, numbered in the order of created_at
  Workers,      \* worker ids
  Slots,        \* requests the server can serve at the same time
  NoWorker,     \* worker_id IS NULL
  NoLease,      \* lease_until IS NULL
  NoJob,        \* an idle slot serves no job
  Priority,     \* column priority of each job
  MaxAttempts,  \* column max_attempts of each job
  LeaseTicks,   \* LEASE_DURATION_SECONDS, in ticks
  Backoff,      \* _backoff_seconds, in ticks, by number of attempts
  AttemptCap    \* bound of the model: reports of failure it explores per job

ASSUME ServiceAssumption ==
  /\ Jobs \subseteq Nat
  /\ NoJob \notin Jobs
  /\ NoWorker \notin Workers
  /\ NoLease \notin Int
  /\ Priority \in [Jobs -> Nat]
  /\ MaxAttempts \in [Jobs -> Nat \ {0}]
  /\ LeaseTicks \in Nat
  /\ AttemptCap \in Nat
  /\ Backoff \in [1 .. AttemptCap -> Nat]

VARIABLES
  status,       \* column status; "none": the row does not exist yet
  owner,        \* column worker_id
  attempts,     \* column attempts
  lease,        \* column lease_until, in ticks from now
  wait,         \* column available_at, in ticks from now
  tx,           \* what each slot has read and is about to write
  held,         \* the jobs each worker has in hand
  dispatched    \* how often the completion handler of the job was called (0..2)

table == <<status, owner, attempts, lease, wait>>
vars == <<status, owner, attempts, lease, wait, tx, held, dispatched>>

\* The refinement mapping: a row as the database has it, whatever slots have in
\* hand; leases and delays are what the queue abstracts from.
Queue == INSTANCE JobQueue WITH
  Jobs <- Jobs, Workers <- Workers, NoWorker <- NoWorker, MaxAttempts <- MaxAttempts,
  status <- status, owner <- owner, attempts <- attempts, dispatched <- dispatched

Ops == {"idle", "claim", "start", "complete", "dispatch", "fail",
        "heartbeat", "cancel"}

Idle == [op |-> "idle", job |-> NoJob, by |-> NoWorker, timer |-> NoLease,
         attempts |-> 0, expired |-> {}]

Active == Queue!Active

\* The timestamp lies d ticks ahead when it is written, and passes at -1.
Countdown(t) == IF t = NoLease \/ t = -1 THEN t ELSE t - 1

\* Mutant: the recovery ignores lease_until.
Expired_AnyLease ==
  {j \in Jobs : status[j] \in Active /\ lease[j] # NoLease}

\* Mutant: the recovery forgets the jobs in processing.
Expired_AssignedOnly ==
  {j \in Jobs : status[j] = "assigned" /\ lease[j] # NoLease /\ lease[j] < 0}

\* lease_until < now, on a job a worker should be busy with.
Expired ==
  {j \in Jobs : status[j] \in Active /\ lease[j] # NoLease /\ lease[j] < 0}

\* Rows locked by the poll of slot r until it commits.
LocksOf(r) ==
  IF tx[r].op = "claim" THEN tx[r].expired \cup {tx[r].job} ELSE {}

\* Mutant: a SELECT without FOR UPDATE.
LockedByOthers_None(r) == {}

LockedByOthers(r) == UNION {LocksOf(q) : q \in Slots \ {r}}

\* Rows the SELECT of slot r considers, having recovered the expired ones.
Claimable(r) ==
  {j \in Jobs : /\ status[j] = "pending" \/ j \in Expired
                /\ wait[j] <= 0
                /\ j \notin LockedByOthers(r)}

\* Mutant: ORDER BY priority ASC.
Before_Ascending(j, k) ==
  \/ Priority[j] < Priority[k]
  \/ Priority[j] = Priority[k] /\ j <= k

\* ORDER BY priority DESC, created_at ASC
Before(j, k) ==
  \/ Priority[j] > Priority[k]
  \/ Priority[j] = Priority[k] /\ j <= k

Init ==
  /\ status = [j \in Jobs |-> "none"]
  /\ owner = [j \in Jobs |-> NoWorker]
  /\ attempts = [j \in Jobs |-> 0]
  /\ lease = [j \in Jobs |-> NoLease]
  /\ wait = [j \in Jobs |-> 0]
  /\ tx = [r \in Slots |-> Idle]
  /\ held = [w \in Workers |-> {}]
  /\ dispatched = [j \in Jobs |-> 0]

-----------------------------------------------------------------------------
\* create_job: one INSERT, available at once.
CreateJob(j) ==
  /\ status[j] = "none"
  /\ \A k \in Jobs : k < j => status[k] # "none"
  /\ status' = [status EXCEPT ![j] = "pending"]
  /\ wait' = [wait EXCEPT ![j] = 0]
  /\ UNCHANGED <<owner, attempts, lease, tx, held, dispatched>>

\* claim_next_job up to its SELECT.  The recovering UPDATE waits for rows that
\* another poll has locked; what it recovers is seen by others at the commit.
ClaimSelect(r, w) ==
  /\ tx[r].op = "idle"
  /\ Expired \cap LockedByOthers(r) = {}
  /\ \E j \in Claimable(r) :
       /\ \A k \in Claimable(r) : Before(j, k)
       /\ tx' = [tx EXCEPT ![r] =
                   [op |-> "claim", job |-> j, by |-> w, timer |-> LeaseTicks,
                    attempts |-> 0, expired |-> Expired]]
  /\ UNCHANGED <<table, held, dispatched>>

\* claim_next_job when no row is left to hand out: only the recovery commits.
ClaimEmpty(r) ==
  /\ tx[r].op = "idle"
  /\ Expired \cap LockedByOthers(r) = {}
  /\ Claimable(r) = {}
  /\ status' = [j \in Jobs |-> IF j \in Expired THEN "pending" ELSE status[j]]
  /\ owner' = [j \in Jobs |-> IF j \in Expired THEN NoWorker ELSE owner[j]]
  /\ lease' = [j \in Jobs |-> IF j \in Expired THEN NoLease ELSE lease[j]]
  /\ UNCHANGED <<attempts, wait, tx, held, dispatched>>

\* The claim commits; its response may be lost on the way to the worker.
ClaimCommit(r) ==
  LET t == tx[r] IN
  /\ t.op = "claim"
  /\ status' = [j \in Jobs |-> IF j = t.job THEN "assigned"
                               ELSE IF j \in t.expired THEN "pending"
                               ELSE status[j]]
  /\ owner' = [j \in Jobs |-> IF j = t.job THEN t.by
                              ELSE IF j \in t.expired THEN NoWorker
                              ELSE owner[j]]
  /\ lease' = [j \in Jobs |-> IF j = t.job THEN t.timer
                              ELSE IF j \in t.expired THEN NoLease
                              ELSE lease[j]]
  /\ \/ held' = [held EXCEPT ![t.by] = @ \cup {t.job}]
     \/ held' = held
  /\ tx' = [tx EXCEPT ![r] = Idle]
  /\ UNCHANGED <<attempts, wait, dispatched>>

-----------------------------------------------------------------------------
\* A report is read: slot r has loaded the row of job j and its checks passed.
\* The row it will write is computed here, from the values it loaded.
Read(r, op, w, j, timer, n) ==
  /\ tx[r].op = "idle"
  /\ tx' = [tx EXCEPT ![r] = [op |-> op, job |-> j, by |-> w, timer |-> timer,
                              attempts |-> n, expired |-> {}]]
  /\ UNCHANGED <<table, held, dispatched>>

StartRead(r, w, j) ==
  /\ Queue!EnsureTransition(status[j], "processing")
  /\ owner[j] = w
  /\ Read(r, "start", w, j, LeaseTicks, 0)

\* Mutant: a completion is accepted in any status.
CompleteRead_Unchecked(r, w, j) ==
  /\ owner[j] = w
  /\ Read(r, "complete", w, j, NoLease, 0)

CompleteRead(r, w, j) ==
  /\ Queue!EnsureTransition(status[j], "completed")
  /\ owner[j] = w
  /\ Read(r, "complete", w, j, NoLease, 0)

FailRead(r, w, j) ==
  /\ Queue!EnsureTransition(status[j], "failed")
  /\ owner[j] = w
  /\ attempts[j] < AttemptCap
  /\ Read(r, "fail", w, j, Backoff[attempts[j] + 1], attempts[j] + 1)

HeartbeatRead(r, w, j) ==
  /\ owner[j] = w
  /\ status[j] \in Active
  /\ Read(r, "heartbeat", w, j, LeaseTicks, 0)

\* cancel_job names no worker; it writes lease_until only if it loaded one.
CancelRead(r, j) ==
  /\ Queue!EnsureTransition(status[j], "cancelled")
  /\ Read(r, "cancel", NoWorker, j, lease[j], 0)

\* A worker reports on a job it has in hand, in any order and any number of
\* times: it may retry, and its requests may be delayed.
Report(r, w, j) ==
  /\ j \in held[w]
  /\ \/ StartRead(r, w, j) \/ CompleteRead(r, w, j)
     \/ FailRead(r, w, j)  \/ HeartbeatRead(r, w, j)

-----------------------------------------------------------------------------
\* The UPDATE of slot r gets its row: no poll has it locked.
Writes(r, op) ==
  /\ tx[r].op = op
  /\ tx[r].job \notin LockedByOthers(r)

Done(r) == tx' = [tx EXCEPT ![r] = Idle]

\* Mutant: start does not renew the lease.
StartCommit_OldLease(r) ==
  /\ Writes(r, "start")
  /\ status' = [status EXCEPT ![tx[r].job] = "processing"]
  /\ Done(r)
  /\ UNCHANGED <<owner, attempts, lease, wait, held, dispatched>>

StartCommit(r) ==
  /\ Writes(r, "start")
  /\ status' = [status EXCEPT ![tx[r].job] = "processing"]
  /\ lease' = [lease EXCEPT ![tx[r].job] = tx[r].timer]
  /\ Done(r)
  /\ UNCHANGED <<owner, attempts, wait, held, dispatched>>

\* The completion is committed first; the same request then calls the handler.
CompleteCommit(r) ==
  /\ Writes(r, "complete")
  /\ status' = [status EXCEPT ![tx[r].job] = "completed"]
  /\ lease' = [lease EXCEPT ![tx[r].job] = NoLease]
  /\ tx' = [tx EXCEPT ![r].op = "dispatch"]
  /\ UNCHANGED <<owner, attempts, wait, held, dispatched>>

\* The handler of the job type is called; its exceptions are only logged.
Dispatch(r) ==
  /\ tx[r].op = "dispatch"
  /\ dispatched' = [dispatched EXCEPT ![tx[r].job] = IF @ = 2 THEN 2 ELSE @ + 1]
  /\ Done(r)
  /\ UNCHANGED <<table, held>>

\* Mutant: one retry too many.
RetryCommit_OffByOne(r) ==
  LET t == tx[r] IN
  /\ Writes(r, "fail")
  /\ t.attempts <= MaxAttempts[t.job]
  /\ status' = [status EXCEPT ![t.job] = "pending"]
  /\ owner' = [owner EXCEPT ![t.job] = NoWorker]
  /\ attempts' = [attempts EXCEPT ![t.job] = t.attempts]
  /\ lease' = [lease EXCEPT ![t.job] = NoLease]
  /\ wait' = [wait EXCEPT ![t.job] = t.timer]
  /\ Done(r)
  /\ UNCHANGED <<held, dispatched>>

\* fail_job with attempts left: back to the queue, after the backoff.
RetryCommit(r) ==
  LET t == tx[r] IN
  /\ Writes(r, "fail")
  /\ t.attempts < MaxAttempts[t.job]
  /\ status' = [status EXCEPT ![t.job] = "pending"]
  /\ owner' = [owner EXCEPT ![t.job] = NoWorker]
  /\ attempts' = [attempts EXCEPT ![t.job] = t.attempts]
  /\ lease' = [lease EXCEPT ![t.job] = NoLease]
  /\ wait' = [wait EXCEPT ![t.job] = t.timer]
  /\ Done(r)
  /\ UNCHANGED <<held, dispatched>>

\* Mutant: the last attempt is not stored.
ExhaustCommit_NotCounted(r) ==
  LET t == tx[r] IN
  /\ Writes(r, "fail")
  /\ t.attempts >= MaxAttempts[t.job]
  /\ status' = [status EXCEPT ![t.job] = "failed"]
  /\ lease' = [lease EXCEPT ![t.job] = NoLease]
  /\ Done(r)
  /\ UNCHANGED <<owner, attempts, wait, held, dispatched>>

\* fail_job with the budget used up.  The call of on_job_failed that follows
\* names a function the module never imports: it changes nothing.
ExhaustCommit(r) ==
  LET t == tx[r] IN
  /\ Writes(r, "fail")
  /\ t.attempts >= MaxAttempts[t.job]
  /\ status' = [status EXCEPT ![t.job] = "failed"]
  /\ attempts' = [attempts EXCEPT ![t.job] = t.attempts]
  /\ lease' = [lease EXCEPT ![t.job] = NoLease]
  /\ Done(r)
  /\ UNCHANGED <<owner, wait, held, dispatched>>

HeartbeatCommit(r) ==
  /\ Writes(r, "heartbeat")
  /\ lease' = [lease EXCEPT ![tx[r].job] = tx[r].timer]
  /\ Done(r)
  /\ UNCHANGED <<status, owner, attempts, wait, held, dispatched>>

CancelCommit(r) ==
  /\ Writes(r, "cancel")
  /\ status' = [status EXCEPT ![tx[r].job] = "cancelled"]
  /\ lease' = IF tx[r].timer = NoLease THEN lease
              ELSE [lease EXCEPT ![tx[r].job] = NoLease]
  /\ Done(r)
  /\ UNCHANGED <<owner, attempts, wait, held, dispatched>>

-----------------------------------------------------------------------------
\* The server dies, or the database refuses the commit: what slot r had not
\* committed is rolled back, and a handler not yet called never is.
Abort(r) ==
  /\ tx[r].op # "idle"
  /\ Done(r)
  /\ UNCHANGED <<table, held, dispatched>>

\* The worker is through with the job, gives it up, or dies.
Forget(w, j) ==
  /\ j \in held[w]
  /\ held' = [held EXCEPT ![w] = @ \ {j}]
  /\ UNCHANGED <<table, tx, dispatched>>

\* Time passes, for the rows and for the timestamps requests have computed.
Tick ==
  /\ lease' = [j \in Jobs |-> Countdown(lease[j])]
  /\ wait' = [j \in Jobs |-> Countdown(wait[j])]
  /\ tx' = [r \in Slots |-> [tx[r] EXCEPT !.timer = Countdown(@)]]
  /\ UNCHANGED <<status, owner, attempts, held, dispatched>>

Poll(w) == \E r \in Slots : ClaimSelect(r, w) \/ ClaimEmpty(r)

Commit(r) ==
  \/ ClaimCommit(r)     \/ StartCommit(r) \/ CompleteCommit(r)
  \/ RetryCommit(r)     \/ ExhaustCommit(r)
  \/ HeartbeatCommit(r) \/ CancelCommit(r)

Next ==
  \/ Tick
  \/ \E j \in Jobs : CreateJob(j)
  \/ \E w \in Workers : Poll(w)
  \/ \E w \in Workers, j \in Jobs : Forget(w, j)
  \/ \E r \in Slots :
       \/ Commit(r) \/ Dispatch(r) \/ Abort(r)
       \/ \E j \in Jobs : CancelRead(r, j)
       \/ \E w \in Workers, j \in Jobs : Report(r, w, j)

Spec == Init /\ [][Next]_vars

\* Fairness.  The clock runs; a request that has read its row commits; some
\* worker keeps polling (SF: other requests may keep the slots busy between
\* two polls); a claim that is tried again and again is not rolled back every
\* time.  Nothing is assumed of what workers report, nor that they live.
Fairness ==
  /\ WF_vars(Tick)
  /\ \A r \in Slots : WF_vars(Commit(r)) /\ WF_vars(Dispatch(r))
  /\ SF_vars(\E w \in Workers : Poll(w))
  /\ \A j \in Jobs : SF_vars(\E r \in Slots : j \in LocksOf(r) /\ ClaimCommit(r))

FairSpec == Spec /\ Fairness

-----------------------------------------------------------------------------
Request ==
  [op : Ops, job : Jobs \cup {NoJob}, by : Workers \cup {NoWorker},
   timer : Int \cup {NoLease}, attempts : 0 .. AttemptCap, expired : SUBSET Jobs]

TypeOK ==
  /\ status \in [Jobs -> Queue!JobStatus \cup {"none"}]
  /\ owner \in [Jobs -> Workers \cup {NoWorker}]
  /\ attempts \in [Jobs -> 0 .. AttemptCap]
  /\ lease \in [Jobs -> (-1 .. LeaseTicks) \cup {NoLease}]
  /\ wait \in [Jobs -> Int]
  /\ tx \in [Slots -> Request]
  /\ held \in [Workers -> SUBSET Jobs]
  /\ dispatched \in [Jobs -> 0 .. 2]

\* A worker is late with the job: its lease has run out.
Lapsed(j) == status[j] \in Active /\ lease[j] # NoLease /\ lease[j] < 0

\* No job is lost to the queue: whatever requests overlap, a job in assigned or
\* processing carries a lease, without which the recovery of claim_next_job
\* (lease_until IS NOT NULL) would never find it again.
ActiveHasLease ==
  \A j \in Jobs : status[j] \in Active => lease[j] # NoLease

\* No job is given up early: when reports of failure overlap and overwrite each
\* other, a job in failed still has max_attempts failures on its row.
FailedIsExhausted ==
  \A j \in Jobs : status[j] = "failed" => attempts[j] >= MaxAttempts[j]

\* "Two workers racing for the same single job: only one wins": a worker only
\* ever gets a job that is in the queue, or whose lease has run out.
OnlyFreeJobsAreClaimed ==
  [][\A j \in Jobs :
       owner'[j] # owner[j] /\ owner'[j] \in Workers
         => status[j] = "pending" \/ Lapsed(j)]_owner

\* A worker whose lease is running loses its job by its own report only.
LeaseProtectsOwner ==
  [][\A j \in Jobs :
       /\ status[j] \in Active
       /\ lease[j] # NoLease /\ lease[j] >= 0
       /\ owner'[j] # owner[j]
       => \E r \in Slots :
            tx[r].op = "fail" /\ tx[r].job = j /\ tx[r].by = owner[j]]_owner

\* VALID_TRANSITIONS gives completed no successor: a job whose result was
\* accepted is not taken up again by the commit of another request.
CompletedIsFinal ==
  [][\A j \in Jobs : status[j] = "completed" => status'[j] = "completed"]_status

\* The completion handler of a job runs at most once: the follow-up job it
\* creates exists once.
FollowUpOnce == \A j \in Jobs : dispatched[j] <= 1

\* The requests of a single slot never overlap: the queue keeps its promise.
ImplementsQueue == Queue!Spec

\* A job whose worker died, gave up, or never received the claim does not stay
\* with it: a lapsed lease is renewed by a late heartbeat, ends with the job, or
\* is recovered; or, when claims commit later than the lease they give, it is
\* recovered and handed out over and over.
LapsedIsRecovered ==
  \A j \in Jobs :
    \/ []<>~Lapsed(j)
    \/ []<><<\E r \in Slots : j \in tx[r].expired /\ ClaimCommit(r)>>_vars

\* The job the queue ranks first does not wait for ever, whatever becomes of
\* the jobs behind it and of the polls that are rolled back.
TopJobIsServed ==
  \A j \in Jobs :
    (\A k \in Jobs \ {j} : Priority[k] < Priority[j])
      => [](status[j] = "pending" => <>(status[j] # "pending"))
=============================================================================
