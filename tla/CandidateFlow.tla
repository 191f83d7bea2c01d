----------------------------- MODULE CandidateFlow -----------------------------
(***************************************************************************)
(* How a candidate becomes a render job: approve_candidate and             *)
(* reject_candidate of app/services/candidate_lifecycle.py, called by the  *)
(* endpoints of app/api/candidates.py and by scripts/clip_scanner.py, and  *)
(* the PATCH of app/services/candidate_service.py, beside the queue        *)
(* (JobQueue) that works the render jobs off.                              *)
(*                                                                         *)
(* A request reads the candidate without a lock, decides, and commits; an  *)
(* approval commits three times.  Other requests commit in between.  The   *)
(* database gets only the columns whose value differs from what was read.  *)
(***************************************************************************)
EXTENDS Integers, FiniteSets

CONSTANTS
  Candidates,    \* rows of candidates
  Requests,      \* calls of approve_candidate and reject_candidate
  Threads,       \* how many of them may be in progress at a time
  PatchStatuses, \* statuses that are set by PATCH /candidates/{id}
  Jobs,          \* job rows: the render jobs
  MaxAttempts,   \* column max_attempts of each job
  Workers,       \* worker ids
  NoWorker,      \* worker_id IS NULL
  NoCandidate    \* the job row does not exist yet; the request has not begun

CandidateStatus == {"pending", "approved", "rejected", "rendered", "superseded"}

ASSUME CandidateAssumption ==
  /\ IsFiniteSet(Requests) /\ IsFiniteSet(Jobs)
  /\ Threads \in Nat \ {0}
  /\ PatchStatuses \subseteq CandidateStatus
  /\ MaxAttempts \in [Jobs -> Nat \ {0}]
  /\ NoWorker \notin Workers
  /\ NoCandidate \notin Candidates

VARIABLES
  status, owner, attempts, dispatched,  \* the queue, as in JobQueue
  target,       \* payload candidate_id of each render job
  cand,         \* column status of each candidate
  req,          \* each request: its candidate, the status it read, its next
                \* commit or, once it is over, its answer
  disturbed     \* history: the candidates that two requests had in hand at the
                \* same time, or whose approval was taken back

queueVars == <<status, owner, attempts, dispatched>>
vars == <<queueVars, target, cand, req, disturbed>>

Queue == INSTANCE JobQueue WITH
  status <- status, owner <- owner, attempts <- attempts, dispatched <- dispatched

\* What a request is about to commit.
Steps == {"mark", "refuse", "insert", "record", "reject"}

\* What it was answered: the status in the reply, "idempotent" for an approval
\* that found its render job, "raised" for an exception instead of a reply; "dead"
\* and "gone" when the server died, before the render job of an approval or elsewhere.
Answers == {"approved", "rejected", "error", "idempotent", "raised", "dead", "gone"}

Init ==
  /\ Queue!Init
  /\ target = [j \in Jobs |-> NoCandidate]
  /\ cand = [c \in Candidates |-> "pending"]
  /\ req = [r \in Requests |-> [cand |-> NoCandidate, saw |-> "pending", step |-> "new"]]
  /\ disturbed = {}

InProgress == {r \in Requests : req[r].step \in Steps}

\* The render jobs of c, whatever their status.
RendersOf(c) == {j \in Jobs : target[j] = c}

\* Mutant: only render jobs that are still open are looked for.
HasRender_Open(c) ==
  \E j \in RendersOf(c) : status[j] \notin {"completed", "failed", "cancelled"}

\* _find_render_job_for_candidate.
HasRender(c) == RendersOf(c) # {}

\* An UPDATE of the status by a request that read `saw`: nothing is written when
\* the value is the one it read.
Write(c, saw, new) ==
  cand' = IF saw = new THEN cand ELSE [cand EXCEPT ![c] = new]

\* A new request reads candidate c.
Begin(r, c, step) ==
  /\ req[r].step = "new"
  /\ Cardinality(InProgress) < Threads
  /\ req' = [req EXCEPT ![r] = [cand |-> c, saw |-> cand[c], step |-> step]]
  /\ UNCHANGED <<queueVars, target, cand>>

To(r, step) == req' = [req EXCEPT ![r].step = step]

-----------------------------------------------------------------------------
\* The short-circuit: already approved, and the render job is there.
ApproveAgain(r, c) ==
  /\ cand[c] = "approved"
  /\ HasRender(c)
  /\ Begin(r, c, "idempotent")

\* The candidate is validated against the current rules of its campaign.
ApproveRead(r, c) ==
  /\ ~(cand[c] = "approved" /\ HasRender(c))
  /\ \E step \in {"mark", "refuse"} : Begin(r, c, step)

\* validate_proposal said no.
RefuseCommit(r) ==
  /\ req[r].step = "refuse"
  /\ Write(req[r].cand, req[r].saw, "rejected")
  /\ To(r, "rejected")
  /\ UNCHANGED <<queueVars, target>>

\* validate_proposal said yes: first commit, the status.
ApproveCommit(r) ==
  /\ req[r].step = "mark"
  /\ Write(req[r].cand, req[r].saw, "approved")
  /\ To(r, "insert")
  /\ UNCHANGED <<queueVars, target>>

\* Second commit: create_job.
InsertRender(r) ==
  /\ req[r].step = "insert"
  /\ \E j \in Jobs :
       /\ \A k \in Jobs : k < j => status[k] # "none"
       /\ Queue!Create(j)
       /\ target' = [target EXCEPT ![j] = req[r].cand]
  /\ To(r, "record")
  /\ UNCHANGED cand

\* Third commit: render_job_id goes into the metadata, which nothing reads.
RecordRender(r) ==
  /\ req[r].step = "record"
  /\ To(r, "approved")
  /\ UNCHANGED <<queueVars, target, cand>>

\* The second or the third commit raised something that leaves the session usable:
\* the candidate is pending again, also when its render job has been inserted.
ApproveRevert(r) ==
  /\ req[r].step \in {"insert", "record"}
  /\ cand' = [cand EXCEPT ![req[r].cand] = "pending"]
  /\ To(r, "error")
  /\ UNCHANGED <<queueVars, target>>

\* Mutant: the failure of the revert is swallowed and the error reported.
RevertRaises_Swallowed(r) ==
  /\ req[r].step \in {"insert", "record"}
  /\ To(r, "error")
  /\ UNCHANGED <<queueVars, target, cand>>

\* It raised an error of the database.  The handler does not roll the session back,
\* so the commit of its revert raises too: nothing is written, and the caller gets
\* the exception.
RevertRaises(r) ==
  /\ req[r].step \in {"insert", "record"}
  /\ To(r, "raised")
  /\ UNCHANGED <<queueVars, target, cand>>

-----------------------------------------------------------------------------
RejectRaises(r, c) == cand[c] = "rendered" /\ Begin(r, c, "raised")

RejectRead(r, c) == cand[c] # "rendered" /\ Begin(r, c, "reject")

\* The render job, if there is one, is left in the queue.
RejectCommit(r) ==
  /\ req[r].step = "reject"
  /\ Write(req[r].cand, req[r].saw, "rejected")
  /\ To(r, "rejected")
  /\ UNCHANGED <<queueVars, target>>

\* update_candidate: any status over any other.
Patch(c) ==
  /\ \E s \in PatchStatuses : cand' = [cand EXCEPT ![c] = s]
  /\ UNCHANGED <<queueVars, target, req>>

\* The server dies: what a request has not committed is lost.
Die(r) ==
  /\ r \in InProgress
  /\ To(r, IF req[r].step = "insert" THEN "dead" ELSE "gone")
  /\ UNCHANGED <<queueVars, target, cand>>

-----------------------------------------------------------------------------
\* Workers and polls.
Work ==
  /\ \/ Queue!TimeOut
     \/ \E j \in Jobs :
          \/ Queue!Start(j) \/ Queue!Complete(j) \/ Queue!Retry(j) \/ Queue!Exhaust(j)
          \/ Queue!Cancel(j) \/ \E w \in Workers : Queue!Claim(w, j)
  /\ UNCHANGED <<target, cand, req>>

\* on_render_completed makes the clip; it does not touch the candidate.
RenderCompleted(j) ==
  /\ Queue!Dispatch(j)
  /\ UNCHANGED <<target, cand, req>>

Step ==
  \/ \E r \in Requests, c \in Candidates :
       \/ ApproveAgain(r, c) \/ ApproveRead(r, c)
       \/ RejectRaises(r, c) \/ RejectRead(r, c)
  \/ \E r \in Requests :
       \/ RefuseCommit(r) \/ ApproveCommit(r) \/ InsertRender(r) \/ RecordRender(r)
       \/ ApproveRevert(r) \/ RevertRaises(r) \/ RejectCommit(r) \/ Die(r)
  \/ \E c \in Candidates : Patch(c)
  \/ \E j \in Jobs : RenderCompleted(j)
  \/ Work

\* The requests that have candidate c in hand.
On(c) == {r \in InProgress : req[r].cand = c}

\* The history: where requests overlap on a candidate, or an approval is taken back
\* (by a refusal, a rejection, a revert or a PATCH).
Next ==
  /\ Step
  /\ disturbed' = disturbed
       \cup {c \in Candidates : \E q, r \in On(c)' : q # r}
       \cup {c \in Candidates : cand[c] = "approved" /\ cand'[c] # "approved"}

Spec == Init /\ [][Next]_vars

-----------------------------------------------------------------------------
TypeOK ==
  /\ Queue!TypeOK
  /\ target \in [Jobs -> Candidates \cup {NoCandidate}]
  /\ cand \in [Candidates -> CandidateStatus]
  /\ disturbed \subseteq Candidates
  /\ req \in [Requests -> [cand : Candidates \cup {NoCandidate}, saw : CandidateStatus,
                           step : Steps \cup Answers \cup {"new"}]]

\* "Step 15 auto-creates a RENDER job for each approved candidate": an approved
\* candidate has its render job, or an approval that will still insert it, or one
\* that died before it, or one whose caller was told by an exception.  No overlap of
\* requests loses the job behind an answer.
ApprovedIsRendered ==
  \A c \in Candidates : cand[c] = "approved" =>
    \/ RendersOf(c) # {}
    \/ \E r \in Requests : req[r].cand = c /\ req[r].step \in {"insert", "dead", "raised"}

\* "Idempotent on re-approve": however often a candidate is approved again, wherever
\* those requests die or raise and whatever becomes of the render job meanwhile, it
\* has one render job, unless two requests overlapped on it or its approval was
\* taken back.
ReapproveIsIdempotent ==
  \A c \in Candidates \ disturbed : \A j, k \in RendersOf(c) : j = k

=============================================================================
