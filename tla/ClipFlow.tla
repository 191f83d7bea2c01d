------------------------------- MODULE ClipFlow -------------------------------
(***************************************************************************)
(* From a render job to a published clip: on_render_completed and          *)
(* on_qa_completed of app/services/job_state_transitions.py on top of the  *)
(* queue (JobQueue), beside the requests of operators and workers about    *)
(* clips: PATCH /clips/{id} (app/services/clip_service.py), mark_uploaded  *)
(* and location (app/services/clip_storage_service.py), which check        *)
(* nothing but that the clip exists.                                       *)
(*                                                                         *)
(* Every commit is a step of its own.  A clip is named by the render job   *)
(* that produced it (column render_job_id).                                *)
(***************************************************************************)
EXTENDS Integers, FiniteSets

CONSTANTS
  Jobs,         \* job rows, numbered in the order they are inserted
  RenderCap,    \* bound: render jobs approved
  RequestCap,   \* bound: requests about clips
  PatchStatuses, PatchVerdicts,  \* values that PATCH /clips/{id} writes
  MaxAttempts,  \* column max_attempts of each job
  Workers,      \* worker ids
  NoWorker,     \* worker_id IS NULL
  NoJob         \* qa_job_id IS NULL; the payload names no clip

ClipStatus == {"created", "approved", "rejected", "review", "published"}
ClipQAStatus == {"pending", "pass", "fail", "review"}

ASSUME ClipAssumption ==
  /\ Jobs \subseteq Nat /\ IsFiniteSet(Jobs)
  /\ RenderCap \in Nat /\ RequestCap \in Nat
  /\ PatchStatuses \subseteq ClipStatus /\ PatchVerdicts \subseteq ClipQAStatus
  /\ MaxAttempts \in [Jobs -> Nat \ {0}]
  /\ NoWorker \notin Workers
  /\ NoJob \notin Jobs

VARIABLES
  status, owner, attempts, dispatched,  \* the queue, as in JobQueue
  kind,         \* column job_type of each job
  target,       \* payload clip_id of each qa job
  clip,         \* column status of each clip; "none": the row does not exist
  verdict,      \* column qa_status
  qaJob,        \* column qa_job_id
  location,     \* column location
  published,    \* whether published_at is set
  handler,      \* how far the follow-up handler of each job has come
  upload,       \* the mark_uploaded calls between their two commits
  requests,     \* how many requests about clips there were (bound)
  edited, moved \* history: the clips that PATCH has written, and those whose
                \* location a request has set

queueVars == <<status, owner, attempts, dispatched>>
jobVars == <<kind, target>>
clipVars == <<clip, verdict, qaJob, location, published>>
requestVars == <<upload, requests, edited, moved>>
vars == <<queueVars, jobVars, clipVars, handler, requestVars>>

Queue == INSTANCE JobQueue WITH
  status <- status, owner <- owner, attempts <- attempts, dispatched <- dispatched

Locations == {"pending_upload", "uploaded", "archived"}

\* The status that goes with a verdict.
StatusFor == [pass |-> "approved", fail |-> "rejected", review |-> "review"]

Init ==
  /\ Queue!Init
  /\ kind = [j \in Jobs |-> "none"]
  /\ target = [j \in Jobs |-> NoJob]
  /\ clip = [j \in Jobs |-> "none"]
  /\ verdict = [j \in Jobs |-> "pending"]
  /\ qaJob = [j \in Jobs |-> NoJob]
  /\ location = [j \in Jobs |-> "none"]
  /\ published = [j \in Jobs |-> FALSE]
  /\ handler = [j \in Jobs |-> "idle"]
  /\ upload = {} /\ requests = 0 /\ edited = {} /\ moved = {}

\* create_job: the next row of the table.
Insert(type, c) ==
  \E j \in Jobs :
    /\ \A k \in Jobs : k < j => status[k] # "none"
    /\ Queue!Create(j)
    /\ kind' = [kind EXCEPT ![j] = type]
    /\ target' = [target EXCEPT ![j] = c]

-----------------------------------------------------------------------------
\* approve_candidate inserts a render job (CandidateFlow).
Approve ==
  /\ Cardinality({j \in Jobs : kind[j] = "render"}) < RenderCap
  /\ Insert("render", NoJob)
  /\ UNCHANGED <<clipVars, handler, requestVars>>

\* What workers and polls do to the queue; nothing else changes with it.
Recover == Queue!TimeOut /\ UNCHANGED <<jobVars, clipVars, handler, requestVars>>
Cancel(j) == Queue!Cancel(j) /\ UNCHANGED <<jobVars, clipVars, handler, requestVars>>

Work(j) ==
  /\ \/ Queue!Start(j) \/ Queue!Complete(j) \/ Queue!Retry(j) \/ Queue!Exhaust(j)
     \/ \E w \in Workers : Queue!Claim(w, j)
  /\ UNCHANGED <<jobVars, clipVars, handler, requestVars>>

-----------------------------------------------------------------------------
\* complete_job calls the handler of the job type, once.
Called(j, type) ==
  /\ kind[j] = type
  /\ handler[j] = "idle"
  /\ Queue!Dispatch(j)
  /\ UNCHANGED <<jobVars, requestVars>>

\* on_render_completed, first commit: the clip.
RenderCompleted(j) ==
  /\ Called(j, "render")
  /\ clip' = [clip EXCEPT ![j] = "created"]
  /\ handler' = [handler EXCEPT ![j] = "queue"]
  /\ UNCHANGED <<verdict, qaJob, location, published>>

\* Mutant: the qa job is given up at the first exception, and the clip with it.
QueueQa_Skipped(j) ==
  /\ handler[j] = "queue"
  /\ handler' = [handler EXCEPT ![j] = "over"]
  /\ UNCHANGED <<queueVars, jobVars, clipVars, requestVars>>

\* Second commit: the qa job.
QueueQa(j) ==
  /\ handler[j] = "queue"
  /\ Insert("qa", j)
  /\ handler' = [handler EXCEPT ![j] = "record"]
  /\ UNCHANGED <<clipVars, requestVars>>

\* Mutant: the clip is written back as the handler created it.
RecordQa_WholeRow(j) ==
  /\ handler[j] = "record"
  /\ \E k \in Jobs : kind[k] = "qa" /\ target[k] = j /\ qaJob' = [qaJob EXCEPT ![j] = k]
  /\ clip' = [clip EXCEPT ![j] = "created"]
  /\ handler' = [handler EXCEPT ![j] = "over"]
  /\ UNCHANGED <<queueVars, jobVars, verdict, location, published, requestVars>>

\* Third commit: the clip learns the id of its qa job.  Only this column is
\* written; the qa job may have been claimed, even completed, in between.
RecordQa(j) ==
  /\ handler[j] = "record"
  /\ \E k \in Jobs : kind[k] = "qa" /\ target[k] = j /\ qaJob' = [qaJob EXCEPT ![j] = k]
  /\ handler' = [handler EXCEPT ![j] = "over"]
  /\ UNCHANGED <<queueVars, jobVars, clip, verdict, location, published, requestVars>>

\* Mutant: the id of the job is left to on_render_completed.
QaCompleted_NoJob(j) ==
  /\ Called(j, "qa")
  /\ \E v \in ClipQAStatus \ {"pending"} :
       /\ verdict' = [verdict EXCEPT ![target[j]] = v]
       /\ clip' = [clip EXCEPT ![target[j]] = StatusFor[v]]
       /\ handler' = [handler EXCEPT ![j] = IF v = "pass" THEN "place" ELSE "over"]
  /\ UNCHANGED <<qaJob, location, published>>

\* on_qa_completed, first commit: the verdict and the status that goes with it.
QaCompleted(j) ==
  /\ Called(j, "qa")
  /\ \E v \in ClipQAStatus \ {"pending"} :
       /\ verdict' = [verdict EXCEPT ![target[j]] = v]
       /\ clip' = [clip EXCEPT ![target[j]] = StatusFor[v]]
       /\ handler' = [handler EXCEPT ![j] = IF v = "pass" THEN "place" ELSE "over"]
  /\ qaJob' = [qaJob EXCEPT ![target[j]] = j]
  /\ UNCHANGED <<location, published>>

\* Mutant: step 18 is repeated.
PlaceClip_Again(j) ==
  /\ handler[j] \in {"place", "over"} /\ kind[j] = "qa" /\ verdict[target[j]] = "pass"
  /\ location' = [location EXCEPT ![target[j]] = "pending_upload"]
  /\ handler' = [handler EXCEPT ![j] = "over"]
  /\ UNCHANGED <<queueVars, jobVars, clip, verdict, qaJob, published, requestVars>>

\* Second commit, after a pass: set_clip_location(pending_upload).
PlaceClip(j) ==
  /\ handler[j] = "place"
  /\ location' = [location EXCEPT ![target[j]] = "pending_upload"]
  /\ handler' = [handler EXCEPT ![j] = "over"]
  /\ UNCHANGED <<queueVars, jobVars, clip, verdict, qaJob, published, requestVars>>

\* The server dies, or an exception is logged, before the handler's next commit.
HandlerLost(j) ==
  /\ status[j] = "completed"
  /\ handler[j] \notin {"over", "lost"}
  /\ handler' = [handler EXCEPT ![j] = "lost"]
  /\ UNCHANGED <<queueVars, jobVars, clipVars, requestVars>>

-----------------------------------------------------------------------------
\* A request about a clip.
Request(c) ==
  /\ clip[c] # "none"
  /\ requests < RequestCap
  /\ requests' = requests + 1
  /\ UNCHANGED <<queueVars, jobVars, handler>>

\* update_clip, an operator's or OpenClaw's: any value over any other.
Patch(c) ==
  /\ Request(c)
  /\ \/ /\ \E s \in PatchStatuses : clip' = [clip EXCEPT ![c] = s]
        /\ UNCHANGED <<verdict, published>>
     \/ /\ \E v \in PatchVerdicts : verdict' = [verdict EXCEPT ![c] = v]
        /\ UNCHANGED <<clip, published>>
     \/ /\ published' = [published EXCEPT ![c] = TRUE]
        /\ UNCHANGED <<clip, verdict>>
  /\ edited' = edited \cup {c}
  /\ UNCHANGED <<qaJob, location, upload, moved>>

\* mark_clip_uploaded, first commit, wherever the clip was before.
MarkUploaded(c) ==
  /\ Request(c)
  /\ location' = [location EXCEPT ![c] = "uploaded"]
  /\ upload' = upload \cup {c}
  /\ moved' = moved \cup {c}
  /\ UNCHANGED <<clip, verdict, qaJob, published, edited>>

\* Second commit: published_at.
StampPublished(c) ==
  /\ c \in upload
  /\ published' = [published EXCEPT ![c] = TRUE]
  /\ upload' = upload \ {c}
  /\ UNCHANGED <<queueVars, jobVars, clip, verdict, qaJob, location, handler, requests,
                 edited, moved>>

\* The server dies between the two.
UploadLost(c) ==
  /\ c \in upload
  /\ upload' = upload \ {c}
  /\ UNCHANGED <<queueVars, jobVars, clipVars, handler, requests, edited, moved>>

\* POST /clips/{id}/location/{location}: any location after any other.
SetLocation(c) ==
  /\ Request(c)
  /\ \E l \in Locations : location' = [location EXCEPT ![c] = l]
  /\ moved' = moved \cup {c}
  /\ UNCHANGED <<clip, verdict, qaJob, published, upload, edited>>

Handle(j) ==
  RenderCompleted(j) \/ QueueQa(j) \/ RecordQa(j) \/ QaCompleted(j) \/ PlaceClip(j)

Store(c) ==
  Patch(c) \/ MarkUploaded(c) \/ StampPublished(c) \/ UploadLost(c) \/ SetLocation(c)

Next ==
  \/ Approve \/ Recover
  \/ \E j \in Jobs : Work(j) \/ Cancel(j) \/ Handle(j) \/ HandlerLost(j) \/ Store(j)

Spec == Init /\ [][Next]_vars

\* The lease of job j runs out: it is free again or given to another worker
\* without having failed.
Lapse(j) ==
  /\ status[j] \in Queue!Active /\ status'[j] \in {"pending", "assigned"}
  /\ <<status'[j], owner'[j]>> # <<status[j], owner[j]>>
  /\ attempts'[j] = attempts[j]

\* Workers keep polling and report on the jobs they begin; the server runs the
\* handlers it does not lose; no lease lapses for ever.
Fairness ==
  /\ WF_vars(\E j \in Jobs : Work(j) \/ Handle(j))
  /\ <>[][\A j \in Jobs : ~Lapse(j)]_vars

FairSpec == Spec /\ Fairness

-----------------------------------------------------------------------------
TypeOK ==
  /\ Queue!TypeOK
  /\ kind \in [Jobs -> {"none", "render", "qa"}]
  /\ target \in [Jobs -> Jobs \cup {NoJob}]
  /\ clip \in [Jobs -> ClipStatus \cup {"none"}]
  /\ verdict \in [Jobs -> ClipQAStatus]
  /\ qaJob \in [Jobs -> Jobs \cup {NoJob}]
  /\ location \in [Jobs -> Locations \cup {"none"}]
  /\ published \in [Jobs -> BOOLEAN]
  /\ handler \in [Jobs -> {"idle", "queue", "record", "place", "over", "lost"}]
  /\ upload \subseteq Jobs /\ edited \subseteq Jobs /\ moved \subseteq Jobs
  /\ requests \in Nat

\* A clip that was judged names the job that judged it, a completed qa job of its
\* own, even if the handler that queued the job never got to record its id; unless
\* PATCH has judged it.
VerdictIsTraceable ==
  \A c \in Jobs \ edited : verdict[c] # "pending" =>
    \E k \in Jobs : /\ qaJob[c] = k /\ kind[k] = "qa" /\ target[k] = c
                    /\ status[k] = "completed"

\* Verdict, status and location of a clip, written by different commits of handlers
\* that may be late, lost or overtaken, fit together where no PATCH has put them
\* apart: the status is that of the verdict, published_at is set only where a
\* location is, and a clip is only in pending_upload without a request because it
\* passed.
ClipIsConsistent ==
  \A c \in Jobs \ edited :
    /\ (clip[c] \in {"none", "created"}) <=> (verdict[c] = "pending")
    /\ verdict[c] # "pending" => clip[c] = StatusFor[verdict[c]]
    /\ published[c] => location[c] # "none"
    /\ c \notin moved /\ location[c] # "none" => verdict[c] = "pass"

\* The qa jobs of clip c.
QaOf(c) == {k \in Jobs : kind[k] = "qa" /\ target[k] = c}

\* No handler, however late, takes back what a person or a worker has decided about a
\* judged clip: once the qa report of a clip has been handled only a PATCH changes its
\* status or its verdict, and once that handler is over only a request moves it.
DecisionsStand ==
  [][\A c \in Jobs :
       /\ (\E k \in QaOf(c) : handler[k] # "idle")
            /\ <<clip'[c], verdict'[c]>> # <<clip[c], verdict[c]>> => Patch(c)
       /\ (\E k \in QaOf(c) : handler[k] \in {"over", "lost"})
            /\ location'[c] # location[c] => MarkUploaded(c) \/ SetLocation(c)]_vars

\* Nothing goes wrong with the clip of render job c, and no PATCH writes it.
Undisturbed(c) ==
  /\ handler[c] # "lost" /\ c \notin edited
  /\ \A k \in QaOf(c) : status[k] \notin {"failed", "cancelled"} /\ handler[k] # "lost"

\* A clip is judged, and placed when it passed, as long as neither its qa job nor
\* a handler on its way goes wrong; other clips, and requests that move it, do not
\* matter.
EveryClipIsJudged ==
  \A c \in Jobs :
    []Undisturbed(c) =>
      [](clip[c] = "created" =>
           <>(verdict[c] # "pending" /\ (verdict[c] = "pass" => location[c] # "none")))
=============================================================================
