----------------------------- MODULE ClipProofs -----------------------------
(***************************************************************************)
(* Proofs about rendered clips, for any jobs and workers.                  *)
(***************************************************************************)
EXTENDS ClipFlow, TLAPS

-----------------------------------------------------------------------------
\* How the columns of a job row and the progress of its handler fit together.
Rows ==
  \A j \in Jobs :
    /\ status[j] = "none" <=> kind[j] = "none"
    /\ kind[j] = "none" => handler[j] = "idle"
    /\ handler[j] # "idle" => status[j] = "completed"
    /\ handler[j] \in {"queue", "record"} => kind[j] = "render"
    /\ handler[j] = "place" => kind[j] = "qa"

\* A clip comes from the handler of its render job.
ClipsAreRendered ==
  \A c \in Jobs :
    /\ clip[c] # "none" => kind[c] = "render" /\ handler[c] # "idle"
    /\ handler[c] \in {"queue", "record"} => clip[c] # "none"

\* A clip has one qa job, queued once the clip was there.
QaJobs ==
  \A k \in Jobs : kind[k] = "qa" =>
    /\ target[k] \in Jobs /\ clip[target[k]] # "none" /\ handler[target[k]] # "queue"
    /\ \A i \in Jobs : kind[i] = "qa" /\ target[i] = target[k] => i = k

\* A verdict no PATCH has written is that of a qa job whose handler has begun.
Verdicts ==
  \A c \in Jobs \ edited : verdict[c] # "pending" =>
    \E k \in Jobs : /\ kind[k] = "qa" /\ target[k] = c /\ qaJob[c] = k
                    /\ status[k] = "completed" /\ handler[k] # "idle"

\* A clip waits for its location only after it passed.
Placing ==
  \A k \in Jobs : handler[k] = "place" /\ target[k] \notin edited => verdict[target[k]] = "pass"

\* mark_clip_uploaded stamps what it has given a location.
Uploads == \A c \in upload : location[c] # "none"

IInv ==
  /\ TypeOK /\ Rows /\ ClipsAreRendered /\ QaJobs /\ Verdicts
  /\ Placing /\ Uploads /\ ClipIsConsistent

\* No job and no clip is there at the start.
LEMMA InitIInv == Init => IInv
BY ClipAssumption
   DEF Init, IInv, TypeOK, Rows, ClipsAreRendered, QaJobs, Verdicts, Placing, Uploads,
       ClipIsConsistent, ClipStatus, ClipQAStatus, Locations, Queue!Init, Queue!TypeOK

\* What was judged names the job that judged it.
LEMMA IInvTraceable == IInv => VerdictIsTraceable
BY DEF IInv, Verdicts, VerdictIsTraceable

-----------------------------------------------------------------------------
\* A poll, a report of a worker, a cancellation: rows neither appear nor disappear,
\* and what is completed stays so.
LEMMA QueueSteps ==
  ASSUME Queue!TypeOK, Recover \/ (\E j \in Jobs : Work(j) \/ Cancel(j))
  PROVE  /\ Queue!TypeOK'
         /\ \A j \in Jobs : status'[j] = "none" <=> status[j] = "none"
         /\ \A j \in Jobs : status[j] = "completed" => status'[j] = "completed"
         /\ UNCHANGED <<jobVars, clipVars, handler, requestVars>>
<1> DEFINE Goal ==
      /\ Queue!TypeOK'
      /\ \A j \in Jobs : status'[j] = "none" <=> status[j] = "none"
      /\ \A j \in Jobs : status[j] = "completed" => status'[j] = "completed"
      /\ UNCHANGED <<jobVars, clipVars, handler, requestVars>>
<1> USE DEF Queue!TypeOK, Queue!JobStatus, Queue!Active
<1>1. CASE Recover
  BY <1>1 DEF Recover, Queue!TimeOut, Queue!Recovered
<1>2. ASSUME NEW j \in Jobs, NEW w \in Workers, Queue!Claim(w, j),
             UNCHANGED <<jobVars, clipVars, handler, requestVars>>
      PROVE  Goal
  BY <1>2 DEF Queue!Claim
<1>3. ASSUME NEW j \in Jobs,
             \/ Queue!Start(j) \/ Queue!Complete(j) \/ Queue!Retry(j) \/ Queue!Exhaust(j)
             \/ Queue!Cancel(j),
             UNCHANGED <<jobVars, clipVars, handler, requestVars>>
      PROVE  Goal
  BY <1>3 DEF Queue!Start, Queue!Complete, Queue!Retry, Queue!Exhaust, Queue!Cancel,
              Queue!EnsureTransition, Queue!ValidTransitions
<1> QED
  BY <1>1, <1>2, <1>3 DEF Work, Cancel

\* The invariant does not depend on what the queue does to open jobs.
LEMMA QueueIInv ==
  ASSUME IInv, Recover \/ (\E j \in Jobs : Work(j) \/ Cancel(j))
  PROVE  IInv'
<1>1. /\ Queue!TypeOK'
      /\ \A j \in Jobs : status'[j] = "none" <=> status[j] = "none"
      /\ \A j \in Jobs : status[j] = "completed" => status'[j] = "completed"
      /\ UNCHANGED <<jobVars, clipVars, handler, requestVars>>
  BY QueueSteps DEF IInv, TypeOK
<1> USE <1>1 DEF IInv, jobVars, clipVars, requestVars
<1>2. TypeOK' /\ Rows'
  BY DEF TypeOK, Rows
<1>3. ClipsAreRendered' /\ QaJobs' /\ Verdicts'
  BY DEF ClipsAreRendered, QaJobs, Verdicts
<1>4. Placing' /\ Uploads' /\ ClipIsConsistent'
  BY DEF Placing, Uploads, ClipIsConsistent
<1> QED
  BY <1>2, <1>3, <1>4

-----------------------------------------------------------------------------
\* create_job takes a row nothing refers to yet.
LEMMA InsertRow ==
  ASSUME IInv, NEW type \in {"render", "qa"}, NEW c \in Jobs \cup {NoJob}, Insert(type, c)
  PROVE  \E n \in Jobs :
           /\ status[n] = "none" /\ kind[n] = "none" /\ handler[n] = "idle"
           /\ Queue!TypeOK' /\ kind' \in [Jobs -> {"none", "render", "qa"}]
           /\ target' \in [Jobs -> Jobs \cup {NoJob}]
           /\ status'[n] = "pending" /\ kind'[n] = type /\ target'[n] = c
           /\ \A k \in Jobs : k # n => /\ status'[k] = status[k] /\ kind'[k] = kind[k]
                                       /\ target'[k] = target[k]
<1>1. PICK n \in Jobs : /\ status[n] = "none"
                        /\ status' = [status EXCEPT ![n] = "pending"]
                        /\ UNCHANGED <<owner, attempts, dispatched>>
                        /\ kind' = [kind EXCEPT ![n] = type]
                        /\ target' = [target EXCEPT ![n] = c]
  BY DEF Insert, Queue!Create
<1>2. kind[n] = "none" /\ handler[n] = "idle"
  BY <1>1 DEF IInv, Rows
<1> QED
  BY <1>1, <1>2 DEF IInv, TypeOK, Queue!TypeOK, Queue!JobStatus

\* A new render job has no clip yet.
LEMMA ApproveIInv ==
  ASSUME IInv, Approve
  PROVE  IInv'
<1>1. PICK n \in Jobs :
        /\ status[n] = "none" /\ kind[n] = "none" /\ handler[n] = "idle"
        /\ Queue!TypeOK' /\ kind' \in [Jobs -> {"none", "render", "qa"}]
        /\ target' \in [Jobs -> Jobs \cup {NoJob}]
        /\ status'[n] = "pending" /\ kind'[n] = "render" /\ target'[n] = NoJob
        /\ \A k \in Jobs : k # n => /\ status'[k] = status[k] /\ kind'[k] = kind[k]
                                    /\ target'[k] = target[k]
  BY InsertRow DEF Approve
<1>2. UNCHANGED <<clip, verdict, qaJob, location, published, handler, requestVars>>
  BY DEF Approve, clipVars
<1> USE <1>1, <1>2 DEF IInv, requestVars
<1>3. TypeOK' /\ Rows' /\ ClipsAreRendered'
  BY DEF TypeOK, Rows, ClipsAreRendered
<1>4. QaJobs'
  BY DEF QaJobs
<1>5. Verdicts'
  BY DEF Verdicts
<1>6. Placing'
  <2>1. \A k \in Jobs : handler[k] = "place" => target'[k] = target[k]
    OBVIOUS
  <2> QED
    BY <2>1 DEF Placing
<1>7. Uploads' /\ ClipIsConsistent'
  BY DEF Uploads, ClipIsConsistent
<1> QED
  BY <1>3, <1>4, <1>5, <1>6, <1>7

-----------------------------------------------------------------------------
\* on_render_completed makes the first clip of its job.
LEMMA RenderIInv ==
  ASSUME IInv, NEW j \in Jobs, RenderCompleted(j)
  PROVE  IInv'
<1>1. /\ kind[j] = "render" /\ handler[j] = "idle" /\ status[j] = "completed"
      /\ clip[j] = "none" /\ (j \notin edited => verdict[j] = "pending")
      /\ UNCHANGED <<status, owner, attempts, kind, target, verdict, qaJob, location,
                     published, requestVars>>
      /\ dispatched' \in [Jobs -> {0, 1}]
      /\ clip' = [clip EXCEPT ![j] = "created"]
      /\ handler' = [handler EXCEPT ![j] = "queue"]
  BY DEF RenderCompleted, Called, Queue!Dispatch, IInv, ClipsAreRendered,
     ClipIsConsistent, TypeOK, Queue!TypeOK, jobVars
<1>2. \A k \in Jobs : kind[k] = "qa" => target[k] # j
  BY <1>1 DEF IInv, QaJobs
<1> USE <1>1 DEF IInv, requestVars
<1>3. TypeOK' /\ Rows' /\ ClipsAreRendered'
  BY DEF TypeOK, Queue!TypeOK, ClipStatus, Rows, ClipsAreRendered
<1>4. QaJobs'
  BY <1>2 DEF QaJobs, TypeOK
<1>5. Verdicts'
  BY DEF Verdicts, TypeOK
<1>6. Placing'
  BY <1>2 DEF Placing, Rows, TypeOK
<1>7. Uploads' /\ ClipIsConsistent'
  BY DEF Uploads, ClipIsConsistent, TypeOK
<1> QED
  BY <1>3, <1>4, <1>5, <1>6, <1>7

\* The qa job of a clip is its only one.
LEMMA QueueQaIInv ==
  ASSUME IInv, NEW j \in Jobs, QueueQa(j)
  PROVE  IInv'
<1>1. PICK n \in Jobs :
        /\ status[n] = "none" /\ kind[n] = "none" /\ handler[n] = "idle"
        /\ Queue!TypeOK' /\ kind' \in [Jobs -> {"none", "render", "qa"}]
        /\ target' \in [Jobs -> Jobs \cup {NoJob}]
        /\ status'[n] = "pending" /\ kind'[n] = "qa" /\ target'[n] = j
        /\ \A k \in Jobs : k # n => /\ status'[k] = status[k] /\ kind'[k] = kind[k]
                                    /\ target'[k] = target[k]
  BY InsertRow DEF QueueQa
<1>2. /\ handler[j] = "queue" /\ kind[j] = "render" /\ clip[j] # "none"
      /\ UNCHANGED <<clip, verdict, qaJob, location, published, upload, requests, edited, moved>>
      /\ handler' = [handler EXCEPT ![j] = "record"]
  BY DEF QueueQa, clipVars, requestVars, IInv, Rows, ClipsAreRendered
<1>3. /\ n # j /\ handler'[n] = "idle" /\ handler'[j] = "record"
      /\ \A k \in Jobs : k # j => handler'[k] = handler[k]
      /\ \A k \in Jobs : kind[k] = "qa" => target[k] # j
  BY <1>1, <1>2 DEF IInv, TypeOK, QaJobs
<1>4. TypeOK'
  BY <1>1, <1>2 DEF IInv, TypeOK
<1>5. Rows' /\ ClipsAreRendered'
  BY <1>1, <1>2, <1>3 DEF IInv, Rows, ClipsAreRendered
<1>6. QaJobs'
  <2> SUFFICES ASSUME NEW k \in Jobs, kind'[k] = "qa"
               PROVE  /\ target'[k] \in Jobs /\ clip[target'[k]] # "none"
                      /\ handler'[target'[k]] # "queue"
                      /\ \A i \in Jobs : kind'[i] = "qa" /\ target'[i] = target'[k] => i = k
    BY <1>2 DEF QaJobs
  <2>1. CASE k = n
    BY <1>1, <1>2, <1>3, <2>1
  <2>2. CASE k # n
    <3>1. /\ kind[k] = "qa" /\ target'[k] = target[k] /\ target[k] # j
          /\ target[k] \in Jobs /\ clip[target[k]] # "none" /\ handler[target[k]] # "queue"
      BY <1>1, <1>3, <2>2 DEF IInv, QaJobs
    <3>2. \A i \in Jobs : kind'[i] = "qa" /\ target'[i] = target[k] => i = k
      BY <1>1, <3>1 DEF IInv, QaJobs
    <3> QED
      BY <1>3, <3>1, <3>2
  <2> QED
    BY <2>1, <2>2
<1>7. Verdicts'
  <2> SUFFICES ASSUME NEW c \in Jobs \ edited, verdict[c] # "pending"
               PROVE  \E k \in Jobs : /\ kind'[k] = "qa" /\ target'[k] = c /\ qaJob[c] = k
                                      /\ status'[k] = "completed" /\ handler'[k] # "idle"
    BY <1>2 DEF Verdicts
  <2>1. PICK k \in Jobs : /\ kind[k] = "qa" /\ target[k] = c /\ qaJob[c] = k
                          /\ status[k] = "completed" /\ handler[k] # "idle"
    BY DEF IInv, Verdicts
  <2> QED
    BY <1>1, <1>2, <1>3, <2>1
<1>8. Placing'
  <2>1. \A k \in Jobs : handler'[k] = "place" => handler[k] = "place" /\ target'[k] = target[k]
    BY <1>1, <1>3
  <2> QED
    BY <1>2, <2>1 DEF IInv, Placing
<1>9. Uploads' /\ ClipIsConsistent'
  BY <1>2 DEF IInv, Uploads, ClipIsConsistent
<1> QED
  BY <1>4, <1>5, <1>6, <1>7, <1>8, <1>9 DEF IInv

\* The id that RecordQa writes, however late, is that of the job that judges the clip.
LEMMA RecordQaIInv ==
  ASSUME IInv, NEW j \in Jobs, RecordQa(j)
  PROVE  IInv'
<1>1. PICK q \in Jobs : kind[q] = "qa" /\ target[q] = j /\ qaJob' = [qaJob EXCEPT ![j] = q]
  BY DEF RecordQa
<1>2. /\ handler[j] = "record" /\ status[j] = "completed" /\ kind[j] = "render"
      /\ clip[j] # "none"
      /\ UNCHANGED <<status, owner, attempts, dispatched, kind, target, clip, verdict,
                     location, published, requestVars>>
      /\ handler' = [handler EXCEPT ![j] = "over"]
  BY DEF RecordQa, IInv, Rows, ClipsAreRendered, queueVars, jobVars
<1> USE <1>1, <1>2 DEF IInv, requestVars
<1>3. TypeOK' /\ Rows' /\ ClipsAreRendered'
  BY DEF TypeOK, Queue!TypeOK, Rows, ClipsAreRendered
<1>4. QaJobs'
  BY DEF QaJobs, TypeOK
<1>5. Verdicts'
  <2> SUFFICES ASSUME NEW c \in Jobs \ edited, verdict[c] # "pending"
               PROVE  \E k \in Jobs : /\ kind[k] = "qa" /\ target[k] = c /\ qaJob'[c] = k
                                      /\ status[k] = "completed" /\ handler'[k] # "idle"
    BY DEF Verdicts
  <2>1. PICK k \in Jobs : /\ kind[k] = "qa" /\ target[k] = c /\ qaJob[c] = k
                          /\ status[k] = "completed" /\ handler[k] # "idle"
    BY DEF Verdicts
  <2>2. c = j => q = k
    BY <2>1 DEF QaJobs
  <2> QED
    BY <2>1, <2>2 DEF TypeOK
<1>6. Placing' /\ Uploads' /\ ClipIsConsistent'
  BY DEF Placing, Uploads, ClipIsConsistent, TypeOK
<1> QED
  BY <1>3, <1>4, <1>5, <1>6

\* on_qa_completed finds the clip of its job, the only one about it.
LEMMA QaTarget ==
  ASSUME IInv, NEW j \in Jobs, QaCompleted(j)
  PROVE  /\ kind[j] = "qa" /\ handler[j] = "idle" /\ status[j] = "completed"
         /\ target[j] \in Jobs /\ clip[target[j]] # "none"
         /\ \A i \in Jobs : kind[i] = "qa" /\ target[i] = target[j] => i = j
BY DEF QaCompleted, Called, Queue!Dispatch, IInv, QaJobs

\* A verdict, the status that goes with it and the id of its job are one commit.
LEMMA QaIInv ==
  ASSUME IInv, NEW j \in Jobs, QaCompleted(j)
  PROVE  IInv'
<1> DEFINE c == target[j]
<1>1. /\ kind[j] = "qa" /\ handler[j] = "idle" /\ status[j] = "completed"
      /\ c \in Jobs /\ clip[c] # "none"
      /\ \A i \in Jobs : kind[i] = "qa" /\ target[i] = c => i = j
  BY QaTarget
<1>2. PICK v \in ClipQAStatus \ {"pending"} :
        /\ verdict' = [verdict EXCEPT ![c] = v]
        /\ clip' = [clip EXCEPT ![c] = StatusFor[v]]
        /\ handler' = [handler EXCEPT ![j] = IF v = "pass" THEN "place" ELSE "over"]
  BY DEF QaCompleted
<1>3. /\ UNCHANGED <<status, owner, attempts, kind, target, location, published, upload,
                     requests, edited, moved>>
      /\ dispatched' \in [Jobs -> {0, 1}]
      /\ qaJob' = [qaJob EXCEPT ![c] = j]
  BY DEF QaCompleted, Called, Queue!Dispatch, IInv, TypeOK, Queue!TypeOK, jobVars, requestVars
\* What the step changes belongs to the clip and its qa job.
<1>4. /\ verdict'[c] = v /\ qaJob'[c] = j /\ v \in {"pass", "fail", "review"}
      /\ clip'[c] = StatusFor[v] /\ clip'[c] \in ClipStatus \ {"created"}
      /\ handler'[j] \in {"place", "over"} /\ (handler'[j] = "place" => v = "pass")
      /\ \A d \in Jobs : d # c => /\ verdict'[d] = verdict[d] /\ clip'[d] = clip[d]
                                  /\ qaJob'[d] = qaJob[d]
      /\ \A k \in Jobs : k # j => handler'[k] = handler[k]
  BY <1>1, <1>2, <1>3 DEF IInv, TypeOK, ClipQAStatus, StatusFor, ClipStatus
<1>5. TypeOK'
  BY <1>1, <1>2, <1>3, <1>4 DEF IInv, TypeOK, Queue!TypeOK, ClipQAStatus
<1> HIDE DEF c
<1>6. Rows' /\ ClipsAreRendered'
  BY <1>1, <1>3, <1>4 DEF IInv, Rows, ClipsAreRendered, ClipStatus
<1>7. QaJobs'
  BY <1>1, <1>3, <1>4 DEF IInv, QaJobs, ClipStatus
<1>8. Verdicts'
  <2> SUFFICES ASSUME NEW d \in Jobs \ edited, verdict'[d] # "pending"
               PROVE  \E k \in Jobs : /\ kind[k] = "qa" /\ target[k] = d /\ qaJob'[d] = k
                                      /\ status[k] = "completed" /\ handler'[k] # "idle"
    BY <1>3 DEF Verdicts
  <2>1. CASE d = c
    BY <1>1, <1>4, <2>1 DEF c
  <2>2. CASE d # c
    <3>1. PICK k \in Jobs : /\ kind[k] = "qa" /\ target[k] = d /\ qaJob[d] = k
                            /\ status[k] = "completed" /\ handler[k] # "idle"
      BY <1>4, <2>2 DEF IInv, Verdicts
    <3> QED
      BY <1>1, <1>4, <2>2, <3>1
  <2> QED
    BY <2>1, <2>2
<1>9. Placing'
  <2>1. ASSUME NEW k \in Jobs, handler'[k] = "place", target[k] \notin edited
        PROVE  verdict'[target[k]] = "pass"
    <3>1. CASE k = j
      BY <1>1, <1>4, <2>1, <3>1 DEF c
    <3>2. CASE k # j
      <4>1. handler[k] = "place" /\ kind[k] = "qa" /\ target[k] \in Jobs /\ target[k] # c
        BY <1>1, <1>4, <2>1, <3>2 DEF IInv, Rows, QaJobs
      <4> QED
        BY <1>4, <2>1, <4>1 DEF IInv, Placing
    <3> QED
      BY <3>1, <3>2
  <2> QED
    BY <1>3, <2>1 DEF Placing
<1>10. Uploads'
  BY <1>3 DEF IInv, Uploads
<1>11. ClipIsConsistent'
  <2> SUFFICES ASSUME NEW d \in Jobs \ edited
               PROVE  /\ (clip'[d] \in {"none", "created"}) <=> (verdict'[d] = "pending")
                      /\ verdict'[d] # "pending" => clip'[d] = StatusFor[verdict'[d]]
                      /\ published[d] => location[d] # "none"
                      /\ d \notin moved /\ location[d] # "none" => verdict'[d] = "pass"
    BY <1>3 DEF ClipIsConsistent
  <2>1. CASE d # c
    BY <1>4, <2>1 DEF IInv, ClipIsConsistent
  \* The clip had no verdict before, so that it was nowhere.
  <2>2. CASE d = c
    <3>1. verdict[d] = "pending"
      BY <1>1, <2>2 DEF IInv, Verdicts
    <3> QED
      BY <1>4, <2>2, <3>1 DEF IInv, ClipIsConsistent, ClipStatus
  <2> QED
    BY <2>1, <2>2
<1> QED
  BY <1>5, <1>6, <1>7, <1>8, <1>9, <1>10, <1>11 DEF IInv

\* A clip that no PATCH has judged is placed because it passed.
LEMMA PlaceIInv ==
  ASSUME IInv, NEW j \in Jobs, PlaceClip(j)
  PROVE  IInv'
<1>1. /\ handler[j] = "place" /\ status[j] = "completed" /\ target[j] \in Jobs
      /\ (target[j] \notin edited => verdict[target[j]] = "pass")
      /\ UNCHANGED <<status, owner, attempts, dispatched, kind, target, clip, verdict,
                     qaJob, published, upload, requests, edited, moved>>
      /\ location' = [location EXCEPT ![target[j]] = "pending_upload"]
      /\ handler' = [handler EXCEPT ![j] = "over"]
  BY DEF PlaceClip, IInv, Rows, QaJobs, Placing, queueVars, jobVars, requestVars
<1> USE <1>1 DEF IInv
<1>2. TypeOK' /\ Rows' /\ ClipsAreRendered'
  BY DEF TypeOK, Queue!TypeOK, Locations, Rows, ClipsAreRendered
<1>3. QaJobs' /\ Verdicts'
  BY DEF QaJobs, Verdicts, TypeOK
<1>4. Placing'
  BY DEF Placing, TypeOK
<1>5. Uploads' /\ ClipIsConsistent'
  BY DEF Uploads, ClipIsConsistent, TypeOK
<1> QED
  BY <1>2, <1>3, <1>4, <1>5

\* A handler that is lost leaves the clips as they are.
LEMMA LostIInv ==
  ASSUME IInv, NEW j \in Jobs, HandlerLost(j)
  PROVE  IInv'
<1>1. /\ status[j] = "completed" /\ handler' = [handler EXCEPT ![j] = "lost"]
      /\ UNCHANGED <<status, owner, attempts, dispatched, kind, target, clip, verdict,
                     qaJob, location, published, upload, requests, edited, moved>>
  BY DEF HandlerLost, queueVars, jobVars, clipVars, requestVars
<1> USE <1>1 DEF IInv
<1>2. TypeOK' /\ Rows' /\ ClipsAreRendered'
  BY DEF TypeOK, Queue!TypeOK, Rows, ClipsAreRendered
<1>3. QaJobs' /\ Verdicts' /\ Placing'
  BY DEF QaJobs, Verdicts, Placing, TypeOK
<1>4. Uploads' /\ ClipIsConsistent'
  BY DEF Uploads, ClipIsConsistent
<1> QED
  BY <1>2, <1>3, <1>4

\* A request about a clip, whatever it writes: the queue, the handlers and the qa jobs
\* are as before, and what it writes by PATCH is known to be edited.
LEMMA StoreIInv ==
  ASSUME IInv, NEW c \in Jobs, Store(c)
  PROVE  IInv'
<1>1. UNCHANGED <<status, owner, attempts, dispatched, kind, target, qaJob, handler>>
  BY DEF Store, Request, Patch, MarkUploaded, StampPublished, UploadLost, SetLocation,
     queueVars, jobVars, clipVars
<1>2. /\ clip' \in [Jobs -> ClipStatus \cup {"none"}]
      /\ verdict' \in [Jobs -> ClipQAStatus]
      /\ location' \in [Jobs -> Locations \cup {"none"}]
      /\ published' \in [Jobs -> BOOLEAN]
      /\ upload' \subseteq Jobs /\ edited' \subseteq Jobs /\ moved' \subseteq Jobs
      /\ requests' \in Nat
      /\ edited \subseteq edited' /\ moved \subseteq moved'
  <2> USE ClipAssumption DEF Request, IInv, TypeOK
  <2>1. CASE Patch(c)
    <3>1. /\ clip' = clip \/ \E s \in PatchStatuses : clip' = [clip EXCEPT ![c] = s]
          /\ verdict' = verdict \/ \E v \in PatchVerdicts : verdict' = [verdict EXCEPT ![c] = v]
          /\ published' = published \/ published' = [published EXCEPT ![c] = TRUE]
      BY <2>1 DEF Patch
    <3>2. edited' = edited \cup {c} /\ requests' = requests + 1
      BY <2>1 DEF Patch
    <3>3. UNCHANGED <<location, upload, moved>>
      BY <2>1 DEF Patch
    <3>4. clip' \in [Jobs -> ClipStatus \cup {"none"}]
      BY <3>1
    <3>5. verdict' \in [Jobs -> ClipQAStatus]
      BY <3>1
    <3>6. published' \in [Jobs -> BOOLEAN]
      BY <3>1
    <3> QED
      BY <3>2, <3>3, <3>4, <3>5, <3>6
  <2>2. CASE MarkUploaded(c)
    BY <2>2 DEF MarkUploaded, Locations
  <2>3. CASE StampPublished(c) \/ UploadLost(c)
    BY <2>3 DEF StampPublished, UploadLost, clipVars
  <2>4. CASE SetLocation(c)
    BY <2>4 DEF SetLocation
  <2> QED
    BY <2>1, <2>2, <2>3, <2>4 DEF Store
<1>3. \A d \in Jobs :
        /\ clip[d] # "none" <=> clip'[d] # "none"
        /\ d \notin edited' => clip'[d] = clip[d] /\ verdict'[d] = verdict[d]
        /\ d \notin moved' => location'[d] = location[d]
        /\ location'[d] = "none" => location[d] = "none"
  BY ClipAssumption
     DEF Store, Request, Patch, MarkUploaded, StampPublished, UploadLost, SetLocation,
         clipVars, IInv, TypeOK, Locations, ClipStatus
<1>4. /\ \A d \in upload' : d \in upload \/ location'[d] # "none"
      /\ \A d \in Jobs : published'[d] => published[d] \/ d \in edited' \/ d \in upload
  BY DEF Store, Request, Patch, MarkUploaded, StampPublished, UploadLost, SetLocation,
         clipVars, IInv, TypeOK
<1>5. TypeOK' /\ Rows'
  BY <1>1, <1>2 DEF IInv, TypeOK, Queue!TypeOK, Rows
<1>6. ClipsAreRendered' /\ QaJobs' /\ Verdicts'
  BY <1>1, <1>2, <1>3 DEF IInv, ClipsAreRendered, QaJobs, Verdicts
<1>7. Placing'
  <2> SUFFICES ASSUME NEW k \in Jobs, handler[k] = "place", target[k] \notin edited'
               PROVE  verdict'[target[k]] = "pass"
    BY <1>1 DEF Placing
  <2>1. target[k] \in Jobs
    BY DEF IInv, Rows, QaJobs
  <2> QED
    BY <1>2, <1>3, <2>1 DEF IInv, Placing
<1>8. Uploads'
  BY <1>2, <1>3, <1>4 DEF IInv, Uploads
<1>9. ClipIsConsistent'
  BY <1>2, <1>3, <1>4 DEF IInv, ClipIsConsistent, Uploads
<1> QED
  BY <1>5, <1>6, <1>7, <1>8, <1>9 DEF IInv

-----------------------------------------------------------------------------
\* The invariant is inductive.
LEMMA NextIInv == IInv /\ [Next]_vars => IInv'
<1> SUFFICES ASSUME IInv, [Next]_vars PROVE IInv'
  OBVIOUS
<1>1. CASE Approve \/ Recover \/ \E j \in Jobs : Work(j) \/ Cancel(j)
  BY <1>1, ApproveIInv, QueueIInv
<1>2. ASSUME NEW j \in Jobs, Handle(j) \/ HandlerLost(j) \/ Store(j) PROVE IInv'
  BY <1>2, RenderIInv, QueueQaIInv, RecordQaIInv, QaIInv, PlaceIInv, LostIInv, StoreIInv
     DEF Handle
<1>3. CASE UNCHANGED vars
  BY <1>3 DEF vars, queueVars, jobVars, clipVars, requestVars, IInv, TypeOK, Queue!TypeOK, Rows,
     ClipsAreRendered, QaJobs, Verdicts, Placing, Uploads, ClipIsConsistent
<1> QED
  BY <1>1, <1>2, <1>3 DEF Next

\* The strengthening holds throughout.
THEOREM ClipInvariant == Spec => []IInv
BY InitIInv, NextIInv, PTL DEF Spec

\* Every column of jobs and clips keeps its type.
THEOREM ClipTypeOK == Spec => []TypeOK
<1>1. IInv => TypeOK
  BY DEF IInv
<1> QED
  BY <1>1, ClipInvariant, PTL

\* A clip that was judged names the completed qa job that judged it, even if the handler
\* that queued the job was lost, or comes to record its id later.
THEOREM VerdictIsTraceableHolds == Spec => []VerdictIsTraceable
BY IInvTraceable, ClipInvariant, PTL

\* Verdict, status and location of a clip that no PATCH has written fit together
\* between any two commits of handlers and requests.
THEOREM ClipIsConsistentHolds == Spec => []ClipIsConsistent
<1>1. IInv => ClipIsConsistent
  BY DEF IInv
<1> QED
  BY <1>1, ClipInvariant, PTL

-----------------------------------------------------------------------------
\* What a step may do to a clip that was judged.
LEMMA StepLeavesDecisions ==
  ASSUME IInv, [Next]_vars, NEW c \in Jobs
  PROVE  /\ (\E k \in QaOf(c) : handler[k] # "idle")
              /\ <<clip'[c], verdict'[c]>> # <<clip[c], verdict[c]>> => Patch(c)
         /\ (\E k \in QaOf(c) : handler[k] \in {"over", "lost"})
              /\ location'[c] # location[c] => MarkUploaded(c) \/ SetLocation(c)
<1> DEFINE Stand ==
      /\ (\E k \in QaOf(c) : handler[k] # "idle")
           /\ <<clip'[c], verdict'[c]>> # <<clip[c], verdict[c]>> => Patch(c)
      /\ (\E k \in QaOf(c) : handler[k] \in {"over", "lost"})
           /\ location'[c] # location[c] => MarkUploaded(c) \/ SetLocation(c)
\* A clip is created before it has a qa job.
<1>1. ASSUME NEW j \in Jobs, RenderCompleted(j) PROVE Stand
  <2>1. /\ clip' = [clip EXCEPT ![j] = "created"] /\ UNCHANGED <<verdict, location>>
        /\ clip[j] = "none"
    BY <1>1 DEF RenderCompleted, Called, IInv, ClipsAreRendered
  <2>2. QaOf(j) = {}
    BY <2>1 DEF QaOf, IInv, QaJobs
  <2> QED
    BY <2>1, <2>2 DEF IInv, TypeOK
\* It has only one, which is handled once.
<1>2. ASSUME NEW j \in Jobs, QaCompleted(j) PROVE Stand
  <2>1. /\ UNCHANGED location
        /\ \A d \in Jobs : d # target[j] => clip'[d] = clip[d] /\ verdict'[d] = verdict[d]
    BY <1>2 DEF QaCompleted, IInv, TypeOK
  <2>2. \A k \in QaOf(target[j]) : handler[k] = "idle"
    BY <1>2, QaTarget DEF QaOf
  <2> QED
    BY <2>1, <2>2
<1>3. ASSUME NEW j \in Jobs, PlaceClip(j) PROVE Stand
  <2>1. /\ UNCHANGED <<clip, verdict>> /\ handler[j] = "place"
        /\ \A d \in Jobs : d # target[j] => location'[d] = location[d]
    BY <1>3 DEF PlaceClip, IInv, TypeOK
  <2>2. \A k \in QaOf(target[j]) : k = j
    BY <2>1 DEF QaOf, IInv, Rows, QaJobs
  <2> QED
    BY <2>1, <2>2
<1>4. ASSUME NEW d \in Jobs, Store(d) PROVE Stand
  <2>1. CASE Patch(d)
    <3>1. /\ UNCHANGED location
          /\ \A b \in Jobs : b # d => clip'[b] = clip[b] /\ verdict'[b] = verdict[b]
      BY <2>1 DEF Patch, IInv, TypeOK
    <3> QED
      BY <2>1, <3>1
  <2>2. CASE MarkUploaded(d) \/ SetLocation(d)
    <3>1. /\ UNCHANGED <<clip, verdict>>
          /\ \A b \in Jobs : b # d => location'[b] = location[b]
      BY <2>2 DEF MarkUploaded, SetLocation, IInv, TypeOK
    <3> QED
      BY <2>2, <3>1
  <2>3. CASE StampPublished(d) \/ UploadLost(d)
    BY <2>3 DEF StampPublished, UploadLost, clipVars
  <2> QED
    BY <1>4, <2>1, <2>2, <2>3 DEF Store
<1>5. ASSUME NEW j \in Jobs,
             Work(j) \/ Cancel(j) \/ QueueQa(j) \/ RecordQa(j) \/ HandlerLost(j)
      PROVE  UNCHANGED <<clip, verdict, location>>
  BY <1>5 DEF Work, Cancel, QueueQa, RecordQa, HandlerLost, clipVars
<1>6. CASE Approve \/ Recover \/ UNCHANGED vars
  BY <1>6 DEF Approve, Recover, vars, clipVars
<1> QED
  BY <1>1, <1>2, <1>3, <1>4, <1>5, <1>6 DEF Next, Handle

\* No handler, however late, takes back what a request has decided about a judged
\* clip, for any number of clips, jobs and requests.
THEOREM DecisionsStandHolds == Spec => DecisionsStand
<1>1. IInv /\ [Next]_vars =>
        [\A c \in Jobs :
           /\ (\E k \in QaOf(c) : handler[k] # "idle")
                /\ <<clip'[c], verdict'[c]>> # <<clip[c], verdict[c]>> => Patch(c)
           /\ (\E k \in QaOf(c) : handler[k] \in {"over", "lost"})
                /\ location'[c] # location[c] => MarkUploaded(c) \/ SetLocation(c)]_vars
  BY StepLeavesDecisions
<1> QED
  BY <1>1, ClipInvariant, PTL DEF Spec, DecisionsStand
-----------------------------------------------------------------------------
\* The queue underneath.
QueueProofs == INSTANCE JobQueueProofs

\* Approvals and handlers insert jobs, workers and handlers work them off; what
\* operators and uploads do to a clip does not touch the queue.
LEMMA StepIsQueueStep == [Next]_vars => [Queue!Next]_(Queue!vars)
<1> SUFFICES ASSUME [Next]_vars PROVE Queue!Next \/ UNCHANGED queueVars
  BY DEF queueVars, Queue!vars
<1>1. ASSUME NEW type, NEW c, Insert(type, c) PROVE Queue!Next
  BY <1>1 DEF Insert, Queue!Next
<1>2. CASE Approve \/ Recover
  BY <1>1, <1>2 DEF Approve, Recover, Queue!Next
<1>3. ASSUME NEW j \in Jobs, Work(j) \/ Cancel(j) PROVE Queue!Next
  BY <1>3 DEF Work, Cancel, Queue!Next
<1>4. ASSUME NEW j \in Jobs, Handle(j) \/ HandlerLost(j)
      PROVE  Queue!Next \/ UNCHANGED queueVars
  BY <1>1, <1>4 DEF Handle, RenderCompleted, QueueQa, RecordQa, QaCompleted, PlaceClip,
     HandlerLost, Called, Queue!Next
<1>5. ASSUME NEW c \in Jobs, Store(c) PROVE UNCHANGED queueVars
  BY <1>5 DEF Store, Request, Patch, MarkUploaded, StampPublished, UploadLost, SetLocation
<1>6. CASE UNCHANGED vars
  BY <1>6 DEF vars
<1> QED
  BY <1>2, <1>3, <1>4, <1>5, <1>6 DEF Next

\* The queue under renderings and quality checks is JobQueue.
THEOREM ClipsRunTheQueue == Spec => Queue!Spec
<1>1. Init => Queue!Init
  BY DEF Init
<1> QED
  BY <1>1, StepIsQueueStep, PTL DEF Spec, Queue!Spec

\* Render and qa jobs keep what the queue promises, whatever becomes of the clips.
THEOREM ClipsKeepTheQueue ==
  Spec => /\ []Queue!RetryBudget /\ []Queue!OwnerMatchesStatus
          /\ []Queue!FollowUpOnlyIfCompleted /\ Queue!TransitionsValid
<1>1. QueueProofs!QueueAssumption
  BY ClipAssumption DEF QueueProofs!QueueAssumption
<1>2. QueueProofs!Spec =>
        /\ []QueueProofs!RetryBudget /\ []QueueProofs!OwnerMatchesStatus
        /\ []QueueProofs!FollowUpOnlyIfCompleted /\ QueueProofs!TransitionsValid
  BY <1>1, QueueProofs!QueuePromise
\* The two instances are the same formulas.
<1>3. Queue!Init <=> QueueProofs!Init
  BY DEF Queue!Init, QueueProofs!Init
<1>4. Queue!Next <=> QueueProofs!Next
  BY DEF Queue!Next, QueueProofs!Next,
         Queue!TimeOut, QueueProofs!TimeOut, Queue!Recovered, QueueProofs!Recovered,
         Queue!Create, QueueProofs!Create, Queue!Start, QueueProofs!Start,
         Queue!Complete, QueueProofs!Complete, Queue!Dispatch, QueueProofs!Dispatch,
         Queue!Retry, QueueProofs!Retry, Queue!Exhaust, QueueProofs!Exhaust,
         Queue!Cancel, QueueProofs!Cancel, Queue!Claim, QueueProofs!Claim,
         Queue!EnsureTransition, QueueProofs!EnsureTransition,
         Queue!ValidTransitions, QueueProofs!ValidTransitions, Queue!JobStatus,
         QueueProofs!JobStatus, Queue!Active, QueueProofs!Active
<1>5. [Queue!Next]_(Queue!vars) => [QueueProofs!Next]_(QueueProofs!vars)
  BY <1>4 DEF Queue!vars, QueueProofs!vars
<1>6. /\ Queue!RetryBudget <=> QueueProofs!RetryBudget
      /\ Queue!OwnerMatchesStatus <=> QueueProofs!OwnerMatchesStatus
      /\ Queue!FollowUpOnlyIfCompleted <=> QueueProofs!FollowUpOnlyIfCompleted
  BY DEF Queue!RetryBudget, QueueProofs!RetryBudget, Queue!OwnerMatchesStatus,
         QueueProofs!OwnerMatchesStatus, Queue!FollowUpOnlyIfCompleted,
         QueueProofs!FollowUpOnlyIfCompleted, Queue!Active, QueueProofs!Active
<1>7. [\A j \in Jobs : QueueProofs!LegalChange(status[j], status'[j])]_status =>
        [\A j \in Jobs : Queue!LegalChange(status[j], status'[j])]_status
  BY DEF Queue!LegalChange, QueueProofs!LegalChange, Queue!EnsureTransition,
         QueueProofs!EnsureTransition, Queue!ValidTransitions, QueueProofs!ValidTransitions,
         Queue!JobStatus, QueueProofs!JobStatus, Queue!Active, QueueProofs!Active
<1> QED
  BY <1>2, <1>3, <1>5, <1>6, <1>7, ClipsRunTheQueue, PTL
     DEF Queue!Spec, QueueProofs!Spec, Queue!TransitionsValid, QueueProofs!TransitionsValid
=============================================================================
