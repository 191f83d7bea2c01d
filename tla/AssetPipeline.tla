----------------------------- MODULE AssetPipeline -----------------------------
(***************************************************************************)
(* How the assets of the scored campaigns get downloaded and transcribed:  *)
(* scripts/download_enqueue_tick.py inserts download jobs, workers take    *)
(* them from the queue (JobQueue), and the handlers of                     *)
(* app/services/job_state_transitions.py, called by the request that       *)
(* completed a job, move the asset on and insert the next job.             *)
(*                                                                         *)
(* Every commit of a handler is a step of its own: other requests commit   *)
(* in between, and the server may die there.                               *)
(***************************************************************************)
EXTENDS Integers, FiniteSets

CONSTANTS
  Campaigns,    \* campaigns in status scored, numbered by id
  Assets,       \* assets the tick does not filter out, numbered by created_at
  CampaignOf,   \* column campaign_id of each asset
  Refused,      \* assets whose URL ck_jobs_no_folder_download refuses
  Limit,        \* --limit of the tick: campaigns per sweep
  Jobs,         \* job rows, numbered in the order they are inserted
  MaxAttempts,  \* column max_attempts of each job
  Workers,      \* worker ids
  NoWorker,     \* worker_id IS NULL
  NoAsset       \* the tick has picked no asset; the job row does not exist yet

ASSUME PipelineAssumption ==
  /\ Campaigns \subseteq Nat /\ IsFiniteSet(Campaigns)
  /\ Assets \subseteq Nat /\ Jobs \subseteq Nat
  /\ CampaignOf \in [Assets -> Campaigns]
  /\ Refused \subseteq Assets
  /\ Limit \in Nat
  /\ MaxAttempts \in [Jobs -> Nat \ {0}]
  /\ NoWorker \notin Workers
  /\ NoAsset \notin Assets

VARIABLES
  status, owner, attempts, dispatched,  \* the queue, as in JobQueue
  kind,         \* column job_type of each job
  target,       \* payload asset_id of each job
  asset,        \* column status of each asset
  media,        \* what the download reported: the format of the file, or "none"
  text,         \* whether extra_metadata holds the transcription
  handler,      \* how far the follow-up handler of each job has come
  tick          \* the sweep in progress: campaigns to do, asset picked

queueVars == <<status, owner, attempts, dispatched>>
assetVars == <<asset, media, text>>
jobVars == <<kind, target>>
vars == <<queueVars, jobVars, assetVars, handler, tick>>

Queue == INSTANCE JobQueue WITH
  status <- status, owner <- owner, attempts <- attempts, dispatched <- dispatched

AssetStatus == {"pending", "downloaded", "transcribed", "failed"}

\* The campaigns of one sweep: ORDER BY id LIMIT limit.
Sweep == {c \in Campaigns : Cardinality({d \in Campaigns : d < c}) < Limit}

Idle == [todo |-> {}, pick |-> NoAsset, up |-> TRUE]

Init ==
  /\ Queue!Init
  /\ kind = [j \in Jobs |-> "none"]
  /\ target = [j \in Jobs |-> NoAsset]
  /\ asset = [a \in Assets |-> "pending"]
  /\ media = [a \in Assets |-> "none"]
  /\ text = [a \in Assets |-> FALSE]
  /\ handler = [j \in Jobs |-> "idle"]
  /\ tick = Idle

\* create_job: the next row of the table.
Insert(type, a) ==
  \E j \in Jobs :
    /\ \A k \in Jobs : k < j => status[k] # "none"
    /\ Queue!Create(j)
    /\ kind' = [kind EXCEPT ![j] = type]
    /\ target' = [target EXCEPT ![j] = a]

-----------------------------------------------------------------------------
\* The asset the tick considers for campaign c: the oldest one still pending.
First(c, a) ==
  /\ CampaignOf[a] = c
  /\ asset[a] = "pending"
  /\ \A b \in Assets : CampaignOf[b] = c /\ asset[b] = "pending" => a <= b

\* Mutant: only an open job counts.
HasDownload_OpenOnly(a) ==
  \E j \in Jobs : /\ kind[j] = "download" /\ target[j] = a
                  /\ status[j] \in {"pending", "assigned", "processing"}

\* A download job in any status keeps the asset from being enqueued.
HasDownload(a) == \E j \in Jobs : kind[j] = "download" /\ target[j] = a

\* The campaign the sweep has come to.
Current(c) == c \in tick.todo /\ \A d \in tick.todo : c <= d

\* The cron starts a sweep over the campaigns.
TickBegin ==
  /\ tick.todo = {}
  /\ Sweep # {}
  /\ tick' = [Idle EXCEPT !.todo = Sweep]
  /\ UNCHANGED <<queueVars, jobVars, assetVars, handler>>

\* No asset is left to download in the campaign, or the first one has its job.
TickSkip(c) ==
  /\ Current(c)
  /\ tick.pick = NoAsset
  /\ \A a \in Assets : First(c, a) => HasDownload(a)
  /\ tick' = [tick EXCEPT !.todo = @ \ {c}]
  /\ UNCHANGED <<queueVars, jobVars, assetVars, handler>>

TickPick(c, a) ==
  /\ Current(c)
  /\ tick.pick = NoAsset
  /\ First(c, a)
  /\ ~HasDownload(a)
  /\ tick' = [tick EXCEPT !.pick = a]
  /\ UNCHANGED <<queueVars, jobVars, assetVars, handler>>

TickInsert(c, a) ==
  /\ Current(c)
  /\ tick.pick = a
  /\ a \notin Refused
  /\ Insert("download", a)
  /\ tick' = [Idle EXCEPT !.todo = tick.todo \ {c}]
  /\ UNCHANGED <<assetVars, handler>>

\* Mutant: the IntegrityError ends the sweep.
TickRefused_Ends(c, a) ==
  /\ Current(c)
  /\ tick.pick = a
  /\ a \in Refused
  /\ tick' = Idle
  /\ UNCHANGED <<queueVars, jobVars, assetVars, handler>>

\* IntegrityError: rolled back, on with the next campaign.
TickRefused(c, a) ==
  /\ Current(c)
  /\ tick.pick = a
  /\ a \in Refused
  /\ tick' = [Idle EXCEPT !.todo = tick.todo \ {c}]
  /\ UNCHANGED <<queueVars, jobVars, assetVars, handler>>

\* The script is killed.
TickDies ==
  /\ tick.todo # {}
  /\ tick' = [Idle EXCEPT !.up = FALSE]
  /\ UNCHANGED <<queueVars, jobVars, assetVars, handler>>

-----------------------------------------------------------------------------
\* What workers and polls do to the queue; nothing else changes with it.
Claim(j) == (\E w \in Workers : Queue!Claim(w, j)) /\ UNCHANGED <<jobVars, assetVars, handler, tick>>
Start(j) == Queue!Start(j) /\ UNCHANGED <<jobVars, assetVars, handler, tick>>
TimeOut == Queue!TimeOut /\ UNCHANGED <<jobVars, assetVars, handler, tick>>
Cancel(j) == Queue!Cancel(j) /\ UNCHANGED <<jobVars, assetVars, handler, tick>>

Finish(j) ==
  /\ Queue!Complete(j) \/ Queue!Retry(j) \/ Queue!Exhaust(j)
  /\ UNCHANGED <<jobVars, assetVars, handler, tick>>

-----------------------------------------------------------------------------
\* complete_job calls the handler of the job type, once.
Called(j, type) ==
  /\ kind[j] = type
  /\ handler[j] = "idle"
  /\ Queue!Dispatch(j)
  /\ UNCHANGED jobVars

\* on_download_completed, first commit: the asset is downloaded.
DownloadCompleted(j) ==
  /\ Called(j, "download")
  /\ asset' = [asset EXCEPT ![target[j]] = "downloaded"]
  /\ handler' = [handler EXCEPT ![j] = "store"]
  /\ UNCHANGED <<media, text, tick>>

\* Second commit: path, size, format, as the worker reported them.
StoreResult(j) ==
  /\ handler[j] = "store"
  /\ \E m \in {"valid", "invalid"} : media' = [media EXCEPT ![target[j]] = m]
  /\ handler' = [handler EXCEPT ![j] = "check"]
  /\ UNCHANGED <<queueVars, jobVars, asset, text, tick>>

\* Mutant: skip_download is set, the status is left as it is.
RejectMedia_KeepsStatus(j) ==
  /\ handler[j] = "check"
  /\ media[target[j]] = "invalid"
  /\ handler' = [handler EXCEPT ![j] = "over"]
  /\ UNCHANGED <<queueVars, jobVars, assetVars, tick>>

\* MediaFormatInvalid: skip_download and the status failed, in one commit.
RejectMedia(j) ==
  /\ handler[j] = "check"
  /\ media[target[j]] = "invalid"
  /\ asset' = [asset EXCEPT ![target[j]] = "failed"]
  /\ handler' = [handler EXCEPT ![j] = "over"]
  /\ UNCHANGED <<queueVars, jobVars, media, text, tick>>

\* Mutant: the transcription is queued before the result is looked at.
QueueTranscribe_Early(j) ==
  /\ handler[j] \in {"store", "check"}
  /\ \A k \in Jobs : ~(kind[k] = "transcribe" /\ target[k] = target[j])
  /\ Insert("transcribe", target[j])
  /\ handler' = [handler EXCEPT ![j] = IF @ = "check" /\ media[target[j]] = "valid"
                                       THEN "over" ELSE @]
  /\ UNCHANGED <<assetVars, tick>>

\* Mutant: the format is not checked.
QueueTranscribe_Unchecked(j) ==
  /\ handler[j] = "check"
  /\ Insert("transcribe", target[j])
  /\ handler' = [handler EXCEPT ![j] = "over"]
  /\ UNCHANGED <<assetVars, tick>>

\* Last commit: the transcribe job.
QueueTranscribe(j) ==
  /\ handler[j] = "check"
  /\ media[target[j]] = "valid"
  /\ Insert("transcribe", target[j])
  /\ handler' = [handler EXCEPT ![j] = "over"]
  /\ UNCHANGED <<assetVars, tick>>

\* on_transcribe_completed, first commit.
TranscribeCompleted(j) ==
  /\ Called(j, "transcribe")
  /\ asset' = [asset EXCEPT ![target[j]] = "transcribed"]
  /\ handler' = [handler EXCEPT ![j] = "text"]
  /\ UNCHANGED <<media, text, tick>>

\* Second commit; the clip selection that follows does not touch the asset's
\* status.
StoreTranscription(j) ==
  /\ handler[j] = "text"
  /\ text' = [text EXCEPT ![target[j]] = TRUE]
  /\ handler' = [handler EXCEPT ![j] = "over"]
  /\ UNCHANGED <<queueVars, jobVars, asset, media, tick>>

\* fail_job names on_job_failed, which its module never imports: the NameError
\* is logged, and the asset of a job that failed for good is left as it was.
JobFailed(j) ==
  /\ status[j] = "failed"
  /\ handler[j] = "idle"
  /\ handler' = [handler EXCEPT ![j] = "over"]
  /\ UNCHANGED <<queueVars, jobVars, assetVars, tick>>

\* The server dies, or an exception is logged, before the handler's next
\* commit; the completion itself stands.
HandlerLost(j) ==
  /\ status[j] = "completed"
  /\ handler[j] \notin {"over", "lost"}
  /\ handler' = [handler EXCEPT ![j] = "lost"]
  /\ UNCHANGED <<queueVars, jobVars, assetVars, tick>>

Handle(j) ==
  \/ DownloadCompleted(j) \/ StoreResult(j) \/ RejectMedia(j) \/ QueueTranscribe(j)
  \/ TranscribeCompleted(j) \/ StoreTranscription(j) \/ JobFailed(j)

TickStep ==
  \/ TickBegin
  \/ \E c \in Campaigns : TickSkip(c)
  \/ \E c \in Campaigns, a \in Assets :
       TickPick(c, a) \/ TickInsert(c, a) \/ TickRefused(c, a)

Work(j) == Claim(j) \/ Start(j) \/ Finish(j)

Next ==
  \/ TickStep \/ TickDies \/ TimeOut
  \/ \E j \in Jobs : Work(j) \/ Cancel(j) \/ Handle(j) \/ HandlerLost(j)

Spec == Init /\ [][Next]_vars

\* The lease of job j runs out: its worker is gone, and the job is free again or
\* given to another worker without having failed.
Lapse(j) ==
  /\ status[j] \in Queue!Active /\ status'[j] \in {"pending", "assigned"}
  /\ <<status'[j], owner'[j]>> # <<status[j], owner[j]>>
  /\ attempts'[j] = attempts[j]

\* The cron keeps running the tick; workers keep polling and report on the jobs
\* they begin; the server runs the handlers it does not lose; the tick is not
\* killed for ever, nor does the lease of a job lapse for ever.
Fairness ==
  /\ WF_vars(TickStep)
  /\ \A j \in Jobs : WF_vars(Work(j) \/ Handle(j))
  /\ <>[](tick.up)
  /\ <>[][\A j \in Jobs : ~Lapse(j)]_vars

FairSpec == Spec /\ Fairness

-----------------------------------------------------------------------------
TypeOK ==
  /\ Queue!TypeOK
  /\ kind \in [Jobs -> {"none", "download", "transcribe"}]
  /\ target \in [Jobs -> Assets \cup {NoAsset}]
  /\ asset \in [Assets -> AssetStatus]
  /\ media \in [Assets -> {"none", "valid", "invalid"}]
  /\ text \in [Assets -> BOOLEAN]
  /\ handler \in [Jobs -> {"idle", "store", "check", "text", "over", "lost"}]
  /\ tick \in [todo : SUBSET Campaigns, pick : Assets \cup {NoAsset}, up : BOOLEAN]

\* "don't re-enqueue the SAME asset": however its jobs end, an asset is
\* downloaded, and transcribed, by one job.
OneJobOfEachKind ==
  \A i, j \in Jobs :
    i # j /\ kind[i] # "none" /\ kind[i] = kind[j] => target[i] # target[j]

\* A worker is only asked to transcribe what was downloaded in a format it can
\* open (WhisperX fails on anything else).
TranscribesMediaOnly ==
  \A j \in Jobs : kind[j] = "transcribe" =>
    /\ media[target[j]] = "valid"
    /\ asset[target[j]] \in {"downloaded", "transcribed"}

\* A handler that ran to its end left nothing half done: a downloaded asset has
\* its transcribe job or is marked failed, a transcribed one has its text.
HandledIsComplete ==
  \A j \in Jobs : handler[j] = "over" /\ status[j] = "completed" =>
    CASE kind[j] = "download" ->
           \/ asset[target[j]] = "failed" /\ media[target[j]] = "invalid"
           \/ \E k \in Jobs : kind[k] = "transcribe" /\ target[k] = target[j]
      [] kind[j] = "transcribe" ->
           asset[target[j]] = "transcribed" /\ text[target[j]]

\* pending -> downloaded -> transcribed, or failed after the download: an asset
\* never moves back, whatever handlers are running or lost.
MovesForward ==
  [][\A a \in Assets : asset'[a] # asset[a] =>
       \/ asset[a] = "pending" /\ asset'[a] = "downloaded"
       \/ asset[a] = "downloaded" /\ asset'[a] \in {"transcribed", "failed"}]_asset

\* The stage asset a has reached, from what the tables say of it.
HasTranscribe(a) == \E j \in Jobs : kind[j] = "transcribe" /\ target[j] = a

Stage(a) ==
  IF asset[a] = "pending" THEN IF HasDownload(a) THEN "download_pending" ELSE "discovered"
  ELSE IF asset[a] = "downloaded" THEN IF HasTranscribe(a) THEN "transcribe_pending"
                                       ELSE "downloaded"
  ELSE IF asset[a] = "transcribed" /\ text[a] THEN "stored"
  ELSE asset[a]

Life == INSTANCE AssetLife WITH stage <- [a \in Assets |-> Stage(a)]

\* Sweeps, workers and handlers, which commit one table at a time, die and are
\* repeated, take every asset through its life one stage after the other: no job is
\* inserted for an asset that is past it, and no stage is skipped or taken twice.
ImplementsAssetLife == Life!Spec

\* Nothing goes wrong with the jobs of the assets of campaign c.
Undisturbed(c) ==
  \A j \in Jobs : target[j] \in Assets /\ CampaignOf[target[j]] = c =>
    status[j] \notin {"failed", "cancelled"} /\ handler[j] # "lost"

\* An asset of a campaign within the sweep is downloaded, as long as its own
\* campaign is undisturbed and no asset before it in the campaign is refused;
\* what happens to other campaigns, and to the tick, does not matter.
EveryAssetIsTaken ==
  \A a \in {b \in Assets : /\ CampaignOf[b] \in Sweep
                           /\ \A r \in Refused : CampaignOf[r] = CampaignOf[b] => b < r} :
    []Undisturbed(CampaignOf[a]) => <>(asset[a] # "pending")

\* FAILED: "Any intermediate job ended in `failed`".
FailedJobFailsAsset ==
  \A j \in Jobs : status[j] = "failed" /\ handler[j] = "over" =>
    asset[target[j]] = "failed"

=============================================================================
