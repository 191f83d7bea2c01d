# Clipping system coordinator: TLA+ specifications

These specifications model the coordinator of the clipping system (the "VPS"):
a FastAPI service over PostgreSQL that turns paid clipping campaigns into
published clips.  It keeps campaigns, assets (source videos), candidates (the
fragments an LLM proposes), clips (the rendered fragments) and a job queue;
Windows Workers poll the queue over HTTP and do the heavy work (download,
transcribe, render, qa); cron scripts on the same host drive discovery and
enqueue downloads.  Paths below are relative to the repository.

## 1. Inventory

| Component | State it keeps | Operations | Modelled by |
|---|---|---|---|
| Job queue: `app/services/job_service.py`, `app/models/job.py`, `app/api/jobs.py` | table `jobs`: status, worker_id, attempts, lease_until, available_at, priority | create, claim (recovers lapsed leases), start, result, fail, heartbeat, cancel | `JobQueue`, `JobService` |
| Follow-up handlers: `app/services/job_state_transitions.py`, `download_payload_validation.py` | assets, clips, jobs | on_download / transcribe / render / qa_completed, on_job_failed | `AssetPipeline` (download, transcribe, failed), `ClipSelection` (transcribe), `ClipFlow` (render, qa) |
| Download tick: `scripts/download_enqueue_tick.py` | none of its own; inserts download jobs | pick first processable asset, skip or enqueue | `AssetPipeline` |
| Clip selection: `app/clip_selection/`, `scripts/clip_scanner.py`, `app/api/clip_selection.py` | marker `clip_selection_at` on the asset, rows of `candidates` | run for one asset, drain the backlog | `ClipSelection` |
| Candidates: `app/services/candidate_lifecycle.py`, `candidate_service.py`, `app/api/candidates.py` | `candidates.status`, metadata | approve (creates the render job), reject, PATCH | `CandidateFlow` |
| Clips and storage: `clip_service.py`, `clip_storage_service.py`, `app/api/clips.py` | `clips.status`, qa_status, location | qa verdict, set location, mark uploaded, PATCH | `ClipFlow` |
| Campaigns: `campaign_service.py`, `app/api/campaigns.py`, `campaign_analyzer.py` | `campaigns.status`, source_metadata, assets_count | create, update, analyze, enqueue | `CampaignFlow` |
| Discovery: `app/services/discovery/`, `scripts/whop_discovery.py` | campaigns, assets | list the provider, upsert, resolve assets, score | `CampaignFlow` (commits), `WhopProvider` (what is listed), `LinkPolicy` (what becomes of a link) |
| Campaign engine: `app/campaign_engine/`, `app/clip_selection/validator.py` | none (pure) | parse, normalize, validate | `CampaignRules` |
| Brief extractor: `discovery/brief_extractor.py` | none | fetch and read a brief | `LinkPolicy` (its outcome) |
| Mission control: `app/api/mission_control.py` | none (reads) | pages over all tables | `MissionControl` |
| Workers: `worker_service.py`, `app/api/workers.py` | table `workers` | register, heartbeat | not modelled |
| `app/auth.py`, schemas, migrations, LLM client, browser UI | request checks, I/O, presentation | - | not modelled (section 12) |

**How the components interact.**  Everything goes through the database.  A
request is a thread of the server's pool with a session of its own (READ
COMMITTED, `expire_on_commit=False`, `app/db/database.py:25`).  Workers call
`/worker/jobs/...`; a completion calls, in the same request and after its
commit, the handler of the job type, which updates assets or clips and inserts
the next job.  Cron scripts open sessions of their own beside the server.

**What is hard.**  Apart from the poll for work (`SELECT ... FOR UPDATE SKIP
LOCKED`), every handler reads a row without a lock or version, checks it, and
writes the changed columns at commit: requests that overlap overwrite each
other.  Leases run out while workers are still busy; workers repeat reports;
a response can be lost after its commit; the process can die between two
commits of one handler, or between a completion and its follow-up; polls are
the only thing that recovers a lapsed lease.

**What makes each component correct.**
- Job queue: a job goes to one worker at a time; it is not taken from a worker
  whose lease runs; it is never lost (an active job carries a lease, a lapsed
  lease is recovered); the retry budget is exact; finished is finished; the
  follow-up runs once.
- Handlers: one follow-up per completion, an asset never moves backwards, a
  failed job marks its asset.
- Download tick: each asset gets one download job; no asset blocks its campaign.
- Clip selection: each asset is selected once; none is forgotten.
- Candidates: an approved candidate has its render job, and one only.
- Clips: verdict, status and location fit together; no handler takes back what
  was decided after it.
- Campaigns: a card of the provider has one row, a URL one asset row; no
  discovery sends a campaign back or loses what the crons wrote; a campaign ends
  scored, or in a status that says why not.
- Links: only footage is downloaded, and what every part of the code takes for
  footage is.
- Provider: the first distinct campaigns that are open, in the source's order.
- Campaign engine: a clip the validator admits, and the render the quality check
  expects, are what the instructions ask for.
- Mission control: no page shows an effect without its cause.

## 2. Plan

1. `JobQueue` (abstract), `JobService` (detailed), their proofs and the
   refinement between them.  *Done, proved but for liveness.*
2. `AssetPipeline`: download tick, on_download_completed, on_transcribe_completed,
   the fate of failed jobs, composed with `JobQueue`; the abstract `AssetLife`,
   which it implements.  *Done, proved but for liveness.*
3. `ClipSelection`: on_transcribe_completed, the agent and its callers.  *Done,
   proved but for liveness.*
4. `CandidateFlow`: approve, reject; `ClipFlow`: render and QA handlers, clip
   storage.  *Done, proved but for liveness.*
5. `CampaignFlow`: discovery, the crons and the campaigns table.  *Done, proved
   but for liveness.*
6. `MissionControl` on top of `AssetPipeline`.  *Done, proved.*
7. The pure parts: `LinkPolicy`, `WhopProvider`, `CampaignRules`, asked through
   `Rules`.  *Done, proved.*

Left: an abstract life of a clip and of a candidate, to be implemented by
`ClipFlow` and `CandidateFlow` as `AssetPipeline` implements `AssetLife`.

The worker registry was planned and given up: each row is written by its own
worker only, and nothing reads it to decide anything.

How modules are composed: `JobService`, `AssetPipeline`, `CandidateFlow` and
`ClipFlow` each have `Queue == INSTANCE JobQueue WITH ...`, which maps their job
columns to those of the abstract queue.  For `JobService` the mapping is a
refinement, checked and proved; the other three take every step of a job to be
a step of `JobQueue`, and are proved to be `JobQueue` beside whatever else they
do.  `AssetPipeline` in turn implements `AssetLife`: `Stage(a)` reads from the
tables how far an asset has come.  `MissionControl` extends `AssetPipeline`;
`Rules` extends the three pure modules.

## 3. The job queue

`JobQueue` is the promise: each operation of `job_service` is one step on
`status`, `owner` (worker_id), `attempts` and `dispatched` (how often the
follow-up handler of the job was called).  Time is abstract: an active job may
lose its lease at any moment.

`JobService` is the code as the database runs it.  `Slots` are the requests in
progress.  `tx[r]` is what slot r has read and is about to write.

| Code | Actions |
|---|---|
| `create_job` | `CreateJob` |
| `claim_next_job` | `ClaimSelect` (recovering UPDATE and SELECT FOR UPDATE SKIP LOCKED; the rows stay locked), `ClaimCommit`; `ClaimEmpty` when no row is found |
| `start_processing`, `complete_job`, `fail_job`, `heartbeat`, `cancel_job` up to the checks | `StartRead`, `CompleteRead`, `FailRead`, `HeartbeatRead`, `CancelRead` |
| the same, from the UPDATE on | `StartCommit`, `CompleteCommit`, `RetryCommit` or `ExhaustCommit`, `HeartbeatCommit`, `CancelCommit` |
| the handler call in `complete_job` | `Dispatch` |
| server death, refused commit | `Abort` |
| the worker loses interest or dies | `Forget` |

Reports come only from workers that once received the job (`held`), in any
order and any number of times, so late and repeated reports are included.  A
claim may commit while its response is lost (`ClaimCommit` with `held'=held`).
UPDATEs by primary key wait for a row a poll has locked (`Writes`).
Timestamps are counted down: `lease[j]` and `wait[j]` are the ticks left until
`lease_until` and `available_at`, -1 once they have passed; a timestamp a
request has computed but not committed ages with the clock as well.

No endpoint calls `cancel_job` yet; it is modelled as the service function it
is.

## 4. The asset pipeline

`AssetPipeline` puts the download tick and the first two handlers on top of the
abstract queue (`Queue == INSTANCE JobQueue`, on the same four variables).  Every
step of a job is a step of `JobQueue`; every commit of a handler is a step of
its own.

| Code | Actions |
|---|---|
| `download_enqueue_tick.main`: the sweep | `TickBegin`, `TickDies` |
| `_enqueue_download_for_campaign` | `TickSkip`; `TickPick` (the reads), then `TickInsert`, or `TickRefused` when `ck_jobs_no_folder_download` raises |
| workers and polls | `Claim`, `Start`, `Finish`, `TimeOut`, `Cancel` |
| `on_download_completed`, one action per commit | `DownloadCompleted`, `StoreResult`, then `RejectMedia` or `QueueTranscribe` |
| `on_transcribe_completed`, up to the clip selection | `TranscribeCompleted`, `StoreTranscription` |
| the call of `on_job_failed` | `JobFailed` |
| server death or a logged exception before the next commit | `HandlerLost` |

`on_job_failed`, called at `job_service.py:255`, is a name the module never
imports; the NameError is caught and logged.  `JobFailed` therefore changes
nothing but the progress of the handler, and `JobService!ExhaustCommit` nothing
but the job.

The queue is the abstract one, so the module says what happens as long as the
reports on one job do not overlap (what `serial` and `SerialImplementsQueue`
show of the service); an overlap can run a handler twice, which is the finding
of section 9.  `Assets` are the assets that pass the URL filters of the tick.
The flag `skip_download` needs no variable: the only commit that sets it also
leaves `pending`.  Sweeps do not overlap (a cron runs them).  Jobs and assets
that operators create or edit by hand are left out.

`AssetLife` is what this promises for an asset: discovered, download_pending,
downloaded, transcribe_pending, transcribed, stored (or failed after the
download), each stage entered once and in this order, in one step.  No table
holds the stage.  `Stage` computes it from the status of the asset, the jobs that
name it, and its metadata, which different commits write; `ImplementsAssetLife`
says that no interleaving of those commits shows a stage too early, twice, or
not at all.

## 5. Selection, candidates, clips

**`ClipSelection`.**  `run[p]` is a caller of the agent: what it has still to do,
the asset in hand, the copies of `extra_metadata` it has read, and its next step.
The handler of asset a goes by the name a.

| Code | Actions |
|---|---|
| `on_transcribe_completed`: status, transcription | `Transcribe`, `StoreText` |
| query of the drain, the scanner, the backfill | `Begin` (`Chosen`) |
| their checks | `Skip` (`AlreadyDone`), `Full` |
| `agent.run`: read; LLM or parse failure; candidates; marker | `Take`; `AgentFails`; `Persist`; `Mark` |
| end of the loop; death of the process | `End`; `Die` |

The handler and whoever else is among `Ticks` and `Others` overlap anywhere, on the
same asset too: a drain of the cron, another drain, a scan or a backfill, between
any two commits.  The scanner and the backfill load all rows first and keep the
objects (the session has `expire_on_commit=False`), so their copies are as old as
their query; the drain lists ids and reads each asset when its turn comes.  `Mark`
writes the copy back with the marker added.  The drain's query has no ORDER BY and
may return any rows (`Choices`).

Nothing keeps a second caller from an asset that one has in hand: the check of the
marker at `processor.py:58` is before the call of the LLM, and the write after
it.  The code loses the idempotence, or a key of the metadata, at that point.
`shared` remembers the assets two callers had loaded at once, and `SelectedOnce`
and `MetadataIsKept` are about the others: of them nothing is lost, however
callers overlap on other assets.  `EveryAssetIsSelected` excludes no asset.

**`CandidateFlow`.**  `req[r]` is a call of `approve_candidate` or
`reject_candidate`: the candidate, the status it read, and its next commit or,
at the end, its answer.

| Code | Actions |
|---|---|
| `approve_candidate` up to the validation | `ApproveAgain` (idempotent), `ApproveRead` |
| its commits | `RefuseCommit`; `ApproveCommit`, `InsertRender`, `RecordRender` |
| its except branch: the revert is committed, or raises | `ApproveRevert`, `RevertRaises` |
| `reject_candidate` | `RejectRaises`; `RejectRead`, `RejectCommit` |
| `update_candidate` | `Patch` |
| server death | `Die` |
| the queue; `on_render_completed` | `Work`; `RenderCompleted` |

`Write` is the ORM's rule that a column is in the UPDATE only when its value
differs from the one read.  The except branch does not roll the session back
(`candidate_lifecycle.py:211`): when the database raised the exception, the commit
of the revert raises too, and the candidate stays approved, perhaps without a
render job.  The caller gets the exception, which is what `ApprovedIsRendered`
asks for at least.  Two approvals of a candidate that overlap each insert a
render job; `disturbed` remembers the candidates where that, or a withdrawal,
happened, and `ReapproveIsIdempotent` is about the others.

**`ClipFlow`.**  A clip is named by its render job.

| Code | Actions |
|---|---|
| `on_render_completed`, one action per commit | `RenderCompleted`, `QueueQa`, `RecordQa` |
| `on_qa_completed`, one action per commit | `QaCompleted`, `PlaceClip` |
| `update_clip` | `Patch` |
| `mark_clip_uploaded`, one action per commit; `set_clip_location` | `MarkUploaded`, `StampPublished`; `SetLocation` |
| server death or a logged exception | `HandlerLost`, `UploadLost` |

The endpoints of clips check nothing but that the clip exists, and so do these
actions: any status, verdict or location, at any moment, also between the commits
of a handler.  A request before the handler's commit is overwritten (a location
by `PlaceClip`, a verdict by `QaCompleted`); what the code keeps is what is decided
after it (`DecisionsStand`).  `edited` and `moved` remember which clips requests
have written, for the properties that say what the handlers alone make of a clip.

## 6. Campaigns and discovery

`CampaignFlow` has the rows of `campaigns`, how many asset rows each has per
link, and the processes that write them: the discovery cron, the three crons
behind it, and any number of POST /discovery/run.  `proc[p]` is where process p
is and what it has read: the cards it has still to do, the row in hand, and the
copies it will commit.  A request reads, and commits in a later step; it writes
`source_metadata` as a whole, and other columns only if their value changed.

| Code | Actions |
|---|---|
| `whop_discovery.main`, `run_now`: the provider's answer | `Discover`, `DiscoverNow` |
| `upsert_campaign` up to its commit | `UpsertNew`, `UpsertFound`, `UpsertRaises` |
| its commit; a name taken or too long | `Insert`, `Update`; `InsertRaises`, `UpdateRaises` |
| `resolve_assets_for_campaign`: lookups and briefs; commit | `ResolveLinks`; `Register` |
| assets_count at the end of `run_discovery` | `CountCommit` |
| `create_assets_bulk`; `update_campaign` | `PostAssets`; `PatchRead`, `PatchCommit` |
| an operator's PATCH of a name; a killed process | `Rename`; `Die` |

The crons brief-reader, drive-resolver and campaign-scorer are not in the
repository.  `Brief`, `ResolveFolders` and `Score` are the requests that
`docs/` say they send, and are marked external; what the API does with the
requests is the code's.  Everything overlaps everything, at any commit; only one
run of each cron is in progress at a time, as each of `Crons` is one process.

A URL is a link, and `FileOf` says which file it leads to.  `Canon` is
`rewrite_drive_url`: a preview (`/file/d/`) becomes the canonical download URL, a
download URL stays as it is written, so that one file may have two spellings and
two rows.  `NoDuplicateAssets` counts the rows of a URL, which is what the
resolver promises ("Idempotent on (campaign_id, source_url)"), and not those of a
file.  drive-resolver compares file ids (`HasFile`).

brief-reader writes the rules and asset_links; each discovery whose card differs
from the row (or that finds brief-reader's asset_links there) overwrites the latter
(`Updated`).  `crossed` remembers the campaigns of which two requests held, at the
same time, something they had read and one of them was about to change: two that
insert assets, or a cron's PATCH beside another write of source_metadata.
`NoDuplicateAssets`, `BriefedHasRules` and `EveryCampaignSettles` are about the
campaigns where that has not happened; section 9 says what the others lose.

Only the cron inserts: it alone passes a status for new rows, and the default
the other callers fall back on, `CampaignStatus.DRAFT`, no longer exists.  POST
/campaigns, and POST /discovery/run at a card without a row, raise
AttributeError.

## 7. The dashboard

`MissionControl` runs beside every action of `AssetPipeline` and changes
nothing; the run `pipeline` checks both together.  The page of a campaign takes
one query after another (`DetailOpen`, `DetailQuery`), each seeing the database
as it is then; the pipeline tab is one statement.  The properties rest on the
order of the queries: assets first, jobs second.  The overview page counts in
queries whose answers need not fit together, and nothing claims that they do.

## 8. The parts that compute an answer

**`LinkPolicy`** follows a link from a campaign to a download job.  Four places
test the text of a URL, each in its own way: the resolver (`Canonical`, `Kind`,
type and status of the asset), the download tick, `app/api/campaigns.py`, and
the constraint on jobs.  A link is modelled by what those tests tell apart:
site, form of the path, account part, and whether the id ends cleanly.  Folders
of Mega, and of Dropbox outside `/scl/fo/`, are among the links: no test knows
them, and they become downloads.  The tests of the code are a chain, the first
that matches deciding, and so are `Kind` and `Type`.

**`WhopProvider`** is the choice among API, rendered page and plain page; what of
their entries is skipped, raises, or is a closed campaign; deduplication and the
limit.  The loops are recursive functions of the number of turns: `Sift` keeps the
entries a card is made of, `Turns` has the list after each turn of the loop over
the cards.

**`CampaignRules`** goes from the lengths that instructions mention, and the
platform, to the window `validate_proposal` admits and the frame the quality
check expects.

`Rules` asks them one question at a time; its properties compare each answer
with a definition of what is wanted.

## 9. Runs and findings

| Run | Instance | Shows |
|---|---|---|
| `queue` | 2 jobs (budgets 2 and 1), 2 workers | the abstract queue: retry budget, ownership and follow-ups fit together |
| `race` | 1 job, 2 workers, 2 slots, lease of 1 tick | with overlapping requests: an active job always carries a lease, no job fails before its budget is used, two polls never hold the same row, no worker gets a job another one holds in time |
| `serial` | 2 jobs of different priority, 2 workers, 1 slot, fair | without overlap the service implements `JobQueue`, calls each follow-up once, and leaves a running lease alone; a lapsed job does not stay with its worker; the first in rank is served |
| `overlap` | as `race` | *violated*: a completed job is put back in the queue by an overlapping failure report |
| `pipeline` | a campaign whose URL is refused, another with 2 assets, 4 jobs, a dashboard, fair | one job of each kind per asset, `AssetLife` is implemented, only media is transcribed, a handler that ran to its end left nothing half done, assets only move forward; the second campaign's assets are downloaded, whatever happens to the first; neither page of the dashboard shows an effect without its cause |
| `pipeline_failed` | 1 campaign, 2 assets | *violated*: the asset of a failed job is not marked |
| `candidates` | 1 candidate, 3 requests, 2 at a time, PATCH, failing reverts | an approved candidate has its render job, or a request that will insert it, died before it, or raised; approving again, one request at a time, never makes a second render job |
| `clips` | 2 clips, 4 jobs, a PATCH, upload or location request at any moment, fair | verdict, status, location and qa job of a clip fit together unless PATCH puts them apart; no handler takes back what was decided after it; every clip is judged, and placed when it passed |
| `selection` | 2 assets, the handler of one, the cron's drain with limit 1, and a second drain, scan or backfill, all overlapping, fair | until two callers have an asset at once, it is not selected again when marked, and loses no metadata; every asset is marked in the end |
| `selection_starved` | 3 transcribed assets, limit 1 | *violated*: an asset is left out by the drain's query every time |
| `discovery` | 3 cards of one name, one refused, 2 rows, a film linked in two spellings and in a folder, 4 crons and a POST /discovery/run, all overlapping, fair | one row per card and, until requests cross, per URL; the count never says too much; rules and score are there when the status says so; no campaign is rediscovered; every card that can be stored is, and every campaign settles |
| `rules` | every form of link; up to 3 API entries, 2 anchors, limits 0 to 2; up to two lengths, 8 platforms | what the code agrees to be footage becomes a download job, and else only what the property names; a discovery is the first distinct open campaigns; clips and frames are what the instructions ask for |

**Bounds.**  `AttemptCap` bounds the failure reports explored per job; it lies
above every budget of the instance, so exhaustion, retries and one report too
many all occur.  One job suffices for `race` because every guard of a report
reads the reported row only; two jobs are used where rows interact (ranking, a
recovery that commits with another claim).  That polls over many rows stay
disjoint is proved.  Two slots give every pairwise overlap of requests.  Leases
of 0 and 1 tick let a claim commit before, at, and after the end of its own
lease.  Symmetry is used in safety runs only, for workers and slots, which
nothing orders.  In the pipeline runs two jobs per asset are all the rows the
code can insert, so the table never fills up; job 1 has a budget of 2, so that
retries occur, and one worker is enough because ownership is the queue's affair.
Four jobs are enough for one asset of the second campaign to go all the way
beside another that is being downloaded, with the dashboard reading in between;
a page that is finished is left before another is opened.  The requests of
`CandidateFlow` are three: that includes approve, reject, approve, two approvals
around a rejection, and a third after two that overlapped. `RenderCap` of
`ClipFlow` bounds the clips, `RequestCap` the requests about them: one suffices,
because the properties speak of a clip and what one request finds or leaves on
it, and the theorems hold for any number.  In `selection` two assets with limit
1 are all the rows the drain's query can take, which is the hypothesis of
`EveryAssetIsSelected`; `selection_starved` has one more.  `Backlog` are assets
whose handler died before, so that an asset arrives while another waits.
`Budget` bounds renames, discoveries by hand and killed processes together: with
two, a process killed beside a discovery by hand, and a rename between two
discoveries, occur; two rows are all that the cards which the database accepts
can have.  `Shortlists` are the cards a request gets by its limit: that of the
card with links, which is the one with something to lose.  `Outcomes` says how
brief-reader and drive-resolver may end for each card; between them, every
outcome occurs.  The third card of `discovery` is refused each time and ends the
run of the cron there.  In `rules` three campaigns give lists with and without
repetitions; `MaxMentions` bounds the lengths that instructions mention, and two
are enough for a window with two ends. `AssetPipeline`, `CandidateFlow` and
`ClipFlow` use up their rows, so their runs do not check deadlock.

**Fairness** (`JobService!Fairness`).  The clock runs; a request that has read
commits (WF per slot); some worker keeps polling (SF, because other requests
may occupy the slots between polls; the Workers poll in a loop); a claim tried
again and again is not rolled back every time (SF).  Nothing is assumed of
reports: workers may die.

In `AssetPipeline!Fairness` the cron keeps sweeping (WF of `TickStep`), and for
each job somebody polls, reports, and runs the handler (WF of `Work(j) \/
Handle(j)`).  The tick may be killed and leases may lapse, but not for ever.
Failures, cancellations and lost handlers stay possible: `EveryAssetIsTaken`
excludes them for the campaign it speaks of only.  `ClipFlow!Fairness` is the
same without the tick.  In `ClipSelection!FairSpec` the cron keeps starting its
drain and the drain goes on; the LLM may fail it and it may die, but not for
ever.  Nothing is assumed of the other callers.  In
`CampaignFlow!FairSpec` a process that runs goes on (WF of `Continue`), and each
cron is started again and again (WF); that the provider lists all the cards
again and again is an SF, as it may list fewer in between.  Killed processes are
bounded by `Budget`.

**Findings.**
- `overlap` / `CompletedIsFinal`: `VALID_TRANSITIONS` gives COMPLETED no
  successor (`job_service.py:21`), but `fail_job` checks the transition on a row
  it read without a lock and commits an unconditional UPDATE.  Overlapping a
  completion it moves the finished job back to pending; the job runs again, and
  so does its follow-up.
- `pipeline_failed` / `FailedJobFailsAsset`: an asset whose job failed for good
  stays `pending` (or `downloaded`), because `on_job_failed` is never reached.
- `selection_starved` / `BacklogIsDrained`: the drain takes 2 * limit transcribed
  assets, in no order, and looks at the marker afterwards (`processor.py:42`).
  Marked assets stay in transcribed, so the query may return marked ones every
  time; `download_enqueue_tick.py:15` says the drain catches the backlog up.

**More of this kind**, which the models or the reading show and no run repeats.

*Pipeline.*
- Overlapping approvals of a candidate each insert a render job
  (`candidate_lifecycle.py:111`), although approving is meant to be idempotent
  (its docstring at line 13): `ReapproveIsIdempotent` fails without `\ disturbed`.
- When the commit of a render job is refused by the database, the revert that
  "goes back to pending" (`candidate_lifecycle.py:216`) raises as well, and the
  candidate stays approved without a job until it is approved again.
- The tick looks at the oldest pending asset only, and skips the campaign when
  that asset has a download job in any status (`download_enqueue_tick.py:177`).
  One failed download ends the campaign's downloads.  The comment at lines
  161-166 says "we WANT to enqueue multiple assets per campaign in parallel" and
  lines 10-12 of the docstring ask for a job per pending asset; the docstring's
  item 3 says that the campaign is skipped, as the code does.  No property
  holds the code to either.
- A drain beside a handler violates `SelectedOnce` (the
  marker is checked before the agent runs and set after) and `MetadataIsKept`
  (the agent writes `extra_metadata` back as it read it, between the two commits
  of the handler, and the transcription is gone) without `\ shared`.  A scanner
  without a drain scans the same oldest assets every time.
- A PATCH of a clip, a location or an upload that commits before the qa handler
  does is overwritten by it, and the request is not told.
- `RejectCommit` leaves the queue alone: the render job of a candidate that was
  approved and then rejected is still handed out.  No action of the code sets a
  candidate to `rendered`, so the guard of `reject_candidate` against rejecting a
  rendered candidate never holds.
- With more campaigns than `Limit` the sweep never comes to the last ones, as
  `scored` is a last status.
- `docs/ARCHITECTURE.md`, step 11, stores the transcription and then marks the
  asset transcribed; the code commits the status first and the text after it, so
  that a death in between leaves a transcribed asset without text.

*Campaigns.*
- assets_count may go down: a count read before other rows were registered is
  committed after a later one.  It never says too much (proved).
- If a discovery overlaps the PATCH of a cron, the rules the cron wrote are lost
  with the whole-column write, and so is the score.  A campaign without rules
  stays in assets_resolved for ever, as the status the scorer is told to give
  it, `failed_scorer` (`architecture_flow.md:64`), is none: the PATCH is refused.
  Without `\ crossed`, `BriefedHasRules` and `EveryCampaignSettles` fail.
- Two requests that look up the assets of one campaign at the same time insert
  them twice (`NoDuplicateAssets` without `\ crossed`), after which
  `scalar_one_or_none` raises at every resolution (`asset_resolver.py:231`).
- brief-reader writes asset_links (`architecture_flow.md:36`), a key each
  discovery overwrites with the card's (`upsert.py:142`).
- An exception at one card leaves the cards behind it; a card that the database
  refuses each time starves them (`whop_discovery.py:143`).  `EveryCardIsStored`
  is about the cards before it.
- The metadata of an asset that `asset_resolver.py:302` changes in place is never
  written: the column is not marked as changed.

*Links and briefs.*
- Files posted as `filefolders`, drawings, and documents of a second account
  (`/document/u/0/d/`) reach the queue as videos.  `OnlyFootageIsDownloaded`
  states what the filters do hold back.
- Folders of Mega and of Dropbox outside `/scl/fo/` reach the queue too: they have a
  kind, a type and a host that every filter takes for a video, and the
  constraint, meant so that a folder is never downloaded, knows two forms.
- `rewrite_drive_url` documents the canonical form "for any *file* URL (preview
  link or already-rewritten)" (`asset_resolver.py:115`), and returns `uc?id=X` as
  it is written: one file gets two rows.
- Video links of TikTok, which the comment at `campaigns.py:46` accepts, are refused
  for their "@"; a preview on Drive that does not end with its id, which line 48
  accepts, is refused for its `/file/d/`.  Of these two `OnlyFootageIsDownloaded`
  promises nothing.
- A scanned PDF of two or more pages counts as having text
  (`brief_extractor.py:157`); Google forms and presentations are read as HTML
  and count as brief text.
- Google Docs briefs get type `document` (`asset_resolver.py:271`), and the agent
  looks for `brief` (`agent.py:126`): they never reach the prompt.

*Provider, rules, dashboard.*
- When every card of the API is closed the plain page is asked, which does not
  know that they are; a failed API call excludes the plain page.  One invalid
  payout raises for the whole discovery.  A limit of 0 gives one card.
- `fetch_detail` always fails on a name that is not defined, and is caught.
- A single length N gives the window N to N+10, which the tolerance of 10 %
  widens, so that "under 60 seconds" admits 54 to 77 s.  Proposals are cut to
  `top_n` before they are validated, not after (`agent.py:195`).  Exclude
  keywords are looked up in the whole transcript, not in the segment's.
- `pipeline_view` drops assets without jobs, though its docstring says "For each
  asset".

## 10. Proofs

All invariants, action properties and refinements of the runs are proved, for
every value of the constants.  Assumptions are the ones named in the modules,
which TLC evaluates in every run, and the hypotheses stated with a theorem.

- `JobQueueProofs`: every property of the abstract queue, for any jobs, workers
  and budgets.  The invariants are inductive together: ownership needs the
  typing of owners, the budget needs that a job leaves processing for failed
  only with its last attempt.  `QueuePromise` gathers them for the modules that
  run the queue: in `PipelineProofs`, `CandidateProofs` and `ClipProofs` every
  step is shown to be a step of `JobQueue` or to leave the four columns alone
  (`...RunTheQueue`), and the promise carries over by instantiating the theorem
  (`...KeepTheQueue`).
- `JobServiceProofs`: the safety of the detailed service for any number of
  slots.  The inductive invariant is `TypeInv` (`TypeOK`, `RequestsOK`: what
  each kind of request carries, `ActiveHasLease`, `FailedIsExhausted`) and
  `ClaimsFresh`: a row locked by a poll is still in the state the poll found it
  in.  `ClaimsFresh` is why a claim may commit without checking again, and it
  holds because every other writer waits for the lock; it gives
  `OnlyFreeJobsAreClaimed`.
  With a single slot, for any other constants, `Spec => ImplementsQueue`, and the
  properties `FollowUpOnce` and `LeaseProtectsOwner` of the run `serial`.  The
  strengthening `SerialInv` says what a request has read still holds when it
  commits (`ReadsFresh`, which includes that the completion a handler is about
  to be called for has not been dispatched), and that a dispatched job is
  completed (`DispatchedIsCompleted`).  The hypothesis is needed: this is exactly
  what fails when slots overlap (`overlap` shows it).
- `CandidateProofs`: an approved candidate has its render job, or a request that
  is still to insert it or died before.  The hypothesis that no operator sets
  `approved` by PATCH is needed: that PATCH creates no job.  For
  `ReapproveIsIdempotent` the invariant `Alone` says of an undisturbed candidate
  that one request at a time has it in hand, that there is no render job yet when
  this request is about to insert one, and that a render job keeps it approved.
- `PipelineProofs`: the inductive invariant `IInv` of `AssetPipeline` ties each
  handler's position to what its job, its asset and the queue hold by then, and
  the tick's pick to an asset without a download job.  `MovesForward` follows
  step by step.  For `AssetLife` each step is shown to change the stage of one
  asset to the next, or of none; it needs that no transcription of an asset is
  there before the handler of its download is over (`OnlyJob`) and no text
  before the status (`TextIsLate`).  `ViewInv` adds the dashboard: an asset the
  view saw past a stage had that stage's job completed, and a completed job does
  not come back.
- `SelectionProofs`: no assumption on who runs beside whom.  `IInv` says of each
  asset that is not `shared`: one caller at most has it loaded, the copy it
  holds equals the row, and what it has in hand passed its own check and
  still would.  A step that makes two callers load an asset puts it into `shared`
  in the same step.
- `ClipProofs`: the same for `ClipFlow`: what a handler that is at `record` or
  `place` may rely on, though others commit between its commits.
- `CampaignProofs`: `IInv` says of each process what it may rely on (the row in
  hand exists, a count is of rows that are there, no cron asks for discovered,
  a row to insert is the cron's and its card has none), and gives `OneRowPerUrl`,
  `CountNeverOverstates` and `NeverRediscovered`.  `XInv` is for the rest: of a
  campaign that is not `crossed`, what a request is about to register has no row,
  the metadata it is about to write back has the rules and the score if the row
  has them (`Fit`), and
  no two of its requests are `Crossing`.  A step that changes what another
  process has read would have been a crossing of the two in the state before.
  Neither needs an assumption on what runs beside what.
- `RulesProofs`: the answers of the pure parts, for every link, every source of
  a provider with any limit, and any number of lengths of any size.
  `OnlyFootageIsDownloaded` is a case analysis over the form of a link,
  resolver, tick, API and constraint in turn.  `DiscoveryIsFirstDistinct` rests
  on the invariant of a loop, `Taken`: what the list holds after n turns.  The
  library states induction over an operator, which the installed provers cannot
  instantiate; `Induction` has it for sets instead, from the well-foundedness of
  strict inclusion on finite sets, and `Recursion` shows that the recursive
  functions of the model exist and unfold.  `InstructionsRespected` needs that
  the lengths mentioned have a largest and a smallest (`LargestOf`,
  `SmallestOf`), by the same induction.  Proving uncovered a fault of an earlier
  form of `Kind`, whose cases overlapped where the code takes the first that
  matches.

The type invariants are proved, so no run repeats them.

Only model-checked: the seven liveness properties (`LapsedIsRecovered`,
`TopJobIsServed`, `EveryAssetIsTaken`, `EveryClipIsJudged`,
`EveryAssetIsSelected`, `EveryCardIsStored`, `EveryCampaignSettles`).  They rest on
fairness and so on ENABLED, which is out of reach of the prover.

## 11. Reading order

`JobQueue`, `JobService`, `MCJobQueue`, `MCJobService`, `JobQueueProofs`,
`JobServiceProofs`; `AssetLife`, `AssetPipeline`, `MissionControl`,
`PipelineProofs`; `ClipSelection`, `SelectionProofs`; `CandidateFlow`,
`CandidateProofs`; `ClipFlow`, `ClipProofs`; `CampaignFlow`, `CampaignProofs`;
`LinkPolicy`, `WhopProvider`, `CampaignRules`, `Rules`, `RulesProofs`; each with
its MC module.
Operators whose comment starts with "Mutant:" are plausible mistakes, used to
confirm that a property notices them; no specification uses them.

## 12. Not modelled

- Worker registry: one row per worker, overwritten by its own worker only, and
  read by no other part.
- `app/auth.py`, `app/config.py`, `app/schemas`: request checks without state.
  `alembic`: migrations, run once with the service stopped; the constraints they
  leave are part of the models that depend on them.
- The browser's side of mission control (`app.js`): presentation.  Reading it,
  a late answer overwrites the page that was opened after it.
- `llm_client`, `prompts`, and the fetchers of `app/whop_integration`: network
  I/O and text; their outcomes are choices of the models.  `list_folder` of
  `drive_fetcher.py` has no caller in the repository.
- The text that is handed on: names, amounts, keywords, language, watermark,
  sections of a brief.  `scoring.py` is arithmetic on two numbers, and `score_due`
  asks for statuses that no longer exist.
- `analyze_campaign`, `campaign_prioritizer.py`, `vps_pipeline_tick.py` and
  `enqueue_pipeline` name statuses that were removed, or answer 409: they change
  nothing, or stop with an error before they do.
- PATCH of assets, clips and candidates by hand beyond what section 5 and 6 say;
  POST /candidates and POST /clips, which insert one row.
- Scripts that are disabled or probes (`clip_decider_tick.py.disabled`,
  `whop_playwright_probe.py`).
