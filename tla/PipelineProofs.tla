---------------------------- MODULE PipelineProofs ----------------------------
(***************************************************************************)
(* Proofs about downloads and transcriptions, and about what the dashboard *)
(* shows of them, for any campaigns, assets, jobs and workers.             *)
(***************************************************************************)
EXTENDS MissionControl, TLAPS

-----------------------------------------------------------------------------
\* How the columns of a job row and the progress of its handler fit together.
Rows ==
  \A j \in Jobs :
    /\ status[j] = "none" <=> kind[j] = "none"
    /\ kind[j] = "none" <=> target[j] = NoAsset
    /\ kind[j] = "none" => handler[j] = "idle"
    /\ handler[j] \in {"store", "check", "text", "lost"} => status[j] = "completed"
    /\ handler[j] = "over" => status[j] \in {"completed", "failed"}
    /\ handler[j] \in {"store", "check"} => kind[j] = "download"
    /\ handler[j] = "text" => kind[j] = "transcribe"

\* How far the asset of a download has come.
Downloads ==
  \A j \in Jobs : kind[j] = "download" =>
    /\ handler[j] = "idle" => asset[target[j]] = "pending"
    /\ handler[j] \in {"store", "check"} => asset[target[j]] = "downloaded"

\* A transcription comes after a download whose handler ran to its end.
Transcriptions ==
  \A k \in Jobs : kind[k] = "transcribe" =>
    /\ handler[k] = "idle" => asset[target[k]] = "downloaded"
    /\ \E j \in Jobs : kind[j] = "download" /\ target[j] = target[k] /\ handler[j] = "over"

\* Between the two commits of on_transcribe_completed the asset stays transcribed.
Transcribed ==
  \A k \in Jobs : kind[k] = "transcribe" /\ handler[k] = "text" =>
    asset[target[k]] = "transcribed"

\* The asset the tick has picked has no download yet, and so is still pending: only
\* the tick inserts downloads.
PickIsFree ==
  tick.pick # NoAsset => ~HasDownload(tick.pick) /\ asset[tick.pick] = "pending"

\* HandledIsComplete, one kind of job at a time.
DownloadsAreComplete ==
  \A j \in Jobs : handler[j] = "over" /\ status[j] = "completed" /\ kind[j] = "download" =>
    \/ asset[target[j]] = "failed" /\ media[target[j]] = "invalid"
    \/ \E k \in Jobs : kind[k] = "transcribe" /\ target[k] = target[j]

TranscriptionsAreComplete ==
  \A j \in Jobs : handler[j] = "over" /\ status[j] = "completed" /\ kind[j] = "transcribe" =>
    asset[target[j]] = "transcribed" /\ text[target[j]]

IInv ==
  /\ TypeOK /\ Rows /\ OneJobOfEachKind /\ PickIsFree
  /\ Downloads /\ Transcriptions /\ Transcribed /\ TranscribesMediaOnly
  /\ DownloadsAreComplete /\ TranscriptionsAreComplete

\* The invariant contains HandledIsComplete.
LEMMA IInvHandled == IInv => HandledIsComplete
<1> SUFFICES ASSUME IInv, NEW j \in Jobs, handler[j] = "over", status[j] = "completed"
             PROVE  CASE kind[j] = "download" ->
                           \/ asset[target[j]] = "failed" /\ media[target[j]] = "invalid"
                           \/ \E k \in Jobs : kind[k] = "transcribe" /\ target[k] = target[j]
                      [] kind[j] = "transcribe" ->
                           asset[target[j]] = "transcribed" /\ text[target[j]]
  BY DEF HandledIsComplete
<1>1. kind[j] \in {"download", "transcribe"}
  BY DEF IInv, TypeOK, Rows
<1>2. CASE kind[j] = "download"
  <2>1. \/ asset[target[j]] = "failed" /\ media[target[j]] = "invalid"
        \/ \E k \in Jobs : kind[k] = "transcribe" /\ target[k] = target[j]
    BY <1>2 DEF IInv, DownloadsAreComplete
  <2> QED
    BY <1>2, <2>1
<1>3. CASE kind[j] = "transcribe"
  <2>1. asset[target[j]] = "transcribed" /\ text[target[j]]
    BY <1>3 DEF IInv, TranscriptionsAreComplete
  <2> QED
    BY <1>3, <2>1
<1> QED
  BY <1>1, <1>2, <1>3

\* No job and no asset has gone anywhere at the start.
LEMMA InitIInv == Init => IInv
BY PipelineAssumption
   DEF Init, IInv, TypeOK, Rows, OneJobOfEachKind, PickIsFree, HasDownload, Downloads,
       Transcriptions, Transcribed, TranscribesMediaOnly, DownloadsAreComplete,
       TranscriptionsAreComplete, Idle, AssetStatus,
       Queue!Init, Queue!TypeOK

-----------------------------------------------------------------------------
\* A poll, a report of a worker, a cancellation: rows neither appear nor disappear,
\* and what is over stays as it ended.
LEMMA QueueSteps ==
  ASSUME Queue!TypeOK, TimeOut \/ (\E j \in Jobs : Work(j) \/ Cancel(j))
  PROVE  /\ Queue!TypeOK'
         /\ \A j \in Jobs : status'[j] = "none" <=> status[j] = "none"
         /\ \A j \in Jobs : status[j] \in {"completed", "failed"} => status'[j] = status[j]
         /\ UNCHANGED <<jobVars, assetVars, handler, tick>>
<1> DEFINE Goal ==
      /\ Queue!TypeOK'
      /\ \A j \in Jobs : status'[j] = "none" <=> status[j] = "none"
      /\ \A j \in Jobs : status[j] \in {"completed", "failed"} => status'[j] = status[j]
      /\ UNCHANGED <<jobVars, assetVars, handler, tick>>
<1> USE DEF Queue!TypeOK, Queue!JobStatus, Queue!Active
<1>1. CASE TimeOut
  BY <1>1 DEF TimeOut, Queue!TimeOut, Queue!Recovered
<1>2. ASSUME NEW j \in Jobs, Claim(j) PROVE Goal
  BY <1>2 DEF Claim, Queue!Claim
<1>3. ASSUME NEW j \in Jobs, Start(j) \/ Finish(j) \/ Cancel(j) PROVE Goal
  BY <1>3 DEF Start, Finish, Cancel, Queue!Start, Queue!Complete, Queue!Retry,
              Queue!Exhaust, Queue!Cancel, Queue!EnsureTransition, Queue!ValidTransitions
<1> QED
  BY <1>1, <1>2, <1>3 DEF Work

\* The invariant does not depend on what the queue does to open jobs.
LEMMA QueueIInv ==
  ASSUME IInv, TimeOut \/ (\E j \in Jobs : Work(j) \/ Cancel(j))
  PROVE  IInv'
<1>1. /\ Queue!TypeOK'
      /\ \A j \in Jobs : status'[j] = "none" <=> status[j] = "none"
      /\ \A j \in Jobs : status[j] \in {"completed", "failed"} => status'[j] = status[j]
      /\ UNCHANGED <<jobVars, assetVars, handler, tick>>
  BY QueueSteps DEF IInv, TypeOK
<1> USE <1>1 DEF IInv, jobVars, assetVars
<1>2. TypeOK'
  BY DEF TypeOK
<1>3. Rows'
  BY DEF Rows
<1>4. OneJobOfEachKind' /\ PickIsFree'
  BY DEF OneJobOfEachKind, PickIsFree, HasDownload
<1>5. Downloads' /\ Transcriptions' /\ Transcribed' /\ TranscribesMediaOnly'
  BY DEF Downloads, Transcriptions, Transcribed, TranscribesMediaOnly
<1>6. DownloadsAreComplete'
  BY DEF DownloadsAreComplete, Rows
<1>7. TranscriptionsAreComplete'
  BY DEF TranscriptionsAreComplete, Rows
<1> QED
  BY <1>2, <1>3, <1>4, <1>5, <1>6, <1>7

-----------------------------------------------------------------------------
\* The tick, as far as it inserts nothing.
LEMMA TickIInv ==
  ASSUME IInv,
         \/ TickBegin \/ TickDies \/ (\E c \in Campaigns : TickSkip(c))
         \/ \E c \in Campaigns, a \in Assets : TickPick(c, a) \/ TickRefused(c, a)
  PROVE  IInv'
<1>1. UNCHANGED <<queueVars, jobVars, assetVars, handler>>
  BY DEF TickBegin, TickDies, TickSkip, TickPick, TickRefused
<1>2. /\ tick' \in [todo : SUBSET Campaigns, pick : Assets \cup {NoAsset}, up : BOOLEAN]
      /\ tick'.pick # NoAsset => ~HasDownload(tick'.pick) /\ asset[tick'.pick] = "pending"
  <2> USE DEF IInv, TypeOK, PickIsFree, Idle
  <2>1. CASE TickBegin \/ TickDies
    BY <2>1 DEF TickBegin, TickDies, Sweep
  <2>2. ASSUME NEW c \in Campaigns, TickSkip(c)
        PROVE  tick' \in [todo : SUBSET Campaigns, pick : Assets \cup {NoAsset}, up : BOOLEAN]
               /\ tick'.pick = NoAsset
    BY <2>2 DEF TickSkip
  <2>3. ASSUME NEW c \in Campaigns, NEW a \in Assets, TickPick(c, a)
        PROVE  tick' \in [todo : SUBSET Campaigns, pick : Assets \cup {NoAsset}, up : BOOLEAN]
               /\ tick'.pick = a /\ ~HasDownload(a) /\ asset[a] = "pending"
    BY <2>3 DEF TickPick, First
  <2>4. ASSUME NEW c \in Campaigns, NEW a \in Assets, TickRefused(c, a)
        PROVE  tick' \in [todo : SUBSET Campaigns, pick : Assets \cup {NoAsset}, up : BOOLEAN]
               /\ tick'.pick = NoAsset
    BY <2>4 DEF TickRefused
  <2> HIDE DEF IInv, TypeOK, PickIsFree, Idle
  <2> QED
    BY <2>1, <2>2, <2>3, <2>4
<1> USE <1>1, <1>2 DEF IInv, queueVars, jobVars, assetVars
<1>3. TypeOK'
  BY DEF TypeOK, Queue!TypeOK
<1>4. Rows' /\ OneJobOfEachKind'
  BY DEF Rows, OneJobOfEachKind
<1>5. PickIsFree'
  BY <1>2 DEF PickIsFree, HasDownload
<1>6. Downloads' /\ Transcriptions' /\ Transcribed' /\ TranscribesMediaOnly'
  BY DEF Downloads, Transcriptions, Transcribed, TranscribesMediaOnly
<1>7. DownloadsAreComplete' /\ TranscriptionsAreComplete'
  BY DEF DownloadsAreComplete, TranscriptionsAreComplete
<1> QED
  BY <1>3, <1>4, <1>5, <1>6, <1>7

\* create_job takes a row nothing refers to yet.
LEMMA InsertRow ==
  ASSUME IInv, NEW type, NEW a \in Assets, Insert(type, a)
  PROVE  \E j \in Jobs :
           /\ kind[j] = "none" /\ target[j] = NoAsset /\ handler[j] = "idle"
           /\ status' = [status EXCEPT ![j] = "pending"]
           /\ UNCHANGED <<owner, attempts, dispatched>>
           /\ kind' = [kind EXCEPT ![j] = type]
           /\ target' = [target EXCEPT ![j] = a]
BY DEF Insert, Queue!Create, IInv, Rows

\* The tick's download is the first of its asset.
LEMMA TickInsertIInv ==
  ASSUME IInv, NEW c \in Campaigns, NEW a \in Assets, TickInsert(c, a)
  PROVE  IInv'
<1>1. PICK j \in Jobs :
        /\ kind[j] = "none" /\ target[j] = NoAsset /\ handler[j] = "idle"
        /\ status' = [status EXCEPT ![j] = "pending"]
        /\ UNCHANGED <<owner, attempts, dispatched>>
        /\ kind' = [kind EXCEPT ![j] = "download"]
        /\ target' = [target EXCEPT ![j] = a]
  BY InsertRow DEF TickInsert
<1>2. /\ UNCHANGED <<asset, media, text, handler>>
      /\ tick' = [Idle EXCEPT !.todo = tick.todo \ {c}]
      /\ ~HasDownload(a) /\ asset[a] = "pending"
  BY PipelineAssumption DEF TickInsert, assetVars, IInv, PickIsFree
<1> USE <1>1, <1>2 DEF IInv
<1>3. TypeOK'
  BY DEF TypeOK, Queue!TypeOK, Queue!JobStatus, Idle
<1>4. Rows'
  BY PipelineAssumption DEF Rows, TypeOK, Queue!TypeOK
<1>5. OneJobOfEachKind'
  BY DEF OneJobOfEachKind, HasDownload, TypeOK
<1>6. PickIsFree'
  BY DEF PickIsFree, Idle
<1>7. Downloads'
  BY DEF Downloads, TypeOK
<1>8. Transcriptions' /\ Transcribed' /\ TranscribesMediaOnly'
  BY DEF Transcriptions, Transcribed, TranscribesMediaOnly, TypeOK
<1>9. TranscriptionsAreComplete'
  BY DEF TranscriptionsAreComplete, TypeOK, Queue!TypeOK
<1>10. DownloadsAreComplete'
  <2> SUFFICES ASSUME NEW d \in Jobs, handler'[d] = "over", status'[d] = "completed",
                      kind'[d] = "download"
               PROVE  \/ asset'[target'[d]] = "failed" /\ media'[target'[d]] = "invalid"
                      \/ \E k \in Jobs : kind'[k] = "transcribe" /\ target'[k] = target'[d]
    BY DEF DownloadsAreComplete
  <2>1. d # j /\ status[d] = "completed" /\ kind[d] = "download" /\ target'[d] = target[d]
    BY DEF TypeOK, Queue!TypeOK
  <2>2. \A k \in Jobs : kind[k] = "transcribe" => kind'[k] = "transcribe" /\ target'[k] = target[k]
    BY DEF TypeOK
  <2> QED
    BY <2>1, <2>2 DEF DownloadsAreComplete
<1> QED
  BY <1>3, <1>4, <1>5, <1>6, <1>7, <1>8, <1>9, <1>10

-----------------------------------------------------------------------------
\* The handlers.  Of two jobs for one asset, one is the download and the other the
\* transcription, and the transcription is there only once the download is over.
LEMMA OneDownload ==
  ASSUME IInv, NEW j \in Jobs, NEW k \in Jobs, k # j, kind[j] = "download",
         target[k] = target[j]
  PROVE  kind[k] = "transcribe" /\ handler[j] = "over"
<1>1. target[j] # NoAsset
  BY DEF IInv, Rows
<1>2. kind[k] = "transcribe"
  BY <1>1 DEF IInv, Rows, OneJobOfEachKind, TypeOK
<1>3. PICK d \in Jobs : kind[d] = "download" /\ target[d] = target[k] /\ handler[d] = "over"
  BY <1>2 DEF IInv, Transcriptions
<1>4. d = j
  BY <1>3 DEF IInv, OneJobOfEachKind
<1> QED
  BY <1>2, <1>3, <1>4

\* While its handler is at work, a download is the only job of its asset.
LEMMA OnlyJob ==
  ASSUME IInv, NEW j \in Jobs, kind[j] = "download", handler[j] # "over"
  PROVE  /\ target[j] \in Assets
         /\ \A k \in Jobs : target[k] = target[j] => k = j
         /\ tick.pick # target[j]
<1>1. \A k \in Jobs : target[k] = target[j] => k = j
  BY OneDownload
<1>2. target[j] \in Assets
  BY DEF IInv, Rows, TypeOK
<1> QED
  BY <1>1, <1>2, PipelineAssumption DEF IInv, PickIsFree, HasDownload

\* A download moves its own asset, which no other job refers to.
LEMMA DownloadIInv ==
  ASSUME IInv, NEW j \in Jobs,
         DownloadCompleted(j) \/ StoreResult(j) \/ RejectMedia(j)
  PROVE  IInv'
<1>1. kind[j] = "download" /\ handler[j] # "over" /\ status[j] = "completed"
  BY DEF DownloadCompleted, StoreResult, RejectMedia, Called, Queue!Dispatch, IInv, Rows
<1>2. /\ target[j] \in Assets
      /\ \A k \in Jobs : target[k] = target[j] => k = j
      /\ tick.pick # target[j]
  BY <1>1, OnlyJob
<1>3. /\ UNCHANGED <<status, owner, attempts, kind, target, text, tick>>
      /\ dispatched' \in [Jobs -> {0, 1}]
  BY DEF DownloadCompleted, StoreResult, RejectMedia, Called, Queue!Dispatch, IInv,
         TypeOK, Queue!TypeOK, jobVars, queueVars
\* What the step changes belongs to job j and its asset.
<1>4. /\ asset' \in [Assets -> AssetStatus] /\ media' \in [Assets -> {"none", "valid", "invalid"}]
      /\ handler' \in [Jobs -> {"idle", "store", "check", "text", "over", "lost"}]
      /\ \A k \in Jobs : k # j => handler'[k] = handler[k]
      /\ \A a \in Assets : a # target[j] => asset'[a] = asset[a] /\ media'[a] = media[a]
      /\ \/ handler'[j] \in {"store", "check"} /\ asset'[target[j]] = "downloaded"
         \/ /\ handler'[j] = "over"
            /\ asset'[target[j]] = "failed" /\ media'[target[j]] = "invalid"
  BY <1>1, <1>2 DEF DownloadCompleted, StoreResult, RejectMedia, Called, IInv, TypeOK,
     Downloads, AssetStatus
<1>5. TypeOK'
  BY <1>3, <1>4 DEF IInv, TypeOK, Queue!TypeOK
<1>6. Rows' /\ OneJobOfEachKind'
  BY <1>1, <1>3, <1>4 DEF IInv, Rows, OneJobOfEachKind
<1>7. PickIsFree'
  BY <1>2, <1>3, <1>4 DEF IInv, PickIsFree, HasDownload, TypeOK
<1> USE DEF IInv, TypeOK, Rows
<1>8. Downloads'
  BY <1>1, <1>2, <1>3, <1>4 DEF Downloads
<1>9. Transcriptions'
  <2> SUFFICES ASSUME NEW k \in Jobs, kind'[k] = "transcribe"
               PROVE  /\ handler'[k] = "idle" => asset'[target'[k]] = "downloaded"
                      /\ \E d \in Jobs : /\ kind'[d] = "download" /\ target'[d] = target'[k]
                                         /\ handler'[d] = "over"
    BY DEF Transcriptions
  <2>1. PICK d \in Jobs : kind[d] = "download" /\ target[d] = target[k] /\ handler[d] = "over"
    BY <1>3 DEF Transcriptions
  <2>2. k # j /\ d # j /\ target[k] \in Assets /\ target[k] # target[j]
    BY <1>1, <1>2, <1>3, <2>1
  <2> QED
    BY <1>3, <1>4, <2>1, <2>2 DEF Transcriptions
<1>10. Transcribed' /\ TranscribesMediaOnly' /\ TranscriptionsAreComplete'
  <2>1. ASSUME NEW k \in Jobs, kind[k] = "transcribe"
        PROVE  k # j /\ target[k] \in Assets /\ target[k] # target[j]
    BY <1>1, <1>2, <2>1
  <2> QED
    BY <1>3, <1>4, <2>1 DEF Transcribed, TranscribesMediaOnly, TranscriptionsAreComplete
<1>11. DownloadsAreComplete'
  <2> SUFFICES ASSUME NEW d \in Jobs, handler'[d] = "over", status'[d] = "completed",
                      kind'[d] = "download"
               PROVE  \/ asset'[target'[d]] = "failed" /\ media'[target'[d]] = "invalid"
                      \/ \E k \in Jobs : kind'[k] = "transcribe" /\ target'[k] = target'[d]
    BY DEF DownloadsAreComplete
  <2>1. CASE d = j
    BY <1>3, <1>4, <2>1
  <2>2. CASE d # j
    <3>1. target[d] \in Assets /\ target[d] # target[j]
      BY <1>2, <1>3, <2>2
    <3> QED
      BY <1>3, <1>4, <2>2, <3>1 DEF DownloadsAreComplete
  <2> QED
    BY <2>1, <2>2
<1> QED
  BY <1>5, <1>6, <1>7, <1>8, <1>9, <1>10, <1>11
-----------------------------------------------------------------------------
\* The transcribe job of a download is the first of its asset.
LEMMA QueueTranscribeIInv ==
  ASSUME IInv, NEW j \in Jobs, QueueTranscribe(j)
  PROVE  IInv'
<1>1. /\ kind[j] = "download" /\ handler[j] = "check" /\ status[j] = "completed"
      /\ media[target[j]] = "valid" /\ asset[target[j]] = "downloaded"
  BY DEF QueueTranscribe, IInv, Rows, Downloads
<1>2. /\ target[j] \in Assets
      /\ \A k \in Jobs : target[k] = target[j] => k = j
      /\ tick.pick # target[j]
  BY <1>1, OnlyJob
<1>3. PICK n \in Jobs :
        /\ kind[n] = "none" /\ target[n] = NoAsset /\ handler[n] = "idle"
        /\ status' = [status EXCEPT ![n] = "pending"]
        /\ UNCHANGED <<owner, attempts, dispatched>>
        /\ kind' = [kind EXCEPT ![n] = "transcribe"]
        /\ target' = [target EXCEPT ![n] = target[j]]
  BY <1>2, InsertRow DEF QueueTranscribe
<1>4. /\ UNCHANGED <<asset, media, text, tick>>
      /\ handler' = [handler EXCEPT ![j] = "over"]
  BY DEF QueueTranscribe, assetVars
<1>5. n # j
  BY <1>1, <1>3
<1>6. TypeOK'
  BY <1>2, <1>3, <1>4 DEF IInv, TypeOK, Queue!TypeOK, Queue!JobStatus
\* Row n appears, the handler of j is over, and every other row is as it was.
<1>7. /\ status'[n] = "pending" /\ kind'[n] = "transcribe" /\ target'[n] = target[j]
      /\ handler'[n] = "idle" /\ handler'[j] = "over"
      /\ \A k \in Jobs : k # n => /\ status'[k] = status[k] /\ kind'[k] = kind[k]
                                  /\ target'[k] = target[k]
      /\ \A k \in Jobs : k # j => handler'[k] = handler[k]
  BY <1>3, <1>4, <1>5 DEF IInv, TypeOK, Queue!TypeOK
<1> HIDE <1>3
<1>8. kind[n] = "none" /\ target[n] = NoAsset /\ handler[n] = "idle"
  BY <1>3
<1>9. Rows'
  BY <1>1, <1>2, <1>5, <1>7, PipelineAssumption DEF IInv, Rows
<1>10. OneJobOfEachKind'
  BY <1>1, <1>2, <1>5, <1>7 DEF IInv, OneJobOfEachKind
<1>11. PickIsFree'
  BY <1>4, <1>7 DEF IInv, PickIsFree, HasDownload
<1>12. Downloads'
  BY <1>4, <1>7 DEF IInv, Downloads
<1>13. Transcriptions'
  <2> SUFFICES ASSUME NEW k \in Jobs, kind'[k] = "transcribe"
               PROVE  /\ handler'[k] = "idle" => asset'[target'[k]] = "downloaded"
                      /\ \E d \in Jobs : /\ kind'[d] = "download" /\ target'[d] = target'[k]
                                         /\ handler'[d] = "over"
    BY DEF Transcriptions
  <2>1. CASE k = n
    BY <1>1, <1>4, <1>5, <1>7, <2>1
  <2>2. CASE k # n
    <3>1. PICK d \in Jobs : kind[d] = "download" /\ target[d] = target[k] /\ handler[d] = "over"
      BY <1>7, <2>2 DEF IInv, Transcriptions
    <3>2. d # n /\ d # j /\ k # j
      BY <1>1, <1>7, <1>8, <2>2, <3>1
    <3> QED
      BY <1>4, <1>7, <2>2, <3>1, <3>2 DEF IInv, Transcriptions
  <2> QED
    BY <2>1, <2>2
<1>14. TranscribesMediaOnly' /\ Transcribed'
  BY <1>1, <1>4, <1>7, <1>8 DEF IInv, TranscribesMediaOnly, Transcribed
<1>15. TranscriptionsAreComplete'
  BY <1>1, <1>4, <1>5, <1>7, <1>8 DEF IInv, TranscriptionsAreComplete
<1>16. DownloadsAreComplete'
  <2> SUFFICES ASSUME NEW d \in Jobs, handler'[d] = "over", status'[d] = "completed",
                      kind'[d] = "download"
               PROVE  \/ asset'[target'[d]] = "failed" /\ media'[target'[d]] = "invalid"
                      \/ \E k \in Jobs : kind'[k] = "transcribe" /\ target'[k] = target'[d]
    BY DEF DownloadsAreComplete
  <2>1. d # n /\ kind[d] = "download" /\ target'[d] = target[d] /\ status[d] = "completed"
    BY <1>7
  <2>2. CASE d = j
    BY <1>7, <2>1, <2>2
  <2>3. CASE d # j
    <3>1. \/ asset[target[d]] = "failed" /\ media[target[d]] = "invalid"
          \/ \E k \in Jobs : kind[k] = "transcribe" /\ target[k] = target[d]
      BY <1>7, <2>1, <2>3 DEF IInv, DownloadsAreComplete
    <3>2. \A k \in Jobs : kind[k] = "transcribe" => k # n
      BY <1>8
    <3> QED
      BY <1>4, <1>7, <2>1, <3>1, <3>2
  <2> QED
    BY <2>2, <2>3
<1> QED
  BY <1>6, <1>9, <1>10, <1>11, <1>12, <1>13, <1>14, <1>15, <1>16 DEF IInv

\* A transcription moves its own asset; the download of that asset is over.
LEMMA TranscribeIInv ==
  ASSUME IInv, NEW j \in Jobs, TranscribeCompleted(j) \/ StoreTranscription(j)
  PROVE  IInv'
<1>1. kind[j] = "transcribe" /\ handler[j] \in {"idle", "text"} /\ status[j] = "completed"
  BY DEF TranscribeCompleted, StoreTranscription, Called, Queue!Dispatch, IInv, Rows
<1>2. PICK d \in Jobs : kind[d] = "download" /\ target[d] = target[j] /\ handler[d] = "over"
  BY <1>1 DEF IInv, Transcriptions
<1>3. /\ target[j] \in Assets
      /\ \A k \in Jobs : kind[k] = "transcribe" /\ target[k] = target[j] => k = j
      /\ \A k \in Jobs : kind[k] = "download" /\ target[k] = target[j] => k = d
  BY <1>1, <1>2 DEF IInv, Rows, TypeOK, OneJobOfEachKind
<1>4. tick.pick # target[j]
  BY <1>2, <1>3, PipelineAssumption DEF IInv, PickIsFree, HasDownload
<1>5. /\ UNCHANGED <<status, owner, attempts, kind, target, media, tick>>
      /\ dispatched' \in [Jobs -> {0, 1}]
  BY DEF TranscribeCompleted, StoreTranscription, Called, Queue!Dispatch, IInv,
         TypeOK, Queue!TypeOK, jobVars, queueVars
\* What the step changes belongs to job j and its asset.
<1>6. /\ asset' \in [Assets -> AssetStatus] /\ text' \in [Assets -> BOOLEAN]
      /\ handler' \in [Jobs -> {"idle", "store", "check", "text", "over", "lost"}]
      /\ \A k \in Jobs : k # j => handler'[k] = handler[k]
      /\ \A a \in Assets : a # target[j] => asset'[a] = asset[a] /\ text'[a] = text[a]
      /\ asset'[target[j]] = "transcribed"
      /\ \/ handler'[j] = "text"
         \/ handler'[j] = "over" /\ text'[target[j]]
  <2>1. /\ asset \in [Assets -> AssetStatus] /\ text \in [Assets -> BOOLEAN]
        /\ handler \in [Jobs -> {"idle", "store", "check", "text", "over", "lost"}]
    BY DEF IInv, TypeOK
  <2>2. CASE TranscribeCompleted(j)
    BY <1>3, <2>1, <2>2 DEF TranscribeCompleted, AssetStatus
  <2>3. CASE StoreTranscription(j)
    <3>1. asset[target[j]] = "transcribed"
      BY <1>1, <2>3 DEF StoreTranscription, IInv, Transcribed
    <3> QED
      BY <1>3, <2>1, <2>3, <3>1 DEF StoreTranscription
  <2> QED
    BY <2>2, <2>3
<1>7. TypeOK'
  BY <1>5, <1>6 DEF IInv, TypeOK, Queue!TypeOK
<1>8. Rows' /\ OneJobOfEachKind'
  BY <1>1, <1>5, <1>6 DEF IInv, Rows, OneJobOfEachKind
<1>9. PickIsFree'
  BY <1>4, <1>5, <1>6 DEF IInv, PickIsFree, HasDownload, TypeOK
<1> USE DEF IInv, TypeOK, Rows
<1>10. Downloads'
  <2> SUFFICES ASSUME NEW k \in Jobs, kind[k] = "download"
               PROVE  /\ handler'[k] = "idle" => asset'[target[k]] = "pending"
                      /\ handler'[k] \in {"store", "check"} => asset'[target[k]] = "downloaded"
    BY <1>5 DEF Downloads
  <2>1. k # j /\ target[k] \in Assets
    BY <1>1
  <2> QED
    BY <1>2, <1>3, <1>6, <2>1 DEF Downloads
<1>11. Transcriptions' /\ Transcribed'
  <2> SUFFICES ASSUME NEW k \in Jobs, kind[k] = "transcribe"
               PROVE  /\ handler'[k] = "idle" => asset'[target[k]] = "downloaded"
                      /\ handler'[k] = "text" => asset'[target[k]] = "transcribed"
                      /\ \E e \in Jobs : /\ kind[e] = "download" /\ target[e] = target[k]
                                         /\ handler'[e] = "over"
    BY <1>5 DEF Transcriptions, Transcribed
  <2>1. PICK e \in Jobs : kind[e] = "download" /\ target[e] = target[k] /\ handler[e] = "over"
    BY DEF Transcriptions
  <2>2. e # j /\ handler'[e] = "over"
    BY <1>1, <1>6, <2>1
  <2>3. CASE k = j
    BY <1>6, <2>1, <2>2, <2>3
  <2>4. CASE k # j
    <3>1. target[k] \in Assets /\ target[k] # target[j]
      BY <1>3, <2>4
    <3> QED
      BY <1>6, <2>1, <2>2, <2>4, <3>1 DEF Transcriptions, Transcribed
  <2> QED
    BY <2>3, <2>4
<1>12. TranscribesMediaOnly' /\ TranscriptionsAreComplete'
  <2> SUFFICES ASSUME NEW k \in Jobs, kind[k] = "transcribe"
               PROVE  /\ media[target[k]] = "valid"
                      /\ asset'[target[k]] \in {"downloaded", "transcribed"}
                      /\ handler'[k] = "over" /\ status[k] = "completed" =>
                           asset'[target[k]] = "transcribed" /\ text'[target[k]]
    BY <1>5 DEF TranscribesMediaOnly, TranscriptionsAreComplete
  <2>1. CASE k = j
    BY <1>6, <2>1 DEF TranscribesMediaOnly
  <2>2. CASE k # j
    <3>1. target[k] \in Assets /\ target[k] # target[j]
      BY <1>3, <2>2
    <3> QED
      BY <1>6, <2>2, <3>1 DEF TranscribesMediaOnly, TranscriptionsAreComplete
  <2> QED
    BY <2>1, <2>2
<1>13. DownloadsAreComplete'
  <2> SUFFICES ASSUME NEW k \in Jobs, handler'[k] = "over", status[k] = "completed",
                      kind[k] = "download"
               PROVE  \/ asset'[target[k]] = "failed" /\ media[target[k]] = "invalid"
                      \/ \E i \in Jobs : kind[i] = "transcribe" /\ target[i] = target[k]
    BY <1>5 DEF DownloadsAreComplete
  <2>1. CASE target[k] = target[j]
    BY <1>1, <2>1
  <2>2. CASE target[k] # target[j]
    BY <1>1, <1>6, <2>2 DEF DownloadsAreComplete
  <2> QED
    BY <2>1, <2>2
<1> QED
  BY <1>7, <1>8, <1>9, <1>10, <1>11, <1>12, <1>13

\* A handler that fails, or is lost, leaves the assets as they are.
LEMMA HandlerIInv ==
  ASSUME IInv, NEW j \in Jobs, JobFailed(j) \/ HandlerLost(j)
  PROVE  IInv'
<1>1. /\ UNCHANGED <<status, owner, attempts, dispatched, kind, target, asset, media,
                     text, tick>>
      /\ handler' \in [Jobs -> {"idle", "store", "check", "text", "over", "lost"}]
      /\ \A k \in Jobs : k # j => handler'[k] = handler[k]
      /\ \/ status[j] = "failed" /\ handler[j] = "idle" /\ handler'[j] = "over"
         \/ status[j] = "completed" /\ handler[j] # "over" /\ handler'[j] = "lost"
  BY DEF JobFailed, HandlerLost, IInv, TypeOK, queueVars, jobVars, assetVars
<1> USE DEF IInv
<1>2. TypeOK' /\ Rows'
  BY <1>1 DEF TypeOK, Queue!TypeOK, Rows
<1>3. OneJobOfEachKind' /\ PickIsFree' /\ TranscribesMediaOnly'
  BY <1>1 DEF OneJobOfEachKind, PickIsFree, HasDownload, TranscribesMediaOnly
<1>4. Downloads' /\ Transcribed'
  BY <1>1 DEF Downloads, Transcribed
<1>5. Transcriptions'
  BY <1>1 DEF Transcriptions
<1>6. DownloadsAreComplete' /\ TranscriptionsAreComplete'
  BY <1>1 DEF DownloadsAreComplete, TranscriptionsAreComplete
<1> QED
  BY <1>2, <1>3, <1>4, <1>5, <1>6

-----------------------------------------------------------------------------
\* The invariant is inductive.
LEMMA NextIInv == IInv /\ [Next]_vars => IInv'
<1> SUFFICES ASSUME IInv, [Next]_vars PROVE IInv'
  OBVIOUS
<1>1. CASE TickStep \/ TickDies
  BY <1>1, TickIInv, TickInsertIInv DEF TickStep
<1>2. CASE TimeOut \/ \E j \in Jobs : Work(j) \/ Cancel(j)
  BY <1>2, QueueIInv
<1>3. ASSUME NEW j \in Jobs, Handle(j) \/ HandlerLost(j) PROVE IInv'
  BY <1>3, DownloadIInv, QueueTranscribeIInv, TranscribeIInv, HandlerIInv DEF Handle
<1>4. CASE UNCHANGED vars
  <2> USE <1>4 DEF IInv, vars, queueVars, jobVars, assetVars
  <2>1. TypeOK' /\ Rows' /\ OneJobOfEachKind' /\ PickIsFree'
    BY DEF TypeOK, Queue!TypeOK, Rows, OneJobOfEachKind, PickIsFree, HasDownload
  <2>2. Downloads' /\ Transcriptions' /\ Transcribed' /\ TranscribesMediaOnly'
    BY DEF Downloads, Transcriptions, Transcribed, TranscribesMediaOnly
  <2>3. DownloadsAreComplete' /\ TranscriptionsAreComplete'
    BY DEF DownloadsAreComplete, TranscriptionsAreComplete
  <2> QED
    BY <2>1, <2>2, <2>3
<1> QED
  BY <1>1, <1>2, <1>3, <1>4 DEF Next

\* The strengthening holds throughout.
THEOREM PipelineInvariant == Spec => []IInv
BY InitIInv, NextIInv, PTL DEF Spec

\* Every column of the pipeline keeps its type.
THEOREM PipelineTypeOK == Spec => []TypeOK
<1>1. IInv => TypeOK
  BY DEF IInv
<1> QED
  BY <1>1, PipelineInvariant, PTL

\* However sweeps, retries, lost handlers and dying servers interleave, an asset is
\* downloaded and transcribed by at most one job each.
THEOREM OneJobOfEachKindHolds == Spec => []OneJobOfEachKind
<1>1. IInv => OneJobOfEachKind
  BY DEF IInv
<1> QED
  BY <1>1, PipelineInvariant, PTL

\* No worker is asked to transcribe a file it cannot open, or one that is not there.
THEOREM TranscribesMediaOnlyHolds == Spec => []TranscribesMediaOnly
<1>1. IInv => TranscribesMediaOnly
  BY DEF IInv
<1> QED
  BY <1>1, PipelineInvariant, PTL

\* A follow-up handler that ran to its end left nothing half done.
THEOREM HandledIsCompleteHolds == Spec => []HandledIsComplete
BY IInvHandled, PipelineInvariant, PTL

\* No step of anybody moves an asset back.
LEMMA StepMovesForward ==
  ASSUME IInv, [Next]_vars, NEW a \in Assets, asset'[a] # asset[a]
  PROVE  \/ asset[a] = "pending" /\ asset'[a] = "downloaded"
         \/ asset[a] = "downloaded" /\ asset'[a] \in {"transcribed", "failed"}
<1> DEFINE Forward(b) ==
      \/ asset[b] = "pending" /\ asset'[b] = "downloaded"
      \/ asset[b] = "downloaded" /\ asset'[b] \in {"transcribed", "failed"}
<1>1. ASSUME NEW j \in Jobs, DownloadCompleted(j) PROVE Forward(a)
  <2>1. asset[target[j]] = "pending" /\ asset' = [asset EXCEPT ![target[j]] = "downloaded"]
    BY <1>1 DEF DownloadCompleted, Called, IInv, Downloads
  <2> QED
    BY <2>1 DEF IInv, TypeOK
<1>2. ASSUME NEW j \in Jobs, RejectMedia(j) PROVE Forward(a)
  <2>1. asset[target[j]] = "downloaded" /\ asset' = [asset EXCEPT ![target[j]] = "failed"]
    BY <1>2 DEF RejectMedia, IInv, Rows, Downloads
  <2> QED
    BY <2>1 DEF IInv, TypeOK
<1>3. ASSUME NEW j \in Jobs, TranscribeCompleted(j) PROVE Forward(a)
  <2>1. asset[target[j]] = "downloaded" /\ asset' = [asset EXCEPT ![target[j]] = "transcribed"]
    BY <1>3 DEF TranscribeCompleted, Called, IInv, Transcriptions
  <2> QED
    BY <2>1 DEF IInv, TypeOK
<1>4. ASSUME NEW j \in Jobs,
             \/ Work(j) \/ Cancel(j) \/ StoreResult(j) \/ QueueTranscribe(j)
             \/ StoreTranscription(j) \/ JobFailed(j) \/ HandlerLost(j)
      PROVE  asset' = asset
  BY <1>4 DEF Work, Claim, Start, Finish, Cancel, StoreResult, QueueTranscribe,
     StoreTranscription, JobFailed, HandlerLost, assetVars
<1>5. CASE TickStep \/ TickDies \/ TimeOut \/ UNCHANGED vars
  BY <1>5 DEF TickStep, TickBegin, TickSkip, TickPick, TickInsert, TickRefused, TickDies,
     TimeOut, vars, assetVars
<1> QED
  BY <1>1, <1>2, <1>3, <1>4, <1>5 DEF Next, Handle

\* An asset goes from pending to downloaded and from there to transcribed or failed,
\* and never back, whatever handlers are running or lost.
THEOREM MovesForwardHolds == Spec => MovesForward
<1>1. IInv /\ [Next]_vars =>
        [\A a \in Assets : asset'[a] # asset[a] =>
           \/ asset[a] = "pending" /\ asset'[a] = "downloaded"
           \/ asset[a] = "downloaded" /\ asset'[a] \in {"transcribed", "failed"}]_asset
  BY StepMovesForward
<1> QED
  BY <1>1, PipelineInvariant, PTL DEF Spec, MovesForward
-----------------------------------------------------------------------------
\* The queue underneath.
QueueProofs == INSTANCE JobQueueProofs

\* create_job is the queue's Create, and every handler is called by its Dispatch.
LEMMA StepIsQueueStep == [Next]_vars => [Queue!Next]_(Queue!vars)
<1> SUFFICES ASSUME [Next]_vars PROVE Queue!Next \/ UNCHANGED queueVars
  BY DEF queueVars, Queue!vars
<1>1. ASSUME NEW type, NEW a, Insert(type, a) PROVE Queue!Next
  BY <1>1 DEF Insert, Queue!Next
<1>2. CASE TickStep \/ TickDies
  BY <1>1, <1>2 DEF TickStep, TickBegin, TickSkip, TickPick, TickInsert, TickRefused, TickDies
<1>3. CASE TimeOut
  BY <1>3 DEF TimeOut, Queue!Next
<1>4. ASSUME NEW j \in Jobs, Work(j) \/ Cancel(j) PROVE Queue!Next
  BY <1>4 DEF Work, Claim, Start, Finish, Cancel, Queue!Next
<1>5. ASSUME NEW j \in Jobs, Handle(j) \/ HandlerLost(j)
      PROVE  Queue!Next \/ UNCHANGED queueVars
  BY <1>1, <1>5 DEF Handle, DownloadCompleted, StoreResult, RejectMedia, QueueTranscribe,
     TranscribeCompleted, StoreTranscription, JobFailed, HandlerLost, Called, Queue!Next
<1>6. CASE UNCHANGED vars
  BY <1>6 DEF vars
<1> QED
  BY <1>2, <1>3, <1>4, <1>5, <1>6 DEF Next

\* Whatever the tick and the handlers do, the queue under them is JobQueue: they
\* insert rows and have completions dispatched, and touch no other column of it.
THEOREM PipelineRunsTheQueue == Spec => Queue!Spec
<1>1. Init => Queue!Init
  BY DEF Init
<1> QED
  BY <1>1, StepIsQueueStep, PTL DEF Spec, Queue!Spec

\* Download and transcribe jobs keep what the queue promises: their retry budget, their
\* owner, one dispatch after the completion, legal changes of status.
THEOREM PipelineKeepsTheQueue ==
  Spec => /\ []Queue!RetryBudget /\ []Queue!OwnerMatchesStatus
          /\ []Queue!FollowUpOnlyIfCompleted /\ Queue!TransitionsValid
<1>1. QueueProofs!QueueAssumption
  BY PipelineAssumption DEF QueueProofs!QueueAssumption
<1>2. QueueProofs!Spec =>
        /\ []QueueProofs!RetryBudget /\ []QueueProofs!OwnerMatchesStatus
        /\ []QueueProofs!FollowUpOnlyIfCompleted /\ QueueProofs!TransitionsValid
  BY <1>1, QueueProofs!QueuePromise
\* The two instances are the same formulas.
<1>3. Queue!Init <=> QueueProofs!Init
  BY DEF Queue!Init, QueueProofs!Init
<1>4. Queue!Next <=> QueueProofs!Next
  BY DEF Queue!Next, QueueProofs!Next,
         Queue!TimeOut, QueueProofs!TimeOut, Queue!Recovered, QueueProofs!Recovered,
         Queue!Create, QueueProofs!Create, Queue!Start, QueueProofs!Start,
         Queue!Complete, QueueProofs!Complete, Queue!Dispatch, QueueProofs!Dispatch,
         Queue!Retry, QueueProofs!Retry, Queue!Exhaust, QueueProofs!Exhaust,
         Queue!Cancel, QueueProofs!Cancel, Queue!Claim, QueueProofs!Claim,
         Queue!EnsureTransition, QueueProofs!EnsureTransition,
         Queue!ValidTransitions, QueueProofs!ValidTransitions, Queue!JobStatus,
         QueueProofs!JobStatus, Queue!Active, QueueProofs!Active
<1>5. [Queue!Next]_(Queue!vars) => [QueueProofs!Next]_(QueueProofs!vars)
  BY <1>4 DEF Queue!vars, QueueProofs!vars
<1>6. /\ Queue!RetryBudget <=> QueueProofs!RetryBudget
      /\ Queue!OwnerMatchesStatus <=> QueueProofs!OwnerMatchesStatus
      /\ Queue!FollowUpOnlyIfCompleted <=> QueueProofs!FollowUpOnlyIfCompleted
  BY DEF Queue!RetryBudget, QueueProofs!RetryBudget, Queue!OwnerMatchesStatus,
         QueueProofs!OwnerMatchesStatus, Queue!FollowUpOnlyIfCompleted,
         QueueProofs!FollowUpOnlyIfCompleted, Queue!Active, QueueProofs!Active
<1>7. [\A j \in Jobs : QueueProofs!LegalChange(status[j], status'[j])]_status =>
        [\A j \in Jobs : Queue!LegalChange(status[j], status'[j])]_status
  BY DEF Queue!LegalChange, QueueProofs!LegalChange, Queue!EnsureTransition,
         QueueProofs!EnsureTransition, Queue!ValidTransitions, QueueProofs!ValidTransitions,
         Queue!JobStatus, QueueProofs!JobStatus, Queue!Active, QueueProofs!Active
<1> QED
  BY <1>2, <1>3, <1>5, <1>6, <1>7, PipelineRunsTheQueue, PTL
     DEF Queue!Spec, QueueProofs!Spec, Queue!TransitionsValid, QueueProofs!TransitionsValid
-----------------------------------------------------------------------------
\* The pipeline implements AssetLife.  The text is there only of an asset whose
\* transcription has been reported.
TextIsLate == \A a \in Assets : text[a] => asset[a] = "transcribed"

\* Two commits of on_transcribe_completed: the status, and only then the text.
LEMMA NextTextIsLate == IInv /\ TextIsLate /\ [Next]_vars => TextIsLate'
<1> SUFFICES ASSUME IInv, TextIsLate, [Next]_vars, NEW a \in Assets, text'[a]
             PROVE  asset'[a] = "transcribed"
  BY DEF TextIsLate
<1>1. asset[a] = "transcribed" => asset'[a] = "transcribed"
  BY StepMovesForward
<1>2. CASE text'[a] = text[a]
  BY <1>1, <1>2 DEF TextIsLate
<1>3. ASSUME NEW j \in Jobs, StoreTranscription(j) PROVE asset'[a] = "transcribed"
  <2>1. asset[target[j]] = "transcribed"
    BY <1>3 DEF StoreTranscription, IInv, Rows, Transcribed
  <2>2. CASE a = target[j]
    BY <1>1, <2>1, <2>2
  <2>3. CASE a # target[j]
    <3>1. text'[a] = text[a]
      BY <1>3, <2>3 DEF StoreTranscription, IInv, TypeOK
    <3> QED
      BY <1>2, <3>1
  <2> QED
    BY <2>2, <2>3
<1>4. CASE TickStep \/ TickDies \/ TimeOut \/ UNCHANGED vars
  <2>1. text' = text
    BY <1>4 DEF TickStep, TickBegin, TickSkip, TickPick, TickInsert, TickRefused, TickDies,
       TimeOut, vars, assetVars
  <2> QED
    BY <1>2, <2>1
<1>5. ASSUME NEW j \in Jobs,
             \/ Work(j) \/ Cancel(j) \/ HandlerLost(j) \/ (Handle(j) /\ ~StoreTranscription(j))
      PROVE  text' = text
  BY <1>5 DEF Work, Claim, Start, Finish, Cancel, Handle, DownloadCompleted, StoreResult,
     RejectMedia, QueueTranscribe, TranscribeCompleted, JobFailed, HandlerLost, assetVars
<1> QED
  BY <1>2, <1>3, <1>4, <1>5 DEF Next, Handle

\* An asset whose columns and jobs are as they were is at the stage it was at.
LEMMA SameStage ==
  ASSUME NEW a \in Assets, asset'[a] = asset[a], text'[a] = text[a],
         HasDownload(a)' <=> HasDownload(a), HasTranscribe(a)' <=> HasTranscribe(a)
  PROVE  Stage(a)' = Stage(a)
BY DEF Stage

\* Where no job is inserted, no asset gets one.
LEMMA SameJobs ==
  ASSUME UNCHANGED jobVars, NEW a
  PROVE  (HasDownload(a)' <=> HasDownload(a)) /\ (HasTranscribe(a)' <=> HasTranscribe(a))
BY DEF jobVars, HasDownload, HasTranscribe

\* A step that takes one asset on is a step of AssetLife.
LEMMA OneMoves ==
  ASSUME NEW a \in Assets, NEW from, NEW to, Stage(a) = from, Stage(a)' = to,
         \A b \in Assets : b # a => Stage(b)' = Stage(b)
  PROVE  Life!Move(a, from, to)
BY DEF Life!Move

\* Some stage of some asset, or none, changes.
LifeStep ==
  \/ \A a \in Assets : Stage(a)' = Stage(a)
  \/ Life!Next

\* What leaves the assets' columns and the rows alone leaves their stages alone.
LEMMA LifeStutters ==
  ASSUME UNCHANGED <<asset, text>>, UNCHANGED jobVars
  PROVE  LifeStep
BY SameJobs, SameStage DEF LifeStep

\* create_job gives one asset its first job of one kind.
LEMMA InsertedFor ==
  ASSUME IInv, NEW type, NEW a \in Assets, Insert(type, a)
  PROVE  /\ type = "download" => /\ HasDownload(a)'
                                 /\ \A b \in Assets : HasTranscribe(b)' <=> HasTranscribe(b)
         /\ type = "transcribe" => /\ HasTranscribe(a)'
                                   /\ \A b \in Assets : HasDownload(b)' <=> HasDownload(b)
         /\ \A b \in Assets : b # a => /\ HasDownload(b)' <=> HasDownload(b)
                                       /\ HasTranscribe(b)' <=> HasTranscribe(b)
<1>1. PICK n \in Jobs :
        /\ kind[n] = "none"
        /\ kind' = [kind EXCEPT ![n] = type]
        /\ target' = [target EXCEPT ![n] = a]
  BY InsertRow
<1>2. /\ kind'[n] = type /\ target'[n] = a
      /\ \A k \in Jobs : k # n => kind'[k] = kind[k] /\ target'[k] = target[k]
  BY <1>1 DEF IInv, TypeOK
<1> QED
  BY <1>1, <1>2 DEF HasDownload, HasTranscribe

\* The tick's insert takes its asset from discovered to download_pending.
LEMMA TickInsertLife ==
  ASSUME IInv, NEW c \in Campaigns, NEW a \in Assets, TickInsert(c, a)
  PROVE  LifeStep
<1>1. ~HasDownload(a) /\ asset[a] = "pending" /\ Insert("download", a)
  BY PipelineAssumption DEF TickInsert, IInv, PickIsFree
<1>2. UNCHANGED <<asset, text>>
  BY DEF TickInsert, assetVars
<1>3. Stage(a) = "discovered" /\ Stage(a)' = "download_pending"
  BY <1>1, <1>2, InsertedFor DEF Stage
<1>4. \A b \in Assets : b # a => Stage(b)' = Stage(b)
  BY <1>1, <1>2, InsertedFor, SameStage
<1> QED
  BY <1>3, <1>4, OneMoves DEF LifeStep, Life!Next, Life!EnqueueDownload

\* The last commit of a download's handler takes it to transcribe_pending.
LEMMA QueueTranscribeLife ==
  ASSUME IInv, NEW j \in Jobs, QueueTranscribe(j)
  PROVE  LifeStep
<1>1. kind[j] = "download" /\ handler[j] = "check" /\ asset[target[j]] = "downloaded"
  BY DEF QueueTranscribe, IInv, Rows, Downloads
<1>2. PICK a \in Assets : a = target[j] /\ \A k \in Jobs : target[k] = a => k = j
  BY <1>1, OnlyJob
<1>3. Insert("transcribe", a) /\ UNCHANGED <<asset, text>>
  BY <1>2 DEF QueueTranscribe, assetVars
<1>4. ~HasTranscribe(a) /\ asset[a] = "downloaded"
  BY <1>1, <1>2 DEF HasTranscribe
<1>5. Stage(a) = "downloaded" /\ Stage(a)' = "transcribe_pending"
  BY <1>3, <1>4, InsertedFor DEF Stage
<1>6. \A b \in Assets : b # a => Stage(b)' = Stage(b)
  BY <1>3, InsertedFor, SameStage
<1> QED
  BY <1>5, <1>6, OneMoves DEF LifeStep, Life!Next, Life!EnqueueTranscribe

\* A download's report, and its rejection, find no transcription of the asset.
LEMMA DownloadLife ==
  ASSUME IInv, NEW j \in Jobs, DownloadCompleted(j) \/ RejectMedia(j)
  PROVE  LifeStep
<1>1. kind[j] = "download" /\ handler[j] # "over"
  BY DEF DownloadCompleted, RejectMedia, Called, IInv, Rows
<1>2. PICK a \in Assets : a = target[j] /\ \A k \in Jobs : target[k] = a => k = j
  BY <1>1, OnlyJob
<1>3. HasDownload(a) /\ ~HasTranscribe(a)
  BY <1>1, <1>2 DEF HasDownload, HasTranscribe
<1>4. UNCHANGED jobVars /\ text' = text
  BY DEF DownloadCompleted, RejectMedia, Called
<1>5. \A b \in Assets : b # a => asset'[b] = asset[b]
  BY <1>2 DEF DownloadCompleted, RejectMedia, IInv, TypeOK
<1>6. \A b \in Assets : b # a => Stage(b)' = Stage(b)
  BY <1>4, <1>5, SameJobs, SameStage
<1>7. HasDownload(a)' /\ ~HasTranscribe(a)'
  BY <1>3, <1>4, SameJobs
<1>8. CASE DownloadCompleted(j)
  <2>1. asset[a] = "pending" /\ asset'[a] = "downloaded"
    BY <1>1, <1>2, <1>8 DEF DownloadCompleted, Called, IInv, Downloads, TypeOK
  <2>2. Stage(a) = "download_pending" /\ Stage(a)' = "downloaded"
    BY <1>3, <1>7, <2>1 DEF Stage
  <2> QED
    BY <1>6, <2>2, OneMoves DEF LifeStep, Life!Next, Life!Download
<1>9. CASE RejectMedia(j)
  <2>1. asset[a] = "downloaded" /\ asset'[a] = "failed"
    BY <1>1, <1>2, <1>9 DEF RejectMedia, IInv, Downloads, TypeOK
  <2>2. Stage(a) = "downloaded" /\ Stage(a)' = "failed"
    BY <1>3, <2>1 DEF Stage
  <2> QED
    BY <1>6, <2>2, OneMoves DEF LifeStep, Life!Next, Life!Reject
<1> QED
  BY <1>8, <1>9

\* A transcription's report, and the text after it.
LEMMA TranscribeLife ==
  ASSUME IInv, TextIsLate, NEW j \in Jobs, TranscribeCompleted(j) \/ StoreTranscription(j)
  PROVE  LifeStep
<1>1. kind[j] = "transcribe" /\ UNCHANGED jobVars
  BY DEF TranscribeCompleted, StoreTranscription, Called, IInv, Rows
<1>2. PICK a \in Assets : a = target[j]
  BY <1>1 DEF IInv, Rows, TypeOK
<1>3. /\ asset \in [Assets -> AssetStatus] /\ text \in [Assets -> BOOLEAN]
  BY DEF IInv, TypeOK
<1>4. \A b \in Assets : b # a => asset'[b] = asset[b] /\ text'[b] = text[b]
  BY <1>2, <1>3 DEF TranscribeCompleted, StoreTranscription
<1>5. \A b \in Assets : b # a => Stage(b)' = Stage(b)
  BY <1>1, <1>4, SameJobs, SameStage
<1>6. CASE TranscribeCompleted(j)
  <2>1. asset[a] = "downloaded" /\ HasTranscribe(a)
    BY <1>1, <1>2, <1>6 DEF TranscribeCompleted, Called, IInv, Transcriptions, HasTranscribe
  <2>2. asset'[a] = "transcribed" /\ text' = text
    BY <1>2, <1>3, <1>6 DEF TranscribeCompleted
  <2>3. ~text[a]
    BY <2>1 DEF TextIsLate
  <2>4. Stage(a) = "transcribe_pending" /\ Stage(a)' = "transcribed"
    BY <2>1, <2>2, <2>3 DEF Stage
  <2> QED
    BY <1>5, <2>4, OneMoves DEF LifeStep, Life!Next, Life!Transcribe
<1>7. CASE StoreTranscription(j)
  <2>1. asset[a] = "transcribed" /\ asset' = asset
    BY <1>1, <1>2, <1>7 DEF StoreTranscription, IInv, Transcribed
  <2>2. text'[a]
    BY <1>2, <1>3, <1>7 DEF StoreTranscription
  <2>3. Stage(a)' = "stored"
    BY <2>1, <2>2 DEF Stage
  <2>4. CASE text[a]
    <3>1. Stage(a) = "stored"
      BY <2>1, <2>4 DEF Stage
    <3> QED
      BY <1>5, <2>3, <3>1 DEF LifeStep
  <2>5. CASE ~text[a]
    <3>1. Stage(a) = "transcribed"
      BY <2>1, <2>5 DEF Stage
    <3> QED
      BY <1>5, <2>3, <3>1, OneMoves DEF LifeStep, Life!Next, Life!Store
  <2> QED
    BY <2>4, <2>5
<1> QED
  BY <1>6, <1>7

\* Every step of the pipeline moves one asset one stage on, or none.
LEMMA StepIsLifeStep ==
  ASSUME IInv, TextIsLate, [Next]_vars
  PROVE  LifeStep
<1>1. CASE TickDies \/ TimeOut \/ UNCHANGED vars
  <2>1. UNCHANGED <<asset, text>> /\ UNCHANGED jobVars
    BY <1>1 DEF TickDies, TimeOut, vars, assetVars
  <2> QED
    BY <2>1, LifeStutters
<1>2. ASSUME TickStep,
             ~\E c \in Campaigns, a \in Assets : TickInsert(c, a)
      PROVE  LifeStep
  <2>1. UNCHANGED <<asset, text>> /\ UNCHANGED jobVars
    BY <1>2 DEF TickStep, TickBegin, TickSkip, TickPick, TickRefused, assetVars
  <2> QED
    BY <2>1, LifeStutters
<1>3. ASSUME NEW j \in Jobs,
             Work(j) \/ Cancel(j) \/ StoreResult(j) \/ JobFailed(j) \/ HandlerLost(j)
      PROVE  LifeStep
  <2>1. UNCHANGED <<asset, text>> /\ UNCHANGED jobVars
    BY <1>3 DEF Work, Claim, Start, Finish, Cancel, StoreResult, JobFailed, HandlerLost,
       assetVars
  <2> QED
    BY <2>1, LifeStutters
<1> QED
  BY <1>1, <1>2, <1>3, TickInsertLife, DownloadLife, QueueTranscribeLife, TranscribeLife
     DEF Next, Handle

\* Sweeps, workers and handlers, however they interleave, die and are repeated, take
\* every asset from stage to stage in order, and through none twice.
THEOREM PipelineImplementsAssetLife == Spec => ImplementsAssetLife
<1>1. Init => Life!Init /\ TextIsLate
  BY PipelineAssumption DEF Init, Life!Init, Stage, HasDownload, TextIsLate
<1>2. IInv /\ TextIsLate /\ [Next]_vars => [Life!Next]_([a \in Assets |-> Stage(a)])
  BY StepIsLifeStep DEF LifeStep
<1> QED
  BY <1>1, <1>2, NextTextIsLate, PipelineInvariant, PTL
     DEF Spec, ImplementsAssetLife, Life!Spec
-----------------------------------------------------------------------------
\* An asset that has come as far as a stage has a completed job of that stage.
Caused ==
  /\ \A a \in Assets : asset[a] # "pending" =>
       \E j \in Jobs : kind[j] = "download" /\ target[j] = a /\ status[j] = "completed"
  /\ \A a \in Assets : asset[a] = "transcribed" =>
       \E j \in Jobs : kind[j] = "transcribe" /\ target[j] = a /\ status[j] = "completed"

\* What the page of a campaign has shown of the assets is what they were, or still are.
Behind ==
  view.page = "detail" /\ view.todo = <<"jobs">> =>
    \A a \in AssetsOf(view.campaign) :
      /\ view.shown[a] \in AssetStatus
      /\ view.shown[a] # "pending" => asset[a] # "pending"
      /\ view.shown[a] \in {"transcribed", "failed"} => asset[a] = view.shown[a]

\* The queries a request has still to do, and the parts of its answer.
Queries ==
  /\ view.todo \in {<<"assets", "jobs">>, <<"jobs">>, <<>>}
  /\ view.todo # <<>> => view.page = "detail"
  /\ DOMAIN view = {"page", "campaign", "todo", "shown", "active", "stages"}

ViewInv == IInv /\ Caused /\ Queries /\ Behind /\ DetailIsCausal /\ PipelineIsCausal

-----------------------------------------------------------------------------
\* No stage is there before the pipeline has begun.
LEMMA InitCaused == Init => Caused
BY DEF Init, Caused

\* The rows of the table keep what they are, and what is completed stays so, unless a
\* job is inserted.
LEMMA RowsKept ==
  ASSUME IInv, [Next]_vars, NEW j \in Jobs, status[j] = "completed"
  PROVE  status'[j] = "completed" /\ kind'[j] = kind[j] /\ target'[j] = target[j]
<1> DEFINE Kept == status'[j] = "completed" /\ kind'[j] = kind[j] /\ target'[j] = target[j]
<1>1. CASE TimeOut \/ \E i \in Jobs : Work(i) \/ Cancel(i)
  BY <1>1, QueueSteps DEF IInv, TypeOK, jobVars
<1>2. ASSUME NEW type, NEW a \in Assets, Insert(type, a) PROVE Kept
  <2>1. PICK n \in Jobs :
          /\ kind[n] = "none"
          /\ status' = [status EXCEPT ![n] = "pending"]
          /\ kind' = [kind EXCEPT ![n] = type]
          /\ target' = [target EXCEPT ![n] = a]
    BY <1>2, InsertRow
  <2>2. n # j
    BY <2>1 DEF IInv, Rows
  <2> QED
    BY <2>1, <2>2 DEF IInv, TypeOK, Queue!TypeOK
<1>3. ASSUME NEW i \in Jobs, QueueTranscribe(i) PROVE Kept
  <2>1. target[i] \in Assets
    BY <1>3 DEF QueueTranscribe, IInv, Rows, TypeOK
  <2> QED
    BY <1>2, <1>3, <2>1 DEF QueueTranscribe
<1>4. ASSUME NEW i \in Jobs,
             \/ DownloadCompleted(i) \/ StoreResult(i) \/ RejectMedia(i)
             \/ TranscribeCompleted(i) \/ StoreTranscription(i) \/ JobFailed(i)
             \/ HandlerLost(i)
      PROVE  Kept
  BY <1>4 DEF DownloadCompleted, StoreResult, RejectMedia, TranscribeCompleted,
     StoreTranscription, JobFailed, HandlerLost, Called, Queue!Dispatch, queueVars, jobVars
<1>5. CASE TickStep \/ TickDies
  BY <1>2, <1>5 DEF TickStep, TickBegin, TickSkip, TickPick, TickInsert, TickRefused,
     TickDies, queueVars, jobVars
<1>6. CASE UNCHANGED vars
  BY <1>6 DEF vars, queueVars, jobVars
<1> QED
  BY <1>1, <1>3, <1>4, <1>5, <1>6 DEF Next, Handle

\* An asset that moves is moved by the handler of a completed job.
LEMMA MovedByJob ==
  ASSUME IInv, [Next]_vars, NEW a \in Assets, asset'[a] # asset[a]
  PROVE  \/ /\ asset'[a] = "transcribed"
            /\ \E j \in Jobs : kind[j] = "transcribe" /\ target[j] = a /\ status[j] = "completed"
         \/ /\ asset'[a] # "transcribed"
            /\ \E j \in Jobs : kind[j] = "download" /\ target[j] = a /\ status[j] = "completed"
<1> DEFINE Moved ==
      \/ /\ asset'[a] = "transcribed"
         /\ \E j \in Jobs : kind[j] = "transcribe" /\ target[j] = a /\ status[j] = "completed"
      \/ /\ asset'[a] # "transcribed"
         /\ \E j \in Jobs : kind[j] = "download" /\ target[j] = a /\ status[j] = "completed"
<1>1. ASSUME NEW j \in Jobs, DownloadCompleted(j) \/ RejectMedia(j) PROVE Moved
  <2>1. kind[j] = "download" /\ status[j] = "completed"
    BY <1>1 DEF DownloadCompleted, RejectMedia, Called, Queue!Dispatch, IInv, Rows
  <2>2. asset' = [asset EXCEPT ![target[j]] = "downloaded"]
        \/ asset' = [asset EXCEPT ![target[j]] = "failed"]
    BY <1>1 DEF DownloadCompleted, RejectMedia
  <2>3. target[j] = a /\ asset'[a] \in {"downloaded", "failed"}
    BY <2>2 DEF IInv, TypeOK
  <2> QED
    BY <2>1, <2>3
<1>2. ASSUME NEW j \in Jobs, TranscribeCompleted(j) PROVE Moved
  <2>1. kind[j] = "transcribe" /\ status[j] = "completed"
    BY <1>2 DEF TranscribeCompleted, Called, Queue!Dispatch
  <2>2. target[j] = a /\ asset'[a] = "transcribed"
    BY <1>2 DEF TranscribeCompleted, IInv, TypeOK
  <2> QED
    BY <2>1, <2>2
<1>3. ASSUME NEW j \in Jobs,
             \/ Work(j) \/ Cancel(j) \/ StoreResult(j) \/ QueueTranscribe(j)
             \/ StoreTranscription(j) \/ JobFailed(j) \/ HandlerLost(j)
      PROVE  asset' = asset
  BY <1>3 DEF Work, Claim, Start, Finish, Cancel, StoreResult, QueueTranscribe,
     StoreTranscription, JobFailed, HandlerLost, assetVars
<1>4. CASE TickStep \/ TickDies \/ TimeOut \/ UNCHANGED vars
  BY <1>4 DEF TickStep, TickBegin, TickSkip, TickPick, TickInsert, TickRefused, TickDies,
     TimeOut, vars, assetVars
<1> QED
  BY <1>1, <1>2, <1>3, <1>4 DEF Next, Handle

\* Every step of the pipeline keeps the jobs an asset owes its status to.
LEMMA NextCaused ==
  ASSUME IInv, Caused, [Next]_vars
  PROVE  Caused'
<1>1. ASSUME NEW a \in Assets, asset'[a] # "pending"
      PROVE  \E j \in Jobs : kind[j] = "download" /\ target[j] = a /\ status[j] = "completed"
  <2>1. CASE asset[a] # "pending"
    BY <2>1 DEF Caused
  <2>2. CASE asset[a] = "pending"
    BY <1>1, <2>2, MovedByJob, StepMovesForward
  <2> QED
    BY <2>1, <2>2
<1>2. ASSUME NEW a \in Assets, asset'[a] = "transcribed"
      PROVE  \E j \in Jobs : kind[j] = "transcribe" /\ target[j] = a /\ status[j] = "completed"
  BY <1>2, MovedByJob DEF Caused
<1>3. ASSUME NEW j \in Jobs, status[j] = "completed"
      PROVE  status'[j] = "completed" /\ kind'[j] = kind[j] /\ target'[j] = target[j]
  BY <1>3, RowsKept
<1>4. \A a \in Assets : asset'[a] # "pending" =>
        \E j \in Jobs : kind'[j] = "download" /\ target'[j] = a /\ status'[j] = "completed"
  BY <1>1, <1>3
<1>5. \A a \in Assets : asset'[a] = "transcribed" =>
        \E j \in Jobs : kind'[j] = "transcribe" /\ target'[j] = a /\ status'[j] = "completed"
  BY <1>2, <1>3
<1> QED
  BY <1>4, <1>5 DEF Caused

-----------------------------------------------------------------------------
\* The row LatestJob finds: of each kind an asset has at most one.
LEMMA LatestIsOnly ==
  ASSUME IInv, NEW j \in Jobs, kind[j] # "none"
  PROVE  LatestJob(target[j], kind[j]) = status[j]
<1> DEFINE js == {i \in Jobs : kind[i] = kind[j] /\ target[i] = target[j]}
<1>1. js = {j}
  BY DEF IInv, OneJobOfEachKind
<1>2. (CHOOSE i \in js : \A k \in js : k <= i) = j
  <2>1. j \in js /\ \A k \in js : k <= j
    BY <1>1, PipelineAssumption
  <2> QED
    BY <1>1, <2>1
<1>3. LatestJob(target[j], kind[j]) =
        IF js = {} THEN "none" ELSE status[CHOOSE i \in js : \A k \in js : k <= i]
  BY DEF LatestJob
<1> QED
  BY <1>1, <1>2, <1>3

\* Where LatestJob finds something, a job of the kind is there.
LEMMA LatestIsThere ==
  ASSUME NEW a, NEW k, LatestJob(a, k) # "none"
  PROVE  \E j \in Jobs : kind[j] = k /\ target[j] = a
BY DEF LatestJob

\* In any state of the pipeline the stages of an asset are in order.
LEMMA StagesInOrder ==
  ASSUME IInv, Caused, NEW a \in Assets
  PROVE  /\ asset[a] # "pending" => LatestJob(a, "download") = "completed"
         /\ LatestJob(a, "transcribe") # "none" => LatestJob(a, "download") = "completed"
         /\ asset[a] = "transcribed" => LatestJob(a, "transcribe") = "completed"
<1>1. ASSUME asset[a] # "pending" PROVE LatestJob(a, "download") = "completed"
  <2>1. PICK j \in Jobs : kind[j] = "download" /\ target[j] = a /\ status[j] = "completed"
    BY <1>1 DEF Caused
  <2>2. LatestJob(target[j], kind[j]) = status[j]
    BY <2>1, LatestIsOnly
  <2> QED
    BY <2>1, <2>2
<1>2. ASSUME LatestJob(a, "transcribe") # "none" PROVE asset[a] # "pending"
  <2>1. PICK j \in Jobs : kind[j] = "transcribe" /\ target[j] = a
    BY <1>2, LatestIsThere
  <2> QED
    BY <2>1 DEF IInv, TranscribesMediaOnly
<1>3. ASSUME asset[a] = "transcribed" PROVE LatestJob(a, "transcribe") = "completed"
  <2>1. PICK j \in Jobs : kind[j] = "transcribe" /\ target[j] = a /\ status[j] = "completed"
    BY <1>3 DEF Caused
  <2>2. LatestJob(target[j], kind[j]) = status[j]
    BY <2>1, LatestIsOnly
  <2> QED
    BY <2>1, <2>2
<1> QED
  BY <1>1, <1>2, <1>3

\* An active job is that of an asset which has not come as far as the job brings it.
LEMMA ActiveIsAhead ==
  ASSUME IInv, Caused, NEW c, NEW w \in ActiveJobs(c)
  PROVE  /\ w.target \in AssetsOf(c)
         /\ w.kind = "download" => asset[w.target] = "pending"
         /\ w.kind = "transcribe" => asset[w.target] = "downloaded"
<1>1. PICK j \in Jobs : /\ status[j] \in {"pending", "assigned", "processing"}
                        /\ CampaignOf[target[j]] = c
                        /\ w = [kind |-> kind[j], target |-> target[j]]
  BY DEF ActiveJobs
<1>2. w.kind = kind[j] /\ w.target = target[j]
  BY <1>1
<1>3. kind[j] # "none" /\ target[j] \in Assets
  BY <1>1 DEF IInv, Rows, TypeOK
<1>4. w.target \in AssetsOf(c)
  BY <1>1, <1>2, <1>3 DEF AssetsOf
<1>5. ASSUME kind[j] = "download" PROVE asset[target[j]] = "pending"
  <2>1. SUFFICES ASSUME asset[target[j]] # "pending" PROVE FALSE
    OBVIOUS
  <2>2. PICK i \in Jobs : kind[i] = "download" /\ target[i] = target[j] /\ status[i] = "completed"
    BY <1>3, <2>1 DEF Caused
  <2>3. i = j
    BY <1>5, <2>2 DEF IInv, OneJobOfEachKind
  <2> QED
    BY <1>1, <2>2, <2>3
<1>6. ASSUME kind[j] = "transcribe" PROVE asset[target[j]] = "downloaded"
  BY <1>1, <1>6 DEF IInv, Rows, TypeOK, Transcriptions
<1> QED
  BY <1>2, <1>4, <1>5, <1>6

-----------------------------------------------------------------------------
\* Nothing is shown at the start.
LEMMA InitView == ViewInit => ViewInv
<1> SUFFICES ASSUME ViewInit PROVE ViewInv
  OBVIOUS
<1>1. IInv /\ Caused
  BY InitIInv, InitCaused DEF ViewInit
<1>2. /\ view.page = "none" /\ view.todo = <<>>
      /\ DOMAIN view = {"page", "campaign", "todo", "shown", "active", "stages"}
  BY DEF ViewInit, Blank
<1> QED
  BY <1>1, <1>2 DEF ViewInv, Queries, Behind, DetailIsCausal, PipelineIsCausal

\* A step of the pipeline moves the assets on under the page.
LEMMA PipelineStep ==
  ASSUME ViewInv, Next, UNCHANGED view
  PROVE  ViewInv'
<1>1. IInv' /\ Caused'
  BY NextIInv, NextCaused DEF ViewInv
<1>2. Queries' /\ DetailIsCausal' /\ PipelineIsCausal'
  BY DEF ViewInv, Queries, DetailIsCausal, PipelineIsCausal
<1>3. Behind'
  <2> SUFFICES ASSUME view.page = "detail", view.todo = <<"jobs">>,
                      NEW a \in AssetsOf(view.campaign)
               PROVE  /\ view.shown[a] \in AssetStatus
                      /\ view.shown[a] # "pending" => asset'[a] # "pending"
                      /\ view.shown[a] \in {"transcribed", "failed"} =>
                           asset'[a] = view.shown[a]
    BY DEF Behind, AssetsOf
  <2>1. a \in Assets
    BY DEF AssetsOf
  <2>2. asset'[a] # asset[a] =>
          \/ asset[a] = "pending" /\ asset'[a] = "downloaded"
          \/ asset[a] = "downloaded" /\ asset'[a] \in {"transcribed", "failed"}
    BY <2>1, StepMovesForward DEF ViewInv
  <2> QED
    BY <2>1, <2>2 DEF ViewInv, Behind
<1> QED
  BY <1>1, <1>2, <1>3 DEF ViewInv

\* A query leaves the pipeline alone.
LEMMA LookLeaves ==
  ASSUME ViewInv, UNCHANGED vars
  PROVE  IInv' /\ Caused'
BY NextIInv, NextCaused DEF ViewInv

\* The first query of a page shows the assets as they are.
LEMMA AssetsQuery ==
  ASSUME ViewInv, DetailAssets
  PROVE  ViewInv'
<1>1. IInv' /\ Caused'
  BY LookLeaves DEF DetailAssets
<1>2. view.todo = <<"assets", "jobs">> /\ view.page = "detail"
  <2>1. view.todo # <<>> /\ Head(view.todo) = "assets"
    BY DEF DetailAssets, Reads
  <2> QED
    BY <2>1 DEF ViewInv, Queries
<1>3. Tail(view.todo) = <<"jobs">>
  BY <1>2
<1>4. /\ view'.page = "detail" /\ view'.todo = <<"jobs">>
      /\ view'.campaign = view.campaign
      /\ view'.shown = [a \in AssetsOf(view.campaign) |-> asset[a]]
      /\ DOMAIN view' = {"page", "campaign", "todo", "shown", "active", "stages"}
  BY <1>2, <1>3 DEF DetailAssets, ViewInv, Queries
<1>5. asset' = asset
  BY DEF DetailAssets, vars, assetVars
<1>6. Queries' /\ DetailIsCausal' /\ PipelineIsCausal'
  BY <1>4 DEF Queries, DetailIsCausal, PipelineIsCausal
<1>7. Behind'
  BY <1>4, <1>5 DEF ViewInv, IInv, TypeOK, Behind, AssetsOf
<1> QED
  BY <1>1, <1>6, <1>7 DEF ViewInv

\* The second one finds no job that the assets shown are ahead of.
LEMMA JobsQuery ==
  ASSUME ViewInv, DetailJobs
  PROVE  ViewInv'
<1>1. IInv' /\ Caused'
  BY LookLeaves DEF DetailJobs
<1>2. view.todo = <<"jobs">> /\ view.page = "detail"
  <2>1. view.todo # <<>> /\ Head(view.todo) = "jobs"
    BY DEF DetailJobs, Reads
  <2> QED
    BY <2>1 DEF ViewInv, Queries
<1>3. Tail(view.todo) = <<>>
  BY <1>2
<1>4. /\ view'.page = "detail" /\ view'.todo = <<>> /\ view'.shown = view.shown
      /\ view'.active = ActiveJobs(view.campaign)
      /\ DOMAIN view' = {"page", "campaign", "todo", "shown", "active", "stages"}
  BY <1>2, <1>3 DEF DetailJobs, ViewInv, Queries
<1>5. ASSUME NEW w \in ActiveJobs(view.campaign)
      PROVE  /\ w.kind = "download" => view.shown[w.target] = "pending"
             /\ w.kind = "transcribe" => view.shown[w.target] \in {"pending", "downloaded"}
  <2>1. /\ w.target \in AssetsOf(view.campaign)
        /\ w.kind = "download" => asset[w.target] = "pending"
        /\ w.kind = "transcribe" => asset[w.target] = "downloaded"
    BY ActiveIsAhead DEF ViewInv
  <2>2. /\ view.shown[w.target] # "pending" => asset[w.target] # "pending"
        /\ view.shown[w.target] \in {"transcribed", "failed"} =>
             asset[w.target] = view.shown[w.target]
    BY <1>2, <2>1 DEF ViewInv, Behind
  <2>3. view.shown[w.target] \in AssetStatus
    BY <1>2, <2>1 DEF ViewInv, Behind
  <2> QED
    BY <2>1, <2>2, <2>3 DEF AssetStatus
<1>6. DetailIsCausal'
  BY <1>4, <1>5 DEF DetailIsCausal
<1>7. Queries' /\ Behind' /\ PipelineIsCausal'
  BY <1>4 DEF Queries, Behind, PipelineIsCausal
<1> QED
  BY <1>1, <1>6, <1>7 DEF ViewInv

\* The pipeline tab shows a state of the pipeline.
LEMMA PipelineQuery ==
  ASSUME ViewInv, NEW c \in Campaigns, PipelineView(c)
  PROVE  ViewInv'
<1> DEFINE listed == {a \in AssetsOf(c) : \E k \in Stages : LatestJob(a, k) # "none"}
<1>1. IInv' /\ Caused'
  BY LookLeaves DEF PipelineView
<1>2. /\ view'.page = "pipeline" /\ view'.todo = <<>>
      /\ view'.shown = [a \in listed |-> asset[a]]
      /\ view'.stages = [a \in listed |-> StagesOf(a)]
      /\ DOMAIN view' = {"page", "campaign", "todo", "shown", "active", "stages"}
  BY DEF PipelineView, Blank
<1>3. ASSUME NEW a \in DOMAIN view'.shown
      PROVE  /\ view'.shown[a] # "pending" => view'.stages[a]["download"] = "completed"
             /\ view'.stages[a]["transcribe"] # "none" =>
                  view'.stages[a]["download"] = "completed"
             /\ view'.shown[a] = "transcribed" => view'.stages[a]["transcribe"] = "completed"
  <2>1. a \in listed /\ a \in Assets
    BY <1>2, <1>3 DEF AssetsOf
  <2>2. view'.shown[a] = asset[a] /\ view'.stages[a] = StagesOf(a)
    BY <1>2, <2>1
  <2>3. /\ StagesOf(a)["download"] = LatestJob(a, "download")
        /\ StagesOf(a)["transcribe"] = LatestJob(a, "transcribe")
    BY DEF StagesOf, Stages
  <2> QED
    BY <2>1, <2>2, <2>3, StagesInOrder DEF ViewInv
<1>4. PipelineIsCausal'
  BY <1>3 DEF PipelineIsCausal
<1>5. Queries' /\ Behind' /\ DetailIsCausal'
  BY <1>2 DEF Queries, Behind, DetailIsCausal
<1> QED
  BY <1>1, <1>4, <1>5 DEF ViewInv

\* A page is opened, or left.
LEMMA OpenOrLeave ==
  ASSUME ViewInv, Leave \/ \E c \in Campaigns : DetailOpen(c)
  PROVE  ViewInv'
<1>1. IInv' /\ Caused'
  BY LookLeaves DEF Leave, DetailOpen
<1>2. /\ view'.page \in {"none", "detail"}
      /\ view'.todo \in {<<>>, <<"assets", "jobs">>}
      /\ view'.todo = <<>> => view'.page = "none"
      /\ view'.todo # <<>> => view'.page = "detail"
      /\ DOMAIN view' = {"page", "campaign", "todo", "shown", "active", "stages"}
  <2>1. CASE Leave
    BY <2>1 DEF Leave, Blank
  <2>2. ASSUME NEW c \in Campaigns, DetailOpen(c)
        PROVE  /\ view'.page = "detail" /\ view'.todo = DetailQueries
               /\ DOMAIN view' = {"page", "campaign", "todo", "shown", "active", "stages"}
    <3>1. DOMAIN view = {"page", "campaign", "todo", "shown", "active", "stages"}
      BY DEF ViewInv, Queries
    <3> QED
      BY <2>2, <3>1 DEF DetailOpen
  <2> QED
    BY <2>1, <2>2 DEF DetailQueries
<1> QED
  BY <1>1, <1>2 DEF ViewInv, Queries, Behind, DetailIsCausal, PipelineIsCausal

\* The invariant is inductive.
LEMMA ViewStep == ViewInv /\ [ViewNext]_viewVars => ViewInv'
<1> SUFFICES ASSUME ViewInv, [ViewNext]_viewVars PROVE ViewInv'
  OBVIOUS
<1>1. CASE Look
  BY <1>1, AssetsQuery, JobsQuery, PipelineQuery, OpenOrLeave DEF Look
<1>2. CASE Next /\ UNCHANGED view
  BY <1>2, PipelineStep
<1>3. CASE UNCHANGED viewVars
  <2>1. UNCHANGED vars /\ UNCHANGED view
    BY <1>3 DEF viewVars
  <2>2. IInv' /\ Caused' /\ asset' = asset
    BY <2>1, LookLeaves DEF vars, assetVars
  <2> QED
    BY <2>1, <2>2 DEF ViewInv, Queries, Behind, DetailIsCausal, PipelineIsCausal, AssetsOf
<1> QED
  BY <1>1, <1>2, <1>3 DEF ViewNext

\* The strengthening holds throughout.
THEOREM ViewInvariant == ViewSpec => []ViewInv
BY InitView, ViewStep, PTL DEF ViewSpec

\* The page of a campaign never shows an effect without its cause, wherever its
\* queries fall between the commits of handlers, workers and the tick.
THEOREM DetailIsCausalHolds == ViewSpec => []DetailIsCausal
<1>1. ViewInv => DetailIsCausal
  BY DEF ViewInv
<1> QED
  BY <1>1, ViewInvariant, PTL

\* The pipeline tab never shows a stage without the one before it.
THEOREM PipelineIsCausalHolds == ViewSpec => []PipelineIsCausal
<1>1. ViewInv => PipelineIsCausal
  BY DEF ViewInv
<1> QED
  BY <1>1, ViewInvariant, PTL
=============================================================================
