------------------------------- MODULE AssetLife -------------------------------
(***************************************************************************)
(* What downloads and transcriptions promise for each asset, when all that *)
(* runs side by side is left out: it goes from stage to stage (those of    *)
(* docs/ARCHITECTURE.md, section 4), takes them in order, and none twice.  *)
(* AssetPipeline, where a stage takes several commits of several           *)
(* processes on three tables, is shown to implement it.                    *)
(***************************************************************************)
CONSTANT Assets

VARIABLE stage

\* A download that cannot be opened makes its asset fail; "stored": the
\* transcription is in extra_metadata.
Stages == {"discovered", "download_pending", "downloaded", "failed",
           "transcribe_pending", "transcribed", "stored"}

Init == stage = [a \in Assets |-> "discovered"]

\* Asset a, and no other, goes from one stage to another.
Move(a, from, to) ==
  stage[a] = from /\ stage' = [stage EXCEPT ![a] = to]

EnqueueDownload(a) == Move(a, "discovered", "download_pending")
Download(a) == Move(a, "download_pending", "downloaded")
Reject(a) == Move(a, "downloaded", "failed")
EnqueueTranscribe(a) == Move(a, "downloaded", "transcribe_pending")
Transcribe(a) == Move(a, "transcribe_pending", "transcribed")
Store(a) == Move(a, "transcribed", "stored")

Next ==
  \E a \in Assets :
    \/ EnqueueDownload(a) \/ Download(a) \/ Reject(a)
    \/ EnqueueTranscribe(a) \/ Transcribe(a) \/ Store(a)

Spec == Init /\ [][Next]_stage
=============================================================================
