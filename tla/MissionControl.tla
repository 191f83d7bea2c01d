---------------------------- MODULE MissionControl ----------------------------
(***************************************************************************)
(* What the dashboard of app/api/mission_control.py shows of the pipeline  *)
(* while the pipeline runs.  The page of a campaign is put together from   *)
(* queries that each see the database as it is when they run (READ         *)
(* COMMITTED), so the order in which they run decides what the page can    *)
(* say; the pipeline tab is one statement.  Nothing is written.            *)
(***************************************************************************)
EXTENDS AssetPipeline, Sequences

CONSTANT NoCampaign   \* no request under way

VARIABLE view         \* the answer being put together, or shown

viewVars == <<vars, view>>

\* What the dashboard asks for as the stages of an asset.
Stages == {"download", "transcribe"}

\* Mutant: the jobs are read before the assets.
DetailQueries_JobsFirst == <<"jobs", "assets">>

\* The queries of campaign_detail after the one for the campaign, in their order;
\* the one for the clips, which no property is about, is left out.
DetailQueries == <<"assets", "jobs">>

Blank ==
  [page |-> "none", campaign |-> NoCampaign, todo |-> <<>>,
   shown |-> <<>>, active |-> {}, stages |-> <<>>]

ViewInit == Init /\ view = Blank

AssetsOf(c) == {a \in Assets : CampaignOf[a] = c}

\* The job types of the active jobs whose payload names campaign c, each with the
\* asset it is about.
ActiveJobs(c) ==
  {[kind |-> kind[j], target |-> target[j]] :
     j \in {k \in Jobs : /\ status[k] \in {"pending", "assigned", "processing"}
                         /\ CampaignOf[target[k]] = c}}

-----------------------------------------------------------------------------
\* campaign_detail: the row of the campaign.
DetailOpen(c) ==
  /\ view = Blank
  /\ view' = [view EXCEPT !.page = "detail", !.campaign = c, !.todo = DetailQueries]
  /\ UNCHANGED vars

\* Its next query is the one for q.
Reads(q) == view.todo # <<>> /\ Head(view.todo) = q

\* Its assets, with their status.
DetailAssets ==
  /\ Reads("assets")
  /\ view' = [view EXCEPT !.todo = Tail(@),
                          !.shown = [a \in AssetsOf(view.campaign) |-> asset[a]]]
  /\ UNCHANGED vars

\* Its active jobs.
DetailJobs ==
  /\ Reads("jobs")
  /\ view' = [view EXCEPT !.todo = Tail(@), !.active = ActiveJobs(view.campaign)]
  /\ UNCHANGED vars

\* The latest job of each kind for asset a; "none" where there is no job.
LatestJob(a, k) ==
  LET js == {j \in Jobs : kind[j] = k /\ target[j] = a}
  IN IF js = {} THEN "none"
     ELSE status[CHOOSE j \in js : \A i \in js : i <= j]

\* Mutant: the tab asks for the open jobs only.
StagesOf_Open(a) ==
  [k \in Stages |-> IF LatestJob(a, k) \in {"pending", "assigned", "processing"}
                    THEN LatestJob(a, k) ELSE "none"]

StagesOf(a) == [k \in Stages |-> LatestJob(a, k)]

\* pipeline_view. The WHERE on the job type leaves out an asset that has no job.
PipelineView(c) ==
  /\ view = Blank
  /\ LET listed == {a \in AssetsOf(c) : \E k \in Stages : LatestJob(a, k) # "none"}
     IN view' = [view EXCEPT !.page = "pipeline", !.campaign = c,
                             !.shown = [a \in listed |-> asset[a]],
                             !.stages = [a \in listed |-> StagesOf(a)]]
  /\ UNCHANGED vars

\* The page is left.
Leave ==
  /\ view.page # "none" /\ view.todo = <<>>
  /\ view' = Blank
  /\ UNCHANGED vars

Look ==
  \/ \E c \in Campaigns : DetailOpen(c) \/ PipelineView(c)
  \/ DetailAssets \/ DetailJobs \/ Leave

\* The pipeline moves on while a page is put together. A finished page is left before
\* that: it changes no more, and changes nothing.
ViewNext ==
  \/ Look
  \/ Next /\ (view = Blank \/ view.todo # <<>>) /\ UNCHANGED view

ViewSpec == ViewInit /\ [][ViewNext]_viewVars

\* The pipeline is as fair as it is without the dashboard; nobody has to look.
FairViewSpec == ViewSpec /\ Fairness

-----------------------------------------------------------------------------
\* The page of a campaign does not show an effect without its cause: an asset it
\* shows as downloaded or failed has no download job among the active ones, and
\* one it shows as transcribed or failed no transcription. It rests on the order
\* of the queries: assets first (mission_control.py:338 and 371).
DetailIsCausal ==
  view.page = "detail" /\ view.todo = <<>> =>
    \A j \in view.active :
      /\ j.kind = "download" => view.shown[j.target] = "pending"
      /\ j.kind = "transcribe" => view.shown[j.target] \in {"pending", "downloaded"}

\* In the pipeline tab every stage has the one before it: an asset that left
\* pending shows a completed download, one with a transcription a completed
\* download, and a transcribed one both, whatever jobs failed, were cancelled or
\* lost their handler (mission_control.py:633-715).
PipelineIsCausal ==
  view.page = "pipeline" =>
    \A a \in DOMAIN view.shown :
      /\ view.shown[a] # "pending" => view.stages[a]["download"] = "completed"
      /\ view.stages[a]["transcribe"] # "none" => view.stages[a]["download"] = "completed"
      /\ view.shown[a] = "transcribed" => view.stages[a]["transcribe"] = "completed"
=============================================================================
