---------------------------- MODULE CandidateProofs ----------------------------
(***************************************************************************)
(* Proofs about approvals and rejections, for any number of candidates,    *)
(* overlapping requests and render jobs.                                   *)
(***************************************************************************)
EXTENDS CandidateFlow, FiniteSetTheorems, TLAPS

-----------------------------------------------------------------------------
\* What a step does to the queue, which no property here looks into: a render job
\* is inserted by InsertRender only, and every other step leaves the rows that
\* exist, and those that do not, what they are.
LEMMA QueueSteps ==
  ASSUME Queue!TypeOK, Work \/ (\E j \in Jobs : RenderCompleted(j))
  PROVE  /\ Queue!TypeOK'
         /\ \A j \in Jobs : status'[j] = "none" <=> status[j] = "none"
         /\ UNCHANGED <<target, cand, req>>
<1> USE DEF Queue!TypeOK, Queue!JobStatus, Queue!Active
<1>1. CASE Work /\ Queue!TimeOut
  BY <1>1 DEF Work, Queue!TimeOut, Queue!Recovered
<1>2. ASSUME NEW j \in Jobs, NEW w \in Workers, Work, Queue!Claim(w, j)
      PROVE  /\ Queue!TypeOK'
             /\ \A k \in Jobs : status'[k] = "none" <=> status[k] = "none"
             /\ UNCHANGED <<target, cand, req>>
  BY <1>2 DEF Work, Queue!Claim
<1>3. ASSUME NEW j \in Jobs, Work,
             \/ Queue!Start(j) \/ Queue!Complete(j) \/ Queue!Retry(j)
             \/ Queue!Exhaust(j) \/ Queue!Cancel(j)
      PROVE  /\ Queue!TypeOK'
             /\ \A k \in Jobs : status'[k] = "none" <=> status[k] = "none"
             /\ UNCHANGED <<target, cand, req>>
  BY <1>3 DEF Work, Queue!Start, Queue!Complete, Queue!Retry, Queue!Exhaust,
              Queue!Cancel, Queue!EnsureTransition
<1>4. ASSUME NEW j \in Jobs, RenderCompleted(j)
      PROVE  /\ Queue!TypeOK'
             /\ \A k \in Jobs : status'[k] = "none" <=> status[k] = "none"
             /\ UNCHANGED <<target, cand, req>>
  BY <1>4 DEF RenderCompleted, Queue!Dispatch
<1> QED
  BY <1>1, <1>2, <1>3, <1>4 DEF Work

\* The steps that begin a request.
LEMMA BeginSteps ==
  ASSUME TypeOK, NEW r \in Requests, NEW c \in Candidates,
         \/ ApproveAgain(r, c) \/ ApproveRead(r, c)
         \/ RejectRaises(r, c) \/ RejectRead(r, c)
  PROVE  \E step \in {"idempotent", "mark", "refuse", "raised", "reject"} :
           Begin(r, c, step)
BY DEF ApproveAgain, ApproveRead, RejectRaises, RejectRead

\* A job row that does not exist is nobody's render job.
Unborn == \A j \in Jobs : status[j] = "none" => target[j] = NoCandidate

\* A request that has begun has a candidate.
Begun == \A r \in Requests : req[r].step # "new" => req[r].cand \in Candidates

Base == TypeOK /\ Unborn /\ Begun

\* No candidate and no job exists at first.
LEMMA InitBase == Init => Base
BY DEF Init, Base, TypeOK, Unborn, Begun, Queue!Init, Queue!TypeOK, CandidateStatus

\* Every action preserves it.
LEMMA NextBase == Base /\ [Next]_vars => Base'
<1> SUFFICES ASSUME Base, [Next]_vars PROVE Base'
  OBVIOUS
<1>0. disturbed' \subseteq Candidates
  BY DEF Base, TypeOK, Next, vars
<1> USE DEF Base, TypeOK, Unborn, Begun
<1>1. ASSUME NEW r \in Requests, NEW c \in Candidates, NEW step \in Steps \cup Answers,
             Begin(r, c, step)
      PROVE  Base'
  BY <1>0, <1>1 DEF Begin, queueVars, Queue!TypeOK
<1>2. ASSUME NEW r \in Requests,
             RefuseCommit(r) \/ ApproveCommit(r) \/ RejectCommit(r)
      PROVE  Base'
  <2>1. req[r].cand \in Candidates /\ req[r].step # "new"
    BY <1>2 DEF RefuseCommit, ApproveCommit, RejectCommit
  <2>2. \E step \in Steps \cup Answers : req' = [req EXCEPT ![r].step = step]
    BY <1>2 DEF RefuseCommit, ApproveCommit, RejectCommit, To, Steps, Answers
  <2>3. cand' \in [Candidates -> CandidateStatus]
    BY <1>2, <2>1 DEF RefuseCommit, ApproveCommit, RejectCommit, Write, CandidateStatus
  <2>4. UNCHANGED <<queueVars, target>>
    BY <1>2 DEF RefuseCommit, ApproveCommit, RejectCommit
  <2> QED
    BY <1>0, <2>1, <2>2, <2>3, <2>4 DEF queueVars, Queue!TypeOK
<1>3. ASSUME NEW r \in Requests, InsertRender(r) PROVE Base'
  <2>1. req[r].cand \in Candidates /\ req[r].step # "new"
    BY <1>3 DEF InsertRender
  <2> QED
    BY <1>0, <1>3, <2>1 DEF InsertRender, To, Queue!Create, Queue!TypeOK, Queue!JobStatus, Steps
<1>4. ASSUME NEW r \in Requests,
             RecordRender(r) \/ ApproveRevert(r) \/ RevertRaises(r) \/ Die(r)
      PROVE  Base'
  <2>1. req[r].cand \in Candidates /\ req[r].step # "new"
    BY <1>4 DEF RecordRender, ApproveRevert, RevertRaises, Die, InProgress, Steps
  <2> QED
    BY <1>0, <1>4, <2>1 DEF RecordRender, ApproveRevert, RevertRaises, Die, To, queueVars,
       Queue!TypeOK, CandidateStatus, Steps, Answers
<1>5. ASSUME NEW c \in Candidates, Patch(c) PROVE Base'
  BY <1>0, <1>5, CandidateAssumption DEF Patch, queueVars, Queue!TypeOK
<1>6. CASE Work \/ \E j \in Jobs : RenderCompleted(j)
  BY <1>0, <1>6, QueueSteps
<1>7. CASE UNCHANGED vars
  BY <1>0, <1>7 DEF vars, queueVars, Queue!TypeOK
<1> QED
  BY <1>1, <1>2, <1>3, <1>4, <1>5, <1>6, <1>7, BeginSteps DEF Next, Step, Steps, Answers

\* Whatever requests overlap and die, the rows hold what their columns may hold.
THEOREM CandidateTypeOK == Spec => []TypeOK
<1>1. Base => TypeOK
  BY DEF Base
<1> QED
  BY InitBase, NextBase, <1>1, PTL DEF Spec

-----------------------------------------------------------------------------
\* A render job stays with its candidate: the row is only given one when it is
\* created.
LEMMA RendersStay ==
  ASSUME Base, [Next]_vars, NEW c \in Candidates
  PROVE  RendersOf(c) \subseteq RendersOf(c)'
<1> USE DEF Base, TypeOK, RendersOf
<1>1. ASSUME NEW r \in Requests, InsertRender(r)
      PROVE  RendersOf(c) \subseteq RendersOf(c)'
  BY <1>1, CandidateAssumption DEF InsertRender, Queue!Create, Unborn
<1>2. ASSUME target' = target PROVE RendersOf(c) \subseteq RendersOf(c)'
  BY <1>2
<1>3. CASE Work \/ \E j \in Jobs : RenderCompleted(j)
  BY <1>3, <1>2, QueueSteps
<1> QED
  BY <1>1, <1>2, <1>3, BeginSteps DEF Next, Step, Begin, RefuseCommit, ApproveCommit,
     RejectCommit, RecordRender, ApproveRevert, RevertRaises, Die, Patch, vars

\* An approval leaves its render job behind, or the request is still to post it.
LEMMA NextApproved ==
  ASSUME "approved" \notin PatchStatuses, Base, ApprovedIsRendered, [Next]_vars
  PROVE  ApprovedIsRendered'
<1> SUFFICES ASSUME NEW c \in Candidates, cand'[c] = "approved", RendersOf(c)' = {}
             PROVE  \E r \in Requests : req'[r].cand = c /\ req'[r].step \in {"insert", "dead", "raised"}
  BY DEF ApprovedIsRendered
<1>0. RendersOf(c) = {}
  BY RendersStay
<1> USE DEF Base, TypeOK
\* The approval that stands behind the status, before the step.
<1>1. ASSUME cand[c] = "approved"
      PROVE  \E r \in Requests : req[r].cand = c /\ req[r].step \in {"insert", "dead", "raised"}
  BY <1>0, <1>1 DEF ApprovedIsRendered
<1>2. ASSUME NEW r \in Requests, NEW d \in Candidates, NEW step \in Steps \cup Answers,
             Begin(r, d, step)
      PROVE  \E q \in Requests : req'[q].cand = c /\ req'[q].step \in {"insert", "dead", "raised"}
  BY <1>1, <1>2 DEF Begin
<1>3. ASSUME NEW r \in Requests, ApproveCommit(r)
      PROVE  \E q \in Requests : req'[q].cand = c /\ req'[q].step \in {"insert", "dead", "raised"}
  <2>1. CASE req[r].cand = c
    BY <1>3, <2>1 DEF ApproveCommit, To
  <2>2. CASE req[r].cand # c
    <3>1. cand[c] = "approved"
      BY <1>3, <2>2 DEF ApproveCommit, Write, Begun
    <3> QED
      BY <1>1, <1>3, <3>1 DEF ApproveCommit, To
  <2> QED
    BY <2>1, <2>2
<1>4. ASSUME NEW r \in Requests, RefuseCommit(r) \/ RejectCommit(r)
      PROVE  \E q \in Requests : req'[q].cand = c /\ req'[q].step \in {"insert", "dead", "raised"}
  <2>1. cand[c] = "approved"
    BY <1>4 DEF RefuseCommit, RejectCommit, Write, Begun
  <2> QED
    BY <1>1, <1>4, <2>1 DEF RefuseCommit, RejectCommit, To
<1>5. ASSUME NEW r \in Requests, InsertRender(r)
      PROVE  \E q \in Requests : req'[q].cand = c /\ req'[q].step \in {"insert", "dead", "raised"}
  <2>1. req[r].cand # c
    BY <1>5 DEF InsertRender, RendersOf
  <2> QED
    BY <1>1, <1>5, <2>1 DEF InsertRender, To
<1>6. ASSUME NEW r \in Requests, RecordRender(r) \/ RevertRaises(r) \/ Die(r)
      PROVE  \E q \in Requests : req'[q].cand = c /\ req'[q].step \in {"insert", "dead", "raised"}
  BY <1>1, <1>6 DEF RecordRender, RevertRaises, Die, To, InProgress, Steps
<1>7. ASSUME NEW r \in Requests, ApproveRevert(r)
      PROVE  \E q \in Requests : req'[q].cand = c /\ req'[q].step \in {"insert", "dead", "raised"}
  <2>1. req[r].cand # c /\ cand[c] = "approved"
    BY <1>7 DEF ApproveRevert, Begun
  <2> QED
    BY <1>1, <1>7, <2>1 DEF ApproveRevert, To
<1>8. ASSUME NEW d \in Candidates, Patch(d)
      PROVE  \E q \in Requests : req'[q].cand = c /\ req'[q].step \in {"insert", "dead", "raised"}
  BY <1>1, <1>8 DEF Patch
<1>9. CASE Work \/ \E j \in Jobs : RenderCompleted(j)
  BY <1>1, <1>9, QueueSteps
<1>10. CASE UNCHANGED vars
  BY <1>1, <1>10 DEF vars
<1> QED
  BY <1>2, <1>3, <1>4, <1>5, <1>6, <1>7, <1>8, <1>9, <1>10, BeginSteps
     DEF Next, Step, Steps, Answers

\* However approvals, rejections, deaths and failing reverts overlap, an approved
\* candidate has its render job, or an approval that has not got to it, died before it
\* or told its caller by an exception; PATCH alone could approve one without.
THEOREM ApprovedIsRenderedHolds ==
  ASSUME "approved" \notin PatchStatuses
  PROVE  Spec => []ApprovedIsRendered
<1>1. Init => ApprovedIsRendered
  BY DEF Init, ApprovedIsRendered
<1>2. Base /\ ApprovedIsRendered /\ [Next]_vars => ApprovedIsRendered'
  BY NextApproved
<1> QED
  BY <1>1, <1>2, InitBase, NextBase, PTL DEF Spec

-----------------------------------------------------------------------------
\* Why an approval repeated finds the render job: of a candidate that is not
\* disturbed, one request at a time is in progress; the one that is about to post the
\* render job, or to decide, finds none, and a render job keeps the status approved.
Alone ==
  \A c \in Candidates \ disturbed :
    /\ \A q, r \in On(c) : q = r
    /\ \A r \in On(c) :
         /\ req[r].step \in {"mark", "insert"} => RendersOf(c) = {}
         /\ req[r].step = "insert" => cand[c] = "approved"
         /\ req[r].step = "mark" /\ req[r].saw = "approved" => cand[c] = "approved"
    /\ RendersOf(c) # {} => cand[c] = "approved"

\* What is not disturbed after a step.
LEMMA Undisturbed ==
  ASSUME Next, NEW c \in Candidates \ disturbed'
  PROVE  /\ c \notin disturbed
         /\ \A q, r \in On(c)' : q = r
         /\ cand[c] = "approved" => cand'[c] = "approved"
BY DEF Next, Step

\* A step that inserts no render job and begins no approval of c.
LEMMA QuietStep ==
  ASSUME Base, Alone, Next, NEW c \in Candidates \ disturbed',
         RendersOf(c)' = RendersOf(c),
         \A r \in On(c)' : (r \in On(c) /\ req'[r] = req[r]) \/ req'[r].step = "record"
  PROVE  /\ \A r \in On(c)' :
              /\ req'[r].step \in {"mark", "insert"} => RendersOf(c)' = {}
              /\ req'[r].step = "insert" => cand'[c] = "approved"
              /\ req'[r].step = "mark" /\ req'[r].saw = "approved" => cand'[c] = "approved"
         /\ RendersOf(c)' # {} => cand'[c] = "approved"
BY Undisturbed DEF Alone

\* Every step leaves it so.
LEMMA NextAlone ==
  ASSUME Base, Alone, ReapproveIsIdempotent, [Next]_vars
  PROVE  Alone' /\ ReapproveIsIdempotent'
<1>1. CASE UNCHANGED vars
  BY <1>1 DEF vars, Alone, ReapproveIsIdempotent, On, InProgress, RendersOf
<1> SUFFICES ASSUME Next, NEW c \in Candidates \ disturbed'
    PROVE  /\ \A r \in On(c)' :
                /\ req'[r].step \in {"mark", "insert"} => RendersOf(c)' = {}
                /\ req'[r].step = "insert" => cand'[c] = "approved"
                /\ req'[r].step = "mark" /\ req'[r].saw = "approved" => cand'[c] = "approved"
           /\ RendersOf(c)' # {} => cand'[c] = "approved"
           /\ \A j, k \in RendersOf(c)' : j = k
  BY <1>1, Undisturbed DEF Alone, ReapproveIsIdempotent
<1> DEFINE Goal == /\ \A r \in On(c)' :
                        /\ req'[r].step \in {"mark", "insert"} => RendersOf(c)' = {}
                        /\ req'[r].step = "insert" => cand'[c] = "approved"
                        /\ req'[r].step = "mark" /\ req'[r].saw = "approved"
                             => cand'[c] = "approved"
                   /\ RendersOf(c)' # {} => cand'[c] = "approved"
                   /\ \A j, k \in RendersOf(c)' : j = k
<1>0. /\ c \in Candidates /\ c \notin disturbed
      /\ cand[c] = "approved" => cand'[c] = "approved"
      /\ \A j, k \in RendersOf(c) : j = k
  BY Undisturbed DEF ReapproveIsIdempotent
<1> USE DEF Base, TypeOK
\* Steps that insert no render job, and after which no request on c stands before one
\* that did not before.
<1>2. ASSUME target' = target,
             \A r \in On(c)' : r \in On(c) /\ req'[r] = req[r]
      PROVE  Goal
  <2>1. RendersOf(c)' = RendersOf(c)
    BY <1>2 DEF RendersOf
  <2> QED
    BY <1>0, <1>2, <2>1, QuietStep
<1>3. ASSUME NEW r \in Requests, NEW d \in Candidates,
             \/ ApproveAgain(r, d) \/ RejectRaises(r, d) \/ RejectRead(r, d)
             \/ ApproveRead(r, d)
      PROVE  Goal
  <2>1. /\ target' = target /\ cand' = cand
        /\ req'[r].cand = d /\ req'[r].saw = cand[d]
        /\ \A q \in Requests \ {r} : req'[q] = req[q]
    BY <1>3, BeginSteps DEF Begin
  <2>2. RendersOf(c)' = RendersOf(c)
    BY <2>1 DEF RendersOf
  <2>3. CASE d # c
    <3>1. \A q \in On(c)' : q \in On(c) /\ req'[q] = req[q]
      BY <2>1, <2>3 DEF On, InProgress
    <3> QED
      BY <1>2, <2>1, <3>1
  <2>4. CASE d = c
    <3>1. \A q \in On(c)' \ {r} : q \in On(c) /\ req'[q] = req[q]
      BY <2>1 DEF On, InProgress
    <3>2. req'[r].step = "mark" => RendersOf(c) = {}
      <4>1. req'[r].step = "mark" => ApproveRead(r, c)
        BY <1>3, <2>4 DEF ApproveAgain, RejectRaises, RejectRead, Begin
      <4> QED
        BY <1>0, <4>1 DEF ApproveRead, HasRender, Alone
    <3>3. req'[r].step # "insert"
      BY <1>3 DEF ApproveAgain, ApproveRead, RejectRaises, RejectRead, Begin
    <3> QED
      BY <1>0, <2>1, <2>2, <2>4, <3>1, <3>2, <3>3 DEF Alone
  <2> QED
    BY <2>3, <2>4
<1>4. ASSUME NEW r \in Requests, ApproveCommit(r) PROVE Goal
  <2>1. /\ target' = target /\ req[r].step = "mark"
        /\ req'[r] = [req[r] EXCEPT !.step = "insert"]
        /\ \A q \in Requests \ {r} : req'[q] = req[q]
    BY <1>4 DEF ApproveCommit, To
  <2>2. RendersOf(c)' = RendersOf(c)
    BY <2>1 DEF RendersOf
  <2>3. CASE req[r].cand # c
    <3>1. \A q \in On(c)' : q \in On(c) /\ req'[q] = req[q]
      BY <2>1, <2>3 DEF On, InProgress
    <3> QED
      BY <1>2, <2>1, <3>1
  <2>4. CASE req[r].cand = c
    <3>1. r \in On(c) /\ \A q \in On(c)' : q = r
      BY <1>0, <2>1, <2>4, Undisturbed DEF On, InProgress, Steps
    <3>2. RendersOf(c) = {}
      BY <1>0, <2>1, <3>1 DEF Alone
    <3>3. cand'[c] = "approved"
      BY <1>0, <1>4, <2>1, <2>4, <3>1 DEF ApproveCommit, Write, Alone
    <3> QED
      BY <2>1, <2>2, <3>1, <3>2, <3>3
  <2> QED
    BY <2>3, <2>4
<1>5. ASSUME NEW r \in Requests, InsertRender(r) PROVE Goal
  <2>1. PICK k \in Jobs : target' = [target EXCEPT ![k] = req[r].cand]
    BY <1>5 DEF InsertRender
  <2>2. /\ req[r].step = "insert" /\ cand' = cand
        /\ req'[r] = [req[r] EXCEPT !.step = "record"]
        /\ \A q \in Requests \ {r} : req'[q] = req[q]
    BY <1>5 DEF InsertRender, To
  <2>3. CASE req[r].cand # c
    <3>1. \A q \in On(c)' : q \in On(c) /\ req'[q] = req[q]
      BY <2>2, <2>3 DEF On, InProgress
    <3>2. RendersOf(c)' \subseteq RendersOf(c)
      BY <2>1, <2>3 DEF RendersOf
    <3> QED
      BY <1>0, <2>2, <3>1, <3>2 DEF Alone
  \* The one request on c had found no render job: this is the first.
  <2>4. CASE req[r].cand = c
    <3>1. r \in On(c) /\ \A q \in On(c)' : q = r
      BY <1>0, <2>2, <2>4, Undisturbed DEF On, InProgress, Steps
    <3>2. RendersOf(c) = {} /\ cand[c] = "approved"
      BY <1>0, <2>2, <3>1 DEF Alone
    <3>3. RendersOf(c)' \subseteq {k}
      BY <2>1, <3>2 DEF RendersOf
    <3> QED
      BY <2>2, <3>1, <3>2, <3>3
  <2> QED
    BY <2>3, <2>4
<1>6. ASSUME NEW r \in Requests,
             \/ RefuseCommit(r) \/ RecordRender(r) \/ ApproveRevert(r)
             \/ RevertRaises(r) \/ RejectCommit(r) \/ Die(r)
      PROVE  Goal
  <2>1. /\ target' = target
        /\ req'[r].step \in Answers
        /\ \A q \in Requests \ {r} : req'[q] = req[q]
    BY <1>6 DEF RefuseCommit, RecordRender, ApproveRevert, RevertRaises, RejectCommit, Die,
       To, Answers
  <2>2. \A q \in On(c)' : q \in On(c) /\ req'[q] = req[q]
    BY <2>1 DEF On, InProgress, Steps, Answers
  <2> QED
    BY <1>2, <2>1, <2>2
<1>7. CASE (\E d \in Candidates : Patch(d)) \/ Work \/ \E j \in Jobs : RenderCompleted(j)
  <2>1. target' = target /\ req' = req
    BY <1>7, QueueSteps DEF Patch
  <2> QED
    BY <1>2, <2>1 DEF On, InProgress
<1> QED
  BY <1>3, <1>4, <1>5, <1>6, <1>7 DEF Next, Step, Step

\* However often a candidate is approved again, and wherever requests die or raise, it
\* has one render job as long as no two requests overlap on it and its approval is
\* not taken back; what happens to other candidates, and to the queue, is free.
THEOREM ReapproveIsIdempotentHolds == Spec => []ReapproveIsIdempotent
<1>1. Init => Alone /\ ReapproveIsIdempotent
  <2> SUFFICES ASSUME Init, NEW c \in Candidates PROVE RendersOf(c) = {} /\ On(c) = {}
    BY DEF Alone, ReapproveIsIdempotent
  <2> QED
    BY CandidateAssumption DEF Init, RendersOf, On, InProgress, Steps
<1>2. Base /\ Alone /\ ReapproveIsIdempotent /\ [Next]_vars
        => Alone' /\ ReapproveIsIdempotent'
  BY NextAlone
<1> QED
  BY <1>1, <1>2, InitBase, NextBase, PTL DEF Spec
-----------------------------------------------------------------------------
\* The queue underneath.
QueueProofs == INSTANCE JobQueueProofs

\* Requests reach the queue by its Create, workers by its own actions.
LEMMA StepIsQueueStep == [Next]_vars => [Queue!Next]_(Queue!vars)
<1> SUFFICES ASSUME [Next]_vars PROVE Queue!Next \/ UNCHANGED queueVars
  BY DEF queueVars, Queue!vars
<1>1. ASSUME NEW r \in Requests, NEW c \in Candidates,
             \/ ApproveAgain(r, c) \/ ApproveRead(r, c)
             \/ RejectRaises(r, c) \/ RejectRead(r, c)
      PROVE  UNCHANGED queueVars
  BY <1>1 DEF ApproveAgain, ApproveRead, RejectRaises, RejectRead, Begin
<1>2. ASSUME NEW r \in Requests, InsertRender(r) PROVE Queue!Next
  BY <1>2 DEF InsertRender, Queue!Next
<1>3. ASSUME NEW r \in Requests,
             \/ RefuseCommit(r) \/ ApproveCommit(r) \/ RecordRender(r)
             \/ ApproveRevert(r) \/ RevertRaises(r) \/ RejectCommit(r) \/ Die(r)
      PROVE  UNCHANGED queueVars
  BY <1>3 DEF RefuseCommit, ApproveCommit, RecordRender, ApproveRevert, RevertRaises, RejectCommit, Die
<1>4. CASE Work \/ \E j \in Jobs : RenderCompleted(j)
  BY <1>4 DEF Work, RenderCompleted, Queue!Next
<1>5. CASE (\E c \in Candidates : Patch(c)) \/ UNCHANGED vars
  BY <1>5 DEF Patch, vars
<1> QED
  BY <1>1, <1>2, <1>3, <1>4, <1>5 DEF Next, Step

\* Approvals, rejections and PATCHes leave the queue under them a JobQueue.
THEOREM CandidatesRunTheQueue == Spec => Queue!Spec
<1>1. Init => Queue!Init
  BY DEF Init
<1> QED
  BY <1>1, StepIsQueueStep, PTL DEF Spec, Queue!Spec

\* Render jobs keep what the queue promises, whatever happens to their candidates: a
\* rejection neither cancels a render job nor takes it from its worker.
THEOREM CandidatesKeepTheQueue ==
  Spec => /\ []Queue!RetryBudget /\ []Queue!OwnerMatchesStatus
          /\ []Queue!FollowUpOnlyIfCompleted /\ Queue!TransitionsValid
<1>1. QueueProofs!QueueAssumption
  BY CandidateAssumption DEF QueueProofs!QueueAssumption
<1>2. QueueProofs!Spec =>
        /\ []QueueProofs!RetryBudget /\ []QueueProofs!OwnerMatchesStatus
        /\ []QueueProofs!FollowUpOnlyIfCompleted /\ QueueProofs!TransitionsValid
  BY <1>1, QueueProofs!QueuePromise
\* The two instances are the same formulas.
<1>3. Queue!Init <=> QueueProofs!Init
  BY DEF Queue!Init, QueueProofs!Init
<1>4. Queue!Next <=> QueueProofs!Next
  BY DEF Queue!Next, QueueProofs!Next,
         Queue!TimeOut, QueueProofs!TimeOut, Queue!Recovered, QueueProofs!Recovered,
         Queue!Create, QueueProofs!Create, Queue!Start, QueueProofs!Start,
         Queue!Complete, QueueProofs!Complete, Queue!Dispatch, QueueProofs!Dispatch,
         Queue!Retry, QueueProofs!Retry, Queue!Exhaust, QueueProofs!Exhaust,
         Queue!Cancel, QueueProofs!Cancel, Queue!Claim, QueueProofs!Claim,
         Queue!EnsureTransition, QueueProofs!EnsureTransition,
         Queue!ValidTransitions, QueueProofs!ValidTransitions, Queue!JobStatus,
         QueueProofs!JobStatus, Queue!Active, QueueProofs!Active
<1>5. [Queue!Next]_(Queue!vars) => [QueueProofs!Next]_(QueueProofs!vars)
  BY <1>4 DEF Queue!vars, QueueProofs!vars
<1>6. /\ Queue!RetryBudget <=> QueueProofs!RetryBudget
      /\ Queue!OwnerMatchesStatus <=> QueueProofs!OwnerMatchesStatus
      /\ Queue!FollowUpOnlyIfCompleted <=> QueueProofs!FollowUpOnlyIfCompleted
  BY DEF Queue!RetryBudget, QueueProofs!RetryBudget, Queue!OwnerMatchesStatus,
         QueueProofs!OwnerMatchesStatus, Queue!FollowUpOnlyIfCompleted,
         QueueProofs!FollowUpOnlyIfCompleted, Queue!Active, QueueProofs!Active
<1>7. [\A j \in Jobs : QueueProofs!LegalChange(status[j], status'[j])]_status =>
        [\A j \in Jobs : Queue!LegalChange(status[j], status'[j])]_status
  BY DEF Queue!LegalChange, QueueProofs!LegalChange, Queue!EnsureTransition,
         QueueProofs!EnsureTransition, Queue!ValidTransitions, QueueProofs!ValidTransitions,
         Queue!JobStatus, QueueProofs!JobStatus, Queue!Active, QueueProofs!Active
<1> QED
  BY <1>2, <1>3, <1>5, <1>6, <1>7, CandidatesRunTheQueue, PTL
     DEF Queue!Spec, QueueProofs!Spec, Queue!TransitionsValid, QueueProofs!TransitionsValid
=============================================================================
