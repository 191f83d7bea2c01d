----------------------------- MODULE ClipSelection -----------------------------
(***************************************************************************)
(* How the fragments of a transcribed asset get proposed: the agent of     *)
(* app/clip_selection/agent.py and its callers.  on_transcribe_completed   *)
(* runs it for the asset it has just finished; the drain                   *)
(* (process_pending_clip_selections, POST /clip_selection/process_all),    *)
(* scripts/clip_scanner.py and POST /assets/backfill_clip_selection run it *)
(* for the assets left over.                                               *)
(*                                                                         *)
(* extra_metadata is one column.  Whoever writes it writes back the whole  *)
(* of it, as it read it, with its own keys added; between the agent's read *)
(* and its write lies the call of the LLM.  Nothing keeps the callers       *)
(* apart: any two may have one asset in hand.                              *)
(***************************************************************************)
EXTENDS Integers, FiniteSets

CONSTANTS
  Assets,     \* assets, numbered in the order queries return them
  Backlog,    \* those transcribed before, whose agent never ran
  Ticks,      \* the cron that drains the backlog
  Others,     \* whoever else runs: a drain, clip_scanner.py or the backfill
  Limit,      \* assets per drain and per scan
  NoAsset     \* the caller has no asset in hand

Callers == Ticks \cup Others

ASSUME SelectionAssumption ==
  /\ Assets \subseteq Nat /\ IsFiniteSet(Assets) /\ Backlog \subseteq Assets
  /\ Assets \cap Callers = {}
  /\ Limit \in Nat \ {0}
  /\ NoAsset \notin Assets

VARIABLES
  asset,      \* column status of each asset
  meta,       \* column extra_metadata: the transcription, clip_selection_at
  cands,      \* whether the asset has candidates
  run,        \* each caller; the handler of an asset goes by the asset's name
  shared      \* history: the assets that two callers had loaded at the same time

vars == <<asset, meta, cands, run, shared>>

Blank == [text |-> FALSE, marker |-> FALSE]

\* A caller that does nothing: no assets to do, none in hand, no copies, none done.
Idle == [role |-> "none", todo |-> {}, at |-> NoAsset, copy |-> [a \in Assets |-> Blank],
         done |-> 0, step |-> "idle"]

Roles == {"drain", "scan", "backfill"}

Init ==
  /\ asset = [a \in Assets |-> IF a \in Backlog THEN "transcribed" ELSE "downloaded"]
  /\ meta = [a \in Assets |->
               IF a \in Backlog THEN [Blank EXCEPT !.text = TRUE] ELSE Blank]
  /\ cands = [a \in Assets |-> FALSE]
  /\ run = [p \in Callers \cup Assets |-> Idle]
  /\ shared = {}

Transcribed == {a \in Assets : asset[a] = "transcribed"}

\* The first n of the transcribed assets: LIMIT n.
FirstOf(n) == {a \in Transcribed : Cardinality({b \in Transcribed : b < a}) < n}

\* Any n of them, or all if there are fewer: LIMIT n without ORDER BY.
AnyOf(n) == {S \in SUBSET Transcribed :
               Cardinality(S) = n \/ (Cardinality(S) < n /\ S = Transcribed)}

\* Mutant: the drain takes no more rows than it may process.
Choices_Limit(role) ==
  CASE role = "drain" -> AnyOf(Limit)
    [] role = "scan" -> {FirstOf(Limit)}
    [] role = "backfill" -> {Transcribed}

\* What a caller's query may return.  The drain's takes twice its limit, because
\* some rows will be skipped.
Choices(role) ==
  CASE role = "drain" -> AnyOf(2 * Limit)
    [] role = "scan" -> {FirstOf(Limit)}
    [] role = "backfill" -> {Transcribed}

\* Mutant: the marker is not looked at.
AlreadyDone_NoMarker(role, a) == role = "backfill" /\ cands[a]

\* The drain skips marked assets, the backfill those with candidates, the scanner
\* none.
AlreadyDone(role, a) ==
  \/ role = "drain" /\ meta[a].marker
  \/ role = "backfill" /\ cands[a]

Set(p, r) == run' = [run EXCEPT ![p] = r]

\* The scanner goes through its assets in order, the others as their rows came.
Next1(p, a) ==
  /\ a \in run[p].todo
  /\ run[p].role = "scan" => \A b \in run[p].todo : a <= b

\* The assets that a caller in state r has loaded: the scanner and the backfill have
\* the rows of all those to do, the drain and the handler only the one in hand.
Loaded(r) ==
  (IF r.role \in {"scan", "backfill"} THEN r.todo ELSE {}) \cup ({r.at} \cap Assets)

-----------------------------------------------------------------------------
\* on_transcribe_completed, first commit, and the refresh that follows.
Transcribe(a) ==
  /\ asset[a] = "downloaded"
  /\ run[a].step = "idle"
  /\ asset' = [asset EXCEPT ![a] = "transcribed"]
  /\ Set(a, [Idle EXCEPT !.role = "handler", !.at = a, !.copy = [@ EXCEPT ![a] = meta[a]],
                         !.step = "store"])
  /\ UNCHANGED <<meta, cands>>

\* Second commit: the transcription; the agent goes on with the same object.
StoreText(a) ==
  /\ run[a].step = "store"
  /\ LET new == [run[a].copy[a] EXCEPT !.text = TRUE]
     IN /\ meta' = [meta EXCEPT ![a] = new]
        /\ Set(a, [run[a] EXCEPT !.copy = [@ EXCEPT ![a] = new], !.step = "ask"])
  /\ UNCHANGED <<asset, cands>>

\* A caller lists its assets.  The drain lists ids; the others load the rows, and
\* keep these objects to the end.
Begin(p, role) ==
  /\ run[p].step = "idle"
  /\ p \in Ticks => role = "drain"
  /\ \E chosen \in Choices(role) \ {{}} :
       Set(p, [Idle EXCEPT !.role = role, !.todo = chosen, !.step = "next",
                 !.copy = [a \in Assets |->
                    IF role # "drain" /\ a \in chosen THEN meta[a] ELSE Blank]])
  /\ UNCHANGED <<asset, meta, cands>>

\* The drain ends early once it has processed its limit.
Full(p) == run[p].role = "drain" /\ run[p].done >= Limit

Skip(p, a) ==
  /\ run[p].step = "next" /\ ~Full(p)
  /\ Next1(p, a)
  /\ AlreadyDone(run[p].role, a)
  /\ Set(p, [run[p] EXCEPT !.todo = @ \ {a}, !.copy = [@ EXCEPT ![a] = Blank]])
  /\ UNCHANGED <<asset, meta, cands>>

\* agent.run: the drain reads the asset now, the others have it loaded.
Take(p, a) ==
  /\ run[p].step = "next" /\ ~Full(p)
  /\ Next1(p, a)
  /\ ~AlreadyDone(run[p].role, a)
  /\ Set(p, [run[p] EXCEPT !.todo = @ \ {a}, !.at = a, !.step = "ask",
               !.copy = IF run[p].role = "drain" THEN [@ EXCEPT ![a] = meta[a]] ELSE @])
  /\ UNCHANGED <<asset, meta, cands>>

\* What is left of a caller once it is done with the asset in hand.
Onwards(p) ==
  IF p \in Assets THEN Idle
  ELSE [run[p] EXCEPT !.at = NoAsset, !.copy = [@ EXCEPT ![run[p].at] = Blank], !.step = "next",
          !.done = IF run[p].role = "drain" THEN @ + 1 ELSE @]

\* The LLM fails, or its answer cannot be parsed: no marker is set.
AgentFails(p) ==
  /\ run[p].step = "ask"
  /\ Set(p, Onwards(p))
  /\ UNCHANGED <<asset, meta, cands>>

\* The valid proposals, if there are any, are committed in one transaction.
Persist(p) ==
  /\ run[p].step = "ask"
  /\ \E some \in BOOLEAN : cands' = [cands EXCEPT ![run[p].at] = @ \/ some]
  /\ Set(p, [run[p] EXCEPT !.step = "mark"])
  /\ UNCHANGED <<asset, meta>>

\* Mutant: extra_metadata is replaced by the agent's own keys.
Mark_Replaces(p) ==
  /\ run[p].step = "mark"
  /\ meta' = [meta EXCEPT ![run[p].at] = [Blank EXCEPT !.marker = TRUE]]
  /\ Set(p, Onwards(p))
  /\ UNCHANGED <<asset, cands>>

\* clip_selection_at is added to extra_metadata as the caller read it.
Mark(p) ==
  /\ run[p].step = "mark"
  /\ meta' = [meta EXCEPT ![run[p].at] = [run[p].copy[run[p].at] EXCEPT !.marker = TRUE]]
  /\ Set(p, Onwards(p))
  /\ UNCHANGED <<asset, cands>>

End(p) ==
  /\ run[p].step = "next"
  /\ run[p].todo = {} \/ Full(p)
  /\ Set(p, Idle)
  /\ UNCHANGED <<asset, meta, cands>>

\* The process dies.
Die(p) ==
  /\ run[p].step # "idle"
  /\ Set(p, Idle)
  /\ UNCHANGED <<asset, meta, cands>>

Progress(p) ==
  \/ Persist(p) \/ Mark(p) \/ End(p) \/ AgentFails(p)
  \/ \E a \in Assets : Skip(p, a) \/ Take(p, a)

Step ==
  \/ \E a \in Assets : Transcribe(a) \/ StoreText(a) \/ Persist(a) \/ Mark(a) \/ AgentFails(a)
  \/ \E p \in Callers : Progress(p) \/ \E role \in Roles : Begin(p, role)
  \/ \E p \in Callers \cup Assets : Die(p)

Remember ==
  shared' = shared \cup
    {a \in Assets : \E p, q \in Callers \cup Assets :
       p # q /\ a \in Loaded(run'[p]) \cap Loaded(run'[q])}

Next == Step /\ Remember

Spec == Init /\ [][Next]_vars

\* The cron leaves the asset in hand, or those to do, without marking them.
Fruitless(d) == AgentFails(d) \/ (Die(d) /\ ~End(d))

\* The cron keeps draining, whatever other callers do in between, and from some
\* time on the LLM does not fail it and it does not die.
FairSpec ==
  /\ Spec
  /\ \A d \in Ticks : WF_vars(Begin(d, "drain") /\ Remember) /\ WF_vars(Progress(d) /\ Remember)
  /\ <>[][\A d \in Ticks : ~Fruitless(d)]_vars

-----------------------------------------------------------------------------
Meta == [text : BOOLEAN, marker : BOOLEAN]

TypeOK ==
  /\ asset \in [Assets -> {"downloaded", "transcribed"}]
  /\ meta \in [Assets -> Meta]
  /\ cands \in [Assets -> BOOLEAN]
  /\ run \in [Callers \cup Assets ->
       [role : Roles \cup {"none", "handler"}, todo : SUBSET Assets,
        at : Assets \cup {NoAsset}, copy : [Assets -> Meta], done : 0..Limit,
        step : {"idle", "next", "store", "ask", "mark"}]]
  /\ shared \subseteq Assets

\* "the predicate here keeps the call idempotent": candidates are only added to
\* an asset that is not marked, by the backfill to one that has none; the scanner
\* adds more every time.  A run that died before its marker is repeated.  The
\* predicate keeps nothing for an asset that two callers had loaded at once.
SelectedOnce ==
  [][\A p \in Callers \cup Assets :
       run[p].step = "ask" /\ run'[p].step = "mark" /\ run[p].at \notin shared =>
         CASE run[p].role = "scan" -> TRUE
           [] run[p].role = "backfill" -> ~cands[run[p].at]
           [] OTHER -> ~meta[run[p].at].marker]_vars

\* What a commit has put into extra_metadata stays there: the transcription, "so
\* OpenClaw can read it", and the marker.  Only of an asset that two callers had
\* loaded at once can either be lost: the later commit writes back its old copy.
MetadataIsKept ==
  [][\A a \in Assets \ shared :
       /\ meta[a].text => meta'[a].text
       /\ meta[a].marker => meta'[a].marker]_vars

\* The assets that are transcribed are marked in the end, and stay so, whatever dies
\* on the way and whatever a stale write unmarks.
BacklogIsDrained == \A a \in Assets : <>[](asset[a] = "transcribed" => meta[a].marker)

\* So it is as long as the rows the drain's query takes are all there are.  Beyond
\* that it may leave out the same asset every time.
EveryAssetIsSelected == [](Cardinality(Transcribed) <= 2 * Limit) => BacklogIsDrained
=============================================================================
