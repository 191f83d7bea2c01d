---------------------------- MODULE SelectionProofs ----------------------------
(***************************************************************************)
(* Proofs about the selection of clips, for any assets, callers and limit, *)
(* whatever overlaps.                                                      *)
(***************************************************************************)
EXTENDS ClipSelection, TLAPS

All == Callers \cup Assets

RunState ==
  [role : Roles \cup {"none", "handler"}, todo : SUBSET Assets, at : Assets \cup {NoAsset},
   copy : [Assets -> Meta], done : 0..Limit, step : {"idle", "next", "store", "ask", "mark"}]

\* What holds of caller p in state r, with the assets' statuses in col: it has an
\* asset in hand when it works on one, works on transcribed ones only, and a drain
\* stops at its limit.
Fit(p, r, col) ==
  /\ r.step \in {"store", "ask", "mark"} => r.at \in Assets
  /\ r.step \in {"idle", "next"} => r.at = NoAsset
  /\ r.step = "idle" => r.todo = {}
  /\ r.at \notin r.todo
  /\ \A b \in r.todo \cup ({r.at} \cap Assets) : col[b] = "transcribed"
  /\ r.role = "drain" /\ r.step \in {"ask", "mark"} => r.done < Limit
  /\ p \in Assets => r.at \in {p, NoAsset} /\ r.todo = {} /\ r.step # "next"
  /\ p \in Assets /\ r.step # "idle" => r.role = "handler"
  /\ p \in Callers /\ r.step # "idle" => r.role \in Roles

Base ==
  /\ TypeOK
  /\ \A p \in All : Fit(p, run[p], asset)
  /\ \A a \in Assets : asset[a] = "downloaded" => meta[a] = Blank

\* A caller in state r that has loaded asset a, whose metadata are m and which has
\* candidates if c: its copy is what the row says; and if it has asked the LLM, or
\* will, the asset was not selected before.
Current(a, r, m, c) ==
  a \in Loaded(r) =>
    /\ r.copy[a] = m
    /\ r.at = a /\ r.step \in {"store", "ask"} /\ r.role \notin {"scan", "backfill"} => ~m.marker
    /\ r.at = a /\ r.step = "ask" /\ r.role = "backfill" => ~c

\* Nobody else has asset a loaded.
Sole(a) ==
  \A p, q \in All : p # q => a \notin Loaded(run[p]) \/ a \notin Loaded(run[q])

\* An asset that no two callers had loaded at once has one holder at most, and its
\* copy is current.  Of the others nothing can be said but Base.
IInv ==
  /\ Base
  /\ \A a \in Assets \ shared :
       Sole(a) /\ \A p \in All : Current(a, run[p], meta[a], cands[a])

-----------------------------------------------------------------------------
\* What an idle caller is.
LEMMA IdleFits ==
  ASSUME NEW p \in All, NEW col
  PROVE  /\ Idle \in RunState /\ Fit(p, Idle, col) /\ Loaded(Idle) = {}
         /\ Idle.step = "idle" /\ Idle.role = "none" /\ Idle.todo = {} /\ Idle.at = NoAsset
         /\ Idle.copy = [a \in Assets |-> Blank] /\ Idle.done = 0
BY SelectionAssumption DEF Idle, RunState, Fit, Blank, Meta, Loaded, Roles

\* A step of caller p, in state r after it, keeps the invariant if it writes only
\* what p had loaded, and p's copies are current after it: whoever else has such an
\* asset loaded shares it with p.
LEMMA Advance ==
  ASSUME IInv, NEW p \in All, NEW r \in RunState, Set(p, r), Remember,
         Fit(p, r, asset'),
         asset' \in [Assets -> {"downloaded", "transcribed"}],
         meta' \in [Assets -> Meta], cands' \in [Assets -> BOOLEAN],
         \A a \in Assets : asset[a] = "transcribed" => asset'[a] = "transcribed",
         \A a \in Assets : asset'[a] = "downloaded" => meta'[a] = Blank,
         \A a \in Assets \ Loaded(run[p]) : meta'[a] = meta[a] /\ cands'[a] = cands[a],
         \A a \in Assets \ shared : Current(a, r, meta'[a], cands'[a])
  PROVE  IInv'
<1>1. /\ run' \in [All -> RunState] /\ run'[p] = r
      /\ \A q \in All : q # p => run'[q] = run[q]
  BY DEF Set, IInv, Base, TypeOK, RunState, All
<1>2. shared' \subseteq Assets /\ shared \subseteq shared'
  BY DEF Remember, IInv, Base, TypeOK
<1>3. TypeOK'
  BY <1>1, <1>2 DEF TypeOK, RunState, All
<1>4. ASSUME NEW q \in All PROVE Fit(q, run[q], asset)'
  <2>1. CASE q = p
    BY <1>1, <2>1
  <2>2. CASE q # p
    <3>1. Fit(q, run[q], asset) /\ run'[q] = run[q] /\ run[q].todo \subseteq Assets
      BY <1>1, <2>2 DEF IInv, Base, TypeOK, All
    <3> QED
      BY <3>1 DEF Fit
  <2> QED
    BY <2>1, <2>2
<1>5. Base'
  BY <1>3, <1>4 DEF Base
<1>6. ASSUME NEW a \in Assets, a \notin shared' PROVE Sole(a)'
  <2>1. a \notin {b \in Assets : \E s, q \in Callers \cup Assets :
                    s # q /\ b \in Loaded(run'[s]) \cap Loaded(run'[q])}
    BY <1>6 DEF Remember
  <2> QED
    BY <2>1 DEF Sole, All
<1>7. ASSUME NEW a \in Assets, a \notin shared', NEW q \in All
      PROVE  Current(a, run'[q], meta'[a], cands'[a])
  <2>1. a \notin shared
    BY <1>2, <1>7
  <2>2. CASE q = p
    BY <1>1, <2>1, <2>2
  <2>3. CASE q # p /\ a \in Loaded(run[q])
    <3>1. a \notin Loaded(run[p])
      BY <2>1, <2>3 DEF IInv, Sole
    <3>2. meta'[a] = meta[a] /\ cands'[a] = cands[a] /\ run'[q] = run[q]
      BY <1>1, <2>3, <3>1
    <3> QED
      BY <2>1, <3>2 DEF IInv
  <2>4. CASE q # p /\ a \notin Loaded(run[q])
    BY <1>1, <2>4 DEF Current
  <2> QED
    BY <2>2, <2>3, <2>4
<1> QED
  BY <1>5, <1>6, <1>7 DEF IInv

\* A step that leaves the caller idle and the rows alone.
LEMMA LeaveStep ==
  ASSUME IInv, NEW p \in All, Set(p, Idle), Remember, UNCHANGED <<asset, meta, cands>>
  PROVE  IInv'
<1>1. \A a \in Assets : Current(a, Idle, meta'[a], cands'[a])
  BY IdleFits DEF Current
<1> QED
  BY <1>1, IdleFits, Advance DEF IInv, Base, TypeOK

\* A handler takes its asset up; nobody has written the row before.
LEMMA TranscribeStep ==
  ASSUME IInv, NEW a \in Assets, Transcribe(a), Remember
  PROVE  IInv'
<1> DEFINE copy == [[b \in Assets |-> Blank] EXCEPT ![a] = meta[a]]
           r == [Idle EXCEPT !.role = "handler", !.at = a, !.copy = copy, !.step = "store"]
<1>1. copy \in [Assets -> Meta] /\ copy[a] = meta[a]
  BY DEF IInv, Base, TypeOK, Blank, Meta
<1>2. Set(a, r) /\ a \in All /\ a \notin Callers /\ a # NoAsset
  BY SelectionAssumption DEF Transcribe, Idle, All
<1> HIDE DEF copy
<1>3. /\ r \in RunState /\ r.role = "handler" /\ r.step = "store" /\ r.at = a
      /\ r.todo = {} /\ r.copy = copy
  BY <1>1, <1>2, IdleFits DEF RunState
<1> HIDE DEF r
<1>4. /\ asset[a] = "downloaded" /\ asset' = [asset EXCEPT ![a] = "transcribed"]
      /\ UNCHANGED <<meta, cands>>
  BY DEF Transcribe
<1>5. /\ asset' \in [Assets -> {"downloaded", "transcribed"}] /\ asset'[a] = "transcribed"
      /\ \A b \in Assets : asset[b] = "transcribed" => asset'[b] = "transcribed"
      /\ \A b \in Assets : asset'[b] = "downloaded" => asset[b] = "downloaded"
  BY <1>4 DEF IInv, Base, TypeOK
<1>6. Fit(a, r, asset')
  BY <1>2, <1>3, <1>5 DEF Fit
<1>7. meta[a] = Blank /\ ~meta[a].marker
  BY <1>4 DEF IInv, Base, Blank
<1>8. \A b \in Assets : Current(b, r, meta'[b], cands'[b])
  BY <1>1, <1>3, <1>4, <1>7 DEF Current, Loaded
<1> QED
  BY <1>2, <1>3, <1>4, <1>5, <1>6, <1>8, Advance DEF IInv, Base, TypeOK

\* The handler writes back its copy with the text.
LEMMA StoreTextStep ==
  ASSUME IInv, NEW a \in Assets, StoreText(a), Remember
  PROVE  IInv'
<1>1. /\ a \in All /\ run[a] \in RunState /\ run[a].step = "store" /\ run[a].at = a
      /\ run[a].role = "handler" /\ run[a].todo = {} /\ asset[a] = "transcribed"
      /\ run[a].copy \in [Assets -> Meta] /\ a \in Loaded(run[a])
  <2>1. a \in All /\ run[a] \in RunState /\ run[a].step = "store" /\ Fit(a, run[a], asset)
    BY DEF StoreText, IInv, Base, TypeOK, RunState, All
  <2>2. run[a].at = a
    BY <2>1, SelectionAssumption DEF Fit
  <2> QED
    BY <2>1, <2>2 DEF Fit, RunState, Loaded
<1> DEFINE new == [run[a].copy[a] EXCEPT !.text = TRUE]
           copy == [run[a].copy EXCEPT ![a] = new]
           r == [run[a] EXCEPT !.copy = copy, !.step = "ask"]
<1>2. meta' = [meta EXCEPT ![a] = new] /\ Set(a, r) /\ UNCHANGED <<asset, cands>>
  BY DEF StoreText
<1>3. new \in Meta /\ new.marker = run[a].copy[a].marker
  BY <1>1 DEF Meta
<1> HIDE DEF new
<1>4. copy \in [Assets -> Meta] /\ copy[a] = new
  BY <1>1, <1>3
<1> HIDE DEF copy
<1>5. /\ r \in RunState /\ r.step = "ask" /\ r.at = a /\ r.todo = {} /\ r.copy = copy
      /\ r.role = "handler"
  BY <1>1, <1>4 DEF RunState
<1> HIDE DEF r
<1>6. /\ meta' \in [Assets -> Meta] /\ meta'[a] = new
      /\ \A b \in Assets : b # a => meta'[b] = meta[b]
  BY <1>2, <1>3 DEF IInv, Base, TypeOK
<1>7. Fit(a, r, asset')
  BY <1>1, <1>2, <1>5, SelectionAssumption DEF Fit
<1>8. ASSUME a \notin shared PROVE ~new.marker
  BY <1>1, <1>3, <1>8 DEF IInv, Current
<1>9. \A b \in Assets \ shared : Current(b, r, meta'[b], cands'[b])
  BY <1>4, <1>5, <1>6, <1>8 DEF Current, Loaded
<1>10. /\ \A b \in Assets \ Loaded(run[a]) : meta'[b] = meta[b] /\ cands'[b] = cands[b]
       /\ \A b \in Assets : asset'[b] = "downloaded" => meta'[b] = Blank
       /\ \A b \in Assets : asset[b] = "transcribed" => asset'[b] = "transcribed"
       /\ asset' \in [Assets -> {"downloaded", "transcribed"}]
       /\ cands' \in [Assets -> BOOLEAN]
  BY <1>1, <1>2, <1>6 DEF IInv, Base, TypeOK
<1> QED
  BY <1>1, <1>2, <1>5, <1>6, <1>7, <1>9, <1>10, Advance

\* A caller lists transcribed assets, and has the rows as they are.
LEMMA BeginStep ==
  ASSUME IInv, NEW p \in Callers, NEW role \in Roles, Begin(p, role), Remember
  PROVE  IInv'
<1>1. PICK chosen \in Choices(role) \ {{}} :
        Set(p, [Idle EXCEPT !.role = role, !.todo = chosen, !.step = "next",
                  !.copy = [a \in Assets |->
                     IF role # "drain" /\ a \in chosen THEN meta[a] ELSE Blank]])
  BY DEF Begin
<1> DEFINE copy == [a \in Assets |-> IF role # "drain" /\ a \in chosen THEN meta[a] ELSE Blank]
           r == [Idle EXCEPT !.role = role, !.todo = chosen, !.step = "next", !.copy = copy]
<1>2. p \in All /\ p \notin Assets /\ Set(p, r) /\ UNCHANGED <<asset, meta, cands>>
  BY <1>1, SelectionAssumption DEF Begin, All
<1>3. chosen \subseteq Assets /\ \A a \in chosen : asset[a] = "transcribed"
  BY <1>1 DEF Choices, AnyOf, FirstOf, Transcribed, Roles
<1>4. copy \in [Assets -> Meta] /\ \A a \in chosen : role = "drain" \/ copy[a] = meta[a]
  BY <1>3 DEF IInv, Base, TypeOK, Blank, Meta
<1> HIDE DEF copy
<1>5. /\ r \in RunState /\ r.step = "next" /\ r.todo = chosen /\ r.copy = copy
      /\ r.role = role /\ r.at = NoAsset
  BY <1>2, <1>3, <1>4, IdleFits DEF RunState
<1> HIDE DEF r
<1>6. NoAsset \notin Assets /\ Loaded(r) \subseteq chosen /\ (role = "drain" => Loaded(r) = {})
  BY <1>5, SelectionAssumption DEF Loaded
<1>7. Fit(p, r, asset')
  BY <1>2, <1>3, <1>5, <1>6 DEF Fit
<1>8. \A a \in Assets : Current(a, r, meta'[a], cands'[a])
  BY <1>2, <1>4, <1>5, <1>6 DEF Current
<1> QED
  BY <1>2, <1>5, <1>7, <1>8, Advance DEF IInv, Base, TypeOK

\* A caller passes over an asset, or takes it up: a drain reads the row now, the
\* others have had it since the beginning.
LEMMA SkipTakeStep ==
  ASSUME IInv, NEW p \in Callers, NEW a \in Assets, Skip(p, a) \/ Take(p, a), Remember
  PROVE  IInv'
<1>1. /\ p \in All /\ run[p].step = "next" /\ ~Full(p) /\ a \in run[p].todo
      /\ UNCHANGED <<asset, meta, cands>> /\ run[p] \in RunState /\ p \notin Assets
      /\ Fit(p, run[p], asset) /\ run[p].at = NoAsset /\ run[p].role \in Roles
      /\ asset[a] = "transcribed" /\ NoAsset \notin Assets /\ a # NoAsset
  BY SelectionAssumption
  DEF Skip, Take, Next1, All, IInv, Base, TypeOK, RunState, Fit
<1> DEFINE todo == run[p].todo \ {a}
<1>2. todo \subseteq Assets /\ a \notin todo /\ \A b \in todo : b \in run[p].todo /\ b # a
  BY <1>1 DEF RunState
<1>3. \A b \in todo : asset'[b] = "transcribed"
  BY <1>1 DEF Fit
<1>4. CASE Skip(p, a)
  <2> DEFINE copy == [run[p].copy EXCEPT ![a] = Blank]
             r == [run[p] EXCEPT !.todo = todo, !.copy = copy]
  <2>1. Set(p, r)
    BY <1>4 DEF Skip
  <2>2. copy \in [Assets -> Meta] /\ \A b \in Assets : b # a => copy[b] = run[p].copy[b]
    BY <1>1 DEF RunState, Blank, Meta
  <2> HIDE DEF todo, copy
  <2>3. /\ r \in RunState /\ r.step = "next" /\ r.todo = todo /\ r.copy = copy
        /\ r.role = run[p].role /\ r.at = NoAsset
    BY <1>1, <1>2, <2>2 DEF RunState
  <2> HIDE DEF r
  <2>4. Fit(p, r, asset')
    BY <1>1, <1>2, <1>3, <2>3 DEF Fit
  <2>5. \A b \in Assets \ shared : Current(b, r, meta'[b], cands'[b])
    <3>1. ASSUME NEW b \in Assets \ shared, b \in Loaded(r) PROVE r.copy[b] = meta[b] /\ r.at # b
      <4>1. b \in todo /\ b # a /\ b \in Loaded(run[p])
        BY <1>1, <1>2, <2>3, <3>1 DEF Loaded
      <4>2. run[p].copy[b] = meta[b]
        BY <1>1, <3>1, <4>1 DEF IInv, Current
      <4> QED
        BY <1>1, <2>2, <2>3, <4>1, <4>2
    <3> QED
      BY <1>1, <3>1 DEF Current
  <2> QED
    BY <1>1, <2>1, <2>3, <2>4, <2>5, Advance DEF IInv, Base, TypeOK
<1>5. CASE Take(p, a)
  <2> DEFINE copy == IF run[p].role = "drain" THEN [run[p].copy EXCEPT ![a] = meta[a]]
                     ELSE run[p].copy
             r == [run[p] EXCEPT !.todo = todo, !.at = a, !.step = "ask", !.copy = copy]
  <2>1. Set(p, r) /\ ~AlreadyDone(run[p].role, a)
    BY <1>5 DEF Take
  <2>2. /\ copy \in [Assets -> Meta]
        /\ run[p].role = "drain" => copy[a] = meta[a]
        /\ run[p].role # "drain" => copy = run[p].copy
    BY <1>1 DEF RunState, IInv, Base, TypeOK
  <2> HIDE DEF todo, copy
  <2>3. /\ r \in RunState /\ r.step = "ask" /\ r.at = a /\ r.todo = todo /\ r.copy = copy
        /\ r.done = run[p].done /\ r.role = run[p].role
    BY <1>1, <1>2, <2>2 DEF RunState
  <2> HIDE DEF r
  <2>4. Fit(p, r, asset')
    BY <1>1, <1>2, <1>3, <2>3, SelectionAssumption DEF Fit, Full, RunState
  <2>5. \A b \in Assets \ shared : Current(b, r, meta'[b], cands'[b])
    <3>1. ASSUME NEW b \in Assets \ shared, b \in Loaded(r) PROVE r.copy[b] = meta[b]
      <4>1. CASE run[p].role = "drain"
        BY <2>2, <2>3, <3>1, <4>1 DEF Loaded
      <4>2. CASE run[p].role # "drain"
        <5>1. b \in Loaded(run[p])
          BY <1>1, <1>2, <2>3, <3>1, <4>2 DEF Loaded, Roles
        <5> QED
          BY <1>1, <2>2, <2>3, <3>1, <4>2, <5>1 DEF IInv, Current
      <4> QED
        BY <4>1, <4>2
    <3> QED
      BY <1>1, <2>1, <2>3, <3>1 DEF Current, AlreadyDone, Roles
  <2> QED
    BY <1>1, <2>1, <2>3, <2>4, <2>5, Advance DEF IInv, Base, TypeOK
<1> QED
  BY <1>4, <1>5

\* The agent is done with an asset, which is marked or not: the caller's copies of
\* the other assets are what they were.
LEMMA OnwardsStep ==
  ASSUME IInv, NEW p \in All, run[p].step \in {"ask", "mark"}, Set(p, Onwards(p)), Remember,
         UNCHANGED <<asset, cands>>, meta' \in [Assets -> Meta],
         \A b \in Assets : b # run[p].at => meta'[b] = meta[b]
  PROVE  IInv'
<1>1. /\ run[p] \in RunState /\ Fit(p, run[p], asset) /\ run[p].at \in Assets
      /\ asset[run[p].at] = "transcribed" /\ run[p].at \in Loaded(run[p])
  BY DEF IInv, Base, TypeOK, RunState, Fit, All, Loaded
<1>2. /\ \A b \in Assets \ Loaded(run[p]) : meta'[b] = meta[b] /\ cands'[b] = cands[b]
      /\ \A b \in Assets : asset'[b] = "downloaded" => meta'[b] = Blank
      /\ \A b \in Assets : asset[b] = "transcribed" => asset'[b] = "transcribed"
      /\ asset' \in [Assets -> {"downloaded", "transcribed"}]
      /\ cands' \in [Assets -> BOOLEAN]
  BY <1>1 DEF IInv, Base, TypeOK
<1>3. CASE p \in Assets
  <2>1. Set(p, Idle)
    BY <1>3 DEF Onwards
  <2>2. \A b \in Assets : Current(b, Idle, meta'[b], cands'[b])
    BY IdleFits DEF Current
  <2> QED
    BY <1>2, <2>1, <2>2, IdleFits, Advance
<1>4. CASE p \notin Assets
  <2> DEFINE copy == [run[p].copy EXCEPT ![run[p].at] = Blank]
             done == IF run[p].role = "drain" THEN run[p].done + 1 ELSE run[p].done
             r == [run[p] EXCEPT !.at = NoAsset, !.copy = copy, !.step = "next", !.done = done]
  <2>1. Set(p, r) /\ p \in Callers
    BY <1>4 DEF Onwards, All
  <2>2. /\ copy \in [Assets -> Meta] /\ done \in 0..Limit
        /\ \A b \in Assets : b # run[p].at => copy[b] = run[p].copy[b]
    BY <1>1, SelectionAssumption DEF RunState, Blank, Meta, Fit
  <2> HIDE DEF copy, done
  <2>3. /\ r \in RunState /\ r.step = "next" /\ r.todo = run[p].todo /\ r.copy = copy
        /\ r.role = run[p].role /\ r.at = NoAsset
    BY <1>1, <2>2 DEF RunState
  <2> HIDE DEF r
  <2>4. NoAsset \notin Assets /\ run[p].todo \subseteq Assets
    BY <1>1, SelectionAssumption DEF RunState
  <2>5. Fit(p, r, asset')
    BY <1>1, <1>4, <2>1, <2>3, <2>4 DEF Fit
  <2>6. \A b \in Assets \ shared : Current(b, r, meta'[b], cands'[b])
    <3>1. ASSUME NEW b \in Assets \ shared, b \in Loaded(r) PROVE r.copy[b] = meta'[b] /\ r.at # b
      <4>1. b \in run[p].todo /\ b # run[p].at /\ b \in Loaded(run[p])
        BY <1>1, <2>3, <2>4, <3>1 DEF Loaded, Fit
      <4>2. run[p].copy[b] = meta[b]
        BY <3>1, <4>1 DEF IInv, Current
      <4> QED
        BY <2>2, <2>3, <2>4, <4>1, <4>2
    <3> QED
      BY <3>1 DEF Current
  <2> QED
    BY <1>2, <2>1, <2>3, <2>5, <2>6, Advance
<1> QED
  BY <1>3, <1>4

\* Candidates are added; the column of metadata is as it was.
LEMMA PersistStep ==
  ASSUME IInv, NEW p \in All, Persist(p), Remember
  PROVE  IInv'
<1> DEFINE r == [run[p] EXCEPT !.step = "mark"]
<1>1. /\ run[p] \in RunState /\ run[p].step = "ask" /\ Fit(p, run[p], asset)
      /\ Set(p, r) /\ UNCHANGED <<asset, meta>> /\ run[p].at \in Loaded(run[p])
  BY DEF Persist, IInv, Base, TypeOK, RunState, All, Fit, Loaded
<1>2. /\ r \in RunState /\ r.step = "mark" /\ r.at = run[p].at /\ r.todo = run[p].todo
      /\ r.copy = run[p].copy /\ r.done = run[p].done /\ r.role = run[p].role
  BY <1>1 DEF RunState
<1> HIDE DEF r
<1>3. /\ cands' \in [Assets -> BOOLEAN]
      /\ \A b \in Assets \ Loaded(run[p]) : cands'[b] = cands[b]
  <2>1. PICK some \in BOOLEAN :
          cands' = [cands EXCEPT ![run[p].at] = cands[run[p].at] \/ some]
    BY DEF Persist
  <2>2. cands \in [Assets -> BOOLEAN]
    BY DEF IInv, Base, TypeOK
  <2>3. (cands[run[p].at] \/ some) \in BOOLEAN
    OBVIOUS
  <2> DEFINE new == cands[run[p].at] \/ some
  <2>4. cands' = [cands EXCEPT ![run[p].at] = new] /\ new \in BOOLEAN
    BY <2>1, <2>3, Zenon
  <2> HIDE DEF new
  <2> QED
    BY <1>1, <2>2, <2>4
<1>4. Fit(p, r, asset')
  BY <1>1, <1>2 DEF Fit
<1>5. Loaded(r) = Loaded(run[p])
  BY <1>2 DEF Loaded
<1>6. \A b \in Assets \ shared : Current(b, r, meta'[b], cands'[b])
  BY <1>1, <1>2, <1>5 DEF IInv, Current
<1> QED
  BY <1>1, <1>2, <1>3, <1>4, <1>6, Advance DEF IInv, Base, TypeOK

\* The marker is added to the copy, or the agent has failed.
LEMMA MarkStep ==
  ASSUME IInv, NEW p \in All, Mark(p) \/ AgentFails(p), Remember
  PROVE  IInv'
<1>1. run[p] \in RunState /\ run[p].step \in {"ask", "mark"} /\ run[p].at \in Assets
  BY DEF Mark, AgentFails, IInv, Base, TypeOK, RunState, Fit, All
<1>2. run[p].copy[run[p].at] \in Meta
  BY <1>1 DEF RunState
<1> DEFINE new == [run[p].copy[run[p].at] EXCEPT !.marker = TRUE]
<1>3. new \in Meta
  BY <1>2 DEF Meta
<1>4. /\ Set(p, Onwards(p)) /\ UNCHANGED <<asset, cands>>
      /\ meta' = meta \/ meta' = [meta EXCEPT ![run[p].at] = new]
  BY DEF Mark, AgentFails
<1> HIDE DEF new
<1>5. /\ meta' \in [Assets -> Meta]
      /\ \A b \in Assets : b # run[p].at => meta'[b] = meta[b]
  BY <1>3, <1>4 DEF IInv, Base, TypeOK
<1> QED
  BY <1>1, <1>4, <1>5, OnwardsStep

-----------------------------------------------------------------------------
\* No caller runs at first, and what is transcribed is not marked.
LEMMA InitIInv == Init => IInv
<1> SUFFICES ASSUME Init PROVE IInv
  OBVIOUS
<1>1. \A p \in All : run[p] = Idle /\ Idle \in RunState /\ Fit(p, Idle, asset) /\ Loaded(Idle) = {}
  BY IdleFits DEF Init, All
<1>2. Blank \in Meta /\ [Blank EXCEPT !.text = TRUE] \in Meta
  BY DEF Blank, Meta
<1>3. TypeOK
  BY <1>1, <1>2 DEF Init, TypeOK, RunState, All
<1>4. Base
  BY <1>1, <1>3 DEF Init, Base
<1> QED
  BY <1>1, <1>4 DEF IInv, Sole, Current

\* Every step of everybody keeps the invariant.
LEMMA NextStep ==
  ASSUME IInv, [Next]_vars
  PROVE  IInv'
<1>1. CASE UNCHANGED vars
  BY <1>1 DEF vars, IInv, Base, TypeOK, Fit, Sole, Current
<1>2. CASE Next
  <2>1. Step /\ Remember
    BY <1>2 DEF Next
  <2>2. ASSUME NEW a \in Assets,
               Transcribe(a) \/ StoreText(a) \/ Persist(a) \/ Mark(a) \/ AgentFails(a)
        PROVE  IInv'
    BY <2>1, <2>2, TranscribeStep, StoreTextStep, PersistStep, MarkStep DEF All
  <2>3. ASSUME NEW p \in Callers, Progress(p) PROVE IInv'
    <3>1. CASE End(p)
      BY <2>1, <3>1, LeaveStep DEF End, All
    <3>2. ASSUME NEW a \in Assets, Skip(p, a) \/ Take(p, a) PROVE IInv'
      BY <2>1, <3>2, SkipTakeStep
    <3>3. CASE Persist(p) \/ Mark(p) \/ AgentFails(p)
      BY <2>1, <3>3, PersistStep, MarkStep DEF All
    <3> QED
      BY <2>3, <3>1, <3>2, <3>3 DEF Progress
  <2>4. ASSUME NEW p \in Callers, NEW role \in Roles, Begin(p, role) PROVE IInv'
    BY <2>1, <2>4, BeginStep
  <2>5. ASSUME NEW p \in All, Die(p) PROVE IInv'
    BY <2>1, <2>5, LeaveStep DEF Die
  <2> QED
    BY <2>1, <2>2, <2>3, <2>4, <2>5 DEF Step, All
<1> QED
  BY <1>1, <1>2

\* The inductive invariant holds throughout.
THEOREM SelectionInvariant == Spec => []IInv
BY InitIInv, NextStep, PTL DEF Spec

\* Assets, their metadata and the callers of the agent keep their types.
THEOREM SelectionTypeOK == Spec => []TypeOK
<1>1. IInv => TypeOK
  BY DEF IInv, Base
<1> QED
  BY <1>1, SelectionInvariant, PTL

\* As long as no two callers had an asset loaded at once, neither a handler nor a
\* drain adds candidates to it when it is marked, nor the backfill when it has some,
\* wherever runs die and whatever happens to other assets.
THEOREM SelectedOnceHolds == Spec => SelectedOnce
<1> DEFINE Once(p) ==
      run[p].step = "ask" /\ run'[p].step = "mark" /\ run[p].at \notin shared =>
        CASE run[p].role = "scan" -> TRUE
          [] run[p].role = "backfill" -> ~cands[run[p].at]
          [] OTHER -> ~meta[run[p].at].marker
<1>1. ASSUME IInv, NEW p \in Callers \cup Assets PROVE Once(p)
  <2> SUFFICES ASSUME run[p].step = "ask", run[p].at \notin shared
               PROVE  CASE run[p].role = "scan" -> TRUE
                        [] run[p].role = "backfill" -> ~cands[run[p].at]
                        [] OTHER -> ~meta[run[p].at].marker
    OBVIOUS
  <2>1. run[p].at \in Assets \ shared /\ run[p].at \in Loaded(run[p])
    BY <1>1 DEF IInv, Base, Fit, All, Loaded
  <2>2. Current(run[p].at, run[p], meta[run[p].at], cands[run[p].at])
    BY <1>1, <2>1 DEF IInv, All
  <2> QED
    BY <2>1, <2>2 DEF Current
<1>2. IInv => [\A p \in Callers \cup Assets : Once(p)]_vars
  BY <1>1
<1> QED
  BY <1>2, SelectionInvariant, PTL DEF SelectedOnce

\* What a step writes into extra_metadata has what was there.
LEMMA MetaStep ==
  ASSUME IInv, Next, NEW a \in Assets \ shared
  PROVE  (meta[a].text => meta'[a].text) /\ (meta[a].marker => meta'[a].marker)
<1> DEFINE Kept == (meta[a].text => meta'[a].text) /\ (meta[a].marker => meta'[a].marker)
<1>1. ASSUME NEW p \in All, (p \in Assets /\ StoreText(p)) \/ Mark(p) PROVE Kept
  <2> DEFINE i == run[p].at
             new == IF run[p].step = "store" THEN [run[p].copy[i] EXCEPT !.text = TRUE]
                    ELSE [run[p].copy[i] EXCEPT !.marker = TRUE]
  <2>1. /\ run[p].step \in {"store", "mark"} /\ Fit(p, run[p], asset)
        /\ meta \in [Assets -> Meta]
    BY <1>1 DEF StoreText, Mark, IInv, Base, TypeOK, All
  <2>2. i \in Assets /\ i \in Loaded(run[p]) /\ (p \in Assets => i = p)
    BY <2>1, SelectionAssumption DEF Fit, Loaded
  <2>3. meta' = [meta EXCEPT ![i] = new]
    <3>1. CASE p \in Assets /\ StoreText(p)
      <4>1. run[p].step = "store" /\ i = p
        BY <2>2, <3>1 DEF StoreText
      <4>2. meta' = [meta EXCEPT ![p] = [run[p].copy[p] EXCEPT !.text = TRUE]]
        BY <3>1 DEF StoreText
      <4> HIDE DEF i
      <4> QED
        BY <4>1, <4>2
    <3>2. CASE Mark(p)
      BY <3>2 DEF Mark
    <3> QED
      BY <1>1, <3>1, <3>2
  <2>4. CASE i = a
    <3>1. run[p].copy[a] = meta[a] /\ meta[a] \in Meta
      BY <2>1, <2>2, <2>4 DEF IInv, Current
    <3>2. (meta[a].text => new.text) /\ (meta[a].marker => new.marker)
      BY <2>4, <3>1 DEF Meta
    <3> HIDE DEF i, new
    <3> QED
      BY <2>1, <2>2, <2>3, <2>4, <3>2
  <2>5. CASE i # a
    <3> HIDE DEF i, new
    <3> QED
      BY <2>1, <2>3, <2>5
  <2> QED
    BY <2>4, <2>5
<1>2. ASSUME UNCHANGED meta PROVE Kept
  BY <1>2
<1> HIDE DEF Kept
<1>3. Kept
  BY <1>1, <1>2
  DEF Next, Step, Progress, All, Transcribe, Begin, Skip, Take, AgentFails, Persist, End, Die
<1> QED
  BY <1>3 DEF Kept

\* As long as no two callers had an asset loaded at once, no commit takes its
\* transcription or its marker away, though each writes the whole column as it was
\* read before the LLM was asked.
THEOREM MetadataIsKeptHolds == Spec => MetadataIsKept
<1>1. IInv /\ [Next]_vars =>
        [\A a \in Assets \ shared : /\ meta[a].text => meta'[a].text
                                    /\ meta[a].marker => meta'[a].marker]_vars
  BY MetaStep
<1> QED
  BY <1>1, SelectionInvariant, PTL DEF Spec, MetadataIsKept
=============================================================================
