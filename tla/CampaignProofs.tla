---------------------------- MODULE CampaignProofs ----------------------------
(***************************************************************************)
(* Proofs about the campaigns table, for any cards, links, rows and number *)
(* of renames, requests by hand and killed processes.                      *)
(***************************************************************************)
EXTENDS CampaignFlow, FiniteSetTheorems, TLAPS

ProcState ==
  [step : {"idle", "next", "insert", "update", "links", "register", "count",
           "post", "patch", "commit"},
   todo : SUBSET Cards, at : Rows \cup {NoRow}, copy : SUBSET MetaKeys,
   name : Names \cup {ByHand}, count : Nat \cup {Keep}, links : SUBSET Links,
   to : CampaignStatus, keys : SUBSET MetaKeys]

\* The types of all but the history.
StateOK ==
  /\ campaign \in [Rows -> CampaignRow \cup {NoRow}]
  /\ assets \in [Rows -> [Links -> Nat]]
  /\ proc \in [Process -> ProcState]
  /\ budget \in 0..Budget

Discoverers == {"cron"} \cup Requests

\* A process is a discovery, or one of the crons that move a campaign on.
LEMMA Kinds ==
  /\ Process = Discoverers \cup {"brief", "resolve", "score"}
  /\ Discoverers \cap {"brief", "resolve", "score"} = {}
  /\ "cron" \in Discoverers /\ "cron" \notin Requests /\ Requests \subseteq Discoverers
BY CampaignAssumption DEF Process, Crons, Discoverers

\* The history names rows.
CrossedOK == crossed \subseteq Rows

-----------------------------------------------------------------------------
\* What holds of a process p in state r. It has its row in hand; a row is inserted by
\* the cron alone, for a card that has none; the count it will commit is of rows
\* that are there; and no cron asks for the first status.
Sound(p, r) ==
  /\ r.step \in {"update", "links", "register", "count", "post", "patch", "commit"}
       => r.at \in Stored
  /\ r.step = "insert" =>
       /\ p = "cron"
       /\ \A c \in r.todo : (\A d \in r.todo : c <= d) => Existing(c) = {}
  /\ r.step \in {"update", "count"} /\ r.count # Keep => r.count <= AssetCount(r.at)
  /\ r.step = "count" => r.count # Keep
  /\ r.step \in {"next", "insert", "update"} => p \in Discoverers
  /\ r.step \in {"links", "register", "count"} => p \in Requests
  /\ r.step \in {"post", "patch", "commit"} =>
       p \in {"brief", "resolve", "score"} /\ r.to # "discovered"

IInv ==
  /\ StateOK /\ OneRowPerUrl /\ CountNeverOverstates
  /\ \A p \in Process : Sound(p, proc[p])

-----------------------------------------------------------------------------
\* A campaign has finitely many asset rows, so that their number is one.
LEMMA AssetRowsFinite ==
  ASSUME NEW f \in [Links -> Nat]
  PROVE  IsFiniteSet(UNION {{l} \X (1..f[l]) : l \in Links})
<1> DEFINE Of == [l \in Links |-> {l} \X (1..f[l])]
           All == {{l} \X (1..f[l]) : l \in Links}
<1>1. Of \in Surjection(Links, All)
  BY DEF Surjection
<1>2. IsFiniteSet(All)
  BY <1>1, FS_Surjection, CampaignAssumption
<1>3. ASSUME NEW l \in Links PROVE IsFiniteSet({l} \X (1..f[l]))
  <2>1. IsFiniteSet({l})
    BY FS_Singleton
  <2>2. IsFiniteSet(1..f[l])
    BY FS_Interval
  <2> QED
    BY <2>1, <2>2, FS_Product
<1>4. \A T \in All : IsFiniteSet(T)
  BY <1>3
<1> HIDE DEF All
<1>5. IsFiniteSet(UNION All)
  BY <1>2, <1>4, FS_UNION
<1> QED
  BY <1>5 DEF All

\* So the asset rows of a campaign can be counted.
LEMMA AssetCountType ==
  ASSUME StateOK, NEW i \in Rows
  PROVE  IsFiniteSet(AssetRows(i)) /\ AssetCount(i) \in Nat
<1>1. assets[i] \in [Links -> Nat]
  BY DEF StateOK
<1>2. IsFiniteSet(AssetRows(i))
  BY <1>1, AssetRowsFinite DEF AssetRows
<1> QED
  BY <1>2, FS_CardinalityType DEF AssetCount

\* Registering the links ls adds as many rows as there are links.
LEMMA CountGrows ==
  ASSUME StateOK, NEW i \in Rows, NEW ls \in SUBSET Links, assets' = WithAssets(i, ls)
  PROVE  /\ assets' \in [Rows -> [Links -> Nat]]
         /\ Cardinality(ls) \in Nat
         /\ AssetCount(i)' = AssetCount(i) + Cardinality(ls)
         /\ \A k \in Rows : k # i => AssetCount(k)' = AssetCount(k)
<1> DEFINE N == {<<l, assets[i][l] + 1>> : l \in ls}
           Of == [l \in ls |-> <<l, assets[i][l] + 1>>]
<1>1. /\ \A l \in Links : assets[i][l] \in Nat
      /\ assets'[i] = [l \in Links |-> assets[i][l] + IF l \in ls THEN 1 ELSE 0]
      /\ \A k \in Rows : k # i => assets'[k] = assets[k]
      /\ assets' \in [Rows -> [Links -> Nat]]
  BY DEF StateOK, WithAssets
<1>2. IsFiniteSet(ls) /\ Cardinality(ls) \in Nat
  BY FS_Subset, FS_CardinalityType, CampaignAssumption
<1>3. IsFiniteSet(N) /\ Cardinality(N) = Cardinality(ls)
  <2>1. Of \in Surjection(ls, N) /\ Of \in Injection(ls, N)
    BY DEF Surjection, Injection, IsInjective
  <2> HIDE DEF N, Of
  <2> QED
    BY <1>2, <2>1, FS_Surjection
<1>4. AssetRows(i)' = AssetRows(i) \cup N
  <2>1. ASSUME NEW x PROVE x \in AssetRows(i)' <=> x \in AssetRows(i) \cup N
    <3>1. x \in AssetRows(i)' <=>
            \E l \in Links : \E n \in 1..assets'[i][l] : x = <<l, n>>
      BY DEF AssetRows
    <3>2. x \in AssetRows(i) <=> \E l \in Links : \E n \in 1..assets[i][l] : x = <<l, n>>
      BY DEF AssetRows
    <3>3. ASSUME NEW l \in Links
          PROVE  1..assets'[i][l] = 1..assets[i][l] \cup
                   IF l \in ls THEN {assets[i][l] + 1} ELSE {}
      BY <1>1
    <3> QED
      BY <3>1, <3>2, <3>3
  <2> QED
    BY <2>1
<1>5. AssetRows(i) \cap N = {}
  <2>1. ASSUME NEW l \in Links, NEW n \in 1..assets[i][l], NEW m \in ls,
               <<l, n>> = <<m, assets[i][m] + 1>>
        PROVE  FALSE
    BY <1>1, <2>1
  <2> QED
    BY <2>1 DEF AssetRows
<1>6. IsFiniteSet(AssetRows(i)) /\ AssetCount(i) \in Nat
  BY AssetCountType
<1>7. Cardinality(AssetRows(i) \cup N) =
        Cardinality(AssetRows(i)) + Cardinality(N) - Cardinality(AssetRows(i) \cap N)
  BY <1>3, <1>6, FS_Union
<1>8. AssetCount(i)' = AssetCount(i) + Cardinality(ls)
  <2>1. /\ AssetCount(i)' = Cardinality(AssetRows(i)')
        /\ AssetCount(i) = Cardinality(AssetRows(i))
    BY DEF AssetCount
  <2>2. Cardinality(AssetRows(i) \cap N) = 0
    BY <1>5, FS_EmptySet
  <2>3. Cardinality(AssetRows(i)') = Cardinality(AssetRows(i) \cup N)
    BY <1>4
  <2> QED
    BY <1>2, <1>3, <1>6, <1>7, <2>1, <2>2, <2>3
<1>9. ASSUME NEW k \in Rows, k # i PROVE AssetCount(k)' = AssetCount(k)
  <2>1. assets'[k] = assets[k]
    BY <1>1, <1>9
  <2>2. AssetRows(k)' = AssetRows(k)
    BY <2>1 DEF AssetRows
  <2> QED
    BY <2>2 DEF AssetCount
<1> QED
  BY <1>1, <1>2, <1>8, <1>9

-----------------------------------------------------------------------------
\* A step of process p that commits nothing.
LEMMA ReadStep ==
  ASSUME IInv, NEW p \in Process, NEW r \in ProcState, Set(p, r), Sound(p, r),
         UNCHANGED <<campaign, assets>>, budget' \in 0..Budget
  PROVE  IInv'
<1>1. /\ proc' \in [Process -> ProcState] /\ proc'[p] = r
      /\ \A q \in Process : q # p => proc'[q] = proc[q]
  BY DEF Set, IInv, StateOK, ProcState
<1>2. StateOK'
  BY <1>1 DEF IInv, StateOK, ProcState
<1>3. OneRowPerUrl' /\ CountNeverOverstates'
  BY DEF IInv, OneRowPerUrl, CountNeverOverstates, Stored, AssetCount, AssetRows
<1>4. \A q \in Process : Sound(q, proc'[q])
  BY <1>1 DEF IInv
<1> QED
  BY <1>2, <1>3, <1>4 DEF IInv, Sound, Stored, Existing, AssetCount, AssetRows

\* What is idle, or about to begin with its next card, is sound.
LEMMA IdleSound ==
  ASSUME NEW p \in Process
  PROVE  Idle \in ProcState /\ Sound(p, Idle)
BY DEF Idle, ProcState, Sound, Names, ByHand, CampaignStatus

\* Nor is what goes on with the next card, or is done with the last, unsound.
LEMMA OnwardsSound ==
  ASSUME IInv, NEW p \in Discoverers, NEW c \in Cards
  PROVE  Onwards(p, c) \in ProcState /\ Sound(p, Onwards(p, c))
<1>1. proc[p].todo \in SUBSET Cards
  BY Kinds DEF IInv, StateOK, ProcState
<1> DEFINE todo == proc[p].todo \ {c}
<1>2. Onwards(p, c) =
        [Idle EXCEPT !.step = IF todo = {} THEN "idle" ELSE "next", !.todo = todo]
  BY DEF Onwards
<1>3. Onwards(p, c) \in ProcState
  <2>1. todo \in SUBSET Cards
    BY <1>1
  <2>2. Idle \in ProcState
    BY IdleSound, Kinds
  <2> HIDE DEF todo
  <2> QED
    BY <1>2, <2>1, <2>2 DEF ProcState
<1>4. Onwards(p, c).step \in {"idle", "next"}
  BY <1>2 DEF Idle
<1> QED
  BY <1>3, <1>4 DEF Sound

\* The reads of the discoveries.
LEMMA DiscoverIInv ==
  ASSUME IInv, NEW S \in Listings \cup Shortlists, NEW p \in Discoverers,
         (Discover(S) /\ p = "cron") \/ DiscoverNow(p, S)
  PROVE  IInv'
<1> DEFINE r == [Idle EXCEPT !.step = "next", !.todo = S]
<1>1. r \in ProcState
  BY CampaignAssumption DEF Idle, ProcState, Names, ByHand, CampaignStatus
<1>2. Sound(p, r)
  BY DEF Idle, Sound
<1>3. Set(p, r) /\ UNCHANGED <<campaign, assets>> /\ budget' \in 0..Budget
  BY CampaignAssumption DEF Discover, DiscoverNow, IInv, StateOK
<1> HIDE DEF r
<1> QED
  BY <1>1, <1>2, <1>3, ReadStep DEF Process, Crons, Discoverers

\* A process that gives up.
LEMMA AbortIInv ==
  ASSUME IInv, NEW p \in Process, Set(p, Idle), UNCHANGED <<campaign, assets>>,
         budget' \in 0..Budget
  PROVE  IInv'
BY IdleSound, ReadStep

\* The lookup of a card: no row, and one may be inserted; or the row to update.
LEMMA UpsertIInv ==
  ASSUME IInv, NEW p \in Process, NEW c \in Cards, UpsertNew(p, c) \/ UpsertFound(p, c)
  PROVE  IInv'
<1>1. /\ proc[p].step = "next" /\ proc[p] \in ProcState
      /\ p \in Discoverers
      /\ c \in proc[p].todo /\ \A d \in proc[p].todo : c <= d
      /\ proc[p].todo \subseteq Cards
  BY DEF UpsertNew, UpsertFound, Current, IInv, StateOK, ProcState, Sound
<1>2. UNCHANGED <<campaign, assets>> /\ budget' \in 0..Budget
  BY DEF UpsertNew, UpsertFound, IInv, StateOK
<1>3. CASE UpsertNew(p, c)
  <2>1. PICK n \in Names : Set(p, [proc[p] EXCEPT !.step = "insert", !.name = n])
    BY <1>3 DEF UpsertNew
  <2> DEFINE r == [proc[p] EXCEPT !.step = "insert", !.name = n]
  <2>2. r \in ProcState /\ r.step = "insert" /\ r.todo = proc[p].todo
    BY <1>1 DEF ProcState
  <2>3. p = "cron" /\ Existing(c) = {}
    BY <1>3 DEF UpsertNew, MayInsert
  <2>4. \A b \in r.todo : (\A d \in r.todo : b <= d) => b = c
    BY <1>1, <2>2, CampaignAssumption
  <2>5. Sound(p, r)
    BY <2>2, <2>3, <2>4, Kinds DEF Sound
  <2> HIDE DEF r
  <2>6. Set(p, r)
    BY <2>1 DEF r
  <2> QED
    BY <1>2, <2>2, <2>5, <2>6, ReadStep
<1>4. CASE UpsertFound(p, c)
  <2>1. PICK i \in Existing(c), n \in Names \cup {ByHand} :
          Set(p, [proc[p] EXCEPT
            !.step = "update", !.at = i,
            !.copy = IF c \in Unchanged /\ "links" \notin campaign[i].meta THEN {}
                     ELSE campaign[i].meta,
            !.name = n,
            !.count = IF AssetCount(i) = campaign[i].count THEN Keep ELSE AssetCount(i)])
    BY <1>4 DEF UpsertFound
  <2>2. /\ i \in Stored /\ i \in Rows /\ campaign[i].meta \in SUBSET MetaKeys
        /\ AssetCount(i) \in Nat
    BY AssetCountType DEF Existing, Stored, IInv, StateOK, CampaignRow
  <2> DEFINE r == [proc[p] EXCEPT
            !.step = "update", !.at = i,
            !.copy = IF c \in Unchanged /\ "links" \notin campaign[i].meta THEN {}
                     ELSE campaign[i].meta,
            !.name = n,
            !.count = IF AssetCount(i) = campaign[i].count THEN Keep ELSE AssetCount(i)]
  <2>3. /\ r \in ProcState /\ r.step = "update" /\ r.at = i
        /\ r.count # Keep => r.count = AssetCount(i)
    BY <1>1, <2>2 DEF ProcState
  <2>4. Sound(p, r)
    BY <1>1, <2>2, <2>3 DEF Sound
  <2> HIDE DEF r
  <2>5. Set(p, r)
    BY <2>1 DEF r
  <2> QED
    BY <1>2, <2>3, <2>4, <2>5, ReadStep
<1> QED
  BY <1>3, <1>4

\* The lookup of the links of a card.
LEMMA ResolveIInv ==
  ASSUME IInv, NEW p \in Process, NEW c \in Cards, ResolveLinks(p, c)
  PROVE  IInv'
<1> DEFINE r == [proc[p] EXCEPT !.step = "register", !.links = Unregistered(proc[p].at, c)]
<1>1. /\ proc[p].step = "links" /\ proc[p] \in ProcState /\ Sound(p, proc[p])
      /\ UNCHANGED <<campaign, assets>> /\ budget' \in 0..Budget
      /\ Set(p, Idle) \/ Set(p, r)
  BY DEF ResolveLinks, IInv, StateOK, ProcState
<1>2. Unregistered(proc[p].at, c) \subseteq Links
  BY CampaignAssumption DEF Unregistered, Wanted
<1>3. r \in ProcState /\ r.step = "register" /\ r.at = proc[p].at
  BY <1>1, <1>2 DEF ProcState
<1>4. Sound(p, r)
  BY <1>1, <1>3 DEF Sound
<1> HIDE DEF r
<1> QED
  BY <1>1, <1>3, <1>4, ReadStep, AbortIInv

\* The reads of the three crons.
LEMMA TakeIInv ==
  ASSUME IInv, NEW p \in {"brief", "resolve", "score"}, NEW i \in Stored,
         NEW ls \in SUBSET Links, NEW to \in CampaignStatus \ {"discovered"},
         NEW ks \in SUBSET MetaKeys, Take(p, i, ls, to, ks)
  PROVE  IInv'
<1> DEFINE r == [Idle EXCEPT !.step = IF ls = {} THEN "patch" ELSE "post",
                             !.at = i, !.links = ls, !.to = to, !.keys = ks]
<1>1. Set(p, r) /\ UNCHANGED <<campaign, assets>> /\ budget' \in 0..Budget
  BY DEF Take, IInv, StateOK
<1>2. r \in ProcState
  BY DEF Idle, ProcState, Stored, Names, ByHand
<1>3. r.step \in {"patch", "post"} /\ r.at = i /\ r.to = to
  BY DEF Idle
<1>4. Sound(p, r)
  BY <1>3 DEF Sound
<1> HIDE DEF r
<1> QED
  BY <1>1, <1>2, <1>4, ReadStep, Kinds

\* What each of them takes: the links to post, the status and the keys.
LEMMA CronTakes ==
  ASSUME StateOK, NEW i \in Rows, Brief(i) \/ ResolveFolders(i) \/ Score(i)
  PROVE  /\ i \in Stored
         /\ \E p \in {"brief", "resolve", "score"}, ls \in SUBSET Links,
               to \in CampaignStatus \ {"discovered"}, ks \in SUBSET MetaKeys :
              /\ Take(p, i, ls, to, ks)
              /\ \A l \in ls \ Folders : assets[i][l] = 0
              /\ to = "briefed" => "rules" \in ks
              /\ to = "assets_resolved" => campaign[i].status = "briefed"
              /\ to = "scored" => ks = {"score"} /\ "rules" \in campaign[i].meta
<1> DEFINE Cron == {"brief", "resolve", "score"}
           Later == CampaignStatus \ {"discovered"}
           Taking(p, ls, to, ks) ==
              /\ Take(p, i, ls, to, ks)
              /\ \A l \in ls \ Folders : assets[i][l] = 0
              /\ to = "briefed" => "rules" \in ks
              /\ to = "assets_resolved" => campaign[i].status = "briefed"
              /\ to = "scored" => ks = {"score"} /\ "rules" \in campaign[i].meta
           Goal == \E p \in Cron, ls \in SUBSET Links, to \in Later, ks \in SUBSET MetaKeys :
                     Taking(p, ls, to, ks)
<1>1. i \in Stored /\ campaign[i].url \in Cards
  BY DEF Brief, ResolveFolders, Score, In, Stored, StateOK, CampaignRow
<1>2. /\ {} \in SUBSET Links
      /\ {} \in SUBSET MetaKeys /\ {"rules", "links"} \in SUBSET MetaKeys /\ {"score"} \in SUBSET MetaKeys
      /\ Later = {"briefed", "assets_resolved", "scored",
                  "blocked_no_assets", "failed_brief", "failed_resolve"}
  BY DEF MetaKeys, CampaignStatus
<1>3. ASSUME Brief(i) PROVE Goal
  <2> DEFINE ls == CardLinks[campaign[i].url] \cap Folders
  <2>1. ls \in SUBSET Links /\ ls \ Folders = {}
    BY <1>1, CampaignAssumption
  <2>2. \/ Take("brief", i, ls, "briefed", {"rules", "links"})
        \/ Take("brief", i, {}, "failed_brief", {})
    BY <1>3 DEF Brief
  <2>3. \/ Taking("brief", ls, "briefed", {"rules", "links"})
        \/ Taking("brief", {}, "failed_brief", {})
    BY <2>1, <2>2
  <2> HIDE DEF ls, Taking, Later
  <2> QED
    BY <1>2, <2>1, <2>3
<1>4. ASSUME ResolveFolders(i) PROVE Goal
  <2> DEFINE ls == {l \in DriveFiles[campaign[i].url] :
                      ~HasFile(i, l) /\ \E f \in Folders : assets[i][f] > 0}
  <2>1. ls \in SUBSET Links /\ \A l \in ls : assets[i][l] = 0
    <3>1. DriveFiles[campaign[i].url] \subseteq Links
      BY <1>1, CampaignAssumption
    <3>2. \A l \in Links : ~HasFile(i, l) => assets[i][l] = 0
      BY DEF HasFile, StateOK
    <3> QED
      BY <3>1, <3>2
  <2>2. /\ campaign[i].status = "briefed"
        /\ \/ Take("resolve", i, ls, "assets_resolved", {})
           \/ Take("resolve", i, {}, "failed_resolve", {})
    BY <1>4 DEF ResolveFolders, In
  <2> HIDE DEF ls
  <2>3. \/ Taking("resolve", ls, "assets_resolved", {})
        \/ Taking("resolve", {}, "failed_resolve", {})
    BY <2>1, <2>2
  <2> HIDE DEF Taking, Later
  <2> QED
    BY <1>2, <2>1, <2>3
<1>5. ASSUME Score(i) PROVE Goal
  <2>1. \/ Take("score", i, {}, "blocked_no_assets", {})
        \/ "rules" \in campaign[i].meta /\ Take("score", i, {}, "scored", {"score"})
    BY <1>5 DEF Score
  <2>2. \/ Taking("score", {}, "blocked_no_assets", {})
        \/ Taking("score", {}, "scored", {"score"})
    BY <2>1
  <2> HIDE DEF Taking, Later
  <2> QED
    BY <1>2, <2>2
<1>6. Goal
  BY <1>3, <1>4, <1>5
<1> QED
  BY <1>1, <1>6

\* The three crons take a campaign up.
LEMMA CronsIInv ==
  ASSUME IInv, BriefTick \/ ResolveTick \/ ScoreTick
  PROVE  IInv'
BY CronTakes, TakeIInv DEF BriefTick, ResolveTick, ScoreTick, IInv

\* PATCH reads the row it is about to change.
LEMMA PatchReadIInv ==
  ASSUME IInv, NEW p \in Process, PatchRead(p)
  PROVE  IInv'
<1> DEFINE r == [proc[p] EXCEPT !.step = "commit",
              !.copy = campaign[proc[p].at].meta]
<1>1. /\ proc[p].step = "patch" /\ proc[p] \in ProcState /\ Sound(p, proc[p])
      /\ UNCHANGED <<campaign, assets>> /\ budget' \in 0..Budget /\ Set(p, r)
  BY DEF PatchRead, IInv, StateOK, ProcState
<1>2. proc[p].at \in Stored /\ campaign[proc[p].at].meta \in SUBSET MetaKeys
  BY <1>1 DEF Sound, Stored, IInv, StateOK, CampaignRow
<1>3. r \in ProcState /\ r.step = "commit" /\ r.at = proc[p].at /\ r.to = proc[p].to
  BY <1>1, <1>2 DEF ProcState
<1>4. Sound(p, r)
  BY <1>1, <1>3 DEF Sound
<1> HIDE DEF r
<1> QED
  BY <1>1, <1>3, <1>4, ReadStep

-----------------------------------------------------------------------------
\* A commit to one row leaves its card as it is.
LEMMA RowStep ==
  ASSUME IInv, NEW i \in Stored, NEW row \in CampaignRow, row.url = campaign[i].url,
         campaign' = [campaign EXCEPT ![i] = row]
  PROVE  /\ campaign' \in [Rows -> CampaignRow \cup {NoRow}]
         /\ campaign'[i] = row /\ \A k \in Rows : k # i => campaign'[k] = campaign[k]
         /\ Stored' = Stored
         /\ \A c : Existing(c)' = Existing(c)
         /\ OneRowPerUrl'
<1>1. /\ campaign' \in [Rows -> CampaignRow \cup {NoRow}]
      /\ campaign'[i] = row /\ \A k \in Rows : k # i => campaign'[k] = campaign[k]
  BY DEF IInv, StateOK, Stored
<1>2. Stored' = Stored
  BY <1>1, NoRowAssumption DEF Stored
<1>3. \A k \in Stored : campaign'[k].url = campaign[k].url
  BY <1>1 DEF Stored
<1>4. ASSUME NEW c PROVE Existing(c)' = Existing(c)
  BY <1>2, <1>3 DEF Existing
<1>5. OneRowPerUrl'
  BY <1>2, <1>3 DEF IInv, OneRowPerUrl
<1> QED
  BY <1>1, <1>2, <1>4, <1>5

\* A process that does not move stays sound: rows stay, and their assets too.
LEMMA SoundKept ==
  ASSUME StateOK, NEW q \in Process, Sound(q, proc[q]), proc'[q] = proc[q],
         Stored \subseteq Stored',
         \A c : q = "cron" => Existing(c)' = Existing(c),
         \A k \in Stored : AssetCount(k)' \in Nat /\ AssetCount(k) <= AssetCount(k)'
  PROVE  Sound(q, proc[q])'
<1>1. proc[q] \in ProcState
  BY DEF StateOK, ProcState
<1>2. ASSUME proc[q].step \in {"update", "count"}, proc[q].count # Keep
      PROVE  proc[q].count <= AssetCount(proc[q].at)'
  <2>1. proc[q].at \in Stored /\ proc[q].count <= AssetCount(proc[q].at)
    BY <1>2 DEF Sound
  <2>2. proc[q].at \in Rows /\ proc[q].count \in Nat
    BY <1>1, <1>2, <2>1 DEF ProcState, Stored
  <2>3. AssetCount(proc[q].at) \in Nat
    BY <2>2, AssetCountType
  <2> QED
    BY <2>1, <2>2, <2>3
<1> QED
  BY <1>2 DEF Sound, AssetCount, AssetRows

\* A step of process p that commits something.
LEMMA CommitStep ==
  ASSUME IInv, NEW p \in Process, proc' \in [Process -> ProcState],
         \A q \in Process : q # p => proc'[q] = proc[q],
         campaign' \in [Rows -> CampaignRow \cup {NoRow}],
         assets' \in [Rows -> [Links -> Nat]], budget' \in 0..Budget,
         Stored \subseteq Stored',
         \A c : p # "cron" => Existing(c)' = Existing(c),
         \A k \in Stored : AssetCount(k)' \in Nat /\ AssetCount(k) <= AssetCount(k)',
         OneRowPerUrl', CountNeverOverstates', Sound(p, proc[p])'
  PROVE  IInv'
<1>1. StateOK'
  BY DEF StateOK, ProcState
<1>2. ASSUME NEW q \in Process, q # p PROVE Sound(q, proc[q])'
  BY <1>2, SoundKept DEF IInv
<1> QED
  BY <1>1, <1>2 DEF IInv

\* The rows of the table of assets, and their number, stay as they are.
LEMMA SameAssets ==
  ASSUME IInv, UNCHANGED assets
  PROVE  /\ assets' \in [Rows -> [Links -> Nat]]
         /\ \A k \in Rows : AssetCount(k)' = AssetCount(k) /\ AssetCount(k) \in Nat
<1>1. \A k \in Rows : AssetCount(k)' = AssetCount(k)
  BY DEF AssetCount, AssetRows
<1> QED
  BY <1>1, AssetCountType DEF IInv, StateOK

\* A commit to row i by p, which leaves the assets alone.
LEMMA RowCommit ==
  ASSUME IInv, NEW p \in Process, NEW i \in Stored, NEW row \in CampaignRow,
         row.url = campaign[i].url, row.count <= AssetCount(i),
         campaign' = [campaign EXCEPT ![i] = row], UNCHANGED assets,
         proc' \in [Process -> ProcState],
         \A q \in Process : q # p => proc'[q] = proc[q],
         budget' \in 0..Budget, Sound(p, proc[p])'
  PROVE  IInv'
<1>1. /\ campaign' \in [Rows -> CampaignRow \cup {NoRow}]
      /\ campaign'[i] = row /\ \A k \in Rows : k # i => campaign'[k] = campaign[k]
      /\ Stored' = Stored /\ \A c : Existing(c)' = Existing(c)
      /\ OneRowPerUrl'
  BY RowStep
<1>2. /\ assets' \in [Rows -> [Links -> Nat]]
      /\ \A k \in Rows : AssetCount(k)' = AssetCount(k) /\ AssetCount(k) \in Nat
  BY SameAssets
<1>3. CountNeverOverstates'
  <2>1. ASSUME NEW k \in Stored PROVE campaign'[k].count <= AssetCount(k)'
    BY <1>1, <1>2 DEF Stored, IInv, CountNeverOverstates
  <2> QED
    BY <1>1, <2>1 DEF CountNeverOverstates
<1>4. \A k \in Stored : AssetCount(k)' \in Nat /\ AssetCount(k) <= AssetCount(k)'
  BY <1>2 DEF Stored
<1> QED
  BY <1>1, <1>2, <1>3, <1>4, CommitStep

\* The cron inserts the only row of its card.
LEMMA InsertIInv ==
  ASSUME IInv, NEW p \in Process, NEW c \in Cards, Insert(p, c)
  PROVE  IInv'
<1>1. /\ proc[p].step = "insert" /\ proc[p] \in ProcState /\ Sound(p, proc[p])
      /\ c \in proc[p].todo /\ \A d \in proc[p].todo : c <= d
  BY DEF Insert, Current, IInv, StateOK, ProcState
<1>2. p = "cron" /\ Existing(c) = {}
  BY <1>1 DEF Sound
<1>3. PICK i \in Rows :
        /\ Fresh(i)
        /\ campaign' = [campaign EXCEPT ![i] =
             [url |-> c, name |-> proc[p].name, status |-> "discovered",
              meta |-> {"card"}, count |-> 0]]
        /\ Set(p, Onwards(p, c))
  BY <1>2, Kinds DEF Insert
<1> DEFINE row == [url |-> c, name |-> proc[p].name, status |-> "discovered",
                   meta |-> {"card"}, count |-> 0]
<1>4. row \in CampaignRow /\ row # NoRow
  BY <1>1, NoRowAssumption DEF CampaignRow, ProcState, CampaignStatus, MetaKeys
<1>5. /\ i \notin Stored
      /\ campaign' \in [Rows -> CampaignRow \cup {NoRow}]
      /\ campaign'[i] = row /\ \A k \in Rows : k # i => campaign'[k] = campaign[k]
  BY <1>3, <1>4 DEF Fresh, IInv, StateOK
<1>6. Stored' = Stored \cup {i} /\ row.url = c /\ row.count = 0
  BY <1>4, <1>5 DEF Stored
<1> HIDE DEF row
<1>7. /\ assets' \in [Rows -> [Links -> Nat]]
      /\ \A k \in Rows : AssetCount(k)' = AssetCount(k) /\ AssetCount(k) \in Nat
  BY SameAssets DEF Insert
<1>8. OneRowPerUrl'
  <2>1. \A k \in Stored : campaign'[k] = campaign[k] /\ campaign[k].url # c
    BY <1>2, <1>5 DEF Existing, Stored
  <2> QED
    BY <1>5, <1>6, <2>1 DEF IInv, OneRowPerUrl
<1>9. CountNeverOverstates'
  <2>1. ASSUME NEW k \in Stored \cup {i} PROVE campaign'[k].count <= AssetCount(k)'
    BY <1>5, <1>6, <1>7 DEF Stored, IInv, CountNeverOverstates
  <2> QED
    BY <1>6, <2>1 DEF CountNeverOverstates
<1>10. /\ proc' \in [Process -> ProcState] /\ proc'[p] = Onwards(p, c)
       /\ \A q \in Process : q # p => proc'[q] = proc[q]
  BY <1>2, <1>3, OnwardsSound, Kinds DEF Set, IInv, StateOK, ProcState
<1>11. Sound(p, proc[p])'
  <2>1. proc'[p].step \in {"idle", "next"}
    BY <1>10 DEF Onwards, Idle
  <2> QED
    BY <1>2, <2>1, Kinds DEF Sound
<1>12. \A k \in Stored : AssetCount(k)' \in Nat /\ AssetCount(k) <= AssetCount(k)'
  BY <1>7 DEF Stored
<1>13. budget' \in 0..Budget
  BY DEF Insert, IInv, StateOK
<1> QED
  BY <1>2, <1>5, <1>6, <1>7, <1>8, <1>9, <1>10, <1>11, <1>12, <1>13, CommitStep

\* The row a discovery writes back.
LEMMA UpdatedRow ==
  ASSUME IInv, NEW p \in Process, proc[p].step = "update"
  PROVE  LET row == Updated(campaign[proc[p].at], proc[p])
         IN /\ row \in CampaignRow
            /\ row.url = campaign[proc[p].at].url
            /\ row.status = campaign[proc[p].at].status
            /\ row.count <= AssetCount(proc[p].at)
            /\ row.meta = IF proc[p].copy = {} THEN campaign[proc[p].at].meta
                          ELSE (proc[p].copy \ {"links"}) \cup {"card"}
<1> DEFINE i == proc[p].at
<1>1. /\ proc[p] \in ProcState /\ i \in Stored /\ campaign[i] \in CampaignRow
      /\ campaign[i].count <= AssetCount(i)
      /\ proc[p].count # Keep => proc[p].count <= AssetCount(i)
  BY DEF IInv, StateOK, ProcState, Sound, Stored, CountNeverOverstates
<1> HIDE DEF i
<1>2. Updated(campaign[i], proc[p]) \in CampaignRow
  BY <1>1 DEF Updated, CampaignRow, ProcState, MetaKeys, Keep
<1>3. /\ Updated(campaign[i], proc[p]).url = campaign[i].url
      /\ Updated(campaign[i], proc[p]).status = campaign[i].status
      /\ Updated(campaign[i], proc[p]).count =
           IF proc[p].count = Keep THEN campaign[i].count ELSE proc[p].count
      /\ Updated(campaign[i], proc[p]).meta =
           IF proc[p].copy = {} THEN campaign[i].meta ELSE (proc[p].copy \ {"links"}) \cup {"card"}
  BY <1>1 DEF Updated, CampaignRow
<1> QED
  BY <1>1, <1>2, <1>3 DEF i

\* A discovery writes the row it found back.
LEMMA UpdateIInv ==
  ASSUME IInv, NEW p \in Process, NEW c \in Cards, Update(p, c)
  PROVE  IInv'
<1> DEFINE i == proc[p].at
           row == Updated(campaign[i], proc[p])
           r == [proc[p] EXCEPT !.step = "links", !.count = row.count,
                                !.copy = {}, !.name = ByHand]
<1>1. /\ proc[p].step = "update" /\ proc[p] \in ProcState /\ Sound(p, proc[p])
      /\ i \in Stored /\ p \in Discoverers
  BY DEF Update, IInv, StateOK, ProcState, Sound
<1>2. row \in CampaignRow /\ row.url = campaign[i].url /\ row.count <= AssetCount(i)
  BY <1>1, UpdatedRow
<1>3. /\ campaign' = [campaign EXCEPT ![i] = row]
      /\ (p \in Requests /\ Set(p, r)) \/ Set(p, Onwards(p, c))
      /\ UNCHANGED assets /\ budget' \in 0..Budget
  BY DEF Update, IInv, StateOK
<1>4. r \in ProcState /\ r.step = "links" /\ r.at = i
  BY <1>1, <1>2 DEF ProcState, CampaignRow
<1> HIDE DEF row
<1> HIDE DEF r
<1>5. /\ proc' \in [Process -> ProcState]
      /\ \A q \in Process : q # p => proc'[q] = proc[q]
      /\ (p \in Requests /\ proc'[p] = r) \/ proc'[p] = Onwards(p, c)
  <2>1. Onwards(p, c) \in ProcState
    BY <1>1, OnwardsSound
  <2>2. proc \in [Process -> ProcState]
    BY DEF IInv, StateOK, ProcState
  <2> HIDE DEF ProcState
  <2> QED
    BY <1>3, <1>4, <2>1, <2>2 DEF Set
<1>6. Stored' = Stored
  BY <1>1, <1>2, <1>3, RowStep
<1> HIDE DEF i
<1>7. Sound(p, proc[p])'
  <2>1. CASE p \in Requests /\ proc'[p] = r
    BY <1>1, <1>4, <1>6, <2>1 DEF Sound
  <2>2. CASE proc'[p] = Onwards(p, c)
    <3>1. proc'[p].step \in {"idle", "next"}
      BY <2>2 DEF Onwards, Idle
    <3> QED
      BY <1>1, <3>1 DEF Sound
  <2> QED
    BY <1>5, <2>1, <2>2
<1> QED
  BY <1>1, <1>2, <1>3, <1>5, <1>7, RowCommit

\* assets_count is committed once the rows counted are there.
LEMMA CountIInv ==
  ASSUME IInv, NEW p \in Process, NEW c \in Cards, CountCommit(p, c)
  PROVE  IInv'
<1> DEFINE i == proc[p].at
           row == [campaign[i] EXCEPT !.count = proc[p].count]
<1>1. /\ proc[p].step = "count" /\ proc[p] \in ProcState /\ p \in Requests /\ i \in Stored
      /\ proc[p].count \in Nat /\ proc[p].count <= AssetCount(i)
  BY DEF CountCommit, IInv, StateOK, ProcState, Sound
<1>2. campaign[i] \in CampaignRow /\ campaign[i].count <= AssetCount(i)
  BY <1>1 DEF Stored, IInv, StateOK, CountNeverOverstates
<1> HIDE DEF i
<1>3. row \in CampaignRow /\ row.url = campaign[i].url /\ row.count <= AssetCount(i)
  BY <1>1, <1>2 DEF CampaignRow, ProcState, Keep
<1>4. /\ campaign' = [campaign EXCEPT ![i] = row]
      /\ Set(p, Onwards(p, c)) /\ UNCHANGED assets /\ budget' \in 0..Budget
  BY DEF CountCommit, IInv, StateOK, i
<1> HIDE DEF row
<1>5. /\ proc' \in [Process -> ProcState] /\ proc'[p] = Onwards(p, c)
      /\ \A q \in Process : q # p => proc'[q] = proc[q]
  BY <1>1, <1>4, OnwardsSound, Kinds DEF Set, IInv, StateOK, ProcState
<1>6. Sound(p, proc[p])'
  <2>1. proc'[p].step \in {"idle", "next"}
    BY <1>5 DEF Onwards, Idle
  <2> QED
    BY <1>1, <2>1, Kinds DEF Sound
<1> QED
  BY <1>1, <1>3, <1>4, <1>5, <1>6, RowCommit

\* A cron sets the status it planned, never the first one.
LEMMA PatchCommitIInv ==
  ASSUME IInv, NEW p \in Process, PatchCommit(p)
  PROVE  IInv'
<1> DEFINE i == proc[p].at
           row == [campaign[i] EXCEPT !.status = proc[p].to,
                     !.meta = IF proc[p].keys = {} THEN @ ELSE proc[p].copy \cup proc[p].keys]
<1>1. /\ proc[p].step \in {"patch", "commit"} /\ proc[p] \in ProcState /\ i \in Stored
  BY DEF PatchCommit, IInv, StateOK, ProcState, Sound
<1>2. campaign[i] \in CampaignRow /\ campaign[i].count <= AssetCount(i)
  BY <1>1 DEF Stored, IInv, StateOK, CountNeverOverstates
<1> HIDE DEF i
<1>3. row \in CampaignRow /\ row.url = campaign[i].url /\ row.count <= AssetCount(i)
  BY <1>1, <1>2 DEF CampaignRow, ProcState
<1>4. /\ campaign' = [campaign EXCEPT ![i] = row]
      /\ Set(p, Idle) /\ UNCHANGED assets /\ budget' \in 0..Budget
  BY <1>2 DEF PatchCommit, IInv, StateOK, i, CampaignRow
<1> HIDE DEF row
<1>5. /\ proc' \in [Process -> ProcState] /\ proc'[p] = Idle
      /\ \A q \in Process : q # p => proc'[q] = proc[q]
  BY <1>1, <1>4, IdleSound DEF Set, IInv, StateOK, ProcState
<1>6. Sound(p, proc[p])'
  <2>1. proc'[p].step = "idle"
    BY <1>5 DEF Idle
  <2> QED
    BY <2>1 DEF Sound
<1> QED
  BY <1>1, <1>3, <1>4, <1>5, <1>6, RowCommit

\* An operator's name is one of the column.
LEMMA RenameIInv ==
  ASSUME IInv, NEW i \in Rows, Rename(i)
  PROVE  IInv'
<1> DEFINE row == [campaign[i] EXCEPT !.name = ByHand]
<1>1. i \in Stored /\ campaign[i] \in CampaignRow /\ campaign[i].count <= AssetCount(i)
  BY DEF Rename, IInv, StateOK, Stored, CountNeverOverstates
<1>2. row \in CampaignRow /\ row.url = campaign[i].url /\ row.count <= AssetCount(i)
  BY <1>1 DEF CampaignRow
<1>3. /\ campaign' = [campaign EXCEPT ![i] = row]
      /\ UNCHANGED <<proc, assets>> /\ budget' \in 0..Budget
  BY <1>1, CampaignAssumption DEF Rename, IInv, StateOK
<1> HIDE DEF row
<1>4. /\ proc' \in [Process -> ProcState]
      /\ \A q \in Process : q # "score" => proc'[q] = proc[q]
  BY <1>3 DEF IInv, StateOK, ProcState
<1>5. Sound("score", proc["score"])'
  <2>1. /\ Stored' = Stored /\ \A c : Existing(c)' = Existing(c)
        /\ \A k \in Rows : AssetCount(k)' = AssetCount(k) /\ AssetCount(k) \in Nat
    BY <1>1, <1>2, <1>3, RowStep, SameAssets
  <2> QED
    BY <1>3, <2>1, SoundKept, Kinds DEF IInv, Stored
<1> QED
  BY <1>1, <1>2, <1>3, <1>4, <1>5, RowCommit, Kinds

\* Registering the links of a card, or posting those of a brief or of a folder:
\* p goes on, in state r, and no campaign has fewer rows than before.
LEMMA RegisterCommit ==
  ASSUME IInv, NEW p \in Process, NEW i \in Rows, NEW ls \in SUBSET Links,
         NEW r \in ProcState, Set(p, r),
         assets' = WithAssets(i, ls), UNCHANGED <<campaign, budget>>,
         Sound(p, proc[p])'
  PROVE  IInv'
<1>1. /\ proc' \in [Process -> ProcState]
      /\ \A q \in Process : q # p => proc'[q] = proc[q]
  BY DEF Set, IInv, StateOK, ProcState
<1>2. /\ assets' \in [Rows -> [Links -> Nat]] /\ Cardinality(ls) \in Nat
      /\ AssetCount(i)' = AssetCount(i) + Cardinality(ls)
      /\ \A k \in Rows : k # i => AssetCount(k)' = AssetCount(k)
  BY CountGrows DEF IInv
<1>3. \A k \in Rows : AssetCount(k) \in Nat
  BY AssetCountType DEF IInv
<1>4. \A k \in Rows : AssetCount(k)' \in Nat /\ AssetCount(k) <= AssetCount(k)'
  BY <1>2, <1>3
<1>5. Stored' = Stored /\ (\A c : Existing(c)' = Existing(c)) /\ OneRowPerUrl'
  BY DEF Stored, Existing, IInv, OneRowPerUrl
<1>6. CountNeverOverstates'
  <2>1. ASSUME NEW k \in Stored PROVE campaign'[k].count <= AssetCount(k)'
    <3>1. k \in Rows /\ campaign'[k] = campaign[k] /\ campaign[k].count \in Nat
      BY DEF Stored, IInv, StateOK, CampaignRow
    <3> QED
      BY <1>3, <1>4, <3>1 DEF IInv, CountNeverOverstates
  <2> QED
    BY <1>5, <2>1 DEF CountNeverOverstates
<1>7. /\ campaign' \in [Rows -> CampaignRow \cup {NoRow}] /\ budget' \in 0..Budget
      /\ \A k \in Stored : AssetCount(k)' \in Nat /\ AssetCount(k) <= AssetCount(k)'
  BY <1>4 DEF IInv, StateOK, Stored
<1> QED
  BY <1>1, <1>2, <1>5, <1>6, <1>7, CommitStep

\* The rows of the campaign are counted once the new ones are among them.
LEMMA RegisterIInv ==
  ASSUME IInv, NEW p \in Process, NEW c \in Cards, Register(p, c)
  PROVE  IInv'
<1>1. /\ proc[p].step = "register" /\ proc[p] \in ProcState /\ p \in Requests
      /\ proc[p].at \in Stored /\ Stored \subseteq Rows /\ proc[p].links \in SUBSET Links
  BY DEF Register, IInv, StateOK, ProcState, Sound, Stored
<1>2. PICK i \in Rows, ls \in SUBSET Links : i = proc[p].at /\ ls = proc[p].links
  BY <1>1
<1> DEFINE n == AssetCount(i) + Cardinality(ls)
           r == [proc[p] EXCEPT !.step = "count", !.links = {}, !.count = n]
<1>3. /\ assets' = WithAssets(i, ls) /\ UNCHANGED <<campaign, budget>>
      /\ Set(p, r) \/ Set(p, Onwards(p, c))
  BY <1>2 DEF Register, Recount
<1>4. n \in Nat /\ AssetCount(i)' = n /\ Stored' = Stored
  BY <1>3, CountGrows, AssetCountType DEF IInv, Stored
<1> HIDE DEF n
<1>5. r \in ProcState /\ r.step = "count" /\ r.at = i /\ r.count = n
  BY <1>1, <1>2, <1>4 DEF ProcState
<1> HIDE DEF r
<1>6. PICK v \in ProcState : Set(p, v) /\ (v = r \/ v = Onwards(p, c))
  BY <1>1, <1>3, <1>5, OnwardsSound DEF Discoverers
<1>7. proc'[p] = v
  BY <1>6 DEF Set, IInv, StateOK
<1>8. Sound(p, v)'
  <2>1. CASE v = r
    <3>1. v.at = i /\ v.step = "count" /\ v.count <= AssetCount(v.at)' /\ v.count # Keep
      BY <1>4, <1>5, <2>1 DEF Keep
    <3> QED
      BY <1>1, <1>2, <1>4, <3>1 DEF Sound
  <2>2. CASE v = Onwards(p, c)
    <3>1. v.step \in {"idle", "next"}
      BY <2>2 DEF Onwards, Idle
    <3> QED
      BY <1>1, <3>1 DEF Sound, Discoverers
  <2> QED
    BY <1>6, <2>1, <2>2
<1>9. Sound(p, proc[p])'
  BY <1>7, <1>8 DEF Sound, Stored, AssetCount, AssetRows
<1> QED
  BY <1>3, <1>6, <1>9, RegisterCommit

\* The assets of a brief or of a folder are posted.
LEMMA PostAssetsIInv ==
  ASSUME IInv, NEW p \in Process, PostAssets(p)
  PROVE  IInv'
<1> DEFINE i == proc[p].at
           r == [proc[p] EXCEPT !.step = "patch", !.links = {}]
<1>1. /\ proc[p].step = "post" /\ proc[p] \in ProcState /\ Sound(p, proc[p])
      /\ i \in Stored /\ i \in Rows /\ proc[p].links \in SUBSET Links
      /\ assets' = WithAssets(i, proc[p].links) /\ Set(p, r)
      /\ UNCHANGED <<campaign, budget>>
  BY DEF PostAssets, IInv, StateOK, ProcState, Sound, Stored
<1>2. r \in ProcState /\ r.step = "patch" /\ r.at = i /\ r.to = proc[p].to
  BY <1>1 DEF ProcState
<1>3. proc'[p] = r /\ Stored' = Stored
  BY <1>1 DEF Set, IInv, StateOK, Stored
<1> HIDE DEF r
<1>4. Sound(p, proc[p])'
  BY <1>1, <1>2, <1>3 DEF Sound
<1> HIDE DEF i
<1> QED
  BY <1>1, <1>2, <1>4, RegisterCommit

\* Exceptions, and processes killed, roll back what is not committed.
LEMMA RaisesIInv ==
  ASSUME IInv, NEW p \in Process, NEW c \in Cards,
         UpsertRaises(p, c) \/ InsertRaises(p, c) \/ UpdateRaises(p, c) \/ Die(p)
  PROVE  IInv'
<1>1. Set(p, Idle) /\ UNCHANGED <<campaign, assets>> /\ budget' \in 0..Budget
  BY CampaignAssumption
  DEF UpsertRaises, InsertRaises, UpdateRaises, Abort, Die, IInv, StateOK
<1> QED
  BY <1>1, AbortIInv

-----------------------------------------------------------------------------
\* The tables are empty at first, and no process runs.
LEMMA InitIInv == Init => IInv
<1> SUFFICES ASSUME Init PROVE IInv
  OBVIOUS
<1>1. StateOK
  <2>1. Idle \in ProcState
    BY IdleSound, Kinds
  <2> QED
    BY <2>1, CampaignAssumption DEF Init, StateOK, ProcState
<1>2. Stored = {}
  BY DEF Init, Stored
<1>3. \A p \in Process : proc[p] = Idle /\ Sound(p, Idle)
  BY IdleSound DEF Init
<1> QED
  BY <1>1, <1>2, <1>3 DEF IInv, OneRowPerUrl, CountNeverOverstates

\* Every action preserves the invariant, whatever the history keeps.
LEMMA NextIInv == IInv /\ (Step \/ UNCHANGED vars) => IInv'
<1> SUFFICES ASSUME IInv, Step \/ UNCHANGED vars PROVE IInv'
  OBVIOUS
<1>1. CASE UNCHANGED vars
  <2>1. IInv /\ UNCHANGED vars => IInv'
    <3>1. UNCHANGED vars => /\ UNCHANGED <<campaign, assets, proc, budget>>
                            /\ Stored' = Stored
      BY DEF vars, Stored
    <3>2. UNCHANGED vars => StateOK' = StateOK
      BY DEF vars, StateOK
    <3> QED
      BY <3>1, <3>2 DEF IInv, OneRowPerUrl, CountNeverOverstates, Sound, Existing,
                        AssetCount, AssetRows
  <2> QED
    BY <1>1, <2>1
<1>2. ASSUME NEW p \in Process, Continue(p) PROVE IInv'
  <2>1. ASSUME NEW c \in Cards, Discovery(p, c) PROVE IInv'
    BY <2>1, UpsertIInv, InsertIInv, UpdateIInv, ResolveIInv, RegisterIInv, CountIInv, RaisesIInv
    DEF Discovery
  <2>2. proc[p].todo \subseteq Cards
    BY DEF IInv, StateOK, ProcState
  <2> QED
    BY <1>2, <2>1, <2>2, PostAssetsIInv, PatchReadIInv, PatchCommitIInv DEF Continue
<1>3. ASSUME NEW p \in Process, Die(p) PROVE IInv'
  <2>1. Set(p, Idle) /\ UNCHANGED <<campaign, assets>> /\ budget' \in 0..Budget
    BY <1>3, CampaignAssumption DEF Die, IInv, StateOK
  <2> QED
    BY <2>1, AbortIInv
<1> QED
  BY <1>1, <1>2, <1>3, DiscoverIInv, CronsIInv, RenameIInv DEF Step, Discoverers

\* The inductive invariant, of every reachable state.
THEOREM CampaignInvariant == Spec => []IInv
<1>1. [Next]_vars => Step \/ UNCHANGED vars
  BY DEF Next
<1> QED
  BY <1>1, InitIInv, NextIInv, PTL DEF Spec

\* What the history remembers is rows.
LEMMA RememberedRows == IInv' /\ CrossedOK /\ [Next]_vars => CrossedOK'
<1> SUFFICES ASSUME IInv', CrossedOK, Next PROVE CrossedOK'
  BY DEF vars, CrossedOK
<1>1. ASSUME NEW p \in Process, NEW q \in Process, Crossing(proc'[p], proc'[q])
      PROVE  proc'[p].at \in Rows
  BY <1>1 DEF Crossing, Registering, Rewriting, IInv, Sound, Stored
<1> QED
  BY <1>1 DEF Next, Remember, CrossedOK

\* The variables stay in their types.
THEOREM CampaignTypeOK == Spec => []TypeOK
<1>1. Init => CrossedOK
  BY DEF Init, CrossedOK
<1>2. IInv /\ CrossedOK => TypeOK
  BY DEF IInv, StateOK, ProcState, TypeOK, CrossedOK
<1> QED
  BY <1>1, <1>2, CampaignInvariant, RememberedRows, PTL DEF Spec

\* A card of the provider never gets a second row, though nothing in the database
\* says so (upsert.py:129): the cron alone inserts, and it runs alone.
THEOREM OneRowPerUrlHolds == Spec => []OneRowPerUrl
<1>1. IInv => OneRowPerUrl
  BY DEF IInv
<1> QED
  BY <1>1, CampaignInvariant, PTL

\* The count kept in a campaign's row is never more than its asset rows, though
\* what is committed was counted some steps before (upsert.py:174-178, 274-280):
\* no step removes an asset.
THEOREM CountNeverOverstatesHolds == Spec => []CountNeverOverstates
<1>1. IInv => CountNeverOverstates
  BY DEF IInv
<1> QED
  BY <1>1, CampaignInvariant, PTL

\* What a step does to the statuses: a discovery leaves them, a cron sets a later one.
LEMMA StatusStep ==
  ASSUME IInv, Step
  PROVE  \A i \in Stored : campaign'[i].status = "discovered"
                             => campaign[i].status = "discovered"
<1> SUFFICES ASSUME NEW i \in Stored, campaign'[i].status = "discovered"
             PROVE  campaign[i].status = "discovered"
  OBVIOUS
<1>0. /\ i \in Rows /\ campaign[i] # NoRow /\ campaign[i] \in CampaignRow
      /\ campaign \in [Rows -> CampaignRow \cup {NoRow}]
  BY DEF Stored, IInv, StateOK
<1>1. ASSUME UNCHANGED campaign PROVE campaign[i].status = "discovered"
  BY <1>1
<1>2. ASSUME NEW p \in Process, NEW c \in Cards, Insert(p, c)
      PROVE  campaign[i].status = "discovered"
  <2>1. PICK k \in Rows : k \notin Stored /\ \E row : campaign' = [campaign EXCEPT ![k] = row]
    BY <1>2 DEF Insert, Fresh
  <2>2. campaign'[i] = campaign[i]
    BY <1>0, <2>1
  <2> QED
    BY <2>2
<1>3. ASSUME NEW p \in Process, NEW c \in Cards, Update(p, c)
      PROVE  campaign[i].status = "discovered"
  <2> DEFINE row == Updated(campaign[proc[p].at], proc[p])
  <2>1. proc[p].step = "update" /\ campaign' = [campaign EXCEPT ![proc[p].at] = row]
    BY <1>3 DEF Update
  <2>2. row.status = campaign[proc[p].at].status
    BY <2>1, UpdatedRow
  <2> HIDE DEF row
  <2> QED
    BY <1>0, <2>1, <2>2
<1>4. ASSUME NEW p \in Process, NEW c \in Cards, CountCommit(p, c)
      PROVE  campaign[i].status = "discovered"
  BY <1>0, <1>4 DEF CountCommit, CampaignRow
<1>5. ASSUME NEW p \in Process, PatchCommit(p) PROVE campaign[i].status = "discovered"
  <2>1. proc[p].step \in {"patch", "commit"} /\ proc[p].to # "discovered"
    BY <1>5 DEF PatchCommit, IInv, Sound
  <2> QED
    BY <1>0, <1>5, <2>1 DEF PatchCommit, CampaignRow
<1>6. ASSUME NEW k \in Rows, Rename(k) PROVE campaign[i].status = "discovered"
  BY <1>0, <1>6 DEF Rename, CampaignRow
<1>7. ASSUME NEW p \in Process, NEW c \in Cards, Discovery(p, c)
      PROVE  campaign[i].status = "discovered"
  BY <1>1, <1>2, <1>3, <1>4, <1>7
  DEF Discovery, UpsertNew, UpsertFound, UpsertRaises, InsertRaises, UpdateRaises,
      ResolveLinks, Register, Abort
<1>8. ASSUME NEW p \in Process, Continue(p) PROVE campaign[i].status = "discovered"
  <2>1. proc[p].todo \subseteq Cards
    BY DEF IInv, StateOK, ProcState
  <2> QED
    BY <1>1, <1>5, <1>7, <1>8, <2>1 DEF Continue, PostAssets, PatchRead
<1> QED
  BY <1>1, <1>6, <1>8
  DEF Step, Die, Discover, DiscoverNow, BriefTick, ResolveTick, ScoreTick, Brief,
      ResolveFolders, Score, Take

\* No step takes a campaign back to discovered, wherever the crons and the two
\* discoveries are with it (upsert.py:122).
THEOREM NeverRediscoveredHolds == Spec => NeverRediscovered
<1>1. IInv /\ [Next]_vars =>
        [\A i \in Stored : campaign'[i].status = "discovered"
                             => campaign[i].status = "discovered"]_vars
  BY StatusStep DEF Next
<1> QED
  BY <1>1, CampaignInvariant, PTL DEF Spec, NeverRediscovered

-----------------------------------------------------------------------------
\* Of the campaigns whose requests have not crossed, more holds. A link about to be
\* registered has no row yet; metadata about to be written back has the rules and the
\* score if the row has them; and the rules are there before a later status.
Kept == {"rules", "score"}

Fit(r) ==
  /\ r.step \in {"register", "post"} => \A l \in r.links \ Folders : assets[r.at][l] = 0
  /\ r.step = "update" /\ r.copy # {} =>
       \A k \in Kept : k \in r.copy <=> k \in campaign[r.at].meta
  /\ r.step = "commit" => \A k \in Kept : k \in campaign[r.at].meta => k \in r.copy
  /\ r.step \in {"post", "patch", "commit"} =>
       /\ r.to \in {"briefed", "assets_resolved", "scored"} =>
            "rules" \in r.keys \/ "rules" \in campaign[r.at].meta
       /\ r.to = "scored" => "score" \in r.keys

XInv ==
  /\ NoDuplicateAssets /\ BriefedHasRules
  /\ \A p \in Process : proc[p].at \notin crossed => Fit(proc[p])
  /\ \A p, q \in Process : p # q /\ Crossing(proc[p], proc[q]) => proc[p].at \in crossed

\* A step of process p, which keeps what is said of the others: what crosses now is
\* remembered.
LEMMA XStep ==
  ASSUME XInv, Remember, NEW p \in Process,
         \A q \in Process : q # p /\ proc'[q].at \notin crossed' => Fit(proc[q])',
         proc'[p].at \notin crossed' => Fit(proc[p])',
         NoDuplicateAssets', BriefedHasRules'
  PROVE  XInv'
<1>1. ASSUME NEW a \in Process, NEW b \in Process, a # b, Crossing(proc'[a], proc'[b])
      PROVE  proc'[a].at \in crossed'
  BY <1>1 DEF Remember
<1>2. \A a, b \in Process : a # b /\ Crossing(proc[a], proc[b])' => (proc[a].at)' \in crossed'
  BY <1>1 DEF Crossing, Registering, Rewriting
<1> QED
  BY <1>2 DEF XInv

\* One that commits nothing.
LEMMA XRead ==
  ASSUME IInv, XInv, Remember, NEW p \in Process, NEW r, Set(p, r),
         r.at \notin crossed => Fit(r), UNCHANGED <<campaign, assets>>
  PROVE  XInv'
<1>1. proc'[p] = r /\ \A q \in Process : q # p => proc'[q] = proc[q]
  BY DEF Set, IInv, StateOK
<1>2. crossed \subseteq crossed'
  BY DEF Remember
<1>3. \A q \in Process : proc'[q].at \notin crossed' => Fit(proc'[q])
  BY <1>1, <1>2 DEF XInv
<1>4. \A q \in Process : proc'[q].at \notin crossed' => Fit(proc[q])'
  BY <1>3 DEF Fit
<1>5. NoDuplicateAssets' /\ BriefedHasRules'
  BY <1>2 DEF XInv, NoDuplicateAssets, BriefedHasRules, Stored
<1> QED
  BY <1>4, <1>5, XStep

\* Of a process that holds no links and no metadata there is nothing to say.
LEMMA IdleFit ==
  ASSUME NEW r, r.step \in {"idle", "next", "insert", "links", "count"}
  PROVE  Fit(r)
BY DEF Fit

\* One that commits row i, of which no other request holds the metadata if the rules
\* or the score come or go.
LEMMA XRow ==
  ASSUME IInv, XInv, Remember, NEW p \in Process, NEW i \in Stored, NEW row \in CampaignRow,
         campaign' = [campaign EXCEPT ![i] = row], UNCHANGED assets,
         \A q \in Process : q # p => proc'[q] = proc[q],
         i \notin crossed =>
           /\ row.status \in {"briefed", "assets_resolved", "scored"} => "rules" \in row.meta
           /\ row.status = "scored" => "score" \in row.meta
           /\ \A k \in Kept : k \in campaign[i].meta => k \in row.meta
           /\ \/ \A k \in Kept : k \in row.meta => k \in campaign[i].meta
              \/ \A q \in Process : q # p /\ proc[q].at = i => ~Rewriting(proc[q]),
         \/ proc'[p].step \in {"idle", "next", "links"}
         \/ proc'[p] = proc[p] /\ row.meta = campaign[i].meta
  PROVE  XInv'
<1>1. /\ i \in Rows /\ campaign'[i] = row /\ row # NoRow
      /\ \A k \in Rows : k # i => campaign'[k] = campaign[k]
      /\ crossed \subseteq crossed'
  BY NoRowAssumption DEF IInv, StateOK, Stored, Remember
<1>2. Stored' = Stored
  BY <1>1, NoRowAssumption DEF Stored
<1>3. BriefedHasRules'
  <2> SUFFICES ASSUME NEW k \in Stored \ crossed'
               PROVE  /\ campaign'[k].status \in {"briefed", "assets_resolved", "scored"}
                           => "rules" \in campaign'[k].meta
                      /\ campaign'[k].status = "scored" => "score" \in campaign'[k].meta
    BY <1>2 DEF BriefedHasRules
  <2>1. CASE k = i
    BY <1>1, <2>1
  <2>2. CASE k # i
    BY <1>1, <2>2 DEF XInv, BriefedHasRules, Stored
  <2> QED
    BY <2>1, <2>2
<1>4. NoDuplicateAssets'
  BY <1>1 DEF XInv, NoDuplicateAssets
<1>5. ASSUME NEW q \in Process, q # p, proc'[q].at \notin crossed'
      PROVE  Fit(proc[q])'
  <2>1. /\ proc'[q] = proc[q] /\ proc[q].at \notin crossed /\ Fit(proc[q]) /\ Sound(q, proc[q])
    BY <1>1, <1>5 DEF IInv, XInv
  <2>2. proc[q].step \in {"register", "post", "update", "commit", "patch"}
          => proc[q].at \in Stored
    BY <2>1 DEF Sound
  <2>3. CASE proc[q].at # i
    <3>1. proc[q].at \in Stored => campaign'[proc[q].at] = campaign[proc[q].at]
      BY <1>1, <2>3 DEF Stored
    <3> QED
      BY <2>1, <2>2, <3>1 DEF Fit
  <2>4. CASE proc[q].at = i
    <3>1. CASE \A k \in Kept : k \in row.meta => k \in campaign[i].meta
      BY <1>1, <2>1, <2>4, <3>1 DEF Fit, Kept
    <3>2. CASE ~Rewriting(proc[q])
      BY <1>1, <2>1, <2>4, <3>2 DEF Fit, Rewriting, Kept
    <3> QED
      BY <1>5, <2>1, <2>4, <3>1, <3>2
  <2> QED
    BY <2>3, <2>4
<1>6. proc'[p].at \notin crossed' => Fit(proc[p])'
  <2>1. CASE proc'[p].step \in {"idle", "next", "links"}
    BY <2>1 DEF Fit
  <2>2. CASE proc'[p] = proc[p] /\ row.meta = campaign[i].meta
    <3>1. proc[p].at \notin crossed => Fit(proc[p])
      BY DEF XInv
    <3>2. proc[p].step \in {"register", "post", "update", "commit", "patch"}
            => proc[p].at \in Stored
      BY DEF IInv, Sound
    <3>3. proc[p].at \in Stored => campaign'[proc[p].at].meta = campaign[proc[p].at].meta
      BY <1>1, <2>2 DEF Stored
    <3> QED
      BY <1>1, <2>2, <3>1, <3>2, <3>3 DEF Fit
  <2> QED
    BY <2>1, <2>2
<1> QED
  BY <1>3, <1>4, <1>5, <1>6, XStep

\* One that registers the links ls of row i, none of which is there yet, but folders:
\* no other request is about to register any file.
LEMMA XLinks ==
  ASSUME IInv, XInv, Remember, NEW p \in Process, NEW i \in Rows, NEW ls \in SUBSET Links,
         proc[p].step \in {"register", "post"}, proc[p].at = i, proc[p].links = ls,
         assets' = WithAssets(i, ls), UNCHANGED campaign,
         \A q \in Process : q # p => proc'[q] = proc[q],
         proc'[p].at \notin crossed' => Fit(proc[p])'
  PROVE  XInv'
<1>1. /\ \A l \in Links : assets'[i][l] = assets[i][l] + IF l \in ls THEN 1 ELSE 0
      /\ \A k \in Rows : k # i => assets'[k] = assets[k]
      /\ \A k \in Rows, l \in Links : assets[k][l] \in Nat
      /\ crossed \subseteq crossed'
  BY DEF WithAssets, IInv, StateOK, Remember
<1>2. i \notin crossed => \A l \in ls \ Folders : assets[i][l] = 0
  BY DEF XInv, Fit
<1>3. NoDuplicateAssets'
  BY <1>1, <1>2 DEF XInv, NoDuplicateAssets
<1>4. BriefedHasRules'
  BY <1>1 DEF XInv, BriefedHasRules, Stored
<1>5. ASSUME NEW q \in Process, q # p, proc'[q].at \notin crossed'
      PROVE  Fit(proc[q])'
  <2>1. /\ proc'[q] = proc[q] /\ proc[q].at \notin crossed /\ Fit(proc[q]) /\ Sound(q, proc[q])
        /\ proc[q] \in ProcState
    BY <1>1, <1>5 DEF IInv, XInv, StateOK
  <2>2. CASE proc[q].step \notin {"register", "post"}
    BY <2>1, <2>2 DEF Fit
  <2>3. CASE proc[q].step \in {"register", "post"}
    <3>1. proc[q].at \in Rows /\ proc[q].links \in SUBSET Links
      BY <2>1, <2>3 DEF Sound, Stored, ProcState
    <3>2. ~Crossing(proc[p], proc[q])
      BY <1>5, <2>1 DEF XInv, Crossing
    <3>3. \A l \in proc[q].links \ Folders : assets'[proc[q].at][l] = assets[proc[q].at][l]
      BY <1>1, <2>3, <3>1, <3>2 DEF Crossing, Registering
    <3> QED
      BY <2>1, <3>3 DEF Fit
  <2> QED
    BY <2>2, <2>3
<1> QED
  BY <1>3, <1>4, <1>5, XStep

-----------------------------------------------------------------------------
\* The reads: a discovery starts; a process gives up, or is killed.
LEMMA StartXInv ==
  ASSUME IInv, XInv, Remember, NEW p \in Process, UNCHANGED <<campaign, assets>>,
         NEW r, Set(p, r), r.step \in {"idle", "next"}
  PROVE  XInv'
<1>1. Fit(r)
  BY DEF Fit
<1> QED
  BY <1>1, XRead

\* A discovery finds a card, or not: the metadata it reads is that of the row.
LEMMA UpsertXInv ==
  ASSUME IInv, XInv, Remember, NEW p \in Process, NEW c \in Cards,
         UpsertNew(p, c) \/ UpsertFound(p, c)
  PROVE  XInv'
<1>1. proc[p] \in ProcState /\ UNCHANGED <<campaign, assets>>
  BY DEF UpsertNew, UpsertFound, IInv, StateOK
<1>2. CASE UpsertNew(p, c)
  <2>1. PICK n \in Names : Set(p, [proc[p] EXCEPT !.step = "insert", !.name = n])
    BY <1>2 DEF UpsertNew
  <2> DEFINE r == [proc[p] EXCEPT !.step = "insert", !.name = n]
  <2>2. r.step = "insert"
    BY <1>1 DEF ProcState
  <2> HIDE DEF r
  <2>3. Set(p, r)
    BY <2>1 DEF r
  <2> QED
    BY <1>1, <2>2, <2>3, IdleFit, XRead
<1>3. CASE UpsertFound(p, c)
  <2>1. PICK i \in Existing(c), n \in Names \cup {ByHand} :
          Set(p, [proc[p] EXCEPT
            !.step = "update", !.at = i,
            !.copy = IF c \in Unchanged /\ "links" \notin campaign[i].meta THEN {}
                     ELSE campaign[i].meta,
            !.name = n,
            !.count = IF AssetCount(i) = campaign[i].count THEN Keep ELSE AssetCount(i)])
    BY <1>3 DEF UpsertFound
  <2> DEFINE r == [proc[p] EXCEPT
            !.step = "update", !.at = i,
            !.copy = IF c \in Unchanged /\ "links" \notin campaign[i].meta THEN {}
                     ELSE campaign[i].meta,
            !.name = n,
            !.count = IF AssetCount(i) = campaign[i].count THEN Keep ELSE AssetCount(i)]
  <2>2. r.step = "update" /\ r.at = i /\ r.copy \in {{}, campaign[i].meta}
    BY <1>1 DEF ProcState
  <2> HIDE DEF r
  <2>3. Fit(r)
    BY <2>2 DEF Fit
  <2>4. Set(p, r)
    BY <2>1 DEF r
  <2> QED
    BY <1>1, <2>3, <2>4, XRead
<1> QED
  BY <1>2, <1>3

\* The links looked up are those without a row.
LEMMA ResolveXInv ==
  ASSUME IInv, XInv, Remember, NEW p \in Process, NEW c \in Cards, ResolveLinks(p, c)
  PROVE  XInv'
<1> DEFINE ls == Unregistered(proc[p].at, c)
           r == [proc[p] EXCEPT !.step = "register", !.links = ls]
<1>1. /\ proc[p] \in ProcState /\ UNCHANGED <<campaign, assets>>
      /\ Set(p, Idle) \/ Set(p, r)
  BY DEF ResolveLinks, IInv, StateOK
<1>2. \A l \in ls : assets[proc[p].at][l] = 0
  BY DEF Unregistered
<1> HIDE DEF ls
<1>3. r.step = "register" /\ r.at = proc[p].at /\ r.links = ls
  BY <1>1 DEF ProcState
<1> HIDE DEF r
<1>4. Fit(r)
  BY <1>2, <1>3 DEF Fit
<1>5. Idle.step = "idle"
  BY DEF Idle
<1> QED
  BY <1>1, <1>4, <1>5, XRead, StartXInv

\* A cron takes up a campaign: what it read is so, until another request crosses it.
LEMMA CronsXInv ==
  ASSUME IInv, XInv, Remember, BriefTick \/ ResolveTick \/ ScoreTick
  PROVE  XInv'
<1>1. PICK i \in Rows : Brief(i) \/ ResolveFolders(i) \/ Score(i)
  BY DEF BriefTick, ResolveTick, ScoreTick
<1>2. PICK p \in {"brief", "resolve", "score"}, ls \in SUBSET Links,
           to \in CampaignStatus \ {"discovered"}, ks \in SUBSET MetaKeys :
        /\ Take(p, i, ls, to, ks)
        /\ \A l \in ls \ Folders : assets[i][l] = 0
        /\ to = "briefed" => "rules" \in ks
        /\ to = "assets_resolved" => campaign[i].status = "briefed"
        /\ to = "scored" => ks = {"score"} /\ "rules" \in campaign[i].meta
  BY <1>1, CronTakes DEF IInv
<1>3. i \in Stored
  BY <1>1, CronTakes DEF IInv
<1> DEFINE r == [Idle EXCEPT !.step = IF ls = {} THEN "patch" ELSE "post",
                             !.at = i, !.links = ls, !.to = to, !.keys = ks]
<1>4. Set(p, r) /\ UNCHANGED <<campaign, assets>>
  BY <1>2 DEF Take
<1>5. r.step \in {"patch", "post"} /\ r.at = i /\ r.to = to /\ r.links = ls /\ r.keys = ks
  BY DEF Idle
<1> HIDE DEF r
<1>6. i \notin crossed /\ campaign[i].status = "briefed" => "rules" \in campaign[i].meta
  BY <1>3 DEF XInv, BriefedHasRules
<1>7. r.at \notin crossed => Fit(r)
  BY <1>2, <1>5, <1>6 DEF Fit
<1> QED
  BY <1>4, <1>7, XRead, Kinds

\* PATCH reads the metadata that is in the row.
LEMMA PatchReadXInv ==
  ASSUME IInv, XInv, Remember, NEW p \in Process, PatchRead(p)
  PROVE  XInv'
<1> DEFINE r == [proc[p] EXCEPT !.step = "commit", !.copy = campaign[proc[p].at].meta]
<1>1. /\ proc[p].step = "patch" /\ proc[p] \in ProcState
      /\ proc[p].at \notin crossed => Fit(proc[p])
      /\ UNCHANGED <<campaign, assets>> /\ Set(p, r)
  BY DEF PatchRead, IInv, XInv, StateOK
<1>2. /\ r.step = "commit" /\ r.at = proc[p].at /\ r.to = proc[p].to
      /\ r.keys = proc[p].keys /\ r.copy = campaign[proc[p].at].meta
  BY <1>1 DEF ProcState
<1> HIDE DEF r
<1>3. r.at \notin crossed => Fit(r)
  BY <1>1, <1>2 DEF Fit
<1> QED
  BY <1>1, <1>3, XRead

-----------------------------------------------------------------------------
\* The commits. A discovery inserts a campaign whose status promises nothing.
LEMMA InsertXInv ==
  ASSUME IInv, XInv, Remember, NEW p \in Process, NEW c \in Cards, Insert(p, c)
  PROVE  XInv'
<1>1. proc[p].step = "insert" /\ p = "cron" /\ p \notin Requests
  BY Kinds DEF Insert, IInv, Sound
<1>2. PICK i \in Rows :
        /\ Fresh(i)
        /\ campaign' = [campaign EXCEPT ![i] =
             [url |-> c, name |-> proc[p].name, status |-> "discovered",
              meta |-> {"card"}, count |-> 0]]
        /\ Set(p, Onwards(p, c))
  BY <1>1 DEF Insert
<1>3. /\ i \notin Stored /\ campaign'[i].status = "discovered"
      /\ \A k \in Rows : k # i => campaign'[k] = campaign[k]
      /\ \A k \in Stored : campaign'[k] = campaign[k]
      /\ UNCHANGED assets /\ crossed \subseteq crossed'
  BY <1>2 DEF Fresh, Stored, IInv, StateOK, Insert, Remember
<1>4. BriefedHasRules'
  BY <1>3 DEF Stored, XInv, BriefedHasRules
<1>5. NoDuplicateAssets'
  BY <1>3 DEF XInv, NoDuplicateAssets
<1>6. /\ proc'[p].step \in {"idle", "next"}
      /\ \A q \in Process : q # p => proc'[q] = proc[q]
  BY <1>2 DEF Set, Onwards, Idle, IInv, StateOK
<1>7. Fit(proc[p])'
  BY <1>6 DEF Fit
<1>8. ASSUME NEW q \in Process, q # p, proc'[q].at \notin crossed' PROVE Fit(proc[q])'
  <2>1. proc[q].step \in {"register", "post", "update", "commit", "patch"}
          => proc[q].at \in Stored
    BY DEF IInv, Sound
  <2>2. Fit(proc[q]) /\ proc'[q] = proc[q]
    BY <1>3, <1>6, <1>8 DEF XInv
  <2> QED
    BY <1>3, <2>1, <2>2 DEF Fit
<1> QED
  BY <1>4, <1>5, <1>7, <1>8, XStep

\* It writes the rules and the score back as the row has them.
LEMMA UpdateXInv ==
  ASSUME IInv, XInv, Remember, NEW p \in Process, NEW c \in Cards, Update(p, c)
  PROVE  XInv'
<1>1. /\ proc[p].step = "update" /\ proc[p] \in ProcState /\ proc[p].at \in Stored
      /\ proc[p].at \notin crossed => Fit(proc[p])
  BY DEF Update, IInv, XInv, StateOK, Sound
<1>2. PICK i \in Stored : i = proc[p].at
  BY <1>1
<1> DEFINE row == Updated(campaign[i], proc[p])
<1>3. /\ row \in CampaignRow /\ row.status = campaign[i].status
      /\ row.meta = IF proc[p].copy = {} THEN campaign[i].meta
                    ELSE (proc[p].copy \ {"links"}) \cup {"card"}
  BY <1>1, <1>2, UpdatedRow
<1>4. /\ campaign' = [campaign EXCEPT ![i] = row] /\ UNCHANGED assets
      /\ \E r : Set(p, r) /\ r.step \in {"idle", "next", "links"}
  <2>1. Onwards(p, c).step \in {"idle", "next"}
    BY DEF Onwards, Idle
  <2> DEFINE r == [proc[p] EXCEPT !.step = "links", !.count = row.count,
                                  !.copy = {}, !.name = ByHand]
  <2>2. r.step = "links"
    BY <1>1 DEF ProcState
  <2>3. /\ campaign' = [campaign EXCEPT ![i] = row] /\ UNCHANGED assets
        /\ Set(p, r) \/ Set(p, Onwards(p, c))
    BY <1>2 DEF Update
  <2> HIDE DEF r, row
  <2> QED
    BY <2>1, <2>2, <2>3
<1> HIDE DEF row
<1>5. i \notin crossed => \A k \in Kept : k \in row.meta <=> k \in campaign[i].meta
  BY <1>1, <1>2, <1>3 DEF Fit, Kept
<1>6. i \notin crossed =>
        /\ row.status \in {"briefed", "assets_resolved", "scored"} => "rules" \in row.meta
        /\ row.status = "scored" => "score" \in row.meta
  BY <1>3, <1>5 DEF XInv, BriefedHasRules, Kept
<1>7. /\ proc'[p].step \in {"idle", "next", "links"}
      /\ \A q \in Process : q # p => proc'[q] = proc[q]
  BY <1>4 DEF Set, IInv, StateOK
<1> QED
  BY <1>3, <1>4, <1>5, <1>6, <1>7, XRow

\* The commit of assets_count touches neither status nor metadata.
LEMMA CountXInv ==
  ASSUME IInv, XInv, Remember, NEW p \in Process, NEW c \in Cards, CountCommit(p, c)
  PROVE  XInv'
<1>1. /\ proc[p].step = "count" /\ proc[p] \in ProcState /\ proc[p].at \in Stored
      /\ proc[p].count # Keep
  BY DEF CountCommit, IInv, StateOK, Sound
<1>2. PICK i \in Stored : i = proc[p].at
  BY <1>1
<1> DEFINE row == [campaign[i] EXCEPT !.count = proc[p].count]
<1>3. campaign[i] \in CampaignRow
  BY DEF Stored, IInv, StateOK
<1>4. row \in CampaignRow /\ row.status = campaign[i].status /\ row.meta = campaign[i].meta
  BY <1>1, <1>3 DEF CampaignRow, ProcState
<1>5. /\ campaign' = [campaign EXCEPT ![i] = row] /\ UNCHANGED assets
      /\ Set(p, Onwards(p, c))
  BY <1>2 DEF CountCommit
<1> HIDE DEF row
<1>6. /\ proc'[p].step \in {"idle", "next"}
      /\ \A q \in Process : q # p => proc'[q] = proc[q]
  BY <1>5 DEF Set, Onwards, Idle, IInv, StateOK
<1>7. i \notin crossed =>
        /\ row.status \in {"briefed", "assets_resolved", "scored"} => "rules" \in row.meta
        /\ row.status = "scored" => "score" \in row.meta
  BY <1>4 DEF XInv, BriefedHasRules
<1> QED
  BY <1>4, <1>5, <1>6, <1>7, XRow

\* The status and the keys it stands for are committed together, and no other request
\* holds the metadata.
LEMMA PatchCommitXInv ==
  ASSUME IInv, XInv, Remember, NEW p \in Process, PatchCommit(p)
  PROVE  XInv'
<1>1. /\ proc[p].step = IF proc[p].keys = {} THEN "patch" ELSE "commit"
      /\ proc[p].at \in Stored /\ proc[p] \in ProcState
      /\ proc[p].at \notin crossed => Fit(proc[p])
  BY DEF PatchCommit, IInv, XInv, StateOK, Sound
<1>2. PICK i \in Stored : i = proc[p].at
  BY <1>1
<1> DEFINE row == [campaign[i] EXCEPT !.status = proc[p].to,
                     !.meta = IF proc[p].keys = {} THEN @ ELSE proc[p].copy \cup proc[p].keys]
<1>3. i \in Rows /\ campaign[i] \in CampaignRow
  BY DEF Stored, IInv, StateOK
<1>4. /\ row \in CampaignRow /\ row.status = proc[p].to
      /\ row.meta = IF proc[p].keys = {} THEN campaign[i].meta
                    ELSE proc[p].copy \cup proc[p].keys
  BY <1>1, <1>3 DEF CampaignRow, ProcState
<1>5. campaign' = [campaign EXCEPT ![i] = row] /\ UNCHANGED assets /\ Set(p, Idle)
  BY <1>2, <1>3 DEF PatchCommit, CampaignRow
<1> HIDE DEF row
<1>6. /\ proc'[p].step = "idle" /\ \A q \in Process : q # p => proc'[q] = proc[q]
  BY <1>5 DEF Set, IInv, StateOK, Idle
<1>7. ASSUME i \notin crossed
      PROVE  /\ row.status \in {"briefed", "assets_resolved", "scored"} => "rules" \in row.meta
             /\ row.status = "scored" => "score" \in row.meta
             /\ \A k \in Kept : k \in campaign[i].meta => k \in row.meta
  BY <1>1, <1>2, <1>4, <1>7 DEF Fit, Kept
<1>8. ASSUME i \notin crossed, proc[p].keys # {},
             NEW q \in Process, q # p, proc[q].at = i
      PROVE  ~Rewriting(proc[q])
  <2>1. ~Crossing(proc[q], proc[p])
    BY <1>8 DEF XInv
  <2> QED
    BY <1>1, <1>2, <1>8, <2>1 DEF Crossing, Rewriting
<1>9. i \notin crossed =>
        \/ \A k \in Kept : k \in row.meta => k \in campaign[i].meta
        \/ \A q \in Process : q # p /\ proc[q].at = i => ~Rewriting(proc[q])
  BY <1>4, <1>8
<1> QED
  BY <1>4, <1>5, <1>6, <1>7, <1>9, XRow

\* Nor does the operator's PATCH of a name touch either.
LEMMA RenameXInv ==
  ASSUME IInv, XInv, Remember, NEW i \in Rows, Rename(i)
  PROVE  XInv'
<1> DEFINE row == [campaign[i] EXCEPT !.name = ByHand]
<1>1. i \in Stored /\ campaign[i] \in CampaignRow
  BY DEF Rename, IInv, StateOK, Stored
<1>2. row \in CampaignRow /\ row.status = campaign[i].status /\ row.meta = campaign[i].meta
  BY <1>1 DEF CampaignRow
<1>3. campaign' = [campaign EXCEPT ![i] = row] /\ UNCHANGED <<assets, proc>>
  BY <1>1 DEF Rename, CampaignRow
<1> HIDE DEF row
<1>4. i \notin crossed =>
        /\ row.status \in {"briefed", "assets_resolved", "scored"} => "rules" \in row.meta
        /\ row.status = "scored" => "score" \in row.meta
  BY <1>1, <1>2 DEF XInv, BriefedHasRules
<1> QED
  BY <1>1, <1>2, <1>3, <1>4, XRow, Kinds

\* No link registered is there already: each was looked up, or is a folder.
LEMMA RegisterXInv ==
  ASSUME IInv, XInv, Remember, NEW p \in Process,
         PostAssets(p) \/ \E c \in Cards : Register(p, c)
  PROVE  XInv'
<1>1. /\ proc[p].step \in {"register", "post"} /\ proc[p] \in ProcState
      /\ proc[p].at \in Rows /\ proc[p].links \in SUBSET Links
      /\ proc[p].at \notin crossed => Fit(proc[p])
  BY DEF Register, PostAssets, IInv, XInv, StateOK, ProcState, Sound, Stored
<1>2. PICK i \in Rows, ls \in SUBSET Links : i = proc[p].at /\ ls = proc[p].links
  BY <1>1
<1>3. /\ assets' = WithAssets(i, ls) /\ UNCHANGED campaign
      /\ \A q \in Process : q # p => proc'[q] = proc[q]
      /\ crossed \subseteq crossed'
  BY <1>2 DEF Register, PostAssets, Set, IInv, StateOK, Remember
<1>4. proc'[p].at \notin crossed' => Fit(proc[p])'
  <2>1. CASE \E c \in Cards : Register(p, c)
    <3>1. PICK c \in Cards : Register(p, c)
      BY <2>1
    <3>2. \A n : Set(p, [proc[p] EXCEPT !.step = "count", !.links = {}, !.count = n])
             => proc'[p].step = "count"
      BY <1>1 DEF Set, ProcState, IInv, StateOK
    <3>3. Set(p, Onwards(p, c)) => proc'[p].step \in {"idle", "next"}
      BY DEF Set, Onwards, Idle, IInv, StateOK
    <3>4. proc'[p].step \in {"count", "idle", "next"}
      BY <3>1, <3>2, <3>3 DEF Register
    <3> QED
      BY <3>4 DEF Fit
  <2>2. CASE PostAssets(p)
    <3>1. /\ proc'[p].step = "patch" /\ proc'[p].at = proc[p].at
          /\ proc'[p].to = proc[p].to /\ proc'[p].keys = proc[p].keys
          /\ proc[p].step = "post"
      BY <1>1, <2>2 DEF PostAssets, Set, ProcState, IInv, StateOK
    <3> QED
      BY <1>1, <1>3, <3>1 DEF Fit
  <2> QED
    BY <2>1, <2>2
<1> QED
  BY <1>1, <1>2, <1>3, <1>4, XLinks

-----------------------------------------------------------------------------
\* Nothing is stored at first.
LEMMA InitXInv == Init => XInv
BY DEF Init, Idle, XInv, NoDuplicateAssets, BriefedHasRules, Fit, Stored, Crossing,
       Registering, Rewriting

\* Every action preserves it, with what it makes cross remembered.
LEMMA NextXInv == IInv /\ XInv /\ [Next]_vars => XInv'
<1> SUFFICES ASSUME IInv, XInv, [Next]_vars PROVE XInv'
  OBVIOUS
<1>1. CASE UNCHANGED vars
  <2>1. XInv /\ UNCHANGED vars => XInv'
    BY DEF vars, XInv, NoDuplicateAssets, BriefedHasRules, Fit, Stored, Crossing, Registering,
           Rewriting
  <2> QED
    BY <1>1, <2>1
<1>2. CASE Step /\ Remember
  <2>1. ASSUME NEW p \in Process, NEW c \in Cards, Discovery(p, c) PROVE XInv'
    <3>1. ASSUME UpsertRaises(p, c) \/ InsertRaises(p, c) \/ UpdateRaises(p, c) PROVE XInv'
      <4>1. Set(p, Idle) /\ UNCHANGED <<campaign, assets>> /\ Idle.step = "idle"
        BY <3>1 DEF UpsertRaises, InsertRaises, UpdateRaises, Abort, Idle
      <4> QED
        BY <1>2, <4>1, StartXInv
    <3> QED
      BY <1>2, <2>1, <3>1, UpsertXInv, InsertXInv, UpdateXInv, ResolveXInv, RegisterXInv,
         CountXInv
      DEF Discovery
  <2>2. ASSUME NEW p \in Process, Continue(p) PROVE XInv'
    <3>1. proc[p].todo \subseteq Cards
      BY DEF IInv, StateOK, ProcState
    <3> QED
      BY <1>2, <2>1, <2>2, <3>1, RegisterXInv, PatchReadXInv, PatchCommitXInv DEF Continue
  <2>3. ASSUME NEW p \in Process, Die(p) PROVE XInv'
    <3>1. Set(p, Idle) /\ UNCHANGED <<campaign, assets>> /\ Idle.step = "idle"
      BY <2>3 DEF Die, Idle
    <3> QED
      BY <1>2, <3>1, StartXInv
  <2>4. ASSUME NEW S, NEW p \in Process, (Discover(S) /\ p = "cron") \/ DiscoverNow(p, S)
        PROVE  XInv'
    <3> DEFINE r == [Idle EXCEPT !.step = "next", !.todo = S]
    <3>1. Set(p, r) /\ UNCHANGED <<campaign, assets>> /\ r.step = "next"
      BY <2>4 DEF Discover, DiscoverNow, Idle
    <3> HIDE DEF r
    <3> QED
      BY <1>2, <3>1, StartXInv
  <2> QED
    BY <1>2, <2>2, <2>3, <2>4, CronsXInv, RenameXInv, Kinds DEF Step
<1> QED
  BY <1>1, <1>2 DEF Next

\* Both invariants hold of every reachable state.
THEOREM CrossingInvariant == Spec => []XInv
  BY NextXInv, InitXInv, CampaignInvariant, PTL DEF Spec

\* No URL is registered twice for a campaign, whatever runs beside what and wherever a
\* process is killed, until two of its requests are about to register assets at the
\* same time (asset_resolver.py:20 and 231).
THEOREM NoDuplicateAssetsHolds == Spec => []NoDuplicateAssets
<1>1. XInv => NoDuplicateAssets
  BY DEF XInv
<1> QED
  BY <1>1, CrossingInvariant, PTL

\* And source_metadata has what the status says the crons have written, although a
\* discovery writes that column as a whole (architecture_flow.md:275 and 277), until
\* a cron's PATCH of it is between its read and its commit while another request is.
THEOREM BriefedHasRulesHolds == Spec => []BriefedHasRules
<1>1. XInv => BriefedHasRules
  BY DEF XInv
<1> QED
  BY <1>1, CrossingInvariant, PTL
=============================================================================
