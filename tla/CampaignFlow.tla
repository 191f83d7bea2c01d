----------------------------- MODULE CampaignFlow -----------------------------
(***************************************************************************)
(* The campaigns table and those who write it: the discovery cron          *)
(* (scripts/whop_discovery.py) and POST /discovery/run, which store the    *)
(* cards of the provider (app/services/discovery/upsert.py), the crons     *)
(* brief-reader, drive-resolver and campaign-scorer, which move a campaign *)
(* on by PATCH /campaigns/{id} and register its assets, and an operator    *)
(* who renames one.                                                        *)
(*                                                                         *)
(* A request reads the row it will change, and commits later; it writes    *)
(* source_metadata as a whole, as it read it, with its own keys merged in. *)
(* Nothing keeps a request from running beside any other. The three crons  *)
(* are not part of the repository: only the requests they send, in the     *)
(* order the docs give, are modelled, and one run of each cron at a time.  *)
(***************************************************************************)
EXTENDS Integers, FiniteSets

CONSTANTS
  Cards,        \* campaigns of the provider, numbered in its order
  Listings,     \* sets of cards the provider may list to the cron (not the empty one)
  Shortlists,   \* and those it may list to a request, which has a limit of its own
  Unchanged,    \* cards that say the same each time they are listed
  Base,         \* representative name of each card, before a suffix
  CardLinks,    \* asset_links of each card, as written
  DriveFiles,   \* files the drive resolver finds for each card
  Outcomes,     \* the statuses brief-reader and drive-resolver may give each card
  Links,        \* URLs: a file may have several
  Folders,      \* the links that are Drive folders
  Canon,        \* what rewrite_drive_url makes of each link
  FileOf,       \* the file, by its id, that each link names
  Refused,      \* cards the database refuses: name longer than its column
  Rows,         \* ids of campaign rows, in the order they are inserted
  Requests,     \* POST /discovery/run, as often as it may run at the same time
  Budget,       \* bound: renames, POST /discovery/run and killed processes, in all
  NoRow         \* the row does not exist; the process has no row in hand

\* The discovery cron, and the crons 3a, 3b and 3c.
Crons == {"cron", "brief", "resolve", "score"}

Process == Crons \cup Requests

CampaignStatus == {"discovered", "briefed", "assets_resolved", "scored",
                   "blocked_no_assets", "failed_brief", "failed_resolve"}

ASSUME CampaignAssumption ==
  /\ Cards \subseteq Nat /\ IsFiniteSet(Cards) /\ 0 \notin Cards
  /\ Listings \cup Shortlists \subseteq (SUBSET Cards) \ {{}}
  /\ IsFiniteSet(Links) /\ Folders \subseteq Links
  /\ CardLinks \in [Cards -> SUBSET Links]
  /\ DriveFiles \in [Cards -> SUBSET (Links \ Folders)]
  /\ \A c \in Cards : {"briefed", "failed_brief"} \cap Outcomes[c] # {}
  /\ \A c \in Cards : {"assets_resolved", "failed_resolve"} \cap Outcomes[c] # {}
  /\ Refused \subseteq Cards /\ Unchanged \subseteq Cards
  /\ Rows \subseteq Nat /\ IsFiniteSet(Rows)
  /\ Canon \in [Links -> Links] /\ \A l \in Links \ Folders : Canon[l] \notin Folders
  /\ DOMAIN FileOf = Links
  /\ Requests \cap Crons = {}
  /\ Budget \in Nat
  /\ NoRow \notin Rows

VARIABLES
  campaign,     \* each row: url (its card), name, status, meta (the keys of
                \* source_metadata), count (assets_count); or NoRow
  assets,       \* how many asset rows each campaign has for each link
  proc,         \* each process: where it is, and what it has read
  budget,       \* how much of Budget is left
  crossed       \* history: the rows whose requests have crossed, see Crossing

state == <<campaign, assets, proc, budget>>
vars == <<campaign, assets, proc, budget, crossed>>

\* The card's keys, the rules and the links brief-reader found (under asset_links,
\* which is a key of the card's too), and the score.
MetaKeys == {"card", "rules", "links", "score"}

\* A name of the column: a representative one with its suffix, or the operator's.
Names == {Base[c] : c \in Cards} \X (1..(Cardinality(Rows) + 1))
ByHand == <<"by hand", 1>>

CampaignRow ==
  [url : Cards, name : Names \cup {ByHand}, status : CampaignStatus,
   meta : SUBSET MetaKeys, count : Nat]

ASSUME NoRowAssumption == NoRow \notin CampaignRow

\* A column the ORM leaves out of its UPDATE, because its value has not changed.
Keep == -1

Idle == [step |-> "idle", todo |-> {}, at |-> NoRow, copy |-> {}, name |-> ByHand,
         count |-> Keep, links |-> {}, to |-> "discovered", keys |-> {}]

Init ==
  /\ campaign = [i \in Rows |-> NoRow]
  /\ assets = [i \in Rows |-> [l \in Links |-> 0]]
  /\ proc = [p \in Process |-> Idle]
  /\ budget = Budget
  /\ crossed = {}

Stored == {i \in Rows : campaign[i] # NoRow}

\* The rows SELECT ... WHERE source_provider AND source_url finds.
Existing(c) == {i \in Stored : campaign[i].url = c}

\* SELECT count(*) FROM assets WHERE campaign_id = i: the first, second, ... row of
\* each link.
AssetRows(i) == UNION {{l} \X (1..assets[i][l]) : l \in Links}

AssetCount(i) == Cardinality(AssetRows(i))

\* Another row than i has name n.
Taken(n, i) == \E k \in Stored \ {i} : campaign[k].name = n

\* _unique_name: name n is the base with the first free suffix.
UniqueName(base, i, n) ==
  \E s \in 1..(Cardinality(Rows) + 1) :
    /\ n = <<base, s>> /\ ~Taken(n, i)
    /\ \A r \in 1..(s - 1) : Taken(<<base, r>>, i)

\* _is_representative.
Representative(n) == n # ByHand

\* Mutant: DRAFT is put back, so that the request inserts rows too.
MayInsert_Draft(p) == p \in {"cron"} \cup Requests

\* Mutant: the cron leaves the status to its default.
MayInsert_Default(p) == FALSE

\* Only the cron passes a status for new rows; the default of upsert_campaign and
\* of create_campaign, CampaignStatus.DRAFT, no longer exists: AttributeError.
MayInsert(p) == p = "cron"

Set(p, r) == proc' = [proc EXCEPT ![p] = r]

\* The card a discovery has come to.
Current(p, c) == c \in proc[p].todo /\ \A d \in proc[p].todo : c <= d

\* Done with card c: on with the next one.
Onwards(p, c) ==
  LET todo == proc[p].todo \ {c}
  IN [Idle EXCEPT !.step = IF todo = {} THEN "idle" ELSE "next", !.todo = todo]

\* IntegrityError, AttributeError, MultipleResultsFound, or a killed process: what
\* is not committed is rolled back, and the rest of the cards is left.
Abort(p) == Set(p, Idle) /\ UNCHANGED <<campaign, assets, budget>>

-----------------------------------------------------------------------------
\* The cron asks the provider: it lists the cards S this time.
Discover(S) ==
  /\ proc["cron"].step = "idle"
  /\ Set("cron", [Idle EXCEPT !.step = "next", !.todo = S])
  /\ UNCHANGED <<campaign, assets, budget>>

\* POST /discovery/run, by hand, asks it too.
DiscoverNow(p, S) ==
  /\ budget > 0 /\ proc[p].step = "idle"
  /\ Set(p, [Idle EXCEPT !.step = "next", !.todo = S])
  /\ budget' = budget - 1
  /\ UNCHANGED <<campaign, assets>>

\* upsert_campaign, the card is new: a name is chosen.
UpsertNew(p, c) ==
  /\ proc[p].step = "next" /\ Current(p, c)
  /\ Existing(c) = {}
  /\ MayInsert(p)
  /\ \E n \in Names : /\ UniqueName(Base[c], NoRow, n)
                      /\ Set(p, [proc[p] EXCEPT !.step = "insert", !.name = n])
  /\ UNCHANGED <<campaign, assets, budget>>

\* The card has a row: its metadata is read (and will be written unless that is what
\* the card says already), its assets are counted, and a name that is not a
\* representative one is to be replaced.
UpsertFound(p, c) ==
  /\ proc[p].step = "next" /\ Current(p, c)
  /\ \E i \in Existing(c), n \in Names \cup {ByHand} :
       /\ Existing(c) = {i}
       /\ IF Representative(campaign[i].name) THEN n = ByHand ELSE UniqueName(Base[c], i, n)
       /\ Set(p, [proc[p] EXCEPT
            !.step = "update", !.at = i,
            !.copy = IF c \in Unchanged /\ "links" \notin campaign[i].meta THEN {}
                     ELSE campaign[i].meta,
            !.name = n,
            !.count = IF AssetCount(i) = campaign[i].count THEN Keep ELSE AssetCount(i)])
  /\ UNCHANGED <<campaign, assets, budget>>

\* scalar_one_or_none finds two rows, or the new row has no status.
UpsertRaises(p, c) ==
  /\ proc[p].step = "next" /\ Current(p, c)
  /\ Cardinality(Existing(c)) # 1
  /\ Existing(c) = {} => ~MayInsert(p)
  /\ Abort(p)

\* The id of the next row.
Fresh(i) == i \in Rows \ Stored /\ \A k \in Rows \ Stored : i <= k

\* The row is committed. POST /discovery/run goes on to the links of the card.
Insert(p, c) ==
  /\ proc[p].step = "insert" /\ Current(p, c)
  /\ c \notin Refused /\ ~Taken(proc[p].name, NoRow)
  /\ \E i \in Rows :
       /\ Fresh(i)
       /\ campaign' = [campaign EXCEPT ![i] =
            [url |-> c, name |-> proc[p].name, status |-> "discovered",
             meta |-> {"card"}, count |-> 0]]
       /\ Set(p, IF p \in Requests /\ CardLinks[c] # {}
                 THEN [proc[p] EXCEPT !.step = "links", !.at = i, !.count = 0, !.name = ByHand]
                 ELSE Onwards(p, c))
  /\ UNCHANGED <<assets, budget>>

\* The name is too long for its column, or was taken in the meantime.
InsertRaises(p, c) ==
  /\ proc[p].step = "insert" /\ Current(p, c)
  /\ ~(c \notin Refused /\ ~Taken(proc[p].name, NoRow))
  /\ Abort(p)

\* Mutant: the metadata is replaced, not merged.
Updated_Replaces(row, r) ==
  [row EXCEPT !.meta = {"card"},
              !.name = IF r.name = ByHand THEN @ ELSE r.name,
              !.count = IF r.count = Keep THEN @ ELSE r.count]

\* Mutant: the status of the call is given to old rows too.
Updated_Status(row, r) ==
  [row EXCEPT !.meta = IF r.copy = {} THEN @ ELSE (r.copy \ {"links"}) \cup {"card"},
              !.status = "discovered",
              !.name = IF r.name = ByHand THEN @ ELSE r.name,
              !.count = IF r.count = Keep THEN @ ELSE r.count]

\* The columns the commit writes: source_metadata as it was read, with the card's
\* keys merged in, asset_links over what brief-reader put there; the name and
\* assets_count when they differ from what was read.
Updated(row, r) ==
  [row EXCEPT !.meta = IF r.copy = {} THEN @ ELSE (r.copy \ {"links"}) \cup {"card"},
              !.name = IF r.name = ByHand THEN @ ELSE r.name,
              !.count = IF r.count = Keep THEN @ ELSE r.count]

Update(p, c) ==
  /\ proc[p].step = "update" /\ Current(p, c)
  /\ proc[p].name = ByHand \/ ~Taken(proc[p].name, proc[p].at)
  /\ LET i == proc[p].at
         row == Updated(campaign[i], proc[p])
     IN /\ campaign' = [campaign EXCEPT ![i] = row]
        /\ Set(p, IF p \in Requests /\ CardLinks[c] # {}
                  THEN [proc[p] EXCEPT !.step = "links", !.count = row.count,
                                       !.copy = {}, !.name = ByHand]
                  ELSE Onwards(p, c))
  /\ UNCHANGED <<assets, budget>>

UpdateRaises(p, c) ==
  /\ proc[p].step = "update" /\ Current(p, c)
  /\ proc[p].name # ByHand /\ Taken(proc[p].name, proc[p].at)
  /\ Abort(p)

-----------------------------------------------------------------------------
\* POST /discovery/run on the links of a card (asset_resolver.py).

\* rewrite_drive_url gives None for a folder, which is dropped before any lookup, and
\* another spelling for a preview of a file; a download URL stays as it is written.
Wanted(c) == {Canon[l] : l \in CardLinks[c] \ Folders}

\* Mutant: the lookup compares the URL as written with the ones stored.
Unregistered_Original(i, c) ==
  {Canon[l] : l \in {w \in CardLinks[c] \ Folders : assets[i][w] = 0}}

\* The spellings its campaign has no asset row for yet.
Unregistered(i, c) == {l \in Wanted(c) : assets[i][l] = 0}

\* Each link is looked up; a brief among them is fetched and read, which takes time.
\* scalar_one_or_none raises at a link that is registered twice.
ResolveLinks(p, c) ==
  /\ proc[p].step = "links" /\ Current(p, c)
  /\ LET i == proc[p].at
     IN Set(p, IF \E l \in Wanted(c) : assets[i][l] > 1 THEN Idle
               ELSE [proc[p] EXCEPT !.step = "register", !.links = Unregistered(i, c)])
  /\ UNCHANGED <<campaign, assets, budget>>

\* Mutant: the rows just created are added to a count that has them already.
Recount_Twice(n, created) == n + created

\* What assets_count is set to: all the rows, whoever created them.
Recount(n, created) == n

\* One row more for each link of ls.
WithAssets(i, ls) == [assets EXCEPT ![i] = [l \in Links |-> @[l] + IF l \in ls THEN 1 ELSE 0]]

\* The new rows are committed, and the rows of the campaign counted; the commit
\* makes the request read its campaign again. A count it knows already is not written.
Register(p, c) ==
  /\ proc[p].step = "register" /\ Current(p, c)
  /\ LET i == proc[p].at
         new == Cardinality(proc[p].links)
         n == Recount(AssetCount(i) + new, new)
         read == IF new = 0 THEN proc[p].count ELSE campaign[i].count
     IN /\ assets' = WithAssets(i, proc[p].links)
        /\ Set(p, IF read = n THEN Onwards(p, c)
                  ELSE [proc[p] EXCEPT !.step = "count", !.links = {}, !.count = n])
  /\ UNCHANGED <<campaign, budget>>

\* assets_count is committed.
CountCommit(p, c) ==
  /\ proc[p].step = "count" /\ Current(p, c)
  /\ campaign' = [campaign EXCEPT ![proc[p].at].count = proc[p].count]
  /\ Set(p, Onwards(p, c))
  /\ UNCHANGED <<assets, budget>>

-----------------------------------------------------------------------------
\* The crons outside the repository, by the requests they send.

\* A cron takes up campaign i: it will post the assets ls, then PATCH the status to
\* and the metadata keys ks.
Take(p, i, ls, to, ks) ==
  /\ proc[p].step = "idle"
  /\ Set(p, [Idle EXCEPT !.step = IF ls = {} THEN "patch" ELSE "post",
                         !.at = i, !.links = ls, !.to = to, !.keys = ks])
  /\ UNCHANGED <<campaign, assets, budget>>

In(i, s) == campaign[i] # NoRow /\ campaign[i].status = s

\* The card of campaign i may get status s.
May(i, s) == s \in Outcomes[campaign[i].url]

\* brief-reader: the rules and its own asset_links, and an asset row for each Drive
\* folder of the brief.
Brief(i) ==
  /\ In(i, "discovered")
  /\ \/ /\ May(i, "briefed")
        /\ Take("brief", i, CardLinks[campaign[i].url] \cap Folders, "briefed",
                {"rules", "links"})
     \/ May(i, "failed_brief") /\ Take("brief", i, {}, "failed_brief", {})

\* The campaign has a row for that file, whatever its spelling (source_id).
HasFile(i, l) == \E k \in Links : FileOf[k] = FileOf[l] /\ assets[i][k] > 0

\* drive-resolver: a row for each file of the folders that has none.
ResolveFolders(i) ==
  /\ In(i, "briefed")
  /\ \/ /\ May(i, "assets_resolved")
        /\ Take("resolve", i,
                {l \in DriveFiles[campaign[i].url] :
                   ~HasFile(i, l) /\ \E f \in Folders : assets[i][f] > 0},
                "assets_resolved", {})
     \/ May(i, "failed_resolve") /\ Take("resolve", i, {}, "failed_resolve", {})

\* campaign-scorer. Without rules it asks for failed_scorer, a status the API refuses,
\* so that nothing changes; a campaign with no file is blocked before that.
Score(i) ==
  /\ In(i, "assets_resolved")
  /\ \/ /\ \A l \in Links \ Folders : assets[i][l] = 0
        /\ Take("score", i, {}, "blocked_no_assets", {})
     \/ /\ \E l \in Links \ Folders : assets[i][l] > 0
        /\ "rules" \in campaign[i].meta
        /\ Take("score", i, {}, "scored", {"score"})

\* POST /assets/bulk: no look at the rows there are.
PostAssets(p) ==
  /\ proc[p].step = "post"
  /\ assets' = WithAssets(proc[p].at, proc[p].links)
  /\ Set(p, [proc[p] EXCEPT !.step = "patch", !.links = {}])
  /\ UNCHANGED <<campaign, budget>>

\* PATCH /campaigns/{id} reads the row; of interest only when it has metadata to merge.
PatchRead(p) ==
  /\ proc[p].step = "patch" /\ proc[p].keys # {}
  /\ Set(p, [proc[p] EXCEPT !.step = "commit", !.copy = campaign[proc[p].at].meta])
  /\ UNCHANGED <<campaign, assets, budget>>

\* It commits the status, and the metadata it read with the payload's merged in.
PatchCommit(p) ==
  /\ proc[p].step = IF proc[p].keys = {} THEN "patch" ELSE "commit"
  /\ campaign' = [campaign EXCEPT
       ![proc[p].at].status = proc[p].to,
       ![proc[p].at].meta = IF proc[p].keys = {} THEN @ ELSE proc[p].copy \cup proc[p].keys]
  /\ Set(p, Idle)
  /\ UNCHANGED <<assets, budget>>

-----------------------------------------------------------------------------
\* PATCH /campaigns/{id} by an operator, with a name of their own.
Rename(i) ==
  /\ budget > 0 /\ i \in Stored
  /\ campaign[i].name # ByHand /\ ~Taken(ByHand, i)
  /\ campaign' = [campaign EXCEPT ![i].name = ByHand]
  /\ budget' = budget - 1
  /\ UNCHANGED <<assets, proc>>

\* A process is killed, or loses the database.
Die(p) ==
  /\ budget > 0 /\ proc[p].step # "idle"
  /\ Set(p, Idle)
  /\ budget' = budget - 1
  /\ UNCHANGED <<campaign, assets>>

Discovery(p, c) ==
  \/ UpsertNew(p, c) \/ UpsertFound(p, c) \/ UpsertRaises(p, c)
  \/ Insert(p, c) \/ InsertRaises(p, c)
  \/ Update(p, c) \/ UpdateRaises(p, c)
  \/ ResolveLinks(p, c) \/ Register(p, c) \/ CountCommit(p, c)

\* What process p does once it has started.
Continue(p) ==
  \/ \E c \in proc[p].todo : Discovery(p, c)
  \/ PostAssets(p) \/ PatchRead(p) \/ PatchCommit(p)

BriefTick == \E i \in Rows : Brief(i)
ResolveTick == \E i \in Rows : ResolveFolders(i)
ScoreTick == \E i \in Rows : Score(i)

Step ==
  \/ \E p \in Process : Continue(p) \/ Die(p)
  \/ \E S \in Listings : Discover(S)
  \/ \E p \in Requests, S \in Shortlists : DiscoverNow(p, S)
  \/ BriefTick \/ ResolveTick \/ ScoreTick
  \/ \E i \in Rows : Rename(i)

\* A request, in state r, has read source_metadata, and will write it back.
Rewriting(r) == r.step = "commit" \/ (r.step = "update" /\ r.copy # {})

\* It has looked up which assets are missing, and will insert them.
Registering(r) == r.step \in {"register", "post"} /\ r.links \ Folders # {}

\* The requests of p and q, in states r and s, are about the same campaign, and what
\* one of them has read, the other is about to change: two that insert assets, or
\* two that write source_metadata, one of them a cron's PATCH.
Crossing(r, s) ==
  /\ r.at = s.at
  /\ \/ Registering(r) /\ Registering(s)
     \/ Rewriting(r) /\ Rewriting(s) /\ s.step = "commit"

Remember ==
  crossed' = crossed \cup
    {proc'[p].at : p \in {r \in Process : \E q \in Process \ {r} : Crossing(proc'[r], proc'[q])}}

Next == Step /\ Remember

Spec == Init /\ [][Next]_vars

\* Every process that runs goes on. Each cron is started again and again; the
\* provider, asked for ever, does not leave a card out each time.
FairSpec ==
  /\ Spec
  /\ \A p \in Process : WF_state(Continue(p))
  /\ SF_state(Discover(Cards))
  /\ WF_state(BriefTick) /\ WF_state(ResolveTick) /\ WF_state(ScoreTick)

-----------------------------------------------------------------------------
TypeOK ==
  /\ campaign \in [Rows -> CampaignRow \cup {NoRow}]
  /\ assets \in [Rows -> [Links -> Nat]]
  /\ proc \in [Process -> [
       step : {"idle", "next", "insert", "update", "links", "register", "count",
               "post", "patch", "commit"},
       todo : SUBSET Cards, at : Rows \cup {NoRow}, copy : SUBSET MetaKeys,
       name : Names \cup {ByHand}, count : Nat \cup {Keep}, links : SUBSET Links,
       to : CampaignStatus, keys : SUBSET MetaKeys]]
  /\ budget \in 0..Budget
  /\ crossed \subseteq Rows

\* A campaign of the provider has one row. Nothing in the database says so: a
\* second row would make every later discovery fail at its card (upsert.py:129).
OneRowPerUrl ==
  \A i, k \in Stored : campaign[i].url = campaign[k].url => i = k

\* A URL is registered once per campaign ("Idempotent on (campaign_id, source_url)",
\* asset_resolver.py:20), whatever discoveries and crons did it before or do it in
\* between, and wherever one of them is killed: a second row is downloaded and
\* clipped a second time, and stops every later resolution of the campaign
\* (asset_resolver.py:231). Two requests that look the assets of one campaign up
\* before either has inserted them do insert them twice; and a file whose
\* download URL the card writes in another way has a row for each spelling.
NoDuplicateAssets ==
  \A i \in Rows \ crossed, l \in Links \ Folders : assets[i][l] <= 1

\* assets_count, cached in the row, is never more than the rows there are, though
\* it is counted in one step and committed in a later one (upsert.py:174-178 and
\* 274-280). It may be less, and may even go down: a count read before other rows
\* were registered is committed after a later one.
CountNeverOverstates ==
  \A i \in Stored : campaign[i].count <= AssetCount(i)

\* No step takes a campaign back to discovered: a discovery that finds it again
\* keeps its status (upsert.py:122), wherever the crons are with it.
NeverRediscovered ==
  [][\A i \in Stored : campaign'[i].status = "discovered"
                        => campaign[i].status = "discovered"]_vars

\* What the status says the crons have written is in source_metadata: the rules
\* from briefed on, the score when scored (architecture_flow.md:275 and 277), however
\* often discoveries write the same column as a whole, beside each other or before
\* and after a PATCH of it. A discovery that read the column before such a PATCH
\* and writes it after does lose the keys. asset_links is not among them: the next
\* discovery overwrites what brief-reader has written there.
BriefedHasRules ==
  \A i \in Stored \ crossed :
    /\ campaign[i].status \in {"briefed", "assets_resolved", "scored"}
       => "rules" \in campaign[i].meta
    /\ campaign[i].status = "scored" => "score" \in campaign[i].meta

\* Every card the provider keeps listing gets its row, if no card before it in
\* the provider's order is one the database refuses.
EveryCardIsStored ==
  <>(\A c \in Cards : (\A d \in Refused : c < d) => Existing(c) # {})

Settled(i) ==
  campaign[i].status \in {"scored", "blocked_no_assets", "failed_brief", "failed_resolve"}

\* Every campaign is scored in the end, or has a status that says why it is not,
\* whatever runs beside the crons and wherever they are killed; unless its requests
\* have crossed: one that has lost its rules stays in assets_resolved for ever.
EveryCampaignSettles ==
  []<>(\A i \in Stored \ crossed : Settled(i))
=============================================================================
