--------------------------------- MODULE Rules ---------------------------------
(***************************************************************************)
(* The parts of the system that compute an answer and keep nothing, asked  *)
(* one question at a time: what becomes of a link (LinkPolicy), what a     *)
(* discovery gets out of a provider (WhopProvider), what instructions turn *)
(* into and which clips they admit (CampaignRules).  The properties        *)
(* compare each answer with what the code is meant to compute.             *)
(***************************************************************************)
EXTENDS LinkPolicy, WhopProvider, CampaignRules

CONSTANTS
  PageLengths,   \* characters of each page of a brief
  ApiSources,    \* what the API may answer
  PageSources,   \* what a rendered or plain page may hold
  Limits,        \* limit of a discovery
  Campaigns,     \* campaigns that sources may list
  Mentions,      \* lengths that instructions may mention
  MaxMentions,   \* bound of the model: how many of them one text mentions
  Providers,     \* source_provider of a campaign
  Lengths        \* lengths of the clips proposed, in seconds

\* Patterns find digits, so that no length is negative, and a text mentions finitely
\* many.  A source that failed lists nothing.
ASSUME RulesAssumption ==
  /\ ApiSources \subseteq SourcesOver(Campaigns)
  /\ PageSources \subseteq SourcesOver(Campaigns)
  /\ Limits \subseteq Nat
  /\ Mentions \subseteq [lo : Nat, hi : Nat, unit : {1, 60}] /\ IsFiniteSet(Mentions)
  /\ MaxMentions \in Nat
  /\ Lengths \subseteq Nat

VARIABLE asked   \* the question, with its inputs

Nothing == [about |-> "nothing"]

Init == asked = Nothing

Briefs ==
  {[ok |-> FALSE, pages |-> <<>>]} \cup [ok : {TRUE}, pages : PageLengths]

\* A link is resolved, or posted as it is.
AskLink ==
  \E l \in Links :
    \/ \E b \in Briefs : asked' = [about |-> "resolved", link |-> l, brief |-> b]
    \/ \E k \in {Kind(l), "none"} : asked' = [about |-> "posted", link |-> l, kind |-> k]

AskProvider ==
  \E n \in Limits, api \in ApiSources, rendered, plain \in PageSources :
    asked' = [about |-> "listing", limit |-> n, api |-> api,
              rendered |-> rendered, plain |-> plain]

AskRules ==
  \E ms \in SUBSET Mentions, f \in {"9:16", "1:1", "16:9", Unset}, c \in BOOLEAN :
    /\ Cardinality(ms) <= MaxMentions
    /\ \E p \in Providers :
         asked' = [about |-> "rules", provider |-> p,
                   text |-> [mentions |-> ms, format |-> f, captions |-> c]]

Ask == asked = Nothing /\ (AskLink \/ AskProvider \/ AskRules)

\* The next question.
Forget == asked # Nothing /\ asked' = Nothing

Next == Ask \/ Forget

Spec == Init /\ [][Next]_asked

-----------------------------------------------------------------------------
TypeOK ==
  \/ asked = Nothing
  \/ asked \in [about : {"resolved"}, link : Links, brief : Briefs]
  \/ \E l \in Links : asked \in [about : {"posted"}, link : {l}, kind : {Kind(l), "none"}]
  \/ asked \in [about : {"listing"}, limit : Limits, api : ApiSources,
                rendered : PageSources, plain : PageSources]
  \/ asked \in [about : {"rules"}, provider : Providers,
                text : [mentions : SUBSET Mentions, format : {"9:16", "1:1", "16:9", Unset},
                        captions : BOOLEAN]]

\* A link to a single video.
Footage(l) ==
  \/ l.site \in {"youtube", "instagram", "tiktok"} /\ l.path # "profile"
  \/ l.site = "drive" /\ l.path \in {"file", "open", "uc"}
  \/ l.site \in {"dropbox", "mega", "vimeo"} /\ l.path = "file"
  \/ l.path = "media"

\* What the tests of the repository agree to be one, whichever reads it first. They
\* disagree on TikTok, whose videos campaigns.py:46 lists as accepted and the filter
\* for @handles refuses, and on a preview on Drive that does not end with its id,
\* which line 48 accepts, the resolver passes through "so the Worker can fail loud"
\* and the filter for /file/d/ refuses: nothing is said of those two.
Agreed(l) == Footage(l) /\ l.site # "tiktok" /\ (l.path = "file" /\ l.site = "drive" => l.tidy)

\* A folder, and one in a form none of those tests knows, which all take for a video.
Folder(l) == l.path \in {"folders", "filefolders", "folder", "oldfolder"}
UnknownFolder(l) == l.path = "oldfolder" \/ (l.site = "mega" /\ l.path = "folder")

\* The resolver, the filters of the tick and the constraint of the database agree:
\* a resolved link to a video they all know becomes a download job, however it was
\* spelled, and no other link does, unless it is a video, a folder in an unknown form,
\* or a PDF on Dropbox that nothing could be read from. A folder that is posted as
\* a video is kept out too ("futuras NUNCA se descargue", alembic/versions/0013:3),
\* but for those forms and for a filefolders link posted without its kind.
OnlyFootageIsDownloaded ==
  /\ asked.about = "resolved" =>
       LET l == asked.link
           taken == \E row \in Resolved(l, asked.brief) : BecomesJob(row)
       IN /\ Agreed(l) => taken
          /\ taken => \/ Footage(l) \/ UnknownFolder(l)
                      \/ l.site = "dropbox" /\ l.path = "pdf" /\ ~HasText(l, asked.brief)
  /\ asked.about = "posted" /\ BecomesJob(Posted(asked.link, asked.kind)) =>
       \/ ~Folder(asked.link) \/ UnknownFolder(asked.link)
       \/ asked.link.path = "filefolders" /\ asked.kind = "none"

\* The place of campaign c in a sequence of cards.
FirstAt(cards, c) ==
  CHOOSE i \in DOMAIN cards :
    /\ cards[i].campaign = c
    /\ \A k \in DOMAIN cards : cards[k].campaign = c => i <= k

\* A discovery gives the campaigns its source lists, each once, in the order in
\* which they are first listed and without a gap, until the limit (but at least
\* one); and as long as the API has one that is open, none that it says is closed.
DiscoveryIsFirstDistinct ==
  asked.about = "listing" /\ ~Raises(asked.limit, asked.api) =>
    LET source == CardsOf(asked.api, asked.rendered, asked.plain)
        out == Discover(asked.limit, asked.api, asked.rendered, asked.plain)
        listed == {source[i].campaign : i \in DOMAIN source}
    IN /\ \A i, k \in DOMAIN out :
            i < k => FirstAt(source, out[i].campaign) < FirstAt(source, out[k].campaign)
       /\ \A c \in listed :
            \/ \E i \in DOMAIN out : out[i].campaign = c
            \/ /\ out # <<>> /\ Len(out) >= asked.limit
               /\ FirstAt(source, out[Len(out)].campaign) < FirstAt(source, c)
       /\ Len(out) <= Max({1, asked.limit})
       /\ (\E i \in DOMAIN asked.api.cards : asked.api.cards[i].state = "open")
            => \A i \in DOMAIN out : out[i].state # "closed"

\* The lengths a campaign asks for are the lengths its clips may have: every length
\* the instructions mention lies in the window of the specification, and a clip
\* that passes validate_proposal is at most a tenth shorter than the shortest and a
\* tenth longer than the longest of them (where they mention one length only, than
\* that and ten seconds). A format they name is the shape the quality check measures.
InstructionsRespected ==
  asked.about = "rules" =>
    LET text == asked.text
        spec == SpecOf(text, asked.provider)
        Seconds(m) == {m.lo * m.unit, m.hi * m.unit}
        mentioned == UNION {Seconds(m) : m \in text.mentions}
        slack == IF Cardinality(mentioned) = 1 THEN 10 ELSE 0
    IN /\ spec.min < spec.max
       /\ mentioned \subseteq spec.min..spec.max
       /\ \A n \in Lengths : mentioned # {} /\ Fits(n, spec) =>
            /\ \E s \in mentioned : 10 * n >= 9 * s
            /\ \E s \in mentioned : 10 * n <= 11 * (s + slack)
       /\ text.format # Unset => spec.qa = Frame(text.format)
=============================================================================
