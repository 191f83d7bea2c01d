----------------------------- MODULE WhopProvider -----------------------------
(***************************************************************************)
(* What one discovery gets out of a Whop tenant                            *)
(* (services/discovery/providers/whop.py): the JSON API first, a rendered  *)
(* page where Playwright is switched on, the plain page last; the cards in *)
(* the order of the source, each campaign once, as many as asked for.      *)
(***************************************************************************)
EXTENDS Naturals, Sequences

\* A source that could not be read: an HTTP error, a payload of another shape, a
\* browser that is not installed.
Failed == [ok |-> FALSE, cards |-> <<>>]

Answer(cards) == [ok |-> TRUE, cards |-> cards]

\* What a source lists: a campaign, and what the API says of it. "open" and
\* "closed" (its budget is spent, it is hidden, or its name is on the blacklist);
\* "broken": the entry has no id or cannot be converted, and is skipped;
\* "invalid": it is converted, but the model of a campaign refuses it;
\* "alien": it is not an object at all.
States == {"open", "closed", "broken", "invalid", "alien"}

\* What a source over the given campaigns may be.
SourcesOver(campaigns) ==
  {Failed} \cup [ok : {TRUE}, cards : Seq([campaign : campaigns, state : States])]

\* The entries _api_card_to_struct makes a card of.
Converted == {"open", "invalid"}

\* The cards in one of the given states, in their order: the list a loop of
\* append builds.  (SelectSeq, as a recursive function that proofs can unfold.)
Sift(cards, states) ==
  LET kept[n \in 0..Len(cards)] ==
        IF n = 0 THEN <<>>
        ELSE IF cards[n].state \in states THEN Append(kept[n-1], cards[n])
        ELSE kept[n-1]
  IN kept[Len(cards)]

\* _discover_via_api: an entry that is no object escapes the handler.
ApiCards(api) == Sift(api.cards, Converted)

ApiRaises(api) == \E i \in DOMAIN api.cards : api.cards[i].state = "alien"

\* An anchor of a page: it says nothing of the state of its campaign.
Anchored == States \ {"broken"}

PageCards(page) == Sift(page.cards, Anchored)

\* What is left to try when the API has listed nothing: Playwright, and the plain
\* page unless something failed on the way.
Fallback(api, rendered, plain) ==
  IF rendered.ok /\ PageCards(rendered) # <<>> THEN PageCards(rendered)
  ELSE IF api.ok /\ rendered.ok /\ plain.ok THEN PageCards(plain)
  ELSE <<>>

\* The cards the loop goes through.
CardsOf(api, rendered, plain) ==
  IF api.ok /\ ApiCards(api) # <<>> THEN ApiCards(api) ELSE Fallback(api, rendered, plain)

\* Mutant: a campaign listed twice is taken twice.
Take_Again(out, c, limit) ==
  IF out # <<>> /\ Len(out) >= limit THEN out ELSE Append(out, c)

\* One turn of the loop. A campaign is taken once; the limit is looked at after
\* the append, so that a limit of 0 gives one campaign.
Take(out, c, limit) ==
  IF \/ out # <<>> /\ Len(out) >= limit
     \/ \E i \in DOMAIN out : out[i].campaign = c.campaign
  THEN out ELSE Append(out, c)

\* What has been taken after each turn of the loop.
Turns(cards, limit) ==
  LET out[n \in 0..Len(cards)] ==
        IF n = 0 THEN <<>> ELSE Take(out[n-1], cards[n], limit)
  IN out

Listed(cards, limit) == Turns(cards, limit)[Len(cards)]

\* An exception leaves discover: an entry of the API that is no object, or, before
\* the limit is reached, one that is no valid campaign.
Raises(limit, api) ==
  /\ api.ok
  /\ \/ ApiRaises(api)
     \/ \E i \in DOMAIN ApiCards(api) :
          /\ ApiCards(api)[i].state = "invalid"
          /\ i = 1 \/ Len(Turns(ApiCards(api), limit)[i - 1]) < limit

\* WhopProvider.discover, where nothing is raised.
Discover(limit, api, rendered, plain) == Listed(CardsOf(api, rendered, plain), limit)
=============================================================================
