----------------------------- MODULE CampaignRules -----------------------------
(***************************************************************************)
(* What the instructions of a campaign become: the hints of                *)
(* campaign_engine/parser.py and the specification of                      *)
(* campaign_engine/normalizer.py, which the selection of clips, the render *)
(* and the quality check go by.  Instructions are modelled by what the     *)
(* patterns find in them; lengths are in seconds.                          *)
(***************************************************************************)
EXTENDS Integers, FiniteSets, FiniteSetsExt

\* What the instructions do not say.
Unset == "unset"
NoLength == -1

\* A length the instructions mention: a range, or a single one with lo = hi, in
\* seconds (1) or minutes (60).
Mention(lo, hi, unit) == [lo |-> lo, hi |-> hi, unit |-> unit]

\* Mutant: the lower end of a range is taken in seconds, whatever its unit.
Durations_LowInSeconds(mentions) ==
  UNION {{m.lo * (IF m.lo = m.hi THEN m.unit ELSE 1), m.hi * m.unit} : m \in mentions}

\* The unit is written once, after the range, and holds for both ends.
Durations(mentions) == UNION {{m.lo * m.unit, m.hi * m.unit} : m \in mentions}

\* parse_instructions; the first format that is named counts.
Hints(text) ==
  LET ds == Durations(text.mentions)
  IN [min |-> IF ds = {} THEN NoLength ELSE Min(ds),
      max |-> IF ds = {} THEN NoLength ELSE Max(ds),
      format |-> text.format,
      captions |-> text.captions]

\* _PROVIDER_DEFAULTS; a provider without an entry is treated as "other".
Default(format, min, max, captions) ==
  [format |-> format, min |-> min, max |-> max, captions |-> captions]

Defaults(provider) ==
  CASE provider = "twitter" -> Default("16:9", 15, 140, FALSE)
    [] provider = "youtube" -> Default("9:16", 30, 60, TRUE)
    [] provider = "instagram" -> Default("1:1", 3, 90, FALSE)
    [] provider = "tiktok" -> Default("9:16", 15, 180, FALSE)
    [] provider = "reddit" -> Default("16:9", 30, 600, FALSE)
    [] provider = "twitch" -> Default("16:9", 30, 1800, FALSE)
    [] provider = "manual" -> Default("9:16", 20, 60, TRUE)
    [] OTHER -> Default("9:16", 30, 60, FALSE)

Or(hint, none, default) == IF hint = none THEN default ELSE hint

\* _QA_RULES_BY_FORMAT: what the rendered clip must measure.
Frame(format) ==
  CASE format = "1:1" -> [width |-> 1080, height |-> 1080]
    [] format = "16:9" -> [width |-> 1920, height |-> 1080]
    [] OTHER -> [width |-> 1080, height |-> 1920]

\* normalize: hints before defaults, and a window that is empty is given ten
\* seconds.
Normalize(hints, provider) ==
  LET d == Defaults(provider)
      min == Or(hints.min, NoLength, d.min)
      max == Or(hints.max, NoLength, d.max)
      format == Or(hints.format, Unset, d.format)
  IN [min |-> min,
      max |-> IF max <= min THEN min + 10 ELSE max,
      format |-> format,
      captions |-> hints.captions \/ d.captions,
      qa |-> Frame(format)]

\* The specification of a campaign with the given instructions (_build_local_spec,
\* and candidate_lifecycle and agent.py when the campaign has no spec).
SpecOf(text, provider) == Normalize(Hints(text), provider)

\* validate_proposal: a tenth of tolerance at each end of the window.
Fits(length, spec) ==
  /\ 10 * length >= 9 * spec.min
  /\ 10 * length <= 11 * spec.max
=============================================================================
