-------------------------------- MODULE MCRules --------------------------------
(***************************************************************************)
(* Rules with two campaigns to list, sources of up to three entries, and   *)
(* the lengths instructions are written with.                              *)
(***************************************************************************)
EXTENDS Rules

Card(c, s) == [campaign |-> c, state |-> s]

\* Up to n of the entries E, in any order, some of them twice.
UpTo(n, E) == UNION {[1..k -> E] : k \in 0..n}

MCPageLengths == {<<0>>, <<5>>, <<0, 0>>}

MCApiSources ==
  {Failed} \cup {Answer(cs) : cs \in UpTo(3,
     {Card("c1", "open"), Card("c2", "open"), Card("c1", "closed"),
      Card("c2", "broken"), Card("c3", "invalid"), Card("c3", "alien")})}

MCPageSources ==
  {Failed} \cup {Answer(cs) : cs \in UpTo(2,
     {Card("c1", "open"), Card("c2", "closed"), Card("c3", "broken")})}

MCMentions ==
  {Mention(20, 45, 1), Mention(30, 30, 1), Mention(45, 20, 1), Mention(60, 60, 1),
   Mention(1, 2, 60), Mention(1, 1, 60), Mention(2, 2, 60)}

MCProviders == {"twitter", "youtube", "instagram", "tiktok", "reddit", "twitch",
                "manual", "other"}

MCLengths == {1, 15, 27, 30, 50, 54, 66, 77, 132, 143, 200}
=============================================================================
