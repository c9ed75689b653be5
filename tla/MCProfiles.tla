----------------------------- MODULE MCProfiles -----------------------------
(* Small instances of Profiles: two commands, two profiles.                 *)
EXTENDS Profiles
CONSTANTS c1, c2

(* The second command is one of those that change the most, so that not     *)
(* every pair is met in both orders.                                        *)
MCCommands == [p \in {c1, c2} |->
  IF p = c1 THEN Kinds ELSE {"add", "reconcile", "exec", "heartbeat"}]

MCGuidanceNames == <<"AGENTS.md", "AGENTS.override.md">>
MCSkillNames == <<"staged", "skill">>
MCProfilesList == <<"a", "b">>

(* Custom links before default ones; default guidance without skills;       *)
(* guidance off and not a word on skills; no block at all.                  *)
MCCustom ==
  [block |-> TRUE, guidance |-> "custom", strict |-> FALSE, sources |-> <<"custom", "default">>]
MCPolicies == {NoPolicy, MCCustom,
  [block |-> TRUE, guidance |-> "default", strict |-> FALSE, sources |-> <<>>],
  [block |-> TRUE, guidance |-> "off", strict |-> TRUE, sources |-> <<>>]}

(* Unread; used up; without a known end; at its end; a day before it.       *)
MCMeasurements ==
  {[fetched |-> FALSE, used |-> Unavailable, reset |-> NoReset, model |-> FALSE]}
    \cup [fetched : {TRUE}, used : {Unavailable, 100}, reset : {NoReset}, model : {TRUE}]
    \cup [fetched : {TRUE}, used : {99}, reset : {NoReset, 0, 86400}, model : {TRUE}]
    \cup [fetched : {TRUE}, used : {50}, reset : {0}, model : {FALSE}]
=============================================================================
