---------------------------- MODULE ProfileHomes ----------------------------
(* What a policy makes of a profile home (internal/multicodex/resources.go  *)
(* and config.go): which links it wants, which positions it may change.     *)
(*                                                                          *)
(* A position holds None, File (a regular file or directory of the user) or *)
(* a source, standing for a link to the entry of the same name in that      *)
(* source directory.  Default is the source in the default Codex home.      *)
EXTENDS Naturals, Sequences

CONSTANTS GuidanceNames,  \* in the code's order
          SkillNames,     \* sorted; the first is the name of a staged link
          Staged,
          Default, Custom \* the sources


None == "nothing"
File == "file"

Elements(s) == {s[i] : i \in 1..Len(s)}
Guidance == Elements(GuidanceNames)
Skills == Elements(SkillNames)
Sources == {Default, Custom}

ASSUME NamesAssumption ==
  /\ GuidanceNames \in Seq(Guidance) /\ SkillNames \in Seq(Skills)
  /\ SkillNames # <<>> /\ Head(SkillNames) = Staged /\ Staged \notin Guidance

(* "block": config.json has profile_resources.  guidance is "leave", "off"  *)
(* or a source.  strict: the block does not speak of skills; otherwise      *)
(* sources lists where they come from, nothing when they are off.           *)
NoPolicy == [block |-> FALSE, guidance |-> "leave", strict |-> TRUE, sources |-> <<>>]

(* What the reader of config.json accepts: off means no sources, a source   *)
(* is named once, skills that are inherited have one.                       *)
WellFormed(policy) ==
  /\ ~policy.block => policy = NoPolicy
  /\ policy.guidance \in {"leave", "off"} \cup Sources
  /\ policy.strict \in BOOLEAN /\ policy.sources \in Seq(Sources)
  /\ policy.strict => policy.sources = <<>>
  /\ \A i, j \in 1..Len(policy.sources) :
       i # j => policy.sources[i] # policy.sources[j]

(* config is "none", "link" (to the default config), "own" or "generated"   *)
(* (what an earlier version wrote).                                         *)
NoHome == [made |-> FALSE, private |-> TRUE, config |-> "none",
           guidance |-> [g \in Guidance |-> None], skills |-> [s \in Skills |-> None]]

(* A file of the user at either guidance name overrides both.               *)
LocalOverride(h) == \E g \in Guidance : h.guidance[g] = File

WantedGuidance(policy, offers, h) ==
  [g \in Guidance |-> IF /\ policy.guidance \in Sources /\ ~LocalOverride(h)
                         /\ g \in offers[policy.guidance]
                        THEN policy.guidance ELSE None]

(* The first source that has a skill provides it.                           *)
FirstWith(sources, s, offers) ==
  LET having == {i \in 1..Len(sources) : s \in offers[sources[i]]} IN
  IF having = {} THEN None
  ELSE sources[CHOOSE i \in having : \A j \in having : i <= j]

WantedSkills(policy, offers) ==
  [s \in Skills |-> FirstWith(policy.sources, s, offers)]

DefaultSkills(offers) ==
  [s \in Skills |-> IF s \in offers[Default] THEN Default ELSE None]

(* Without word on skills the profile's links must all lead into the        *)
(* default skills.                                                          *)
LeadsOutside(e) == e \in Sources \ {Default}
DestinationsValid(policy, h) ==
  policy.block /\ policy.strict => \A s \in Skills : ~LeadsOutside(h.skills[s])

(* Links are compared by where they lead in the end.                        *)
SameTarget(e, want) == e = want

(* What a pass over owned links does at one position.                       *)
Action(e, want) ==
  IF e = File \/ SameTarget(e, want) THEN "keep"
  ELSE IF e = None THEN "link"
  ELSE IF want = None THEN "remove" ELSE "swap"

(* A link into the default skills whose skill is gone.                      *)
Stale(s, e, offers) == s # Staged /\ e = Default /\ s \notin offers[Default]
=============================================================================
