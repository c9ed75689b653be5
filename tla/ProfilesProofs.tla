--------------------------- MODULE ProfilesProofs ---------------------------
(* First: a command runs codex on an account that the documented order      *)
(* allows, and on the one it has announced.  Then: an added profile stays,  *)
(* and a prepared home has the links of one policy.  For any profiles,      *)
(* commands, measurements and policies, and whatever people and other       *)
(* processes do meanwhile.                                                  *)
EXTENDS Profiles, AccountSelectionProofs

Fields == {"kind", "at", "cfg", "todo", "n", "want", "left", "guided", "failed",
           "tries", "account", "announced", "sound"}

(* What a command knows of its account: the choice was a promised one, and  *)
(* nothing is announced before codex runs.                                  *)
Honest(j) ==
  /\ DOMAIN j = Fields
  /\ j.sound = TRUE
  /\ j.announced # NoName => j.at = "run" /\ j.announced = j.account

HonestJobs ==
  /\ DOMAIN job = Processes
  /\ \A p \in Processes : Honest(job[p])

(* p has taken a step that announces nothing; the others have taken none.   *)
Quiet(p) ==
  /\ DOMAIN job' = Processes
  /\ \A q \in Processes \ {p} : job'[q] = job[q]
  /\ DOMAIN job'[p] = Fields
  /\ job'[p].sound = TRUE
  /\ job'[p].announced = NoName

(* Such a step leaves every command honest.                                 *)
LEMMA QuietIsHonest ==
  ASSUME HonestJobs, NEW p \in Processes, Quiet(p)
  PROVE  HonestJobs'
  BY DEF HonestJobs, Honest, Quiet

(* A command that ends has nothing to be honest about.                      *)
LEMMA EndIsQuiet ==
  ASSUME HonestJobs, NEW p \in Processes, NEW ok, End(p, ok)
  PROVE  Quiet(p)
  <1>1. DOMAIN Idle = Fields /\ Idle.sound = TRUE /\ Idle.announced = NoName
    BY DEF Idle, Fields
  <1> QED BY <1>1 DEF HonestJobs, Quiet, End, Ended, Fields

(* Before codex runs, what a command does not choose or announce is quiet.  *)
LEMMA SilentIsQuiet ==
  ASSUME HonestJobs, NEW p \in Processes, job[p].at # "run", NEW j,
         job' = [job EXCEPT ![p] = j],
         DOMAIN j = DOMAIN job[p], j.sound = job[p].sound, j.announced = job[p].announced
  PROVE  Quiet(p)
  BY DEF HonestJobs, Honest, Quiet

(* A preparation goes on or gives up.                                       *)
LEMMA GoOnIsQuiet ==
  ASSUME HonestJobs, NEW p \in Processes, job[p].at # "run", NEW ok, GoOn(p, ok)
  PROVE  Quiet(p)
  BY DEF HonestJobs, Honest, Quiet, GoOn, Fields

(* A failed preparation ends the command or leaves it with the next profile.*)
LEMMA GiveUpIsQuiet ==
  ASSUME HonestJobs, NEW p \in Processes, job[p].at # "run", GiveUp(p)
  PROVE  Quiet(p)
  BY GoOnIsQuiet, EndIsQuiet DEF GiveUp

(* So does a step that only moves on.                                       *)
LEMMA GotoIsQuiet ==
  ASSUME HonestJobs, NEW p \in Processes, job[p].at # "run", NEW step, Goto(p, step)
  PROVE  Quiet(p)
  BY DEF HonestJobs, Honest, Quiet, Goto, Fields

-----------------------------------------------------------------------------
(* The steps of a command before codex runs.                                *)

(* Starting, reading the config and taking turns announce nothing.          *)
LEMMA StartingIsQuiet ==
  ASSUME HonestJobs, NEW p \in Processes,
         Start(p) \/ Lock(p) \/ Initialize(p) \/ Load(p) \/ TryBeat(p) \/ NextProfile(p)
  PROVE  Quiet(p)
  <1>1. CASE Start(p)
    <2>1. \E x, y, z : job' = [job EXCEPT ![p].kind = x, ![p].at = y, ![p].todo = z]
      BY <1>1, Zenon DEF Start
    <2>2. job[p].at # "run"
      BY <1>1 DEF Start, At
    <2> QED BY <2>1, <2>2 DEF HonestJobs, Honest, Quiet, Fields
  <1>2. CASE Lock(p)
    BY <1>2, GotoIsQuiet DEF Lock, At
  <1>3. CASE Initialize(p)
    BY <1>3, EndIsQuiet DEF HonestJobs, Honest, Quiet, Fields, Initialize, At
  <1>4. CASE Load(p)
    <2>1. job[p].at # "run"
      BY <1>4 DEF Load, At
    <2>2. \/ End(p, FALSE)
          \/ \E x, y, z : job' = [job EXCEPT ![p].at = x, ![p].cfg = y, ![p].todo = z]
      BY <1>4, Zenon DEF Load
    <2>3. CASE End(p, FALSE)
      BY <2>3, EndIsQuiet
    <2>4. CASE \E x, y, z : job' = [job EXCEPT ![p].at = x, ![p].cfg = y, ![p].todo = z]
      BY <2>1, <2>4 DEF HonestJobs, Honest, Quiet, Fields
    <2> QED BY <2>2, <2>3, <2>4
  <1>5. CASE TryBeat(p)
    BY <1>5, EndIsQuiet, GotoIsQuiet DEF TryBeat, At
  <1>6. CASE NextProfile(p)
    <2>1. job[p].at # "run"
      BY <1>6 DEF NextProfile, At
    <2>2. CASE job[p].todo # <<>>
      <3> DEFINE step == IF LocksEach(job[p].kind) THEN "ensure" ELSE "check"
                 first == Head(job[p].todo)
                 rest == Tail(job[p].todo)
      <3>1. job' = [job EXCEPT ![p].at = step, ![p].n = first, ![p].todo = rest,
                               ![p].cfg = ConfigOfNext(p)]
        BY <1>6, <2>2 DEF NextProfile
      <3> HIDE DEF step, first, rest
      <3> QED BY <2>1, <3>1 DEF HonestJobs, Honest, Quiet, Fields
    <2>3. CASE job[p].todo = <<>>
      BY <1>6, <2>1, <2>3, GotoIsQuiet, EndIsQuiet DEF NextProfile
    <2> QED BY <2>2, <2>3
  <1> QED BY <1>1, <1>2, <1>3, <1>4, <1>5, <1>6

(* Preparing a profile home announces nothing.                              *)
LEMMA PrepareIsQuiet ==
  ASSUME HonestJobs, NEW p \in Processes, Prepare(p)
  PROVE  Quiet(p)
  <1>1. CASE EnsureProfileDir(p)
    BY <1>1, GotoIsQuiet, GiveUpIsQuiet DEF EnsureProfileDir, At
  <1>2. CASE Check(p)
    <2>1. job[p].at # "run"
      BY <1>2 DEF Check, At
    <2>2. CASE StorageSafe(job[p].n) /\ DestinationsValid(PolicyOf(p), InHand(p))
      <3> DEFINE skills == WantedSkills(PolicyOf(p), offers)
                 guidance == IF PolicyOf(p).guidance = "leave" THEN NoWant
                             ELSE WantedGuidance(PolicyOf(p), offers, NoHome)
      <3>1. job' = [job EXCEPT ![p].at = "make", ![p].want = skills, ![p].guided = guidance]
        BY <1>2, <2>2 DEF Check
      <3> HIDE DEF skills, guidance
      <3> QED BY <2>1, <3>1 DEF HonestJobs, Honest, Quiet, Fields
    <2>3. CASE ~(StorageSafe(job[p].n) /\ DestinationsValid(PolicyOf(p), InHand(p)))
      BY <1>2, <2>1, <2>3, GiveUpIsQuiet DEF Check
    <2> QED BY <2>2, <2>3
  <1>3. CASE MakeHome(p) \/ LinkConfig(p)
    BY <1>3, GotoIsQuiet DEF MakeHome, LinkConfig, At
  <1>4. CASE BeginGuidance(p) \/ GuidanceDone(p)
    BY <1>4 DEF HonestJobs, Honest, Quiet, Fields, BeginGuidance, GuidanceDone, BeginSkills, At
  <1>5. CASE ReconcileGuidance(p)
    BY <1>5, GotoIsQuiet DEF HonestJobs, Honest, Quiet, Fields, ReconcileGuidance, Reconcile, At
  <1>6. CASE ReconcileSkill(p)
    BY <1>6, GotoIsQuiet DEF HonestJobs, Honest, Quiet, Fields, ReconcileSkill, Reconcile, At
  <1>7. CASE Swap(p)
    BY <1>7 DEF HonestJobs, Honest, Quiet, Fields, Swap, At
  <1>8. CASE RemoveStale(p)
    BY <1>8, GiveUpIsQuiet DEF HonestJobs, Honest, Quiet, Fields, RemoveStale, At
  <1>9. CASE StaleDone(p) \/ FillSkill(p)
    BY <1>9 DEF HonestJobs, Honest, Quiet, Fields, StaleDone, FillSkill, At
  <1>10. CASE Prepared(p)
    BY <1>10, GoOnIsQuiet DEF Prepared
  <1> QED BY <1>1, <1>2, <1>3, <1>4, <1>5, <1>6, <1>7, <1>8, <1>9, <1>10 DEF Prepare

(* Saving, logging in, checking readiness and the heartbeat announce nothing.*)
LEMMA UsingIsQuiet ==
  ASSUME HonestJobs, NEW p \in Processes,
         \/ Save(p) \/ CheckReady(p) \/ CodexLogin(p) \/ Secure(p) \/ LoginStatus(p)
         \/ Beat(p) \/ Pause(p) \/ Recheck(p)
  PROVE  Quiet(p)
  <1>1. CASE Save(p)
    BY <1>1, EndIsQuiet DEF Save
  <1>2. CASE CheckReady(p)
    <2>1. job[p].at # "run"
      BY <1>2 DEF CheckReady, At
    <2>2. \/ \E x, y : job' = [job EXCEPT ![p].at = x, ![p].account = y]
          \/ \E x, y : job' = [job EXCEPT ![p].at = x, ![p].failed = y]
          \/ End(p, FALSE)
      BY <1>2, Zenon DEF CheckReady
    <2>3. CASE \E x, y : job' = [job EXCEPT ![p].at = x, ![p].account = y]
      BY <2>1, <2>3 DEF HonestJobs, Honest, Quiet, Fields
    <2>4. CASE \E x, y : job' = [job EXCEPT ![p].at = x, ![p].failed = y]
      BY <2>1, <2>4 DEF HonestJobs, Honest, Quiet, Fields
    <2> QED BY <2>1, <2>2, <2>3, <2>4, EndIsQuiet
  <1>3. CASE CodexLogin(p)
    <2>1. job[p].at # "run"
      BY <1>3 DEF CodexLogin, At
    <2>2. \E x, y : job' = [job EXCEPT ![p].at = x, ![p].failed = y]
      BY <1>3, Zenon DEF CodexLogin
    <2> QED BY <2>1, <2>2 DEF HonestJobs, Honest, Quiet, Fields
  <1>4. CASE Secure(p) \/ Pause(p)
    BY <1>4, GotoIsQuiet DEF Secure, Pause, At
  <1>5. CASE LoginStatus(p)
    <2>1. job[p].at # "run"
      BY <1>5 DEF LoginStatus, At
    <2>2. \E x : job' = [job EXCEPT ![p].at = x, ![p].tries = 0]
      BY <1>5, Zenon DEF LoginStatus
    <2> QED BY <2>1, <2>2 DEF HonestJobs, Honest, Quiet, Fields
  <1>6. CASE Beat(p)
    BY <1>6 DEF HonestJobs, Honest, Quiet, Fields, Beat, At
  <1>7. CASE Recheck(p)
    BY <1>7, EndIsQuiet, GotoIsQuiet DEF Recheck, At
  <1> QED BY <1>1, <1>2, <1>3, <1>4, <1>5, <1>6, <1>7

(* The choice: whatever the accounts yield, it is a promised one.           *)
LEMMA SelectIsQuiet ==
  ASSUME HonestJobs, NEW p \in Processes, Select(p)
  PROVE  Quiet(p)
  <1>0. PICK spark \in BOOLEAN, m \in [Accounts(p) -> Measurements] :
          \E a \in Choices(m, spark) :
            job' = [job EXCEPT ![p].at = "recheck", ![p].account = a,
                               ![p].sound = Promised(m, a, spark)]
    BY DEF Select
  <1>1. PICK a \in Choices(m, spark) :
          job' = [job EXCEPT ![p].at = "recheck", ![p].account = a,
                             ![p].sound = Promised(m, a, spark)]
    BY <1>0
  <1>2. m \in [Accounts(p) -> Measured]
    BY MeasurementsAssumption
  <1>3. Promised(m, a, spark) = TRUE
    <2>1. Promised(m, a, spark)
      BY <1>2, ChoicesKeepThePromise
    <2>2. Promised(m, a, spark) \in BOOLEAN
      BY DEF Promised
    <2> QED BY <2>1, <2>2
  <1>4. job' = [job EXCEPT ![p].at = "recheck", ![p].account = a, ![p].sound = TRUE]
    BY <1>1, <1>3
  <1> QED BY <1>4 DEF HonestJobs, Honest, Quiet, Fields, Select, At

-----------------------------------------------------------------------------
(* An error or a kill at any step ends the command or gives a profile up.   *)
LEMMA TroubleIsQuiet ==
  ASSUME HonestJobs, NEW p \in Processes, Fail(p) \/ Killed(p) \/ CodexEnds(p)
  PROVE  Quiet(p)
  BY EndIsQuiet, GiveUpIsQuiet DEF Fail, Killed, CodexEnds, At

(* What is announced is the account that codex then runs on.                *)
LEMMA AnnounceIsHonest ==
  ASSUME HonestJobs, NEW p \in Processes, Announce(p)
  PROVE  HonestJobs'
  BY DEF HonestJobs, Honest, Fields, Announce, At

(* No step of any process and no edit of a person makes a command dishonest.*)
LEMMA NextIsHonest ==
  ASSUME HonestJobs, [Next]_vars
  PROVE  HonestJobs'
  <1>1. CASE UNCHANGED vars \/ Edit
    BY <1>1 DEF HonestJobs, vars, Edit
  <1>2. ASSUME NEW p \in Processes,
               Start(p) \/ Step(p) \/ CodexLogin(p) \/ CodexEnds(p) \/ Fail(p) \/ Killed(p)
        PROVE  HonestJobs'
    BY <1>2, QuietIsHonest, StartingIsQuiet, PrepareIsQuiet, UsingIsQuiet, SelectIsQuiet,
       TroubleIsQuiet, AnnounceIsHonest, Zenon DEF Step
  <1> QED BY <1>1, <1>2 DEF Next

(* Codex runs on the account that the order of accounts promises, and on    *)
(* the one that was announced to the caller (RunExec, selectExecProfile).   *)
THEOREM CodexRunsOnThePromisedAccount == Spec => []RunsOnThePromisedAccount
  <1>1. Init => HonestJobs
    BY DEF Init, HonestJobs, Honest, Idle, Fields
  <1>2. HonestJobs => RunsOnThePromisedAccount
    BY DEF HonestJobs, Honest, RunsOnThePromisedAccount
  <1>3. HonestJobs /\ [Next]_vars => HonestJobs'
    BY NextIsHonest
  <1> QED BY <1>1, <1>2, <1>3, PTL DEF Spec

-----------------------------------------------------------------------------
(* The shared files.                                                        *)

Known == Policies \cup {NoPolicy}
Configs == [exists : BOOLEAN, profiles : SUBSET Names, policy : Known]
Entries == {None, File} \cup Sources
Homes == [made : BOOLEAN, private : BOOLEAN, config : {"none", "link", "own", "generated"},
          guidance : [Guidance -> Entries], skills : [Skills -> Entries]]

(* A link that was reported as settled is where it was put, or a file of    *)
(* the user is.                                                             *)
Kept(links, there) ==
  \A x \in DOMAIN links : there[x] \in links[x] /\ File \in links[x]

SharedOK ==
  /\ config \in Configs
  /\ home \in [Names -> Homes]
  /\ offers \in [Sources -> SUBSET (Guidance \cup (Skills \ {Staged}))]
  /\ added \subseteq Names /\ (~config.exists => added = {})
  /\ AddedStays
  /\ DOMAIN settled = Names
  /\ \A n \in Names : /\ DOMAIN settled[n] = {"guidance", "skills"}
                      /\ DOMAIN settled[n].guidance \subseteq Guidance
                      /\ DOMAIN settled[n].skills \subseteq Skills
                      /\ Kept(settled[n].guidance, home[n].guidance)
                      /\ Kept(settled[n].skills, home[n].skills)

-----------------------------------------------------------------------------
(* What a command may rely on.                                              *)

Guiding == {"guide", "swap guide"}
Linking == {"skills", "swap skill"}
Filling == {"stale", "fill"}
Skilling == Linking \cup Filling
Making == {"make", "config", "guidance"} \cup Guiding \cup Skilling
Resting == {"idle", "lock", "done"}

JobOK(j) ==
  /\ DOMAIN j = Fields
  /\ j.kind \in Kinds \cup {"none"} /\ (j.kind = "none" => j.at \in {"idle", "done"})
  /\ j.kind = "init" => j.at \in {"lock", "load", "save"}
  /\ j.kind \in {"add", "reconcile"} =>
       j.at \in {"lock", "load", "next", "check", "save"} \cup Making
  /\ j.cfg \in Configs

(* Who prepares a home or saves config.json has the lock.                   *)
HoldsLock(p) ==
  job[p].at \in Making \cup {"check", "save"} \/ (Keeps(job[p].kind) /\ job[p].at \notin Resting)
    => lock = p

(* An add has the profiles that were added before, and the home it made.    *)
AddOK(p) ==
  LET j == job[p] IN
  /\ j.at = "save" => j.kind \in {"init", "add"} /\ added \subseteq j.cfg.profiles
  /\ j.kind = "add" =>
       /\ j.at \notin {"lock", "load"} => added \subseteq j.cfg.profiles
       /\ j.at \in {"lock", "load", "next"} => \E n \in Names : j.todo = <<n>>
       /\ j.at \in {"check", "save"} \cup Making => j.n \in Names
       /\ j.at \in {"save"} \cup (Making \ {"make"}) => home[j.n].made
       /\ j.at \in {"save", "guidance"} \cup Guiding \cup Skilling => home[j.n].config # "none"

(* The home in hand as far as the preparation has come: the positions that  *)
(* are not left have their links.                                           *)
Guided(p) ==
  \A g \in DOMAIN job[p].guided :
    home[job[p].n].guidance[g] \in {job[p].guided[g], File} \/ g \in Elements(job[p].left)
Linked(p) ==
  \A s \in Skills : home[job[p].n].skills[s] \in {job[p].want[s], File}
    \/ s \in Elements(job[p].left) \/ (s = Staged /\ job[p].at = "swap skill")
Inside(p, s) == home[job[p].n].skills[s] \in {None, File, Default}
Filled(p) ==
  \A s \in Skills \ {Staged} : Inside(p, s)
    /\ (home[job[p].n].skills[s] \in {job[p].want[s], File, Default} \/ s \in Elements(job[p].left))

Wanted(p) ==
  LET j == job[p] IN
  /\ j.want \in [Skills -> Entries] /\ j.want[Staged] = None
  /\ j.guided = NoWant \/ j.guided \in [Guidance -> Entries]
  /\ j.at \in {"make", "config", "guidance"} =>
       IF j.cfg.policy.guidance = "leave" THEN j.guided = NoWant
       ELSE j.guided \in [Guidance -> Entries]
  /\ j.at \in Guiding => j.left \in Seq(Guidance) /\ j.guided \in [Guidance -> Entries]
  /\ j.at \in Skilling => j.left \in Seq(Skills) /\ (j.cfg.policy.strict <=> j.at \in Filling)
  /\ j.at \in Filling => j.want \in [Skills -> {None, Default}]
  /\ j.at \in {"swap guide", "swap skill"} => j.left # <<>>

Placed(p) ==
  job[p].n \in Names =>
    /\ settled[job[p].n] = Unsettled
    /\ job[p].at \in Guiding => Guided(p)
    /\ job[p].at \in Skilling =>
         \A g \in DOMAIN job[p].guided :
            home[job[p].n].guidance[g] \in {job[p].guided[g], File}
    /\ job[p].at \in Linking => Linked(p)
    /\ job[p].at = "stale" => \A s \in Skills : Inside(p, s) \/ s \in Elements(job[p].left)
    /\ job[p].at = "fill" => Filled(p)

CommandOK(p) ==
  /\ JobOK(job[p]) /\ HoldsLock(p) /\ AddOK(p)
  /\ job[p].at \in Making => Wanted(p) /\ Placed(p)

IInv == SharedOK /\ DOMAIN job = Processes /\ \A p \in Processes : CommandOK(p)

-----------------------------------------------------------------------------
(* Sequences of names, and what a policy wants.                             *)

(* What is left of a pass is its first position and the rest.               *)
LEMMA ElementsSplit ==
  ASSUME NEW S, NEW seq \in Seq(S), seq # <<>>
  PROVE  /\ Head(seq) \in S /\ Tail(seq) \in Seq(S)
         /\ \A x : x \in Elements(seq) => x = Head(seq) \/ x \in Elements(Tail(seq))
  <1>1. Len(seq) \in Nat /\ Len(seq) > 0 /\ Head(seq) = seq[1] /\ seq[1] \in S
    OBVIOUS
  <1>2. Tail(seq) \in Seq(S) /\ Len(Tail(seq)) = Len(seq) - 1
    OBVIOUS
  <1>3. \A i \in 2..Len(seq) : seq[i] = Tail(seq)[i-1] /\ i - 1 \in 1..Len(Tail(seq))
    BY <1>1, <1>2
  <1>4. \A i \in 1..Len(seq) : i = 1 \/ i \in 2..Len(seq)
    BY <1>1
  <1> QED BY <1>1, <1>2, <1>3, <1>4 DEF Elements

(* After the last position none is left.                                    *)
LEMMA NoneLeft == Elements(<<>>) = {}
  BY DEF Elements

(* The config of a command holds a policy that the reader accepts.          *)
LEMMA KnownPolicies ==
  ASSUME NEW policy \in Known
  PROVE  policy.sources \in Seq(Sources) /\ policy.strict \in BOOLEAN
  <1>1. NoPolicy.sources \in Seq(Sources) /\ NoPolicy.strict \in BOOLEAN
    BY DEF NoPolicy
  <1> QED BY <1>1, PoliciesAssumption DEF Known, WellFormed

(* The first source that has a skill is a source; none has the staged name. *)
LEMMA FirstWithType ==
  ASSUME NEW sources \in Seq(Sources), NEW s,
         NEW there \in [Sources -> SUBSET (Guidance \cup (Skills \ {Staged}))]
  PROVE  /\ FirstWith(sources, s, there) \in Entries
         /\ s = Staged => FirstWith(sources, s, there) = None
  <1> DEFINE having == {i \in 1..Len(sources) : s \in there[sources[i]]}
             first == CHOOSE i \in having : \A j \in having : i <= j
  <1>1. Len(sources) \in Nat /\ \A i \in 1..Len(sources) : sources[i] \in Sources
    OBVIOUS
  <1>2. having # {} => first \in having
    <2>1. SUFFICES ASSUME having # {} PROVE \E i \in having : \A j \in having : i <= j
      OBVIOUS
    <2>2. having \in SUBSET Nat
      BY <1>1
    <2> HIDE DEF having
    <2> QED BY <2>1, <2>2, SetHasLeast
  <1>3. s = Staged => having = {}
    BY <1>1, NamesAssumption
  <1>4. FirstWith(sources, s, there) = IF having = {} THEN None ELSE sources[first]
    BY DEF FirstWith
  <1>5. having # {} => sources[first] \in Sources
    BY <1>1, <1>2
  <1> HIDE DEF having, first
  <1> QED BY <1>3, <1>4, <1>5 DEF Entries

(* The staged name is one of the positions.                                 *)
LEMMA StagedIsSkill == Staged \in Skills
  BY NamesAssumption

(* What a policy wants is at each position nothing or a source.             *)
LEMMA WantsType ==
  ASSUME NEW policy \in Known,
         NEW there \in [Sources -> SUBSET (Guidance \cup (Skills \ {Staged}))]
  PROVE  /\ WantedSkills(policy, there) \in [Skills -> Entries]
         /\ WantedSkills(policy, there)[Staged] = None
         /\ DefaultSkills(there) \in [Skills -> {None, Default}]
         /\ DefaultSkills(there)[Staged] = None
         /\ \A h : WantedGuidance(policy, there, h) \in [Guidance -> Entries]
  <1>1. Staged \in Skills
    BY NamesAssumption
  <1>2. \A s : FirstWith(policy.sources, s, there) \in Entries
               /\ (s = Staged => FirstWith(policy.sources, s, there) = None)
    BY KnownPolicies, FirstWithType
  <1>3. Staged \notin there[Default]
    BY NamesAssumption DEF Sources
  <1> QED BY <1>1, <1>2, <1>3 DEF WantedSkills, DefaultSkills, WantedGuidance, Entries

-----------------------------------------------------------------------------
(* One step of one command.                                                 *)

Moved(p) ==
  /\ DOMAIN job' = Processes
  /\ \A q \in Processes \ {p} : job'[q] = job[q]
  /\ lock' = lock \/ (lock = p /\ lock' = Free) \/ (lock = Free /\ lock' = p)

(* It changes nothing that is shared.                                       *)
Aside(p) == Moved(p) /\ UNCHANGED <<config, home, offers, settled, added>>

(* What the others rely on stays as long as they have the lock, and         *)
(* otherwise they rely on little.                                           *)
LEMMA OthersStay ==
  ASSUME IInv, NEW p \in Processes, Moved(p),
         UNCHANGED <<home, settled, added>> \/ lock = p
  PROVE  \A q \in Processes \ {p} : CommandOK(q)'
  <1> SUFFICES ASSUME NEW q \in Processes \ {p} PROVE CommandOK(q)'
    OBVIOUS
  <1>1. job'[q] = job[q] /\ CommandOK(q) /\ Free \notin Processes
    BY NamesOfProfiles DEF Moved, IInv
  <1>2. lock = q => lock' = q /\ lock # p
    BY <1>1 DEF Moved
  <1>3. HoldsLock(q)'
    BY <1>1, <1>2 DEF HoldsLock, CommandOK
  <1>4. CASE lock = q
    <2>1. UNCHANGED <<home, settled, added>>
      BY <1>2, <1>4
    <2>2. AddOK(q) => AddOK(q)'
      BY <1>1, <2>1 DEF AddOK
    <2>3. Wanted(q) => Wanted(q)'
      BY <1>1 DEF Wanted
    <2>4. Placed(q) => Placed(q)'
      BY <1>1, <2>1 DEF Placed, Guided, Linked, Inside, Filled
    <2> QED BY <1>1, <1>3, <2>2, <2>3, <2>4 DEF CommandOK
  <1>5. CASE lock # q
    <2>1. job[q].at \notin Making \cup {"check", "save"}
          /\ (job[q].kind = "add" => job[q].at \in {"lock"})
      BY <1>1, <1>5 DEF CommandOK, HoldsLock, JobOK, Keeps, Resting, Making, Guiding, Skilling, Linking, Filling
    <2>2. AddOK(q)'
      BY <1>1, <2>1 DEF CommandOK, AddOK, Making, Guiding, Skilling, Linking, Filling
    <2> QED BY <1>1, <1>3, <2>1, <2>2 DEF CommandOK
  <1> QED BY <1>4, <1>5

(* A step that changes nothing shared keeps what the others rely on.        *)
LEMMA AsideOK ==
  ASSUME IInv, NEW p \in Processes, Aside(p), CommandOK(p)'
  PROVE  IInv'
  <1>1. \A q \in Processes \ {p} : CommandOK(q)'
    BY OthersStay DEF Aside
  <1>2. SharedOK'
    BY DEF IInv, SharedOK, AddedStays, Aside
  <1> QED BY <1>1, <1>2 DEF IInv, Aside, Moved

(* A command that neither prepares nor adds relies on its lock only.        *)
LEMMA ApartOK ==
  ASSUME NEW p \in Processes, JobOK(job[p])', HoldsLock(p)', job'[p].kind # "add",
         job'[p].at \notin Making \cup {"check", "save"}
  PROVE  CommandOK(p)'
  BY DEF CommandOK, AddOK

(* A command that ends lets go of the lock.                                 *)
LEMMA EndOK ==
  ASSUME IInv, NEW p \in Processes, NEW ok, End(p, ok)
  PROVE  Moved(p) /\ CommandOK(p)'
  <1> DEFINE j == Ended(p, ok)
  <1>1. /\ DOMAIN j = Fields /\ j.kind = "none" /\ j.at = "done" /\ j.cfg \in Configs
    BY DEF Ended, Idle, Fields, NoConfig, Configs, Known
  <1>2. job' = [job EXCEPT ![p] = j] /\ lock' = Released(p)
    BY DEF End
  <1> HIDE DEF j
  <1>3. Moved(p)
    BY <1>2 DEF Moved, Released, IInv
  <1>4. job'[p] = j
    BY <1>2 DEF IInv
  <1>5. JobOK(job[p])'
    BY <1>1, <1>4 DEF JobOK
  <1>6. HoldsLock(p)'
    BY <1>1, <1>4 DEF HoldsLock, Resting, Keeps, Making, Guiding, Skilling, Linking, Filling
  <1>7. job'[p].at \notin Making \cup {"check", "save"}
    BY <1>1, <1>4 DEF Making, Guiding, Skilling, Linking, Filling
  <1> QED BY <1>1, <1>3, <1>4, <1>5, <1>6, <1>7, ApartOK

(* The stages at which a command relies on nothing but its config.          *)
LEMMA Stages ==
  \A at : at \in {"idle", "load", "next", "alone", "ready", "login", "secure", "status", "beat",
                  "pause", "select", "recheck", "announce", "run", "ensure", "lock", "done"}
            => at \notin Making \cup {"check", "save"}
  BY DEF Making, Guiding, Skilling, Linking, Filling

(* A command that is not an add goes to such a stage.                       *)
LEMMA GoesOn ==
  ASSUME IInv, NEW p \in Processes, Moved(p), NEW j, job' = [job EXCEPT ![p] = j],
         DOMAIN j = Fields, j.kind = job[p].kind, j.kind # "none", j.cfg \in Configs,
         j.at \notin Making \cup {"check", "save"},
         ~Keeps(j.kind) \/ (j.kind = "reconcile" /\ j.at = "next" /\ lock' = p)
  PROVE  CommandOK(p)'
  <1>1. job'[p] = j /\ j.kind \in Kinds
    BY DEF IInv, CommandOK, JobOK
  <1>2. JobOK(job[p])'
    BY <1>1 DEF JobOK, Keeps
  <1>3. HoldsLock(p)'
    BY <1>1 DEF HoldsLock
  <1> QED BY <1>1, <1>2, <1>3, ApartOK DEF Keeps

(* An add that has not begun knows the profile it was given.                *)
LEMMA AddWaits ==
  ASSUME NEW p \in Processes, job'[p].at \in {"lock", "load", "next"},
         job'[p].kind = "add" =>
           /\ \E n \in Names : job'[p].todo = <<n>>
           /\ job'[p].at = "next" => added' \subseteq job'[p].cfg.profiles
  PROVE  AddOK(p)'
  <1>1. job'[p].at \notin Making \cup {"check", "save"}
    BY DEF Making, Guiding, Skilling, Linking, Filling
  <1>2. job'[p].at \notin {"save", "guidance"} \cup Guiding \cup Skilling
    BY <1>1 DEF Making
  <1> QED BY <1>1, <1>2 DEF AddOK

(* The stages of the commands that do not keep the lock.                    *)
Using == {"alone", "ensure", "ready", "login", "secure", "status", "beat", "pause", "select",
          "recheck", "announce", "run"}

(* These commands go on.                                                    *)
LEMMA UsesOn ==
  ASSUME IInv, NEW p \in Processes, job[p].at \in Using, NEW j, job' = [job EXCEPT ![p] = j],
         DOMAIN j = DOMAIN job[p], j.kind = job[p].kind, j.cfg = job[p].cfg,
         j.at \notin Making \cup {"check", "save"}, lock' = lock
  PROVE  Moved(p) /\ CommandOK(p)'
  <1>1. JobOK(job[p]) /\ DOMAIN job = Processes
    BY DEF IInv, CommandOK
  <1>2. job[p].at \notin {"idle", "lock", "load", "next", "check", "save", "done"} \cup Making
    BY DEF Using, Making, Guiding, Skilling, Linking, Filling
  <1>3. ~Keeps(j.kind) /\ j.kind # "none"
    BY <1>1, <1>2 DEF JobOK, Keeps
  <1>4. Moved(p)
    BY <1>1 DEF Moved
  <1> QED BY <1>1, <1>3, <1>4, GoesOn DEF JobOK

-----------------------------------------------------------------------------
(* Starting, reading the config and taking turns.                           *)

(* A command is started with a profile of its own or with none.             *)
LEMMA StartOK ==
  ASSUME IInv, NEW p \in Processes, Start(p)
  PROVE  Aside(p) /\ CommandOK(p)'
  <1>1. PICK kind \in Commands[p] :
          \E n \in IF kind \in {"add", "login", "account"} THEN Names ELSE {NoName} :
            job' = [job EXCEPT ![p].kind = kind, ![p].at = IF Keeps(kind) THEN "lock" ELSE "load",
                               ![p].todo = IF n = NoName THEN <<>> ELSE <<n>>]
    BY DEF Start
  <1>a. PICK n \in IF kind \in {"add", "login", "account"} THEN Names ELSE {NoName} :
            job' = [job EXCEPT ![p].kind = kind, ![p].at = IF Keeps(kind) THEN "lock" ELSE "load",
                               ![p].todo = IF n = NoName THEN <<>> ELSE <<n>>]
    BY <1>1
  <1> DEFINE at == IF Keeps(kind) THEN "lock" ELSE "load"
             todo == IF n = NoName THEN <<>> ELSE <<n>>
             j == [job[p] EXCEPT !.kind = kind, !.at = at, !.todo = todo]
  <1>2. JobOK(job[p]) /\ DOMAIN job = Processes
    BY DEF IInv, CommandOK
  <1>3. kind \in Kinds
    BY <1>1, CommandsAssumption
  <1>4. job' = [job EXCEPT ![p] = j]
    BY <1>a
  <1>5. /\ DOMAIN j = Fields /\ j.kind = kind /\ j.at = at /\ j.todo = todo /\ j.cfg \in Configs
    BY <1>2 DEF JobOK, Fields
  <1>6. kind = "add" => Keeps(kind) /\ n \in Names /\ todo = <<n>>
    BY <1>a, NamesOfProfiles DEF Keeps
  <1>7. at \in {"lock", "load"} /\ (at = "lock" <=> Keeps(kind))
    OBVIOUS
  <1> HIDE DEF at, todo, j
  <1>8. Aside(p)
    BY <1>2, <1>4 DEF Start, Aside, Moved, disk, people, locks, ghosts
  <1>9. job'[p] = j
    BY <1>2, <1>4
  <1>10. JobOK(job[p])'
    BY <1>3, <1>5, <1>7, <1>9 DEF JobOK, Kinds, Keeps
  <1>11. HoldsLock(p)'
    BY <1>5, <1>7, <1>9, Stages DEF HoldsLock, Resting
  <1>12. AddOK(p)'
    BY <1>5, <1>6, <1>7, <1>9, AddWaits
  <1> QED BY <1>5, <1>7, <1>8, <1>9, <1>10, <1>11, <1>12, Stages DEF CommandOK

(* Who gets the lock goes on to read the config or to check the home.       *)
LEMMA LockOK ==
  ASSUME IInv, NEW p \in Processes, Lock(p)
  PROVE  Aside(p) /\ CommandOK(p)'
  <1> DEFINE at == IF Keeps(job[p].kind) THEN "load" ELSE "check"
             j == [job[p] EXCEPT !.at = at]
  <1>1. CommandOK(p) /\ DOMAIN job = Processes /\ job[p].at = "lock"
    BY DEF IInv, Lock, At
  <1>2. job' = [job EXCEPT ![p] = j] /\ lock = Free /\ lock' = p
    BY DEF Lock, Goto
  <1>3. /\ DOMAIN j = Fields /\ j.kind = job[p].kind /\ j.at = at /\ j.todo = job[p].todo
        /\ j.cfg \in Configs
    BY <1>1 DEF CommandOK, JobOK, Fields
  <1>4. at \in {"load", "check"} /\ (at = "load" <=> Keeps(job[p].kind))
    OBVIOUS
  <1> HIDE DEF at, j
  <1>5. Aside(p)
    BY <1>1, <1>2 DEF Lock, Aside, Moved, disk, people, ghosts
  <1>6. job'[p] = j
    BY <1>1, <1>2
  <1>7. JobOK(job[p])' /\ HoldsLock(p)'
    BY <1>1, <1>2, <1>3, <1>4, <1>6 DEF CommandOK, JobOK, HoldsLock, Keeps
  <1>8. AddOK(p)'
    <2>1. CASE job[p].kind = "add"
      <3>1. at = "load" /\ \E n \in Names : job[p].todo = <<n>>
        BY <1>1, <1>4, <2>1 DEF CommandOK, AddOK, Keeps
      <3> QED BY <1>3, <1>6, <3>1, AddWaits
    <2>2. CASE job[p].kind # "add"
      <3>1. job'[p].kind # "add" /\ job'[p].at # "save"
        BY <1>3, <1>4, <1>6, <2>2
      <3> QED BY <3>1 DEF AddOK
    <2> QED BY <2>1, <2>2
  <1> QED BY <1>3, <1>4, <1>5, <1>6, <1>7, <1>8 DEF CommandOK, Making, Guiding, Skilling, Linking, Filling

(* What a command reads of the config has all profiles added so far.        *)
LEMMA StoredOK ==
  ASSUME SharedOK
  PROVE  Stored \in Configs /\ added \subseteq Stored.profiles
  <1>1. NoConfig \in Configs /\ NoConfig.profiles = {}
    BY DEF NoConfig, Configs, Known
  <1> QED BY <1>1 DEF SharedOK, Stored, AddedStays

(* init reads that there is no config, or has nothing to do.                *)
LEMMA InitializeOK ==
  ASSUME IInv, NEW p \in Processes, Initialize(p)
  PROVE  Aside(p) /\ CommandOK(p)'
  <1>0. job[p].at = "load" /\ job[p].kind = "init" /\ CommandOK(p) /\ DOMAIN job = Processes
    BY DEF Initialize, At, IInv
  <1>1. CASE End(p, TRUE)
    BY <1>1, EndOK DEF Initialize, Aside, disk, people, ghosts
  <1>2. CASE job' = [job EXCEPT ![p].at = "save", ![p].cfg = Stored] /\ UNCHANGED locks
    <2> DEFINE cfg == Stored
               j == [job[p] EXCEPT !.at = "save", !.cfg = cfg]
    <2>1. cfg \in Configs /\ added \subseteq cfg.profiles
      BY StoredOK DEF IInv
    <2>2. job' = [job EXCEPT ![p] = j] /\ lock' = lock /\ added' = added
      BY <1>2 DEF Initialize, locks, ghosts
    <2>3. DOMAIN j = Fields /\ j.kind = "init" /\ j.at = "save" /\ j.cfg = cfg
      BY <1>0 DEF CommandOK, JobOK, Fields
    <2> HIDE DEF cfg, j
    <2>4. Aside(p)
      BY <1>0, <2>2 DEF Initialize, Aside, Moved, disk, people, ghosts
    <2>5. job'[p] = j
      BY <1>0, <2>2
    <2>6. JobOK(job[p])' /\ HoldsLock(p)' /\ AddOK(p)'
      BY <1>0, <2>1, <2>2, <2>3, <2>5 DEF CommandOK, JobOK, HoldsLock, AddOK, Keeps, Resting
    <2> QED BY <2>3, <2>4, <2>5, <2>6 DEF CommandOK, Making, Guiding, Skilling, Linking, Filling
  <1> QED BY <1>1, <1>2, <1>0 DEF Initialize

(* The other commands read the config and their profiles.                   *)
LEMMA LoadOK ==
  ASSUME IInv, NEW p \in Processes, Load(p)
  PROVE  Aside(p) /\ CommandOK(p)'
  <1>0. job[p].at = "load" /\ job[p].kind # "init" /\ CommandOK(p) /\ DOMAIN job = Processes
    BY DEF Load, At, IInv
  <1>1. CASE End(p, FALSE)
    BY <1>1, EndOK DEF Load, Aside, disk, people, ghosts
  <1>2. CASE /\ job' = [job EXCEPT ![p].at = IF job[p].kind = "heartbeat" THEN "alone" ELSE "next",
                                   ![p].cfg = Stored, ![p].todo = ProfilesOf(p)]
             /\ UNCHANGED locks
    <2> DEFINE at == IF job[p].kind = "heartbeat" THEN "alone" ELSE "next"
               cfg == Stored
               todo == ProfilesOf(p)
               j == [job[p] EXCEPT !.at = at, !.cfg = cfg, !.todo = todo]
    <2>1. cfg \in Configs /\ added \subseteq cfg.profiles
      BY StoredOK DEF IInv
    <2>2. job' = [job EXCEPT ![p] = j] /\ lock' = lock /\ added' = added
      BY <1>2 DEF Load, locks, ghosts
    <2>3. DOMAIN j = Fields /\ j.kind = job[p].kind /\ j.at = at /\ j.cfg = cfg /\ j.todo = todo
      BY <1>0 DEF CommandOK, JobOK, Fields
    <2>4. /\ at \in {"alone", "next"} /\ (job[p].kind # "heartbeat" => at = "next")
          /\ job[p].kind = "add" => todo = job[p].todo
      BY DEF ProfilesOf, Given
    <2> HIDE DEF at, cfg, todo, j
    <2>5. Aside(p)
      BY <1>0, <2>2 DEF Load, Aside, Moved, disk, people, ghosts
    <2>6. job'[p] = j
      BY <1>0, <2>2
    <2>7. JobOK(job[p])'
      BY <1>0, <2>1, <2>3, <2>4, <2>6 DEF CommandOK, JobOK
    <2>8. HoldsLock(p)'
      BY <1>0, <2>2, <2>3, <2>4, <2>6, Stages DEF CommandOK, HoldsLock, Resting
    <2>9. AddOK(p)'
      <3>1. CASE job[p].kind = "add"
        <4>1. \E n \in Names : job[p].todo = <<n>>
          BY <1>0, <3>1 DEF CommandOK, AddOK
        <4> QED BY <2>1, <2>2, <2>3, <2>4, <2>6, <3>1, <4>1, AddWaits
      <3>2. CASE job[p].kind # "add"
        <4>1. job'[p].kind # "add" /\ job'[p].at # "save"
          BY <2>3, <2>4, <2>6, <3>2
        <4> QED BY <4>1 DEF AddOK
      <3> QED BY <3>1, <3>2
    <2> QED BY <2>3, <2>4, <2>5, <2>6, <2>7, <2>8, <2>9, Stages DEF CommandOK
  <1> QED BY <1>1, <1>2, <1>0 DEF Load


(* A heartbeat goes on when it is the only one.                             *)
LEMMA TryBeatOK ==
  ASSUME IInv, NEW p \in Processes, TryBeat(p)
  PROVE  Aside(p) /\ CommandOK(p)'
  <1>0. job[p].at = "alone" /\ JobOK(job[p]) /\ UNCHANGED <<config, home, offers, settled, added>>
    BY DEF TryBeat, At, IInv, CommandOK, disk, people, ghosts
  <1>1. CASE End(p, TRUE)
    BY <1>0, <1>1, EndOK DEF Aside
  <1>2. CASE Goto(p, "next") /\ UNCHANGED lock
    <2> DEFINE j == [job[p] EXCEPT !.at = "next"]
    <2>1. job' = [job EXCEPT ![p] = j]
      BY <1>2 DEF Goto
    <2>2. DOMAIN j = DOMAIN job[p] /\ j.kind = job[p].kind /\ j.cfg = job[p].cfg /\ j.at = "next"
      BY <1>0 DEF JobOK, Fields
    <2> HIDE DEF j
    <2> QED BY <1>0, <1>2, <2>1, <2>2, UsesOn, Stages DEF Aside, Using
  <1> QED BY <1>1, <1>2 DEF TryBeat

(* A failed preparation ends the command or leaves it with its next profile.*)
LEMMA GiveUpOK ==
  ASSUME IInv, NEW p \in Processes, GiveUp(p),
         \/ job[p].at \in Making \cup {"check"}
         \/ job[p].at \in {"ensure", "lock"} /\ ~Keeps(job[p].kind)
  PROVE  Moved(p) /\ CommandOK(p)'
  <1>0. CommandOK(p) /\ DOMAIN job = Processes
    BY DEF IInv
  <1>1. CASE End(p, FALSE)
    BY <1>1, EndOK
  <1>2. CASE Lenient(job[p].kind) /\ GoOn(p, FALSE)
    <2> DEFINE j == [job[p] EXCEPT !.at = "next", !.failed = @ \/ ~FALSE, !.want = NoWant,
                                   !.left = <<>>, !.guided = NoWant]
    <2>1. job' = [job EXCEPT ![p] = j]
      BY <1>2 DEF GoOn
    <2>2. DOMAIN j = Fields /\ j.kind = job[p].kind /\ j.cfg \in Configs /\ j.at = "next"
      BY <1>0 DEF CommandOK, JobOK, Fields
    <2> HIDE DEF j
    <2>3. lock' = IF Keeps(job[p].kind) THEN lock ELSE Released(p)
      BY <1>2 DEF GoOn
    <2>4. Moved(p)
      BY <1>0, <2>1, <2>3 DEF Moved, Released
    <2>5. job[p].kind # "none"
      BY <1>2 DEF Lenient
    <2>6. Keeps(job[p].kind) => job[p].kind = "reconcile" /\ lock' = p
      BY <1>0, <1>2, <2>3 DEF Lenient, Keeps, CommandOK, HoldsLock
    <2> QED BY <2>1, <2>2, <2>4, <2>5, <2>6, GoesOn, Stages
  <1> QED BY <1>1, <1>2 DEF GiveUp

(* The next profile is prepared under the lock the command keeps, or takes  *)
(* it.                                                                      *)
LEMMA NextProfileOK ==
  ASSUME IInv, NEW p \in Processes, NextProfile(p)
  PROVE  Aside(p) /\ CommandOK(p)'
  <1>0. /\ job[p].at = "next" /\ CommandOK(p) /\ DOMAIN job = Processes
        /\ UNCHANGED <<config, home, offers, settled, added>>
    BY DEF NextProfile, At, IInv, CommandOK, disk, people, ghosts
  <1>1. JobOK(job[p]) /\ job[p].kind \notin {"none", "init"} /\ AddOK(p)
        /\ (Keeps(job[p].kind) => lock = p)
    BY <1>0 DEF CommandOK, JobOK, HoldsLock, Resting
  <1>2. CASE \E ok : End(p, ok)
    BY <1>0, <1>2, EndOK DEF Aside
  <1>3. CASE job[p].todo = <<>> /\ job[p].kind = "exec" /\ Goto(p, "select") /\ UNCHANGED lock
    <2> DEFINE j == [job[p] EXCEPT !.at = "select"]
    <2>1. job' = [job EXCEPT ![p] = j]
      BY <1>3 DEF Goto
    <2>2. DOMAIN j = Fields /\ j.kind = job[p].kind /\ j.cfg \in Configs /\ j.at = "select"
      BY <1>1 DEF JobOK, Fields
    <2> HIDE DEF j
    <2>3. Moved(p)
      BY <1>0, <1>3, <2>1 DEF Moved
    <2>4. ~Keeps(j.kind)
      BY <1>3, <2>2 DEF Keeps
    <2> QED BY <1>0, <1>1, <2>1, <2>2, <2>3, <2>4, GoesOn, Stages DEF Aside
  <1>4. CASE /\ job[p].todo # <<>>
             /\ job' = [job EXCEPT ![p].at = IF LocksEach(job[p].kind) THEN "ensure" ELSE "check",
                                   ![p].n = Head(job[p].todo), ![p].todo = Tail(job[p].todo),
                                   ![p].cfg = ConfigOfNext(p)]
             /\ UNCHANGED lock
    <2> DEFINE at == IF LocksEach(job[p].kind) THEN "ensure" ELSE "check"
               n == Head(job[p].todo)
               todo == Tail(job[p].todo)
               cfg == ConfigOfNext(p)
               j == [job[p] EXCEPT !.at = at, !.n = n, !.todo = todo, !.cfg = cfg]
    <2>1. job' = [job EXCEPT ![p] = j] /\ lock' = lock /\ added' = added
      BY <1>0, <1>4
    <2>2. DOMAIN j = Fields /\ j.kind = job[p].kind /\ j.cfg = cfg /\ j.at = at /\ j.n = n
      BY <1>1 DEF JobOK, Fields
    <2>3. cfg \in Configs /\ (job[p].kind = "add" => cfg = job[p].cfg)
      BY <1>1, StoredOK DEF ConfigOfNext, IInv, JobOK
    <2>4. at = IF Keeps(job[p].kind) THEN "check" ELSE "ensure"
      BY DEF LocksEach
    <2>5. job[p].kind = "add" => n \in Names
      <3>1. SUFFICES ASSUME NEW x \in Names, job[p].todo = <<x>> PROVE n = x
        BY <1>0, <1>1 DEF AddOK
      <3> QED BY <3>1
    <2> HIDE DEF at, n, todo, cfg, j
    <2>6. Moved(p)
      BY <1>0, <1>4, <2>1 DEF Moved
    <2>7. CASE ~Keeps(job[p].kind)
      BY <1>0, <1>1, <2>1, <2>2, <2>3, <2>4, <2>6, <2>7, GoesOn, Stages DEF Aside
    <2>8. CASE Keeps(job[p].kind)
      <3>1. job'[p] = j /\ j.at = "check" /\ lock' = p
        BY <1>0, <1>1, <2>1, <2>2, <2>4, <2>8
      <3>2. JobOK(job[p])' /\ HoldsLock(p)'
        BY <1>1, <2>2, <2>3, <3>1 DEF JobOK, HoldsLock
      <3>3. j.at \notin Making
        BY <3>1 DEF Making, Guiding, Skilling, Linking, Filling
      <3>4. AddOK(p)'
        BY <1>0, <1>1, <2>1, <2>2, <2>3, <2>5, <3>1, <3>3 DEF AddOK, Making
      <3> QED BY <1>0, <2>6, <3>1, <3>2, <3>3, <3>4 DEF Aside, CommandOK
    <2> QED BY <2>7, <2>8
  <1> QED BY <1>2, <1>3, <1>4 DEF NextProfile, locks

(* A command that does not keep the lock looks at the storage before it     *)
(* waits.                                                                   *)
LEMMA EnsureProfileDirOK ==
  ASSUME IInv, NEW p \in Processes, EnsureProfileDir(p)
  PROVE  Aside(p) /\ CommandOK(p)'
  <1>0. job[p].at = "ensure" /\ JobOK(job[p]) /\ UNCHANGED <<config, home, offers, settled, added>>
    BY DEF EnsureProfileDir, At, IInv, CommandOK, disk, people, ghosts
  <1>1. ~Keeps(job[p].kind)
    BY <1>0 DEF JobOK, Keeps, Making, Guiding, Skilling, Linking, Filling
  <1>2. CASE GiveUp(p)
    BY <1>0, <1>1, <1>2, GiveUpOK DEF Aside
  <1>3. CASE Goto(p, "lock") /\ UNCHANGED lock
    <2> DEFINE j == [job[p] EXCEPT !.at = "lock"]
    <2>1. job' = [job EXCEPT ![p] = j]
      BY <1>3 DEF Goto
    <2>2. DOMAIN j = DOMAIN job[p] /\ j.kind = job[p].kind /\ j.cfg = job[p].cfg /\ j.at = "lock"
      BY <1>0 DEF JobOK, Fields
    <2> HIDE DEF j
    <2> QED BY <1>0, <1>3, <2>1, <2>2, UsesOn, Stages DEF Aside, Using
  <1> QED BY <1>2, <1>3 DEF EnsureProfileDir, locks


-----------------------------------------------------------------------------
(* Readiness, login, heartbeat, and running codex.                          *)

(* p has gone on to another such stage.                                     *)
Goes(p) ==
  /\ DOMAIN job' = Processes
  /\ \A q \in Processes \ {p} : job'[q] = job[q]
  /\ DOMAIN job'[p] = Fields /\ job'[p].kind = job[p].kind /\ job'[p].cfg = job[p].cfg
  /\ job'[p].at \in Using \cup {"next"}

(* A command that uses a profile relies on nothing that is shared.          *)
LEMMA GoesOK ==
  ASSUME IInv, NEW p \in Processes, job[p].at \in Using, Goes(p), lock' = lock
  PROVE  Moved(p) /\ CommandOK(p)'
  <1>1. JobOK(job[p]) /\ DOMAIN job = Processes
    BY DEF IInv, CommandOK
  <1>2. job[p].at \notin {"idle", "lock", "load", "next", "check", "save", "done"} \cup Making
    BY DEF Using, Making, Guiding, Skilling, Linking, Filling
  <1>3. ~Keeps(job[p].kind) /\ job[p].kind # "none"
    BY <1>1, <1>2 DEF JobOK, Keeps
  <1>4. job'[p].at \notin Making \cup {"check", "save"}
    BY Stages DEF Goes, Using
  <1>5. JobOK(job[p])'
    BY <1>1, <1>3 DEF JobOK, Goes, Keeps
  <1>6. HoldsLock(p)'
    BY <1>3, <1>4 DEF HoldsLock, Goes
  <1>7. job'[p].kind # "add"
    BY <1>3 DEF Goes, Keeps
  <1> QED BY <1>4, <1>5, <1>6, <1>7, ApartOK DEF Goes, Moved

(* Moving on is such a step.                                                *)
LEMMA GotoGoes ==
  ASSUME IInv, NEW p \in Processes, NEW step \in Using \cup {"next"}, Goto(p, step)
  PROVE  Goes(p)
  BY DEF IInv, CommandOK, JobOK, Goes, Goto, Fields

(* The readiness check decides how such a command goes on.                  *)
LEMMA CheckReadyOK ==
  ASSUME IInv, NEW p \in Processes, CheckReady(p)
  PROVE  Aside(p) /\ CommandOK(p)'
  <1>0. job[p].at = "ready" /\ JobOK(job[p]) /\ UNCHANGED <<config, home, offers, settled, added>>
    BY DEF CheckReady, At, IInv, CommandOK, disk, people, ghosts
  <1>1. job[p].kind \in {"login", "login-all", "exec", "account", "heartbeat"}
    BY <1>0 DEF JobOK, Kinds, Making, Guiding, Skilling, Linking, Filling
  <1>2. \/ End(p, FALSE)
        \/ UNCHANGED lock /\ \E y : job' = [job EXCEPT ![p].at = "next", ![p].failed = y]
        \/ UNCHANGED lock /\ \E x \in {"login", "next", "announce", "status"} : \E y :
             job' = [job EXCEPT ![p].at = x, ![p].account = y]
    <2> DEFINE kind == job[p].kind
               at == CASE kind \in {"login", "login-all"} -> "login"
                       [] kind = "exec" -> "next"
                       [] kind = "account" -> "announce"
                       [] kind = "heartbeat" -> "status"
               account == IF kind = "account" THEN job[p].n ELSE NoName
               failed == job[p].failed \/ ~(kind = "heartbeat" /\ auth[job[p].n] = "none")
    <2>1. at \in {"login", "next", "announce", "status"}
      BY <1>1
    <2>2. \/ End(p, FALSE)
          \/ UNCHANGED lock /\ job' = [job EXCEPT ![p].at = "next", ![p].failed = failed]
          \/ UNCHANGED lock /\ job' = [job EXCEPT ![p].at = at, ![p].account = account]
      BY DEF CheckReady, locks
    <2> HIDE DEF kind, at, account, failed
    <2> QED BY <2>1, <2>2
  <1>4. DOMAIN job = Processes
    BY DEF IInv
  <1>3. End(p, FALSE) \/ (Goes(p) /\ lock' = lock)
    <2>1. ASSUME NEW y, job' = [job EXCEPT ![p].at = "next", ![p].failed = y]
          PROVE  Goes(p)
      BY <1>0, <1>4, <2>1 DEF Goes, JobOK, Fields
    <2>2. ASSUME NEW x \in {"login", "next", "announce", "status"}, NEW y,
                 job' = [job EXCEPT ![p].at = x, ![p].account = y]
          PROVE  Goes(p)
      BY <1>0, <1>4, <2>2 DEF Goes, JobOK, Fields, Using
    <2> QED BY <1>2, <2>1, <2>2
  <1> QED BY <1>0, <1>3, EndOK, GoesOK DEF Aside, Using

(* Login and heartbeat leave config.json and the homes alone.               *)
LEMMA LoginOK ==
  ASSUME IInv, NEW p \in Processes, CodexLogin(p) \/ Secure(p) \/ LoginStatus(p) \/ Beat(p) \/ Pause(p)
  PROVE  Aside(p) /\ CommandOK(p)'
  <1>0. /\ job[p].at \in Using /\ JobOK(job[p]) /\ UNCHANGED <<config, home, offers, settled, added>>
        /\ lock' = lock
    BY DEF CodexLogin, Secure, LoginStatus, Beat, Pause, At, IInv, CommandOK, disk, people, ghosts,
           locks, Using
  <1>1. CASE CodexLogin(p)
    <2>1. \E ok \in BOOLEAN : \E y : job' = [job EXCEPT ![p].at = IF ok THEN "secure" ELSE "next",
                                                        ![p].failed = y]
      BY <1>1, Zenon DEF CodexLogin
    <2>2. Goes(p)
      BY <1>0, <2>1 DEF IInv, Goes, JobOK, Fields, Using
    <2> QED BY <1>0, <2>2, GoesOK DEF Aside
  <1>2. CASE Secure(p) \/ Pause(p)
    <2>1. \E step \in {"next", "beat"} : Goto(p, step)
      BY <1>2 DEF Secure, Pause
    <2>2. Goes(p)
      BY <2>1, GotoGoes DEF Using
    <2> QED BY <1>0, <2>2, GoesOK DEF Aside
  <1>3. CASE LoginStatus(p)
    <2>1. \E x \in {"beat", "next"} : job' = [job EXCEPT ![p].at = x, ![p].tries = 0]
      BY <1>3 DEF LoginStatus
    <2>2. Goes(p)
      BY <1>0, <2>1 DEF IInv, Goes, JobOK, Fields, Using
    <2> QED BY <1>0, <2>2, GoesOK DEF Aside
  <1>4. CASE Beat(p)
    <2>1. \/ \E y : job' = [job EXCEPT ![p].at = "pause", ![p].tries = y]
          \/ \E y : job' = [job EXCEPT ![p].at = "next", ![p].failed = y]
      BY <1>4, Zenon DEF Beat
    <2>2. Goes(p)
      BY <1>0, <2>1 DEF IInv, Goes, JobOK, Fields, Using
    <2> QED BY <1>0, <2>2, GoesOK DEF Aside
  <1> QED BY <1>1, <1>2, <1>3, <1>4

(* So do the choice of an account and codex itself.                         *)
LEMMA RunOK ==
  ASSUME IInv, NEW p \in Processes, Select(p) \/ Recheck(p) \/ Announce(p) \/ CodexEnds(p)
  PROVE  Aside(p) /\ CommandOK(p)'
  <1>0. job[p].at \in Using /\ JobOK(job[p]) /\ UNCHANGED <<config, home, offers, settled, added>>
    BY DEF Select, Recheck, Announce, CodexEnds, At, IInv, CommandOK, disk, people, ghosts, Using
  <1>1. CASE Select(p)
    <2>1. \E y, z : job' = [job EXCEPT ![p].at = "recheck", ![p].account = y, ![p].sound = z]
      BY <1>1, Zenon DEF Select
    <2>2. lock' = lock
      BY <1>1 DEF Select, locks
    <2>3. Goes(p)
      BY <1>0, <2>1 DEF IInv, Goes, JobOK, Fields, Using
    <2> QED BY <1>0, <2>2, <2>3, GoesOK DEF Aside
  <1>2. CASE Recheck(p)
    <2>1. End(p, FALSE) \/ (Goto(p, "announce") /\ lock' = lock)
      BY <1>2 DEF Recheck, locks
    <2>2. Goto(p, "announce") => Goes(p)
      BY GotoGoes DEF Using
    <2> QED BY <1>0, <2>1, <2>2, EndOK, GoesOK DEF Aside
  <1>3. CASE Announce(p)
    <2>1. \E y : job' = [job EXCEPT ![p].at = "run", ![p].announced = y]
      BY <1>3, Zenon DEF Announce
    <2>2. lock' = lock
      BY <1>3 DEF Announce, locks
    <2>3. Goes(p)
      BY <1>0, <2>1 DEF IInv, Goes, JobOK, Fields, Using
    <2> QED BY <1>0, <2>2, <2>3, GoesOK DEF Aside
  <1>4. CASE CodexEnds(p)
    BY <1>0, <1>4, EndOK DEF Aside, CodexEnds
  <1> QED BY <1>1, <1>2, <1>3, <1>4


-----------------------------------------------------------------------------
(* Steps of a preparation.                                                  *)

(* p goes on with the home in hand, which keeps its directory and config.   *)
Works(p) ==
  LET n == job[p].n IN
  /\ DOMAIN job' = Processes
  /\ \A q \in Processes \ {p} : job'[q] = job[q]
  /\ DOMAIN job'[p] = Fields /\ job'[p].kind = job[p].kind /\ job'[p].cfg = job[p].cfg
  /\ job'[p].n = n
  /\ job[p].at \in Making /\ job'[p].at \in Making \ {"make"}
  /\ job[p].at = "make" => job'[p].at = "config"
  /\ UNCHANGED <<config, offers, settled, added, lock>>
  /\ home' \in [Names -> Homes]
  /\ \A m \in Names : m # n => home'[m] = home[m]
  /\ n \in Names =>
       /\ home[n].made \/ job[p].at = "make" => home'[n].made
       /\ home[n].config # "none" \/ job[p].at = "config" => home'[n].config # "none"

(* Who prepares a home or saves the config has the lock.                    *)
LEMMA PreparingLocks ==
  ASSUME IInv, NEW p \in Processes, job[p].at \in Making \cup {"check", "save"}
  PROVE  lock = p
  BY DEF IInv, CommandOK, HoldsLock

(* A step of a preparation keeps everything if it keeps what the            *)
(* preparation knows.                                                       *)
LEMMA WorksOK ==
  ASSUME IInv, NEW p \in Processes, Works(p), Wanted(p)', Placed(p)'
  PROVE  IInv'
  <1>1. lock = p /\ CommandOK(p) /\ SharedOK /\ DOMAIN job = Processes
    BY PreparingLocks DEF IInv, Works
  <1>2. Moved(p)
    BY DEF Moved, Works
  <1>3. \A q \in Processes \ {p} : CommandOK(q)'
    BY <1>1, <1>2, OthersStay
  <1>4. Placed(p)
    BY <1>1 DEF CommandOK, Works
  <1>5. SharedOK'
    <2>1. AddedStays'
      <3>1. SUFFICES ASSUME NEW n \in added
                     PROVE  n \in config.profiles /\ home'[n].made /\ home'[n].config # "none"
        BY DEF AddedStays, Works
      <3>2. n \in Names /\ n \in config.profiles /\ home[n].made /\ home[n].config # "none"
        BY <1>1, <3>1 DEF SharedOK, AddedStays
      <3> QED BY <3>2 DEF Works
    <2>2. \A n \in Names : Kept(settled[n].guidance, home[n].guidance)'
                           /\ Kept(settled[n].skills, home[n].skills)'
      <3>1. SUFFICES ASSUME NEW n \in Names
                     PROVE  Kept(settled[n].guidance, home[n].guidance)'
                            /\ Kept(settled[n].skills, home[n].skills)'
        OBVIOUS
      <3>2. CASE n = job[p].n
        <4>1. settled'[n] = Unsettled
          BY <1>4, <3>2 DEF Placed, Works
        <4> QED BY <4>1 DEF Kept, Unsettled, NoWant
      <3>3. CASE n # job[p].n
        <4>1. home'[n] = home[n] /\ settled'[n] = settled[n]
          BY <3>3 DEF Works
        <4> QED BY <1>1, <4>1 DEF SharedOK, Kept
      <3> QED BY <3>2, <3>3
    <2> QED BY <1>1, <2>1, <2>2 DEF SharedOK, Works
  <1>6. JobOK(job[p])' /\ HoldsLock(p)'
    BY <1>1 DEF CommandOK, JobOK, HoldsLock, Works, Making, Guiding, Skilling, Linking, Filling
  <1>7. AddOK(p)'
    <2>1. SUFFICES ASSUME job[p].kind = "add"
                   PROVE  AddOK(p)'
      BY DEF AddOK, Works, Making, Guiding, Skilling, Linking, Filling
    <2>2. /\ added \subseteq job[p].cfg.profiles /\ job[p].n \in Names
          /\ job[p].at # "make" => home[job[p].n].made
          /\ job[p].at \notin {"make", "config"} => home[job[p].n].config # "none"
      BY <1>1, <2>1 DEF CommandOK, AddOK, Works, Making, Guiding, Skilling, Linking, Filling
    <2>3. home'[job[p].n].made
      BY <2>2 DEF Works
    <2>4. job'[p].at # "config" => home'[job[p].n].config # "none"
      BY <2>2 DEF Works
    <2>5. job'[p].at \notin {"save", "lock", "load", "next"}
      BY DEF Works, Making, Guiding, Skilling, Linking, Filling
    <2>6. job'[p].at \in {"guidance"} \cup Guiding \cup Skilling => job'[p].at # "config"
      BY DEF Guiding, Skilling, Linking, Filling
    <2> QED BY <2>1, <2>2, <2>3, <2>4, <2>5, <2>6 DEF AddOK, Works
  <1> QED BY <1>2, <1>3, <1>5, <1>6, <1>7 DEF IInv, CommandOK, Works, Moved

(* What a step does to the home in hand, and to no other.                   *)
LEMMA HomePut ==
  ASSUME home \in [Names -> Homes], NEW n, NEW h, n \in Names => h \in Homes,
         home' = [home EXCEPT ![n] = h]
  PROVE  /\ home' \in [Names -> Homes]
         /\ \A m \in Names : m # n => home'[m] = home[m]
         /\ n \in Names => home'[n] = h
  OBVIOUS

(* A skill link is put: the rest of the home stays.                         *)
LEMMA SkillPut ==
  ASSUME NEW h \in Homes, NEW s \in Skills, NEW e \in Entries
  PROVE  LET k == [h EXCEPT !.skills[s] = e] IN
         /\ k \in Homes /\ k.made = h.made /\ k.config = h.config /\ k.guidance = h.guidance
         /\ k.skills = [h.skills EXCEPT ![s] = e]
         /\ k.skills[s] = e /\ \A x \in Skills : x # s => k.skills[x] = h.skills[x]
  BY DEF Homes

(* A guidance link is put: the rest of the home stays.                      *)
LEMMA GuidancePut ==
  ASSUME NEW h \in Homes, NEW g \in Guidance, NEW e \in Entries
  PROVE  LET k == [h EXCEPT !.guidance[g] = e] IN
         /\ k \in Homes /\ k.made = h.made /\ k.config = h.config /\ k.skills = h.skills
         /\ k.guidance[g] = e /\ \A x \in Guidance : x # g => k.guidance[x] = h.guidance[x]
  BY DEF Homes


(* What a preparation can build on.                                         *)
LEMMA PrepareKnows ==
  ASSUME IInv, NEW p \in Processes, job[p].at \in Making
  PROVE  /\ DOMAIN job = Processes /\ DOMAIN job[p] = Fields /\ Wanted(p) /\ Placed(p)
         /\ home \in [Names -> Homes] /\ job[p].cfg.policy \in Known
  BY DEF IInv, SharedOK, CommandOK, JobOK, Configs

(* The directory and the config come before the links.                      *)
LEMMA MakeHomeOK ==
  ASSUME IInv, NEW p \in Processes, MakeHome(p) \/ LinkConfig(p)
  PROVE  IInv'
  <1>1. job[p].at \in {"make", "config"} /\ job[p].at \in Making
    BY DEF MakeHome, LinkConfig, At, Making
  <1> DEFINE n == job[p].n
             at == IF job[p].at = "make" THEN "config" ELSE "guidance"
             h == IF job[p].at = "make" THEN [home[n] EXCEPT !.made = TRUE]
                  ELSE [home[n] EXCEPT !.config = IF @ = "own" THEN "own" ELSE "link"]
  <1>2. /\ home' = [home EXCEPT ![n] = h] /\ job' = [job EXCEPT ![p].at = at]
        /\ UNCHANGED <<config, offers, settled, added, lock>>
    BY DEF MakeHome, LinkConfig, At, Goto, people, locks, ghosts
  <1>3. n \in Names => /\ h \in Homes /\ h.guidance = home[n].guidance /\ h.skills = home[n].skills
                       /\ home[n].made \/ job[p].at = "make" => h.made
                       /\ home[n].config # "none" \/ job[p].at = "config" => h.config # "none"
    BY <1>1, PrepareKnows DEF Homes
  <1>4. /\ at \in {"config", "guidance"} /\ (job[p].at = "make" => at = "config")
        /\ at \in Making \ {"make"} /\ at \notin Guiding \cup Skilling
    BY <1>1 DEF Making, Guiding, Skilling, Linking, Filling
  <1> HIDE DEF h, at
  <1>5. /\ home' \in [Names -> Homes] /\ \A m \in Names : m # n => home'[m] = home[m]
        /\ n \in Names => home'[n] = h
    BY <1>1, <1>2, <1>3, PrepareKnows, HomePut
  <1>6. /\ DOMAIN job' = Processes /\ \A q \in Processes \ {p} : job'[q] = job[q]
        /\ job'[p] = [job[p] EXCEPT !.at = at]
    BY <1>1, <1>2, PrepareKnows
  <1>7. /\ DOMAIN job'[p] = Fields /\ job'[p].kind = job[p].kind /\ job'[p].cfg = job[p].cfg
        /\ job'[p].n = n /\ job'[p].at = at /\ job'[p].want = job[p].want
        /\ job'[p].guided = job[p].guided
    BY <1>1, <1>6, PrepareKnows DEF Fields
  <1>8. Works(p)
    BY <1>1, <1>2, <1>3, <1>4, <1>5, <1>6, <1>7 DEF Works
  <1>9. Wanted(p)'
    BY <1>1, <1>4, <1>7, PrepareKnows DEF Wanted, Guiding, Skilling, Linking, Filling
  <1>10. Placed(p)'
    BY <1>1, <1>2, <1>4, <1>7, PrepareKnows DEF Placed, Guiding, Skilling, Linking, Filling
  <1> QED BY <1>8, <1>9, <1>10, WorksOK

(* The skills begin when every guidance link is in its place.               *)
LEMMA BeginSkillsOK ==
  ASSUME IInv, NEW p \in Processes, BeginSkills(p), job[p].at \in {"guidance", "guide"},
         job[p].at = "guidance" => job[p].cfg.policy.guidance = "leave",
         job[p].at = "guide" => job[p].left = <<>>,
         UNCHANGED <<config, offers, settled, added, lock, home>>
  PROVE  IInv'
  <1>1. job[p].at \in Making \ {"make"}
    BY DEF Making, Guiding
  <1> DEFINE strict == PolicyOf(p).strict
             at == IF strict THEN "stale" ELSE "skills"
             want == IF strict THEN DefaultSkills(offers) ELSE job[p].want
             n == job[p].n
  <1>2. /\ DOMAIN job' = Processes /\ \A q \in Processes \ {p} : job'[q] = job[q]
        /\ DOMAIN job'[p] = Fields /\ job'[p].kind = job[p].kind /\ job'[p].cfg = job[p].cfg
        /\ job'[p].n = n /\ job'[p].at = at /\ job'[p].want = want
        /\ job'[p].guided = job[p].guided /\ job'[p].left = SkillNames
    BY <1>1, PrepareKnows DEF BeginSkills, Fields
  <1>3. /\ want \in [Skills -> Entries] /\ want[Staged] = None
    <2>1. /\ DefaultSkills(offers) \in [Skills -> {None, Default}]
          /\ DefaultSkills(offers)[Staged] = None
      BY <1>1, PrepareKnows, WantsType DEF IInv, SharedOK
    <2>2. {None, Default} \subseteq Entries
      BY DEF Entries, Sources
    <2>3. DefaultSkills(offers) \in [Skills -> Entries]
      BY <2>1, <2>2
    <2>4. job[p].want \in [Skills -> Entries] /\ job[p].want[Staged] = None
      BY <1>1, PrepareKnows DEF Wanted
    <2> QED BY <2>1, <2>3, <2>4
  <1>4. SkillNames # <<>> /\ SkillNames \in Seq(Skills) /\ Elements(SkillNames) = Skills
    BY NamesAssumption DEF Skills
  <1>5. strict \in BOOLEAN
    BY <1>1, PrepareKnows, KnownPolicies DEF PolicyOf
  <1>6. at \in Skilling /\ at \in Making \ {"make"} /\ at \notin Guiding \cup {"swap skill"}
        /\ (strict <=> at \in Filling) /\ (at = "stale" <=> strict) /\ at # "fill"
    BY <1>5 DEF Making, Guiding, Skilling, Linking, Filling
  <1>7. strict = job'[p].cfg.policy.strict
    BY <1>2 DEF PolicyOf
  <1> HIDE DEF want, at, strict
  <1>8. Works(p)
    BY <1>1, <1>2, <1>6, PrepareKnows DEF Works
  <1>9. Wanted(p)'
    <2>1. job[p].guided = NoWant \/ job[p].guided \in [Guidance -> Entries]
      BY <1>1, PrepareKnows DEF Wanted
    <2>2. at \notin {"make", "config", "guidance", "swap guide", "swap skill"}
      BY <1>6 DEF Skilling, Linking, Filling, Guiding
    <2>3. strict => want \in [Skills -> {None, Default}]
      BY <1>1, PrepareKnows, WantsType DEF IInv, SharedOK, want
    <2> QED BY <1>2, <1>3, <1>4, <1>6, <1>7, <2>1, <2>2, <2>3 DEF Wanted
  <1>10. n \in Names => \A g \in DOMAIN job[p].guided :
                          home[n].guidance[g] \in {job[p].guided[g], File}
    <2>1. CASE job[p].at = "guidance"
      <3>1. DOMAIN job[p].guided = {}
        BY <1>1, <2>1, PrepareKnows DEF Wanted, NoWant
      <3> QED BY <3>1
    <2>2. CASE job[p].at = "guide"
      BY <1>1, <2>2, PrepareKnows, NoneLeft DEF Placed, Guided, Guiding
    <2> QED BY <2>1, <2>2
  <1>11. Placed(p)'
    <2>1. SUFFICES ASSUME n \in Names PROVE Placed(p)'
      BY <1>2 DEF Placed
    <2>2. Linked(p)'
      BY <1>2, <1>4 DEF Linked
    <2>3. \A s \in Skills : s \in Elements(job'[p].left)
      BY <1>2, <1>4
    <2>4. settled'[n] = Unsettled
      BY <1>1, <2>1, PrepareKnows DEF Placed
    <2> QED BY <1>2, <1>6, <1>10, <2>1, <2>2, <2>3, <2>4 DEF Placed
  <1> QED BY <1>8, <1>9, <1>11, WorksOK

(* The guidance pass begins with all positions left, or is left out.        *)
LEMMA BeginGuidanceOK ==
  ASSUME IInv, NEW p \in Processes, BeginGuidance(p)
  PROVE  IInv'
  <1>1. job[p].at = "guidance" /\ job[p].at \in Making
        /\ UNCHANGED <<config, offers, settled, added, lock, home>>
    BY DEF BeginGuidance, At, Making, disk, people, locks, ghosts
  <1>2. CASE PolicyOf(p).guidance = "leave"
    BY <1>1, <1>2, BeginSkillsOK DEF BeginGuidance, PolicyOf
  <1>3. CASE PolicyOf(p).guidance # "leave"
    <2> DEFINE wanted == [g \in Guidance |->
                            IF LocalOverride(InHand(p)) THEN None ELSE job[p].guided[g]]
               n == job[p].n
    <2>1. job' = [job EXCEPT ![p].at = "guide", ![p].left = GuidanceNames, ![p].guided = wanted]
      BY <1>3 DEF BeginGuidance
    <2>2. wanted \in [Guidance -> Entries]
      <3>1. job[p].guided \in [Guidance -> Entries]
        BY <1>1, <1>3, PrepareKnows DEF Wanted, PolicyOf
      <3> QED BY <3>1 DEF Entries
    <2> HIDE DEF wanted
    <2>3. /\ DOMAIN job' = Processes /\ \A q \in Processes \ {p} : job'[q] = job[q]
          /\ DOMAIN job'[p] = Fields /\ job'[p].kind = job[p].kind /\ job'[p].cfg = job[p].cfg
          /\ job'[p].n = n /\ job'[p].at = "guide" /\ job'[p].want = job[p].want
          /\ job'[p].guided = wanted /\ job'[p].left = GuidanceNames
      BY <1>1, <2>1, PrepareKnows DEF Fields
    <2>4. GuidanceNames \in Seq(Guidance) /\ Elements(GuidanceNames) = Guidance
      BY NamesAssumption DEF Guidance
    <2>5. "guide" \in Guiding /\ "guide" \in Making \ {"make"} /\ "guide" \notin Skilling \cup Linking \cup Filling
      BY DEF Making, Guiding, Skilling, Linking, Filling
    <2>6. Works(p)
      BY <1>1, <2>3, <2>5, PrepareKnows DEF Works
    <2>7. Wanted(p)'
      BY <1>1, <2>2, <2>3, <2>4, <2>5, PrepareKnows DEF Wanted
    <2>8. Guided(p)'
      BY <2>2, <2>3, <2>4 DEF Guided
    <2>9. Placed(p)'
      BY <1>1, <2>3, <2>5, <2>8, PrepareKnows DEF Placed
    <2> QED BY <2>6, <2>7, <2>9, WorksOK
  <1> QED BY <1>2, <1>3

(* The guidance pass ends with all its links in their places.               *)
LEMMA GuidanceDoneOK ==
  ASSUME IInv, NEW p \in Processes, GuidanceDone(p)
  PROVE  IInv'
  BY BeginSkillsOK DEF GuidanceDone, At, disk, people, locks, ghosts


-----------------------------------------------------------------------------
(* The passes over the links.                                               *)

(* p stands at another position of the pass.                                *)
Passes(p, at, left) ==
  /\ DOMAIN job' = Processes
  /\ \A q \in Processes \ {p} : job'[q] = job[q]
  /\ DOMAIN job'[p] = Fields /\ job'[p].kind = job[p].kind /\ job'[p].cfg = job[p].cfg
  /\ job'[p].n = job[p].n /\ job'[p].want = job[p].want /\ job'[p].guided = job[p].guided
  /\ job'[p].at = at /\ job'[p].left = left
  /\ UNCHANGED <<config, offers, settled, added, lock>>

(* The three ways a step moves within a pass.                               *)
LEMMA PassingJob ==
  ASSUME IInv, NEW p \in Processes, job[p].at \in Making, NEW at, NEW left,
         \/ job' = [job EXCEPT ![p].at = at, ![p].left = left]
         \/ job' = [job EXCEPT ![p].at = at] /\ left = job[p].left
         \/ job' = [job EXCEPT ![p].left = left] /\ at = job[p].at,
         UNCHANGED <<config, offers, settled, added, lock>>
  PROVE  Passes(p, at, left)
  <1>1. DOMAIN job = Processes /\ DOMAIN job[p] = Fields
    BY PrepareKnows
  <1>2. CASE job' = [job EXCEPT ![p].at = at, ![p].left = left]
    BY <1>1, <1>2 DEF Passes, Fields
  <1>3. CASE job' = [job EXCEPT ![p].at = at] /\ left = job[p].left
    BY <1>1, <1>3 DEF Passes, Fields
  <1>4. CASE job' = [job EXCEPT ![p].left = left] /\ at = job[p].at
    BY <1>1, <1>4 DEF Passes, Fields
  <1> QED BY <1>2, <1>3, <1>4

(* It changes at most the links of the home in hand.                        *)
Relinks(p) ==
  /\ home' \in [Names -> Homes]
  /\ \A m \in Names : m # job[p].n => home'[m] = home[m]
  /\ job[p].n \in Names => /\ home'[job[p].n].made = home[job[p].n].made
                           /\ home'[job[p].n].config = home[job[p].n].config

(* Such a step is a step of the preparation.                                *)
LEMMA PassWorks ==
  ASSUME IInv, NEW p \in Processes, job[p].at \in Guiding \cup Skilling,
         NEW at \in Guiding \cup Skilling, NEW left, Passes(p, at, left), Relinks(p)
  PROVE  Works(p)
  <1>1. job[p].at \notin {"make", "config"} /\ job[p].at \in Making /\ at \in Making \ {"make"}
    BY DEF Making, Guiding, Skilling, Linking, Filling
  <1> QED BY <1>1 DEF Works, Passes, Relinks

(* A step that keeps the homes changes no link.                             *)
LEMMA NothingRelinked ==
  ASSUME IInv, NEW p \in Processes, home' = home
  PROVE  Relinks(p)
  BY DEF Relinks, IInv, SharedOK

(* A step that puts one skill link.                                         *)
LEMMA SkillRelinked ==
  ASSUME IInv, NEW p \in Processes, NEW s \in Skills, NEW e,
         job[p].n \in Names => e \in Entries,
         home' = [home EXCEPT ![job[p].n].skills[s] = e]
  PROVE  /\ Relinks(p)
         /\ job[p].n \in Names =>
              /\ home'[job[p].n].guidance = home[job[p].n].guidance
              /\ home'[job[p].n].skills[s] = e
              /\ \A x \in Skills : x # s =>
                   home'[job[p].n].skills[x] = home[job[p].n].skills[x]
  <1> DEFINE n == job[p].n
             h == [home[n] EXCEPT !.skills[s] = e]
  <1>1. home' = [home EXCEPT ![n] = h] /\ home \in [Names -> Homes]
    BY DEF IInv, SharedOK
  <1>2. n \in Names => /\ h \in Homes /\ h.made = home[n].made /\ h.config = home[n].config
                       /\ h.guidance = home[n].guidance /\ h.skills[s] = e
                       /\ \A x \in Skills : x # s => h.skills[x] = home[n].skills[x]
    BY <1>1, SkillPut
  <1> HIDE DEF h
  <1> QED BY <1>1, <1>2, HomePut DEF Relinks

(* A step that puts one guidance link.                                      *)
LEMMA GuidanceRelinked ==
  ASSUME IInv, NEW p \in Processes, NEW g \in Guidance, NEW e,
         job[p].n \in Names => e \in Entries,
         home' = [home EXCEPT ![job[p].n].guidance[g] = e]
  PROVE  /\ Relinks(p)
         /\ job[p].n \in Names =>
              /\ home'[job[p].n].guidance[g] = e
              /\ \A x \in Guidance : x # g =>
                   home'[job[p].n].guidance[x] = home[job[p].n].guidance[x]
  <1> DEFINE n == job[p].n
             h == [home[n] EXCEPT !.guidance[g] = e]
  <1>1. home' = [home EXCEPT ![n] = h] /\ home \in [Names -> Homes]
    BY DEF IInv, SharedOK
  <1>2. n \in Names => /\ h \in Homes /\ h.made = home[n].made /\ h.config = home[n].config
                       /\ h.guidance[g] = e
                       /\ \A x \in Guidance : x # g => h.guidance[x] = home[n].guidance[x]
    BY <1>1, GuidancePut
  <1> HIDE DEF h
  <1> QED BY <1>1, <1>2, HomePut DEF Relinks

(* The position in hand is one of those the pass is for.                    *)
LEMMA PositionInHand ==
  ASSUME IInv, NEW p \in Processes, job[p].at \in Guiding \cup Skilling, job[p].left # <<>>
  PROVE  /\ job[p].at \in Guiding =>
              /\ Head(job[p].left) \in Guidance /\ Tail(job[p].left) \in Seq(Guidance)
         /\ job[p].at \in Skilling =>
              /\ Head(job[p].left) \in Skills /\ Tail(job[p].left) \in Seq(Skills)
         /\ \A x : x \in Elements(job[p].left) =>
              x = Head(job[p].left) \/ x \in Elements(Tail(job[p].left))
  <1>1. Wanted(p)
    BY PrepareKnows DEF Making
  <1> QED BY <1>1, ElementsSplit DEF Wanted

(* The skills: each position ends with the wanted link or a file of the user.*)
LEMMA ReconcileSkillOK ==
  ASSUME IInv, NEW p \in Processes, ReconcileSkill(p) \/ (Swap(p) /\ At(p, "swap skill"))
  PROVE  IInv'
  <1> DEFINE n == job[p].n
             s == Head(job[p].left)
             rest == Tail(job[p].left)
             want == job[p].want[s]
  <1>1. /\ job[p].at \in Linking /\ job[p].left # <<>> /\ n = n
        /\ UNCHANGED <<config, offers, settled, added, lock>>
    <2>1. job[p].at = "swap skill" => job[p].left # <<>>
      BY PrepareKnows DEF Wanted, Making, Skilling, Linking
    <2> QED BY <2>1 DEF ReconcileSkill, Swap, At, Linking, people, locks, ghosts
  <1>2. job[p].at \in Skilling /\ job[p].at \in Making /\ job[p].at \notin Guiding
    BY <1>1 DEF Making, Guiding, Skilling, Linking, Filling
  <1>3. s \in Skills /\ rest \in Seq(Skills)
        /\ \A x : x \in Elements(job[p].left) => x = s \/ x \in Elements(rest)
    BY <1>1, <1>2, PositionInHand
  <1>4. Wanted(p) /\ Placed(p) /\ home \in [Names -> Homes]
    BY <1>2, PrepareKnows
  <1>5. want \in Entries /\ Staged \in Skills /\ job[p].want[Staged] = None
    <2>1. Staged \in Skills
      BY StagedIsSkill
    <2>2. job[p].want \in [Skills -> Entries] /\ job[p].want[Staged] = None
      BY <1>4 DEF Wanted
    <2> QED BY <1>3, <2>1, <2>2
  <1>a. want = job[p].want[s] /\ s = Head(job[p].left) /\ rest = Tail(job[p].left)
    OBVIOUS
  <1> HIDE DEF s, rest, want
  <1>6. /\ "skills" \in Linking /\ "swap skill" \in Linking
        /\ \A at \in Linking : at \in Skilling /\ at \in Guiding \cup Skilling
                               /\ at \notin {"make", "config", "guidance", "swap guide"} \cup Guiding \cup Filling
    BY DEF Guiding, Skilling, Linking, Filling
  <1>7. ASSUME NEW at \in Linking, NEW left \in Seq(Skills), Passes(p, at, left), Relinks(p),
               at = "swap skill" => left # <<>>,
               n \in Names => home'[n].guidance = home[n].guidance /\ Linked(p)'
        PROVE  IInv'
    <2>1. Works(p)
      BY <1>2, <1>6, <1>7, PassWorks
    <2>2. Wanted(p)'
      <3>1. job[p].cfg.policy.strict \in BOOLEAN /\ ~job[p].cfg.policy.strict
        BY <1>1, <1>2, <1>4, <1>6, PrepareKnows, KnownPolicies DEF Wanted
      <3> QED BY <1>4, <1>6, <1>7, <3>1 DEF Wanted, Passes
    <2>3. Placed(p)'
      BY <1>2, <1>4, <1>6, <1>7 DEF Placed, Passes, Filling
    <2> QED BY <2>1, <2>2, <2>3, WorksOK
  <1>8. n \in Names => Linked(p)
    BY <1>1, <1>4 DEF Placed
  <1>9. CASE home' = home /\ ReconcileSkill(p)
             /\ (home[n].skills[s] = File \/ home[n].skills[s] = want)
             /\ job' = [job EXCEPT ![p].left = rest]
    <2>1. Passes(p, "skills", rest)
      BY <1>1, <1>2, <1>9, PassingJob DEF ReconcileSkill, At
    <2>2. n \in Names => Linked(p)'
      BY <1>3, <1>a, <1>8, <1>9, <2>1 DEF Linked, Passes, ReconcileSkill, At
    <2> QED BY <1>3, <1>6, <1>7, <1>9, <2>1, <2>2, NothingRelinked
  <1>10. CASE /\ home' = [home EXCEPT ![n].skills[s] = want] /\ ReconcileSkill(p)
              /\ job' = [job EXCEPT ![p].left = rest]
    <2>1. Passes(p, "skills", rest)
      BY <1>1, <1>2, <1>10, PassingJob DEF ReconcileSkill, At
    <2>2. Relinks(p) /\ (n \in Names => home'[n].guidance = home[n].guidance
                          /\ home'[n].skills[s] = want
                          /\ \A x \in Skills : x # s => home'[n].skills[x] = home[n].skills[x])
      <3>1. home' = [home EXCEPT ![n].skills[s] = want]
        BY <1>10
      <3>2. s \in Skills /\ want \in Entries
        BY <1>3, <1>5
      <3> QED BY <3>1, <3>2, SkillRelinked
    <2>3. n \in Names => Linked(p)'
      <3>1. job[p].at = "skills"
        BY <1>10 DEF ReconcileSkill, At
      <3>2. SUFFICES ASSUME n \in Names, NEW x \in Skills
                     PROVE  home'[n].skills[x] \in {job[p].want[x], File} \/ x \in Elements(rest)
        BY <2>1 DEF Linked, Passes
      <3>3. CASE x = s
        BY <1>a, <2>2, <3>2, <3>3
      <3>4. CASE x # s
        BY <1>3, <1>8, <2>2, <3>1, <3>2, <3>4 DEF Linked
      <3> QED BY <3>3, <3>4
    <2> QED BY <1>3, <1>6, <1>7, <2>1, <2>2, <2>3
  <1>11. CASE /\ home' = [home EXCEPT ![n].skills[Staged] = want] /\ ReconcileSkill(p)
              /\ job' = [job EXCEPT ![p].at = "swap skill"]
    <2>1. Passes(p, "swap skill", job[p].left)
      BY <1>1, <1>2, <1>11, PassingJob
    <2>2. Relinks(p) /\ (n \in Names => home'[n].guidance = home[n].guidance
                          /\ \A x \in Skills : x # Staged => home'[n].skills[x] = home[n].skills[x])
      BY <1>5, <1>11, SkillRelinked
    <2>3. n \in Names => Linked(p)'
      <3>1. job[p].at = "skills"
        BY <1>11 DEF ReconcileSkill, At
      <3>2. SUFFICES ASSUME n \in Names, NEW x \in Skills, x # Staged
                     PROVE  home'[n].skills[x] \in {job[p].want[x], File}
                            \/ x \in Elements(job[p].left)
        BY <2>1 DEF Linked, Passes
      <3> QED BY <1>8, <2>2, <3>1, <3>2 DEF Linked
    <2>4. job[p].left \in Seq(Skills)
      BY <1>2, <1>4 DEF Wanted
    <2> QED BY <1>1, <1>6, <1>7, <2>1, <2>2, <2>3, <2>4
  <1>12. CASE ReconcileSkill(p)
    BY <1>a, <1>9, <1>10, <1>11, <1>12 DEF ReconcileSkill, Reconcile, Action, SameTarget, InHand, Goto
  <1>13. CASE Swap(p) /\ At(p, "swap skill")
    <2> DEFINE h == [home[n] EXCEPT !.skills = [@ EXCEPT ![s] = want, ![Staged] = None]]
    <2>1. home' = [home EXCEPT ![n] = h]
      BY <1>a, <1>13 DEF Swap, InHand
    <2>2. job' = [job EXCEPT ![p].at = "skills", ![p].left = rest]
      BY <1>a, <1>13 DEF Swap, At
    <2>3. Passes(p, "skills", rest)
      BY <1>1, <1>2, <2>2, PassingJob
    <2>4. n \in Names =>
            /\ h \in Homes /\ h.made = home[n].made /\ h.config = home[n].config
            /\ h.guidance = home[n].guidance
            /\ \A x \in Skills : h.skills[x] = IF x = Staged THEN None
                                               ELSE IF x = s THEN want ELSE home[n].skills[x]
      <3>1. SUFFICES ASSUME n \in Names PROVE
            /\ h \in Homes /\ h.made = home[n].made /\ h.config = home[n].config
            /\ h.guidance = home[n].guidance
            /\ \A x \in Skills : h.skills[x] = IF x = Staged THEN None
                                               ELSE IF x = s THEN want ELSE home[n].skills[x]
        OBVIOUS
      <3> DEFINE k == [[home[n].skills EXCEPT ![s] = want] EXCEPT ![Staged] = None]
      <3>2. home[n] \in Homes /\ None \in Entries
        BY <1>4, <3>1 DEF Entries
      <3>3. home[n].skills \in [Skills -> Entries]
        BY <3>2 DEF Homes
      <3>4. /\ k \in [Skills -> Entries]
            /\ \A x \in Skills : k[x] = IF x = Staged THEN None
                                        ELSE IF x = s THEN want ELSE home[n].skills[x]
        BY <1>3, <1>5, <3>2, <3>3
      <3>5. h = [home[n] EXCEPT !.skills = k]
        OBVIOUS
      <3> HIDE DEF h, k
      <3> QED BY <3>2, <3>4, <3>5 DEF Homes
    <2> HIDE DEF h
    <2>5. /\ home' \in [Names -> Homes] /\ \A m \in Names : m # n => home'[m] = home[m]
          /\ n \in Names => home'[n] = h
      BY <1>4, <2>1, <2>4, HomePut
    <2>6. Relinks(p)
      BY <2>4, <2>5 DEF Relinks
    <2>7. n \in Names => Linked(p)'
      <3>1. SUFFICES ASSUME n \in Names, NEW x \in Skills
                     PROVE  h.skills[x] \in {job[p].want[x], File} \/ x \in Elements(rest)
        BY <2>3, <2>5 DEF Linked, Passes
      <3>2. CASE x = Staged \/ x = s
        BY <1>a, <1>5, <2>4, <3>1, <3>2
      <3>3. CASE x # Staged /\ x # s
        BY <1>3, <1>8, <2>4, <3>1, <3>3 DEF Linked
      <3> QED BY <3>2, <3>3
    <2> QED BY <1>3, <1>6, <1>7, <2>3, <2>4, <2>5, <2>6, <2>7
  <1> QED BY <1>12, <1>13


(* The guidance: the same for its two names.                                *)
LEMMA ReconcileGuidanceOK ==
  ASSUME IInv, NEW p \in Processes, ReconcileGuidance(p) \/ (Swap(p) /\ At(p, "swap guide"))
  PROVE  IInv'
  <1> DEFINE n == job[p].n
             g == Head(job[p].left)
             rest == Tail(job[p].left)
             want == job[p].guided[g]
  <1>1. /\ job[p].at \in Guiding /\ job[p].left # <<>>
        /\ UNCHANGED <<config, offers, settled, added, lock>>
    <2>1. job[p].at = "swap guide" => job[p].left # <<>>
      BY PrepareKnows DEF Wanted, Making, Guiding
    <2> QED BY <2>1 DEF ReconcileGuidance, Swap, At, Guiding, people, locks, ghosts
  <1>2. job[p].at \in Making /\ job[p].at \notin Skilling
    BY <1>1 DEF Making, Guiding, Skilling, Linking, Filling
  <1>3. g \in Guidance /\ rest \in Seq(Guidance)
        /\ \A x : x \in Elements(job[p].left) => x = g \/ x \in Elements(rest)
    BY <1>1, PositionInHand
  <1>4. Wanted(p) /\ Placed(p) /\ home \in [Names -> Homes]
    BY <1>2, PrepareKnows
  <1>5. want \in Entries /\ DOMAIN job[p].guided = Guidance
    <2>1. job[p].guided \in [Guidance -> Entries]
      BY <1>1, <1>4 DEF Wanted
    <2> QED BY <1>3, <2>1
  <1>a. want = job[p].guided[g] /\ g = Head(job[p].left) /\ rest = Tail(job[p].left)
    OBVIOUS
  <1> HIDE DEF g, rest, want
  <1>6. /\ "guide" \in Guiding /\ "swap guide" \in Guiding
        /\ \A at \in Guiding : at \in Guiding \cup Skilling
             /\ at \notin {"make", "config", "guidance", "swap skill", "stale", "fill"}
                            \cup Skilling \cup Linking \cup Filling
    BY DEF Guiding, Skilling, Linking, Filling
  <1>7. ASSUME NEW at \in Guiding, NEW left \in Seq(Guidance), Passes(p, at, left), Relinks(p),
               at = "swap guide" => left # <<>>,
               n \in Names => Guided(p)'
        PROVE  IInv'
    <2>1. Works(p)
      BY <1>1, <1>6, <1>7, PassWorks
    <2>2. Wanted(p)'
      <3>1. job[p].guided \in [Guidance -> Entries]
        BY <1>1, <1>4 DEF Wanted
      <3> QED BY <1>4, <1>6, <1>7, <3>1 DEF Wanted, Passes
    <2>3. Placed(p)'
      BY <1>4, <1>6, <1>7 DEF Placed, Passes
    <2> QED BY <2>1, <2>2, <2>3, WorksOK
  <1>8. n \in Names => Guided(p)
    BY <1>1, <1>4 DEF Placed
  <1>9. ASSUME Passes(p, "guide", rest), Relinks(p),
               n \in Names => /\ home'[n].guidance[g] \in {want, File}
                              /\ \A x \in Guidance : x # g =>
                                   home'[n].guidance[x] = home[n].guidance[x]
        PROVE  IInv'
    <2>1. n \in Names => Guided(p)'
      <3>1. SUFFICES ASSUME n \in Names, NEW x \in Guidance
                     PROVE  home'[n].guidance[x] \in {job[p].guided[x], File} \/ x \in Elements(rest)
        BY <1>5, <1>9 DEF Guided, Passes
      <3>2. CASE x = g
        BY <1>a, <1>9, <3>1, <3>2
      <3>3. CASE x # g
        BY <1>3, <1>5, <1>8, <1>9, <3>1, <3>3 DEF Guided
      <3> QED BY <3>2, <3>3
    <2> QED BY <1>3, <1>6, <1>7, <1>9, <2>1
  <1>10. CASE home' = home /\ ReconcileGuidance(p)
              /\ (home[n].guidance[g] = File \/ home[n].guidance[g] = want)
              /\ job' = [job EXCEPT ![p].left = rest]
    <2>1. Passes(p, "guide", rest)
      BY <1>1, <1>2, <1>10, PassingJob DEF ReconcileGuidance, At
    <2> QED BY <1>9, <1>10, <2>1, NothingRelinked
  <1>11. CASE /\ home' = [home EXCEPT ![n].guidance[g] = want]
              /\ \/ ReconcileGuidance(p) /\ job' = [job EXCEPT ![p].left = rest]
                 \/ job' = [job EXCEPT ![p].at = "guide", ![p].left = rest]
    <2>1. Passes(p, "guide", rest)
      BY <1>1, <1>2, <1>11, PassingJob DEF ReconcileGuidance, At
    <2>2. home' = [home EXCEPT ![n].guidance[g] = want]
      BY <1>11
    <2>3. Relinks(p) /\ (n \in Names => /\ home'[n].guidance[g] = want
                                        /\ \A x \in Guidance : x # g =>
                                             home'[n].guidance[x] = home[n].guidance[x])
      BY <1>3, <1>5, <2>2, GuidanceRelinked
    <2> QED BY <1>9, <2>1, <2>3
  <1>12. CASE /\ home' = [home EXCEPT ![n].skills[Staged] = home[n].skills[Staged]]
              /\ ReconcileGuidance(p) /\ job' = [job EXCEPT ![p].at = "swap guide"]
    <2>1. Passes(p, "swap guide", job[p].left)
      BY <1>1, <1>2, <1>12, PassingJob
    <2>2. n \in Names => home[n].skills[Staged] \in Entries
      BY <1>4, StagedIsSkill DEF Homes
    <2>3. Relinks(p) /\ (n \in Names => home'[n].guidance = home[n].guidance)
      BY <1>12, <2>2, StagedIsSkill, SkillRelinked
    <2>4. n \in Names => Guided(p)'
      BY <1>8, <2>1, <2>3 DEF Guided, Passes
    <2>5. job[p].left \in Seq(Guidance)
      BY <1>1, <1>4 DEF Wanted
    <2> QED BY <1>1, <1>6, <1>7, <2>1, <2>3, <2>4, <2>5
  <1>13. CASE ReconcileGuidance(p)
    BY <1>a, <1>10, <1>11, <1>12, <1>13 DEF ReconcileGuidance, Reconcile, Action, SameTarget, InHand, Goto
  <1>14. CASE Swap(p) /\ At(p, "swap guide")
    <2>1. ~At(p, "swap skill")
      BY <1>14 DEF At
    <2>2. home' = [home EXCEPT ![n].guidance[g] = want]
      BY <1>a, <1>14, <2>1 DEF Swap, InHand
    <2>3. job' = [job EXCEPT ![p].at = "guide", ![p].left = rest]
      BY <1>a, <1>14, <2>1 DEF Swap
    <2> QED BY <1>11, <2>2, <2>3
  <1> QED BY <1>13, <1>14

(* Without word on skills: a link that leads elsewhere ends the preparation,*)
(* so that those it comes past lead into the default skills.                *)
LEMMA RemoveStaleOK ==
  ASSUME IInv, NEW p \in Processes, RemoveStale(p)
  PROVE  IInv'
  <1> DEFINE n == job[p].n
             s == Head(job[p].left)
             rest == Tail(job[p].left)
             e == InHand(p).skills[s]
             put == IF Stale(s, e, offers) THEN None ELSE e
  <1>1. job[p].at = "stale" /\ job[p].left # <<>> /\ UNCHANGED <<config, offers, settled, added>>
    BY DEF RemoveStale, At, people, ghosts
  <1>2. job[p].at \in Filling /\ job[p].at \in Skilling /\ job[p].at \in Making
        /\ job[p].at \notin Guiding \cup Linking
    BY <1>1 DEF Making, Guiding, Skilling, Linking, Filling
  <1>3. CASE GiveUp(p) /\ UNCHANGED home
    BY <1>1, <1>2, <1>3, GiveUpOK, AsideOK DEF Aside
  <1>4. CASE /\ ~LeadsOutside(e) /\ home' = [home EXCEPT ![n].skills[s] = put]
             /\ job' = [job EXCEPT ![p].left = rest] /\ UNCHANGED locks
    <2>1. s \in Skills /\ rest \in Seq(Skills)
          /\ \A x : x \in Elements(job[p].left) => x = s \/ x \in Elements(rest)
      BY <1>1, <1>2, PositionInHand
    <2>2. Wanted(p) /\ Placed(p) /\ home \in [Names -> Homes]
      BY <1>2, PrepareKnows
    <2>3. n \in Names => e \in Entries
      BY <2>1, <2>2 DEF InHand, Homes
    <2>4. n \in Names => put \in {None, File, Default} /\ put \in Entries
      BY <1>4, <2>3 DEF Entries, LeadsOutside
    <2>5. home' = [home EXCEPT ![n].skills[s] = put]
      BY <1>4
    <2>6. Passes(p, "stale", rest)
      BY <1>1, <1>2, <1>4, PassingJob DEF locks
    <2> HIDE DEF s, rest, put, e
    <2>7. Relinks(p) /\ (n \in Names =>
                /\ home'[n].guidance = home[n].guidance /\ home'[n].skills[s] = put
                /\ \A x \in Skills : x # s => home'[n].skills[x] = home[n].skills[x])
      <3>1. s \in Skills /\ (job[p].n \in Names => put \in Entries)
        BY <2>1, <2>4
      <3> QED BY <2>5, <3>1, SkillRelinked
    <2>8. Works(p)
      BY <1>1, <1>2, <2>6, <2>7, PassWorks
    <2>9. Wanted(p)'
      BY <1>1, <1>2, <2>1, <2>2, <2>6 DEF Wanted, Passes
    <2>10. n \in Names => \A x \in Skills : Inside(p, x)' \/ x \in Elements(rest)
      <3>1. SUFFICES ASSUME n \in Names, NEW x \in Skills
                     PROVE  home'[n].skills[x] \in {None, File, Default} \/ x \in Elements(rest)
        BY <2>6 DEF Inside, Passes
      <3>2. CASE x = s
        BY <2>4, <2>7, <3>1, <3>2
      <3>3. CASE x # s
        BY <1>1, <2>1, <2>2, <2>7, <3>1, <3>3 DEF Placed, Inside
      <3> QED BY <3>2, <3>3
    <2>11. Placed(p)'
      BY <1>1, <1>2, <2>2, <2>6, <2>7, <2>10 DEF Placed, Passes, Inside
    <2> QED BY <2>8, <2>9, <2>11, WorksOK
  <1> QED BY <1>3, <1>4 DEF RemoveStale

(* The staged name is not inherited; all others are still to be filled.     *)
LEMMA StaleDoneOK ==
  ASSUME IInv, NEW p \in Processes, StaleDone(p)
  PROVE  IInv'
  <1> DEFINE rest == Tail(SkillNames)
             n == job[p].n
  <1>1. /\ job[p].at = "stale" /\ job[p].left = <<>>
        /\ UNCHANGED <<config, offers, settled, added, lock, home>>
        /\ job' = [job EXCEPT ![p].at = "fill", ![p].left = rest]
    BY DEF StaleDone, At, disk, people, ghosts, locks
  <1>2. /\ job[p].at \in Skilling /\ job[p].at \in Making
        /\ "fill" \in Filling /\ "fill" \in Skilling /\ "fill" \notin Guiding \cup Linking
    BY <1>1 DEF Making, Guiding, Skilling, Linking, Filling
  <1>3. rest \in Seq(Skills) /\ \A s \in Skills \ {Staged} : s \in Elements(rest)
    <2>1. \A x : x \in Elements(SkillNames) => x = Staged \/ x \in Elements(rest)
      BY NamesAssumption, ElementsSplit
    <2>2. rest \in Seq(Skills)
      BY NamesAssumption, ElementsSplit
    <2> QED BY <2>1, <2>2 DEF Skills
  <1> HIDE DEF rest
  <1>4. Passes(p, "fill", rest)
    BY <1>1, <1>2, PassingJob
  <1>5. Works(p)
    BY <1>1, <1>2, <1>4, NothingRelinked, PassWorks
  <1>6. Wanted(p) /\ Placed(p)
    BY <1>2, PrepareKnows
  <1>7. Wanted(p)'
    BY <1>1, <1>2, <1>3, <1>4, <1>6 DEF Wanted, Passes, Filling
  <1>8. n \in Names => Filled(p)'
    <2>1. n \in Names => \A s \in Skills : Inside(p, s)
      BY <1>1, <1>6, NoneLeft DEF Placed
    <2> QED BY <1>1, <1>3, <1>4, <2>1 DEF Filled, Inside, Passes
  <1>9. Placed(p)'
    BY <1>1, <1>2, <1>4, <1>6, <1>8 DEF Placed, Passes
  <1> QED BY <1>5, <1>7, <1>9, WorksOK

(* A default skill that is missing is linked.                               *)
LEMMA FillSkillOK ==
  ASSUME IInv, NEW p \in Processes, FillSkill(p)
  PROVE  IInv'
  <1> DEFINE n == job[p].n
             s == Head(job[p].left)
             rest == Tail(job[p].left)
             put == IF home[n].skills[s] = None THEN job[p].want[s] ELSE home[n].skills[s]
  <1>1. /\ job[p].at = "fill" /\ job[p].left # <<>>
        /\ UNCHANGED <<config, offers, settled, added, lock>>
        /\ home' = [home EXCEPT ![n].skills[s] = put] /\ job' = [job EXCEPT ![p].left = rest]
    BY DEF FillSkill, At, people, ghosts, locks
  <1>2. job[p].at \in Filling /\ job[p].at \in Skilling /\ job[p].at \in Making
        /\ job[p].at \notin Guiding \cup Linking
    BY <1>1 DEF Making, Guiding, Skilling, Linking, Filling
  <1>3. s \in Skills /\ rest \in Seq(Skills)
        /\ \A x : x \in Elements(job[p].left) => x = s \/ x \in Elements(rest)
    BY <1>1, <1>2, PositionInHand
  <1>4. Wanted(p) /\ Placed(p) /\ home \in [Names -> Homes]
    BY <1>2, PrepareKnows
  <1>5. n \in Names => put \in Entries
    <2>1. job[p].want[s] \in Entries
      BY <1>3, <1>4 DEF Wanted
    <2>2. n \in Names => home[n].skills[s] \in Entries
      BY <1>3, <1>4 DEF Homes
    <2> QED BY <2>1, <2>2
  <1>6. Passes(p, "fill", rest)
    BY <1>1, <1>2, PassingJob
  <1>7. home' = [home EXCEPT ![n].skills[s] = put]
    BY <1>1
  <1>8. put = IF home[n].skills[s] = None THEN job[p].want[s] ELSE home[n].skills[s]
    OBVIOUS
  <1> HIDE DEF s, rest, put
  <1>9. Relinks(p) /\ (n \in Names =>
              /\ home'[n].guidance = home[n].guidance /\ home'[n].skills[s] = put
              /\ \A x \in Skills : x # s => home'[n].skills[x] = home[n].skills[x])
    <2>1. s \in Skills /\ (job[p].n \in Names => put \in Entries)
      BY <1>3, <1>5
    <2> QED BY <1>7, <2>1, SkillRelinked
  <1>10. Works(p)
    BY <1>1, <1>2, <1>6, <1>9, PassWorks
  <1>11. Wanted(p)'
    BY <1>1, <1>2, <1>3, <1>4, <1>6 DEF Wanted, Passes
  <1>12. n \in Names => Filled(p)'
    <2>1. SUFFICES ASSUME n \in Names, NEW x \in Skills \ {Staged}
                   PROVE  /\ home'[n].skills[x] \in {None, File, Default}
                          /\ \/ home'[n].skills[x] \in {job[p].want[x], File, Default}
                             \/ x \in Elements(rest)
      BY <1>6 DEF Filled, Inside, Passes
    <2>2. Filled(p)
      BY <1>1, <1>4, <2>1 DEF Placed
    <2>3. CASE x = s
      <3>1. job[p].want[s] \in {None, Default}
        BY <1>2, <1>3, <1>4 DEF Wanted
      <3> QED BY <1>8, <1>9, <2>1, <2>2, <2>3, <3>1 DEF Filled, Inside
    <2>4. CASE x # s
      BY <1>3, <1>9, <2>1, <2>2, <2>4 DEF Filled, Inside
    <2> QED BY <2>3, <2>4
  <1>13. Placed(p)'
    BY <1>1, <1>2, <1>4, <1>6, <1>9, <1>12 DEF Placed, Passes
  <1> QED BY <1>10, <1>11, <1>13, WorksOK


-----------------------------------------------------------------------------
(* Beginning and ending a preparation, saving.                              *)

(* A preparation begins with the links its policy wants, and unsettles the  *)
(* home.                                                                    *)
LEMMA CheckOK ==
  ASSUME IInv, NEW p \in Processes, Check(p)
  PROVE  IInv'
  <1> DEFINE n == job[p].n
             want == WantedSkills(PolicyOf(p), offers)
             guided == IF PolicyOf(p).guidance = "leave" THEN NoWant
                       ELSE WantedGuidance(PolicyOf(p), offers, NoHome)
  <1>1. /\ job[p].at = "check" /\ UNCHANGED <<config, offers, added, home>> /\ lock = p
        /\ CommandOK(p) /\ SharedOK /\ DOMAIN job = Processes /\ JobOK(job[p]) /\ AddOK(p)
    BY PreparingLocks DEF Check, At, people, disk, IInv, CommandOK
  <1>2. CASE GiveUp(p) /\ UNCHANGED settled
    BY <1>1, <1>2, GiveUpOK, AsideOK DEF Aside
  <1>3. CASE /\ job' = [job EXCEPT ![p].at = "make", ![p].want = want, ![p].guided = guided]
             /\ settled' = [settled EXCEPT ![n] = Unsettled]
             /\ UNCHANGED lock
    <2>1. PolicyOf(p) = job[p].cfg.policy /\ job[p].cfg.policy \in Known
      BY <1>1 DEF PolicyOf, JobOK, Configs
    <2>2. /\ want \in [Skills -> Entries] /\ want[Staged] = None
          /\ IF job[p].cfg.policy.guidance = "leave" THEN guided = NoWant
             ELSE guided \in [Guidance -> Entries]
      BY <1>1, <2>1, WantsType DEF SharedOK
    <2> HIDE DEF want, guided
    <2>3. /\ DOMAIN job' = Processes /\ \A q \in Processes \ {p} : job'[q] = job[q]
          /\ DOMAIN job'[p] = Fields /\ job'[p].kind = job[p].kind /\ job'[p].cfg = job[p].cfg
          /\ job'[p].n = n /\ job'[p].at = "make" /\ job'[p].want = want
          /\ job'[p].guided = guided
      BY <1>1, <1>3 DEF JobOK, Fields
    <2>4. /\ "make" \in Making /\ "make" \notin Guiding \cup Skilling \cup Linking \cup Filling
      BY DEF Making, Guiding, Skilling, Linking, Filling
    <2>5. Wanted(p)'
      BY <2>2, <2>3, <2>4 DEF Wanted
    <2>6. Placed(p)'
      BY <1>1, <1>3, <2>3, <2>4 DEF Placed, SharedOK
    <2>7. JobOK(job[p])' /\ HoldsLock(p)'
      BY <1>1, <1>3, <2>3, <2>4 DEF JobOK, HoldsLock
    <2>8. AddOK(p)'
      BY <1>1, <2>3, <2>4 DEF AddOK
    <2>9. SharedOK'
      <3>1. /\ DOMAIN settled' = Names
            /\ \A m \in Names : settled'[m] = settled[m] \/ settled'[m] = Unsettled
        BY <1>1, <1>3 DEF SharedOK
      <3>2. AddedStays'
        BY <1>1 DEF SharedOK, AddedStays
      <3>3. DOMAIN Unsettled = {"guidance", "skills"} /\ DOMAIN Unsettled.guidance = {}
            /\ DOMAIN Unsettled.skills = {}
        BY DEF Unsettled, NoWant
      <3> QED BY <1>1, <3>1, <3>2, <3>3 DEF SharedOK, Kept
    <2>10. \A q \in Processes \ {p} : CommandOK(q)'
      BY <1>1, <1>3, <2>3, OthersStay DEF Moved
    <2> QED BY <2>3, <2>5, <2>6, <2>7, <2>8, <2>9, <2>10 DEF IInv, CommandOK
  <1> QED BY <1>2, <1>3, <1>1 DEF Check, locks

(* The preparation has put every link it wants.                             *)
LEMMA LinksAreLeft ==
  ASSUME IInv, NEW p \in Processes, job[p].n \in Names,
         job[p].at \in {"skills", "fill"}, job[p].left = <<>>
  PROVE  LET left == LinksLeft(p) h == home[job[p].n] IN
         /\ DOMAIN left = {"guidance", "skills"}
         /\ DOMAIN left.guidance \subseteq Guidance /\ DOMAIN left.skills \subseteq Skills
         /\ Kept(left.guidance, h.guidance) /\ Kept(left.skills, h.skills)
  <1>1. /\ job[p].at \in Skilling /\ job[p].at \in Making
        /\ (job[p].at = "skills" => job[p].at \in Linking /\ job[p].at \notin Filling)
        /\ (job[p].at = "fill" => job[p].at \in Filling)
    BY DEF Making, Guiding, Skilling, Linking, Filling
  <1>2. Wanted(p) /\ Placed(p) /\ PolicyOf(p).strict \in BOOLEAN
    BY <1>1, PrepareKnows, KnownPolicies DEF PolicyOf
  <1> DEFINE strict == PolicyOf(p).strict
             guidance == [g \in DOMAIN job[p].guided |-> {job[p].guided[g], File}]
             skills == [s \in Skills \ (IF strict THEN {Staged} ELSE {}) |->
                          {job[p].want[s], File} \cup IF strict THEN {Default} ELSE {}]
  <1>3. LinksLeft(p) = [guidance |-> guidance, skills |-> skills]
    BY DEF LinksLeft
  <1>4. DOMAIN guidance \subseteq Guidance /\ Kept(guidance, home[job[p].n].guidance)
    <2>1. DOMAIN job[p].guided \subseteq Guidance
      BY <1>2 DEF Wanted, NoWant
    <2> QED BY <1>1, <1>2, <2>1 DEF Kept, Placed
  <1>5. Kept(skills, home[job[p].n].skills)
    <2>1. CASE job[p].at = "skills"
      <3>1. ~strict
        BY <1>1, <1>2, <2>1 DEF Wanted, PolicyOf
      <3>2. Linked(p)
        BY <1>1, <1>2, <2>1 DEF Placed
      <3> QED BY <2>1, <3>1, <3>2, NoneLeft DEF Kept, Linked
    <2>2. CASE job[p].at = "fill"
      <3>1. strict
        BY <1>1, <1>2, <2>2 DEF Wanted, PolicyOf
      <3>2. Filled(p)
        BY <1>2, <2>2 DEF Placed
      <3> QED BY <3>1, <3>2, NoneLeft DEF Kept, Filled
    <2> QED BY <2>1, <2>2
  <1> HIDE DEF guidance
  <1> QED BY <1>3, <1>4, <1>5

(* A preparation ends with the home settled.                                *)
LEMMA PreparedOK ==
  ASSUME IInv, NEW p \in Processes, Prepared(p)
  PROVE  IInv'
  <1> DEFINE n == job[p].n
             kind == job[p].kind
  <1>1. /\ job[p].at \in {"skills", "fill"} /\ job[p].left = <<>>
        /\ UNCHANGED <<config, offers, added, home>> /\ lock = p
        /\ CommandOK(p) /\ SharedOK /\ DOMAIN job = Processes /\ JobOK(job[p]) /\ AddOK(p)
        /\ settled' = [settled EXCEPT ![n] = LinksLeft(p)]
        /\ GoOn(p, TRUE)
    BY PreparingLocks DEF Prepared, people, disk, IInv, CommandOK, Making, Skilling, Linking, Filling
  <1> DEFINE at == IF ~TRUE \/ kind = "reconcile" THEN "next"
                   ELSE IF kind = "add" THEN "save" ELSE "ready"
  <1>2. /\ DOMAIN job' = Processes /\ \A q \in Processes \ {p} : job'[q] = job[q]
        /\ DOMAIN job'[p] = Fields /\ job'[p].kind = kind /\ job'[p].cfg = job[p].cfg
        /\ job'[p].n = n /\ job'[p].at = at
        /\ lock' = IF Keeps(kind) THEN lock ELSE Released(p)
    BY <1>1 DEF GoOn, JobOK, Fields
  <1>3. kind # "none" /\ kind # "init" /\ kind \in Kinds
    BY <1>1 DEF JobOK
  <1>4. at \notin Making
    BY DEF Making, Guiding, Skilling, Linking, Filling
  <1>5. Moved(p)
    BY <1>1, <1>2 DEF Moved, Released
  <1>6. JobOK(job[p])' /\ HoldsLock(p)'
    BY <1>1, <1>2, <1>3, <1>4 DEF JobOK, HoldsLock, Keeps
  <1>7. AddOK(p)'
    <2>1. CASE kind = "add"
      <3>1. /\ at = "save" /\ job[p].at \in Making \ {"make"} /\ job[p].at \in Skilling
        BY <1>1, <2>1 DEF Making, Guiding, Skilling, Linking, Filling
      <3>2. /\ added \subseteq job[p].cfg.profiles /\ n \in Names /\ home[n].made
            /\ home[n].config # "none"
        BY <1>1, <2>1, <3>1 DEF AddOK
      <3> QED BY <1>1, <1>2, <2>1, <3>1, <3>2 DEF AddOK
    <2>2. CASE kind # "add"
      BY <1>2, <2>2 DEF AddOK
    <2> QED BY <2>1, <2>2
  <1>8. SharedOK'
    <2>1. /\ DOMAIN settled' = Names
          /\ \A m \in Names : m # n => settled'[m] = settled[m]
          /\ n \in Names => settled'[n] = LinksLeft(p)
      BY <1>1 DEF SharedOK
    <2>2. AddedStays'
      BY <1>1 DEF SharedOK, AddedStays
    <2>3. \A m \in Names : /\ DOMAIN settled'[m] = {"guidance", "skills"}
                           /\ DOMAIN settled'[m].guidance \subseteq Guidance
                           /\ DOMAIN settled'[m].skills \subseteq Skills
                           /\ Kept(settled'[m].guidance, home[m].guidance)
                           /\ Kept(settled'[m].skills, home[m].skills)
      <3>1. SUFFICES ASSUME NEW m \in Names
                     PROVE  /\ DOMAIN settled'[m] = {"guidance", "skills"}
                            /\ DOMAIN settled'[m].guidance \subseteq Guidance
                            /\ DOMAIN settled'[m].skills \subseteq Skills
                            /\ Kept(settled'[m].guidance, home[m].guidance)
                            /\ Kept(settled'[m].skills, home[m].skills)
        OBVIOUS
      <3>2. CASE m = n
        BY <1>1, <2>1, <3>2, LinksAreLeft
      <3>3. CASE m # n
        BY <1>1, <2>1, <3>3 DEF SharedOK
      <3> QED BY <3>2, <3>3
    <2> QED BY <1>1, <2>1, <2>2, <2>3 DEF SharedOK, Kept
  <1>9. \A q \in Processes \ {p} : CommandOK(q)'
    BY <1>1, <1>5, OthersStay
  <1> QED BY <1>2, <1>4, <1>6, <1>7, <1>8, <1>9 DEF IInv, CommandOK

(* config.json gets the profiles that were loaded under the same lock.      *)
LEMMA SaveOK ==
  ASSUME IInv, NEW p \in Processes, Save(p)
  PROVE  IInv'
  <1> DEFINE new == IF job[p].kind = "add" THEN {job[p].n} ELSE {}
  <1>1. /\ job[p].at = "save" /\ UNCHANGED <<offers, settled, home>> /\ lock = p
        /\ SharedOK /\ DOMAIN job = Processes /\ JobOK(job[p]) /\ AddOK(p)
        /\ config' = [exists |-> TRUE, policy |-> PolicyOf(p),
                      profiles |-> job[p].cfg.profiles \cup new]
        /\ added' = added \cup new \/ added' = added
    BY PreparingLocks DEF Save, At, IInv, CommandOK
  <1>2. \E ok : End(p, ok)
    BY DEF Save
  <1>3. Moved(p) /\ CommandOK(p)'
    BY <1>2, EndOK
  <1>4. /\ added \subseteq job[p].cfg.profiles /\ new \subseteq Names
        /\ \A n \in new : home[n].made /\ home[n].config # "none"
    BY <1>1 DEF AddOK
  <1>5. job[p].cfg.profiles \subseteq Names /\ PolicyOf(p) \in Known
    BY <1>1 DEF JobOK, Configs, PolicyOf
  <1> HIDE DEF new
  <1>6. config' \in Configs /\ config'.profiles = job[p].cfg.profiles \cup new /\ config'.exists
    BY <1>1, <1>4, <1>5 DEF Configs
  <1>7. AddedStays'
    BY <1>1, <1>4, <1>6 DEF AddedStays, SharedOK
  <1>8. SharedOK'
    BY <1>1, <1>4, <1>6, <1>7 DEF SharedOK
  <1>9. \A q \in Processes \ {p} : CommandOK(q)'
    BY <1>1, <1>3, OthersStay
  <1> QED BY <1>3, <1>8, <1>9 DEF IInv, Moved


-----------------------------------------------------------------------------
(* Faults and people.                                                       *)

(* An error or a kill leaves the homes as they are, but for a staged link.  *)
LEMMA TroubleOK ==
  ASSUME IInv, NEW p \in Processes, Fail(p) \/ Killed(p)
  PROVE  IInv'
  <1>1. UNCHANGED <<config, offers, settled, added>>
    BY DEF Fail, Killed, disk, ghosts
  <1>2. CASE Killed(p)
    BY <1>1, <1>2, EndOK, AsideOK DEF Killed, Aside, disk
  <1>3. CASE End(p, FALSE) /\ UNCHANGED home
    BY <1>1, <1>3, EndOK, AsideOK DEF Aside
  <1>4. CASE /\ \/ job[p].at \in Making \cup {"check"}
                \/ job[p].at \in {"ensure", "lock"} /\ ~Keeps(job[p].kind)
             /\ GiveUp(p) /\ UNCHANGED home
    BY <1>1, <1>4, GiveUpOK, AsideOK DEF Aside
  <1>5. CASE /\ job[p].at \in {"swap skill", "swap guide"} /\ GiveUp(p)
             /\ home' = [home EXCEPT ![job[p].n].skills[Staged] =
                           IF At(p, "swap skill") THEN None ELSE @]
    <2> DEFINE n == job[p].n
               e == IF At(p, "swap skill") THEN None ELSE home[n].skills[Staged]
    <2>1. job[p].at \in Making /\ lock = p
      BY <1>5, PreparingLocks DEF Making, Guiding, Skilling, Linking
    <2>2. home \in [Names -> Homes] /\ Placed(p) /\ SharedOK /\ None \in Entries
      BY <2>1, PrepareKnows DEF IInv, Entries
    <2>3. n \in Names => e \in Entries
      BY <2>2, StagedIsSkill DEF Homes
    <2>4. home' = [home EXCEPT ![n].skills[Staged] = e]
      BY <1>5
    <2> HIDE DEF e
    <2>5. Relinks(p)
      <3>1. Staged \in Skills /\ (job[p].n \in Names => e \in Entries)
        BY <2>3, StagedIsSkill
      <3> QED BY <2>4, <3>1, SkillRelinked
    <2>6. Moved(p) /\ CommandOK(p)'
      BY <1>5, <2>1, GiveUpOK
    <2>7. \A q \in Processes \ {p} : CommandOK(q)'
      BY <2>1, <2>6, OthersStay
    <2>8. AddedStays'
      <3>1. SUFFICES ASSUME NEW m \in added
                     PROVE  m \in config.profiles /\ home'[m].made /\ home'[m].config # "none"
        BY <1>1 DEF AddedStays
      <3>2. m \in Names /\ m \in config.profiles /\ home[m].made /\ home[m].config # "none"
        BY <2>2, <3>1 DEF SharedOK, AddedStays
      <3> QED BY <2>5, <3>2 DEF Relinks
    <2>9. \A m \in Names : Kept(settled[m].guidance, home'[m].guidance)
                           /\ Kept(settled[m].skills, home'[m].skills)
      <3>1. SUFFICES ASSUME NEW m \in Names
                     PROVE  Kept(settled[m].guidance, home'[m].guidance)
                            /\ Kept(settled[m].skills, home'[m].skills)
        OBVIOUS
      <3>2. CASE m = n
        <4>1. settled[m] = Unsettled
          BY <2>2, <3>2 DEF Placed
        <4> QED BY <4>1 DEF Kept, Unsettled, NoWant
      <3>3. CASE m # n
        BY <2>2, <2>5, <3>3 DEF Relinks, SharedOK
      <3> QED BY <3>2, <3>3
    <2>10. SharedOK'
      BY <1>1, <2>2, <2>5, <2>8, <2>9 DEF SharedOK, Relinks, Kept
    <2> QED BY <2>6, <2>7, <2>10 DEF IInv, Moved
  <1>6. {"check", "make", "config", "guidance", "stale", "guide", "skills", "fill"}
          \subseteq Making \cup {"check"}
    BY DEF Making, Guiding, Skilling, Linking, Filling
  <1>7. CASE Fail(p)
    BY <1>3, <1>4, <1>5, <1>6, <1>7 DEF Fail
  <1> QED BY <1>2, <1>7

(* What people do to the homes: some positions become files of theirs.      *)
Touched ==
  /\ home' \in [Names -> Homes]
  /\ \A n \in Names :
       /\ home'[n].made = home[n].made
       /\ home[n].config # "none" => home'[n].config # "none"
       /\ \A g \in Guidance : home'[n].guidance[g] \in {home[n].guidance[g], File}
       /\ \A s \in Skills : home'[n].skills[s] \in {home[n].skills[s], File}

(* An edit of a person to a home is of this kind.                           *)
LEMMA EditTouches ==
  ASSUME SharedOK, NEW n \in Names,
         \/ \E g \in Guidance : home' = [home EXCEPT ![n].guidance[g] = File]
         \/ \E s \in Skills \ {Staged} : home' = [home EXCEPT ![n].skills[s] = File]
         \/ home' = [home EXCEPT ![n].config = "own"]
         \/ home' = [home EXCEPT ![n].private = ~@]
  PROVE  Touched
  <1>1. home \in [Names -> Homes] /\ home[n] \in Homes /\ File \in Entries
    BY DEF SharedOK, Entries
  <1>2. ASSUME NEW h \in Homes, home' = [home EXCEPT ![n] = h], h.made = home[n].made,
               home[n].config # "none" => h.config # "none",
               \A g \in Guidance : h.guidance[g] \in {home[n].guidance[g], File},
               \A s \in Skills : h.skills[s] \in {home[n].skills[s], File}
        PROVE  Touched
    BY <1>1, <1>2 DEF Touched
  <1>3. ASSUME NEW g \in Guidance, home' = [home EXCEPT ![n].guidance[g] = File]
        PROVE  Touched
    <2> DEFINE h == [home[n] EXCEPT !.guidance[g] = File]
    <2>1. /\ h \in Homes /\ h.made = home[n].made /\ h.config = home[n].config
          /\ h.skills = home[n].skills
          /\ \A x \in Guidance : h.guidance[x] \in {home[n].guidance[x], File}
      BY <1>1, GuidancePut
    <2>2. home' = [home EXCEPT ![n] = h]
      BY <1>3
    <2> HIDE DEF h
    <2> QED BY <1>2, <2>1, <2>2
  <1>4. ASSUME NEW s \in Skills, home' = [home EXCEPT ![n].skills[s] = File]
        PROVE  Touched
    <2> DEFINE h == [home[n] EXCEPT !.skills[s] = File]
    <2>1. /\ h \in Homes /\ h.made = home[n].made /\ h.config = home[n].config
          /\ h.guidance = home[n].guidance
          /\ \A x \in Skills : h.skills[x] \in {home[n].skills[x], File}
      BY <1>1, SkillPut
    <2>2. home' = [home EXCEPT ![n] = h]
      BY <1>4
    <2> HIDE DEF h
    <2> QED BY <1>2, <2>1, <2>2
  <1>5. CASE home' = [home EXCEPT ![n].config = "own"]
    <2> DEFINE h == [home[n] EXCEPT !.config = "own"]
    <2>1. /\ h \in Homes /\ h.made = home[n].made /\ h.config # "none"
          /\ h.skills = home[n].skills /\ h.guidance = home[n].guidance
      BY <1>1 DEF Homes
    <2>2. home' = [home EXCEPT ![n] = h]
      BY <1>5
    <2> HIDE DEF h
    <2> QED BY <1>2, <2>1, <2>2
  <1>6. CASE home' = [home EXCEPT ![n].private = ~@]
    <2> DEFINE h == [home[n] EXCEPT !.private = ~@]
    <2>1. /\ h \in Homes /\ h.made = home[n].made /\ h.config = home[n].config
          /\ h.skills = home[n].skills /\ h.guidance = home[n].guidance
      BY <1>1 DEF Homes
    <2>2. home' = [home EXCEPT ![n] = h]
      BY <1>6
    <2> HIDE DEF h
    <2> QED BY <1>2, <2>1, <2>2
  <1> QED BY <1>3, <1>4, <1>5, <1>6

(* What people do breaks nothing: a position of theirs is a file.           *)
LEMMA EditOK ==
  ASSUME IInv, Edit
  PROVE  IInv'
  <1>1. SharedOK /\ UNCHANGED <<job, settled, added, lock>>
    BY DEF IInv, Edit, locks, ghosts
  <1>2. Touched
    <2>1. CASE UNCHANGED home
      BY <1>1, <2>1 DEF Touched, SharedOK
    <2>2. CASE ~UNCHANGED home
      <3>1. PICK n \in Names :
              \/ \E g \in Guidance : home' = [home EXCEPT ![n].guidance[g] = File]
              \/ \E s \in Skills \ {Staged} : home' = [home EXCEPT ![n].skills[s] = File]
              \/ home' = [home EXCEPT ![n].config = "own"]
              \/ home' = [home EXCEPT ![n].private = ~@]
        BY <2>2, Zenon DEF Edit
      <3> QED BY <1>1, <3>1, EditTouches
    <2> QED BY <2>1, <2>2
  <1>3. /\ config' \in Configs /\ config'.profiles = config.profiles
        /\ config'.exists = config.exists
    <2>1. CASE UNCHANGED config
      BY <1>1, <2>1 DEF SharedOK
    <2>2. CASE ~UNCHANGED config
      <3>1. PICK policy \in Policies : config' = [config EXCEPT !.policy = policy]
        BY <2>2 DEF Edit
      <3> QED BY <1>1, <3>1 DEF SharedOK, Configs, Known
    <2> QED BY <2>1, <2>2
  <1>4. offers' \in [Sources -> SUBSET (Guidance \cup (Skills \ {Staged}))]
    <2>1. CASE UNCHANGED offers
      BY <1>1, <2>1 DEF SharedOK
    <2>2. CASE ~UNCHANGED offers
      <3>1. PICK x \in Sources, s \in Skills \ {Staged} : offers' = [offers EXCEPT ![x] = @ \ {s}]
        BY <2>2 DEF Edit
      <3> QED BY <1>1, <3>1 DEF SharedOK
    <2> QED BY <2>1, <2>2
  <1>5. AddedStays'
    BY <1>1, <1>2, <1>3 DEF SharedOK, AddedStays, Touched
  <1>6. \A n \in Names : Kept(settled[n].guidance, home'[n].guidance)
                         /\ Kept(settled[n].skills, home'[n].skills)
    BY <1>1, <1>2 DEF SharedOK, Kept, Touched
  <1>7. SharedOK'
    BY <1>1, <1>2, <1>3, <1>4, <1>5, <1>6 DEF SharedOK, Touched, Kept
  <1>8. ASSUME NEW p \in Processes
        PROVE  CommandOK(p)'
    <2>1. CommandOK(p)
      BY DEF IInv
    <2>2. HoldsLock(p)'
      BY <1>1, <2>1 DEF CommandOK, HoldsLock
    <2>3. AddOK(p)'
      <3>1. AddOK(p) /\ job' = job /\ added' = added
        BY <1>1, <2>1 DEF CommandOK
      <3>a. ASSUME NEW n \in Names
            PROVE  /\ home[n].made => home'[n].made
                   /\ home[n].config # "none" => home'[n].config # "none"
        BY <1>2 DEF Touched
      <3>2. CASE job[p].kind = "add" /\ job[p].at \in {"check", "save"} \cup Making
        <4>1. job[p].n \in Names
          BY <3>1, <3>2 DEF AddOK
        <4>2. /\ home[job[p].n].made => home'[job[p].n].made
              /\ home[job[p].n].config # "none" => home'[job[p].n].config # "none"
          BY <3>a, <4>1
        <4>3. job'[p] = job[p] /\ added' = added /\ AddOK(p)
          BY <3>1
        <4> QED BY <4>2, <4>3 DEF AddOK
      <3>3. CASE ~(job[p].kind = "add" /\ job[p].at \in {"check", "save"} \cup Making)
        <4>1. job[p].kind = "add" => job[p].at \notin
                {"save", "guidance"} \cup (Making \ {"make"}) \cup Guiding \cup Skilling
          BY <3>3 DEF Making
        <4> QED BY <3>1, <3>3, <4>1 DEF AddOK
      <3> QED BY <3>2, <3>3
    <2>4. job[p].at \in Making => Wanted(p)'
      BY <1>1, <2>1 DEF CommandOK, Wanted
    <2>5. ASSUME job[p].at \in Making
          PROVE  Placed(p)'
      <3>1. SUFFICES ASSUME job[p].n \in Names PROVE Placed(p)'
        BY <1>1 DEF Placed
      <3>2. Placed(p) /\ Wanted(p)
        BY <2>1, <2>5 DEF CommandOK
      <3>3. DOMAIN job[p].guided \subseteq Guidance
        BY <3>2 DEF Wanted, NoWant
      <3>4. Guided(p) => Guided(p)'
        BY <1>1, <1>2, <3>1, <3>3 DEF Guided, Touched
      <3>5. Linked(p) => Linked(p)'
        BY <1>1, <1>2, <3>1 DEF Linked, Touched
      <3>6. \A s \in Skills : Inside(p, s) => Inside(p, s)'
        BY <1>1, <1>2, <3>1 DEF Inside, Touched
      <3>7. Filled(p) => Filled(p)'
        BY <1>1, <1>2, <3>1, <3>6 DEF Filled, Touched
      <3>8. \A g \in DOMAIN job[p].guided :
              home[job[p].n].guidance[g] \in {job[p].guided[g], File}
                => home'[job[p].n].guidance[g] \in {job[p].guided[g], File}
        BY <1>2, <3>1, <3>3 DEF Touched
      <3> QED BY <1>1, <3>2, <3>4, <3>5, <3>6, <3>7, <3>8 DEF Placed
    <2> QED BY <1>1, <2>1, <2>2, <2>3, <2>4, <2>5 DEF CommandOK
  <1> QED BY <1>1, <1>7, <1>8 DEF IInv

-----------------------------------------------------------------------------
(* The theorems.                                                            *)

(* The profiles of the beginning have their homes, and no home is settled.  *)
LEMMA InitOK == Init => IInv
  <1> SUFFICES ASSUME Init PROVE IInv
    OBVIOUS
  <1>1. PICK ps \in {{}, Existing}, generated \in BOOLEAN :
          LET policy == IF ps = {} THEN NoPolicy ELSE ExistingPolicy IN
          /\ config = [exists |-> ps # {}, profiles |-> ps, policy |-> policy]
          /\ home = [n \in Names |-> IF n \notin ps THEN NoHome ELSE
               [made |-> TRUE, private |-> TRUE,
                config |-> IF generated THEN "generated" ELSE "link",
                guidance |-> WantedGuidance(policy, offers, NoHome),
                skills |-> IF policy.strict THEN DefaultSkills(offers)
                           ELSE WantedSkills(policy, offers)]]
          /\ added = ps
          /\ settled = [n \in Names |-> Unsettled]
    BY DEF Init
  <1> DEFINE policy == IF ps = {} THEN NoPolicy ELSE ExistingPolicy
             links == IF policy.strict THEN DefaultSkills(offers) ELSE WantedSkills(policy, offers)
             guidance == WantedGuidance(policy, offers, NoHome)
  <1>2. policy \in Known /\ ps \subseteq Names
    BY PoliciesAssumption, NamesOfProfiles DEF Known
  <1>3. offers \in [Sources -> SUBSET (Guidance \cup (Skills \ {Staged}))]
    BY DEF Init
  <1>4. guidance \in [Guidance -> Entries]
    BY <1>2, <1>3, WantsType
  <1>5. links \in [Skills -> Entries]
    <2>1. {None, Default} \subseteq Entries
      BY DEF Entries, Sources
    <2>2. DefaultSkills(offers) \in [Skills -> Entries]
      BY <1>2, <1>3, <2>1, WantsType
    <2> QED BY <1>2, <1>3, <2>2, WantsType
  <1>6. /\ config = [exists |-> ps # {}, profiles |-> ps, policy |-> policy]
        /\ home = [n \in Names |-> IF n \notin ps THEN NoHome ELSE
               [made |-> TRUE, private |-> TRUE,
                config |-> IF generated THEN "generated" ELSE "link",
                guidance |-> guidance, skills |-> links]]
        /\ added = ps /\ settled = [n \in Names |-> Unsettled]
    BY <1>1
  <1> HIDE DEF policy, links, guidance
  <1>7. NoHome \in Homes
    BY DEF NoHome, Homes, Entries
  <1>8. home \in [Names -> Homes]
    BY <1>4, <1>5, <1>6, <1>7 DEF Homes
  <1>9. config \in Configs
    BY <1>2, <1>6 DEF Configs
  <1>10. AddedStays
    BY <1>2, <1>6 DEF AddedStays
  <1>11. DOMAIN Unsettled = {"guidance", "skills"} /\ DOMAIN Unsettled.guidance = {}
         /\ DOMAIN Unsettled.skills = {}
    BY DEF Unsettled, NoWant
  <1>12. SharedOK
    BY <1>2, <1>3, <1>6, <1>8, <1>9, <1>10, <1>11 DEF SharedOK, Kept
  <1>13. /\ DOMAIN Idle = Fields /\ Idle.kind = "none" /\ Idle.at = "idle" /\ Idle.cfg \in Configs
    BY DEF Idle, Fields, NoConfig, Configs, Known
  <1>14. Idle.at \notin Making \cup {"check", "save"}
    BY <1>13, Stages
  <1>15. ASSUME NEW p \in Processes
         PROVE  CommandOK(p)
    <2>1. job[p] = Idle
      BY DEF Init
    <2> QED BY <1>13, <1>14, <2>1 DEF CommandOK, JobOK, HoldsLock, AddOK, Keeps
  <1> QED BY <1>12, <1>15 DEF IInv, Init

(* Every step of every command, of people and of faults keeps the           *)
(* invariant.                                                               *)
LEMMA NextOK ==
  ASSUME IInv, [Next]_vars
  PROVE  IInv'
  <1>1. CASE UNCHANGED vars
    <2>1. UNCHANGED <<config, offers, home, lock, job, settled, added>>
      BY <1>1 DEF vars
    <2>2. SharedOK'
      BY <2>1 DEF IInv, SharedOK, AddedStays, Kept
    <2>3. \A p \in Processes : CommandOK(p)'
      <3>1. SUFFICES ASSUME NEW p \in Processes PROVE CommandOK(p)'
        OBVIOUS
      <3>2. CommandOK(p)
        BY DEF IInv
      <3>3. HoldsLock(p) => HoldsLock(p)'
        BY <2>1 DEF HoldsLock
      <3>4. AddOK(p) => AddOK(p)'
        BY <2>1 DEF AddOK
      <3>5. Wanted(p) => Wanted(p)'
        BY <2>1 DEF Wanted
      <3>6. Placed(p) => Placed(p)'
        BY <2>1 DEF Placed, Guided, Linked, Inside, Filled
      <3> QED BY <2>1, <3>2, <3>3, <3>4, <3>5, <3>6 DEF CommandOK
    <2> QED BY <2>1, <2>2, <2>3 DEF IInv
  <1>2. CASE Edit
    BY <1>2, EditOK
  <1>3. ASSUME NEW p \in Processes,
               Start(p) \/ Step(p) \/ CodexLogin(p) \/ CodexEnds(p) \/ Fail(p) \/ Killed(p)
        PROVE  IInv'
    <2>1. CASE Start(p) \/ Lock(p) \/ Initialize(p) \/ Load(p) \/ TryBeat(p) \/ NextProfile(p)
      BY <2>1, StartOK, LockOK, InitializeOK, LoadOK, TryBeatOK, NextProfileOK, AsideOK, Zenon
    <2>2. CASE EnsureProfileDir(p) \/ CheckReady(p) \/ CodexLogin(p) \/ Secure(p) \/ LoginStatus(p)
               \/ Beat(p) \/ Pause(p)
      BY <2>2, EnsureProfileDirOK, CheckReadyOK, LoginOK, AsideOK, Zenon
    <2>3. CASE Select(p) \/ Recheck(p) \/ Announce(p) \/ CodexEnds(p)
      BY <2>3, RunOK, AsideOK, Zenon
    <2>4. CASE Check(p) \/ MakeHome(p) \/ LinkConfig(p) \/ BeginGuidance(p) \/ GuidanceDone(p)
               \/ StaleDone(p) \/ FillSkill(p) \/ Prepared(p) \/ Save(p)
      BY <2>4, CheckOK, MakeHomeOK, BeginGuidanceOK, GuidanceDoneOK, StaleDoneOK, FillSkillOK,
         PreparedOK, SaveOK, Zenon
    <2>5. CASE ReconcileGuidance(p) \/ ReconcileSkill(p) \/ Swap(p) \/ RemoveStale(p)
      BY <2>5, ReconcileGuidanceOK, ReconcileSkillOK, RemoveStaleOK DEF Swap, At
    <2>6. CASE Fail(p) \/ Killed(p)
      BY <2>6, TroubleOK
    <2> QED BY <1>3, <2>1, <2>2, <2>3, <2>4, <2>5, <2>6 DEF Step, Prepare
  <1> QED BY <1>1, <1>2, <1>3 DEF Next

(* What every command may rely on, at every step.                           *)
THEOREM Inductive == Spec => []IInv
  BY InitOK, NextOK, PTL DEF Spec

(* A profile that was reported as added stays recorded, with its home and   *)
(* its config, whichever commands run, fail and die (RunAddProfile, Save).  *)
THEOREM AddedForGood == Spec => []AddedStays
  <1>1. IInv => AddedStays
    BY DEF IInv, SharedOK
  <1> QED BY <1>1, Inductive, PTL

(* A prepared home has the links of one policy and never a mixture of two   *)
(* (EnsureProfileDir, PrepareProfile, ensureProfileResources).              *)
THEOREM OnePolicyPerHome == Spec => []LinksFollowOnePolicy
  <1>1. IInv => LinksFollowOnePolicy
    BY DEF IInv, SharedOK, LinksFollowOnePolicy, Kept
  <1> QED BY <1>1, Inductive, PTL
=============================================================================
