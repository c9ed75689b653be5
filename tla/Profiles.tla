------------------------------ MODULE Profiles ------------------------------
(* The commands of multicodex that share the profiles of one user           *)
(* (internal/multicodex: config.go, resources.go, app.go, reconcile.go,     *)
(* exec.go, cli.go, generate.go, heartbeat.go).                             *)
(*                                                                          *)
(* Every command is a process of its own.  What they share is on disk:      *)
(* config.json (the profiles and the resource policy), the profile homes    *)
(* with their links, two lock files held with flock, the default Codex      *)
(* home.  People edit the policy, the sources and the files of a home while *)
(* commands run, and a command may be killed or fail at any step.           *)
EXTENDS ProfileHomes, AccountSelection

CONSTANTS Processes,
          Commands,       \* process -> the commands it may be started as
          Profiles,       \* names, in sorted order
          Existing,       \* the profiles that may be there at the start,
          ExistingPolicy, \* prepared under this policy
          Policies,       \* what people may write into config.json
          Measurements,   \* what a measurement of one account may yield
          Retries,        \* of a heartbeat
          MaxEdits,       \* changes people make
          MaxTroubles     \* kills and errors

ASSUME PoliciesAssumption ==
  ExistingPolicy \in Policies /\ \A policy \in Policies : WellFormed(policy)
ASSUME MeasurementsAssumption == Measurements \subseteq Measured
ASSUME BoundsAssumption ==
  Retries \in Nat /\ MaxEdits \in Nat /\ MaxTroubles \in Nat

VARIABLES config,     \* config.json: [exists, profiles, policy]
          offers,     \* source -> the names it has
          fileStore,  \* the default config keeps credentials in a file
          home, auth, \* per profile; auth: "none", "private" or "open"
          lock, beat, \* who holds config.lock and heartbeat.lock
          job,        \* what each process is doing
          settled,    \* profile -> the links its last preparation left
          added,      \* the profiles of which a command said "added"
          budget
vars == <<config, offers, fileStore, home, auth, lock, beat, job, settled, added, budget>>
disk == <<config, home, auth>>
people == <<offers, fileStore, budget>>
locks == <<lock, beat>>
ghosts == <<settled, added>>

Names == Elements(Profiles)
Free == "free"
NoName == "none"
ASSUME NamesOfProfiles ==
  Existing \subseteq Names /\ NoName \notin Names /\ Free \notin Processes
NoConfig == [exists |-> FALSE, profiles |-> {}, policy |-> NoPolicy]
NoWant == [n \in {} |-> None]
Unsettled == [guidance |-> NoWant, skills |-> NoWant]

Sorted(s) == SelectSeq(Profiles, LAMBDA n : n \in s)

(* cfg: the config the process has loaded; todo: profiles it still has to   *)
(* prepare; n: the one in hand; want, left: links wanted and positions left *)
(* in the current pass; tries: heartbeats sent; account: chosen to run on;  *)
(* sound: as promised.                                                      *)
Idle == [kind |-> "none", at |-> "idle", cfg |-> NoConfig, todo |-> <<>>, n |-> NoName,
         want |-> NoWant, left |-> <<>>, guided |-> NoWant, failed |-> FALSE,
         tries |-> 0, account |-> NoName, announced |-> NoName, sound |-> TRUE]

(* "exec" stands for every command that chooses the account, "account" for  *)
(* every one that is given a profile to run on.                             *)
Kinds == {"init", "add", "reconcile", "login", "login-all", "exec", "account", "heartbeat"}
ASSUME CommandsAssumption == Commands \in [Processes -> SUBSET Kinds]

At(p, step) == job[p].at = step
Goto(p, step) == job' = [job EXCEPT ![p].at = step]
Ended(p, ok) == [Idle EXCEPT !.at = "done", !.failed = job[p].failed \/ ~ok]

(* Mutant: add takes the lock only to prepare the new home.                 *)
KeepsButAdd(kind) == kind \in {"init", "reconcile"}

(* The commands that keep config.lock from their first step to their last;  *)
(* the others read config.json without it and lock each profile by itself.  *)
Keeps(kind) == kind \in {"init", "add", "reconcile"}

(* The commands that go on with the next profile when one fails.            *)
Lenient(kind) == kind \in {"reconcile", "heartbeat", "login", "login-all"}

Init ==
  /\ offers = [x \in Sources |-> Guidance \cup (Skills \ {Staged})]
  /\ \E ps \in {{}, Existing}, generated \in BOOLEAN :
       LET policy == IF ps = {} THEN NoPolicy ELSE ExistingPolicy IN
       /\ config = [exists |-> ps # {}, profiles |-> ps, policy |-> policy]
       /\ home = [n \in Names |-> IF n \notin ps THEN NoHome ELSE
            [made |-> TRUE, private |-> TRUE,
             config |-> IF generated THEN "generated" ELSE "link",
             guidance |-> WantedGuidance(policy, offers, NoHome),
             skills |-> IF policy.strict THEN DefaultSkills(offers)
                        ELSE WantedSkills(policy, offers)]]
       /\ added = ps
       /\ settled = [n \in Names |-> Unsettled]
  /\ fileStore = TRUE
  /\ auth = [n \in Names |-> "none"]
  /\ lock = Free /\ beat = Free
  /\ job = [p \in Processes |-> Idle]
  /\ budget = [edits |-> MaxEdits, troubles |-> MaxTroubles]

-----------------------------------------------------------------------------
(* Starting, reading the config, taking turns.                              *)

Start(p) ==
  /\ At(p, "idle")
  /\ \E kind \in Commands[p] :
     \E n \in IF kind \in {"add", "login", "account"} THEN Names ELSE {NoName} :
       job' = [job EXCEPT ![p].kind = kind, ![p].at = IF Keeps(kind) THEN "lock" ELSE "load",
                          ![p].todo = IF n = NoName THEN <<>> ELSE <<n>>]
  /\ UNCHANGED <<disk, people, locks, ghosts>>

(* Mutant: a preparation does not wait for the lock.                        *)
LockAnyway(p) ==
  /\ At(p, "lock") /\ (lock = Free \/ ~Keeps(job[p].kind))
  /\ lock' = IF lock = Free THEN p ELSE lock
  /\ Goto(p, IF Keeps(job[p].kind) THEN "load" ELSE "check")
  /\ UNCHANGED <<disk, people, beat, ghosts>>

(* flock waits; the kernel gives the lock to one process.                   *)
Lock(p) ==
  /\ At(p, "lock") /\ lock = Free
  /\ lock' = p
  /\ Goto(p, IF Keeps(job[p].kind) THEN "load" ELSE "check")
  /\ UNCHANGED <<disk, people, beat, ghosts>>

Released(p) == IF lock = p THEN Free ELSE lock

End(p, ok) ==
  /\ job' = [job EXCEPT ![p] = Ended(p, ok)]
  /\ lock' = Released(p)
  /\ beat' = IF beat = p THEN Free ELSE beat

(* No file means no profiles, and only init and add write one.              *)
Stored == IF config.exists THEN config ELSE NoConfig

(* The command's own profiles: the one it was given, or all there are.      *)
Given(kind) == kind \in {"add", "login", "account"}
ProfilesOf(p) ==
  IF Given(job[p].kind) THEN job[p].todo ELSE Sorted(Stored.profiles)

(* What the config tells a command to refuse.                               *)
Refused(p) ==
  LET kind == job[p].kind IN
  \/ kind = "add" /\ job[p].todo[1] \in Stored.profiles
  \/ kind \in {"login", "account"} /\ job[p].todo[1] \notin Stored.profiles
  \/ kind \in {"login-all", "heartbeat"} /\ ProfilesOf(p) = <<>>

Initialize(p) ==
  /\ At(p, "load") /\ job[p].kind = "init"
  /\ \/ /\ config.exists
        /\ End(p, TRUE)
     \/ /\ ~config.exists
        /\ job' = [job EXCEPT ![p].at = "save", ![p].cfg = Stored]
        /\ UNCHANGED locks
  /\ UNCHANGED <<disk, people, ghosts>>

Load(p) ==
  /\ At(p, "load") /\ job[p].kind # "init"
  /\ \/ /\ Refused(p)
        /\ End(p, FALSE)
     \/ /\ ~Refused(p)
        /\ job' = [job EXCEPT ![p].at = IF job[p].kind = "heartbeat" THEN "alone" ELSE "next",
                              ![p].cfg = Stored, ![p].todo = ProfilesOf(p)]
        /\ UNCHANGED locks
  /\ UNCHANGED <<disk, people, ghosts>>

(* A heartbeat does not wait for another one.                               *)
TryBeat(p) ==
  /\ At(p, "alone")
  /\ \/ /\ beat = Free
        /\ beat' = p /\ Goto(p, "next")
        /\ UNCHANGED lock
     \/ /\ beat # Free
        /\ End(p, TRUE)
  /\ UNCHANGED <<disk, people, ghosts>>

(* Mutant: reconcile prepares each profile with EnsureProfileDir, which     *)
(* takes the lock that reconcile is holding.                                *)
LocksEachAgain(kind) == kind # "add"

LocksEach(kind) == ~Keeps(kind)

(* login-all logs in with one "login" per profile, which reads the config   *)
(* again.                                                                   *)
ConfigOfNext(p) == IF job[p].kind = "login-all" THEN Stored ELSE job[p].cfg

NextProfile(p) ==
  /\ At(p, "next")
  /\ LET kind == job[p].kind IN
     \/ /\ job[p].todo # <<>>
        /\ job' = [job EXCEPT ![p].at = IF LocksEach(kind) THEN "ensure" ELSE "check",
                              ![p].n = Head(job[p].todo), ![p].todo = Tail(job[p].todo),
                              ![p].cfg = ConfigOfNext(p)]
        /\ UNCHANGED locks
     \/ /\ job[p].todo = <<>> /\ kind = "exec"
        /\ Goto(p, "select")
        /\ UNCHANGED locks
     \/ /\ job[p].todo = <<>> /\ kind # "exec"
        /\ End(p, TRUE)
  /\ UNCHANGED <<disk, people, ghosts>>

-----------------------------------------------------------------------------
(* Preparing one profile home.                                              *)

(* The command goes on after the preparation of a profile.                  *)
GoOn(p, ok) ==
  LET kind == job[p].kind IN
  /\ lock' = IF Keeps(kind) THEN lock ELSE Released(p)
  /\ job' = [job EXCEPT ![p].at = IF ~ok \/ kind = "reconcile" THEN "next"
                                  ELSE IF kind = "add" THEN "save" ELSE "ready",
                        ![p].failed = @ \/ ~ok, ![p].want = NoWant, ![p].left = <<>>,
                        ![p].guided = NoWant]
  /\ UNCHANGED beat

(* A lenient command goes on after a failure, whatever the failed           *)
(* preparation has changed.                                                 *)
GiveUp(p) == IF Lenient(job[p].kind) THEN GoOn(p, FALSE) ELSE End(p, FALSE)

InHand(p) == home[job[p].n]
PolicyOf(p) == job[p].cfg.policy

(* The directories of the profile are private and none of them is a link.   *)
StorageSafe(n) == home[n].private

(* Unsafe storage is refused without waiting for the lock.                  *)
EnsureProfileDir(p) ==
  /\ At(p, "ensure")
  /\ IF StorageSafe(job[p].n)
       THEN Goto(p, "lock") /\ UNCHANGED locks
       ELSE GiveUp(p)
  /\ UNCHANGED <<disk, people, ghosts>>

(* The wanted links are resolved and every destination is inspected before  *)
(* anything is changed.                                                     *)
Check(p) ==
  /\ At(p, "check")
  /\ IF StorageSafe(job[p].n) /\ DestinationsValid(PolicyOf(p), InHand(p))
       THEN /\ job' = [job EXCEPT ![p].at = "make", ![p].want = WantedSkills(PolicyOf(p), offers),
                                  ![p].guided = IF PolicyOf(p).guidance = "leave" THEN NoWant
                                                ELSE WantedGuidance(PolicyOf(p), offers, NoHome)]
            /\ settled' = [settled EXCEPT ![job[p].n] = Unsettled]
            /\ UNCHANGED locks
       ELSE GiveUp(p) /\ UNCHANGED settled
  /\ UNCHANGED <<disk, people, added>>

MakeHome(p) ==
  /\ At(p, "make")
  /\ home' = [home EXCEPT ![job[p].n].made = TRUE]
  /\ Goto(p, "config")
  /\ UNCHANGED <<config, auth, people, locks, ghosts>>

(* A missing config.toml and one that an earlier version generated become a *)
(* link to the default one; the user's own stays.                           *)
LinkConfig(p) ==
  /\ At(p, "config")
  /\ home' = [home EXCEPT ![job[p].n].config = IF @ = "own" THEN "own" ELSE "link"]
  /\ Goto(p, "guidance")
  /\ UNCHANGED <<config, auth, people, locks, ghosts>>

BeginSkills(p) ==
  IF PolicyOf(p).strict
    THEN job' = [job EXCEPT ![p].at = "stale", ![p].left = SkillNames,
                            ![p].want = DefaultSkills(offers)]
    ELSE job' = [job EXCEPT ![p].at = "skills", ![p].left = SkillNames]

(* The user's own guidance file is looked for once, before the first link.  *)
BeginGuidance(p) ==
  /\ At(p, "guidance")
  /\ LET wanted == [g \in Guidance |->
                      IF LocalOverride(InHand(p)) THEN None ELSE job[p].guided[g]]
     IN  IF PolicyOf(p).guidance = "leave"
           THEN BeginSkills(p)
           ELSE job' = [job EXCEPT ![p].at = "guide", ![p].left = GuidanceNames,
                                   ![p].guided = wanted]
  /\ UNCHANGED <<disk, people, locks, ghosts>>

(* One position of a pass over owned links.  A link that leads elsewhere is *)
(* replaced by a rename, so that the name is never without a link.          *)
Reconcile(p, kind, e, want, Put(_)) ==
  \/ /\ Action(e, want) = "keep"
     /\ job' = [job EXCEPT ![p].left = Tail(@)]
     /\ UNCHANGED home
  \/ /\ Action(e, want) \in {"link", "remove"}
     /\ home' = [home EXCEPT ![job[p].n] = Put(want)]
     /\ job' = [job EXCEPT ![p].left = Tail(@)]
  \/ /\ Action(e, want) = "swap"
     /\ home' = [home EXCEPT ![job[p].n].skills[Staged] =
                   IF kind = "skills" THEN want ELSE @]
     /\ Goto(p, IF kind = "skills" THEN "swap skill" ELSE "swap guide")

ReconcileGuidance(p) ==
  /\ At(p, "guide") /\ job[p].left # <<>>
  /\ LET g == Head(job[p].left) IN
     Reconcile(p, "guidance", InHand(p).guidance[g], job[p].guided[g],
               LAMBDA e : [InHand(p) EXCEPT !.guidance[g] = e])
  /\ UNCHANGED <<config, auth, people, locks, ghosts>>

GuidanceDone(p) ==
  /\ At(p, "guide") /\ job[p].left = <<>>
  /\ BeginSkills(p)
  /\ UNCHANGED <<disk, people, locks, ghosts>>

ReconcileSkill(p) ==
  /\ At(p, "skills") /\ job[p].left # <<>>
  /\ LET s == Head(job[p].left) IN
     Reconcile(p, "skills", InHand(p).skills[s], job[p].want[s],
               LAMBDA e : [InHand(p) EXCEPT !.skills[s] = e])
  /\ UNCHANGED <<config, auth, people, locks, ghosts>>

(* The rename replaces whatever is at the name by then.                     *)
Swap(p) ==
  /\ job[p].at \in {"swap skill", "swap guide"}
  /\ LET x == Head(job[p].left)
         h == InHand(p)
     IN  home' = [home EXCEPT ![job[p].n] =
           IF At(p, "swap skill")
             THEN [h EXCEPT !.skills = [@ EXCEPT ![x] = job[p].want[x], ![Staged] = None]]
             ELSE [h EXCEPT !.guidance[x] = job[p].guided[x]]]
  /\ job' = [job EXCEPT ![p].at = IF At(p, "swap skill") THEN "skills" ELSE "guide",
                        ![p].left = Tail(job[p].left)]
  /\ UNCHANGED <<config, auth, people, locks, ghosts>>

(* Without word on skills: first the stale links go, and a link that leads  *)
(* elsewhere ends the preparation.                                          *)
RemoveStale(p) ==
  /\ At(p, "stale") /\ job[p].left # <<>>
  /\ LET s == Head(job[p].left)
         e == InHand(p).skills[s]
     IN  IF LeadsOutside(e)
           THEN GiveUp(p) /\ UNCHANGED home
           ELSE /\ home' = [home EXCEPT ![job[p].n].skills[s] =
                              IF Stale(s, e, offers) THEN None ELSE e]
                /\ job' = [job EXCEPT ![p].left = Tail(@)]
                /\ UNCHANGED locks
  /\ UNCHANGED <<config, auth, people, ghosts>>

StaleDone(p) ==
  /\ At(p, "stale") /\ job[p].left = <<>>
  /\ job' = [job EXCEPT ![p].at = "fill", ![p].left = Tail(SkillNames)]
  /\ UNCHANGED <<disk, people, locks, ghosts>>

(* Then every default skill that the profile misses is linked.              *)
FillSkill(p) ==
  /\ At(p, "fill") /\ job[p].left # <<>>
  /\ LET s == Head(job[p].left) IN
     home' = [home EXCEPT ![job[p].n].skills[s] = IF @ = None THEN job[p].want[s] ELSE @]
  /\ job' = [job EXCEPT ![p].left = Tail(@)]
  /\ UNCHANGED <<config, auth, people, locks, ghosts>>

(* What the preparation promises of the links it manages: a skill that is   *)
(* not among the default ones may keep a default link.                      *)
LinksLeft(p) ==
  [guidance |-> [g \in DOMAIN job[p].guided |-> {job[p].guided[g], File}],
   skills |-> [s \in Skills \ (IF PolicyOf(p).strict THEN {Staged} ELSE {}) |->
                 {job[p].want[s], File}
                   \cup IF PolicyOf(p).strict THEN {Default} ELSE {}]]

Prepared(p) ==
  /\ job[p].at \in {"skills", "fill"} /\ job[p].left = <<>>
  /\ settled' = [settled EXCEPT ![job[p].n] = LinksLeft(p)]
  /\ GoOn(p, TRUE)
  /\ UNCHANGED <<disk, people, added>>

(* config.json is replaced by a rename; the error of the sync that follows  *)
(* comes when the new one is in place.                                      *)
Save(p) ==
  /\ At(p, "save")
  /\ config' = [exists |-> TRUE, policy |-> PolicyOf(p),
                profiles |-> job[p].cfg.profiles
                               \cup IF job[p].kind = "add" THEN {job[p].n} ELSE {}]
  /\ \/ /\ added' = added \cup IF job[p].kind = "add" THEN {job[p].n} ELSE {}
        /\ End(p, TRUE)
        /\ UNCHANGED budget
     \/ /\ budget.troubles > 0
        /\ budget' = [budget EXCEPT !.troubles = @ - 1]
        /\ End(p, FALSE)
        /\ UNCHANGED added
  /\ UNCHANGED <<home, auth, offers, fileStore, settled>>

-----------------------------------------------------------------------------
(* Readiness, login, heartbeat.                                             *)

AuthPathSafe(n) == home[n].made /\ auth[n] # "open"
UsesFileStore(n) == home[n].config = "own" \/ fileStore

(* Codex keeps this profile's credentials in a private file of its own.     *)
Ready(n) == StorageSafe(n) /\ AuthPathSafe(n) /\ UsesFileStore(n)

CheckReady(p) ==
  /\ At(p, "ready")
  /\ LET kind == job[p].kind
         n == job[p].n
     IN  \/ /\ Ready(n)
            /\ job' = [job EXCEPT ![p].at = CASE kind \in {"login", "login-all"} -> "login"
                               [] kind = "exec" -> "next"
                               [] kind = "account" -> "announce"
                               [] kind = "heartbeat" -> "status",
                                  ![p].account = IF kind = "account" THEN n ELSE NoName]
            /\ UNCHANGED locks
         \/ /\ ~Ready(n) /\ Lenient(kind)
            /\ job' = [job EXCEPT ![p].at = "next",
                                  ![p].failed = @ \/ ~(kind = "heartbeat" /\ auth[n] = "none")]
            /\ UNCHANGED locks
         \/ /\ ~Ready(n) /\ ~Lenient(kind)
            /\ End(p, FALSE)
  /\ UNCHANGED <<disk, people, ghosts>>

(* codex login, at the pace of a person; how it leaves the file is its own  *)
(* business.                                                                *)
CodexLogin(p) ==
  /\ At(p, "login")
  /\ \E a \in {auth[job[p].n], "private", "open"}, ok \in BOOLEAN :
       /\ auth' = [auth EXCEPT ![job[p].n] = a]
       /\ job' = [job EXCEPT ![p].at = IF ok THEN "secure" ELSE "next", ![p].failed = @ \/ ~ok]
  /\ UNCHANGED <<config, home, people, locks, ghosts>>

Secure(p) ==
  /\ At(p, "secure")
  /\ auth' = [auth EXCEPT ![job[p].n] = IF @ = "open" THEN "private" ELSE @]
  /\ Goto(p, "next")
  /\ UNCHANGED <<config, home, people, locks, ghosts>>

(* What codex login status, bounded by a timeout, may say of a home.        *)
LoginStates == {"logged-in", "logged-out", "error"}

(* Who is not logged in is skipped.                                         *)
LoginStatus(p) ==
  /\ At(p, "status")
  /\ \E state \in LoginStates :
       job' = [job EXCEPT ![p].at = IF state = "logged-in" THEN "beat" ELSE "next", ![p].tries = 0]
  /\ UNCHANGED <<disk, people, locks, ghosts>>

(* One request, bounded by a timeout; "refused" is for authentication, which*)
(* also counts when codex itself succeeds.                                  *)
BeatResults == {"sent", "refused", "failed"}

(* What authentication refuses is not tried again.                          *)
Beat(p) ==
  /\ At(p, "beat")
  /\ \E result \in BeatResults :
       IF result = "failed" /\ job[p].tries < Retries
         THEN job' = [job EXCEPT ![p].at = "pause", ![p].tries = job[p].tries + 1]
         ELSE job' = [job EXCEPT ![p].at = "next", ![p].failed = @ \/ result # "sent"]
  /\ UNCHANGED <<disk, people, locks, ghosts>>

Pause(p) ==
  /\ At(p, "pause")
  /\ Goto(p, "beat")
  /\ UNCHANGED <<disk, people, locks, ghosts>>

-----------------------------------------------------------------------------
(* Running codex on a chosen account.                                       *)

(* All profiles of the loaded config are measured, and the default account. *)
Accounts(p) == job[p].cfg.profiles \cup {DefaultAccount}

(* There is always one to choose: the reserve stands in for the others.     *)
Select(p) ==
  /\ At(p, "select")
  /\ \E spark \in BOOLEAN, m \in [Accounts(p) -> Measurements] :
     \E a \in Choices(m, spark) :
       job' = [job EXCEPT ![p].at = "recheck", ![p].account = a, ![p].sound = Promised(m, a, spark)]
  /\ UNCHANGED <<disk, people, locks, ghosts>>

(* Codex confirms the login of the default account, a profile has to be     *)
(* ready still.                                                             *)
ReadyToRun(a) ==
  IF a = DefaultAccount THEN {state = "logged-in" : state \in LoginStates} ELSE {Ready(a)}

Recheck(p) ==
  /\ At(p, "recheck")
  /\ \E ready \in ReadyToRun(job[p].account) :
       \/ /\ ready
          /\ Goto(p, "announce")
          /\ UNCHANGED locks
       \/ /\ ~ready
          /\ End(p, FALSE)
  /\ UNCHANGED <<disk, people, ghosts>>

(* The caller may have asked for a file that names the account.             *)
Announce(p) ==
  /\ At(p, "announce")
  /\ \E asked \in BOOLEAN :
       job' = [job EXCEPT ![p].at = "run",
                          ![p].announced = IF asked THEN job[p].account ELSE NoName]
  /\ UNCHANGED <<disk, people, locks, ghosts>>

CodexEnds(p) ==
  /\ At(p, "run")
  /\ \E ok \in BOOLEAN : End(p, ok)
  /\ UNCHANGED <<disk, people, ghosts>>

-----------------------------------------------------------------------------
(* Faults and people.                                                       *)

(* The error of a file operation.  A rename that fails takes its staged     *)
(* link away.                                                               *)
Fail(p) ==
  /\ budget.troubles > 0
  /\ \/ /\ \/ job[p].at \in {"load", "alone", "announce", "save"}
           \/ At(p, "lock") /\ Keeps(job[p].kind)
        /\ End(p, FALSE)
        /\ UNCHANGED home
     \/ /\ \/ job[p].at \in {"check", "make", "config", "guidance", "stale"}
           \/ job[p].at \in {"guide", "skills", "fill"} /\ job[p].left # <<>>
           \/ job[p].at \in {"ensure", "lock"} /\ ~Keeps(job[p].kind)
        /\ GiveUp(p)
        /\ UNCHANGED home
     \/ /\ job[p].at \in {"swap skill", "swap guide"}
        /\ home' = [home EXCEPT ![job[p].n].skills[Staged] =
                      IF At(p, "swap skill") THEN None ELSE @]
        /\ GiveUp(p)
  /\ budget' = [budget EXCEPT !.troubles = @ - 1]
  /\ UNCHANGED <<config, auth, offers, fileStore, ghosts>>

(* The kernel releases the locks of a process that dies.                    *)
Killed(p) ==
  /\ budget.troubles > 0 /\ job[p].at \notin {"idle", "done"}
  /\ budget' = [budget EXCEPT !.troubles = @ - 1]
  /\ End(p, FALSE)
  /\ UNCHANGED <<disk, offers, fileStore, ghosts>>

Edit ==
  /\ budget.edits > 0
  /\ budget' = [budget EXCEPT !.edits = @ - 1]
  /\ \/ /\ config.exists
        /\ \E policy \in Policies \ {config.policy} : config' = [config EXCEPT !.policy = policy]
        /\ UNCHANGED <<offers, fileStore, home>>
     \/ /\ \E x \in Sources, s \in Skills \ {Staged} : offers' = [offers EXCEPT ![x] = @ \ {s}]
        /\ UNCHANGED <<config, fileStore, home>>
     \/ /\ fileStore' = ~fileStore
        /\ UNCHANGED <<config, offers, home>>
     \/ /\ \E n \in Names :
             /\ home[n].made
             /\ \/ \E g \in Guidance : home' = [home EXCEPT ![n].guidance[g] = File]
                \/ \E s \in Skills \ {Staged} : home' = [home EXCEPT ![n].skills[s] = File]
                \/ home' = [home EXCEPT ![n].config = "own"]
                \/ home' = [home EXCEPT ![n].private = ~@]
        /\ UNCHANGED <<config, offers, fileStore>>
  /\ UNCHANGED <<auth, locks, job, ghosts>>

Prepare(p) ==
  \/ EnsureProfileDir(p) \/ Check(p) \/ MakeHome(p) \/ LinkConfig(p) \/ BeginGuidance(p)
  \/ ReconcileGuidance(p) \/ GuidanceDone(p) \/ ReconcileSkill(p) \/ Swap(p)
  \/ RemoveStale(p) \/ StaleDone(p) \/ FillSkill(p) \/ Prepared(p)

(* The steps a command takes by itself, in bounded time.                    *)
Step(p) ==
  \/ Lock(p) \/ Initialize(p) \/ Load(p) \/ TryBeat(p) \/ NextProfile(p) \/ Prepare(p) \/ Save(p)
  \/ CheckReady(p) \/ Secure(p) \/ LoginStatus(p) \/ Beat(p) \/ Pause(p)
  \/ Select(p) \/ Recheck(p) \/ Announce(p)

Next ==
  \/ \E p \in Processes :
       \/ Start(p) \/ Step(p) \/ CodexLogin(p) \/ CodexEnds(p)
       \/ Fail(p) \/ Killed(p)
  \/ Edit

(* The system runs a process that can run; flock hands a free lock on, and  *)
(* the calls of codex behind Step are bounded by timeouts.                  *)
Fairness == \A p \in Processes : WF_vars(Step(p))
Spec == Init /\ [][Next]_vars /\ Fairness

-----------------------------------------------------------------------------
(* Properties.                                                              *)

(* A profile that was reported as added stays recorded, with its home and   *)
(* its config, whichever commands run, fail and die.                        *)
AddedStays ==
  \A n \in added : n \in config.profiles /\ home[n].made /\ home[n].config # "none"

(* A prepared home has the links of one policy and never a mixture of two:  *)
(* preparations of several commands do not interleave.  Files of the user   *)
(* stand where a link would.                                                *)
LinksFollowOnePolicy ==
  lock = Free => \A n \in Names :
    /\ \A g \in DOMAIN settled[n].guidance : home[n].guidance[g] \in settled[n].guidance[g]
    /\ \A s \in DOMAIN settled[n].skills : home[n].skills[s] \in settled[n].skills[s]

(* Codex runs on the account that the order of accounts promises, and on    *)
(* the one that was announced to the caller.                                *)
RunsOnThePromisedAccount ==
  \A p \in Processes : At(p, "run") =>
    job[p].sound /\ job[p].announced \in {NoName, job[p].account}

(* Every command ends or is left to codex: nobody waits for a lock forever, *)
(* also when another one hangs in a login or was killed.                    *)
CommandsEnd ==
  \A p \in Processes :
    job[p].at \notin {"idle", "done"} ~> job[p].at \in {"done", "login", "run"}
=============================================================================
