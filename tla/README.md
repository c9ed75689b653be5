# Verification of multicodex

TLA+ models of multicodex, the TLC runs that check them on small instances and
the TLAPS proofs of their most important properties.  Every definition is
translated from the Go source; `PROJECT.json` ("map") names the lines each one
stands for.

## The system

multicodex runs the Codex CLI under several profiles.  It has two halves: an
*editor* that keeps projects, workspaces (some of them Git worktrees) and
terminal windows (tmux sessions) on a local and on remote hosts, and a *monitor*
with the commands around it, which select a profile, read the usage of its
account and start Codex.

| Part | State it keeps | Operations | Hard behaviour | What makes it correct |
|---|---|---|---|---|
| Host registry (`editor/host_store.go`, `types.go`) | one JSON file of projects, workspaces and windows with pending flags; a lifecycle lock, a registry lock | load, validate, update under a lock | a write that reports an error after its rename; two host processes; death between two writes | every outside resource has a record before it exists and until it is gone |
| Window operations (`host_service.go`) | tmux sessions and their ownership variables | create, open, delete, cascade, roll back, reconcile, clean up | each is several calls with a registry write between; each call may fail after its effect; shells end and tmux goes away at any time | no session is forgotten, an unconfirmed deletion kills only what it saw dead, no worktree goes while a terminal of it is recorded, interrupted operations settle |
| Worktree operations (`host_service.go`) | a worktree, the lock on it, its initial branch | create, lock, migrate, assess the risk, unlock, remove, delete the branch, recover | the same, with people working in the repository between any two calls | no commit or file is lost without consent, locks of others that it sees hold, a workspace in use is locked, interrupted operations settle |
| Adoption (`host_service.go`) | markers on a tmux session the user owns, the preserved workspace | adopt, roll back, release, remove, reconcile | several editor instances mark the same session, three calls each | no marker without a record; nobody touches the markers of another |
| Attachments (`attachments.go`, `host_service.go`) | a temporary file and its record | upload, roll back, remove, expire | death between the file and its record | no file without a record; a finished one goes only with age or its target |
| Host protocol (`protocol.go`) | a client process, its pipes, the call gate | call, cancel, close; the loop of the server | a cancelled call whose answer is still on its way | an answer reaches the call that asked for it |
| Host manager (`manager.go`, `state.go`) | one client per host, clients being started, the instance lock, the list of hosts | start, drop, refresh, add, remove, close | several goroutines start, drop and close at once | at most one client per host, none left after a close |
| Editor screen (`editor/tui.go`, `terminal.go`) | the model on screen, commands under way, the attached terminal | key handling, commands and their results | results that arrive after the state they were asked for | no attached process is left behind; the last request wins; exited windows go |
| App-server client (`codexappserver`) | pending requests, bounded queues, the child process | start, request, notify, generate, close | three goroutines and the callers, full channels, a child that dies or goes on talking | an answer is whole or an error, and every generation ends |
| Usage fetcher (`monitor/usage/fetcher.go`, `appserver.go`, `accounts.go`, `oauth.go`) | sessions and stale data per account | fetch all, refresh, fall back, reset | concurrent fetches, answers that fail for some accounts | data of one account is never shown for another |
| Selection (`monitor/usage/select.go`) | none | choose an account | ties, missing windows | the choice satisfies its own order |
| Observed tokens (`observed_tokens.go`) | cached sums, refreshes under way | estimate, refresh, retain, close | a refresh that ends after its home was dropped | a dropped home does not come back |
| Monitor screen (`monitor/tui`) | last data, running fetches | update, merge, stop | a stop while a fetch runs | stopping waits for what it tracks |
| Configuration and profiles (`multicodex/config.go`, `app.go`, `reconcile.go`) | config.json, its lock, profile homes | init, add, reconcile, login, prepare | several commands at once, killed half way, edits in between | no added profile is lost; preparations do not mix |
| Shared resources (`resources.go`) | links from profile homes | plan, link, replace, remove | a step of several fails, a policy that changed | a prepared home has the links of one policy |
| Heartbeat (`heartbeat.go`) | a lock file, retries | run, retry | a wait for config.lock under heartbeat.lock | nobody waits forever |
| Exec, cli, generate (`exec.go`, `cli.go`, `generate.go`) | none of their own | prepare all, select, check, announce, run | the profile changes between selection and run | Codex runs on the promised and announced account |

The screen calls the manager; the manager keeps one protocol client per host,
which is a child process (over SSH for a remote host) that runs the host
service; the host service shares its registry directory and its tmux server
with every other host process of the same instance.  The monitor and the
commands meet in the profile homes and in the usage fetcher.  A generation talks to a
`codex app-server` child over its pipes.

## Modules

| Module | Models | Run by |
|---|---|---|
| `OwnedResource` | abstract: what the registry promises about a resource the editor makes | as a property of the two below |
| `WindowLifecycle` | windows, their sessions, the workspaces that hold them, several host processes | `MCWindowLifecycle` |
| `WindowLifecycleProofs` | its theorems | `tlapm` |
| `WorktreeLifecycle` | the worktree, lock and branch of a workspace, call by call | `MCWorktreeLifecycle` |
| `WorktreeLifecycleProofs` | its theorems | `tlapm` |
| `HostRecords` | adopted sessions, the preserved workspace, attachments | `MCHostRecords` |
| `HostRecordsProofs` | its theorems | `tlapm` |
| `HostConnection` | the connections of an editor to its hosts: protocol, client and manager | `MCHostConnection` |
| `HostConnectionProofs` | its theorems | `tlapm` |
| `EditorScreen` | the event loop of the editor, its commands and the attached terminal | `MCEditorScreen` |
| `EditorScreenProofs` | its theorems | `tlapm` |
| `AppServerClient` | the client of one `codex app-server` child | through `Generation` |
| `Generation` | one `multicodex generate` over that client, and the child | `MCGeneration` |
| `GenerationProofs` | its theorems | `tlapm` |
| `AccountSelection` | the choice of an account, and the order that is promised (operators only) | through `Profiles` |
| `AccountSelectionProofs` | the choice keeps the promise | `tlapm` |
| `ProfileHomes` | what a policy makes of a profile home (operators only) | through `Profiles` |
| `Profiles` | the commands that share config.json, the profile homes and two lock files | `MCProfiles` |
| `ProfilesProofs` | codex runs on the promised account; added profiles stay; one policy per home | `tlapm` |

### WindowLifecycle

One registry record per window (`windowRec`) and per workspace
(`workspaceRec`).  `validateRegistry` refuses a record with both pending flags,
so one field holds them, and the operation that would write both (`Intend` of a
window whose creation is pending) takes the error path instead.  `session` is
what `inspectSession` reports of the tmux session: absent, owned with a live
or a dead pane, or altered (a second pane or window, changed ownership
variables).  `lifecycle` is the holder of `lifecycle.lock`; `job[p]` is the
operation process `p` is in and the stage it has reached, with the windows and
workspaces it still has to visit.

One action is one call or one registry write, with the reads before it that
decide what to do: `Check` is an inspection, `Intend` a registry write, `Kill` is
`killOwnedSession` with the ownership check it starts with.  The operations share
their stages as the code shares its functions: `deleteWindow` is reached from a
request, from the cascade of `deleteWorkspace` and from `cleanup`, and
`AfterWindow` says where each of them goes on.  `Then` lets every call whose
effect took place report an error all the same (a deadline; the directory sync
that follows the rename of a registry write), `CallFails` lets it fail without an
effect, `Crash` ends the process anywhere.  These, `ServerLost` and `Alter` share
the bound `MaxFaults`; a shell that ends, or an alteration undone, is free.

The Git part of a deletion's risk is open here (`Risk` may return any verdict for
a Git workspace) and one call of `removeGitWorktree` is one step; both are
detailed in `WorktreeLifecycle`.  `Kill` asks again who owns the session and not whether its
pane is dead, as the code does; between the two inspections of a deletion and its kill somebody
may start a dead pane again (`Respawn`, for the windows in `Respawnable`).  Which windows and plain workspaces a cleanup
considers stale is open too (it depends on ages).

### WorktreeLifecycle

`record` and `recorded` are the pending flags and `WorktreeLocked` of a
workspace; `git` is what the repository says: the directory, the registration of
the worktree and who locked it, what it has checked out, whether it has modified,
untracked or ignored files, how many commits the initial branch has and how many of
them are in a base.  Each git call that changes the repository is an action.
`git worktree add` and `git worktree remove` may be killed half way and leave
what git leaves then: a branch without worktree, a worktree under git's own
lock, a registration without directory, a directory that is no worktree.  A look at
the lock and the `git worktree unlock` that follows it are two steps, and the unlock
(`UnlockTree`) takes any lock, whoever put it there.

The lifecycle lock is abstracted to one operation at a time (`op`), which
`WindowLifecycle` justifies.  The people who work in the repository are actions
of the environment: they edit, commit, merge, switch, check the branch out
elsewhere, delete it, damage or move the directory, lock the worktree and prune.
A workspace may have been made by an older version (`Legacy`); then its lock is
not recorded and `Migrate` takes it.

### HostConnection

An actor is a goroutine: a worker that runs one request of the screen (a refresh,
an action on the host's shared connection, a cleanup or an added host on a
connection of its own), or the one that runs `Manager.Close`.  `clients` and
`starting` are the manager's maps, `known` the saved hosts, `socket` the client whose
SSH control socket is at the host's path; a section under the manager's mutex is
one step.  `conn[c]` is a connection process with its pipe and its call gate, and
with what is on the way: the request written, the one the host executes, the
answer written.  These carry the call they belong to, which becomes `Stale` once
that call has given up; this replaces request numbers, whose only use is to tell
the waiting call from earlier ones.

`GiveUp` to `Watch` are `HostClient.Call`, and `Return` is what the caller does with
its result: only a refresh drops a client, and only for a transport error.
`Serve`, `Answer` and `HostEnds` are the loop of the host, `Break` a connection that is
lost or hangs.  `Client`, `Await`, `Start`, `Hello`, `Register` and `Failed` are
`Manager.client`; `Shutdown`, `StartsDone`, `CloseNext` and `Closed` are
`Manager.Close`, in the order in which it waits.  `Reopen` is the next `NewManager`, in
whose presence workers of the editor before may still be closing what they
dropped: the screen waits for them only after `Manager.Close`.

Abstracted: the deadlines (`Expire` may come at any time, except in the queue of a
gate whose holder has only to write, which takes no seconds), the contents of
messages, the SSH session that several processes multiplex.  Hosts are remote:
the local one has no control socket and is otherwise the same.

### HostRecords

`window[i][s]` is instance `i`'s record of the session `s` it adopted, `space[i]` the
preserved workspace that holds such windows, `terminal[i]` the project's terminal, `file`
the attachments; `disk`, `session` and `marks` are what is really there.  The three
environment variables that mark a session are set and unset by a call each (`keys` are
those still to do).  `op` is the holder of the lifecycle lock, which all instances of
one home share; instances of *different* homes share the tmux server without a common
lock, and for them `ForeignMarkersHold` is not claimed.  Operations are adoption with its
rollback, release, the removal of the preserved workspace with its windows and files,
upload with its rollback, opening and closing the terminal, reconciliation and cleanup.
Any call may fail before or after its effect and the host may be killed between any two.

### EditorScreen

One handler of the event loop is one step.  `refresh`, `cleanup`, `removal`, `action` and
`attach` are the commands of each kind: asked for, run on the host at some moment,
answered and handled in any order with the others.  `shown` and `offline` are what the
screen believes, `host` what is true.  `attached` is the terminal on the screen, `queued` the
window to attach after the one under way, `terminal` the attached processes, `dialog`
what covers the screen, `stage` the way out (`Quit`, the manager's close, the workers).
`wanted` and `failed` are history.

`fits` says whether the screen is large enough to show a terminal (`m.layout().fits()`); `Resize`
changes it at any time, and a refresh attaches nothing while it is false.

Left out: all other geometry, the size a terminal is told, the focus, the highlighted row and the row to select
on refresh, the copy view, the usage rows, the slots; rows of projects and workspaces
(their actions are `other`).  The emulator and the input queue of a terminal with their
locks are not modelled.

### AppServerClient and Generation

`AppServerClient` has the three goroutines of the client and the callers: `writes` is the
bounded queue of the writer, `pending` and `answer` the table of requests, `events` the
bounded channel that the reader fills, `stopping` and `done` the two channels of the
teardown, `Fail` the teardown itself.  The code's `fail` holds the client's mutex only for
its first lines; it is one step here because all the others can see of its middle is a channel or
a pipe that they would find closed a moment later.
`Generation` adds `Generate`: the inspection and the catalog, the start, the handshake, then
the goroutine that asks for the turn beside the one that reads the stream, and what
is deferred.  Its child reads, answers, refuses, announces text, searches, forbidden items
and the end, asks for something itself, and dies, as it likes.  A request is named by
its method, since each is asked once.  Text is counted in pieces.  A completed turn is
announced only after the turn was accepted, and nothing follows a request of the child,
because the client ends on it.

Left out: the contents of the catalog and of the configuration (each check's
outcome is free), the writing of JSON, a client that does not capture events, a
process group that outlives its leader.  The catalog commands are taken to end: `runBounded`
(`catalog.go:248`) kills the process at its deadline, and a descendant that keeps its
output open would hold the command up.

### Profiles, ProfileHomes and AccountSelection

A command is a process with a program counter (`job[p].at`).  Shared: `config` (config.json),
`home` (per profile: the kind of config.toml, the two guidance positions and the skill
positions, each holding nothing, a file of the user or a link to a source), `auth`, the two
locks, `offers` (what the source directories have), `fileStore` (the default config).
`init`, `add` and `reconcile` keep config.lock from their first step to their last (`Keeps`); all
others read config.json without it and take it for one profile at a time.  A pass over
links is one step per position; replacing a link is two (stage, rename), reading a
position and acting on it is one.  `Fail` gives the error path of each step, `Killed` ends a
process and frees its locks, `Edit` is what people do to the policy, the sources, the
credential store and the files of a home.

`AccountSelection` has the passes of `select.go` over sets of accounts, and `Promised`, the order that the
documentation gives; `Select` runs the first on every measurement of the instance and
records the verdict of the second.  `DefaultPriority` is the code's 100: the default account is
the only one with a priority of its own.  That account is always among the candidates here:
the default home is taken to be set and to be no profile's own, where the code leaves it
out (`exec.go:231`).  `ProfileHomes` has the policies and their effect.

Left out: the checks of paths, owners and permissions are one flag (`private`); the mode
changes of the base directories, and the errors that securing them may give;
a default skills directory that does not exist; links that cannot be resolved, which fall
under `Fail`; the exit status of a heartbeat that found nobody logged in.

### OwnedResource

For each resource: the record goes from none to create-pending before the
resource is made, to ready, to delete-pending and back or to none once the
resource is gone; record and resource never change in one step.  `WindowLifecycle` and
`WorktreeLifecycle` implement it, windows with `exists` being "the session is there",
workspaces with "the directory is there".

## Runs

| Run | Bounds | Result |
|---|---|---|
| `window_lifecycle` | 2 processes, a window in a Git workspace whose pane may be respawned, the project terminal, a plain workspace, 2 faults | all safety properties and the refinement hold; interrupted creations and deletions settle |
| `window_cascade` | 2 processes, 1 window, 1 fault | counterexample to `CreationsSettle` |
| `window_respawn` | 2 processes, 1 window whose pane may be respawned, no faults | counterexample to `UnforcedKillSparesLive` |
| `worktree_lifecycle` | 1 workspace from an older version, made anew later, 2 commits, 2 faults | all safety and liveness properties and the refinement hold |
| `worktree_half_removed` | 1 workspace, 1 fault | counterexample to `DeletionsSettle` |
| `worktree_foreign_lock` | 1 workspace, no faults | counterexample to `ForeignLocksHold` |
| `host_records` | 2 instances, 1 session, 1 attachment, 1 fault | markers and files always have a record, foreign markers hold, a cleanup settles the rest |
| `host_connection` | 1 host, a refreshing worker and one for actions and added hosts, 3 connections, 1 fault | all safety properties hold; hosts are reached again, requests and the close end |
| `editor_screen` | 2 windows (one still to be created), 2 terminals, 2 requests of the user, no faults | no process is left behind the screen, the last request wins |
| `screen_liveness` | the same with 1 request, 1 fault, uploads instead of forms | the screen finds a terminal again, exited windows go |
| `generation` | queue and event channel of 1 place, 3 events, web search on | the answer is whole, nothing is left behind, the command ends |
| `profiles` | 2 commands, 2 profiles, 4 policies, 2 guidance names, 1 skill and a staged name, 1 edit, 1 fault, 1 retry | no profile is lost, no home mixes policies, the promised account, nobody waits forever |

Why these bounds are enough.  Windows interact only through the workspace that
holds them and through the loops over them.  A window of a workspace and a project
terminal are what a cleanup goes over, one after the other, and the cascade has one window to
delete; that several windows of one workspace change nothing about safety is what the proofs
show, which take any number.  Two processes give
every order of holders of the lock.  Two faults give a failure in an operation
and another one in its rollback or recovery, which is the depth the code itself
handles.  One workspace is enough on the Git side, because operations run one at
a time and share no Git state; deletion and re-creation of it give the sequences.
A branch with one commit of its own beyond its base distinguishes everything the
code asks about commits.  The manager's state is kept per host, so one host is enough;
the screen runs one refresh and one other request at a time per host in its usual
state, and the third connection lets a start overlap with one being dropped and one
used alone.  An added host has a connection of its own as a cleanup has; the cleanup itself
is not among the worker's requests here (with it, the run that also checks
liveness takes too long), but the proofs cover every duty.  Two instances are enough for contention over a
session, and only the first keeps files, since files belong to one instance.  Two windows give
the screen a window to leave and one to go to; the hourly cleanup counts as a request of the
user.  Channels of one place are full where those of the code (8 and 256) are full after
more messages of the same kind.  Two commands give every pair of lock holders; the first is
any command, the second one of the four that change or wait the most.  The one existing
profile starts prepared under the richest policy, from which every other policy has links
to remove, to replace and to keep.  Measurements are unread, used up, without a known end,
at their end, before it, and of another model.

Fairness.  `WF` on the steps of a running operation: its calls carry deadlines,
and a dead process has no operation.  `SF` on `Cleanup`: the lifecycle lock is
polled every 25 ms and the screen asks for a cleanup at startup and every hour, so
a cleanup that is enabled again and again is run.  Nothing is assumed of users,
shells, people in the repository or faults.  For connections: `WF` on every
goroutine, on the close and on a host that does not hang; `SF` on `TakeGate`, because
a Go channel serves its waiters in order, and on `Expire`, because deadlines
pass; `WF` on the refresh, which the screen asks for every two seconds.  A host that
hangs owes nothing.  For host records: `WF` on the steps of the running operation and `SF`
on each instance's hourly cleanup.  For the screen: `WF` on the loop's handling of every
answer, on every command (each has a deadline), on the timer of the refresh and on the way
out; nothing of the user or of shells.  For a generation: `WF` on the goroutines, and on the
expiry of the handshake; nothing of the child, of signals, nor of a write into the child's
full pipe; `Close`'s own two-second timer is not needed.  For the commands: `WF` on
the steps a process takes by itself, which contain flock (the kernel hands a free lock
on) and calls of codex that carry timeouts (60 s for a heartbeat, the timeout of a login
status, 10 s for the selection); nothing of `codex login` and of codex itself, of people
and of faults.

Deadlock is checked in the runs of the host and of its connections.  The screen, a
generation and the commands end, so their runs say `CHECK_DEADLOCK FALSE`; that they
end, and do not stop before, is `Ends`, `CommandsEnd` and the liveness of the screen.

## What disagrees

* `window_cascade`: the record of an interrupted creation in a workspace that is
  then deleted is settled by nothing: reconciliation skips it because its
  workspace is not ready, and the deletion of the window is refused because the
  record cannot carry both flags.
* `window_respawn`: `killOwnedSession` checks ownership again, but not that the pane is dead: a
  pane that is respawned after the second inspection of a deletion without force, such as
  the automatic removal of an exited terminal, is killed live, although `docs/command-spec.md:247`
  says that a process that became live again is not removed.  What holds is
  `KillsOnlyWhatItSawDead`.
* `worktree_foreign_lock`: the lock is compared in one call and taken off by another, which takes
  any: a lock that somebody puts in the place of the editor's in between is taken off and the
  worktree removed, although `docs/security-and-privacy.md:32` requires the recorded reason and says
  that uncertainty stops a deletion.  What holds is `SeenForeignLocksHold`.
* `worktree_half_removed`: `git worktree remove` killed between directory and
  registration leaves an unlocked registration, which every retry refuses.

Met while modelling, without a run of their own:

* A cleanup that resumes an interrupted deletion removes a worktree, with ignored
  files written after the check; `docs/decisions.md` says an automatic cleanup never
  removes one.
* Two faults in one creation (the final write reports an error after its effect, and the
  rollback is cut short after the unlock) leave a ready workspace with an unlocked
  worktree, which is why `ReadyMeansLocked` speaks of steps.
* One older workspace that cannot be locked ends every cleanup and snapshot, which is
  why the liveness properties except it (`Migratable`); no property covers this hazard.
* While the screen is too small the editor attaches nothing by itself, so `Reattaches` excepts it.
* A further case of `window_cascade`: a window adopted into a preserved workspace whose
  removal is pending, or whose own adoption is, is settled by nothing (`Blocked` in
  `HostRecords`).
* Moving back to the attached window with the arrows (`openSelectedWindowFromSidebar`,
  `tui.go:1734`) leaves a window that is queued or on its way in place, and the screen goes
  there; Enter on the same row (`selectCurrentRow`, `tui.go:1715`) takes it back.
  `LastRequestWins` excepts the move (`wanted.back`).
* An automatic removal that fails once is not tried again until its host was lost or the
  window came back; `ExitedAreRemoved` excepts it.  A second upload may overwrite the path that
  waits to be pasted.
* The rename that replaces a link replaces whatever is at the name by then: a file that the
  user puts there after the inspection is lost, although `README.md:119` says that regular files
  are never removed.
* A replacement killed between staging and rename leaves the staged link.  The next
  pass over explicit skills removes it; the passes over guidance and default skills do
  not look at it, which is why `LinksLeft` excepts it.
* Commands that lock each profile by itself use the policy they read before; started
  before an edit they may apply the old policy after a reconcile has applied the new one.
  An edit of config.json by hand between the read and the write of `add` is lost.
* When `profile_resources` is taken out while links lead outside the default skills, every
  preparation fails, as `README.md:126` says.
* `login` secures an open auth.json before it logs in, but its readiness check has refused
  open permissions by then.  A heartbeat that is killed leaves its codex child behind while
  its lock is free.

## Proofs

`WindowLifecycleProofs` proves for every set of processes, windows and
workspaces, every assignment of windows to workspaces and any number of faults:

* `TypeCorrect`, `OwnershipIsNeverForgotten`, `WorktreesOutliveTerminals`,
  `IntentPrecedesKill`: the four invariants that `window_lifecycle` checks;
* `OnlyTheDeadAreKilled`: the action property `KillsOnlyWhatItSawDead`;
* `WindowsAreOwnedResources`: the refinement of `OwnedResource`.

From these assumptions on the constants: a window belongs to a workspace or to the
project, the project is no workspace, `None` is nothing else, Git workspaces are
workspaces, the bound on faults is a number.

None of the invariants is inductive alone: that `Drop` keeps
`SessionsAreRecorded` needs that the session is gone when an operation reaches
`drop`, and that needs to survive what other processes do in between.  The
inductive invariant `IInv` therefore says what an operation may rely on at each
stage (`JobInv`): for example "at `drop` the session is absent", "at `check2` the
record is delete-pending", "at `removeTree` the workspace has no recorded window",
"what is still to visit is recorded".  It holds across steps of others because
only the holder of the lifecycle lock has an operation (`LockInv`), so the only
interference is the environment's, which can end a session and never make one.
The lemma `AfterJob` reduces each step to the operation it leaves behind;
`FailJob` treats all error paths at once, since they lead to stages that claim
little.  There is one lemma per action, and `Inductive` combines them.

`UnforcedKillSparesLive` does not hold (`window_respawn`).  What the code gives is proved with any
windows respawnable: an unconfirmed deletion enters its kill only from an inspection that finds
the pane dead with the intent on disk (`SeesItDead`), and the pane it then kills is not live, or is one of
`Respawnable`.  A second invariant, `Spares`, says that a
recovery has no force and that the session an unconfirmed kill is about is down unless it may be respawned; the
only steps to a kill are `Check`, which has just seen it dead, and `Rollback` of a creation
(`AdvanceQuiet`), and what is down is otherwise started by a spawn, which needs the lock.

`WorktreeLifecycleProofs` proves for any workspaces, any bound on commits and any number
of faults `TypeCorrect`, the refinement of `OwnedResource` (`FollowsTheProtocol`), and the four action
properties of `worktree_lifecycle`: `ComesBackLocked`, `SeenLocksOfOthersHold`, `NothingUnsavedIsLost`
and `RecordLast`; from the refinement, `WorktreesAreRecorded`: a directory is never there without a
record.  The inductive invariant is `TypeOK /\ OpOK`: what the one running operation may
take for granted of its workspace while it creates it (`CreationOK`), deletes it (`DeletionOK`),
decides about its branch (`BranchOK`), knows of its commits (`SeenOK`) and sweeps (`SweepOK`).  It
must survive people, who work in the repository between two steps: they cannot touch a
worktree before its creation is over, they commit on top of what was seen, they may
put their own lock in the place of the editor's, and prune only an entry that is free (`OnlyPeople`;
`PeopleEffect` has what they do to a directory).  Each action has one lemma for its effect and one
for the invariant.  The effects are summed up in `Handled` and `Written`, which bound what any step
of an operation may do to a worktree and to a record; the action properties and the refinement follow from
these two and `PeopleEffect`.  A workspace comes back locked because its creation locks before it
commits, a deletion relocks before it looks at the risk, and a recovery locks what it keeps.
Unsaved work survives because a branch is deleted at the commit where it was seen to hold
nothing of its own.  Locks of others hold up to one step: an operation goes to its unlock only from
a check that saw the editor's own lock, and only that step can meet a lock put there since.  Assumed: `Legacy` is a set of workspaces, `None` is none, `MaxTip` is a number above 0.
TLC checks this invariant, too, on the instance of `worktree_lifecycle`.

`HostRecordsProofs` proves `NoMarkerForgotten`, `NoFileForgotten`, `MarkersOfOthersHold` and
`FinishedFilesStay`, for any instances, sessions and attachments.  That a record may go needs
that its marker or file is gone, and what an operation is going to drop is collected
several steps, calls and failures before: `OpBase` has what the lock keeps for a whole operation
(what is to be dropped is unmarked, untouched and off the disk), `OpStage` what holds at one stage, and
`GoneIsUnmarked` that a session that ended takes its markers with it.  The lock keeps other
operations out; people at a session only take markers away.  Assumed: every file belongs to
an instance (`OwnerAssumption`), those who act are instances (`UserAssumption`), instances, sessions
and files are different things (`KindAssumption`), `None` is none of them.

`HostConnectionProofs` proves the five invariants of `host_connection`, for any hosts,
workers with any duties, and connections: `TypeCorrect`, `OwnAnswers`, `NoLeak`, `OnePerHost`, `CleanClose`.
The invariant has a part per thing the code relies on.  `JobsOK`: what a request may
assume at its stage.  `StartsOK`: a host's first connection is made by one goroutine.  `GatesOK`: the holder of
a call gate is the one with a call under way, and a gate is given up only with
nothing under way or with the process gone, from which `OwnAnswers` follows.  `OwnersOK`: a connection
that nobody shares is one goroutine's alone.  `MapOK`: what the map of clients and the list of
`Close` hold.  `ManagerOK`: what each stage of `Close` has already ended, so that its last one has
ended all (`ClosedEmpty`).  `NothingLeaks` is inductive only with all of them, since a process
passes from its starter to the map, from the map to `Close` or to the goroutine
that drops it.  Assumed: workers have duties, the closer is no worker, the sentinels are
different from connections and actors.

`EditorScreenProofs` proves `NothingBehindTheScreen` and `LatestWins`, for any windows, terminals, requests
and faults.  Both come from one fact: an attach under way is the only holder of the
terminal it opened, which is neither on the screen nor another one's (`TerminalsOK`), and a
window that waits for its turn waits only for that attach's answer (`AttachOK`).  `Named` adds
that what is asked of a host is about a window.

`GenerationProofs` proves `WholeAnswer` and `CleanReturn`, for any number of events and channels of any
size.  `AnswerIsWhole` compares the text written with what the child said; what connects them is
one order through the whole way of an event: the pieces in the child's pipe, the one in the reader's hand,
those in the channel and the text written are consecutive (`StreamOK`).  Whatever
the teardown drops is the end of that sequence, so the text is always a
prefix, and a completed turn that was accepted comes after all of it.  `ChildOK` and `TurnOK` have what
the stages of the child, of the client and of the turn say of each other.  The module
relies on the protocol's vocabulary as the code has it: `GenerationAssumption`
fixes the callers, the requests and the notices, and `ClientAssumption` the sizes.

`AccountSelectionProofs` proves `ChoicesKeepThePromise`: for any set of accounts and any
measurement, every account that the passes may choose is one that the documented
order allows.  The code goes through priorities and compares resets within one, with the
unknown resets last and the reserve as a fallback; the promise compares one
account with all others.  What links them: nothing blocks a profile (`UsableAreCandidates`),
and a profile with room blocks the reserve (`UsableBlockTheRest`), so that while there is one the
candidates are the profiles with room and their priority is the best; a pass over a nonempty set finds one,
because the times until a reset are numbers and have a least (`SetHasLeast`, from the library's
theorem that `<` is well-founded on the naturals).  Without such a profile all that is left has
a priority above 0.  Assumed: the priority of the default account is a number above 0.

`ProfilesProofs` proves `CodexRunsOnThePromisedAccount`, the invariant
`RunsOnThePromisedAccount` of the run `profiles`, for any processes, commands, profiles,
policies, measurements and any number of edits and faults.  The invariant alone is
not inductive: that what is announced is what codex runs on needs that nothing was announced before
the choice.  `HonestJobs` adds this, and that every choice so far was a promised one.  Every
step but `Announce` is `Quiet`: it changes one command and announces nothing (one lemma for the
updates, one each for starting, preparing, using, choosing and trouble); `Select` is quiet by
`ChoicesKeepThePromise`.  Assumed besides the above: measurements are well-formed records
(`MeasurementsAssumption`).

It also proves `AddedForGood` and `OnePolicyPerHome`, the invariants `AddedStays` and
`LinksFollowOnePolicy`.  Their inductive invariant speaks of each command by itself (`CommandOK`)
and of the shared files (`SharedOK`).  Whoever prepares a home under the lock or saves config.json holds
config.lock (`HoldsLock`); the configuration that an `add` is about to write has all profiles added so far
and the home of the new one is made (`AddOK`); in a pass over a home, every
position that is no longer to be visited has the link the policy wants or a file of a
user, and a home in somebody's hands counts as not settled (`Wanted`, `Placed`).  A command without the lock relies
on nothing that others change (`OthersStay`), and people only put their own files (`Touched`).  Assumed:
`PoliciesAssumption` and `CommandsAssumption`; the existing profiles are profiles and the
sentinels are not (`NamesOfProfiles`); the positions are named by two sequences, and the
first skill name is the staged one, which is no guidance name (`NamesAssumption`).

What the proofs changed in the models.  A `CASE` with guards that overlap means any of its
values, so `HostRecords` has `IF` there now, in the order of the code's tests.  The pass over
skills in `Profiles` went over a filtered sequence; that a filter leaves no unwanted position behind is an
induction over sequences, so it now goes over all positions and leaves those alone where nothing is wanted.

Model-checked only, and why.  Everything under fairness (`CreationsSettleInReadySpace`, `DeletionsSettle`,
`RecordsSettle`, `Reconnects`, `RequestsEnd`, `CloseEnds`, `Reattaches`, `ExitedAreRemoved`, `Ends`,
`CommandsEnd`, and the liveness of worktrees): `WF`, `SF` and `ENABLED` are out of the prover's
reach.  The four counterexamples.  What a recursive definition yields for every
input, of which nothing here is needed any more.  Every other property that a run checks is a theorem.

## What is not modelled

* The control socket of a newer connection: `dropClient` takes its client out of the
  map, closes it and then removes the socket at the host's path, which a client
  started in between shares.  `Sweep` models it; no property forbids it, because the
  code gives no order and the next start makes the socket anew.
* Git commands that outlive their killed host process, and people who remove the
  lock the editor put on a worktree without putting their own.
* The usage fetcher, its accounts, sources and stale data, the observed tokens, OAuth and
  the monitor's screen: the selection takes any measurement instead.
* Removing and renaming hosts, renames of windows and workspaces, the saved selection,
  requests made of several calls.
* The contents of messages, names, paths and files; drawing, help, completion,
  diagnostics; generated code.
* What each section under "Modules" leaves out, and the components with status
  `not_modelled` in `PROJECT.json`, each with its reason.

## Plan

1. Done: the host's windows and worktrees, their abstract protocol, the proofs
   about windows and about the choice of an account; protocol client and manager;
   adoption and attachments; the editor's event loop; the app-server client with a
   generation; the profiles with heartbeat, exec and the selection.
2. Done: proofs of every invariant and every action property without fairness, for windows,
   worktrees, records, connections, the screen, generations and profiles; both refinements.
3. Models: the usage fetcher with its fallbacks and stale data, the observed
   tokens, the monitor's message loop.
4. Proofs: facts about these when they are modelled; until then, what the invariants say in
   passing and a reader would want by name (`LockInv`, `HoldsLock`, `GatesOK`).
