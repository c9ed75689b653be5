-------------------------- MODULE WindowLifecycle --------------------------
(***************************************************************************)
(* The editor-created terminal windows of one editor instance on one host: *)
(* their registry records, their tmux sessions, the workspaces that hold   *)
(* them, and the host processes that create, open, delete, reconcile and   *)
(* clean them (internal/editor/host_service.go, host_store.go).            *)
(*                                                                         *)
(* Every operation here runs under the lifecycle lock, writes its intent   *)
(* to the registry, acts on tmux or Git, and writes the registry again.    *)
(* Between any two of those steps the process may die, tmux may refuse or  *)
(* time out, a shell may exit, the tmux server may disappear and somebody  *)
(* may alter a session.  The registry lock makes each registry write one   *)
(* step.  Adopted sessions and the Git side of a workspace have modules of *)
(* their own.                                                              *)
(***************************************************************************)
EXTENDS Naturals, FiniteSets

CONSTANTS
  Procs,          \* host processes that serve this instance's registry
  Windows,        \* window identifiers (newID)
  Workspaces,     \* workspace identifiers
  GitWorkspaces,  \* those with an editor-owned worktree
  Home,           \* the workspace of a window, or Project for a project terminal
  Project,        \* the one project whose terminal is modelled
  None,           \* no process, no window, no workspace
  MaxFaults,      \* bound: crashes, failed calls and outside interference
  Requests,       \* the requests users make in a run
  Respawnable     \* windows whose dead pane somebody may start again

ASSUME HomeAssumption == Home \in [Windows -> Workspaces \cup {Project}]
ASSUME ProjectAssumption == Project \notin Workspaces
ASSUME NoneAssumption == None \notin Procs \cup Windows \cup Workspaces
ASSUME GitAssumption == GitWorkspaces \subseteq Workspaces
ASSUME FaultAssumption == MaxFaults \in Nat

VARIABLES
  windowRec,     \* registry: one record per window
  workspaceRec,  \* registry: one record per workspace
  session,       \* the tmux session named mce-<window>
  tree,          \* the directory of a workspace exists
  lifecycle,     \* holder of host/lifecycle.lock
  job,           \* the operation each process is executing
  faults         \* faults so far

registry == <<windowRec, workspaceRec>>
vars == <<windowRec, workspaceRec, session, tree, lifecycle, job, faults>>

-----------------------------------------------------------------------------
(* Types.  A record with both pending flags is refused by validateRegistry, *)
(* so one field holds them.                                                 *)

WindowStates == {"none", "createPending", "ready", "deletePending"}
WorkspaceStates == {"none", "ready", "deletePending"}
SessionStates == {"absent", "live", "dead", "alteredLive", "alteredDead"}
Stages == {"idle", "reopen", "spawn", "verify", "commit", "rollback",
           "check1", "intend", "check2", "kill", "drop",
           "risk", "markSpace", "nextWindow", "confirm", "removeTree",
           "dropSpace", "unwind", "reconcile", "nextSpace"}
Jobs == [at : Stages,
         req : {"none", "create", "open", "delete", "deleteSpace", "cleanup"},
         win : Windows \cup {None},
         space : Workspaces \cup {None},
         todo : SUBSET Windows,
         spaces : SUBSET Workspaces,
         force : BOOLEAN]

Idle == [at |-> "idle", req |-> "none", win |-> None, space |-> None,
         todo |-> {}, spaces |-> {}, force |-> FALSE]

TypeOK ==
  /\ windowRec \in [Windows -> WindowStates]
  /\ workspaceRec \in [Workspaces -> WorkspaceStates]
  /\ session \in [Windows -> SessionStates]
  /\ tree \in [Workspaces -> BOOLEAN]
  /\ lifecycle \in Procs \cup {None}
  /\ job \in [Procs -> Jobs]
  /\ faults \in Nat

WindowsOf(k) == {w \in Windows : Home[w] = k /\ windowRec[w] # "none"}

(* The states inspectSession reports as sessionOwned; "dead" is an owned    *)
(* session whose pane has exited (remain-on-exit keeps it).                 *)
Owned(w) == session[w] \in {"live", "dead"}
Altered(w) == session[w] \in {"alteredLive", "alteredDead"}

(* newID draws an identifier nothing else carries.                          *)
Fresh(w) == windowRec[w] = "none" /\ session[w] = "absent"

-----------------------------------------------------------------------------
(* Control: how an operation starts, moves on, fails and ends.              *)

Start(p, j) ==
  /\ lifecycle = None
  /\ job[p] = Idle
  /\ lifecycle' = p
  /\ job' = [job EXCEPT ![p] = j]

Goto(p, stage) == job' = [job EXCEPT ![p].at = stage] /\ UNCHANGED lifecycle

Finish(p) == job' = [job EXCEPT ![p] = Idle] /\ lifecycle' = None

Recovering(p) == job[p].req = "cleanup"

(* Mutant: a cleanup gives up at the first window it cannot delete.         *)
AfterWindowGiveUp(p, deleted) ==
  IF deleted THEN Goto(p, "nextWindow") ELSE Finish(p)

(* Where the caller of deleteWindow goes on, given whether it deleted: the  *)
(* request itself, the cascade of deleteWorkspace, or the sweep of cleanup. *)
AfterWindow(p, deleted) ==
  IF job[p].space = None
    THEN IF Recovering(p) THEN Goto(p, "nextWindow") ELSE Finish(p)
    ELSE IF deleted THEN Goto(p, "nextWindow")
         ELSE IF Recovering(p) THEN Goto(p, "nextSpace") ELSE Finish(p)

AfterSpace(p) == IF Recovering(p) THEN Goto(p, "nextSpace") ELSE Finish(p)

Fault == faults < MaxFaults /\ faults' = faults + 1

(* The error path of the call a stage makes.                                *)
Fail(p) ==
  CASE job[p].at \in {"spawn", "verify", "commit"} -> Goto(p, "rollback")
    [] job[p].at \in {"check1", "intend", "check2", "kill", "drop"} -> AfterWindow(p, FALSE)
    [] job[p].at \in {"risk", "markSpace", "confirm", "removeTree", "dropSpace"} -> AfterSpace(p)
    [] OTHER -> Finish(p)

(* A call whose effect took place either returns, or reports an error all   *)
(* the same: a deadline, or the directory sync that follows the rename.     *)
Then(p, next) == (next /\ UNCHANGED faults) \/ (Fault /\ Fail(p))

Step(p, stage) == job[p].at = stage

(* The call of a stage fails before it has any effect.                      *)
CallFails(p) ==
  /\ job[p].at \notin {"idle", "nextWindow", "nextSpace"}
  /\ Fault
  /\ Fail(p)
  /\ UNCHANGED <<registry, session, tree>>

-----------------------------------------------------------------------------
(* Creating a window and opening the project terminal.                      *)

(* Mutant: the record is written only when the session is up.               *)
CreateWindowUnrecorded(p, w) ==
  /\ "create" \in Requests
  /\ Home[w] # Project
  /\ Fresh(w)
  /\ workspaceRec[Home[w]] = "ready"
  /\ tree[Home[w]]
  /\ Start(p, [Idle EXCEPT !.at = "spawn", !.req = "create", !.win = w])
  /\ UNCHANGED <<registry, session, tree, faults>>

CreateWindow(p, w) ==
  /\ "create" \in Requests
  /\ Home[w] # Project
  /\ Fresh(w)
  /\ workspaceRec[Home[w]] = "ready"
  /\ tree[Home[w]]
  /\ Start(p, [Idle EXCEPT !.at = "spawn", !.req = "create", !.win = w])
  /\ windowRec' = [windowRec EXCEPT ![w] = "createPending"]
  /\ UNCHANGED <<workspaceRec, session, tree, faults>>

OpenProjectWindow(p, w) ==
  /\ "open" \in Requests
  /\ Home[w] = Project
  /\ \/ /\ windowRec[w] = "ready"
        /\ Start(p, [Idle EXCEPT !.at = "reopen", !.req = "open", !.win = w])
        /\ UNCHANGED windowRec
     \/ /\ WindowsOf(Project) = {}
        /\ Fresh(w)
        /\ Start(p, [Idle EXCEPT !.at = "spawn", !.req = "open", !.win = w])
        /\ windowRec' = [windowRec EXCEPT ![w] = "createPending"]
  /\ UNCHANGED <<workspaceRec, session, tree, faults>>

(* An existing project terminal: only a missing session is started again;   *)
(* an owned one is touched and returned, an altered one is an error.        *)
Reopen(p) ==
  /\ Step(p, "reopen")
  /\ IF session[job[p].win] = "absent" THEN Goto(p, "spawn") ELSE Finish(p)
  /\ UNCHANGED <<registry, session, tree, faults>>

(* tmux new-session sets the ownership variables with the session itself.   *)
Spawn(p) ==
  /\ Step(p, "spawn")
  /\ session[job[p].win] = "absent"
  /\ session' = [session EXCEPT ![job[p].win] = "live"]
  /\ Then(p, Goto(p, "verify"))
  /\ UNCHANGED <<registry, tree>>

(* configureTmux and ownsSession.  A reopened window already has its record *)
(* and is only touched.                                                     *)
Verify(p) ==
  /\ Step(p, "verify")
  /\ IF ~Owned(job[p].win) THEN Goto(p, "rollback")
     ELSE IF windowRec[job[p].win] = "createPending" THEN Goto(p, "commit")
     ELSE Finish(p)
  /\ UNCHANGED <<registry, session, tree, faults>>

Commit(p) ==
  /\ Step(p, "commit")
  /\ windowRec' = [windowRec EXCEPT ![job[p].win] = "ready"]
  /\ Then(p, Finish(p))
  /\ UNCHANGED <<workspaceRec, session, tree>>

(* Mutant: a rollback forgets a session it no longer owns.                  *)
RollbackForgets(p) ==
  /\ Step(p, "rollback")
  /\ Goto(p, IF Owned(job[p].win) THEN "kill" ELSE "drop")
  /\ UNCHANGED <<registry, session, tree, faults>>

(* An altered session keeps its record; an absent one needs only the        *)
(* record's removal.                                                        *)
Rollback(p) ==
  /\ Step(p, "rollback")
  /\ CASE Altered(job[p].win) -> Finish(p)
       [] session[job[p].win] = "absent" -> Goto(p, "drop")
       [] OTHER -> Goto(p, "kill")
  /\ UNCHANGED <<registry, session, tree, faults>>

-----------------------------------------------------------------------------
(* Deleting a window, as a request, in a cascade or in a cleanup.           *)

DeleteWindow(p, w, force) ==
  /\ "delete" \in Requests
  /\ windowRec[w] # "none"
  /\ Start(p, [Idle EXCEPT !.at = "check1", !.req = "delete", !.win = w, !.force = force])
  /\ UNCHANGED <<registry, session, tree, faults>>

(* A live window is refused without force.  A request clears the intent an  *)
(* earlier one left; a recovery leaves it.                                  *)
RefuseLive(p) ==
  /\ session[job[p].win] = "live"
  /\ ~job[p].force
  /\ IF Recovering(p) \/ windowRec[job[p].win] # "deletePending"
       THEN UNCHANGED windowRec
       ELSE windowRec' = [windowRec EXCEPT ![job[p].win] = "ready"]
  /\ IF job[p].req = "deleteSpace"
       THEN Then(p, Goto(p, "unwind"))
       ELSE Then(p, AfterWindow(p, FALSE))

(* Mutant: the first inspection decides, without writing the intent.        *)
CheckOnce(p) ==
  /\ Step(p, "check1")
  /\ ~Altered(job[p].win)
  /\ session[job[p].win] = "live" => job[p].force
  /\ Goto(p, IF Owned(job[p].win) THEN "kill" ELSE "drop")
  /\ UNCHANGED <<registry, session, tree, faults>>

(* Mutant: the second inspection looks at the ownership only.               *)
CheckLiveOnce(p) ==
  /\ job[p].at \in {"check1", "check2"}
  /\ \/ Step(p, "check1") /\ RefuseLive(p)
     \/ /\ Altered(job[p].win)
        /\ AfterWindow(p, FALSE)
        /\ UNCHANGED <<windowRec, faults>>
     \/ /\ ~Altered(job[p].win)
        /\ Step(p, "check1") /\ session[job[p].win] = "live" => job[p].force
        /\ Goto(p, IF Step(p, "check1") THEN "intend"
                   ELSE IF Owned(job[p].win) THEN "kill" ELSE "drop")
        /\ UNCHANGED <<windowRec, faults>>
  /\ UNCHANGED <<workspaceRec, session, tree>>

Check(p) ==
  /\ job[p].at \in {"check1", "check2"}
  /\ \/ RefuseLive(p)
     \/ /\ Altered(job[p].win)
        /\ AfterWindow(p, FALSE)
        /\ UNCHANGED <<windowRec, faults>>
     \/ /\ ~Altered(job[p].win)
        /\ session[job[p].win] = "live" => job[p].force
        /\ Goto(p, IF Step(p, "check1") THEN "intend"
                   ELSE IF Owned(job[p].win) THEN "kill" ELSE "drop")
        /\ UNCHANGED <<windowRec, faults>>
  /\ UNCHANGED <<workspaceRec, session, tree>>

(* validateRegistry refuses both flags on one window, so the deletion of a  *)
(* window whose creation is pending fails here.                             *)
Intend(p) ==
  /\ Step(p, "intend")
  /\ IF windowRec[job[p].win] = "createPending"
       THEN AfterWindow(p, FALSE) /\ UNCHANGED <<windowRec, faults>>
       ELSE /\ windowRec' = [windowRec EXCEPT ![job[p].win] = "deletePending"]
            /\ Then(p, Goto(p, "check2"))
  /\ UNCHANGED <<workspaceRec, session, tree>>

(* killOwnedSession: ownership is checked again, liveness is not.           *)
Kill(p) ==
  /\ Step(p, "kill")
  /\ IF Owned(job[p].win)
       THEN /\ session' = [session EXCEPT ![job[p].win] = "absent"]
            /\ Then(p, Goto(p, "drop"))
       ELSE AfterWindow(p, FALSE) /\ UNCHANGED <<session, faults>>
  /\ UNCHANGED <<registry, tree>>

(* The record goes last, in a deletion and in a rollback.                   *)
Drop(p) ==
  /\ Step(p, "drop")
  /\ windowRec' = [windowRec EXCEPT ![job[p].win] = "none"]
  /\ Then(p, AfterWindow(p, TRUE))
  /\ UNCHANGED <<workspaceRec, session, tree>>

-----------------------------------------------------------------------------
(* Workspaces: a non-Git one is one record; a deletion cascades.            *)

(* Mutant: a plain workspace is left with its creation pending.             *)
CreatePlainWorkspacePending(p, k) ==
  /\ "createSpace" \in Requests
  /\ k \notin GitWorkspaces
  /\ lifecycle = None
  /\ job[p] = Idle
  /\ workspaceRec[k] = "none"
  /\ workspaceRec' = [workspaceRec EXCEPT ![k] = "createPending"]
  /\ UNCHANGED <<windowRec, session, tree, lifecycle, job, faults>>

CreatePlainWorkspace(p, k) ==
  /\ "createSpace" \in Requests
  /\ k \notin GitWorkspaces
  /\ lifecycle = None
  /\ job[p] = Idle
  /\ workspaceRec[k] = "none"
  /\ workspaceRec' = [workspaceRec EXCEPT ![k] = "ready"]
  /\ UNCHANGED <<windowRec, session, tree, lifecycle, job, faults>>

DeleteWorkspace(p, k, force) ==
  /\ "deleteSpace" \in Requests
  /\ workspaceRec[k] # "none"
  /\ Start(p, [Idle EXCEPT !.at = "risk", !.req = "deleteSpace", !.space = k,
                           !.todo = WindowsOf(k), !.force = force])
  /\ UNCHANGED <<registry, session, tree, faults>>

(* workspaceDeletionRisk.  The Git part of the verdict (dirty files, unique *)
(* commits, an uncertain worktree) is open here.                            *)
Risk(p) ==
  /\ Step(p, "risk")
  /\ \E git \in {"clear", "forceable", "blocked"} :
       LET changed == \E w \in job[p].todo : Altered(w)
           live == \E w \in job[p].todo : session[w] = "live"
           reason == changed \/ live \/ git # "clear"
           forceable == ~changed /\ git # "blocked"
       IN /\ git # "clear" => job[p].space \in GitWorkspaces
          /\ IF ~reason \/ (forceable /\ job[p].force) THEN Goto(p, "markSpace")
             ELSE IF Recovering(p) \/ job[p].force THEN AfterSpace(p)
             ELSE Goto(p, "unwind")
  /\ UNCHANGED <<registry, session, tree, faults>>

(* Mutant: the worktree goes before the windows.                            *)
MarkSpaceTreeFirst(p) ==
  /\ Step(p, "markSpace")
  /\ workspaceRec' = [workspaceRec EXCEPT ![job[p].space] = "deletePending"]
  /\ Then(p, Goto(p, IF job[p].space \in GitWorkspaces THEN "removeTree" ELSE "nextWindow"))
  /\ UNCHANGED <<windowRec, session, tree>>

MarkSpace(p) ==
  /\ Step(p, "markSpace")
  /\ workspaceRec' = [workspaceRec EXCEPT ![job[p].space] = "deletePending"]
  /\ Then(p, Goto(p, "nextWindow"))
  /\ UNCHANGED <<windowRec, session, tree>>

(* The loop over the windows of a cascade or of a cleanup.  A cleanup then  *)
(* turns to the workspaces whose deletion is pending and to stale non-Git   *)
(* ones without a window.                                                   *)
NextWindow(p) ==
  /\ Step(p, "nextWindow")
  /\ \/ \E w \in job[p].todo :
          /\ job' = [job EXCEPT ![p].at = "check1", ![p].win = w, ![p].todo = @ \ {w}]
          /\ UNCHANGED lifecycle
     \/ /\ job[p].todo = {}
        /\ job[p].space # None
        /\ Goto(p, "confirm")
     \/ /\ job[p].todo = {}
        /\ job[p].space = None
        /\ \E stale \in SUBSET {k \in Workspaces \ GitWorkspaces :
                                  workspaceRec[k] = "ready" /\ WindowsOf(k) = {}} :
             job' = [job EXCEPT ![p].at = "nextSpace",
                       ![p].spaces = stale \cup {k \in Workspaces : workspaceRec[k] = "deletePending"}]
        /\ UNCHANGED lifecycle
  /\ UNCHANGED <<registry, session, tree, faults>>

(* "workspace gained a terminal window during deletion" is an error.        *)
Confirm(p) ==
  /\ Step(p, "confirm")
  /\ WindowsOf(job[p].space) = {}
  /\ workspaceRec' = [workspaceRec EXCEPT ![job[p].space] = "deletePending"]
  /\ Then(p, Goto(p, IF job[p].space \in GitWorkspaces THEN "removeTree" ELSE "dropSpace"))
  /\ UNCHANGED <<windowRec, session, tree>>

(* removeGitWorktree, whose steps WorktreeLifecycle models.                 *)
RemoveTree(p) ==
  /\ Step(p, "removeTree")
  /\ tree' = [tree EXCEPT ![job[p].space] = FALSE]
  /\ Then(p, Goto(p, "dropSpace"))
  /\ UNCHANGED <<registry, session>>

DropSpace(p) ==
  /\ Step(p, "dropSpace")
  /\ workspaceRec' = [workspaceRec EXCEPT ![job[p].space] = "none"]
  /\ Then(p, AfterSpace(p))
  /\ UNCHANGED <<windowRec, session, tree>>

(* clearWorkspaceCascadeDeletePending, after a refused cascade.             *)
Unwind(p) ==
  /\ Step(p, "unwind")
  /\ workspaceRec' = [workspaceRec EXCEPT ![job[p].space] = "ready"]
  /\ windowRec' = [w \in Windows |->
       IF Home[w] = job[p].space /\ windowRec[w] = "deletePending" THEN "ready" ELSE windowRec[w]]
  /\ Then(p, Finish(p))
  /\ UNCHANGED <<session, tree>>

-----------------------------------------------------------------------------
(* Cleanup, at startup and hourly.                                          *)

Cleanup(p) ==
  /\ Start(p, [Idle EXCEPT !.at = "reconcile", !.req = "cleanup"])
  /\ UNCHANGED <<registry, session, tree, faults>>

(* Mutant: a project terminal is taken for a window without its workspace.  *)
ParentReadySpaceOnly(w) == Home[w] # Project /\ workspaceRec[Home[w]] = "ready"

ParentReady(w) == Home[w] = Project \/ workspaceRec[Home[w]] = "ready"

(* reconcilePendingCreates: one registry write settles every pending        *)
(* creation whose parent is ready and whose session is certain; kept are    *)
(* the ones tmux could not answer for.  The windows to sweep are then read. *)
Reconcile(p) ==
  /\ Step(p, "reconcile")
  /\ \E kept \in SUBSET {w \in Windows : windowRec[w] = "createPending"} :
       LET settled == {w \in Windows \ kept : /\ windowRec[w] = "createPending"
                                              /\ ParentReady(w)
                                              /\ ~Altered(w)}
       IN /\ windowRec' = [w \in Windows |->
               IF w \notin settled THEN windowRec[w]
               ELSE IF session[w] = "absent" THEN "none" ELSE "ready"]
          /\ IF kept = {} THEN UNCHANGED faults ELSE Fault
  /\ \E stale \in SUBSET {w \in Windows : windowRec'[w] \in {"createPending", "ready"}} :
       job' = [job EXCEPT ![p].at = "nextWindow",
                 ![p].todo = stale \cup {w \in Windows : windowRec'[w] = "deletePending"}]
  /\ UNCHANGED <<workspaceRec, session, tree, lifecycle>>

NextSpace(p) ==
  /\ Step(p, "nextSpace")
  /\ \/ \E k \in job[p].spaces :
          /\ job' = [job EXCEPT ![p].at = "risk", ![p].space = k,
                       ![p].todo = WindowsOf(k), ![p].spaces = @ \ {k}]
          /\ UNCHANGED lifecycle
     \/ /\ job[p].spaces = {}
        /\ Finish(p)
  /\ UNCHANGED <<registry, session, tree, faults>>

-----------------------------------------------------------------------------
(* The environment.                                                         *)

(* The process dies; the kernel drops its lock, the registry stays.         *)
Crash(p) ==
  /\ job[p] # Idle
  /\ Fault
  /\ Finish(p)
  /\ UNCHANGED <<registry, session, tree>>

ShellExits(w) ==
  /\ session[w] \in {"live", "alteredLive"}
  /\ session' = [session EXCEPT ![w] = IF @ = "live" THEN "dead" ELSE "alteredDead"]
  /\ UNCHANGED <<registry, tree, lifecycle, job, faults>>

(* The tmux server is gone: a reboot, or somebody killed it.                *)
ServerLost ==
  /\ \E w \in Windows : session[w] # "absent"
  /\ Fault
  /\ session' = [w \in Windows |-> "absent"]
  /\ UNCHANGED <<registry, tree, lifecycle, job>>

(* A second window or pane, or changed ownership variables; and back.       *)
Alter(w) ==
  /\ Owned(w)
  /\ Fault
  /\ session' = [session EXCEPT ![w] = IF @ = "live" THEN "alteredLive" ELSE "alteredDead"]
  /\ UNCHANGED <<registry, tree, lifecycle, job>>

Restore(w) ==
  /\ Altered(w)
  /\ session' = [session EXCEPT ![w] = IF @ = "alteredLive" THEN "live" ELSE "dead"]
  /\ UNCHANGED <<registry, tree, lifecycle, job, faults>>

(* tmux respawn-pane, or closing the dead one of two panes.                 *)
Respawn(w) ==
  /\ w \in Respawnable
  /\ session[w] \in {"dead", "alteredDead"}
  /\ session' = [session EXCEPT ![w] = IF @ = "dead" THEN "live" ELSE "alteredLive"]
  /\ UNCHANGED <<registry, tree, lifecycle, job, faults>>

-----------------------------------------------------------------------------

Init ==
  /\ windowRec = [w \in Windows |-> "none"]
  /\ workspaceRec = [k \in Workspaces |-> IF k \in GitWorkspaces THEN "ready" ELSE "none"]
  /\ session = [w \in Windows |-> "absent"]
  /\ tree = [k \in Workspaces |-> TRUE]
  /\ lifecycle = None
  /\ job = [p \in Procs |-> Idle]
  /\ faults = 0

Begin(p) ==
  \/ \E w \in Windows : CreateWindow(p, w) \/ OpenProjectWindow(p, w)
  \/ \E w \in Windows, force \in BOOLEAN : DeleteWindow(p, w, force)
  \/ \E k \in Workspaces : CreatePlainWorkspace(p, k)
  \/ \E k \in Workspaces, force \in BOOLEAN : DeleteWorkspace(p, k, force)
  \/ Cleanup(p)

Advance(p) ==
  \/ Reopen(p) \/ Spawn(p) \/ Verify(p) \/ Commit(p) \/ Rollback(p)
  \/ Check(p) \/ Intend(p) \/ Kill(p) \/ Drop(p)
  \/ Risk(p) \/ MarkSpace(p) \/ NextWindow(p) \/ Confirm(p)
  \/ RemoveTree(p) \/ DropSpace(p) \/ Unwind(p)
  \/ Reconcile(p) \/ NextSpace(p)

Environment ==
  \/ ServerLost
  \/ \E w \in Windows : ShellExits(w) \/ Alter(w) \/ Restore(w) \/ Respawn(w)

Next ==
  \/ \E p \in Procs : Begin(p) \/ Advance(p) \/ CallFails(p) \/ Crash(p)
  \/ Environment

Spec == Init /\ [][Next]_vars

(* A running operation moves on (its calls carry deadlines and a dead       *)
(* process has no operation); the lifecycle lock is polled every 25 ms and  *)
(* the hourly cleanup keeps asking, so it is not shut out for ever.         *)
Fairness ==
  /\ \A p \in Procs : WF_vars(Advance(p))
  /\ SF_vars(\E p \in Procs : Cleanup(p))

LiveSpec == Spec /\ Fairness

-----------------------------------------------------------------------------
(* Properties.                                                              *)

(* Ownership is never forgotten: a tmux session the editor created has a    *)
(* registry record for as long as it exists, whatever step a process dies   *)
(* in.  A session without a record would never be found again.              *)
SessionsAreRecorded == \A w \in Windows : session[w] # "absent" => windowRec[w] # "none"

(* A worktree is never removed under a terminal: once deleteWorkspace has   *)
(* removed the directory, no window of that workspace is recorded or runs.  *)
NoTerminalWithoutTree ==
  \A w \in Windows : Home[w] # Project /\ ~tree[Home[w]]
                       => windowRec[w] = "none" /\ session[w] = "absent"

(* A deletion stops a session only while its record says so on disk, so a   *)
(* crash right after the kill leaves an intent that cleanup can finish.     *)
KillsWithIntent ==
  \A p \in Procs : Step(p, "kill") /\ job[p].req \notin {"create", "open"}
                      => windowRec[job[p].win] = "deletePending"

(* A deletion that nobody confirmed: an unforced request, its cascade, or a *)
(* cleanup, whatever it recovers.                                           *)
Unconfirmed(p) == job[p].req \notin {"create", "open"} /\ (job[p].force => Recovering(p))

(* Only a confirmed deletion stops a live process: no other kills a live    *)
(* pane, even one that became live again after it was inspected.            *)
UnforcedKillSparesLive ==
  [][\A p \in Procs : Step(p, "kill") /\ Kill(p) /\ Unconfirmed(p)
                         => session[job[p].win] # "live"]_vars

(* The part of it that holds.  An unconfirmed deletion goes on to the kill  *)
(* only from an inspection that finds the pane dead, after its intent is on *)
(* disk: a shell that came back before that is spared, whatever an earlier  *)
(* request or an earlier life of the process had been allowed.  And what it *)
(* then kills is live only if somebody started the pane again since.        *)
KillsOnlyWhatItSawDead ==
  [][\A p \in Procs : Unconfirmed(p) =>
       /\ ~Step(p, "kill") /\ job'[p].at = "kill" =>
            session[job[p].win] = "dead" /\ windowRec[job[p].win] = "deletePending"
       /\ Step(p, "kill") /\ Kill(p) =>
            session[job[p].win] # "live" \/ job[p].win \in Respawnable]_vars

(* The registry of windows is the owned-resource protocol, per window:     *)
(* intent before the session, the record last, never both in one step.      *)
Ownership == INSTANCE OwnedResource WITH
  Resources <- Windows,
  record <- windowRec,
  exists <- [w \in Windows |-> session[w] # "absent"]

OwnedResourceSpec == Ownership!Spec

(* An interrupted creation is settled: once faults stop, the cleanup        *)
(* commits it or drops it unless its session was altered.                   *)
CreationsSettle ==
  \A w \in Windows :
    windowRec[w] = "createPending" ~> windowRec[w] # "createPending" \/ Altered(w)

(* The part of it that holds: the creation is settled unless its session    *)
(* was altered or a deletion of its workspace is pending.                   *)
CreationsSettleInReadySpace ==
  \A w \in Windows :
    windowRec[w] = "createPending" ~>
      \/ windowRec[w] # "createPending"
      \/ Altered(w)
      \/ Home[w] # Project /\ workspaceRec[Home[w]] # "ready"

(* A deletion that was begun is finished or withdrawn, unless the window is *)
(* live again (which needs a new confirmation) or altered.                  *)
DeletionsSettle ==
  \A w \in Windows :
    windowRec[w] = "deletePending" ~>
      windowRec[w] # "deletePending" \/ session[w] = "live" \/ Altered(w)
=============================================================================
