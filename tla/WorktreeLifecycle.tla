------------------------- MODULE WorktreeLifecycle -------------------------
(***************************************************************************)
(* The Git side of the editor's workspaces: one worktree, one lock on it   *)
(* and one initial branch per workspace, from creation through deletion,   *)
(* rollback and recovery (internal/editor/host_service.go).                *)
(*                                                                         *)
(* Each call to git that changes the repository is a step of its own, and  *)
(* so is each write of the registry; the reads of one inspection are one   *)
(* step.  Between two steps the host may be killed, a call may fail, time  *)
(* out before or after its effect or be killed half way through it, and    *)
(* the people who work in the repository go on working.                    *)
(*                                                                         *)
(* One operation runs at a time: WindowLifecycle models the lifecycle lock *)
(* that sees to it, and the terminal windows a deletion closes first.      *)
(***************************************************************************)
EXTENDS Naturals, FiniteSets

CONSTANTS
  Spaces,     \* editor-owned Git workspaces
  Legacy,     \* those an older version made, whose lock is not recorded yet
  MaxTip,     \* bound: commits on an initial branch, counting its base
  MaxFaults,  \* bound: kills, failed calls and damage to a worktree
  None        \* no workspace

ASSUME LegacyAssumption == Legacy \subseteq Spaces
ASSUME BoundAssumption == MaxTip \in Nat \ {0} /\ MaxFaults \in Nat
ASSUME NoneAssumption == None \notin Spaces

VARIABLES
  record,    \* registry: the two pending flags of a workspace
  recorded,  \* registry: its WorktreeLocked flag
  git,       \* the repository: see GitStates
  op,        \* the operation that holds the lifecycle lock
  faults     \* faults so far

registry == <<record, recorded>>
vars == <<record, recorded, git, op, faults>>

-----------------------------------------------------------------------------
(* Types.                                                                   *)

Records == {"none", "createPending", "ready", "deletePending"}

(* path: "strange" is a directory that is no longer this worktree.  entry:  *)
(* the registration of the worktree and who has locked it.  tip: the number *)
(* of commits on the initial branch, 0 without the branch; those above      *)
(* merged are in no base.  elsewhere: another worktree has it checked out.  *)
GitStates ==
  [path : {"absent", "tree", "strange"},
   entry : {"none", "free", "ours", "other"},
   head : {"initial", "other", "detached"},
   dirty : {"clean", "ignored", "untracked"},
   tip : 0..MaxTip,
   merged : 0..MaxTip,
   elsewhere : BOOLEAN]

NoGit == [path |-> "absent", entry |-> "none", head |-> "initial", dirty |-> "clean",
          tip |-> 0, merged |-> 0, elsewhere |-> FALSE]

Stages == {"idle", "add", "lock", "commit", "undo", "undoUnlock", "undoRemove",
           "undoRelock", "relock", "risk", "withdraw", "mark", "locate", "unlock", "remove", "restore",
           "branch", "deleteBranch", "forget", "migrate", "reconcile", "sweep"}

Ops == [at : Stages,
        req : {"none", "create", "delete", "cleanup", "snapshot"},
        space : Spaces \cup {None},
        force : BOOLEAN,
        owned : BOOLEAN,     \* the branch is known to be this creation's
        relock : BOOLEAN,    \* the rollback found the worktree locked
        oid : 0..MaxTip,     \* the commit the branch was seen at
        todo : SUBSET Spaces]

Idle == [at |-> "idle", req |-> "none", space |-> None, force |-> FALSE,
         owned |-> FALSE, relock |-> FALSE, oid |-> 0, todo |-> {}]

TypeOK ==
  /\ record \in [Spaces -> Records]
  /\ recorded \in [Spaces -> BOOLEAN]
  /\ git \in [Spaces -> GitStates]
  /\ op \in Ops
  /\ faults \in 0..MaxFaults

-----------------------------------------------------------------------------
(* Control.                                                                 *)

Here == op.space
At(stage) == op.at = stage
Goto(stage) == op' = [op EXCEPT !.at = stage]
Finish == op' = Idle
Recovering == op.req = "cleanup"

(* Where the caller of deleteWorkspace goes on.                             *)
End == IF Recovering THEN Goto("sweep") ELSE Finish

Fault == faults < MaxFaults /\ faults' = faults + 1

(* The error path of the call a stage makes.                                *)
Fail ==
  CASE At("add") -> Goto("undo")
    [] At("lock") \/ At("commit") -> op' = [op EXCEPT !.at = "undo", !.owned = TRUE]
    [] At("undoRemove") -> IF op.relock THEN Goto("undoRelock") ELSE Finish
    [] At("unlock") \/ At("remove") -> Goto("restore")
    [] At("migrate") \/ At("reconcile") -> Finish
    [] OTHER -> End

(* A call whose effect took place returns, or reports an error all the same *)
(* (a deadline, the directory sync after the rename).                       *)
Then(next) == (next /\ UNCHANGED faults) \/ (Fault /\ Fail)

CallFails ==
  /\ op.at \notin {"idle", "sweep"}
  /\ Fault
  /\ Fail
  /\ UNCHANGED <<registry, git>>

(* Mutant: the lock is taken whatever its reason.                           *)
LockableByAnyReason(s) == git[s].path = "tree"

(* ensureGitWorktreeLock: the exact worktree, unlocked or locked by us.     *)
Lockable(s) == git[s].path = "tree" /\ git[s].entry \in {"free", "ours"}

EnsureLock(next, failure) ==
  IF Lockable(Here)
    THEN git' = [git EXCEPT ![Here].entry = "ours"] /\ Then(next)
    ELSE failure /\ UNCHANGED <<git, faults>>

(* `git worktree unlock`: any lock, whatever its reason.                    *)
UnlockTree(next) ==
  IF git[Here].entry \in {"ours", "other"}
    THEN git' = [git EXCEPT ![Here].entry = "free"] /\ Then(next)
    ELSE Fail /\ UNCHANGED <<git, faults>>

(* What git itself refuses: `worktree remove` of a locked or broken         *)
(* worktree, or without --force of one with modified or untracked files.    *)
Removable(s, force) ==
  /\ git[s].entry = "free"
  /\ git[s].path # "strange"
  /\ git[s].path = "tree" /\ git[s].dirty = "untracked" => force

Addable(s) == git[s].path = "absent" /\ git[s].tip = 0

Added(s) == [git EXCEPT ![s] = [NoGit EXCEPT !.path = "tree", !.entry = "free",
                                  !.tip = 1, !.merged = 1]]

(* The directory is gone or no worktree any more; its registration stays.   *)
Broken(s, rest) == [git EXCEPT ![s].path = rest, ![s].dirty = "clean"]

Removed(s) == [git EXCEPT ![s].path = "absent", ![s].entry = "none",
                          ![s].head = "initial", ![s].dirty = "clean"]

-----------------------------------------------------------------------------
(* Creation and its rollback.                                               *)

(* Mutant: the worktree is made before its record is written.               *)
CreateWorkspaceUnrecorded(s) ==
  /\ op = Idle
  /\ record[s] = "none"
  /\ git[s] = NoGit
  /\ op' = [Idle EXCEPT !.at = "add", !.req = "create", !.space = s]
  /\ UNCHANGED <<registry, git, faults>>

(* newID and prepareGitWorktree: neither the directory nor the branch is    *)
(* there.                                                                   *)
CreateWorkspace(s) ==
  /\ op = Idle
  /\ record[s] = "none"
  /\ git[s] = NoGit
  /\ record' = [record EXCEPT ![s] = "createPending"]
  /\ op' = [Idle EXCEPT !.at = "add", !.req = "create", !.space = s]
  /\ UNCHANGED <<recorded, git, faults>>

(* addGitWorktree.  Killed half way, `git worktree add -b` leaves the new   *)
(* branch, or also the worktree under the lock git takes while it fills it. *)
Add ==
  /\ At("add")
  /\ Addable(Here)
  /\ \/ git' = Added(Here) /\ Then(Goto("lock"))
     \/ /\ Fault
        /\ Fail
        /\ \/ git' = [git EXCEPT ![Here].tip = 1, ![Here].merged = 1]
           \/ git' = [Added(Here) EXCEPT ![Here].entry = "other"]
  /\ UNCHANGED registry

Lock ==
  /\ At("lock")
  /\ EnsureLock(Goto("commit"), Fail)
  /\ UNCHANGED registry

Commit ==
  /\ At("commit")
  /\ record' = [record EXCEPT ![Here] = "ready"]
  /\ recorded' = [recorded EXCEPT ![Here] = TRUE]
  /\ Then(Finish)
  /\ UNCHANGED <<git>>

(* rollbackWorkspaceCreation and the checks of removeCreatedGitWorktree.    *)
(* Without the worktree only a branch known to be this creation's goes.     *)
Undo ==
  /\ At("undo")
  /\ IF git[Here].path = "absent"
       THEN IF op.owned THEN Goto("branch")
            ELSE IF git[Here].tip = 0 THEN Goto("forget") ELSE Finish
     ELSE IF Lockable(Here) /\ git[Here].head = "initial"
       THEN op' = [op EXCEPT !.at = IF git[Here].entry = "ours" THEN "undoUnlock" ELSE "undoRemove",
                             !.relock = (git[Here].entry = "ours")]
     ELSE Finish
  /\ UNCHANGED <<registry, git, faults>>

UndoUnlock ==
  /\ At("undoUnlock")
  /\ UnlockTree(Goto("undoRemove"))
  /\ UNCHANGED registry

(* `git worktree remove`: the directory, then its registration.  A kill     *)
(* half way leaves a directory that is no worktree any more, or none.       *)
RemoveTree(force, next) ==
  IF Removable(Here, force)
    THEN \/ git' = Removed(Here) /\ Then(next)
         \/ /\ git[Here].path = "tree"
            /\ Fault
            /\ Fail
            /\ \E rest \in {"strange", "absent"} : git' = Broken(Here, rest)
    ELSE Fail /\ UNCHANGED <<git, faults>>

UndoRemove ==
  /\ At("undoRemove")
  /\ RemoveTree(TRUE, op' = [op EXCEPT !.at = "branch", !.owned = TRUE])
  /\ UNCHANGED registry

UndoRelock ==
  /\ At("undoRelock")
  /\ EnsureLock(Finish, Finish)
  /\ UNCHANGED registry

-----------------------------------------------------------------------------
(* Deletion.                                                                *)

(* A deletion that was interrupted before first restores the lock.          *)
Deletion(s, force, req) ==
  [Idle EXCEPT !.at = IF record[s] = "deletePending" THEN "relock" ELSE "risk",
               !.req = req, !.space = s, !.force = force]

DeleteWorkspace(s, force) ==
  /\ op = Idle
  /\ record[s] # "none"
  /\ op' = Deletion(s, force, "delete")
  /\ UNCHANGED <<registry, git, faults>>

(* Mutant: an interrupted deletion is retried without its lock.             *)
RelockSkipped ==
  /\ At("relock")
  /\ Goto("risk")
  /\ UNCHANGED <<registry, git, faults>>

(* restorePendingDeleteWorktreeLock.                                        *)
Relock ==
  /\ At("relock")
  /\ IF git[Here].path = "absent"
       THEN Goto("risk") /\ UNCHANGED <<git, faults>>
       ELSE EnsureLock(Goto("risk"), End)
  /\ UNCHANGED registry

BranchRisk(s) ==
  IF git[s].tip = 0 THEN "clear"
  ELSE IF git[s].elsewhere THEN "blocked"
  ELSE IF git[s].tip > git[s].merged THEN "forceable" ELSE "clear"

(* gitWorkspaceDeletionRiskForPath: what speaks against a deletion, and     *)
(* whether a confirmation overrides it.                                     *)
Verdict(s) ==
  IF git[s].path = "absent" THEN BranchRisk(s)
  ELSE IF \/ git[s].path = "strange"
          \/ ~recorded[s]
          \/ git[s].entry # "ours"
          \/ BranchRisk(s) = "blocked" THEN "blocked"
  ELSE IF \/ git[s].dirty # "clean"
          \/ git[s].head = "detached"
          \/ BranchRisk(s) = "forceable" THEN "forceable"
  ELSE "clear"

(* A call of the inspection that fails makes the verdict uncertain, which   *)
(* no confirmation overrides.                                               *)
Risk ==
  /\ At("risk")
  /\ \E verdict \in {Verdict(Here), "blocked"} :
       /\ IF verdict = Verdict(Here) THEN UNCHANGED faults ELSE Fault
       /\ IF verdict = "clear" \/ (verdict = "forceable" /\ op.force) THEN Goto("mark")
          ELSE IF Recovering \/ op.force THEN End
          ELSE Goto("withdraw")
  /\ UNCHANGED <<registry, git>>

(* clearWorkspaceCascadeDeletePending: a request that is refused takes the  *)
(* intent of an earlier one back.                                           *)
Withdraw ==
  /\ At("withdraw")
  /\ record' = [record EXCEPT ![Here] = IF @ = "deletePending" THEN "ready" ELSE @]
  /\ Then(Finish)
  /\ UNCHANGED <<recorded, git>>

(* Mutant: the registry takes both pending flags on one workspace.          *)
MarkUnvalidated ==
  /\ At("mark")
  /\ record' = [record EXCEPT ![Here] =
       IF @ = "createPending" THEN "bothPending" ELSE "deletePending"]
  /\ Then(Goto("locate"))
  /\ UNCHANGED <<recorded, git>>

(* validateRegistry refuses both pending flags on one workspace.            *)
Mark ==
  /\ At("mark")
  /\ IF record[Here] = "createPending"
       THEN End /\ UNCHANGED <<record, faults>>
       ELSE /\ record' = [record EXCEPT ![Here] = "deletePending"]
            /\ Then(Goto("locate"))
  /\ UNCHANGED <<recorded, git>>

(* Mutant: the worktree is removed without unlocking it, which git refuses. *)
LocateLocked ==
  /\ At("locate")
  /\ IF git[Here].elsewhere /\ git[Here].tip # 0 THEN End
     ELSE IF git[Here].path = "absent" /\ git[Here].entry = "none" THEN Goto("branch")
     ELSE IF /\ git[Here].entry = "ours"
             /\ git[Here].path = "tree" => recorded[Here]
             /\ git[Here].path # "strange" THEN Goto("remove")
     ELSE End
  /\ UNCHANGED <<registry, git, faults>>

(* The checks of removeGitWorktree: verifyGitWorktree for a directory that  *)
(* is there, registeredOwnedWorktree for one that is gone.                  *)
Locate ==
  /\ At("locate")
  /\ IF git[Here].elsewhere /\ git[Here].tip # 0 THEN End
     ELSE IF git[Here].path = "absent" /\ git[Here].entry = "none" THEN Goto("branch")
     ELSE IF /\ git[Here].entry = "ours"
             /\ git[Here].path = "tree" => recorded[Here]
             /\ git[Here].path # "strange" THEN Goto("unlock")
     ELSE End
  /\ UNCHANGED <<registry, git, faults>>

Unlock ==
  /\ At("unlock")
  /\ UnlockTree(Goto("remove"))
  /\ UNCHANGED registry

Remove ==
  /\ At("remove")
  /\ RemoveTree(op.force, Goto("branch"))
  /\ UNCHANGED registry

(* restoreWorktreeLockAfterRemovalFailure, whose own failure is ignored.    *)
Restore ==
  /\ At("restore")
  /\ IF git[Here].path = "absent"
       THEN End /\ UNCHANGED <<git, faults>>
       ELSE EnsureLock(End, End)
  /\ UNCHANGED registry

(* removeInitialBranch: the checks, which note the commit they saw.         *)
Branch ==
  /\ At("branch")
  /\ IF git[Here].tip = 0 THEN Goto("forget")
     ELSE IF \/ git[Here].elsewhere
             \/ ~op.force /\ ~op.owned /\ git[Here].tip > git[Here].merged THEN End
     ELSE op' = [op EXCEPT !.at = "deleteBranch", !.oid = git[Here].tip]
  /\ UNCHANGED <<registry, git, faults>>

(* Mutant: `git update-ref -d` without the commit it expects.               *)
DeleteBranchAnyTip ==
  /\ At("deleteBranch")
  /\ git' = [git EXCEPT ![Here].tip = 0, ![Here].merged = 0]
  /\ Then(Goto("forget"))
  /\ UNCHANGED registry

(* `git update-ref -d` deletes the branch only at the commit it expects.    *)
DeleteBranch ==
  /\ At("deleteBranch")
  /\ IF git[Here].tip = op.oid
       THEN /\ git' = [git EXCEPT ![Here].tip = 0, ![Here].merged = 0]
            /\ Then(Goto("forget"))
       ELSE End /\ UNCHANGED <<git, faults>>
  /\ UNCHANGED registry

(* The record goes last, in a deletion and in a rollback.                   *)
Forget ==
  /\ At("forget")
  /\ record' = [record EXCEPT ![Here] = "none"]
  /\ recorded' = [recorded EXCEPT ![Here] = FALSE]
  /\ Then(End)
  /\ UNCHANGED <<git>>

-----------------------------------------------------------------------------
(* The migration of older workspaces, and cleanup.                          *)

Unmigrated == {s \in Spaces : /\ record[s] \in {"ready", "deletePending"}
                              /\ ~recorded[s]
                              /\ git[s].path # "absent"}

(* ensureOwnedWorktreeLocks: a refresh of the view migrates what it must.   *)
Snapshot ==
  /\ op = Idle
  /\ Unmigrated # {}
  /\ op' = [Idle EXCEPT !.at = "migrate", !.req = "snapshot"]
  /\ UNCHANGED <<registry, git, faults>>

Cleanup ==
  /\ op = Idle
  /\ op' = [Idle EXCEPT !.at = "migrate", !.req = "cleanup"]
  /\ UNCHANGED <<registry, git, faults>>

(* One older workspace that cannot be locked ends the whole operation.      *)
Migrate ==
  /\ At("migrate")
  /\ \/ /\ Unmigrated = {}
        /\ IF Recovering THEN Goto("reconcile") ELSE Finish
        /\ UNCHANGED <<registry, git, faults>>
     \/ \E s \in Unmigrated :
          IF Lockable(s)
            THEN /\ git' = [git EXCEPT ![s].entry = "ours"]
                 /\ \/ /\ recorded' = [recorded EXCEPT ![s] = TRUE]
                       /\ Then(UNCHANGED op)
                    \/ /\ Fault
                       /\ Finish
                       /\ UNCHANGED recorded
            ELSE Finish /\ UNCHANGED <<recorded, git, faults>>
  /\ UNCHANGED record

Pending == {s \in Spaces : record[s] = "createPending"}

(* Mutant: recovery expects the lock instead of restoring it.               *)
RecoverableLocked == {s \in Pending : git[s].entry = "ours" /\ git[s].head = "initial"}

Recoverable == {s \in Pending : Lockable(s) /\ git[s].head = "initial"}

(* Mutant: a creation without its directory is dropped whatever its branch. *)
UntouchedWithBranch == {s \in Pending : git[s].path = "absent"}

(* A branch without its worktree is never taken for the creation's own.     *)
Untouched == {s \in Pending : git[s].path = "absent" /\ git[s].tip = 0}

(* The workspaces whose deletion is pending are swept, without force.       *)
SweepNext == op' = [op EXCEPT !.at = "sweep",
                              !.todo = {s \in Spaces : record'[s] = "deletePending"}]

(* reconcilePendingCreates: the locks, then one write that commits what     *)
(* came to be and drops what did not.  What git did not answer for is kept; *)
(* without the write only locks are left behind.                            *)
Reconcile ==
  /\ At("reconcile")
  /\ \E unsure \in SUBSET Pending, locked \in SUBSET Recoverable, saved \in BOOLEAN :
       /\ saved => Recoverable \ unsure \subseteq locked
       /\ git' = [s \in Spaces |->
            IF s \in locked THEN [git[s] EXCEPT !.entry = "ours"] ELSE git[s]]
       /\ record' = [s \in Spaces |->
            IF ~saved \/ s \in unsure THEN record[s]
            ELSE IF s \in Recoverable THEN "ready"
            ELSE IF s \in Untouched THEN "none" ELSE record[s]]
       /\ recorded' = [s \in Spaces |->
            recorded[s] \/ (saved /\ s \in Recoverable \ unsure)]
       /\ \/ saved /\ unsure = {} /\ Then(SweepNext)
          \/ saved /\ unsure # {} /\ Fault /\ SweepNext
          \/ ~saved /\ Fault /\ Finish

Sweep ==
  /\ At("sweep")
  /\ \/ \E s \in op.todo :
          op' = [Deletion(s, FALSE, "cleanup") EXCEPT !.todo = op.todo \ {s}]
     \/ op.todo = {} /\ Finish
  /\ UNCHANGED <<registry, git, faults>>

-----------------------------------------------------------------------------
(* The environment.                                                         *)

(* The host is killed; what its last step did stays.                        *)
Crash ==
  /\ op # Idle
  /\ Fault
  /\ Finish
  /\ UNCHANGED <<registry, git>>

(* People see a workspace once its creation is no longer pending.           *)
Shown(s) == record[s] \in {"ready", "deletePending"}

Edit(s) ==
  /\ Shown(s)
  /\ git[s].path = "tree"
  /\ \E files \in {"clean", "ignored", "untracked"} :
       git' = [git EXCEPT ![s].dirty = files]
  /\ UNCHANGED <<registry, op, faults>>

(* git refuses to check a branch out twice.                                 *)
Switch(s) ==
  /\ Shown(s)
  /\ git[s].path = "tree"
  /\ \E head \in {"initial", "other", "detached"} :
       /\ head = "initial" => git[s].tip # 0 /\ ~git[s].elsewhere
       /\ git' = [git EXCEPT ![s].head = head]
  /\ UNCHANGED <<registry, op, faults>>

(* The initial branch is checked out in this worktree.                      *)
CheckedOut(s) == git[s].entry # "none" /\ git[s].head = "initial"

CommitWork(s) ==
  /\ Shown(s)
  /\ git[s].tip \in 1..(MaxTip - 1)
  /\ git[s].elsewhere \/ (CheckedOut(s) /\ git[s].path = "tree")
  /\ git' = [git EXCEPT ![s].tip = @ + 1]
  /\ UNCHANGED <<registry, op, faults>>

Merge(s) ==
  /\ git' = [git EXCEPT ![s].merged = git[s].tip]
  /\ UNCHANGED <<registry, op, faults>>

CheckOutElsewhere(s) ==
  /\ \/ git[s].elsewhere
     \/ Shown(s) /\ git[s].tip # 0 /\ ~CheckedOut(s)
  /\ git' = [git EXCEPT ![s].elsewhere = ~@]
  /\ UNCHANGED <<registry, op, faults>>

DropBranch(s) ==
  /\ Shown(s)
  /\ ~CheckedOut(s)
  /\ ~git[s].elsewhere
  /\ git' = [git EXCEPT ![s].tip = 0, ![s].merged = 0]
  /\ UNCHANGED <<registry, op, faults>>

Damage(s) ==
  /\ Shown(s)
  /\ git[s].path = "tree"
  /\ Fault
  /\ \E rest \in {"strange", "absent"} : git' = Broken(s, rest)
  /\ UNCHANGED <<registry, op>>

(* Somebody puts a lock of their own on the worktree.                       *)
Meddle(s) ==
  /\ Shown(s)
  /\ git[s].entry \in {"free", "ours"}
  /\ git' = [git EXCEPT ![s].entry = "other"]
  /\ UNCHANGED <<registry, op, faults>>

(* `git worktree prune`, by hand or by gc.                                  *)
Prune(s) ==
  /\ git[s].path = "absent"
  /\ git[s].entry = "free"
  /\ git' = Removed(s)
  /\ UNCHANGED <<registry, op, faults>>

-----------------------------------------------------------------------------

Init ==
  /\ record = [s \in Spaces |-> IF s \in Legacy THEN "ready" ELSE "none"]
  /\ recorded = [s \in Spaces |-> FALSE]
  /\ \E lock \in {"free", "other"} :
       git = [s \in Spaces |->
         IF s \in Legacy THEN [NoGit EXCEPT !.path = "tree", !.entry = lock,
                                            !.tip = 1, !.merged = 1]
         ELSE NoGit]
  /\ op = Idle
  /\ faults = 0

Begin ==
  \/ \E s \in Spaces : CreateWorkspace(s)
  \/ \E s \in Spaces, force \in BOOLEAN : DeleteWorkspace(s, force)
  \/ Snapshot
  \/ Cleanup

Advance ==
  \/ Add \/ Lock \/ Commit \/ Undo \/ UndoUnlock \/ UndoRemove \/ UndoRelock
  \/ Relock \/ Risk \/ Withdraw \/ Mark \/ Locate \/ Unlock \/ Remove \/ Restore
  \/ Branch \/ DeleteBranch \/ Forget
  \/ Migrate \/ Reconcile \/ Sweep

People ==
  \E s \in Spaces :
    \/ Edit(s) \/ Switch(s) \/ CommitWork(s) \/ Merge(s)
    \/ CheckOutElsewhere(s) \/ DropBranch(s) \/ Damage(s) \/ Meddle(s) \/ Prune(s)

Next == Begin \/ Advance \/ CallFails \/ Crash \/ People

Spec == Init /\ [][Next]_vars

(* As in WindowLifecycle: a running operation moves on, and the hourly      *)
(* cleanup gets its turn.                                                   *)
Fairness == WF_vars(Advance) /\ SF_vars(Cleanup)

LiveSpec == Spec /\ Fairness

-----------------------------------------------------------------------------
(* Properties.                                                              *)

(* Whatever brings a workspace back into use, the end of its creation, the  *)
(* recovery of one or the withdrawal of a deletion that had unlocked it,    *)
(* its worktree is not left unlocked.                                       *)
ReadyMeansLocked ==
  [][\A s \in Spaces :
       /\ record[s] # "ready"
       /\ record'[s] = "ready"
       /\ git'[s].path = "tree"
       => git'[s].entry # "free"]_vars

(* No step of the editor takes a lock that somebody else put on a worktree, *)
(* or removes a worktree under such a lock, however late it was put there.  *)
ForeignLocksHold ==
  [][\A s \in Spaces :
       git[s].entry = "other" /\ op' # op
         => git'[s].entry = "other" /\ git'[s].path = git[s].path]_vars

Unlocking == {"unlock", "undoUnlock"}

(* The part of it that holds: a lock of somebody else that is there when    *)
(* the editor last looks before `git worktree unlock` is not taken, whether *)
(* it was put there before the operation or after the risks were assessed,  *)
(* and no other step takes one or removes a worktree under it: neither the  *)
(* relock of a retry or of a failed removal, nor a migration or recovery.   *)
SeenForeignLocksHold ==
  [][\A s \in Spaces :
       git[s].entry = "other" /\ op' # op
         => /\ git'[s].path = git[s].path
            /\ git'[s].entry = "other" \/ (Here = s /\ op.at \in Unlocking)
            /\ ~(op'.space = s /\ op'.at \in Unlocking)]_vars

(* A deletion without force, and any cleanup, destroys no commit that only  *)
(* the initial branch holds and no modified or untracked file, whatever     *)
(* people commit or write after the risks were assessed, and whatever an    *)
(* earlier request had been allowed to destroy.                             *)
WorkSurvives ==
  [][\A s \in Spaces :
       /\ op.req \in {"delete", "cleanup"}
       /\ ~op.force
       /\ op' # op
       => /\ git[s].tip > git[s].merged => git'[s].tip # 0
          /\ git[s].dirty = "untracked" /\ git[s].path = "tree" => git'[s].path = "tree"]_vars

(* A rollback or a recovery never drops the record of a creation while a    *)
(* branch or a directory it may have made is still there.                   *)
RecordGoesLast ==
  [][\A s \in Spaces :
       record[s] = "createPending" /\ record'[s] = "none"
         => git[s].path = "absent" /\ git[s].tip = 0]_vars

(* A worktree follows the owned-resource protocol: intent before it is made *)
(* and before it is removed, the record last.                               *)
Ownership == INSTANCE OwnedResource WITH
  Resources <- Spaces,
  record <- record,
  exists <- [s \in Spaces |-> git[s].path # "absent"]

OwnedResourceSpec == Ownership!Spec

Migratable == \A s \in Unmigrated : Lockable(s)

(* An interrupted creation is settled, unless git was killed in the middle  *)
(* of it or an older workspace blocks every cleanup.                        *)
CreationsSettle ==
  \A s \in Spaces :
    record[s] = "createPending" ~>
      \/ record[s] # "createPending"
      \/ git[s].path = "strange" \/ git[s].entry = "other"
      \/ git[s].path = "absent" /\ git[s].tip # 0
      \/ ~Migratable

(* What speaks against a deletion that nobody confirms: a directory that is *)
(* no worktree any more, work in it, or a branch with commits of its own.   *)
Risky(s) ==
  \/ BranchRisk(s) # "clear"
  \/ git[s].path = "strange"
  \/ git[s].path = "tree" /\ (git[s].dirty # "clean" \/ git[s].head = "detached")

(* A deletion that was begun is finished or withdrawn, unless a risk speaks *)
(* against it or the lock is somebody else's: an interrupted unlock or      *)
(* removal is resumed.                                                      *)
DeletionsSettle ==
  \A s \in Spaces :
    record[s] = "deletePending" ~>
      record[s] # "deletePending" \/ Risky(s) \/ git[s].entry = "other" \/ ~Migratable

(* The part of it that holds: unless the directory is gone and what git     *)
(* still knows of the worktree is not locked.                               *)
DeletionsSettleUnlessHalfRemoved ==
  \A s \in Spaces :
    record[s] = "deletePending" ~>
      \/ record[s] # "deletePending" \/ Risky(s) \/ git[s].entry = "other" \/ ~Migratable
      \/ git[s].path = "absent" /\ git[s].entry = "free"
=============================================================================
