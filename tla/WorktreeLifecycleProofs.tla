---------------------- MODULE WorktreeLifecycleProofs ----------------------
(***************************************************************************)
(* What holds of the worktrees of any number of workspaces, however often  *)
(* the host is killed, git fails or people work in the repository between  *)
(* two steps: a workspace comes back into use locked, a lock of somebody   *)
(* else that the editor sees is left alone, unsaved work survives, the     *)
(* record goes last, and the worktrees follow the protocol of              *)
(* OwnedResource.                                                          *)
(***************************************************************************)
EXTENDS WorktreeLifecycle, TLAPS

-----------------------------------------------------------------------------
(* The inductive invariant: what the operation at each of its stages may    *)
(* still take for granted of its workspace.  People cannot touch it before  *)
(* its creation is over, and afterwards they can only do what they may do.  *)

OfCreation == {"add", "lock", "commit", "undo", "undoUnlock", "undoRemove", "undoRelock"}
BeforeMark == {"relock", "risk", "withdraw", "mark"}
OfRemoval == {"locate", "unlock", "remove", "restore"}
OfBranch == {"branch", "deleteBranch", "forget"}
OfOneSpace == OfCreation \cup BeforeMark \cup OfRemoval \cup OfBranch

(* A creation is pending up to its commit: nobody else makes its worktree   *)
(* before it does, or unlocks it. A rollback may follow a commit that       *)
(* reported an error.                                                       *)
CreationOK ==
  op.at \in OfCreation =>
    /\ op.req = "create"
    /\ op.at \in {"add", "lock", "commit"} => record[Here] = "createPending"
    /\ At("add") => git[Here].path = "absent" /\ git[Here].entry = "none" /\ git[Here].tip = 0
    /\ At("commit") => git[Here].entry = "ours"

(* A deletion has something to delete; one that may be withdrawn has its    *)
(* lock back; and nothing is removed without the recorded intent.           *)
DeletionOK ==
  /\ op.at \in BeforeMark => record[Here] # "none"
  /\ /\ op.at \in {"risk", "withdraw"}
     /\ record[Here] = "deletePending" /\ git[Here].path = "tree"
     => git[Here].entry # "free"
  /\ op.at \in OfRemoval => record[Here] = "deletePending"

(* The branch goes after the worktree, and the record after the branch.     *)
BranchOK ==
  op.at \in OfBranch =>
    /\ git[Here].path = "absent"
    /\ At("forget") /\ record[Here] = "createPending" => git[Here].tip = 0

(* The commit a branch was seen at holds nothing of its own unless the      *)
(* deletion may destroy it; what people commit afterwards lies above it.    *)
SeenOK ==
  At("deleteBranch") =>
    /\ op.oid > 0
    /\ git[Here].tip = 0 \/ git[Here].tip >= op.oid
    /\ ~op.force /\ ~op.owned /\ git[Here].tip = op.oid => git[Here].tip =< git[Here].merged

(* The workspaces a cleanup has still to sweep are there: only the one in   *)
(* hand loses its record.                                                   *)
SweepOK ==
  /\ op.at \in {"migrate", "reconcile"} => Here = None
  /\ op.at \in {"reconcile", "sweep"} => Recovering
  /\ op.req = "cleanup" => \A s \in op.todo : record[s] # "none" /\ s # Here

OpOK ==
  /\ op.at \in OfOneSpace => Here \in Spaces
  /\ op.req \in {"delete", "cleanup"} => ~op.owned
  /\ CreationOK /\ DeletionOK /\ BranchOK /\ SeenOK /\ SweepOK

IInv == TypeOK /\ OpOK

-----------------------------------------------------------------------------
(* Where an operation goes, and what happens to a worktree.                 *)

(* The operation goes on with another stage of the same request.            *)
Moves(stage) ==
  /\ op' \in Ops /\ op'.at = stage
  /\ op'.req = op.req /\ op'.space = Here /\ op'.force = op.force
  /\ op'.owned = op.owned /\ op'.oid = op.oid /\ op'.todo = op.todo
  /\ stage = "sweep" => Recovering

(* It takes the error path of its stage.                                    *)
Failed ==
  \/ op' = Idle
  \/ Moves("sweep")
  \/ /\ op.at \in {"add", "lock", "commit"}
     /\ op' \in Ops /\ op'.at = "undo" /\ op'.req = op.req /\ op'.space = Here
  \/ op.at = "undoRemove" /\ Moves("undoRelock")
  \/ op.at \in {"unlock", "remove"} /\ Moves("restore")

(* Nothing but the worktree of s is touched, and of it only what is named.  *)
Touches(s) ==
  /\ git' \in [Spaces -> GitStates]
  /\ \A t \in Spaces \ {s} : git'[t] = git[t]

KeepsBranch(s) ==
  /\ git'[s].tip = git[s].tip /\ git'[s].merged = git[s].merged
  /\ git'[s].elsewhere = git[s].elsewhere

SetsEntry(s, entry) ==
  /\ Touches(s) /\ KeepsBranch(s)
  /\ git'[s].entry = entry
  /\ git'[s].path = git[s].path /\ git'[s].dirty = git[s].dirty

RemovesTree(s) ==
  /\ Touches(s) /\ KeepsBranch(s)
  /\ git'[s].path = "absent" /\ git'[s].entry = "none"

BreaksTree(s) ==
  /\ Touches(s) /\ KeepsBranch(s)
  /\ git'[s].path \in {"strange", "absent"} /\ git'[s].entry = git[s].entry

(* The shapes of what these definitions use. *)
LEMMA Shapes ==
  /\ Idle \in Ops /\ Idle.at = "idle" /\ Idle.req = "none" /\ Idle.owned = FALSE
  /\ NoGit \in GitStates /\ NoGit.path = "absent" /\ NoGit.entry = "none" /\ NoGit.tip = 0
  /\ 0 \in 0..MaxTip /\ 1 \in 0..MaxTip
  /\ "idle" \notin OfOneSpace /\ "sweep" \notin OfOneSpace
  BY BoundAssumption, NoneAssumption
  DEF Idle, Ops, Stages, NoGit, GitStates, OfOneSpace, OfCreation, BeforeMark, OfRemoval,
      OfBranch

(* Goto changes the stage and nothing else of the request.                  *)
LEMMA GotoMoves ==
  ASSUME op \in Ops, NEW stage \in Stages, Goto(stage), stage = "sweep" => Recovering
  PROVE  Moves(stage)
  BY DEF Goto, Moves, Ops, Here

(* The end of a deletion is the end of the request, or of one turn of a     *)
(* cleanup's sweep.                                                         *)
LEMMA EndMoves ==
  ASSUME op \in Ops, End
  PROVE  op' = Idle \/ Moves("sweep")
  BY GotoMoves DEF End, Finish, Stages

(* The error path of every stage is one of those Failed names.              *)
LEMMA FailMoves ==
  ASSUME op \in Ops, Fail
  PROVE  Failed
<1>1. CASE At("add")
  <2>1. Goto("undo")
    BY <1>1 DEF Fail, At
  <2> QED
    BY <1>1, <2>1, GotoMoves DEF Failed, Moves, At, Stages
<1>2. CASE At("lock") \/ At("commit")
  <2>1. op' = [op EXCEPT !.at = "undo", !.owned = TRUE]
    BY <1>2 DEF Fail, At
  <2> QED
    BY <1>2, <2>1 DEF Failed, At, Ops, Stages, Here
<1>3. CASE At("undoRemove")
  <2>1. Goto("undoRelock") \/ Finish
    BY <1>3 DEF Fail, At
  <2> QED
    BY <1>3, <2>1, GotoMoves DEF Failed, At, Stages, Finish
<1>4. CASE At("unlock") \/ At("remove")
  <2>1. Goto("restore")
    BY <1>4 DEF Fail, At
  <2> QED
    BY <1>4, <2>1, GotoMoves DEF Failed, At, Stages
<1>5. CASE At("migrate") \/ At("reconcile")
  <2>1. Finish
    BY <1>5 DEF Fail, At
  <2> QED
    BY <2>1 DEF Failed, Finish
<1>6. CASE op.at \notin {"add", "lock", "commit", "undoRemove", "unlock", "remove", "migrate",
                         "reconcile"}
  <2>1. End
    BY <1>6 DEF Fail, At
  <2> QED
    BY <2>1, EndMoves DEF Failed
<1> QED
  BY <1>1, <1>2, <1>3, <1>4, <1>5, <1>6 DEF At

(* An operation that failed is a well-formed one.                           *)
LEMMA FailedTyped ==
  ASSUME Failed
  PROVE  op' \in Ops
  BY Shapes DEF Failed, Moves

(* The bound on the faults is kept by a step that counts one or none.       *)
LEMMA FaultCounts ==
  ASSUME faults \in 0..MaxFaults, UNCHANGED faults \/ Fault
  PROVE  faults' \in 0..MaxFaults
  BY BoundAssumption DEF Fault

(* Locking and unlocking change the registration of the worktree only.      *)
LEMMA EntrySet ==
  ASSUME git \in [Spaces -> GitStates], NEW s \in Spaces,
         NEW entry \in {"none", "free", "ours", "other"},
         git' = [git EXCEPT ![s].entry = entry]
  PROVE  SetsEntry(s, entry)
<1>1. git[s] \in GitStates
  OBVIOUS
<1>2. git' \in [Spaces -> GitStates]
  BY <1>1 DEF GitStates
<1> QED
  BY <1>1, <1>2 DEF SetsEntry, Touches, KeepsBranch, GitStates

(* A removal takes the directory and the registration and leaves the        *)
(* branch.                                                                  *)
LEMMA TreeRemoved ==
  ASSUME git \in [Spaces -> GitStates], NEW s \in Spaces, git' = Removed(s)
  PROVE  RemovesTree(s)
<1>1. git[s] \in GitStates
  OBVIOUS
<1>2. git' \in [Spaces -> GitStates]
  BY <1>1 DEF GitStates, Removed
<1> QED
  BY <1>1, <1>2 DEF RemovesTree, Touches, KeepsBranch, GitStates, Removed

(* A removal that is killed half way, or damage, leaves the registration    *)
(* and the branch.                                                          *)
LEMMA TreeBroken ==
  ASSUME git \in [Spaces -> GitStates], NEW s \in Spaces,
         NEW rest \in {"strange", "absent"}, git' = Broken(s, rest)
  PROVE  BreaksTree(s) /\ git'[s].path = rest
<1>1. git[s] \in GitStates
  OBVIOUS
<1>2. git' \in [Spaces -> GitStates]
  BY <1>1 DEF GitStates, Broken
<1> QED
  BY <1>1, <1>2 DEF BreaksTree, Touches, KeepsBranch, GitStates, Broken

-----------------------------------------------------------------------------
(* What each step does.                                                     *)

(* The workspace of an operation is one of the editor's.                    *)
LEMMA HereIsOne ==
  ASSUME IInv, op.at \in OfOneSpace
  PROVE  Here \in Spaces /\ op \in Ops /\ git[Here] \in GitStates /\ record[Here] \in Records
  BY DEF IInv, TypeOK, OpOK

(* CreateWorkspace records its intent and makes nothing yet.                *)
LEMMA CreateStep ==
  ASSUME IInv, NEW s \in Spaces, CreateWorkspace(s)
  PROVE  /\ TypeOK' /\ git' = git /\ op = Idle /\ record[s] = "none" /\ git[s] = NoGit
         /\ record' = [record EXCEPT ![s] = "createPending"]
         /\ op'.at = "add" /\ op'.space = s /\ op'.req = "create"
<1>1. /\ op' \in Ops /\ op'.at = "add" /\ op'.space = s /\ op'.req = "create"
  BY Shapes DEF CreateWorkspace, Idle, Ops, Stages
<1> QED
  BY <1>1 DEF CreateWorkspace, IInv, TypeOK, Records

(* The worktree may be made, or only its branch.                            *)
LEMMA AddStep ==
  ASSUME IInv, Add
  PROVE  /\ TypeOK' /\ At("add") /\ UNCHANGED registry /\ Touches(Here)
         /\ git[Here].path = "absent" /\ git'[Here].path \in {"absent", "tree"}
         /\ op'.at \in {"lock", "undo"} /\ op'.req = op.req /\ op'.space = Here
<1>1. At("add") /\ UNCHANGED registry /\ git[Here].path = "absent" /\ Here \in Spaces
  BY HereIsOne DEF Add, Addable, At, OfOneSpace, OfCreation
<1>2. /\ UNCHANGED faults \/ Fault
      /\ Goto("lock") \/ Fail
      /\ \/ git' = Added(Here)
         \/ git' = [git EXCEPT ![Here].tip = 1, ![Here].merged = 1]
         \/ git' = [Added(Here) EXCEPT ![Here].entry = "other"]
  BY DEF Add, Then
<1>3. op' \in Ops /\ op'.at \in {"lock", "undo"} /\ op'.req = op.req /\ op'.space = Here
  BY <1>1, <1>2, GotoMoves, HereIsOne
  DEF Fail, Moves, At, OfOneSpace, OfCreation, Stages
<1>4. Touches(Here) /\ git'[Here].path \in {"absent", "tree"}
  <2>1. git[Here] \in GitStates /\ git \in [Spaces -> GitStates]
    BY <1>1 DEF IInv, TypeOK
  <2>2. CASE git' = [git EXCEPT ![Here].tip = 1, ![Here].merged = 1]
    BY <1>1, <2>1, <2>2, Shapes DEF Touches, GitStates
  <2> DEFINE new == [NoGit EXCEPT !.path = "tree", !.entry = "free", !.tip = 1, !.merged = 1]
  <2>3. /\ new \in GitStates /\ new.path = "tree" /\ Added(Here) = [git EXCEPT ![Here] = new]
    BY Shapes DEF GitStates, Added
  <2> HIDE DEF new
  <2>4. CASE git' = Added(Here)
    BY <1>1, <2>1, <2>3, <2>4 DEF Touches
  <2>5. CASE git' = [Added(Here) EXCEPT ![Here].entry = "other"]
    <3>1. git' = [git EXCEPT ![Here] = [new EXCEPT !.entry = "other"]]
      BY <1>1, <2>1, <2>3, <2>5
    <3>2. [new EXCEPT !.entry = "other"] \in GitStates /\ [new EXCEPT !.entry = "other"].path = "tree"
      BY <2>3 DEF GitStates
    <3> QED
      BY <1>1, <2>1, <3>1, <3>2 DEF Touches
  <2> QED
    BY <1>2, <2>2, <2>4, <2>5
<1>5. TypeOK'
  BY <1>1, <1>2, <1>3, <1>4, FaultCounts DEF IInv, TypeOK, registry, Touches
<1> QED
  BY <1>1, <1>3, <1>4, <1>5

(* Every call that locks again either does, or finds the lock somebody      *)
(* else's or no worktree.                                                   *)
LockedOrLeft == git' = git \/ (SetsEntry(Here, "ours") /\ git[Here].entry # "other")

(* A creation goes on only with its worktree locked.                        *)
LEMMA LockStep ==
  ASSUME IInv, Lock
  PROVE  /\ TypeOK' /\ At("lock") /\ UNCHANGED registry /\ LockedOrLeft
         /\ op'.req = op.req /\ op'.space = Here
         /\ op'.at = "undo" \/ (op'.at = "commit" /\ SetsEntry(Here, "ours"))
<1>1. At("lock") /\ UNCHANGED registry /\ Here \in Spaces
  BY HereIsOne DEF Lock, At, OfOneSpace, OfCreation
<1>2. /\ UNCHANGED faults \/ Fault
      /\ Fail \/ (Goto("commit") /\ git' = [git EXCEPT ![Here].entry = "ours"])
      /\ git' = git \/ (git' = [git EXCEPT ![Here].entry = "ours"] /\ git[Here].entry # "other")
  BY DEF Lock, EnsureLock, Then, Lockable
<1>3. git' = [git EXCEPT ![Here].entry = "ours"] => SetsEntry(Here, "ours")
  BY <1>1, EntrySet DEF IInv, TypeOK
<1>4. op' \in Ops /\ op'.at \in {"commit", "undo"} /\ op'.req = op.req /\ op'.space = Here
  <2>1. Fail => op' = [op EXCEPT !.at = "undo", !.owned = TRUE]
    BY <1>1 DEF Fail, At
  <2> QED
    BY <1>1, <1>2, <2>1, GotoMoves, HereIsOne
    DEF Moves, At, OfOneSpace, OfCreation, Stages, Ops, Here
<1>5. op'.at = "commit" => SetsEntry(Here, "ours")
  <2>1. Fail => op'.at = "undo"
    BY <1>1, HereIsOne DEF Fail, At, Ops, OfOneSpace, OfCreation
  <2> QED
    BY <1>2, <1>3, <2>1
<1>6. TypeOK'
  BY <1>1, <1>2, <1>3, <1>4, FaultCounts DEF IInv, TypeOK, registry, SetsEntry, Touches
<1> QED
  BY <1>1, <1>2, <1>3, <1>4, <1>5, <1>6 DEF LockedOrLeft

(* The commit writes the record only; a commit that reports an error is     *)
(* rolled back.                                                             *)
LEMMA CommitStep ==
  ASSUME IInv, Commit
  PROVE  /\ TypeOK' /\ At("commit") /\ git' = git
         /\ record' = [record EXCEPT ![Here] = "ready"] /\ Here \in Spaces
         /\ op' = Idle \/ (op'.at = "undo" /\ op'.req = op.req /\ op'.space = Here)
<1>1. /\ At("commit") /\ git' = git /\ Here \in Spaces
      /\ record' = [record EXCEPT ![Here] = "ready"]
      /\ recorded' = [recorded EXCEPT ![Here] = TRUE]
  BY HereIsOne DEF Commit, At, OfOneSpace, OfCreation
<1>2. (UNCHANGED faults \/ Fault) /\ (op' = Idle \/ Fail)
  BY DEF Commit, Then, Finish
<1>3. op' \in Ops /\ (op' = Idle \/ (op'.at = "undo" /\ op'.req = op.req /\ op'.space = Here))
  <2>1. Fail => op' = [op EXCEPT !.at = "undo", !.owned = TRUE]
    BY <1>1 DEF Fail, At
  <2>2. op \in Ops
    BY DEF IInv, TypeOK
  <2>3. CASE Fail
    BY <2>1, <2>2, <2>3 DEF Stages, Ops, Here
  <2> QED
    BY <1>2, <2>3, Shapes
<1> QED
  BY <1>1, <1>2, <1>3, FaultCounts DEF IInv, TypeOK, Records

(* `git worktree unlock` takes the lock or finds none; the operation goes   *)
(* on or takes its error path.                                              *)
LEMMA UnlockEffect ==
  ASSUME IInv, Here \in Spaces, NEW stage \in Stages, UnlockTree(Goto(stage))
  PROVE  /\ git' = git \/ SetsEntry(Here, "free")
         /\ git' \in [Spaces -> GitStates]
         /\ UNCHANGED faults \/ Fault
         /\ Goto(stage) \/ Fail
<1>1. git \in [Spaces -> GitStates]
  BY DEF IInv, TypeOK
<1>2. git' = [git EXCEPT ![Here].entry = "free"] => SetsEntry(Here, "free")
  BY <1>1, EntrySet
<1>3. /\ git' = git \/ git' = [git EXCEPT ![Here].entry = "free"]
      /\ UNCHANGED faults \/ Fault
      /\ Goto(stage) \/ Fail
  BY DEF UnlockTree, Then
<1> QED
  BY <1>1, <1>2, <1>3 DEF SetsEntry, Touches

(* A rollback that finds the worktree as it made it unlocks it if it is     *)
(* locked, and removes it.                                                  *)
LEMMA UndoStep ==
  ASSUME IInv, Undo
  PROVE  /\ TypeOK' /\ At("undo") /\ UNCHANGED <<registry, git>>
         /\ \/ op' = Idle
            \/ /\ op'.req = op.req /\ op'.space = Here
               /\ op'.at \in {"undoUnlock", "undoRemove"}
               /\ op'.at = "undoUnlock" => git[Here].entry = "ours"
            \/ /\ git[Here].path = "absent"
               /\ op'.req = op.req /\ op'.space = Here /\ op'.at \in {"branch", "forget"}
               /\ op'.at = "forget" => git[Here].tip = 0
<1>1. At("undo") /\ UNCHANGED <<registry, git, faults>> /\ Here \in Spaces /\ op \in Ops
  BY HereIsOne DEF Undo, At, OfOneSpace, OfCreation
<1>2. CASE git[Here].path = "absent"
  <2>1. op' = Idle \/ Goto("branch") \/ (Goto("forget") /\ git[Here].tip = 0)
    BY <1>2 DEF Undo, Finish
  <2>2. op' = Idle \/ Moves("branch") \/ (Moves("forget") /\ git[Here].tip = 0)
    BY <1>1, <2>1, GotoMoves DEF Stages
  <2>3. op' \in Ops
    BY <2>2, Shapes DEF Moves
  <2> QED
    BY <1>1, <1>2, <2>2, <2>3 DEF IInv, TypeOK, registry, Moves
<1>3. CASE git[Here].path # "absent"
  <2> DEFINE ours == git[Here].entry = "ours"
             stage == IF ours THEN "undoUnlock" ELSE "undoRemove"
  <2>1. op' = Idle \/ op' = [op EXCEPT !.at = stage, !.relock = ours]
    BY <1>3 DEF Undo, Finish
  <2>2. stage \in Stages /\ stage \in {"undoUnlock", "undoRemove"} /\ (stage = "undoUnlock" => ours)
    BY DEF Stages
  <2>3. ours \in BOOLEAN
    OBVIOUS
  <2> HIDE DEF ours, stage
  <2>4. /\ op' \in Ops
        /\ \/ op' = Idle
           \/ op'.req = op.req /\ op'.space = Here /\ op'.at = stage
    BY <1>1, <2>1, <2>2, <2>3, Shapes DEF Ops, Here
  <2> QED
    BY <1>1, <2>2, <2>4 DEF IInv, TypeOK, registry, ours
<1> QED
  BY <1>2, <1>3

(* A rollback removes the worktree it has unlocked, or gives up.            *)
LEMMA UndoUnlockStep ==
  ASSUME IInv, UndoUnlock
  PROVE  /\ TypeOK' /\ At("undoUnlock") /\ UNCHANGED registry
         /\ git' = git \/ SetsEntry(Here, "free")
         /\ op' = Idle \/ Moves("undoRemove")
<1>1. At("undoUnlock") /\ UNCHANGED registry /\ Here \in Spaces /\ op \in Ops
  BY HereIsOne DEF UndoUnlock, At, OfOneSpace, OfCreation
<1>2. /\ git' = git \/ SetsEntry(Here, "free")
      /\ git' \in [Spaces -> GitStates]
      /\ UNCHANGED faults \/ Fault
      /\ Goto("undoRemove") \/ Fail
  BY <1>1, UnlockEffect DEF UndoUnlock, Stages
<1>3. Fail => op' = Idle
  BY <1>1 DEF Fail, At, End, Recovering, Finish, IInv, OpOK, CreationOK, OfCreation
<1>4. op' = Idle \/ Moves("undoRemove")
  BY <1>1, <1>2, <1>3, GotoMoves DEF Stages
<1>5. op' \in Ops
  BY <1>4, Shapes DEF Moves
<1> QED
  BY <1>1, <1>2, <1>4, <1>5, FaultCounts DEF IInv, TypeOK, registry

(* A worktree is removed, half removed, or left; only an unlocked one, and  *)
(* with force if it holds untracked files.                                  *)
RemovedOrLeft(force) ==
  \/ git' = git
  \/ /\ RemovesTree(Here) \/ BreaksTree(Here)
     /\ git[Here].entry = "free" /\ git[Here].path # "strange"
     /\ git[Here].path = "tree" /\ git[Here].dirty = "untracked" => force
     /\ git[Here].path = "absent" => git'[Here].path = "absent"

(* What `git worktree remove` leaves, whether or not it is killed.          *)
LEMMA RemoveEffect ==
  ASSUME git \in [Spaces -> GitStates], Here \in Spaces, NEW force \in BOOLEAN,
         \/ git' = git
         \/ Removable(Here, force) /\ git' = Removed(Here)
         \/ /\ Removable(Here, force) /\ git[Here].path = "tree"
            /\ \E rest \in {"strange", "absent"} : git' = Broken(Here, rest)
  PROVE  RemovedOrLeft(force) /\ git' \in [Spaces -> GitStates]
<1>1. git' = Removed(Here) => RemovesTree(Here)
  BY TreeRemoved
<1>2. ASSUME NEW rest \in {"strange", "absent"}, git' = Broken(Here, rest)
      PROVE  BreaksTree(Here)
  BY <1>2, TreeBroken
<1> QED
  BY <1>1, <1>2 DEF RemovedOrLeft, Removable, RemovesTree, BreaksTree, Touches

(* A rollback goes on to the branch only when the directory is gone.        *)
LEMMA UndoRemoveStep ==
  ASSUME IInv, UndoRemove
  PROVE  /\ TypeOK' /\ At("undoRemove") /\ UNCHANGED registry /\ RemovedOrLeft(TRUE)
         /\ \/ op' = Idle
            \/ op'.req = op.req /\ op'.space = Here /\ op'.at = "undoRelock"
            \/ /\ op'.req = op.req /\ op'.space = Here /\ op'.at = "branch"
               /\ git'[Here].path = "absent"
<1>1. At("undoRemove") /\ UNCHANGED registry /\ Here \in Spaces /\ op \in Ops
  BY HereIsOne DEF UndoRemove, At, OfOneSpace, OfCreation
<1>2. /\ UNCHANGED faults \/ Fault
      /\ \/ git' = git
         \/ Removable(Here, TRUE) /\ git' = Removed(Here)
         \/ /\ Removable(Here, TRUE) /\ git[Here].path = "tree"
            /\ \E rest \in {"strange", "absent"} : git' = Broken(Here, rest)
      /\ \/ Fail
         \/ op' = [op EXCEPT !.at = "branch", !.owned = TRUE] /\ git' = Removed(Here)
  BY DEF UndoRemove, RemoveTree, Then
<1>3. RemovedOrLeft(TRUE) /\ git' \in [Spaces -> GitStates]
  BY <1>1, <1>2, RemoveEffect DEF IInv, TypeOK
<1>4. Fail => op' = Idle \/ Moves("undoRelock")
  BY <1>1, GotoMoves DEF Fail, At, Finish, Stages
<1>5. git' = Removed(Here) => git'[Here].path = "absent"
  BY <1>1, TreeRemoved DEF IInv, TypeOK, RemovesTree
<1>6. /\ op' \in Ops
      /\ \/ op' = Idle
         \/ op'.req = op.req /\ op'.space = Here /\ op'.at = "undoRelock"
         \/ /\ op'.req = op.req /\ op'.space = Here /\ op'.at = "branch"
            /\ git'[Here].path = "absent"
  <2>1. CASE Fail
    BY <1>4, <2>1, Shapes DEF Moves
  <2>2. CASE op' = [op EXCEPT !.at = "branch", !.owned = TRUE] /\ git' = Removed(Here)
    BY <1>1, <1>5, <2>2 DEF Ops, Stages, Here
  <2> QED
    BY <1>2, <2>1, <2>2
<1> QED
  BY <1>1, <1>2, <1>3, <1>6, FaultCounts DEF IInv, TypeOK, registry

(* A rollback that could not remove the worktree locks it again and ends.   *)
LEMMA UndoRelockStep ==
  ASSUME IInv, UndoRelock
  PROVE  /\ TypeOK' /\ At("undoRelock") /\ UNCHANGED registry /\ LockedOrLeft /\ op' = Idle
<1>1. At("undoRelock") /\ UNCHANGED registry /\ Here \in Spaces /\ op \in Ops
  BY HereIsOne DEF UndoRelock, At, OfOneSpace, OfCreation
<1>2. /\ UNCHANGED faults \/ Fault
      /\ op' = Idle \/ Fail
      /\ git' = git \/ (git' = [git EXCEPT ![Here].entry = "ours"] /\ git[Here].entry # "other")
  BY DEF UndoRelock, EnsureLock, Then, Lockable, Finish
<1>3. Fail => op' = Idle
  BY <1>1 DEF Fail, At, End, Recovering, Finish, IInv, OpOK, CreationOK, OfCreation
<1>4. git' = [git EXCEPT ![Here].entry = "ours"] => SetsEntry(Here, "ours")
  BY <1>1, EntrySet DEF IInv, TypeOK
<1> QED
  BY <1>1, <1>2, <1>3, <1>4, Shapes, FaultCounts
  DEF IInv, TypeOK, registry, SetsEntry, Touches, LockedOrLeft

(* A deletion that was interrupted before starts by restoring the lock.     *)
LEMMA DeleteStep ==
  ASSUME IInv, NEW s \in Spaces, NEW force \in BOOLEAN, DeleteWorkspace(s, force)
  PROVE  /\ TypeOK' /\ UNCHANGED <<registry, git>> /\ op = Idle
         /\ record[s] # "none" /\ op'.space = s /\ op'.req = "delete" /\ op'.owned = FALSE
         /\ op'.at \in {"relock", "risk"} /\ (record[s] = "deletePending" => op'.at = "relock")
<1>1. PICK req \in {"delete", "cleanup"} : req = "delete"
  OBVIOUS
<1>2. op' = Deletion(s, force, req)
  BY <1>1 DEF DeleteWorkspace
<1>3. /\ Deletion(s, force, req) \in Ops
      /\ Deletion(s, force, req).space = s /\ Deletion(s, force, req).req = req
      /\ Deletion(s, force, req).owned = FALSE
      /\ Deletion(s, force, req).at \in {"relock", "risk"}
      /\ record[s] = "deletePending" => Deletion(s, force, req).at = "relock"
  BY <1>1, Shapes DEF Deletion, Idle, Ops, Stages
<1>4. /\ op' \in Ops /\ op'.space = s /\ op'.req = "delete" /\ op'.owned = FALSE
      /\ op'.at \in {"relock", "risk"} /\ (record[s] = "deletePending" => op'.at = "relock")
  BY <1>1, <1>2, <1>3
<1> QED
  BY <1>4 DEF DeleteWorkspace, IInv, TypeOK, registry

(* An interrupted deletion goes on only with the lock restored or the       *)
(* directory gone.                                                          *)
LEMMA RelockStep ==
  ASSUME IInv, Relock
  PROVE  /\ TypeOK' /\ At("relock") /\ UNCHANGED registry /\ LockedOrLeft
         /\ \/ op' = Idle \/ Moves("sweep")
            \/ Moves("risk") /\ ((git[Here].path = "absent" /\ git' = git)
                                 \/ SetsEntry(Here, "ours"))
<1>1. At("relock") /\ UNCHANGED registry /\ Here \in Spaces /\ op \in Ops
  BY HereIsOne DEF Relock, At, OfOneSpace, BeforeMark
<1>2. git' = [git EXCEPT ![Here].entry = "ours"] => SetsEntry(Here, "ours")
  BY <1>1, EntrySet DEF IInv, TypeOK
<1>3. /\ UNCHANGED faults \/ Fault
      /\ git' = git \/ (git' = [git EXCEPT ![Here].entry = "ours"] /\ git[Here].entry # "other")
      /\ \/ End \/ Fail
         \/ Goto("risk") /\ ((git[Here].path = "absent" /\ git' = git)
                             \/ git' = [git EXCEPT ![Here].entry = "ours"])
  BY DEF Relock, EnsureLock, Then, Lockable
<1>4. Fail => End
  BY <1>1 DEF Fail, At
<1>5. /\ \/ op' = Idle \/ Moves("sweep")
         \/ Moves("risk") /\ ((git[Here].path = "absent" /\ git' = git)
                              \/ SetsEntry(Here, "ours"))
  BY <1>1, <1>2, <1>3, <1>4, EndMoves, GotoMoves DEF Stages
<1>6. op' \in Ops
  BY <1>5, Shapes DEF Moves
<1> QED
  BY <1>1, <1>2, <1>3, <1>5, <1>6, FaultCounts
  DEF IInv, TypeOK, registry, SetsEntry, Touches, LockedOrLeft

(* The assessment of the risks changes nothing.                             *)
LEMMA RiskStep ==
  ASSUME IInv, Risk
  PROVE  /\ TypeOK' /\ At("risk") /\ UNCHANGED <<registry, git>>
         /\ op' = Idle \/ Moves("sweep") \/ Moves("mark") \/ Moves("withdraw")
<1>1. At("risk") /\ UNCHANGED <<registry, git>> /\ op \in Ops
  BY HereIsOne DEF Risk, At, OfOneSpace, BeforeMark
<1>2. (UNCHANGED faults \/ Fault) /\ (End \/ Goto("mark") \/ Goto("withdraw"))
  BY DEF Risk
<1>3. op' = Idle \/ Moves("sweep") \/ Moves("mark") \/ Moves("withdraw")
  BY <1>1, <1>2, EndMoves, GotoMoves DEF Stages
<1>4. op' \in Ops
  BY <1>3, Shapes DEF Moves
<1> QED
  BY <1>1, <1>2, <1>3, <1>4, FaultCounts DEF IInv, TypeOK, registry

(* A refused deletion takes back the intent of an earlier one, and nothing  *)
(* else.                                                                    *)
LEMMA WithdrawStep ==
  ASSUME IInv, Withdraw
  PROVE  /\ TypeOK' /\ At("withdraw") /\ git' = git /\ Here \in Spaces
         /\ \/ record' = record
            \/ record[Here] = "deletePending" /\ record' = [record EXCEPT ![Here] = "ready"]
         /\ op' = Idle \/ Moves("sweep")
<1>1. At("withdraw") /\ UNCHANGED <<recorded, git>> /\ Here \in Spaces /\ op \in Ops
  BY HereIsOne DEF Withdraw, At, OfOneSpace, BeforeMark
<1>2. /\ UNCHANGED faults \/ Fault
      /\ op' = Idle \/ Fail
      /\ record' = [record EXCEPT ![Here] = IF @ = "deletePending" THEN "ready" ELSE @]
  BY DEF Withdraw, Then, Finish
<1>3. Fail => End
  BY <1>1 DEF Fail, At
<1>4. op' = Idle \/ Moves("sweep")
  BY <1>1, <1>2, <1>3, EndMoves
<1>5. \/ record' = record
      \/ record[Here] = "deletePending" /\ record' = [record EXCEPT ![Here] = "ready"]
  BY <1>1, <1>2 DEF IInv, TypeOK
<1>6. op' \in Ops
  BY <1>4, Shapes DEF Moves
<1> QED
  BY <1>1, <1>2, <1>4, <1>5, <1>6, FaultCounts DEF IInv, TypeOK, Records

(* Nothing is removed before the intent is in the record, and never under a *)
(* pending creation.                                                        *)
LEMMA MarkStep ==
  ASSUME IInv, Mark
  PROVE  /\ TypeOK' /\ At("mark") /\ git' = git /\ Here \in Spaces
         /\ \/ record' = record
            \/ /\ record[Here] # "createPending"
               /\ record' = [record EXCEPT ![Here] = "deletePending"]
         /\ \/ op' = Idle \/ Moves("sweep")
            \/ Moves("locate") /\ record' = [record EXCEPT ![Here] = "deletePending"]
<1>1. At("mark") /\ UNCHANGED <<recorded, git>> /\ Here \in Spaces /\ op \in Ops
  BY HereIsOne DEF Mark, At, OfOneSpace, BeforeMark
<1>2. /\ UNCHANGED faults \/ Fault
      /\ \/ record' = record
         \/ /\ record[Here] # "createPending"
            /\ record' = [record EXCEPT ![Here] = "deletePending"]
      /\ End \/ Fail \/ (Goto("locate") /\ record' = [record EXCEPT ![Here] = "deletePending"])
  BY DEF Mark, Then
<1>3. Fail => End
  BY <1>1 DEF Fail, At
<1>4. \/ op' = Idle \/ Moves("sweep")
      \/ Moves("locate") /\ record' = [record EXCEPT ![Here] = "deletePending"]
  BY <1>1, <1>2, <1>3, EndMoves, GotoMoves DEF Stages
<1>5. op' \in Ops
  BY <1>4, Shapes DEF Moves
<1> QED
  BY <1>1, <1>2, <1>4, <1>5, FaultCounts DEF IInv, TypeOK, Records

(* A deletion goes straight to the branch only when the directory is gone,  *)
(* and unlocks what it sees the editor has locked.                          *)
LEMMA LocateStep ==
  ASSUME IInv, Locate
  PROVE  /\ TypeOK' /\ At("locate") /\ UNCHANGED <<registry, git>>
         /\ \/ op' = Idle \/ Moves("sweep")
            \/ Moves("unlock") /\ git[Here].entry = "ours"
            \/ Moves("branch") /\ git[Here].path = "absent"
<1>1. At("locate") /\ UNCHANGED <<registry, git, faults>> /\ op \in Ops
  BY HereIsOne DEF Locate, At, OfOneSpace, OfRemoval
<1>2. \/ End
      \/ Goto("unlock") /\ git[Here].entry = "ours"
      \/ Goto("branch") /\ git[Here].path = "absent"
  BY DEF Locate
<1>3. \/ op' = Idle \/ Moves("sweep")
      \/ Moves("unlock") /\ git[Here].entry = "ours"
      \/ Moves("branch") /\ git[Here].path = "absent"
  BY <1>1, <1>2, EndMoves, GotoMoves DEF Stages
<1>4. op' \in Ops
  BY <1>3, Shapes DEF Moves
<1> QED
  BY <1>1, <1>3, <1>4 DEF IInv, TypeOK, registry

(* A deletion removes the worktree it has unlocked, or locks it again.      *)
LEMMA UnlockStep ==
  ASSUME IInv, Unlock
  PROVE  /\ TypeOK' /\ At("unlock") /\ UNCHANGED registry
         /\ git' = git \/ SetsEntry(Here, "free")
         /\ Moves("remove") \/ Moves("restore")
<1>1. At("unlock") /\ UNCHANGED registry /\ Here \in Spaces /\ op \in Ops
  BY HereIsOne DEF Unlock, At, OfOneSpace, OfRemoval
<1>2. /\ git' = git \/ SetsEntry(Here, "free")
      /\ git' \in [Spaces -> GitStates]
      /\ UNCHANGED faults \/ Fault
      /\ Goto("remove") \/ Fail
  BY <1>1, UnlockEffect DEF Unlock, Stages
<1>3. Fail => Goto("restore")
  BY <1>1 DEF Fail, At
<1>4. Moves("remove") \/ Moves("restore")
  BY <1>1, <1>2, <1>3, GotoMoves DEF Stages
<1> QED
  BY <1>1, <1>2, <1>4, FaultCounts DEF IInv, TypeOK, registry, Moves

(* A deletion goes on to the branch only when the directory is gone.        *)
LEMMA RemoveStep ==
  ASSUME IInv, Remove
  PROVE  /\ TypeOK' /\ At("remove") /\ UNCHANGED registry /\ RemovedOrLeft(op.force)
         /\ Moves("restore") \/ (Moves("branch") /\ git'[Here].path = "absent")
<1>1. At("remove") /\ UNCHANGED registry /\ Here \in Spaces /\ op \in Ops /\ op.force \in BOOLEAN
  BY HereIsOne DEF Remove, At, OfOneSpace, OfRemoval, Ops
<1>2. /\ UNCHANGED faults \/ Fault
      /\ \/ git' = git
         \/ Removable(Here, op.force) /\ git' = Removed(Here)
         \/ /\ Removable(Here, op.force) /\ git[Here].path = "tree"
            /\ \E rest \in {"strange", "absent"} : git' = Broken(Here, rest)
      /\ Fail \/ (Goto("branch") /\ git' = Removed(Here))
  BY DEF Remove, RemoveTree, Then
<1>3. RemovedOrLeft(op.force) /\ git' \in [Spaces -> GitStates]
  BY <1>1, <1>2, RemoveEffect DEF IInv, TypeOK
<1>4. Fail => Goto("restore")
  BY <1>1 DEF Fail, At
<1>5. git' = Removed(Here) => git'[Here].path = "absent"
  BY <1>1, TreeRemoved DEF IInv, TypeOK, RemovesTree
<1>6. Moves("restore") \/ (Moves("branch") /\ git'[Here].path = "absent")
  BY <1>1, <1>2, <1>4, <1>5, GotoMoves DEF Stages
<1> QED
  BY <1>1, <1>2, <1>3, <1>6, FaultCounts DEF IInv, TypeOK, registry, Moves

(* A removal that failed locks the worktree again.                          *)
LEMMA RestoreStep ==
  ASSUME IInv, Restore
  PROVE  /\ TypeOK' /\ At("restore") /\ UNCHANGED registry /\ LockedOrLeft
         /\ op' = Idle \/ Moves("sweep")
<1>1. At("restore") /\ UNCHANGED registry /\ Here \in Spaces /\ op \in Ops
  BY HereIsOne DEF Restore, At, OfOneSpace, OfRemoval
<1>2. /\ UNCHANGED faults \/ Fault
      /\ End \/ Fail
      /\ git' = git \/ (git' = [git EXCEPT ![Here].entry = "ours"] /\ git[Here].entry # "other")
  BY DEF Restore, EnsureLock, Then, Lockable
<1>3. Fail => End
  BY <1>1 DEF Fail, At
<1>4. git' = [git EXCEPT ![Here].entry = "ours"] => SetsEntry(Here, "ours")
  BY <1>1, EntrySet DEF IInv, TypeOK
<1>5. op' = Idle \/ Moves("sweep")
  BY <1>1, <1>2, <1>3, EndMoves
<1>6. op' \in Ops
  BY <1>5, Shapes DEF Moves
<1> QED
  BY <1>1, <1>2, <1>4, <1>5, <1>6, FaultCounts
  DEF IInv, TypeOK, registry, SetsEntry, Touches, LockedOrLeft

(* The branch is gone, or noted at a commit that may be destroyed.          *)
LEMMA BranchStep ==
  ASSUME IInv, Branch
  PROVE  /\ TypeOK' /\ At("branch") /\ UNCHANGED <<registry, git>>
         /\ \/ op' = Idle \/ Moves("sweep")
            \/ Moves("forget") /\ git[Here].tip = 0
            \/ /\ op'.at = "deleteBranch" /\ op'.space = Here /\ op'.req = op.req
               /\ op'.force = op.force /\ op'.owned = op.owned /\ op'.todo = op.todo
               /\ op'.oid = git[Here].tip /\ git[Here].tip # 0
               /\ ~op.force /\ ~op.owned => git[Here].tip =< git[Here].merged
<1>1. /\ At("branch") /\ UNCHANGED <<registry, git, faults>> /\ Here \in Spaces /\ op \in Ops
      /\ git[Here] \in GitStates
  BY HereIsOne DEF Branch, At, OfOneSpace, OfBranch
<1>2. git[Here].tip \in 0..MaxTip /\ git[Here].merged \in 0..MaxTip
  BY <1>1 DEF GitStates
<1>3. CASE End \/ (Goto("forget") /\ git[Here].tip = 0)
  <2>1. op' = Idle \/ Moves("sweep") \/ (Moves("forget") /\ git[Here].tip = 0)
    BY <1>1, <1>3, EndMoves, GotoMoves DEF Stages
  <2>2. op' \in Ops
    BY <2>1, Shapes DEF Moves
  <2> QED
    BY <1>1, <2>1, <2>2 DEF IInv, TypeOK, registry
<1>4. CASE /\ op' = [op EXCEPT !.at = "deleteBranch", !.oid = git[Here].tip]
           /\ git[Here].tip # 0
           /\ ~op.force /\ ~op.owned => ~(git[Here].tip > git[Here].merged)
  <2>1. git[Here].tip > git[Here].merged \/ git[Here].tip =< git[Here].merged
    BY <1>2, BoundAssumption
  <2>2. /\ op' \in Ops /\ op'.at = "deleteBranch" /\ op'.space = Here /\ op'.req = op.req
        /\ op'.force = op.force /\ op'.owned = op.owned /\ op'.todo = op.todo
        /\ op'.oid = git[Here].tip
    BY <1>1, <1>2, <1>4 DEF Ops, Stages, Here
  <2> QED
    BY <1>1, <1>4, <2>1, <2>2 DEF IInv, TypeOK, registry
<1> QED
  BY <1>3, <1>4 DEF Branch

(* The branch goes only at the commit it was seen at, and the worktree's    *)
(* registration stays.                                                      *)
LEMMA DeleteBranchStep ==
  ASSUME IInv, DeleteBranch
  PROVE  /\ TypeOK' /\ At("deleteBranch") /\ UNCHANGED registry /\ Touches(Here)
         /\ git'[Here].path = git[Here].path /\ git'[Here].entry = git[Here].entry
         /\ git' = git \/ (git[Here].tip = op.oid /\ git'[Here].tip = 0)
         /\ op' = Idle \/ Moves("sweep") \/ (Moves("forget") /\ git'[Here].tip = 0)
<1>1. /\ At("deleteBranch") /\ UNCHANGED registry /\ Here \in Spaces /\ op \in Ops
      /\ git \in [Spaces -> GitStates]
  BY HereIsOne DEF DeleteBranch, At, OfOneSpace, OfBranch, IInv, TypeOK
<1>2. /\ UNCHANGED faults \/ Fault
      /\ \/ End /\ git' = git
         \/ /\ git[Here].tip = op.oid /\ git' = [git EXCEPT ![Here].tip = 0, ![Here].merged = 0]
            /\ Goto("forget") \/ Fail
  BY DEF DeleteBranch, Then
<1>3. Fail => End
  BY <1>1 DEF Fail, At
<1>4. git' = [git EXCEPT ![Here].tip = 0, ![Here].merged = 0] =>
        /\ git'[Here].tip = 0 /\ Touches(Here)
        /\ git'[Here].path = git[Here].path /\ git'[Here].entry = git[Here].entry
  <2>1. git[Here] \in GitStates
    BY <1>1
  <2> SUFFICES ASSUME git' = [git EXCEPT ![Here].tip = 0, ![Here].merged = 0]
               PROVE  /\ git'[Here].tip = 0 /\ Touches(Here)
                      /\ git'[Here].path = git[Here].path /\ git'[Here].entry = git[Here].entry
    OBVIOUS
  <2> DEFINE r == [git[Here] EXCEPT !.tip = 0, !.merged = 0]
  <2>2. git' = [git EXCEPT ![Here] = r]
    BY <1>1
  <2>3. r \in GitStates /\ r.tip = 0 /\ r.path = git[Here].path /\ r.entry = git[Here].entry
    BY <2>1, Shapes DEF GitStates
  <2> HIDE DEF r
  <2>4. git'[Here] = r /\ Touches(Here)
    BY <1>1, <2>2, <2>3 DEF Touches
  <2> QED
    BY <2>3, <2>4
<1>5. op' = Idle \/ Moves("sweep") \/ (Moves("forget") /\ git'[Here].tip = 0)
  BY <1>1, <1>2, <1>3, <1>4, EndMoves, GotoMoves DEF Stages
<1>6. op' \in Ops
  BY <1>5, Shapes DEF Moves
<1> QED
  BY <1>1, <1>2, <1>4, <1>5, <1>6, FaultCounts DEF IInv, TypeOK, registry, Touches

(* The record is dropped and nothing else changes.                          *)
LEMMA ForgetStep ==
  ASSUME IInv, Forget
  PROVE  /\ TypeOK' /\ At("forget") /\ git' = git /\ Here \in Spaces
         /\ record' = [record EXCEPT ![Here] = "none"]
         /\ op' = Idle \/ Moves("sweep")
<1>1. At("forget") /\ git' = git /\ Here \in Spaces /\ op \in Ops
  BY HereIsOne DEF Forget, At, OfOneSpace, OfBranch
<1>2. /\ UNCHANGED faults \/ Fault
      /\ End \/ Fail
      /\ record' = [record EXCEPT ![Here] = "none"]
      /\ recorded' = [recorded EXCEPT ![Here] = FALSE]
  BY DEF Forget, Then
<1>3. Fail => End
  BY <1>1 DEF Fail, At
<1>4. op' = Idle \/ Moves("sweep")
  BY <1>1, <1>2, <1>3, EndMoves
<1>5. op' \in Ops
  BY <1>4, Shapes DEF Moves
<1> QED
  BY <1>1, <1>2, <1>4, <1>5, FaultCounts DEF IInv, TypeOK, Records

-----------------------------------------------------------------------------
(* The steps that concern several workspaces.                               *)

(* A refresh of the view and a cleanup start with no workspace in hand.     *)
LEMMA BeginMigration ==
  ASSUME IInv, Snapshot \/ Cleanup
  PROVE  /\ TypeOK' /\ UNCHANGED <<registry, git>> /\ op = Idle
         /\ op'.at = "migrate" /\ op'.space = None /\ op'.owned = FALSE /\ op'.todo = {}
<1>1. /\ op' \in Ops /\ op'.at = "migrate" /\ op'.space = None /\ op'.owned = FALSE
      /\ op'.todo = {} /\ UNCHANGED <<registry, git, faults>> /\ op = Idle
  <2>1. CASE Snapshot
    BY <2>1, Shapes DEF Snapshot, Idle, Ops, Stages
  <2>2. CASE Cleanup
    BY <2>2, Shapes DEF Cleanup, Idle, Ops, Stages
  <2> QED
    BY <2>1, <2>2
<1> QED
  BY <1>1 DEF IInv, TypeOK, registry

(* One older worktree at a time gets its lock.                              *)
LEMMA MigrateStep ==
  ASSUME IInv, Migrate
  PROVE  /\ TypeOK' /\ At("migrate") /\ UNCHANGED record
         /\ op' = Idle \/ op' = op \/ (Moves("reconcile") /\ Recovering)
         /\ \/ git' = git
            \/ \E s \in Unmigrated : SetsEntry(s, "ours") /\ git[s].entry # "other"
<1>1. /\ At("migrate") /\ UNCHANGED record /\ op \in Ops /\ git \in [Spaces -> GitStates]
      /\ recorded \in [Spaces -> BOOLEAN]
  BY DEF Migrate, IInv, TypeOK
<1>2. CASE /\ UNCHANGED <<registry, git, faults>>
           /\ (Goto("reconcile") /\ Recovering) \/ Finish
  <2>1. (Moves("reconcile") /\ Recovering) \/ op' = Idle
    BY <1>1, <1>2, GotoMoves DEF Finish, Stages
  <2>2. op' \in Ops
    BY <2>1, Shapes DEF Moves
  <2> QED
    BY <1>1, <1>2, <2>1, <2>2 DEF IInv, TypeOK, registry
<1>3. ASSUME NEW s \in Unmigrated,
             IF Lockable(s)
               THEN /\ git' = [git EXCEPT ![s].entry = "ours"]
                    /\ \/ /\ recorded' = [recorded EXCEPT ![s] = TRUE]
                          /\ Then(UNCHANGED op)
                       \/ /\ Fault
                          /\ Finish
                          /\ UNCHANGED recorded
               ELSE Finish /\ UNCHANGED <<recorded, git, faults>>
      PROVE  /\ TypeOK'
             /\ op' = Idle \/ op' = op
             /\ git' = git \/ (SetsEntry(s, "ours") /\ git[s].entry # "other")
  <2>1. s \in Spaces
    BY DEF Unmigrated
  <2>2. CASE ~Lockable(s)
    BY <1>1, <1>3, <2>2, Shapes DEF Finish, IInv, TypeOK
  <2>3. CASE Lockable(s)
    <3>1. /\ git' = [git EXCEPT ![s].entry = "ours"] /\ git[s].entry # "other"
          /\ UNCHANGED faults \/ Fault
          /\ UNCHANGED op \/ Fail \/ Finish
          /\ recorded' = [recorded EXCEPT ![s] = TRUE] \/ recorded' = recorded
      BY <1>3, <2>3 DEF Then, Lockable
    <3>2. Fail => Finish
      BY <1>1 DEF Fail, At
    <3>3. SetsEntry(s, "ours")
      BY <1>1, <2>1, <3>1, EntrySet
    <3>4. recorded' \in [Spaces -> BOOLEAN]
      BY <1>1, <3>1
    <3> QED
      BY <1>1, <3>1, <3>2, <3>3, <3>4, Shapes, FaultCounts
      DEF Finish, IInv, TypeOK, SetsEntry, Touches
  <2> QED
    BY <2>2, <2>3
<1> QED
  BY <1>1, <1>2, <1>3 DEF Migrate

(* One write commits the creations that are locked, and drops those of      *)
(* which nothing came.                                                      *)
LEMMA ReconcileStep ==
  ASSUME IInv, Reconcile
  PROVE  /\ TypeOK' /\ At("reconcile")
         /\ \A s \in Spaces :
              /\ \/ git'[s] = git[s]
                 \/ s \in Recoverable /\ git'[s] = [git[s] EXCEPT !.entry = "ours"]
              /\ \/ record'[s] = record[s]
                 \/ s \in Recoverable /\ record'[s] = "ready" /\ git'[s].entry = "ours"
                 \/ s \in Untouched /\ record'[s] = "none" /\ git'[s] = git[s]
         /\ \/ op' = Idle
            \/ /\ op'.at = "sweep" /\ op'.space = Here /\ op'.req = op.req
               /\ op'.owned = op.owned
               /\ op'.todo = {s \in Spaces : record'[s] = "deletePending"}
<1>1. PICK unsure \in SUBSET Pending, locked \in SUBSET Recoverable, saved \in BOOLEAN :
       /\ saved => Recoverable \ unsure \subseteq locked
       /\ git' = [s \in Spaces |->
            IF s \in locked THEN [git[s] EXCEPT !.entry = "ours"] ELSE git[s]]
       /\ record' = [s \in Spaces |->
            IF ~saved \/ s \in unsure THEN record[s]
            ELSE IF s \in Recoverable THEN "ready"
            ELSE IF s \in Untouched THEN "none" ELSE record[s]]
       /\ recorded' = [s \in Spaces |->
            recorded[s] \/ (saved /\ s \in Recoverable \ unsure)]
       /\ \/ saved /\ unsure = {} /\ Then(SweepNext)
          \/ saved /\ unsure # {} /\ Fault /\ SweepNext
          \/ ~saved /\ Fault /\ Finish
  BY DEF Reconcile
<1>2. /\ At("reconcile") /\ op \in Ops /\ git \in [Spaces -> GitStates]
      /\ record \in [Spaces -> Records] /\ recorded \in [Spaces -> BOOLEAN]
  BY DEF Reconcile, IInv, TypeOK
<1>3. \A s \in Spaces : git[s] \in GitStates /\ [git[s] EXCEPT !.entry = "ours"] \in GitStates
                        /\ [git[s] EXCEPT !.entry = "ours"].entry = "ours"
  BY <1>2 DEF GitStates
<1>4. git' \in [Spaces -> GitStates]
  BY <1>1, <1>3
<1>5. record' \in [Spaces -> Records]
  BY <1>1, <1>2 DEF Records
<1>6. recorded' \in [Spaces -> BOOLEAN]
  BY <1>1, <1>2
<1>7. Untouched \cap Recoverable = {}
  BY DEF Untouched, Recoverable, Lockable
<1>8. ASSUME NEW s \in Spaces
      PROVE  /\ \/ git'[s] = git[s]
                \/ s \in Recoverable /\ git'[s] = [git[s] EXCEPT !.entry = "ours"]
             /\ \/ record'[s] = record[s]
                \/ s \in Recoverable /\ record'[s] = "ready" /\ git'[s].entry = "ours"
                \/ s \in Untouched /\ record'[s] = "none" /\ git'[s] = git[s]
  <2>1. git'[s] = IF s \in locked THEN [git[s] EXCEPT !.entry = "ours"] ELSE git[s]
    BY <1>1
  <2>2. record'[s] = IF ~saved \/ s \in unsure THEN record[s]
                     ELSE IF s \in Recoverable THEN "ready"
                     ELSE IF s \in Untouched THEN "none" ELSE record[s]
    BY <1>1
  <2>3. locked \subseteq Recoverable /\ (saved => Recoverable \ unsure \subseteq locked)
    BY <1>1
  <2>4. CASE ~saved \/ s \in unsure
    BY <2>1, <2>2, <2>3, <2>4
  <2>5. CASE saved /\ s \notin unsure /\ s \in Recoverable
    BY <1>3, <2>1, <2>2, <2>3, <2>5
  <2>6. CASE saved /\ s \notin unsure /\ s \notin Recoverable
    BY <2>1, <2>2, <2>3, <2>6
  <2> QED
    BY <2>4, <2>5, <2>6
<1>9. (UNCHANGED faults \/ Fault) /\ (SweepNext \/ Finish)
  <2>1. Fail => Finish
    BY <1>2 DEF Fail, At
  <2> QED
    BY <1>1, <2>1 DEF Then
<1>10. /\ op' \in Ops
       /\ \/ op' = Idle
          \/ /\ op'.at = "sweep" /\ op'.space = Here /\ op'.req = op.req
             /\ op'.owned = op.owned
             /\ op'.todo = {s \in Spaces : record'[s] = "deletePending"}
  <2>1. CASE Finish
    BY <2>1, Shapes DEF Finish
  <2>2. CASE SweepNext
    BY <1>2, <2>2 DEF SweepNext, Ops, Stages, Here
  <2> QED
    BY <1>9, <2>1, <2>2
<1> QED
  BY <1>2, <1>4, <1>5, <1>6, <1>8, <1>9, <1>10, FaultCounts DEF IInv, TypeOK

(* A cleanup deletes the pending ones one after the other, never with       *)
(* force.                                                                   *)
LEMMA SweepStep ==
  ASSUME IInv, Sweep
  PROVE  /\ TypeOK' /\ At("sweep") /\ UNCHANGED <<registry, git>>
         /\ \/ op' = Idle
            \/ \E s \in op.todo :
                 /\ op'.space = s /\ op'.req = "cleanup" /\ op'.owned = FALSE
                 /\ op'.todo = op.todo \ {s}
                 /\ op'.at \in {"relock", "risk"}
                 /\ record[s] = "deletePending" => op'.at = "relock"
<1>1. At("sweep") /\ UNCHANGED <<registry, git, faults>> /\ op \in Ops /\ op.todo \subseteq Spaces
  BY DEF Sweep, IInv, TypeOK, Ops
<1>2. CASE Finish
  BY <1>1, <1>2, Shapes DEF Finish, IInv, TypeOK, registry
<1>3. ASSUME NEW s \in op.todo,
             op' = [Deletion(s, FALSE, "cleanup") EXCEPT !.todo = op.todo \ {s}]
      PROVE  /\ op' \in Ops
             /\ op'.space = s /\ op'.req = "cleanup" /\ op'.owned = FALSE
             /\ op'.todo = op.todo \ {s}
             /\ op'.at \in {"relock", "risk"}
             /\ record[s] = "deletePending" => op'.at = "relock"
  <2>1. s \in Spaces /\ op.todo \ {s} \in SUBSET Spaces
    BY <1>1
  <2>2. op' = [at |-> IF record[s] = "deletePending" THEN "relock" ELSE "risk",
               req |-> "cleanup", space |-> s, force |-> FALSE, owned |-> FALSE,
               relock |-> FALSE, oid |-> 0, todo |-> op.todo \ {s}]
    BY <1>3 DEF Deletion, Idle
  <2> QED
    BY <2>1, <2>2, Shapes DEF Ops, Stages
<1> QED
  BY <1>1, <1>2, <1>3 DEF Sweep, IInv, TypeOK, registry

(* A call that fails without effect only changes where the operation goes.  *)
LEMMA CallFailsStep ==
  ASSUME IInv, CallFails
  PROVE  TypeOK' /\ UNCHANGED <<registry, git>> /\ Failed /\ op.at \notin {"idle", "sweep"}
<1>1. Failed /\ op' \in Ops
  BY FailMoves, FailedTyped DEF CallFails, IInv, TypeOK
<1> QED
  BY <1>1, FaultCounts DEF CallFails, IInv, TypeOK, registry

(* A kill of the host leaves the registry and the repository as they are.   *)
LEMMA CrashStep ==
  ASSUME IInv, Crash
  PROVE  TypeOK' /\ UNCHANGED <<registry, git>> /\ op' = Idle
<1>1. op' = Idle /\ UNCHANGED <<registry, git>> /\ op' \in Ops
  BY Shapes DEF Crash, Finish
<1> QED
  BY <1>1, FaultCounts DEF Crash, IInv, TypeOK, registry

-----------------------------------------------------------------------------
(* What people may do to a worktree: they make none, unlock none, and touch *)
(* none of a creation that is still pending except to prune or to merge.    *)

OnlyPeople(s) ==
  /\ Touches(s)
  /\ \/ git'[s].path = git[s].path
     \/ Shown(s) /\ git[s].path = "tree" /\ git'[s].path \in {"strange", "absent"}
  /\ \/ git'[s].entry = git[s].entry
     \/ Shown(s) /\ git'[s].entry = "other"
     \/ git[s].entry = "free" /\ git'[s].entry = "none"
  /\ \/ git'[s].tip = git[s].tip /\ git'[s].merged \in {git[s].merged, git[s].tip}
     \/ git[s].tip > 0 /\ git'[s].tip = git[s].tip + 1 /\ git'[s].merged = git[s].merged
     \/ git'[s].tip = 0

(* A worktree is put into the state r.                                      *)
LEMMA Puts ==
  ASSUME git \in [Spaces -> GitStates], NEW s \in Spaces, NEW r \in GitStates,
         git' = [git EXCEPT ![s] = r]
  PROVE  Touches(s) /\ git'[s] = r
  BY DEF Touches

(* Whatever people do, it is within what OnlyPeople allows them.            *)
LEMMA PeopleStep ==
  ASSUME IInv, NEW s \in Spaces,
         \/ Edit(s) \/ Switch(s) \/ CommitWork(s) \/ Merge(s)
         \/ CheckOutElsewhere(s) \/ DropBranch(s) \/ Damage(s) \/ Meddle(s) \/ Prune(s)
  PROVE  TypeOK' /\ UNCHANGED <<registry, op>> /\ OnlyPeople(s)
<1>1. git \in [Spaces -> GitStates] /\ git[s] \in GitStates
  BY DEF IInv, TypeOK
<1>2. git[s].tip \in 0..MaxTip /\ git[s].merged \in 0..MaxTip /\ git[s].elsewhere \in BOOLEAN
  BY <1>1 DEF GitStates
<1>3. UNCHANGED <<registry, op>> /\ (UNCHANGED faults \/ Fault)
  BY DEF Edit, Switch, CommitWork, Merge, CheckOutElsewhere, DropBranch, Damage, Meddle, Prune
<1>4. OnlyPeople(s)
  <2>1. CASE Edit(s)
    <3>1. PICK files \in {"clean", "ignored", "untracked"} :
            git' = [git EXCEPT ![s].dirty = files]
      BY <2>1 DEF Edit
    <3> DEFINE r == [git[s] EXCEPT !.dirty = files]
    <3>2. git' = [git EXCEPT ![s] = r]
      BY <1>1, <3>1
    <3>3. r \in GitStates /\ r.path = git[s].path /\ r.entry = git[s].entry /\ r.tip = git[s].tip
          /\ r.merged = git[s].merged
      BY <1>1 DEF GitStates
    <3> HIDE DEF r
    <3> QED
      BY <1>1, <3>2, <3>3, Puts DEF OnlyPeople
  <2>2. CASE Switch(s)
    <3>1. PICK head \in {"initial", "other", "detached"} : git' = [git EXCEPT ![s].head = head]
      BY <2>2 DEF Switch
    <3> DEFINE r == [git[s] EXCEPT !.head = head]
    <3>2. git' = [git EXCEPT ![s] = r]
      BY <1>1, <3>1
    <3>3. r \in GitStates /\ r.path = git[s].path /\ r.entry = git[s].entry /\ r.tip = git[s].tip
          /\ r.merged = git[s].merged
      BY <1>1 DEF GitStates
    <3> HIDE DEF r
    <3> QED
      BY <1>1, <3>2, <3>3, Puts DEF OnlyPeople
  <2>3. CASE CommitWork(s)
    <3> DEFINE r == [git[s] EXCEPT !.tip = git[s].tip + 1]
    <3>1. git' = [git EXCEPT ![s] = r] /\ git[s].tip \in 1..(MaxTip - 1)
      BY <1>1, <2>3 DEF CommitWork
    <3>2. git[s].tip + 1 \in 0..MaxTip /\ git[s].tip > 0
      BY <1>2, <3>1, BoundAssumption
    <3>3. r \in GitStates /\ r.path = git[s].path /\ r.entry = git[s].entry
          /\ r.tip = git[s].tip + 1 /\ r.merged = git[s].merged
      BY <1>1, <3>2 DEF GitStates
    <3> HIDE DEF r
    <3> QED
      BY <1>1, <3>1, <3>2, <3>3, Puts DEF OnlyPeople
  <2>4. CASE Merge(s)
    <3> DEFINE r == [git[s] EXCEPT !.merged = git[s].tip]
    <3>1. git' = [git EXCEPT ![s] = r]
      BY <1>1, <2>4 DEF Merge
    <3>2. r \in GitStates /\ r.path = git[s].path /\ r.entry = git[s].entry /\ r.tip = git[s].tip
          /\ r.merged = git[s].tip
      BY <1>1, <1>2 DEF GitStates
    <3> HIDE DEF r
    <3> QED
      BY <1>1, <3>1, <3>2, Puts DEF OnlyPeople
  <2>5. CASE CheckOutElsewhere(s)
    <3> DEFINE r == [git[s] EXCEPT !.elsewhere = ~git[s].elsewhere]
    <3>1. git' = [git EXCEPT ![s] = r]
      BY <1>1, <2>5 DEF CheckOutElsewhere
    <3>2. r \in GitStates /\ r.path = git[s].path /\ r.entry = git[s].entry /\ r.tip = git[s].tip
          /\ r.merged = git[s].merged
      BY <1>1, <1>2 DEF GitStates
    <3> HIDE DEF r
    <3> QED
      BY <1>1, <3>1, <3>2, Puts DEF OnlyPeople
  <2>6. CASE DropBranch(s)
    <3> DEFINE r == [git[s] EXCEPT !.tip = 0, !.merged = 0]
    <3>1. git' = [git EXCEPT ![s] = r]
      BY <1>1, <2>6 DEF DropBranch
    <3>2. r \in GitStates /\ r.path = git[s].path /\ r.entry = git[s].entry /\ r.tip = 0
      BY <1>1, Shapes DEF GitStates
    <3> HIDE DEF r
    <3> QED
      BY <1>1, <3>1, <3>2, Puts DEF OnlyPeople
  <2>7. CASE Damage(s)
    <3>1. PICK rest \in {"strange", "absent"} : git' = Broken(s, rest)
      BY <2>7 DEF Damage
    <3> QED
      BY <1>1, <2>7, <3>1, TreeBroken DEF Damage, BreaksTree, KeepsBranch, OnlyPeople
  <2>8. CASE Meddle(s)
    BY <1>1, <2>8, EntrySet DEF Meddle, SetsEntry, KeepsBranch, OnlyPeople
  <2>9. CASE Prune(s)
    BY <1>1, <2>9, TreeRemoved DEF Prune, RemovesTree, KeepsBranch, OnlyPeople
  <2> QED
    BY <2>1, <2>2, <2>3, <2>4, <2>5, <2>6, <2>7, <2>8, <2>9
<1>5. git' \in [Spaces -> GitStates]
  BY <1>4 DEF OnlyPeople, Touches
<1> QED
  BY <1>3, <1>4, <1>5, FaultCounts DEF IInv, TypeOK, registry

-----------------------------------------------------------------------------
(* The invariant is inductive.                                              *)

(* Without an operation there is nothing to take for granted.               *)
LEMMA IdleOK ==
  ASSUME op' = Idle
  PROVE  OpOK'
  BY Shapes
  DEF Recovering, OpOK, CreationOK, DeletionOK, BranchOK, SeenOK, SweepOK, OfOneSpace, OfCreation,
      BeforeMark, OfRemoval, OfBranch, At

(* Only the workspace in hand changes its record.                           *)
OthersKept == \A s \in Spaces : s # Here => record'[s] = record[s]

(* A cleanup that goes on to the next workspace finds it recorded still.    *)
LEMMA SweepsOn ==
  ASSUME IInv, OthersKept, Moves("sweep")
  PROVE  OpOK'
<1>1. op'.at = "sweep" /\ op'.req = op.req /\ op'.owned = op.owned /\ op'.todo = op.todo
      /\ op'.space = Here /\ op.todo \subseteq Spaces
  BY DEF Moves, IInv, TypeOK, Ops
<1>2. op.req \in {"delete", "cleanup"} => ~op.owned
  BY DEF IInv, OpOK
<1>3. op.req = "cleanup" => \A s \in op.todo : record'[s] # "none" /\ s # op'.space
  BY <1>1 DEF IInv, OpOK, SweepOK, OthersKept
<1> QED
  BY <1>1, <1>2, <1>3
  DEF Recovering, Moves, OpOK, CreationOK, DeletionOK, BranchOK, SeenOK, SweepOK, OfOneSpace, OfCreation,
      BeforeMark, OfRemoval, OfBranch, At, Here

(* The operation goes on with its workspace.                                *)
GoesOn ==
  /\ op'.at \in OfOneSpace /\ op'.req = op.req /\ op'.space = Here
  /\ op'.req = "create" \/ (op'.owned = op.owned /\ op'.todo = op.todo)

(* A move to another stage of one workspace keeps the request.              *)
LEMMA MovesOn ==
  ASSUME NEW stage \in OfOneSpace, Moves(stage)
  PROVE  GoesOn
  BY DEF Moves, GoesOn

(* For a step within one workspace it suffices to establish what the next   *)
(* stage takes for granted.                                                 *)
LEMMA StageOK ==
  ASSUME IInv, op.at \in OfOneSpace, GoesOn, OthersKept,
         CreationOK', DeletionOK', BranchOK', SeenOK'
  PROVE  OpOK'
<1>1. Here \in Spaces /\ op'.space = Here /\ op'.req = op.req /\ op.todo \subseteq Spaces
  BY DEF IInv, TypeOK, Ops, OpOK, GoesOn
<1>2. op.req \in {"delete", "cleanup"} => ~op.owned
  BY DEF IInv, OpOK
<1>3. op.req = "cleanup" => \A s \in op.todo : record'[s] # "none" /\ s # op'.space
  BY <1>1 DEF IInv, OpOK, SweepOK, OthersKept
<1>4. op'.at \notin {"migrate", "reconcile", "sweep"}
  BY DEF GoesOn, OfOneSpace, OfCreation, BeforeMark, OfRemoval, OfBranch
<1>5. (op.req \in {"delete", "cleanup"}) \in BOOLEAN
  OBVIOUS
<1>6. op'.req \in {"delete", "cleanup"} => ~op'.owned /\ op'.todo = op.todo
  BY <1>1, <1>2 DEF GoesOn
<1>7. SweepOK'
  BY <1>1, <1>3, <1>4, <1>6 DEF SweepOK, Here, Recovering
<1> QED
  BY <1>1, <1>6, <1>7 DEF OpOK, Here

(* CreateWorkspace establishes what Add needs: nothing is there yet.        *)
LEMMA CreateOK ==
  ASSUME IInv, NEW s \in Spaces, CreateWorkspace(s)
  PROVE  OpOK'
<1>1. /\ git' = git /\ record'[s] = "createPending" /\ git[s] = NoGit
      /\ op'.at = "add" /\ op'.space = s /\ op'.req = "create"
  BY CreateStep DEF IInv, TypeOK
<1> QED
  BY <1>1, Shapes
  DEF Recovering, OpOK, CreationOK, DeletionOK, BranchOK, SeenOK, SweepOK, OfOneSpace, OfCreation,
      BeforeMark, OfRemoval, OfBranch, At, Here

(* After `git worktree add` the creation is still pending.                  *)
LEMMA AddOK ==
  ASSUME IInv, Add
  PROVE  OpOK'
<1>1. /\ At("add") /\ UNCHANGED registry /\ op'.at \in {"lock", "undo"}
      /\ op'.req = op.req /\ op'.space = Here
  BY AddStep
<1>2. op.req = "create" /\ record[Here] = "createPending"
  BY <1>1 DEF IInv, OpOK, CreationOK, At, OfCreation
<1>3. /\ op.at \in OfOneSpace /\ op'.at \in OfOneSpace
      /\ op'.at \notin BeforeMark \cup OfRemoval \cup OfBranch
      /\ op'.at \notin {"add", "commit", "deleteBranch"}
  BY <1>1 DEF At, OfOneSpace, OfCreation, BeforeMark, OfRemoval, OfBranch
<1>4. CreationOK' /\ DeletionOK' /\ BranchOK' /\ SeenOK'
  BY <1>1, <1>2, <1>3
  DEF CreationOK, DeletionOK, BranchOK, SeenOK, registry, At, Here, BeforeMark
<1> QED
  BY <1>1, <1>2, <1>3, <1>4, StageOK DEF GoesOn, OthersKept, registry

(* Lock establishes what Commit needs: the editor's own lock.               *)
LEMMA LockOK ==
  ASSUME IInv, Lock
  PROVE  OpOK'
<1>1. /\ At("lock") /\ UNCHANGED registry /\ op'.req = op.req /\ op'.space = Here
      /\ op'.at = "undo" \/ (op'.at = "commit" /\ SetsEntry(Here, "ours"))
  BY LockStep
<1>2. op.req = "create" /\ record[Here] = "createPending"
  BY <1>1 DEF IInv, OpOK, CreationOK, At, OfCreation
<1>3. /\ op.at \in OfOneSpace /\ op'.at \in OfOneSpace
      /\ op'.at \notin BeforeMark \cup OfRemoval \cup OfBranch
      /\ op'.at \notin {"add", "deleteBranch"}
  BY <1>1 DEF At, OfOneSpace, OfCreation, BeforeMark, OfRemoval, OfBranch
<1>4. CreationOK' /\ DeletionOK' /\ BranchOK' /\ SeenOK'
  BY <1>1, <1>2, <1>3
  DEF CreationOK, DeletionOK, BranchOK, SeenOK, registry, At, Here, BeforeMark, SetsEntry
<1> QED
  BY <1>1, <1>2, <1>3, <1>4, StageOK DEF GoesOn, OthersKept, registry

(* The commit, or the rollback it may lead to, keeps the invariant.         *)
LEMMA CommitOK ==
  ASSUME IInv, Commit
  PROVE  OpOK'
<1>1. /\ At("commit") /\ record' = [record EXCEPT ![Here] = "ready"]
      /\ op' = Idle \/ (op'.at = "undo" /\ op'.req = op.req /\ op'.space = Here)
  BY CommitStep
<1>2. op.req = "create"
  BY <1>1 DEF IInv, OpOK, CreationOK, At, OfCreation
<1>3. CASE op' = Idle
  BY <1>3, IdleOK
<1>4. CASE op'.at = "undo" /\ op'.req = op.req /\ op'.space = Here
  <2>1. /\ op.at \in OfOneSpace /\ op'.at \in OfOneSpace
        /\ op'.at \notin BeforeMark \cup OfRemoval \cup OfBranch
    BY <1>1, <1>4 DEF At, OfOneSpace, OfCreation, BeforeMark, OfRemoval, OfBranch
  <2>2. CreationOK' /\ DeletionOK' /\ BranchOK' /\ SeenOK'
    BY <1>2, <1>4, <2>1 DEF CreationOK, DeletionOK, BranchOK, SeenOK, At, BeforeMark
  <2>3. OthersKept
    BY <1>1 DEF OthersKept, IInv, TypeOK
  <2> QED
    BY <1>2, <1>4, <2>1, <2>2, <2>3, StageOK DEF GoesOn
<1> QED
  BY <1>1, <1>3, <1>4

(* A rollback without directory goes to the branch, or to the record when   *)
(* there is none.                                                           *)
LEMMA UndoOK ==
  ASSUME IInv, Undo
  PROVE  OpOK'
<1>1. /\ At("undo") /\ UNCHANGED <<registry, git>>
      /\ \/ op' = Idle
         \/ op'.req = op.req /\ op'.space = Here /\ op'.at \in {"undoUnlock", "undoRemove"}
         \/ /\ git[Here].path = "absent"
            /\ op'.req = op.req /\ op'.space = Here /\ op'.at \in {"branch", "forget"}
            /\ op'.at = "forget" => git[Here].tip = 0
  BY UndoStep
<1>2. op.req = "create" /\ op.at \in OfOneSpace
  BY <1>1 DEF IInv, OpOK, CreationOK, At, OfCreation, OfOneSpace
<1>3. CASE op' = Idle
  BY <1>3, IdleOK
<1>4. CASE op'.req = op.req /\ op'.space = Here /\ op'.at \in {"undoUnlock", "undoRemove"}
  <2>1. op'.at \in OfOneSpace /\ op'.at \notin BeforeMark \cup OfRemoval \cup OfBranch
    BY <1>4 DEF OfOneSpace, OfCreation, BeforeMark, OfRemoval, OfBranch
  <2>2. CreationOK' /\ DeletionOK' /\ BranchOK' /\ SeenOK'
    BY <1>2, <1>4, <2>1 DEF CreationOK, DeletionOK, BranchOK, SeenOK, At, BeforeMark
  <2> QED
    BY <1>1, <1>2, <1>4, <2>1, <2>2, StageOK DEF GoesOn, OthersKept, registry
<1>5. CASE /\ git[Here].path = "absent"
           /\ op'.req = op.req /\ op'.space = Here /\ op'.at \in {"branch", "forget"}
           /\ op'.at = "forget" => git[Here].tip = 0
  <2>1. op'.at \in OfOneSpace /\ op'.at \notin OfCreation \cup BeforeMark \cup OfRemoval
    BY <1>5 DEF OfOneSpace, OfCreation, BeforeMark, OfRemoval, OfBranch
  <2>2. CreationOK' /\ DeletionOK' /\ BranchOK' /\ SeenOK'
    BY <1>1, <1>5, <2>1
    DEF CreationOK, DeletionOK, BranchOK, SeenOK, registry, At, Here, BeforeMark
  <2> QED
    BY <1>1, <1>2, <1>5, <2>1, <2>2, StageOK DEF GoesOn, OthersKept, registry
<1> QED
  BY <1>1, <1>3, <1>4, <1>5

(* A rollback that has unlocked its worktree may remove it.                 *)
LEMMA UndoUnlockOK ==
  ASSUME IInv, UndoUnlock
  PROVE  OpOK'
<1>1. At("undoUnlock") /\ UNCHANGED registry /\ (op' = Idle \/ Moves("undoRemove"))
  BY UndoUnlockStep
<1>2. op.req = "create" /\ op.at \in OfOneSpace
  BY <1>1 DEF IInv, OpOK, CreationOK, At, OfCreation, OfOneSpace
<1>3. CASE op' = Idle
  BY <1>3, IdleOK
<1>4. CASE Moves("undoRemove")
  <2>1. op'.req = op.req /\ op'.space = Here /\ op'.at = "undoRemove"
    BY <1>4 DEF Moves
  <2>2. op'.at \in OfOneSpace /\ op'.at \notin BeforeMark \cup OfRemoval \cup OfBranch
    BY <2>1 DEF OfOneSpace, OfCreation, BeforeMark, OfRemoval, OfBranch
  <2>3. CreationOK' /\ DeletionOK' /\ BranchOK' /\ SeenOK'
    BY <1>2, <2>1, <2>2 DEF CreationOK, DeletionOK, BranchOK, SeenOK, At, BeforeMark
  <2> QED
    BY <1>1, <1>2, <2>1, <2>2, <2>3, StageOK DEF GoesOn, OthersKept, registry
<1> QED
  BY <1>1, <1>3, <1>4

(* A rollback whose directory is gone may look at the branch.               *)
LEMMA UndoRemoveOK ==
  ASSUME IInv, UndoRemove
  PROVE  OpOK'
<1>1. /\ At("undoRemove") /\ UNCHANGED registry
      /\ \/ op' = Idle
         \/ op'.req = op.req /\ op'.space = Here /\ op'.at = "undoRelock"
         \/ /\ op'.req = op.req /\ op'.space = Here /\ op'.at = "branch"
            /\ git'[Here].path = "absent"
  BY UndoRemoveStep
<1>2. op.req = "create" /\ op.at \in OfOneSpace
  BY <1>1 DEF IInv, OpOK, CreationOK, At, OfCreation, OfOneSpace
<1>3. CASE op' = Idle
  BY <1>3, IdleOK
<1>4. CASE op'.req = op.req /\ op'.space = Here /\ op'.at = "undoRelock"
  <2>1. op'.at \in OfOneSpace /\ op'.at \notin BeforeMark \cup OfRemoval \cup OfBranch
    BY <1>4 DEF OfOneSpace, OfCreation, BeforeMark, OfRemoval, OfBranch
  <2>2. CreationOK' /\ DeletionOK' /\ BranchOK' /\ SeenOK'
    BY <1>2, <1>4, <2>1 DEF CreationOK, DeletionOK, BranchOK, SeenOK, At, BeforeMark
  <2> QED
    BY <1>1, <1>2, <1>4, <2>1, <2>2, StageOK DEF GoesOn, OthersKept, registry
<1>5. CASE /\ op'.req = op.req /\ op'.space = Here /\ op'.at = "branch"
           /\ git'[Here].path = "absent"
  <2>1. op'.at \in OfOneSpace /\ op'.at \notin OfCreation \cup BeforeMark \cup OfRemoval
    BY <1>5 DEF OfOneSpace, OfCreation, BeforeMark, OfRemoval, OfBranch
  <2>2. CreationOK' /\ DeletionOK' /\ BranchOK' /\ SeenOK'
    BY <1>1, <1>5, <2>1
    DEF CreationOK, DeletionOK, BranchOK, SeenOK, registry, At, Here, BeforeMark
  <2> QED
    BY <1>1, <1>2, <1>5, <2>1, <2>2, StageOK DEF GoesOn, OthersKept, registry
<1> QED
  BY <1>1, <1>3, <1>4, <1>5

(* DeleteWorkspace establishes what its first stage needs.                  *)
LEMMA DeleteOK ==
  ASSUME IInv, NEW s \in Spaces, NEW force \in BOOLEAN, DeleteWorkspace(s, force)
  PROVE  OpOK'
<1>1. /\ UNCHANGED <<registry, git>> /\ record[s] # "none" /\ op'.space = s
      /\ op'.req = "delete" /\ op'.owned = FALSE
      /\ op'.at \in {"relock", "risk"} /\ (record[s] = "deletePending" => op'.at = "relock")
  BY DeleteStep
<1> QED
  BY <1>1
  DEF Recovering, OpOK, CreationOK, DeletionOK, BranchOK, SeenOK, SweepOK, OfOneSpace, OfCreation,
      BeforeMark, OfRemoval, OfBranch, At, Here, registry

(* The next deletion of a cleanup starts as any deletion does.              *)
LEMMA SweepOpOK ==
  ASSUME IInv, Sweep
  PROVE  OpOK'
<1>1. /\ At("sweep") /\ UNCHANGED <<registry, git>>
      /\ \/ op' = Idle
         \/ \E s \in op.todo :
              /\ op'.space = s /\ op'.req = "cleanup" /\ op'.owned = FALSE
              /\ op'.todo = op.todo \ {s}
              /\ op'.at \in {"relock", "risk"}
              /\ record[s] = "deletePending" => op'.at = "relock"
  BY SweepStep
<1>2. ASSUME NEW s \in op.todo,
             /\ op'.space = s /\ op'.req = "cleanup" /\ op'.owned = FALSE
             /\ op'.todo = op.todo \ {s}
             /\ op'.at \in {"relock", "risk"}
             /\ record[s] = "deletePending" => op'.at = "relock"
      PROVE  OpOK'
  <2>1. op.req = "cleanup"
    BY <1>1 DEF IInv, OpOK, SweepOK, Recovering, At
  <2> QED
    BY <1>1, <1>2, <2>1
    DEF IInv, TypeOK, Ops, OpOK, CreationOK, DeletionOK, BranchOK, SeenOK, SweepOK, OfOneSpace,
        OfCreation, BeforeMark, OfRemoval, OfBranch, At, Here, Recovering, registry
<1> QED
  BY <1>1, <1>2, IdleOK

(* Relock establishes what Risk needs: no worktree of a pending deletion is *)
(* unlocked.                                                                *)
LEMMA RelockOK ==
  ASSUME IInv, Relock
  PROVE  OpOK'
<1>1. /\ At("relock") /\ UNCHANGED registry
      /\ \/ op' = Idle \/ Moves("sweep")
         \/ Moves("risk") /\ ((git[Here].path = "absent" /\ git' = git)
                              \/ SetsEntry(Here, "ours"))
  BY RelockStep
<1>2. OthersKept /\ op.at \in OfOneSpace /\ record[Here] # "none"
  BY <1>1 DEF OthersKept, registry, OfOneSpace, BeforeMark, At, IInv, OpOK, DeletionOK
<1>3. CASE Moves("risk") /\ ((git[Here].path = "absent" /\ git' = git)
                             \/ SetsEntry(Here, "ours"))
  <2>1. GoesOn /\ op'.at = "risk" /\ op'.space = Here
    BY <1>3, MovesOn DEF Moves, OfOneSpace, BeforeMark
  <2>2. op'.at \notin OfCreation \cup OfRemoval \cup OfBranch
    BY <2>1 DEF OfCreation, OfRemoval, OfBranch
  <2>3. git'[Here].path = "tree" => git'[Here].entry # "free"
    BY <1>3 DEF SetsEntry
  <2>4. CreationOK' /\ DeletionOK' /\ BranchOK' /\ SeenOK'
    BY <1>1, <1>2, <2>1, <2>2, <2>3
    DEF CreationOK, DeletionOK, BranchOK, SeenOK, registry, At, Here
  <2> QED
    BY <1>2, <2>1, <2>4, StageOK
<1> QED
  BY <1>1, <1>2, <1>3, IdleOK, SweepsOn

(* Risk hands on what Mark and Withdraw need.                               *)
LEMMA RiskOK ==
  ASSUME IInv, Risk
  PROVE  OpOK'
<1>1. /\ At("risk") /\ UNCHANGED <<registry, git>>
      /\ op' = Idle \/ Moves("sweep") \/ Moves("mark") \/ Moves("withdraw")
  BY RiskStep
<1>2. /\ OthersKept /\ op.at \in OfOneSpace /\ record[Here] # "none"
      /\ record[Here] = "deletePending" /\ git[Here].path = "tree" => git[Here].entry # "free"
  BY <1>1 DEF OthersKept, registry, OfOneSpace, BeforeMark, At, IInv, OpOK, DeletionOK
<1>3. CASE Moves("mark") \/ Moves("withdraw")
  <2>1. GoesOn /\ op'.at \in {"mark", "withdraw"} /\ op'.space = Here
    BY <1>3, MovesOn DEF Moves, OfOneSpace, BeforeMark
  <2>2. op'.at \notin OfCreation \cup OfRemoval \cup OfBranch
    BY <2>1 DEF OfCreation, OfRemoval, OfBranch
  <2>3. CreationOK' /\ DeletionOK' /\ BranchOK' /\ SeenOK'
    BY <1>1, <1>2, <2>1, <2>2
    DEF CreationOK, DeletionOK, BranchOK, SeenOK, registry, At, Here
  <2> QED
    BY <1>2, <2>1, <2>3, StageOK
<1> QED
  BY <1>1, <1>2, <1>3, IdleOK, SweepsOn

(* Withdraw ends the deletion.                                              *)
LEMMA WithdrawOK ==
  ASSUME IInv, Withdraw
  PROVE  OpOK'
<1>1. OthersKept /\ (op' = Idle \/ Moves("sweep"))
  BY WithdrawStep DEF OthersKept, IInv, TypeOK
<1> QED
  BY <1>1, IdleOK, SweepsOn

(* Mark establishes what the removal needs: the recorded intent.            *)
LEMMA MarkOK ==
  ASSUME IInv, Mark
  PROVE  OpOK'
<1>1. /\ At("mark") /\ OthersKept /\ Here \in Spaces
      /\ \/ op' = Idle \/ Moves("sweep")
         \/ Moves("locate") /\ record'[Here] = "deletePending"
  BY MarkStep DEF OthersKept, IInv, TypeOK
<1>2. CASE Moves("locate") /\ record'[Here] = "deletePending"
  <2>1. GoesOn /\ op'.at = "locate" /\ op'.space = Here
    BY <1>2, MovesOn DEF Moves, OfOneSpace, OfRemoval
  <2>2. /\ op'.at \notin OfCreation \cup BeforeMark \cup OfBranch
        /\ op.at \in OfOneSpace
    BY <1>1, <2>1 DEF OfCreation, BeforeMark, OfBranch, OfOneSpace, At
  <2>3. CreationOK' /\ DeletionOK' /\ BranchOK' /\ SeenOK'
    BY <1>2, <2>1, <2>2 DEF CreationOK, DeletionOK, BranchOK, SeenOK, At, Here, BeforeMark
  <2> QED
    BY <1>1, <2>1, <2>2, <2>3, StageOK
<1> QED
  BY <1>1, <1>2, IdleOK, SweepsOn

(* Locate hands the recorded intent on, or the absence of the directory.    *)
LEMMA LocateOK ==
  ASSUME IInv, Locate
  PROVE  OpOK'
<1>1. /\ At("locate") /\ UNCHANGED <<registry, git>>
      /\ \/ op' = Idle \/ Moves("sweep") \/ Moves("unlock")
         \/ Moves("branch") /\ git[Here].path = "absent"
  BY LocateStep
<1>2. OthersKept /\ op.at \in OfOneSpace /\ record[Here] = "deletePending"
  BY <1>1 DEF OthersKept, registry, OfOneSpace, OfRemoval, At, IInv, OpOK, DeletionOK
<1>3. CASE Moves("unlock") \/ (Moves("branch") /\ git[Here].path = "absent")
  <2>1. /\ GoesOn /\ op'.at \in {"unlock", "branch"} /\ op'.space = Here
        /\ op'.at = "branch" => git[Here].path = "absent"
    BY <1>3, MovesOn DEF Moves, OfOneSpace, OfRemoval, OfBranch
  <2>2. /\ op'.at \notin OfCreation \cup BeforeMark
        /\ op'.at \in OfBranch => op'.at = "branch"
    BY <2>1 DEF OfCreation, BeforeMark, OfBranch
  <2>3. CreationOK' /\ DeletionOK' /\ BranchOK' /\ SeenOK'
    BY <1>1, <1>2, <2>1, <2>2
    DEF CreationOK, DeletionOK, BranchOK, SeenOK, registry, At, Here, BeforeMark
  <2> QED
    BY <1>2, <2>1, <2>3, StageOK
<1> QED
  BY <1>1, <1>2, <1>3, IdleOK, SweepsOn

(* Unlock hands the recorded intent on to the removal or the restoration.   *)
LEMMA UnlockOK ==
  ASSUME IInv, Unlock
  PROVE  OpOK'
<1>1. At("unlock") /\ UNCHANGED registry /\ (Moves("remove") \/ Moves("restore"))
  BY UnlockStep
<1>2. OthersKept /\ op.at \in OfOneSpace /\ record[Here] = "deletePending"
  BY <1>1 DEF OthersKept, registry, OfOneSpace, OfRemoval, At, IInv, OpOK, DeletionOK
<1>3. GoesOn /\ op'.at \in {"remove", "restore"} /\ op'.space = Here
  BY <1>1, MovesOn DEF Moves, OfOneSpace, OfRemoval
<1>4. op'.at \notin OfCreation \cup BeforeMark \cup OfBranch
  BY <1>3 DEF OfCreation, BeforeMark, OfBranch
<1>5. CreationOK' /\ DeletionOK' /\ BranchOK' /\ SeenOK'
  BY <1>1, <1>2, <1>3, <1>4
  DEF CreationOK, DeletionOK, BranchOK, SeenOK, registry, At, Here, BeforeMark
<1> QED
  BY <1>2, <1>3, <1>5, StageOK

(* Remove establishes what Branch needs, or hands the intent on to the      *)
(* restoration.                                                             *)
LEMMA RemoveOK ==
  ASSUME IInv, Remove
  PROVE  OpOK'
<1>1. /\ At("remove") /\ UNCHANGED registry
      /\ Moves("restore") \/ (Moves("branch") /\ git'[Here].path = "absent")
  BY RemoveStep
<1>2. OthersKept /\ op.at \in OfOneSpace /\ record[Here] = "deletePending"
  BY <1>1 DEF OthersKept, registry, OfOneSpace, OfRemoval, At, IInv, OpOK, DeletionOK
<1>3. /\ GoesOn /\ op'.at \in {"restore", "branch"} /\ op'.space = Here
      /\ op'.at = "branch" => git'[Here].path = "absent"
  BY <1>1, MovesOn DEF Moves, OfOneSpace, OfRemoval, OfBranch
<1>4. /\ op'.at \notin OfCreation \cup BeforeMark
      /\ op'.at \in OfBranch => op'.at = "branch"
  BY <1>3 DEF OfCreation, BeforeMark, OfBranch
<1>5. CreationOK' /\ DeletionOK' /\ BranchOK' /\ SeenOK'
  BY <1>1, <1>2, <1>3, <1>4
  DEF CreationOK, DeletionOK, BranchOK, SeenOK, registry, At, Here, BeforeMark
<1> QED
  BY <1>2, <1>3, <1>5, StageOK

(* Restore ends the deletion of this workspace.                             *)
LEMMA RestoreOK ==
  ASSUME IInv, Restore
  PROVE  OpOK'
<1>1. OthersKept /\ (op' = Idle \/ Moves("sweep"))
  BY RestoreStep DEF OthersKept, registry
<1> QED
  BY <1>1, IdleOK, SweepsOn

(* Branch establishes what DeleteBranch needs: a commit that may be         *)
(* destroyed.                                                               *)
LEMMA BranchStageOK ==
  ASSUME IInv, Branch
  PROVE  OpOK'
<1>1. /\ At("branch") /\ UNCHANGED <<registry, git>>
      /\ \/ op' = Idle \/ Moves("sweep")
         \/ Moves("forget") /\ git[Here].tip = 0
         \/ /\ op'.at = "deleteBranch" /\ op'.space = Here /\ op'.req = op.req
            /\ op'.force = op.force /\ op'.owned = op.owned /\ op'.todo = op.todo
            /\ op'.oid = git[Here].tip /\ git[Here].tip # 0
            /\ ~op.force /\ ~op.owned => git[Here].tip =< git[Here].merged
  BY BranchStep
<1>2. OthersKept /\ op.at \in OfOneSpace /\ git[Here].path = "absent"
  BY <1>1 DEF OthersKept, registry, OfOneSpace, OfBranch, At, IInv, OpOK, BranchOK
<1>3. CASE Moves("forget") /\ git[Here].tip = 0
  <2>1. GoesOn /\ op'.at = "forget" /\ op'.space = Here
    BY <1>3, MovesOn DEF Moves, OfOneSpace, OfBranch
  <2>2. op'.at \notin OfCreation \cup BeforeMark \cup OfRemoval
    BY <2>1 DEF OfCreation, BeforeMark, OfRemoval
  <2>3. CreationOK' /\ DeletionOK' /\ BranchOK' /\ SeenOK'
    BY <1>1, <1>2, <1>3, <2>1, <2>2
    DEF CreationOK, DeletionOK, BranchOK, SeenOK, registry, At, Here, BeforeMark
  <2> QED
    BY <1>2, <2>1, <2>3, StageOK
<1>4. CASE /\ op'.at = "deleteBranch" /\ op'.space = Here /\ op'.req = op.req
           /\ op'.force = op.force /\ op'.owned = op.owned /\ op'.todo = op.todo
           /\ op'.oid = git[Here].tip /\ git[Here].tip # 0
           /\ ~op.force /\ ~op.owned => git[Here].tip =< git[Here].merged
  <2>1. GoesOn
    BY <1>4 DEF GoesOn, OfOneSpace, OfBranch
  <2>2. op'.at \notin OfCreation \cup BeforeMark \cup OfRemoval
    BY <1>4 DEF OfCreation, BeforeMark, OfRemoval
  <2>3. git[Here].tip \in Nat
    BY <1>2, HereIsOne, BoundAssumption DEF GitStates
  <2>4. git[Here].tip > 0 /\ git[Here].tip >= git[Here].tip
    BY <1>4, <2>3
  <2>5. SeenOK'
    BY <1>1, <1>4, <2>4 DEF SeenOK, At, Here
  <2>6. CreationOK' /\ DeletionOK' /\ BranchOK'
    BY <1>1, <1>2, <1>4, <2>2
    DEF CreationOK, DeletionOK, BranchOK, registry, At, Here, BeforeMark
  <2> QED
    BY <1>2, <2>1, <2>5, <2>6, StageOK
<1> QED
  BY <1>1, <1>2, <1>3, <1>4, IdleOK, SweepsOn

(* DeleteBranch establishes what Forget needs: no branch, no directory.     *)
LEMMA DeleteBranchOK ==
  ASSUME IInv, DeleteBranch
  PROVE  OpOK'
<1>1. /\ At("deleteBranch") /\ UNCHANGED registry
      /\ git'[Here].path = git[Here].path
      /\ op' = Idle \/ Moves("sweep") \/ (Moves("forget") /\ git'[Here].tip = 0)
  BY DeleteBranchStep
<1>2. OthersKept /\ op.at \in OfOneSpace /\ git[Here].path = "absent"
  BY <1>1 DEF OthersKept, registry, OfOneSpace, OfBranch, At, IInv, OpOK, BranchOK
<1>3. CASE Moves("forget") /\ git'[Here].tip = 0
  <2>1. GoesOn /\ op'.at = "forget" /\ op'.space = Here
    BY <1>3, MovesOn DEF Moves, OfOneSpace, OfBranch
  <2>2. op'.at \notin OfCreation \cup BeforeMark \cup OfRemoval
    BY <2>1 DEF OfCreation, BeforeMark, OfRemoval
  <2>3. CreationOK' /\ DeletionOK' /\ BranchOK' /\ SeenOK'
    BY <1>1, <1>2, <1>3, <2>1, <2>2
    DEF CreationOK, DeletionOK, BranchOK, SeenOK, registry, At, Here, BeforeMark
  <2> QED
    BY <1>2, <2>1, <2>3, StageOK
<1> QED
  BY <1>1, <1>2, <1>3, IdleOK, SweepsOn

(* Forget ends the deletion or the rollback; a cleanup's other workspaces   *)
(* keep their records.                                                      *)
LEMMA ForgetOK ==
  ASSUME IInv, Forget
  PROVE  OpOK'
<1>1. OthersKept /\ (op' = Idle \/ Moves("sweep"))
  BY ForgetStep DEF OthersKept, IInv, TypeOK
<1> QED
  BY <1>1, IdleOK, SweepsOn

(* Between two workspaces nothing is taken for granted of either.           *)
LEMMA BetweenOK ==
  ASSUME op'.at \in {"migrate", "reconcile", "sweep"},
         op'.req \in {"delete", "cleanup"} => ~op'.owned,
         SweepOK'
  PROVE  OpOK'
<1>1. op'.at \notin OfOneSpace
  BY DEF OfOneSpace, OfCreation, BeforeMark, OfRemoval, OfBranch
<1> QED
  BY <1>1
  DEF OpOK, CreationOK, DeletionOK, BranchOK, SeenOK, OfOneSpace, At, BeforeMark, OfBranch

(* The migration begins with nothing to sweep.                              *)
LEMMA BeginMigrationOK ==
  ASSUME IInv, Snapshot \/ Cleanup
  PROVE  OpOK'
<1>1. op'.at = "migrate" /\ op'.space = None /\ op'.owned = FALSE /\ op'.todo = {}
  BY BeginMigration
<1>2. SweepOK'
  BY <1>1 DEF SweepOK, Here
<1> QED
  BY <1>1, <1>2, BetweenOK

(* Migration touches no record and has no workspace in hand.                *)
LEMMA MigrateOK ==
  ASSUME IInv, Migrate
  PROVE  OpOK'
<1>1. /\ At("migrate") /\ UNCHANGED record
      /\ op' = Idle \/ op' = op \/ (Moves("reconcile") /\ Recovering)
  BY MigrateStep
<1>2. SweepOK /\ (op.req \in {"delete", "cleanup"} => ~op.owned)
  BY DEF IInv, OpOK
<1>3. CASE op' = op
  <2>1. SweepOK'
    BY <1>1, <1>2, <1>3 DEF SweepOK, Here, Recovering
  <2> QED
    BY <1>1, <1>2, <1>3, <2>1, BetweenOK DEF At
<1>4. CASE Moves("reconcile") /\ Recovering
  <2>1. op'.at = "reconcile" /\ op'.space = None /\ op'.req = op.req /\ op.req = "cleanup"
        /\ op'.todo = op.todo /\ op'.owned = op.owned /\ Here = None
    BY <1>1, <1>2, <1>4 DEF Moves, Recovering, SweepOK, At
  <2>2. SweepOK'
    BY <1>1, <1>2, <2>1 DEF SweepOK, Here, Recovering
  <2> QED
    BY <1>2, <2>1, <2>2, BetweenOK
<1> QED
  BY <1>1, <1>3, <1>4, IdleOK

(* What Reconcile leaves to be swept is recorded.                           *)
LEMMA ReconcileOK ==
  ASSUME IInv, Reconcile
  PROVE  OpOK'
<1>1. /\ At("reconcile")
      /\ \/ op' = Idle
         \/ /\ op'.at = "sweep" /\ op'.space = Here /\ op'.req = op.req
            /\ op'.owned = op.owned
            /\ op'.todo = {s \in Spaces : record'[s] = "deletePending"}
  BY ReconcileStep
<1>2. SweepOK /\ (op.req \in {"delete", "cleanup"} => ~op.owned)
  BY DEF IInv, OpOK
<1>3. CASE /\ op'.at = "sweep" /\ op'.space = Here /\ op'.req = op.req
           /\ op'.owned = op.owned
           /\ op'.todo = {s \in Spaces : record'[s] = "deletePending"}
  <2>1. Here = None /\ Recovering
    BY <1>1, <1>2 DEF SweepOK, At
  <2>2. SweepOK'
    BY <1>3, <2>1, NoneAssumption DEF SweepOK, Here, Recovering
  <2> QED
    BY <1>2, <1>3, <2>2, BetweenOK
<1> QED
  BY <1>1, <1>3, IdleOK

(* A failed call leads to a stage whose needs the failed one had            *)
(* established.                                                             *)
LEMMA CallFailsOK ==
  ASSUME IInv, CallFails
  PROVE  OpOK'
<1>1. UNCHANGED <<registry, git>> /\ Failed
  BY CallFailsStep
<1>2. OthersKept
  BY <1>1 DEF OthersKept, registry
<1>3. CASE /\ op.at \in {"add", "lock", "commit"}
           /\ op'.at = "undo" /\ op'.req = op.req /\ op'.space = Here
  <2>1. op.at \in OfOneSpace /\ op.req = "create"
    BY <1>3 DEF OfOneSpace, OfCreation, IInv, OpOK, CreationOK
  <2>2. op'.at \in OfOneSpace /\ op'.at \notin BeforeMark \cup OfRemoval \cup OfBranch
    BY <1>3 DEF OfOneSpace, OfCreation, BeforeMark, OfRemoval, OfBranch
  <2>3. CreationOK' /\ DeletionOK' /\ BranchOK' /\ SeenOK'
    BY <1>3, <2>1, <2>2 DEF CreationOK, DeletionOK, BranchOK, SeenOK, At, BeforeMark
  <2> QED
    BY <1>2, <1>3, <2>1, <2>2, <2>3, StageOK DEF GoesOn
<1>4. CASE op.at = "undoRemove" /\ Moves("undoRelock")
  <2>1. op.at \in OfOneSpace /\ op.req = "create" /\ op'.at = "undoRelock" /\ op'.req = op.req
    BY <1>4 DEF OfOneSpace, OfCreation, IInv, OpOK, CreationOK, Moves
  <2>2. GoesOn /\ op'.at \notin BeforeMark \cup OfRemoval \cup OfBranch
    BY <1>4, <2>1, MovesOn DEF OfOneSpace, OfCreation, BeforeMark, OfRemoval, OfBranch
  <2>3. CreationOK' /\ DeletionOK' /\ BranchOK' /\ SeenOK'
    BY <2>1, <2>2 DEF CreationOK, DeletionOK, BranchOK, SeenOK, At, BeforeMark
  <2> QED
    BY <1>2, <2>1, <2>2, <2>3, StageOK
<1>5. CASE op.at \in {"unlock", "remove"} /\ Moves("restore")
  <2>1. /\ op.at \in OfOneSpace /\ record[Here] = "deletePending"
        /\ op'.at = "restore" /\ op'.space = Here
    BY <1>5 DEF OfOneSpace, OfRemoval, IInv, OpOK, DeletionOK, Moves
  <2>2. GoesOn /\ op'.at \notin OfCreation \cup BeforeMark \cup OfBranch
    BY <1>5, <2>1, MovesOn DEF OfOneSpace, OfCreation, BeforeMark, OfRemoval, OfBranch
  <2>3. CreationOK' /\ DeletionOK' /\ BranchOK' /\ SeenOK'
    BY <1>1, <2>1, <2>2
    DEF CreationOK, DeletionOK, BranchOK, SeenOK, registry, At, Here, BeforeMark
  <2> QED
    BY <1>2, <2>1, <2>2, <2>3, StageOK
<1> QED
  BY <1>1, <1>2, <1>3, <1>4, <1>5, IdleOK, SweepsOn DEF Failed

(* Nobody can make a worktree, unlock one or commit to what is not there.   *)
LEMMA PeopleOK ==
  ASSUME IInv, NEW s \in Spaces, UNCHANGED <<registry, op>>, OnlyPeople(s)
  PROVE  OpOK'
<1>1. /\ op' = op /\ record' = record /\ OpOK
      /\ SweepOK
  BY DEF IInv, OpOK, registry
<1>2. SweepOK'
  BY <1>1 DEF SweepOK, Here, Recovering
<1>3. CASE op.at \notin OfOneSpace
  <2>1. CreationOK' /\ DeletionOK' /\ BranchOK' /\ SeenOK'
    BY <1>1, <1>3
    DEF CreationOK, DeletionOK, BranchOK, SeenOK, OfOneSpace, At, Here, BeforeMark, OfBranch
  <2> QED
    BY <1>1, <1>2, <1>3, <2>1 DEF OpOK, Here
<1>4. CASE op.at \in OfOneSpace
  <2>1. Here \in Spaces /\ Here' = Here /\ git[Here] \in GitStates
    BY <1>1, <1>4, HereIsOne DEF Here
  <2>2. git[Here].tip \in Nat /\ git[Here].merged \in Nat /\ op.oid \in Nat
    BY <2>1, BoundAssumption DEF GitStates, IInv, TypeOK, Ops
  <2>3. s # Here => git'[Here] = git[Here]
    BY <2>1 DEF OnlyPeople, Touches
  <2>4. /\ \/ git'[Here].path = git[Here].path
           \/ git[Here].path = "tree" /\ git'[Here].path \in {"strange", "absent"}
        /\ git[Here].path = "absent" => git'[Here].path = "absent"
    BY <2>3 DEF OnlyPeople
  <2>5. \/ git'[Here].entry = git[Here].entry
        \/ Shown(Here) /\ git'[Here].entry = "other"
        \/ git[Here].entry = "free" /\ git'[Here].entry = "none"
    BY <2>3 DEF OnlyPeople
  <2>6. \/ git'[Here].tip = git[Here].tip /\ git'[Here].merged \in {git[Here].merged, git[Here].tip}
        \/ /\ git[Here].tip > 0 /\ git'[Here].tip = git[Here].tip + 1
           /\ git'[Here].merged = git[Here].merged
        \/ git'[Here].tip = 0
    BY <2>3 DEF OnlyPeople
  <2>7. git[Here].tip = 0 => git'[Here].tip = 0
    BY <2>2, <2>6
  <2>8. CreationOK'
    BY <1>1, <2>1, <2>4, <2>5, <2>7 DEF OpOK, CreationOK, At, Shown
  <2>9. DeletionOK'
    BY <1>1, <2>1, <2>4, <2>5 DEF OpOK, DeletionOK
  <2>10. BranchOK'
    BY <1>1, <2>1, <2>4, <2>7 DEF OpOK, BranchOK, At
  <2>11. SeenOK'
    <3> SUFFICES ASSUME At("deleteBranch")
                 PROVE  SeenOK'
      BY <1>1 DEF SeenOK, At
    <3>1. /\ op.oid > 0
          /\ git[Here].tip = 0 \/ git[Here].tip >= op.oid
          /\ ~op.force /\ ~op.owned /\ git[Here].tip = op.oid => git[Here].tip =< git[Here].merged
      BY <1>1 DEF OpOK, SeenOK
    <3>2. git'[Here].tip = 0 \/ git'[Here].tip >= op.oid
      BY <2>2, <2>6, <3>1
    <3>3. ASSUME ~op.force /\ ~op.owned, git'[Here].tip = op.oid
          PROVE  git'[Here].tip =< git'[Here].merged
      BY <2>2, <2>6, <3>1, <3>3
    <3> QED
      BY <1>1, <2>1, <3>1, <3>2, <3>3 DEF SeenOK, At
  <2> QED
    BY <1>1, <1>2, <2>1, <2>8, <2>9, <2>10, <2>11 DEF OpOK
<1> QED
  BY <1>3, <1>4

(* The invariant holds at first.                                            *)
LEMMA InitOK ==
  ASSUME Init
  PROVE  IInv
<1>1. op = Idle /\ faults = 0
  BY DEF Init
<1>2. record \in [Spaces -> Records] /\ recorded \in [Spaces -> BOOLEAN]
  BY DEF Init, Records
<1>3. git \in [Spaces -> GitStates]
  <2>1. PICK lock \in {"free", "other"} :
          git = [s \in Spaces |->
            IF s \in Legacy THEN [NoGit EXCEPT !.path = "tree", !.entry = lock,
                                               !.tip = 1, !.merged = 1]
            ELSE NoGit]
    BY DEF Init
  <2>2. [NoGit EXCEPT !.path = "tree", !.entry = lock, !.tip = 1, !.merged = 1] \in GitStates
    BY Shapes DEF GitStates
  <2> QED
    BY <2>1, <2>2, Shapes
<1>4. OpOK
  BY <1>1, Shapes
  DEF Recovering, OpOK, CreationOK, DeletionOK, BranchOK, SeenOK, SweepOK, OfOneSpace,
      OfCreation, BeforeMark, OfRemoval, OfBranch, At
<1> QED
  BY <1>1, <1>2, <1>3, <1>4, Shapes, BoundAssumption DEF IInv, TypeOK

(* Every step of Next, and every stutter, preserves the invariant.          *)
LEMMA StepOK ==
  ASSUME IInv, [Next]_vars
  PROVE  IInv'
<1>1. CASE UNCHANGED vars
  BY <1>1
  DEF vars, IInv, TypeOK, OpOK, CreationOK, DeletionOK, BranchOK, SeenOK, SweepOK, At, Here,
      Recovering
<1>2. CASE Begin
  <2>1. ASSUME NEW s \in Spaces, CreateWorkspace(s)
        PROVE  IInv'
    BY <2>1, CreateStep, CreateOK DEF IInv
  <2>2. ASSUME NEW s \in Spaces, NEW force \in BOOLEAN, DeleteWorkspace(s, force)
        PROVE  IInv'
    <3>1. TypeOK'
      BY <2>2, DeleteStep
    <3>2. OpOK'
      BY <2>2, DeleteOK
    <3> QED
      BY <3>1, <3>2 DEF IInv
  <2>3. CASE Snapshot \/ Cleanup
    BY <2>3, BeginMigration, BeginMigrationOK DEF IInv
  <2> QED
    BY <1>2, <2>1, <2>2, <2>3 DEF Begin
<1>3. CASE Advance
  <2>1. CASE Add
    BY <2>1, AddStep, AddOK DEF IInv
  <2>2. CASE Lock
    BY <2>2, LockStep, LockOK DEF IInv
  <2>3. CASE Commit
    BY <2>3, CommitStep, CommitOK DEF IInv
  <2>4. CASE Undo
    BY <2>4, UndoStep, UndoOK DEF IInv
  <2>5. CASE UndoUnlock
    BY <2>5, UndoUnlockStep, UndoUnlockOK DEF IInv
  <2>21. CASE UndoRemove
    BY <2>21, UndoRemoveStep, UndoRemoveOK DEF IInv
  <2>6. CASE UndoRelock
    BY <2>6, UndoRelockStep, IdleOK DEF IInv
  <2>7. CASE Relock
    BY <2>7, RelockStep, RelockOK DEF IInv
  <2>8. CASE Risk
    BY <2>8, RiskStep, RiskOK DEF IInv
  <2>9. CASE Withdraw
    BY <2>9, WithdrawStep, WithdrawOK DEF IInv
  <2>10. CASE Mark
    BY <2>10, MarkStep, MarkOK DEF IInv
  <2>11. CASE Locate
    BY <2>11, LocateStep, LocateOK DEF IInv
  <2>12. CASE Unlock
    BY <2>12, UnlockStep, UnlockOK DEF IInv
  <2>13. CASE Remove
    BY <2>13, RemoveStep, RemoveOK DEF IInv
  <2>14. CASE Restore
    BY <2>14, RestoreStep, RestoreOK DEF IInv
  <2>15. CASE Branch
    BY <2>15, BranchStep, BranchStageOK DEF IInv
  <2>16. CASE DeleteBranch
    BY <2>16, DeleteBranchStep, DeleteBranchOK DEF IInv
  <2>17. CASE Forget
    BY <2>17, ForgetStep, ForgetOK DEF IInv
  <2>18. CASE Migrate
    BY <2>18, MigrateStep, MigrateOK DEF IInv
  <2>19. CASE Reconcile
    BY <2>19, ReconcileStep, ReconcileOK DEF IInv
  <2>20. CASE Sweep
    BY <2>20, SweepStep, SweepOpOK DEF IInv
  <2> QED
    BY <1>3, <2>1, <2>2, <2>3, <2>4, <2>5, <2>6, <2>7, <2>8, <2>9, <2>10, <2>11, <2>12, <2>13,
       <2>14, <2>15, <2>16, <2>17, <2>18, <2>19, <2>20, <2>21 DEF Advance
<1>4. CASE CallFails
  BY <1>4, CallFailsStep, CallFailsOK DEF IInv
<1>5. CASE Crash
  BY <1>5, CrashStep, IdleOK DEF IInv
<1>6. CASE People
  <2>1. PICK s \in Spaces :
          \/ Edit(s) \/ Switch(s) \/ CommitWork(s) \/ Merge(s)
          \/ CheckOutElsewhere(s) \/ DropBranch(s) \/ Damage(s) \/ Meddle(s) \/ Prune(s)
    BY <1>6 DEF People
  <2>2. TypeOK' /\ UNCHANGED <<registry, op>> /\ OnlyPeople(s)
    BY <2>1, PeopleStep
  <2> QED
    BY <2>2, PeopleOK DEF IInv
<1> QED
  BY <1>1, <1>2, <1>3, <1>4, <1>5, <1>6 DEF Next

(* IInv holds in every reachable state, for any workspaces, any bound on    *)
(* the commits and any number of faults.                                    *)
THEOREM Inductive == Spec => []IInv
  BY InitOK, StepOK, PTL DEF Spec

(* TypeOK holds in every reachable state: in particular validateRegistry    *)
(* never meets both pending flags on one workspace.                         *)
THEOREM TypeCorrect == Spec => []TypeOK
  BY Inductive, PTL DEF IInv

-----------------------------------------------------------------------------
(* What a step of the editor may do to a workspace, whichever step it is.   *)

(* To its worktree: nothing; to take the lock, never over somebody else's,  *)
(* or give it back; to make it for a pending creation; to remove one that   *)
(* is not locked; to delete the branch.                                     *)
Handled(s) ==
  \/ git'[s] = git[s]
  \/ /\ KeepsBranch(s) /\ git'[s].path = git[s].path /\ git'[s].dirty = git[s].dirty
     /\ git[s].entry # "other" \/ (Here = s /\ op.at \in Unlocking)
  \/ /\ op.req = "create" /\ git[s].path = "absent" /\ git[s].entry = "none"
     /\ record[s] = "createPending" /\ record'[s] = record[s]
  \/ /\ KeepsBranch(s) /\ git[s].entry = "free" /\ record'[s] = record[s]
     /\ git[s].path = "absent" => git'[s].path = "absent"
     /\ op.req # "create" /\ git[s].path = "tree" /\ git[s].dirty = "untracked" => op.force
  \/ /\ git'[s].path = git[s].path /\ git'[s].entry = git[s].entry
     /\ op.req \in {"delete", "cleanup"} /\ ~op.force => git[s].tip =< git[s].merged

(* To its record: nothing; to announce a creation or a deletion; to bring   *)
(* it into use, locked; to drop it, with nothing left.                      *)
Written(s) ==
  \/ record'[s] = record[s]
  \/ git'[s] = git[s] /\ record[s] = "none" /\ record'[s] = "createPending"
  \/ /\ record[s] \in {"createPending", "deletePending"} /\ record'[s] = "ready"
     /\ git'[s].path = git[s].path
     /\ git'[s].path = "tree" => git'[s].entry # "free"
  \/ git'[s] = git[s] /\ record[s] = "ready" /\ record'[s] = "deletePending"
  \/ /\ git'[s] = git[s] /\ record'[s] = "none" /\ git[s].path = "absent"
     /\ record[s] = "createPending" => git[s].tip = 0

(* A step that leaves registry and repository alone is allowed.             *)
LEMMA SameHandled ==
  ASSUME UNCHANGED <<registry, git>>, NEW s
  PROVE  Handled(s) /\ Written(s)
  BY DEF Handled, Written, registry

(* It suffices to look at the workspace in hand.                            *)
LEMMA OnlyHere ==
  ASSUME Touches(Here), OthersKept, Handled(Here), Written(Here), NEW s \in Spaces
  PROVE  Handled(s) /\ Written(s)
<1>1. CASE s = Here
  BY <1>1
<1>2. CASE s # Here
  BY <1>2 DEF Touches, OthersKept, Handled, Written
<1> QED
  BY <1>1, <1>2

(* A call that locks what nobody else has locked, or that unlocks.          *)
LEMMA LockHandled ==
  ASSUME UNCHANGED registry, git \in [Spaces -> GitStates], NEW entry,
         git[Here].entry # "other" \/ op.at \in Unlocking,
         SetsEntry(Here, entry), NEW s \in Spaces
  PROVE  Handled(s) /\ Written(s)
<1>1. Handled(Here) /\ Written(Here) /\ Touches(Here) /\ OthersKept
  BY DEF SetsEntry, Handled, Written, OthersKept, registry
<1> QED
  BY <1>1, OnlyHere

(* A call that removes a worktree.                                          *)
LEMMA RemovalHandled ==
  ASSUME UNCHANGED registry, NEW force \in BOOLEAN, RemovedOrLeft(force),
         op.req # "create" => (force => op.force), NEW s \in Spaces
  PROVE  Handled(s) /\ Written(s)
<1>1. CASE git' = git
  BY <1>1, SameHandled
<1>2. CASE git' # git
  <2>1. /\ RemovesTree(Here) \/ BreaksTree(Here)
        /\ git[Here].entry = "free"
        /\ git[Here].path = "tree" /\ git[Here].dirty = "untracked" => force
        /\ git[Here].path = "absent" => git'[Here].path = "absent"
    BY <1>2 DEF RemovedOrLeft
  <2>2. Touches(Here) /\ KeepsBranch(Here) /\ record' = record
    BY <2>1 DEF RemovesTree, BreaksTree, registry
  <2>3. Handled(Here) /\ Written(Here) /\ OthersKept
    BY <2>1, <2>2 DEF Handled, Written, OthersKept
  <2> QED
    BY <2>2, <2>3, OnlyHere
<1> QED
  BY <1>1, <1>2

(* CreateWorkspace only announces a creation.                               *)
LEMMA CreateHandled ==
  ASSUME IInv, NEW r \in Spaces, CreateWorkspace(r), NEW s \in Spaces
  PROVE  Handled(s) /\ Written(s)
<1>1. /\ git' = git /\ record[r] = "none" /\ record' = [record EXCEPT ![r] = "createPending"]
  BY CreateStep
<1> QED
  BY <1>1 DEF Handled, Written, IInv, TypeOK

(* Add makes a worktree for a pending creation where there was none.        *)
LEMMA AddHandled ==
  ASSUME IInv, Add, NEW s \in Spaces
  PROVE  Handled(s) /\ Written(s)
<1>1. At("add") /\ UNCHANGED registry /\ Touches(Here)
  BY AddStep
<1>2. /\ op.req = "create" /\ git[Here].path = "absent" /\ git[Here].entry = "none"
      /\ record[Here] = "createPending"
  BY <1>1 DEF IInv, OpOK, CreationOK, At, OfCreation
<1>3. Handled(Here) /\ Written(Here) /\ OthersKept
  BY <1>1, <1>2 DEF Handled, Written, OthersKept, registry
<1> QED
  BY <1>1, <1>3, OnlyHere

(* Commit brings a pending creation into use, locked.                       *)
LEMMA CommitHandled ==
  ASSUME IInv, Commit, NEW s \in Spaces
  PROVE  Handled(s) /\ Written(s)
<1>1. At("commit") /\ git' = git /\ record' = [record EXCEPT ![Here] = "ready"] /\ Here \in Spaces
  BY CommitStep
<1>2. git[Here].entry = "ours" /\ record[Here] = "createPending"
  BY <1>1 DEF IInv, OpOK, CreationOK, At, OfCreation
<1> QED
  BY <1>1, <1>2 DEF Handled, Written, IInv, TypeOK

(* Withdraw brings a workspace back into use, locked or without its         *)
(* directory.                                                               *)
LEMMA WithdrawHandled ==
  ASSUME IInv, Withdraw, NEW s \in Spaces
  PROVE  Handled(s) /\ Written(s)
<1>1. /\ At("withdraw") /\ git' = git /\ Here \in Spaces
      /\ \/ record' = record
         \/ record[Here] = "deletePending" /\ record' = [record EXCEPT ![Here] = "ready"]
  BY WithdrawStep
<1>2. record[Here] = "deletePending" /\ git[Here].path = "tree" => git[Here].entry # "free"
  BY <1>1 DEF IInv, OpOK, DeletionOK, At
<1> QED
  BY <1>1, <1>2 DEF Handled, Written, IInv, TypeOK

(* Mark announces a deletion.                                               *)
LEMMA MarkHandled ==
  ASSUME IInv, Mark, NEW s \in Spaces
  PROVE  Handled(s) /\ Written(s)
<1>1. /\ At("mark") /\ git' = git /\ Here \in Spaces
      /\ \/ record' = record
         \/ /\ record[Here] # "createPending"
            /\ record' = [record EXCEPT ![Here] = "deletePending"]
  BY MarkStep
<1>2. record[Here] # "none" /\ record[Here] \in Records
  BY <1>1 DEF IInv, TypeOK, OpOK, DeletionOK, At, BeforeMark
<1> QED
  BY <1>1, <1>2 DEF Handled, Written, IInv, TypeOK, Records

(* DeleteBranch deletes a branch that may go.                               *)
LEMMA DeleteBranchHandled ==
  ASSUME IInv, DeleteBranch, NEW s \in Spaces
  PROVE  Handled(s) /\ Written(s)
<1>1. /\ At("deleteBranch") /\ UNCHANGED registry /\ Touches(Here)
      /\ git'[Here].path = git[Here].path /\ git'[Here].entry = git[Here].entry
      /\ git' = git \/ (git[Here].tip = op.oid /\ git'[Here].tip = 0)
  BY DeleteBranchStep
<1>2. CASE git' = git
  BY <1>1, <1>2, SameHandled
<1>3. CASE git[Here].tip = op.oid
  <2>1. op.req \in {"delete", "cleanup"} /\ ~op.force => git[Here].tip =< git[Here].merged
    BY <1>1, <1>3 DEF IInv, OpOK, SeenOK
  <2>2. Handled(Here) /\ Written(Here) /\ OthersKept
    BY <1>1, <2>1 DEF Handled, Written, OthersKept, registry
  <2> QED
    BY <1>1, <2>2, OnlyHere
<1> QED
  BY <1>1, <1>2, <1>3

(* Forget drops a record with nothing left behind.                          *)
LEMMA ForgetHandled ==
  ASSUME IInv, Forget, NEW s \in Spaces
  PROVE  Handled(s) /\ Written(s)
<1>1. /\ At("forget") /\ git' = git /\ Here \in Spaces
      /\ record' = [record EXCEPT ![Here] = "none"]
  BY ForgetStep
<1>2. /\ git[Here].path = "absent"
      /\ record[Here] = "createPending" => git[Here].tip = 0
  BY <1>1 DEF IInv, OpOK, BranchOK, At, OfBranch
<1> QED
  BY <1>1, <1>2 DEF Handled, Written, IInv, TypeOK

(* Migrate locks a worktree nobody else has locked.                         *)
LEMMA MigrateHandled ==
  ASSUME IInv, Migrate, NEW s \in Spaces
  PROVE  Handled(s) /\ Written(s)
<1>1. /\ UNCHANGED record
      /\ \/ git' = git
         \/ \E r \in Unmigrated : SetsEntry(r, "ours") /\ git[r].entry # "other"
  BY MigrateStep
<1>2. Written(s)
  BY <1>1 DEF Written
<1>3. CASE git' = git
  BY <1>2, <1>3 DEF Handled
<1>4. ASSUME NEW r \in Unmigrated, SetsEntry(r, "ours") /\ git[r].entry # "other"
      PROVE  Handled(s)
  BY <1>4 DEF SetsEntry, Touches, Handled
<1> QED
  BY <1>1, <1>2, <1>3, <1>4

(* Reconcile locks and commits, or drops a creation of which nothing came.  *)
LEMMA ReconcileHandled ==
  ASSUME IInv, Reconcile, NEW s \in Spaces
  PROVE  Handled(s) /\ Written(s)
<1>1. /\ \/ git'[s] = git[s]
         \/ s \in Recoverable /\ git'[s] = [git[s] EXCEPT !.entry = "ours"]
      /\ \/ record'[s] = record[s]
         \/ s \in Recoverable /\ record'[s] = "ready" /\ git'[s].entry = "ours"
         \/ s \in Untouched /\ record'[s] = "none" /\ git'[s] = git[s]
  BY ReconcileStep
<1>2. git[s] \in GitStates
  BY DEF IInv, TypeOK
<1>3. /\ s \in Recoverable => record[s] = "createPending" /\ git[s].entry # "other"
      /\ s \in Untouched => git[s].path = "absent" /\ git[s].tip = 0
  BY DEF Recoverable, Untouched, Pending, Lockable
<1>4. CASE git'[s] = git[s]
  BY <1>1, <1>3, <1>4 DEF Handled, Written
<1>5. CASE s \in Recoverable /\ git'[s] = [git[s] EXCEPT !.entry = "ours"]
  <2>1. /\ git'[s].path = git[s].path /\ git'[s].dirty = git[s].dirty /\ KeepsBranch(s)
        /\ git'[s].entry = "ours"
    BY <1>2, <1>5 DEF GitStates, KeepsBranch
  <2>2. git'[s] # git[s] \/ git'[s] = git[s]
    OBVIOUS
  <2>3. s \notin Untouched
    BY <1>5 DEF Recoverable, Untouched, Lockable
  <2> QED
    BY <1>1, <1>3, <1>5, <2>1, <2>3 DEF Handled, Written
<1> QED
  BY <1>1, <1>4, <1>5

(* Whichever step the editor takes, and whatever fails.                     *)
EditorSteps == Begin \/ Advance \/ CallFails \/ Crash

(* Every step of the editor does to every workspace, and to its record,     *)
(* only what Handled and Written allow.                                     *)
LEMMA EveryStepHandled ==
  ASSUME IInv, EditorSteps, NEW s \in Spaces
  PROVE  Handled(s) /\ Written(s)
<1>1. git \in [Spaces -> GitStates] /\ op.force \in BOOLEAN
  BY DEF IInv, TypeOK, Ops
<1>2. CASE Begin
  <2>1. ASSUME NEW r \in Spaces, CreateWorkspace(r)
        PROVE  Handled(s) /\ Written(s)
    BY <2>1, CreateHandled
  <2>2. ASSUME NEW r \in Spaces, NEW force \in BOOLEAN, DeleteWorkspace(r, force)
        PROVE  Handled(s) /\ Written(s)
    <3>1. UNCHANGED <<registry, git>>
      BY <2>2 DEF DeleteWorkspace
    <3> QED
      BY <3>1, SameHandled
  <2>3. CASE Snapshot \/ Cleanup
    BY <2>3, SameHandled DEF Snapshot, Cleanup
  <2> QED
    BY <1>2, <2>1, <2>2, <2>3 DEF Begin
<1>3. CASE Undo \/ Risk \/ Locate \/ Branch \/ Sweep \/ CallFails \/ Crash
  <2>1. UNCHANGED <<registry, git>>
    BY <1>3 DEF Undo, Risk, Locate, Branch, Sweep, CallFails, Crash
  <2> QED
    BY <2>1, SameHandled
<1>4. CASE Lock \/ UndoRelock \/ Relock \/ Restore
  <2>1. UNCHANGED registry /\ LockedOrLeft
    BY <1>4, LockStep, UndoRelockStep, RelockStep, RestoreStep
  <2>2. CASE git' = git
    BY <2>1, <2>2, SameHandled
  <2> QED
    BY <1>1, <2>1, <2>2, LockHandled DEF LockedOrLeft
<1>5. CASE UndoUnlock \/ Unlock
  <2>1. UNCHANGED registry /\ (git' = git \/ SetsEntry(Here, "free")) /\ op.at \in Unlocking
    BY <1>5, UndoUnlockStep, UnlockStep DEF At, Unlocking
  <2>2. CASE git' = git
    BY <2>1, <2>2, SameHandled
  <2> QED
    BY <1>1, <2>1, <2>2, LockHandled
<1>6. CASE UndoRemove
  <2>1. UNCHANGED registry /\ RemovedOrLeft(TRUE) /\ op.req = "create"
    BY <1>6, UndoRemoveStep DEF IInv, OpOK, CreationOK, OfCreation, At
  <2> QED
    BY <2>1, RemovalHandled
<1>7. CASE Remove
  <2>1. UNCHANGED registry /\ RemovedOrLeft(op.force)
    BY <1>7, RemoveStep
  <2> QED
    BY <1>1, <2>1, RemovalHandled
<1>8. CASE Advance
  BY <1>3, <1>4, <1>5, <1>6, <1>7, <1>8, AddHandled, CommitHandled, WithdrawHandled, MarkHandled,
     DeleteBranchHandled, ForgetHandled, MigrateHandled, ReconcileHandled DEF Advance
<1> QED
  BY <1>2, <1>3, <1>8 DEF EditorSteps

-----------------------------------------------------------------------------
(* The promises.                                                            *)

(* People change no record and no operation, and make no worktree.          *)
LEMMA PeopleEffect ==
  ASSUME IInv, People, NEW s \in Spaces
  PROVE  /\ UNCHANGED <<registry, op>>
         /\ \/ git'[s].path = git[s].path
            \/ git[s].path = "tree" /\ git'[s].path \in {"strange", "absent"}
<1>1. PICK r \in Spaces :
        \/ Edit(r) \/ Switch(r) \/ CommitWork(r) \/ Merge(r)
        \/ CheckOutElsewhere(r) \/ DropBranch(r) \/ Damage(r) \/ Meddle(r) \/ Prune(r)
  BY DEF People
<1>2. UNCHANGED <<registry, op>> /\ OnlyPeople(r)
  BY <1>1, PeopleStep
<1> QED
  BY <1>2 DEF OnlyPeople, Touches

(* A step is one of the editor's or one of the people's.                    *)
LEMMA NextSplits == Next <=> EditorSteps \/ People
  BY DEF Next, EditorSteps

(* ReadyMeansLocked: whatever brings a workspace back into use (the end of  *)
(* its creation, its recovery, the withdrawal of its deletion) does not     *)
(* leave its worktree unlocked.                                             *)
THEOREM ComesBackLocked == Spec => ReadyMeansLocked
<1>1. ASSUME IInv, [Next]_vars
      PROVE  [\A s \in Spaces :
                /\ record[s] # "ready"
                /\ record'[s] = "ready"
                /\ git'[s].path = "tree"
                => git'[s].entry # "free"]_vars
  <2> SUFFICES ASSUME Next, NEW s \in Spaces, record[s] # "ready", record'[s] = "ready",
                      git'[s].path = "tree"
               PROVE  git'[s].entry # "free"
    BY <1>1
  <2>1. CASE EditorSteps
    BY <1>1, <2>1, EveryStepHandled DEF Written
  <2>2. CASE People
    BY <1>1, <2>2, PeopleEffect DEF registry
  <2> QED
    BY <2>1, <2>2, NextSplits
<1> QED
  BY <1>1, Inductive, PTL DEF Spec, ReadyMeansLocked

(* An operation that is about to unlock a worktree has just seen its own    *)
(* lock on it.                                                              *)
LEMMA LooksBeforeUnlocking ==
  ASSUME IInv, EditorSteps, op' # op, op'.at \in Unlocking
  PROVE  op'.space = Here /\ git[Here].entry = "ours"
<1> USE DEF Unlocking
<1>1. /\ op' # Idle
      /\ \A stage \in Stages \ Unlocking : ~Moves(stage)
  BY Shapes DEF Moves
<1>2. ~Begin
  <2>1. ASSUME NEW s \in Spaces, NEW force \in BOOLEAN, DeleteWorkspace(s, force)
        PROVE  FALSE
    <3>1. op'.at \in {"relock", "risk"}
      BY <2>1, DeleteStep
    <3> QED
      BY <3>1
  <2> QED
    BY <2>1, CreateStep, BeginMigration DEF Begin
<1>3. ~CallFails /\ ~Crash
  BY <1>1, CallFailsStep, CrashStep DEF Failed, Stages
<1>4. ~Add /\ ~Lock /\ ~Commit /\ ~UndoRemove /\ ~UndoRelock
  BY <1>1, AddStep, LockStep, CommitStep, UndoRemoveStep, UndoRelockStep
<1>5. ~UndoUnlock /\ ~Unlock /\ ~Remove /\ ~Restore
  BY <1>1, UndoUnlockStep, UnlockStep, RemoveStep, RestoreStep DEF Stages
<1>6. ~Relock /\ ~Risk /\ ~Withdraw /\ ~Mark
  BY <1>1, RelockStep, RiskStep, WithdrawStep, MarkStep DEF Stages
<1>7. ~Branch /\ ~DeleteBranch /\ ~Forget
  BY <1>1, BranchStep, DeleteBranchStep, ForgetStep DEF Stages
<1>8. ~Migrate /\ ~Reconcile /\ ~Sweep
  BY <1>1, MigrateStep, ReconcileStep, SweepStep DEF Stages
<1>9. CASE Undo
  BY <1>1, <1>9, UndoStep
<1>10. CASE Locate
  BY <1>1, <1>10, LocateStep DEF Moves, Stages
<1> QED
  BY <1>2, <1>3, <1>4, <1>5, <1>6, <1>7, <1>8, <1>9, <1>10 DEF EditorSteps, Advance

(* SeenForeignLocksHold: a lock of somebody else that is there when the     *)
(* editor last looks before `git worktree unlock` is not taken, and no      *)
(* other step takes one or removes a worktree under it.                     *)
THEOREM SeenLocksOfOthersHold == Spec => SeenForeignLocksHold
<1>1. ASSUME IInv, [Next]_vars
      PROVE  [\A s \in Spaces :
                git[s].entry = "other" /\ op' # op
                  => /\ git'[s].path = git[s].path
                     /\ git'[s].entry = "other" \/ (Here = s /\ op.at \in Unlocking)
                     /\ ~(op'.space = s /\ op'.at \in Unlocking)]_vars
  <2> SUFFICES ASSUME Next, NEW s \in Spaces, git[s].entry = "other", op' # op
               PROVE  /\ git'[s].path = git[s].path
                      /\ git'[s].entry = "other" \/ (Here = s /\ op.at \in Unlocking)
                      /\ ~(op'.space = s /\ op'.at \in Unlocking)
    BY <1>1
  <2>1. CASE EditorSteps
    <3>1. Handled(s)
      BY <1>1, <2>1, EveryStepHandled
    <3>2. ~(op'.space = s /\ op'.at \in Unlocking)
      BY <1>1, <2>1, LooksBeforeUnlocking
    <3> QED
      BY <3>1, <3>2 DEF Handled
  <2>2. CASE People
    BY <1>1, <2>2, PeopleEffect
  <2> QED
    BY <2>1, <2>2, NextSplits
<1> QED
  BY <1>1, Inductive, PTL DEF Spec, SeenForeignLocksHold

(* WorkSurvives: a deletion without force, and any cleanup, destroys no     *)
(* commit that only the initial branch holds and no modified or untracked   *)
(* file.                                                                    *)
THEOREM NothingUnsavedIsLost == Spec => WorkSurvives
<1>1. ASSUME IInv, [Next]_vars
      PROVE  [\A s \in Spaces :
                /\ op.req \in {"delete", "cleanup"}
                /\ ~op.force
                /\ op' # op
                => /\ git[s].tip > git[s].merged => git'[s].tip # 0
                   /\ git[s].dirty = "untracked" /\ git[s].path = "tree"
                        => git'[s].path = "tree"]_vars
  <2> SUFFICES ASSUME Next, NEW s \in Spaces, op.req \in {"delete", "cleanup"}, ~op.force,
                      op' # op
               PROVE  /\ git[s].tip > git[s].merged => git'[s].tip # 0
                      /\ git[s].dirty = "untracked" /\ git[s].path = "tree"
                           => git'[s].path = "tree"
    BY <1>1
  <2>1. git[s].tip \in Nat /\ git[s].merged \in Nat
    BY <1>1, BoundAssumption DEF IInv, TypeOK, GitStates
  <2>2. CASE EditorSteps
    <3>1. Handled(s) /\ op.req # "create"
      BY <1>1, <2>2, EveryStepHandled
    <3> QED
      BY <2>1, <3>1 DEF Handled, KeepsBranch
  <2>3. CASE People
    BY <1>1, <2>3, PeopleEffect
  <2> QED
    BY <2>2, <2>3, NextSplits
<1> QED
  BY <1>1, Inductive, PTL DEF Spec, WorkSurvives

(* RecordGoesLast: the record of a pending creation is dropped only when    *)
(* its directory and its branch are gone.                                   *)
THEOREM RecordLast == Spec => RecordGoesLast
<1>1. ASSUME IInv, [Next]_vars
      PROVE  [\A s \in Spaces :
                record[s] = "createPending" /\ record'[s] = "none"
                  => git[s].path = "absent" /\ git[s].tip = 0]_vars
  <2> SUFFICES ASSUME Next, NEW s \in Spaces, record[s] = "createPending", record'[s] = "none"
               PROVE  git[s].path = "absent" /\ git[s].tip = 0
    BY <1>1
  <2>1. CASE EditorSteps
    BY <1>1, <2>1, EveryStepHandled DEF Written
  <2>2. CASE People
    BY <1>1, <2>2, PeopleEffect DEF registry
  <2> QED
    BY <2>1, <2>2, NextSplits
<1> QED
  BY <1>1, Inductive, PTL DEF Spec, RecordGoesLast

(* A workspace is at every moment where the protocol has it.                *)
Follows(s) ==
  Ownership!Write(s) \/ Ownership!Make(s) \/ Ownership!Vanish(s) \/ Ownership!Forget(s)
    \/ Ownership!Same(s)

(* A step of the editor is one the protocol allows each workspace.          *)
LEMMA EditorFollows ==
  ASSUME IInv, EditorSteps, NEW s \in Spaces
  PROVE  Follows(s)
<1> DEFINE was == git[s].path # "absent"
           is == git'[s].path # "absent"
<1>1. Handled(s) /\ Written(s)
  BY EveryStepHandled
<1>2. /\ [t \in Spaces |-> git[t].path # "absent"][s] = was
      /\ [t \in Spaces |-> git'[t].path # "absent"][s] = is
  OBVIOUS
<1>3. CASE record'[s] = record[s]
  <2>1. was /\ ~is => Ownership!Vanish(s)
    BY <1>2, <1>3 DEF Ownership!Vanish
  <2>2. ~was /\ is => Ownership!Make(s)
    <3> SUFFICES ASSUME ~was, is
                 PROVE  Ownership!Make(s)
      OBVIOUS
    <3>1. record[s] = "createPending"
      BY <1>1 DEF Handled
    <3> QED
      BY <1>2, <1>3, <3>1 DEF Ownership!Make
  <2>3. (was <=> is) => Ownership!Same(s)
    BY <1>2, <1>3 DEF Ownership!Same
  <2> QED
    BY <2>1, <2>2, <2>3 DEF Follows
<1>4. CASE record'[s] # record[s] /\ record'[s] # "none"
  <2>1. was <=> is
    BY <1>1, <1>4 DEF Written
  <2>2. <<record[s], record'[s]>> \in Ownership!RecordMoves
    BY <1>1, <1>4 DEF Written, Ownership!RecordMoves
  <2> QED
    BY <1>2, <2>1, <2>2 DEF Follows, Ownership!Write
<1>5. CASE record'[s] # record[s] /\ record'[s] = "none"
  <2>1. ~was /\ ~is
    BY <1>1, <1>5 DEF Written
  <2> QED
    BY <1>2, <1>5, <2>1 DEF Follows, Ownership!Forget
<1> QED
  BY <1>3, <1>4, <1>5

(* A step of the people loses a worktree at most, which the protocol        *)
(* allows.                                                                  *)
LEMMA PeopleFollow ==
  ASSUME IInv, People, NEW s \in Spaces
  PROVE  Follows(s)
<1> DEFINE was == git[s].path # "absent"
           is == git'[s].path # "absent"
<1>1. record'[s] = record[s] /\ (is => was)
  BY PeopleEffect DEF registry
<1>2. /\ [t \in Spaces |-> git[t].path # "absent"][s] = was
      /\ [t \in Spaces |-> git'[t].path # "absent"][s] = is
  OBVIOUS
<1>3. was /\ ~is => Ownership!Vanish(s)
  BY <1>1, <1>2 DEF Ownership!Vanish
<1>4. (was <=> is) => Ownership!Same(s)
  BY <1>1, <1>2 DEF Ownership!Same
<1> QED
  BY <1>1, <1>3, <1>4 DEF Follows

(* OwnedResourceSpec: the worktrees implement the protocol of               *)
(* OwnedResource, with the directory for the resource.                      *)
THEOREM FollowsTheProtocol == Spec => OwnedResourceSpec
<1>1. ASSUME Init
      PROVE  Ownership!Init
  <2>1. ASSUME NEW s \in Spaces
        PROVE  \/ record[s] = "ready"
               \/ record[s] = "none" /\ ~[t \in Spaces |-> git[t].path # "absent"][s]
    <3>1. s \notin Legacy => record[s] = "none" /\ git[s] = NoGit
      BY <1>1 DEF Init
    <3>2. s \in Legacy => record[s] = "ready"
      BY <1>1 DEF Init
    <3>3. s \notin Legacy => ~(git[s].path # "absent")
      BY <3>1, Shapes
    <3>4. [t \in Spaces |-> git[t].path # "absent"][s] = (git[s].path # "absent")
      OBVIOUS
    <3> QED
      BY <3>1, <3>2, <3>3, <3>4
  <2> QED
    BY <2>1 DEF Ownership!Init
<1>2. ASSUME IInv, [Next]_vars
      PROVE  [Ownership!Next]_(Ownership!vars)
  <2>1. CASE UNCHANGED vars
    BY <2>1 DEF vars, Ownership!vars
  <2>2. CASE Next
    <3>1. ASSUME NEW s \in Spaces
          PROVE  Follows(s)
      BY <1>2, <2>2, NextSplits, EditorFollows, PeopleFollow
    <3> QED
      BY <3>1 DEF Follows, Ownership!Next
  <2> QED
    BY <1>2, <2>1, <2>2
<1> QED
  BY <1>1, <1>2, Inductive, PTL DEF Spec, OwnedResourceSpec, Ownership!Spec

(* What the protocol promises, for the worktrees.                           *)
Recorded == \A s \in Spaces : git[s].path # "absent" => record[s] # "none"

(* The directory of a worktree has a record for as long as it is there, so  *)
(* a cleanup finds it, whatever step the host is killed in                  *)
(* (addGitWorktree, removeGitWorktree).                                 *)
THEOREM WorktreesAreRecorded == Spec => []Recorded
<1>1. Ownership!Init => Recorded
  BY DEF Ownership!Init, Recorded
<1>2. ASSUME Recorded, [Ownership!Next]_(Ownership!vars)
      PROVE  Recorded'
  <2> SUFFICES ASSUME NEW s \in Spaces, git'[s].path # "absent"
               PROVE  record'[s] # "none"
    BY DEF Recorded
  <2>1. CASE Ownership!Next
    <3>1. \/ Ownership!Write(s) \/ Ownership!Make(s) \/ Ownership!Vanish(s)
          \/ Ownership!Forget(s) \/ Ownership!Same(s)
      BY <2>1 DEF Ownership!Next
    <3>2. QED
      BY <1>2, <3>1 DEF Recorded, Ownership!Write, Ownership!Make, Ownership!Vanish, Ownership!Forget,
                        Ownership!Same, Ownership!RecordMoves
  <2>2. CASE UNCHANGED Ownership!vars
    <3>1. (git'[s].path # "absent") = (git[s].path # "absent") /\ record'[s] = record[s]
      <4>1. [t \in Spaces |-> git'[t].path # "absent"][s] = [t \in Spaces |-> git[t].path # "absent"][s]
        BY <2>2 DEF Ownership!vars
      <4>2. QED
        BY <2>2, <4>1 DEF Ownership!vars
    <3>2. QED
      BY <1>2, <3>1 DEF Recorded
  <2>3. QED
    BY <1>2, <2>1, <2>2
<1>3. QED
  BY <1>1, <1>2, FollowsTheProtocol, PTL DEF OwnedResourceSpec, Ownership!Spec
=============================================================================
