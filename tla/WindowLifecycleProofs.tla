----------------------- MODULE WindowLifecycleProofs -----------------------
(***************************************************************************)
(* Proofs about WindowLifecycle for every set of processes, windows and    *)
(* workspaces: type correctness, the inductive invariant behind the safety *)
(* properties, and the refinement of OwnedResource.                        *)
(*                                                                         *)
(* The invariant has two halves: Facts, about the registry and the         *)
(* resources, and JobsOK, about the operations.  Only the holder of the    *)
(* lifecycle lock has an operation, so a step preserves JobsOK when the    *)
(* operation it leaves behind is right (AfterJob); the error paths all     *)
(* lead to stages that claim little (FailJob).                             *)
(***************************************************************************)
EXTENDS WindowLifecycle, TLAPS

USE HomeAssumption, ProjectAssumption, NoneAssumption, GitAssumption, FaultAssumption

WindowStages == {"reopen", "spawn", "verify", "commit", "rollback",
                 "check1", "intend", "check2", "kill", "drop"}
CreateStages == {"reopen", "spawn", "verify", "commit", "rollback"}
SpaceStages == {"risk", "markSpace", "confirm", "removeTree", "dropSpace", "unwind"}

(* A record of a workspace's window means its directory is still there.     *)
TreeInv == \A w \in Windows : Home[w] # Project /\ ~tree[Home[w]] => windowRec[w] = "none"

DataOK ==
  /\ windowRec \in [Windows -> WindowStates]
  /\ workspaceRec \in [Workspaces -> WorkspaceStates]
  /\ session \in [Windows -> SessionStates]
  /\ tree \in [Workspaces -> BOOLEAN]
  /\ faults \in Nat

Facts == DataOK /\ SessionsAreRecorded /\ TreeInv

(* What an operation may rely on at the stage it has reached.               *)
JobInv(j) ==
  /\ j.at = "idle" => j = Idle
  /\ j.at \in WindowStages => j.win \in Windows /\ j.win \notin j.todo
  /\ j.at \in SpaceStages \/ j.req = "deleteSpace" => j.space \in Workspaces
  /\ \A w \in j.todo : windowRec[w] # "none"
  /\ j.at \in CreateStages => j.req \in {"create", "open"}
  /\ j.at \in {"reopen", "spawn", "verify", "rollback"} =>
       windowRec[j.win] \in {"createPending", "ready"}
  /\ j.at = "commit" => windowRec[j.win] = "createPending"
  /\ j.at \in {"check1", "intend"} => windowRec[j.win] # "none"
  /\ j.at = "check2" => windowRec[j.win] = "deletePending"
  /\ j.at = "kill" => \/ windowRec[j.win] = "deletePending"
                      \/ /\ j.req \in {"create", "open"}
                         /\ windowRec[j.win] \in {"createPending", "ready"}
  /\ j.at = "drop" => session[j.win] = "absent"
  /\ j.at = "removeTree" => WindowsOf(j.space) = {}

(* The lifecycle lock: an operation runs only in the process that holds it. *)
LockInv == \A p \in Procs : job[p].at # "idle" => lifecycle = p

JobsOK ==
  /\ job \in [Procs -> Jobs]
  /\ lifecycle \in Procs \cup {None}
  /\ LockInv
  /\ \A p \in Procs : JobInv(job[p])

IInv == Facts /\ JobsOK

-----------------------------------------------------------------------------
(* How an operation changes.                                                *)

After(p, j) ==
  /\ job' = [job EXCEPT ![p] = j]
  /\ lifecycle' = IF j.at = "idle" THEN None ELSE p

LEMMA IdleType == Idle \in Jobs /\ Idle.at = "idle" /\ Idle.req = "none" /\ Idle.todo = {}
BY DEF Idle, Jobs, Stages

(* Lemma: the operations stay right when the one left behind is right.      *)
LEMMA AfterJob ==
  ASSUME NEW p \in Procs, NEW j \in Jobs, JobsOK,
         lifecycle \in {p, None}, After(p, j), JobInv(j)'
  PROVE  JobsOK'
<1>1. job' \in [Procs -> Jobs] /\ lifecycle' \in Procs \cup {None}
  BY DEF JobsOK, After
<1>2. ASSUME NEW q \in Procs, q # p
      PROVE  job[q] = Idle /\ job'[q] = Idle
  BY <1>2 DEF JobsOK, LockInv, JobInv, After
<1>3. job'[p] = j
  BY DEF JobsOK, After
<1>4. ASSUME NEW q \in Procs
      PROVE  job'[q].at # "idle" => lifecycle' = q
  BY <1>2, <1>3, IdleType DEF After
<1>5. ASSUME NEW q \in Procs
      PROVE  JobInv(job[q])'
  <2>1. CASE q = p
    BY <1>3, <2>1
  <2>2. CASE q # p
    BY <1>2, <2>2, IdleType DEF JobInv, WindowStages, SpaceStages, CreateStages
  <2>3. QED
    BY <2>1, <2>2
<1>6. QED
  BY <1>1, <1>4, <1>5 DEF JobsOK, LockInv

LEMMA HolderOf ==
  ASSUME NEW p \in Procs, JobsOK, job[p].at # "idle"
  PROVE  lifecycle = p /\ job[p] \in Jobs /\ JobInv(job[p])
BY DEF JobsOK, LockInv

LEMMA FinishJob ==
  ASSUME NEW p \in Procs, JobsOK, job[p].at # "idle", Finish(p)
  PROVE  JobsOK'
<1>1. After(p, Idle)
  BY IdleType DEF After, Finish
<1>2. JobInv(Idle)'
  BY IdleType DEF JobInv, WindowStages, SpaceStages, CreateStages
<1>3. QED
  BY <1>1, <1>2, AfterJob, HolderOf, IdleType

LEMMA GotoJob ==
  ASSUME NEW p \in Procs, JobsOK, job[p].at # "idle",
         NEW s \in Stages \ {"idle"}, Goto(p, s),
         NEW j, j = [job[p] EXCEPT !.at = s], JobInv(j)'
  PROVE  JobsOK'
<1>1. j \in Jobs /\ j.at # "idle"
  BY HolderOf DEF Jobs
<1>2. After(p, j)
  BY <1>1, HolderOf DEF After, Goto, JobsOK
<1>3. QED
  BY <1>1, <1>2, HolderOf, AfterJob

(* Lemma: a step to another stage, with what that stage relies on.          *)
LEMMA GotoStage ==
  ASSUME NEW p \in Procs, JobsOK, job[p].at # "idle",
         NEW s \in Stages \ {"idle"}, Goto(p, s),
         \A w \in job[p].todo : windowRec'[w] # "none",
         s \in WindowStages => job[p].win \in Windows /\ job[p].win \notin job[p].todo,
         s \in SpaceStages => job[p].space \in Workspaces,
         s \in CreateStages => job[p].req \in {"create", "open"},
         s \in {"reopen", "spawn", "verify", "rollback"} =>
           windowRec'[job[p].win] \in {"createPending", "ready"},
         s = "commit" => windowRec'[job[p].win] = "createPending",
         s \in {"check1", "intend"} => windowRec'[job[p].win] # "none",
         s = "check2" => windowRec'[job[p].win] = "deletePending",
         s = "kill" => \/ windowRec'[job[p].win] = "deletePending"
                       \/ /\ job[p].req \in {"create", "open"}
                          /\ windowRec'[job[p].win] \in {"createPending", "ready"},
         s = "drop" => session'[job[p].win] = "absent",
         s = "removeTree" => \A w \in Windows : Home[w] = job[p].space => windowRec'[w] = "none"
  PROVE  JobsOK'
<1> DEFINE j == [job[p] EXCEPT !.at = s]
<1>1. /\ j.at = s /\ j.todo = job[p].todo /\ j.win = job[p].win
      /\ j.space = job[p].space /\ j.req = job[p].req
  BY HolderOf DEF Jobs
<1> HIDE DEF j
<1>2. ASSUME NEW jj, jj = j
      PROVE  JobInv(jj)'
  <2>1. job[p].req = "deleteSpace" => job[p].space \in Workspaces
    BY HolderOf DEF JobInv
  <2>2. QED
    BY <1>1, <1>2, <2>1 DEF JobInv, WindowsOf
<1>3. QED
  BY <1>2, GotoJob DEF j

LEMMA StageTypes == WindowStages \cup SpaceStages \subseteq Stages \ {"idle"}
BY DEF Stages, WindowStages, SpaceStages, CreateStages

(* Lemma: the return to the caller's loop.                                  *)
LEMMA LoopJob ==
  ASSUME NEW p \in Procs, JobsOK, job[p].at # "idle",
         \/ Finish(p)
         \/ \E s \in {"nextWindow", "nextSpace"} : Goto(p, s),
         \A w \in job[p].todo : windowRec'[w] # "none"
  PROVE  JobsOK'
<1>1. CASE Finish(p)
  BY <1>1, FinishJob
<1>2. ASSUME NEW s \in {"nextWindow", "nextSpace"}, Goto(p, s)
      PROVE  JobsOK'
  BY <1>2, GotoStage, HolderOf DEF Stages, WindowStages, SpaceStages, CreateStages
<1>3. QED
  BY <1>1, <1>2

(* Lemma: the error path of a stage.  It ends the operation, returns to a   *)
(* loop of the caller, or turns a creation to its rollback.                 *)
LEMMA FailJob ==
  ASSUME NEW p \in Procs, JobsOK, job[p].at # "idle", Fail(p),
         \A w \in job[p].todo : windowRec'[w] # "none",
         job[p].at \in {"spawn", "verify", "commit"} =>
           windowRec'[job[p].win] \in {"createPending", "ready"}
  PROVE  JobsOK'
<1>1. CASE job[p].at \in {"spawn", "verify", "commit"} /\ Goto(p, "rollback")
  <2>1. /\ job[p].req \in {"create", "open"}
        /\ job[p].win \in Windows /\ job[p].win \notin job[p].todo
    BY <1>1, HolderOf DEF JobInv, WindowStages, CreateStages
  <2>2. QED
    BY <1>1, <2>1, GotoStage, StageTypes DEF WindowStages, SpaceStages, CreateStages
<1>2. \/ Finish(p)
      \/ \E s \in {"nextWindow", "nextSpace"} : Goto(p, s)
      \/ job[p].at \in {"spawn", "verify", "commit"} /\ Goto(p, "rollback")
  BY DEF Fail, AfterWindow, AfterSpace
<1>3. QED
  BY <1>1, <1>2, LoopJob

-----------------------------------------------------------------------------
(* Every action preserves the invariant.                                    *)

LEMMA StartInv ==
  ASSUME NEW p \in Procs, NEW j \in Jobs, JobsOK, Start(p, j), j.at # "idle", JobInv(j)'
  PROVE  JobsOK'
BY AfterJob DEF Start, After

LEMMA CreateWindowInv ==
  ASSUME NEW p \in Procs, NEW w \in Windows, IInv, CreateWindow(p, w)
  PROVE  IInv'
<1> DEFINE j == [Idle EXCEPT !.at = "spawn", !.req = "create", !.win = w]
<1>1. Facts'
  BY DEF CreateWindow, IInv, Facts, DataOK, SessionsAreRecorded, TreeInv, Fresh, WindowStates
<1>2. j \in Jobs /\ j.at = "spawn" /\ j.win = w /\ j.todo = {} /\ j.req = "create"
  BY DEF Idle, Jobs, Stages
<1>3. Start(p, j) /\ windowRec'[w] = "createPending"
  BY DEF CreateWindow, IInv, Facts, DataOK
<1> HIDE DEF j
<1>4. ASSUME NEW jj, jj = j PROVE JobInv(jj)'
  BY <1>2, <1>3, <1>4 DEF JobInv, WindowStages, SpaceStages, CreateStages
<1>5. QED
  BY <1>1, <1>2, <1>3, <1>4, StartInv DEF IInv

LEMMA OpenProjectWindowInv ==
  ASSUME NEW p \in Procs, NEW w \in Windows, IInv, OpenProjectWindow(p, w)
  PROVE  IInv'
<1>1. Facts'
  BY DEF OpenProjectWindow, IInv, Facts, DataOK, SessionsAreRecorded, TreeInv, Fresh, WindowStates
<1>2. ASSUME NEW s \in {"reopen", "spawn"}, NEW j,
             j = [Idle EXCEPT !.at = s, !.req = "open", !.win = w],
             Start(p, j), windowRec'[w] \in {"createPending", "ready"}
      PROVE  JobsOK'
  <2>1. j \in Jobs /\ j.at = s /\ j.win = w /\ j.todo = {} /\ j.req = "open"
    BY <1>2 DEF Idle, Jobs, Stages
  <2>2. JobInv(j)'
    BY <1>2, <2>1 DEF JobInv, WindowStages, SpaceStages, CreateStages
  <2>3. QED
    BY <1>2, <2>1, <2>2, StartInv DEF IInv
<1>3. QED
  BY <1>1, <1>2 DEF OpenProjectWindow, IInv, Facts, DataOK

LEMMA DeleteWindowInv ==
  ASSUME NEW p \in Procs, NEW w \in Windows, NEW force \in BOOLEAN, IInv, DeleteWindow(p, w, force)
  PROVE  IInv'
<1> DEFINE j == [Idle EXCEPT !.at = "check1", !.req = "delete", !.win = w, !.force = force]
<1>1. Facts'
  BY DEF DeleteWindow, IInv, Facts, DataOK, SessionsAreRecorded, TreeInv, registry
<1>2. j \in Jobs /\ j.at = "check1" /\ j.req = "delete" /\ j.win = w /\ j.todo = {}
  BY DEF Idle, Jobs, Stages
<1>3. Start(p, j) /\ windowRec'[w] # "none"
  BY DEF DeleteWindow, registry
<1> HIDE DEF j
<1>4. ASSUME NEW jj, jj = j PROVE JobInv(jj)'
  BY <1>2, <1>3, <1>4 DEF JobInv, WindowStages, SpaceStages, CreateStages
<1>5. QED
  BY <1>1, <1>2, <1>3, <1>4, StartInv DEF IInv

LEMMA CreatePlainWorkspaceInv ==
  ASSUME NEW p \in Procs, NEW k \in Workspaces, IInv, CreatePlainWorkspace(p, k)
  PROVE  IInv'
<1>1. Facts'
  BY DEF CreatePlainWorkspace, IInv, Facts, DataOK, SessionsAreRecorded, TreeInv, WorkspaceStates
<1>2. JobsOK'
  BY DEF CreatePlainWorkspace, IInv, JobsOK, LockInv, JobInv, WindowsOf
<1>3. QED
  BY <1>1, <1>2 DEF IInv

LEMMA DeleteWorkspaceInv ==
  ASSUME NEW p \in Procs, NEW k \in Workspaces, NEW force \in BOOLEAN, IInv, DeleteWorkspace(p, k, force)
  PROVE  IInv'
<1> DEFINE j == [Idle EXCEPT !.at = "risk", !.req = "deleteSpace", !.space = k,
                             !.todo = WindowsOf(k), !.force = force]
<1>1. Facts'
  BY DEF DeleteWorkspace, IInv, Facts, DataOK, SessionsAreRecorded, TreeInv, registry
<1>2. j \in Jobs /\ j.at = "risk" /\ j.space = k /\ j.todo = WindowsOf(k)
  BY DEF Idle, Jobs, Stages, WindowsOf
<1>3. Start(p, j) /\ \A w \in WindowsOf(k) : windowRec'[w] # "none"
  BY DEF DeleteWorkspace, registry, WindowsOf
<1> HIDE DEF j
<1>4. ASSUME NEW jj, jj \in Jobs, jj.at = "risk", jj.space = k,
             \A w \in jj.todo : windowRec'[w] # "none"
      PROVE  JobInv(jj)'
  BY <1>4 DEF JobInv, WindowStages, SpaceStages, CreateStages
<1>5. QED
  BY <1>1, <1>2, <1>3, <1>4, StartInv DEF IInv

LEMMA CleanupInv ==
  ASSUME NEW p \in Procs, IInv, Cleanup(p)
  PROVE  IInv'
<1> DEFINE j == [Idle EXCEPT !.at = "reconcile", !.req = "cleanup"]
<1>1. Facts'
  BY DEF Cleanup, IInv, Facts, DataOK, SessionsAreRecorded, TreeInv, registry
<1>2. j \in Jobs /\ j.at = "reconcile" /\ j.req = "cleanup" /\ j.todo = {}
  BY DEF Idle, Jobs, Stages
<1>3. Start(p, j)
  BY DEF Cleanup
<1> HIDE DEF j
<1>4. ASSUME NEW jj, jj = j PROVE JobInv(jj)'
  BY <1>2, <1>4 DEF JobInv, WindowStages, SpaceStages, CreateStages
<1>5. QED
  BY <1>1, <1>2, <1>3, <1>4, StartInv DEF IInv

(* The holder of an operation, unfolded once for the lemmas below.          *)
LEMMA Holding ==
  ASSUME NEW p \in Procs, IInv, job[p].at # "idle"
  PROVE  /\ job[p] \in Jobs
         /\ \A w \in job[p].todo : w \in Windows /\ windowRec[w] # "none"
         /\ job[p].at \in WindowStages => job[p].win \in Windows /\ job[p].win \notin job[p].todo
         /\ job[p].at \in SpaceStages \/ job[p].req = "deleteSpace" => job[p].space \in Workspaces
         /\ JobInv(job[p])
<1>1. job[p] \in Jobs /\ JobInv(job[p])
  BY HolderOf DEF IInv
<1>2. QED
  BY <1>1 DEF JobInv, Jobs

LEMMA ReopenInv ==
  ASSUME NEW p \in Procs, IInv, Reopen(p)
  PROVE  IInv'
<1>1. /\ job[p].win \in Windows /\ job[p].win \notin job[p].todo
      /\ \A w \in job[p].todo : w \in Windows /\ windowRec[w] # "none"
      /\ job[p].req \in {"create", "open"}
      /\ windowRec[job[p].win] \in {"createPending", "ready"}
  BY Holding DEF Reopen, Step, JobInv, WindowStages, SpaceStages, CreateStages
<1>2. Facts' /\ windowRec' = windowRec
  BY <1>1 DEF Reopen, Step, registry, IInv, Facts, DataOK, SessionsAreRecorded, TreeInv
<1> SUFFICES JobsOK'
  BY <1>2 DEF IInv
<1>3. job[p].at # "idle" /\ JobsOK
  BY DEF Reopen, Step, IInv
<1>4. CASE Goto(p, "spawn")
  BY <1>1, <1>2, <1>3, <1>4, GotoStage, StageTypes DEF WindowStages, SpaceStages, CreateStages
<1>5. CASE Finish(p)
  BY <1>2, <1>3, <1>5, FinishJob
<1>6. QED
  BY <1>4, <1>5 DEF Reopen, IInv

LEMMA SpawnInv ==
  ASSUME NEW p \in Procs, IInv, Spawn(p)
  PROVE  IInv'
<1>1. /\ job[p].at = "spawn" /\ job[p].win \in Windows /\ job[p].win \notin job[p].todo
      /\ \A w \in job[p].todo : w \in Windows /\ windowRec[w] # "none"
      /\ job[p].req \in {"create", "open"}
      /\ windowRec[job[p].win] \in {"createPending", "ready"}
  BY Holding DEF Spawn, Step, JobInv, WindowStages, SpaceStages, CreateStages
<1>2. Facts' /\ windowRec' = windowRec
  BY <1>1 DEF Spawn, Step, registry, IInv, Facts, DataOK, SessionsAreRecorded, TreeInv, Then, Fault, SessionStates
<1> SUFFICES JobsOK'
  BY <1>2 DEF IInv
<1>3. job[p].at # "idle" /\ JobsOK
  BY <1>1 DEF IInv
<1>4. CASE Goto(p, "verify")
  BY <1>1, <1>2, <1>3, <1>4, GotoStage, StageTypes DEF WindowStages, SpaceStages, CreateStages
<1>5. CASE Fail(p)
  BY <1>1, <1>2, <1>3, <1>5, FailJob
<1>6. QED
  BY <1>4, <1>5 DEF Spawn, Then

LEMMA VerifyInv ==
  ASSUME NEW p \in Procs, IInv, Verify(p)
  PROVE  IInv'
<1>1. /\ job[p].win \in Windows /\ job[p].win \notin job[p].todo
      /\ \A w \in job[p].todo : w \in Windows /\ windowRec[w] # "none"
      /\ job[p].req \in {"create", "open"}
      /\ windowRec[job[p].win] \in {"createPending", "ready"}
  BY Holding DEF Verify, Step, JobInv, WindowStages, SpaceStages, CreateStages
<1>2. Facts' /\ windowRec' = windowRec
  BY <1>1 DEF Verify, Step, registry, IInv, Facts, DataOK, SessionsAreRecorded, TreeInv
<1> SUFFICES JobsOK'
  BY <1>2 DEF IInv
<1>3. job[p].at # "idle" /\ JobsOK
  BY DEF Verify, Step, IInv
<1>4. CASE Goto(p, "rollback")
  BY <1>1, <1>2, <1>3, <1>4, GotoStage, StageTypes DEF WindowStages, SpaceStages, CreateStages
<1>5. CASE windowRec[job[p].win] = "createPending" /\ Goto(p, "commit")
  BY <1>1, <1>2, <1>3, <1>5, GotoStage, StageTypes DEF WindowStages, SpaceStages, CreateStages
<1>6. CASE Finish(p)
  BY <1>2, <1>3, <1>6, FinishJob
<1>7. QED
  BY <1>4, <1>5, <1>6 DEF Verify

LEMMA CommitInv ==
  ASSUME NEW p \in Procs, IInv, Commit(p)
  PROVE  IInv'
<1>1. /\ job[p].win \in Windows /\ job[p].win \notin job[p].todo
      /\ \A w \in job[p].todo : w \in Windows /\ windowRec[w] # "none"
      /\ windowRec[job[p].win] = "createPending" /\ job[p].at = "commit"
  BY Holding DEF Commit, Step, JobInv, WindowStages, SpaceStages, CreateStages
<1>2. Facts'
  BY <1>1 DEF Commit, Step, registry, IInv, Facts, DataOK, SessionsAreRecorded, TreeInv, Then, Fault, WindowStates
<1> SUFFICES JobsOK'
  BY <1>2 DEF IInv
<1>3. job[p].at # "idle" /\ JobsOK
  BY <1>1 DEF IInv
<1>4. /\ windowRec'[job[p].win] = "ready"
      /\ \A w \in job[p].todo : windowRec'[w] # "none"
  BY <1>1 DEF Commit, IInv, Facts, DataOK
<1>5. Finish(p) \/ Fail(p)
  BY DEF Commit, Then
<1>6. QED
  BY <1>3, <1>4, <1>5, FinishJob, FailJob

LEMMA RollbackInv ==
  ASSUME NEW p \in Procs, IInv, Rollback(p)
  PROVE  IInv'
<1>1. /\ job[p].win \in Windows /\ job[p].win \notin job[p].todo
      /\ \A w \in job[p].todo : w \in Windows /\ windowRec[w] # "none"
      /\ job[p].req \in {"create", "open"}
      /\ windowRec[job[p].win] \in {"createPending", "ready"}
  BY Holding DEF Rollback, Step, JobInv, WindowStages, SpaceStages, CreateStages
<1>2. Facts' /\ windowRec' = windowRec /\ session' = session
  BY <1>1 DEF Rollback, Step, registry, IInv, Facts, DataOK, SessionsAreRecorded, TreeInv
<1> SUFFICES JobsOK'
  BY <1>2 DEF IInv
<1>3. job[p].at # "idle" /\ JobsOK
  BY DEF Rollback, Step, IInv
<1>4. CASE Finish(p)
  BY <1>2, <1>3, <1>4, FinishJob
<1>5. CASE session[job[p].win] = "absent" /\ Goto(p, "drop")
  BY <1>1, <1>2, <1>3, <1>5, GotoStage, StageTypes DEF WindowStages, SpaceStages, CreateStages
<1>6. CASE Goto(p, "kill")
  BY <1>1, <1>2, <1>3, <1>6, GotoStage, StageTypes DEF WindowStages, SpaceStages, CreateStages
<1>7. QED
  BY <1>4, <1>5, <1>6 DEF Rollback

LEMMA CheckInv ==
  ASSUME NEW p \in Procs, IInv, Check(p)
  PROVE  IInv'
<1>1. /\ job[p].win \in Windows /\ job[p].win \notin job[p].todo
      /\ \A w \in job[p].todo : w \in Windows /\ windowRec[w] # "none"
      /\ windowRec[job[p].win] # "none"
      /\ job[p].at = "check2" => windowRec[job[p].win] = "deletePending"
      /\ job[p].req = "deleteSpace" => job[p].space \in Workspaces
      /\ job[p].at \in {"check1", "check2"}
  BY Holding DEF Check, JobInv, WindowStages, SpaceStages, CreateStages
<1>2. /\ \/ windowRec' = windowRec
         \/ windowRec' = [windowRec EXCEPT ![job[p].win] = "ready"]
      /\ UNCHANGED <<workspaceRec, session, tree>>
      /\ faults' \in {faults, faults + 1}
  BY DEF Check, RefuseLive, Then, Fault
<1>3. Facts'
  BY <1>1, <1>2 DEF IInv, Facts, DataOK, SessionsAreRecorded, TreeInv, WindowStates
<1> SUFFICES JobsOK'
  BY <1>3 DEF IInv
<1>4. /\ job[p].at # "idle" /\ JobsOK
      /\ \A w \in job[p].todo : windowRec'[w] # "none"
      /\ windowRec'[job[p].win] # "none"
  BY <1>1, <1>2 DEF IInv, Facts, DataOK
<1>5. CASE RefuseLive(p)
  <2>1. CASE job[p].req = "deleteSpace" /\ Goto(p, "unwind")
    BY <1>1, <1>4, <2>1, GotoStage, StageTypes DEF WindowStages, SpaceStages, CreateStages
  <2>2. CASE AfterWindow(p, FALSE)
    BY <1>4, <2>2, LoopJob DEF AfterWindow
  <2>3. CASE Fail(p)
    BY <1>1, <1>4, <2>3, FailJob
  <2>4. QED
    BY <1>5, <2>1, <2>2, <2>3 DEF RefuseLive, Then
<1>6. CASE AfterWindow(p, FALSE)
  BY <1>4, <1>6, LoopJob DEF AfterWindow
<1>7. ASSUME windowRec' = windowRec, session' = session,
             Goto(p, IF Step(p, "check1") THEN "intend"
                     ELSE IF Owned(job[p].win) THEN "kill" ELSE "drop"),
             ~Altered(job[p].win)
      PROVE  JobsOK'
  <2>1. CASE job[p].at = "check1"
    <3>1. Goto(p, "intend")
      BY <1>7, <2>1 DEF Step
    <3>2. QED
      BY <1>1, <1>4, <3>1, GotoStage, StageTypes DEF WindowStages, SpaceStages, CreateStages
  <2>2. CASE job[p].at = "check2" /\ Owned(job[p].win)
    <3>1. Goto(p, "kill") /\ windowRec'[job[p].win] = "deletePending"
      BY <1>1, <1>7, <2>2 DEF Step
    <3>2. QED
      BY <1>1, <1>4, <3>1, GotoStage, StageTypes DEF WindowStages, SpaceStages, CreateStages
  <2>3. CASE job[p].at = "check2" /\ ~Owned(job[p].win)
    <3>1. Goto(p, "drop") /\ session'[job[p].win] = "absent"
      BY <1>1, <1>7, <2>3 DEF Step, Owned, Altered, IInv, Facts, DataOK, SessionStates
    <3>2. QED
      BY <1>1, <1>4, <3>1, GotoStage, StageTypes DEF WindowStages, SpaceStages, CreateStages
  <2>4. QED
    BY <1>1, <2>1, <2>2, <2>3
<1>8. QED
  BY <1>5, <1>6, <1>7 DEF Check

LEMMA IntendInv ==
  ASSUME NEW p \in Procs, IInv, Intend(p)
  PROVE  IInv'
<1>1. /\ job[p].win \in Windows /\ job[p].win \notin job[p].todo
      /\ \A w \in job[p].todo : w \in Windows /\ windowRec[w] # "none"
      /\ windowRec[job[p].win] # "none"
      /\ job[p].at = "intend"
  BY Holding DEF Intend, Step, JobInv, WindowStages, SpaceStages, CreateStages
<1>2. /\ \/ windowRec' = windowRec
         \/ windowRec' = [windowRec EXCEPT ![job[p].win] = "deletePending"]
      /\ UNCHANGED <<workspaceRec, session, tree>>
      /\ faults' \in {faults, faults + 1}
  BY DEF Intend, Then, Fault
<1>3. Facts'
  BY <1>1, <1>2 DEF IInv, Facts, DataOK, SessionsAreRecorded, TreeInv, WindowStates
<1> SUFFICES JobsOK'
  BY <1>3 DEF IInv
<1>4. /\ job[p].at # "idle" /\ JobsOK
      /\ \A w \in job[p].todo : windowRec'[w] # "none"
  BY <1>1, <1>2 DEF IInv, Facts, DataOK
<1>5. CASE AfterWindow(p, FALSE)
  BY <1>4, <1>5, LoopJob DEF AfterWindow
<1>6. CASE Fail(p)
  BY <1>1, <1>4, <1>6, FailJob
<1>7. CASE /\ windowRec' = [windowRec EXCEPT ![job[p].win] = "deletePending"]
           /\ Goto(p, "check2")
  <2>1. windowRec'[job[p].win] = "deletePending"
    BY <1>1, <1>7 DEF IInv, Facts, DataOK
  <2>2. QED
    BY <1>1, <1>4, <1>7, <2>1, GotoStage, StageTypes DEF WindowStages, SpaceStages, CreateStages
<1>8. QED
  BY <1>5, <1>6, <1>7 DEF Intend, Then

LEMMA KillInv ==
  ASSUME NEW p \in Procs, IInv, Kill(p)
  PROVE  IInv'
<1>1. /\ job[p].win \in Windows /\ job[p].win \notin job[p].todo
      /\ \A w \in job[p].todo : w \in Windows /\ windowRec[w] # "none"
      /\ job[p].at = "kill"
  BY Holding DEF Kill, Step, JobInv, WindowStages, SpaceStages, CreateStages
<1>2. /\ \/ session' = session
         \/ session' = [session EXCEPT ![job[p].win] = "absent"]
      /\ UNCHANGED <<windowRec, workspaceRec, tree>>
      /\ faults' \in {faults, faults + 1}
  BY DEF Kill, registry, Then, Fault
<1>3. Facts'
  BY <1>1, <1>2 DEF IInv, Facts, DataOK, SessionsAreRecorded, TreeInv, SessionStates
<1> SUFFICES JobsOK'
  BY <1>3 DEF IInv
<1>4. /\ job[p].at # "idle" /\ JobsOK
      /\ \A w \in job[p].todo : windowRec'[w] # "none"
  BY <1>1, <1>2 DEF IInv
<1>5. CASE AfterWindow(p, FALSE)
  BY <1>4, <1>5, LoopJob DEF AfterWindow
<1>6. CASE Fail(p)
  BY <1>1, <1>4, <1>6, FailJob
<1>7. CASE session' = [session EXCEPT ![job[p].win] = "absent"] /\ Goto(p, "drop")
  <2>1. session'[job[p].win] = "absent"
    BY <1>1, <1>7 DEF IInv, Facts, DataOK
  <2>2. QED
    BY <1>1, <1>4, <1>7, <2>1, GotoStage, StageTypes DEF WindowStages, SpaceStages, CreateStages
<1>8. QED
  BY <1>5, <1>6, <1>7 DEF Kill, Then

LEMMA DropInv ==
  ASSUME NEW p \in Procs, IInv, Drop(p)
  PROVE  IInv'
<1>1. /\ job[p].win \in Windows /\ job[p].win \notin job[p].todo
      /\ \A w \in job[p].todo : w \in Windows /\ windowRec[w] # "none"
      /\ session[job[p].win] = "absent"
      /\ job[p].at = "drop"
  BY Holding DEF Drop, Step, JobInv, WindowStages, SpaceStages, CreateStages
<1>2. /\ windowRec' = [windowRec EXCEPT ![job[p].win] = "none"]
      /\ UNCHANGED <<workspaceRec, session, tree>>
      /\ faults' \in {faults, faults + 1}
  BY DEF Drop, Then, Fault
<1>3. Facts'
  BY <1>1, <1>2 DEF IInv, Facts, DataOK, SessionsAreRecorded, TreeInv, WindowStates
<1> SUFFICES JobsOK'
  BY <1>3 DEF IInv
<1>4. /\ job[p].at # "idle" /\ JobsOK
      /\ \A w \in job[p].todo : windowRec'[w] # "none"
  BY <1>1 DEF Drop, IInv, Facts, DataOK
<1>5. CASE AfterWindow(p, TRUE)
  BY <1>4, <1>5, LoopJob DEF AfterWindow
<1>6. CASE Fail(p)
  BY <1>1, <1>4, <1>6, FailJob
<1>7. QED
  BY <1>5, <1>6 DEF Drop, Then

(* Lemma: a step that leaves the windows, the sessions and the directories  *)
(* alone keeps Facts.                                                       *)
LEMMA SameWindows ==
  ASSUME IInv, UNCHANGED <<windowRec, session, tree>>, faults' \in {faults, faults + 1},
         workspaceRec' \in [Workspaces -> WorkspaceStates]
  PROVE  Facts'
BY DEF IInv, Facts, DataOK, SessionsAreRecorded, TreeInv

LEMMA RiskInv ==
  ASSUME NEW p \in Procs, IInv, Risk(p)
  PROVE  IInv'
<1>1. /\ \A w \in job[p].todo : windowRec[w] # "none"
      /\ job[p].space \in Workspaces
      /\ job[p].at = "risk"
  BY Holding DEF Risk, Step, SpaceStages
<1>2. UNCHANGED <<windowRec, workspaceRec, session, tree, faults>>
  BY DEF Risk, registry
<1>3. Facts'
  BY <1>2, SameWindows DEF IInv, Facts, DataOK
<1> SUFFICES JobsOK'
  BY <1>3 DEF IInv
<1>4. /\ job[p].at # "idle" /\ JobsOK
      /\ \A w \in job[p].todo : windowRec'[w] # "none"
  BY <1>1, <1>2 DEF IInv
<1>5. ASSUME NEW s \in {"markSpace", "unwind"}, Goto(p, s)
      PROVE  JobsOK'
  BY <1>1, <1>4, <1>5, GotoStage, StageTypes DEF WindowStages, SpaceStages, CreateStages
<1>6. CASE AfterSpace(p)
  BY <1>4, <1>6, LoopJob DEF AfterSpace
<1>7. QED
  BY <1>5, <1>6 DEF Risk

LEMMA MarkSpaceInv ==
  ASSUME NEW p \in Procs, IInv, MarkSpace(p)
  PROVE  IInv'
<1>1. /\ \A w \in job[p].todo : windowRec[w] # "none"
      /\ job[p].space \in Workspaces
      /\ job[p].at = "markSpace"
  BY Holding DEF MarkSpace, Step, SpaceStages
<1>2. /\ workspaceRec' = [workspaceRec EXCEPT ![job[p].space] = "deletePending"]
      /\ UNCHANGED <<windowRec, session, tree>>
      /\ faults' \in {faults, faults + 1}
  BY DEF MarkSpace, Then, Fault
<1>3. Facts'
  BY <1>1, <1>2, SameWindows DEF IInv, Facts, DataOK, WorkspaceStates
<1> SUFFICES JobsOK'
  BY <1>3 DEF IInv
<1>4. /\ job[p].at # "idle" /\ JobsOK
      /\ \A w \in job[p].todo : windowRec'[w] # "none"
  BY <1>1, <1>2 DEF IInv
<1>5. CASE Goto(p, "nextWindow")
  BY <1>4, <1>5, LoopJob
<1>6. CASE Fail(p)
  BY <1>1, <1>4, <1>6, FailJob
<1>7. QED
  BY <1>5, <1>6 DEF MarkSpace, Then

LEMMA NextWindowInv ==
  ASSUME NEW p \in Procs, IInv, NextWindow(p)
  PROVE  IInv'
<1>1. /\ \A w \in job[p].todo : w \in Windows /\ windowRec[w] # "none"
      /\ job[p] \in Jobs
      /\ job[p].req = "deleteSpace" => job[p].space \in Workspaces
      /\ job[p].at = "nextWindow" /\ lifecycle = p
  BY Holding, HolderOf DEF NextWindow, Step, IInv
<1>2. UNCHANGED <<windowRec, workspaceRec, session, tree, faults>>
  BY DEF NextWindow, registry
<1>3. Facts'
  BY <1>2, SameWindows DEF IInv, Facts, DataOK
<1> SUFFICES JobsOK'
  BY <1>3 DEF IInv
<1>4. job[p].at # "idle" /\ JobsOK
  BY <1>1 DEF IInv
<1>5. ASSUME NEW w \in job[p].todo, UNCHANGED lifecycle,
             job' = [job EXCEPT ![p].at = "check1", ![p].win = w, ![p].todo = @ \ {w}]
      PROVE  JobsOK'
  <2> DEFINE j == [job[p] EXCEPT !.at = "check1", !.win = w, !.todo = @ \ {w}]
  <2>1. /\ j \in Jobs /\ j.at = "check1" /\ j.win = w /\ j.todo = job[p].todo \ {w}
        /\ j.req = job[p].req /\ j.space = job[p].space
    BY <1>1 DEF Jobs, Stages
  <2>2. After(p, j)
    BY <1>1, <1>4, <1>5, <2>1 DEF After, JobsOK
  <2> HIDE DEF j
  <2>3. ASSUME NEW jj, jj = j PROVE JobInv(jj)'
    BY <1>1, <1>2, <2>1, <2>3 DEF JobInv, WindowStages, SpaceStages, CreateStages
  <2>4. QED
    BY <1>1, <1>4, <2>1, <2>2, <2>3, AfterJob
<1>6. CASE job[p].space # None /\ Goto(p, "confirm")
  <2>1. job[p].space \in Workspaces
    BY <1>1, <1>6 DEF Jobs
  <2>2. QED
    BY <1>1, <1>2, <1>4, <1>6, <2>1, GotoStage, StageTypes DEF WindowStages, SpaceStages, CreateStages
<1>7. ASSUME NEW ks \in SUBSET Workspaces, UNCHANGED lifecycle,
             job' = [job EXCEPT ![p].at = "nextSpace", ![p].spaces = ks]
      PROVE  JobsOK'
  <2> DEFINE j == [job[p] EXCEPT !.at = "nextSpace", !.spaces = ks]
  <2>1. /\ j \in Jobs /\ j.at = "nextSpace" /\ j.todo = job[p].todo
        /\ j.req = job[p].req /\ j.space = job[p].space
    BY <1>1 DEF Jobs, Stages
  <2>2. After(p, j)
    BY <1>1, <1>4, <1>7, <2>1 DEF After, JobsOK
  <2> HIDE DEF j
  <2>3. ASSUME NEW jj, jj = j PROVE JobInv(jj)'
    BY <1>1, <1>2, <2>1, <2>3 DEF JobInv, WindowStages, SpaceStages, CreateStages
  <2>4. QED
    BY <1>1, <1>4, <2>1, <2>2, <2>3, AfterJob
<1>8. ASSUME NEW stale \in SUBSET {k \in Workspaces \ GitWorkspaces :
                                     workspaceRec[k] = "ready" /\ WindowsOf(k) = {}},
             UNCHANGED lifecycle,
             job' = [job EXCEPT ![p].at = "nextSpace",
                       ![p].spaces = stale \cup {k \in Workspaces : workspaceRec[k] = "deletePending"}]
      PROVE  JobsOK'
  <2>1. stale \cup {k \in Workspaces : workspaceRec[k] = "deletePending"} \in SUBSET Workspaces
    BY <1>8
  <2>2. QED
    BY <1>7, <1>8, <2>1
<1>9. QED
  BY <1>5, <1>6, <1>8 DEF NextWindow

LEMMA ConfirmInv ==
  ASSUME NEW p \in Procs, IInv, Confirm(p)
  PROVE  IInv'
<1>1. /\ \A w \in job[p].todo : windowRec[w] # "none"
      /\ job[p].space \in Workspaces
      /\ job[p].at = "confirm"
  BY Holding DEF Confirm, Step, SpaceStages
<1>2. /\ workspaceRec' = [workspaceRec EXCEPT ![job[p].space] = "deletePending"]
      /\ UNCHANGED <<windowRec, session, tree>>
      /\ faults' \in {faults, faults + 1}
  BY DEF Confirm, Then, Fault
<1>3. Facts'
  BY <1>1, <1>2, SameWindows DEF IInv, Facts, DataOK, WorkspaceStates
<1> SUFFICES JobsOK'
  BY <1>3 DEF IInv
<1>4. /\ job[p].at # "idle" /\ JobsOK
      /\ \A w \in job[p].todo : windowRec'[w] # "none"
      /\ \A w \in Windows : Home[w] = job[p].space => windowRec'[w] = "none"
  BY <1>1, <1>2 DEF IInv, Confirm, WindowsOf
<1>5. ASSUME NEW s \in {"removeTree", "dropSpace"}, Goto(p, s)
      PROVE  JobsOK'
  BY <1>1, <1>4, <1>5, GotoStage, StageTypes DEF WindowStages, SpaceStages, CreateStages
<1>6. CASE Fail(p)
  BY <1>1, <1>4, <1>6, FailJob
<1>7. QED
  BY <1>5, <1>6 DEF Confirm, Then

LEMMA RemoveTreeInv ==
  ASSUME NEW p \in Procs, IInv, RemoveTree(p)
  PROVE  IInv'
<1>1. /\ \A w \in job[p].todo : windowRec[w] # "none"
      /\ job[p].space \in Workspaces
      /\ \A w \in Windows : Home[w] = job[p].space => windowRec[w] = "none"
      /\ job[p].at = "removeTree"
  BY Holding DEF RemoveTree, Step, SpaceStages, JobInv, WindowsOf
<1>2. /\ tree' = [tree EXCEPT ![job[p].space] = FALSE]
      /\ UNCHANGED <<windowRec, workspaceRec, session>>
      /\ faults' \in {faults, faults + 1}
  BY DEF RemoveTree, Then, Fault, registry
<1>3. Facts'
  BY <1>1, <1>2 DEF IInv, Facts, DataOK, SessionsAreRecorded, TreeInv
<1> SUFFICES JobsOK'
  BY <1>3 DEF IInv
<1>4. /\ job[p].at # "idle" /\ JobsOK
      /\ \A w \in job[p].todo : windowRec'[w] # "none"
  BY <1>1, <1>2 DEF IInv
<1>5. CASE Goto(p, "dropSpace")
  BY <1>1, <1>4, <1>5, GotoStage, StageTypes DEF WindowStages, SpaceStages, CreateStages
<1>6. CASE Fail(p)
  BY <1>1, <1>4, <1>6, FailJob
<1>7. QED
  BY <1>5, <1>6 DEF RemoveTree, Then

LEMMA DropSpaceInv ==
  ASSUME NEW p \in Procs, IInv, DropSpace(p)
  PROVE  IInv'
<1>1. /\ \A w \in job[p].todo : windowRec[w] # "none"
      /\ job[p].space \in Workspaces
      /\ job[p].at = "dropSpace"
  BY Holding DEF DropSpace, Step, SpaceStages
<1>2. /\ workspaceRec' = [workspaceRec EXCEPT ![job[p].space] = "none"]
      /\ UNCHANGED <<windowRec, session, tree>>
      /\ faults' \in {faults, faults + 1}
  BY DEF DropSpace, Then, Fault
<1>3. Facts'
  BY <1>1, <1>2, SameWindows DEF IInv, Facts, DataOK, WorkspaceStates
<1> SUFFICES JobsOK'
  BY <1>3 DEF IInv
<1>4. /\ job[p].at # "idle" /\ JobsOK
      /\ \A w \in job[p].todo : windowRec'[w] # "none"
  BY <1>1, <1>2 DEF IInv
<1>5. CASE AfterSpace(p)
  BY <1>4, <1>5, LoopJob DEF AfterSpace
<1>6. CASE Fail(p)
  BY <1>1, <1>4, <1>6, FailJob
<1>7. QED
  BY <1>5, <1>6 DEF DropSpace, Then

LEMMA UnwindInv ==
  ASSUME NEW p \in Procs, IInv, Unwind(p)
  PROVE  IInv'
<1>1. /\ \A w \in job[p].todo : w \in Windows /\ windowRec[w] # "none"
      /\ job[p].space \in Workspaces
      /\ job[p].at = "unwind"
  BY Holding DEF Unwind, Step, SpaceStages
<1>2. /\ workspaceRec' = [workspaceRec EXCEPT ![job[p].space] = "ready"]
      /\ windowRec' = [w \in Windows |->
           IF Home[w] = job[p].space /\ windowRec[w] = "deletePending" THEN "ready" ELSE windowRec[w]]
      /\ UNCHANGED <<session, tree>>
      /\ faults' \in {faults, faults + 1}
  BY DEF Unwind, Then, Fault
<1>3. /\ windowRec' \in [Windows -> WindowStates]
      /\ workspaceRec' \in [Workspaces -> WorkspaceStates]
      /\ \A w \in Windows : windowRec'[w] = "none" <=> windowRec[w] = "none"
  BY <1>1, <1>2 DEF IInv, Facts, DataOK, WindowStates, WorkspaceStates
<1>4. Facts'
  BY <1>2, <1>3 DEF IInv, Facts, DataOK, SessionsAreRecorded, TreeInv
<1> SUFFICES JobsOK'
  BY <1>4 DEF IInv
<1>5. /\ job[p].at # "idle" /\ JobsOK
      /\ \A w \in job[p].todo : windowRec'[w] # "none"
  BY <1>1, <1>3 DEF IInv
<1>6. CASE Finish(p)
  BY <1>5, <1>6, LoopJob
<1>7. CASE Fail(p)
  BY <1>1, <1>5, <1>7, FailJob
<1>8. QED
  BY <1>6, <1>7 DEF Unwind, Then

(* The one step that changes many records at once: it drops a record only   *)
(* when its session is absent, so no session loses its record.              *)
LEMMA ReconcileInv ==
  ASSUME NEW p \in Procs, IInv, Reconcile(p)
  PROVE  IInv'
<1>1. /\ job[p] \in Jobs
      /\ job[p].req = "deleteSpace" => job[p].space \in Workspaces
      /\ job[p].at = "reconcile" /\ lifecycle = p
  BY Holding, HolderOf DEF Reconcile, Step, IInv
<1>2. /\ UNCHANGED <<workspaceRec, session, tree, lifecycle>>
      /\ faults' \in {faults, faults + 1}
  BY DEF Reconcile, Fault
<1>3. PICK settled \in SUBSET {w \in Windows : windowRec[w] = "createPending"} :
        windowRec' = [w \in Windows |->
          IF w \notin settled THEN windowRec[w]
          ELSE IF session[w] = "absent" THEN "none" ELSE "ready"]
  BY DEF Reconcile
<1>4. /\ windowRec' \in [Windows -> WindowStates]
      /\ \A w \in Windows : windowRec[w] = "none" => windowRec'[w] = "none"
      /\ \A w \in Windows : session[w] # "absent" /\ windowRec[w] # "none" => windowRec'[w] # "none"
  BY <1>3 DEF IInv, Facts, DataOK, WindowStates
<1>5. Facts'
  BY <1>2, <1>4 DEF IInv, Facts, DataOK, SessionsAreRecorded, TreeInv
<1> SUFFICES JobsOK'
  BY <1>5 DEF IInv
<1>6. PICK ws \in SUBSET {w \in Windows : windowRec'[w] # "none"} :
        job' = [job EXCEPT ![p].at = "nextWindow", ![p].todo = ws]
  <2>1. PICK stale \in SUBSET {w \in Windows : windowRec'[w] \in {"createPending", "ready"}} :
          job' = [job EXCEPT ![p].at = "nextWindow",
                    ![p].todo = stale \cup {w \in Windows : windowRec'[w] = "deletePending"}]
    BY DEF Reconcile
  <2>2. stale \cup {w \in Windows : windowRec'[w] = "deletePending"}
          \in SUBSET {w \in Windows : windowRec'[w] # "none"}
    BY <2>1
  <2>3. QED
    BY <2>1, <2>2
<1> DEFINE j == [job[p] EXCEPT !.at = "nextWindow", !.todo = ws]
<1>7. /\ j \in Jobs /\ j.at = "nextWindow" /\ j.todo = ws
      /\ j.req = job[p].req /\ j.space = job[p].space
  BY <1>1 DEF Jobs, Stages
<1>8. job[p].at # "idle" /\ JobsOK
  BY <1>1 DEF IInv
<1>9. After(p, j)
  BY <1>1, <1>2, <1>6, <1>7, <1>8 DEF After, JobsOK
<1> HIDE DEF j
<1>10. ASSUME NEW jj, jj = j PROVE JobInv(jj)'
  BY <1>1, <1>6, <1>7, <1>10 DEF JobInv, WindowStages, SpaceStages, CreateStages
<1>11. QED
  BY <1>1, <1>7, <1>8, <1>9, <1>10, AfterJob

LEMMA NextSpaceInv ==
  ASSUME NEW p \in Procs, IInv, NextSpace(p)
  PROVE  IInv'
<1>1. /\ job[p] \in Jobs
      /\ job[p].at = "nextSpace" /\ lifecycle = p
  BY Holding, HolderOf DEF NextSpace, Step, IInv
<1>2. UNCHANGED <<windowRec, workspaceRec, session, tree, faults>>
  BY DEF NextSpace, registry
<1>3. Facts'
  BY <1>2, SameWindows DEF IInv, Facts, DataOK
<1> SUFFICES JobsOK'
  BY <1>3 DEF IInv
<1>4. job[p].at # "idle" /\ JobsOK
  BY <1>1 DEF IInv
<1>5. ASSUME NEW k \in job[p].spaces, UNCHANGED lifecycle,
             job' = [job EXCEPT ![p].at = "risk", ![p].space = k,
                       ![p].todo = WindowsOf(k), ![p].spaces = @ \ {k}]
      PROVE  JobsOK'
  <2> DEFINE j == [job[p] EXCEPT !.at = "risk", !.space = k,
                     !.todo = WindowsOf(k), !.spaces = @ \ {k}]
  <2>1. /\ j \in Jobs /\ j.at = "risk" /\ j.todo = WindowsOf(k)
        /\ j.space = k /\ k \in Workspaces
    BY <1>1 DEF Jobs, Stages, WindowsOf
  <2>2. After(p, j)
    BY <1>1, <1>4, <1>5, <2>1 DEF After, JobsOK
  <2> HIDE DEF j
  <2>3. \A w \in j.todo : windowRec'[w] # "none"
    BY <1>2, <2>1 DEF WindowsOf
  <2>4. ASSUME NEW jj, jj = j PROVE JobInv(jj)'
    BY <2>1, <2>3, <2>4 DEF JobInv, WindowStages, SpaceStages, CreateStages
  <2>5. QED
    BY <1>1, <1>4, <2>1, <2>2, <2>4, AfterJob
<1>6. CASE Finish(p)
  BY <1>4, <1>6, FinishJob
<1>7. QED
  BY <1>5, <1>6 DEF NextSpace

LEMMA CallFailsInv ==
  ASSUME NEW p \in Procs, IInv, CallFails(p)
  PROVE  IInv'
<1>1. UNCHANGED <<windowRec, workspaceRec, session, tree>> /\ faults' = faults + 1
  BY DEF CallFails, registry, Fault
<1>2. Facts'
  BY <1>1, SameWindows DEF IInv, Facts, DataOK
<1>3. /\ job[p].at # "idle" /\ JobsOK
      /\ \A w \in job[p].todo : windowRec'[w] # "none"
  BY <1>1, Holding DEF CallFails, IInv
<1>4. job[p].at \in {"spawn", "verify", "commit"} =>
        windowRec'[job[p].win] \in {"createPending", "ready"}
  BY <1>1, <1>3, HolderOf DEF JobInv
<1>5. JobsOK'
  BY <1>3, <1>4, FailJob DEF CallFails
<1>6. QED
  BY <1>2, <1>5 DEF IInv

LEMMA CrashInv ==
  ASSUME NEW p \in Procs, IInv, Crash(p)
  PROVE  IInv'
<1>1. UNCHANGED <<windowRec, workspaceRec, session, tree>> /\ faults' = faults + 1
  BY DEF Crash, registry, Fault
<1>2. Facts'
  BY <1>1, SameWindows DEF IInv, Facts, DataOK
<1>3. job[p].at # "idle" /\ JobsOK
  BY DEF Crash, IInv, JobsOK, JobInv
<1>4. JobsOK'
  BY <1>3, FinishJob DEF Crash
<1>5. QED
  BY <1>2, <1>4 DEF IInv

(* Lemma: no operation depends on a session staying up; a deletion and a    *)
(* rollback depend on an absent one staying absent.                         *)
LEMMA EnvironmentInv ==
  ASSUME IInv, Environment
  PROVE  IInv'
<1>1. /\ UNCHANGED <<windowRec, workspaceRec, tree, lifecycle, job>>
      /\ faults' \in {faults, faults + 1}
      /\ session' \in [Windows -> SessionStates]
      /\ \A w \in Windows : session[w] = "absent" => session'[w] = "absent"
  BY DEF Environment, ServerLost, ShellExits, Alter, Restore, Respawn, Owned, Altered, registry, Fault,
         IInv, Facts, DataOK, SessionStates
<1>2. Facts'
  BY <1>1 DEF IInv, Facts, DataOK, SessionsAreRecorded, TreeInv
<1>3. ASSUME NEW p \in Procs
      PROVE  JobInv(job[p])'
  <2>1. JobInv(job[p]) /\ job[p] \in Jobs
    BY DEF IInv, JobsOK
  <2>2. job[p].at = "drop" => session'[job[p].win] = "absent"
    BY <1>1, <2>1 DEF JobInv, WindowStages
  <2>3. QED
    BY <1>1, <2>1, <2>2 DEF JobInv, WindowsOf
<1>4. JobsOK'
  BY <1>1, <1>3 DEF IInv, JobsOK, LockInv
<1>5. QED
  BY <1>2, <1>4 DEF IInv

-----------------------------------------------------------------------------
(* The theorems.                                                            *)

LEMMA InitInv ==
  ASSUME Init
  PROVE  IInv
<1>1. Facts
  BY DEF Init, Facts, DataOK, SessionsAreRecorded, TreeInv, WindowStates, WorkspaceStates, SessionStates
<1>2. JobsOK
  BY IdleType DEF Init, JobsOK, LockInv, JobInv, WindowStages, SpaceStages, CreateStages
<1>3. QED
  BY <1>1, <1>2 DEF IInv

LEMMA BeginInv ==
  ASSUME NEW p \in Procs, IInv, Begin(p)
  PROVE  IInv'
BY CreateWindowInv, OpenProjectWindowInv, DeleteWindowInv, CreatePlainWorkspaceInv,
   DeleteWorkspaceInv, CleanupInv DEF Begin

LEMMA AdvanceInv ==
  ASSUME NEW p \in Procs, IInv, Advance(p)
  PROVE  IInv'
<1>1. CASE Reopen(p) \/ Spawn(p) \/ Verify(p) \/ Commit(p) \/ Rollback(p)
  BY <1>1, ReopenInv, SpawnInv, VerifyInv, CommitInv, RollbackInv
<1>2. CASE Check(p) \/ Intend(p) \/ Kill(p) \/ Drop(p)
  BY <1>2, CheckInv, IntendInv, KillInv, DropInv
<1>3. CASE Risk(p) \/ MarkSpace(p) \/ NextWindow(p) \/ Confirm(p)
  BY <1>3, RiskInv, MarkSpaceInv, NextWindowInv, ConfirmInv
<1>4. CASE RemoveTree(p) \/ DropSpace(p) \/ Unwind(p) \/ Reconcile(p) \/ NextSpace(p)
  BY <1>4, RemoveTreeInv, DropSpaceInv, UnwindInv, ReconcileInv, NextSpaceInv
<1>5. QED
  BY <1>1, <1>2, <1>3, <1>4 DEF Advance

LEMMA StutterInv ==
  ASSUME IInv, UNCHANGED vars
  PROVE  IInv'
<1>1. Facts'
  BY SameWindows DEF vars, IInv, Facts, DataOK
<1>2. JobsOK'
  BY DEF vars, IInv, JobsOK, LockInv, JobInv, WindowsOf
<1>3. QED
  BY <1>1, <1>2 DEF IInv

(* The inductive invariant of the window registry holds in every reachable  *)
(* state, for any number of processes, windows and workspaces.              *)
THEOREM Inductive == Spec => []IInv
<1>1. Init => IInv
  BY InitInv
<1>2. IInv /\ [Next]_vars => IInv'
  BY BeginInv, AdvanceInv, CallFailsInv, CrashInv, EnvironmentInv, StutterInv DEF Next
<1>3. QED
  BY <1>1, <1>2, PTL DEF Spec

(* Every variable of the window registry, and every operation in progress,  *)
(* keeps its type.                                                          *)
THEOREM TypeCorrect == Spec => []TypeOK
<1>1. IInv => TypeOK
  BY DEF IInv, Facts, DataOK, JobsOK, TypeOK
<1>2. QED
  BY <1>1, Inductive, PTL

(* No tmux session of the editor is ever without a registry record.         *)
THEOREM OwnershipIsNeverForgotten == Spec => []SessionsAreRecorded
<1>1. IInv => SessionsAreRecorded
  BY DEF IInv, Facts
<1>2. QED
  BY <1>1, Inductive, PTL

(* A worktree is removed only when its terminals and their records are gone, *)
(* which takes both halves of the invariant: no record (TreeInv) and so, as *)
(* sessions are recorded, no session.                                       *)
THEOREM WorktreesOutliveTerminals == Spec => []NoTerminalWithoutTree
<1>1. IInv => NoTerminalWithoutTree
  BY DEF IInv, Facts, TreeInv, SessionsAreRecorded, NoTerminalWithoutTree
<1>2. QED
  BY <1>1, Inductive, PTL

(* A deletion kills a session only while the intent to delete it is on disk. *)
THEOREM IntentPrecedesKill == Spec => []KillsWithIntent
<1>1. IInv => KillsWithIntent
  BY DEF IInv, JobsOK, JobInv, KillsWithIntent, Step
<1>2. QED
  BY <1>1, Inductive, PTL

-----------------------------------------------------------------------------
(* The refinement of OwnedResource, one window at a time.                   *)

Stays(w) == session'[w] = "absent" <=> session[w] = "absent"

Moves(w) ==
  \/ windowRec'[w] = windowRec[w] /\ Stays(w)
  \/ windowRec[w] = "none" /\ windowRec'[w] = "createPending" /\ Stays(w)
  \/ windowRec[w] = "createPending" /\ windowRec'[w] = "ready" /\ Stays(w)
  \/ windowRec[w] = "ready" /\ windowRec'[w] = "deletePending" /\ Stays(w)
  \/ windowRec[w] = "deletePending" /\ windowRec'[w] = "ready" /\ Stays(w)
  \/ /\ windowRec'[w] = windowRec[w] /\ windowRec[w] \in {"createPending", "ready"}
     /\ session[w] = "absent" /\ session'[w] # "absent"
  \/ /\ windowRec'[w] = windowRec[w]
     /\ session[w] # "absent" /\ session'[w] = "absent"
  \/ windowRec'[w] = "none" /\ session[w] = "absent" /\ session'[w] = "absent"

LEMMA MovesRefine ==
  ASSUME \A w \in Windows : Moves(w)
  PROVE  Ownership!Next
<1> SUFFICES ASSUME NEW w \in Windows
             PROVE  \/ Ownership!Write(w) \/ Ownership!Make(w) \/ Ownership!Vanish(w)
                    \/ Ownership!Forget(w) \/ Ownership!Same(w)
  BY DEF Ownership!Next
<1>1. Moves(w)
  OBVIOUS
<1>2. QED
  BY <1>1 DEF Moves, Stays, Ownership!Write, Ownership!Make, Ownership!Vanish, Ownership!Forget,
              Ownership!Same, Ownership!RecordMoves

(* Lemma: a step that leaves the registry of windows and the sessions alone *)
LEMMA SameMoves ==
  ASSUME UNCHANGED <<windowRec, session>>
  PROVE  \A w \in Windows : Moves(w)
BY DEF Moves, Stays

LEMMA BeginMoves ==
  ASSUME NEW p \in Procs, IInv, Begin(p), NEW v \in Windows
  PROVE  Moves(v)
<1>1. \/ UNCHANGED <<windowRec, session>>
      \/ \E w \in Windows : /\ windowRec[w] = "none"
                            /\ windowRec' = [windowRec EXCEPT ![w] = "createPending"]
                            /\ UNCHANGED session
  BY DEF Begin, CreateWindow, OpenProjectWindow, DeleteWindow, CreatePlainWorkspace, DeleteWorkspace,
         Cleanup, Fresh, registry
<1>2. windowRec \in [Windows -> WindowStates]
  BY DEF IInv, Facts, DataOK
<1>3. QED
  BY <1>1, <1>2 DEF Moves, Stays

LEMMA AdvanceMoves ==
  ASSUME NEW p \in Procs, IInv, Advance(p), NEW v \in Windows
  PROVE  Moves(v)
<1>1. DataOK /\ JobInv(job[p])
  BY DEF IInv, Facts, JobsOK
<1>2. CASE \/ Reopen(p) \/ Verify(p) \/ Rollback(p) \/ Risk(p) \/ MarkSpace(p) \/ NextWindow(p)
           \/ Confirm(p) \/ RemoveTree(p) \/ DropSpace(p) \/ NextSpace(p)
  BY <1>2 DEF Reopen, Verify, Rollback, Risk, MarkSpace, NextWindow, Confirm, RemoveTree, DropSpace,
              NextSpace, registry, Moves, Stays
<1>3. CASE Spawn(p)
  BY <1>1, <1>3 DEF Spawn, Step, registry, DataOK, JobInv, WindowStages, Moves, Stays
<1>4. CASE Commit(p)
  BY <1>1, <1>4 DEF Commit, Step, DataOK, JobInv, WindowStages, Moves, Stays
<1>5. CASE Check(p)
  <2>1. \/ windowRec' = windowRec
        \/ /\ windowRec[job[p].win] = "deletePending"
           /\ windowRec' = [windowRec EXCEPT ![job[p].win] = "ready"]
    BY <1>5 DEF Check, RefuseLive
  <2>2. UNCHANGED session
    BY <1>5 DEF Check
  <2>3. QED
    BY <1>1, <2>1, <2>2 DEF DataOK, Moves, Stays
<1>6. CASE Intend(p)
  <2>1. /\ windowRec[job[p].win] \in {"ready", "createPending", "deletePending"}
        /\ job[p].win \in Windows
    BY <1>1, <1>6 DEF Intend, Step, DataOK, JobInv, WindowStages, WindowStates
  <2>2. /\ \/ windowRec' = windowRec
           \/ /\ windowRec[job[p].win] # "createPending"
              /\ windowRec' = [windowRec EXCEPT ![job[p].win] = "deletePending"]
        /\ UNCHANGED session
    BY <1>6 DEF Intend
  <2>3. QED
    BY <1>1, <2>1, <2>2 DEF DataOK, Moves, Stays
<1>7. CASE Kill(p)
  <2>1. /\ UNCHANGED windowRec
        /\ \/ UNCHANGED session
           \/ session' = [session EXCEPT ![job[p].win] = "absent"]
    BY <1>7 DEF Kill, registry
  <2>2. QED
    BY <1>1, <2>1 DEF DataOK, Moves, Stays
<1>8. CASE Drop(p)
  BY <1>1, <1>8 DEF Drop, Step, DataOK, JobInv, WindowStages, Moves, Stays
<1>9. CASE Unwind(p)
  BY <1>1, <1>9 DEF Unwind, DataOK, Moves, Stays
<1>10. CASE Reconcile(p)
  <2>1. PICK settled \in SUBSET {w \in Windows : windowRec[w] = "createPending"} :
          windowRec' = [w \in Windows |->
            IF w \notin settled THEN windowRec[w]
            ELSE IF session[w] = "absent" THEN "none" ELSE "ready"]
    BY <1>10 DEF Reconcile
  <2>2. UNCHANGED session
    BY <1>10 DEF Reconcile
  <2>3. QED
    BY <1>1, <2>1, <2>2 DEF DataOK, Moves, Stays
<1>11. QED
  BY <1>2, <1>3, <1>4, <1>5, <1>6, <1>7, <1>8, <1>9, <1>10 DEF Advance

LEMMA EnvironmentMoves ==
  ASSUME IInv, Environment, NEW v \in Windows
  PROVE  Moves(v)
<1>1. UNCHANGED windowRec /\ session \in [Windows -> SessionStates]
  BY DEF Environment, ServerLost, ShellExits, Alter, Restore, Respawn, registry, IInv, Facts, DataOK
<1>2. session[v] = "absent" => session'[v] = "absent"
  BY <1>1 DEF Environment, ServerLost, ShellExits, Alter, Restore, Respawn, Owned, Altered
<1>3. QED
  BY <1>1, <1>2 DEF Moves, Stays

(* The window registry implements the owned-resource protocol: every write  *)
(* and every effect of every operation, of a crash and of the environment   *)
(* is one step of it.                                                       *)
THEOREM WindowsAreOwnedResources == Spec => OwnedResourceSpec
<1>1. Init => Ownership!Init
  BY DEF Init, Ownership!Init
<1>2. ASSUME IInv, Next
      PROVE  Ownership!Next
  <2>1. ASSUME NEW p \in Procs, Begin(p)
        PROVE  Ownership!Next
    BY <1>2, <2>1, BeginMoves, MovesRefine
  <2>2. ASSUME NEW p \in Procs, Advance(p)
        PROVE  Ownership!Next
    BY <1>2, <2>2, AdvanceMoves, MovesRefine
  <2>3. ASSUME NEW p \in Procs, CallFails(p) \/ Crash(p)
        PROVE  Ownership!Next
    BY <2>3, SameMoves, MovesRefine DEF CallFails, Crash, registry
  <2>4. CASE Environment
    BY <1>2, <2>4, EnvironmentMoves, MovesRefine
  <2>5. QED
    BY <1>2, <2>1, <2>2, <2>3, <2>4 DEF Next
<1>3. UNCHANGED vars => UNCHANGED Ownership!vars
  BY DEF vars, Ownership!vars
<1>4. QED
  BY <1>1, <1>2, <1>3, Inductive, PTL DEF Spec, OwnedResourceSpec, Ownership!Spec

-----------------------------------------------------------------------------
(* What a deletion without force kills.  It goes on to the kill only when   *)
(* it has seen the pane dead, and nothing but a spawn, which needs the lock *)
(* the deletion holds, or somebody's respawn makes a dead pane live.        *)

Down == {"absent", "dead", "alteredDead"}

SpareInv(j) ==
  /\ j.req = "cleanup" => ~j.force
  /\ j.at = "kill" /\ j.req \notin {"create", "open"} /\ ~j.force /\ j.win \notin Respawnable =>
       session[j.win] \in Down

Spares == \A p \in Procs : SpareInv(job[p])

(* Process p moves its operation, and not to a kill.                        *)
Quiet(p) ==
  /\ \A q \in Procs \ {p} : job'[q] = job[q]
  /\ job'[p].at # "kill"
  /\ job'[p].req = "cleanup" => ~job'[p].force

(* Lemma: the processes without the lock have no operation.                 *)
LEMMA QuietSpares ==
  ASSUME NEW p \in Procs, IInv, lifecycle \in {p, None},
         \A q \in Procs \ {p} : job'[q] = job[q], SpareInv(job[p])'
  PROVE  Spares'
<1> SUFFICES ASSUME NEW q \in Procs, q # p
             PROVE  SpareInv(job[q])'
  BY DEF Spares
<1>1. job[q] = Idle /\ job'[q] = Idle
  BY DEF IInv, JobsOK, LockInv, JobInv
<1>2. QED
  BY <1>1, IdleType DEF SpareInv

LEMMA FinishQuiet ==
  ASSUME NEW p \in Procs, IInv, Finish(p)
  PROVE  Quiet(p)
BY IdleType DEF Finish, Quiet, IInv, JobsOK

LEMMA GotoQuiet ==
  ASSUME NEW p \in Procs, IInv, Spares, NEW s, s # "kill", Goto(p, s)
  PROVE  Quiet(p)
<1>1. /\ job'[p].at = s /\ job'[p].req = job[p].req /\ job'[p].force = job[p].force
      /\ \A q \in Procs \ {p} : job'[q] = job[q]
  BY DEF Goto, IInv, JobsOK, Jobs
<1>2. QED
  BY <1>1 DEF Quiet, Spares, SpareInv

LEMMA ReturnQuiet ==
  ASSUME NEW p \in Procs, IInv, Spares,
         \/ Fail(p)
         \/ AfterSpace(p)
         \/ \E deleted \in BOOLEAN : AfterWindow(p, deleted)
  PROVE  Quiet(p)
<1>1. \/ Finish(p)
      \/ \E s \in {"nextWindow", "nextSpace", "rollback"} : Goto(p, s)
  BY DEF Fail, AfterWindow, AfterSpace
<1>2. ASSUME NEW s \in {"nextWindow", "nextSpace", "rollback"}, Goto(p, s)
      PROVE  Quiet(p)
  BY <1>2, GotoQuiet
<1>3. QED
  BY <1>1, <1>2, FinishQuiet

LEMMA StartQuiet ==
  ASSUME NEW p \in Procs, IInv, NEW j, Start(p, j), j.at # "kill", j.req = "cleanup" => ~j.force
  PROVE  Quiet(p) /\ lifecycle = None
BY DEF Start, Quiet, IInv, JobsOK

(* Lemma: no operation begins with a kill.                                  *)
LEMMA BeginQuiet ==
  ASSUME NEW p \in Procs, IInv, Spares, Begin(p)
  PROVE  lifecycle = None /\ (Quiet(p) \/ UNCHANGED <<session, job>>)
<1>1. CASE \E w \in Windows : CreateWindow(p, w) \/ OpenProjectWindow(p, w)
  <2>1. PICK w \in Windows : CreateWindow(p, w) \/ OpenProjectWindow(p, w)
    BY <1>1
  <2>2. PICK a \in {"reopen", "spawn"}, r \in {"create", "open"} :
          Start(p, [Idle EXCEPT !.at = a, !.req = r, !.win = w])
    BY <2>1 DEF CreateWindow, OpenProjectWindow
  <2> DEFINE j == [Idle EXCEPT !.at = a, !.req = r, !.win = w]
  <2>3. j.at # "kill" /\ j.req # "cleanup"
    BY DEF Idle
  <2> HIDE DEF j
  <2>4. QED
    BY <2>2, <2>3, StartQuiet DEF j
<1>2. CASE \E w \in Windows, force \in BOOLEAN : DeleteWindow(p, w, force)
  <2>1. PICK w \in Windows, force \in BOOLEAN : DeleteWindow(p, w, force)
    BY <1>2
  <2> DEFINE j == [Idle EXCEPT !.at = "check1", !.req = "delete", !.win = w, !.force = force]
  <2>2. j.at # "kill" /\ j.req # "cleanup" /\ Start(p, j)
    BY <2>1 DEF Idle, DeleteWindow
  <2> HIDE DEF j
  <2>3. QED
    BY <2>2, StartQuiet
<1>3. CASE \E k \in Workspaces : CreatePlainWorkspace(p, k)
  BY <1>3 DEF CreatePlainWorkspace
<1>4. CASE \E k \in Workspaces, force \in BOOLEAN : DeleteWorkspace(p, k, force)
  <2>1. PICK k \in Workspaces, force \in BOOLEAN : DeleteWorkspace(p, k, force)
    BY <1>4
  <2> DEFINE j == [Idle EXCEPT !.at = "risk", !.req = "deleteSpace", !.space = k,
                               !.todo = WindowsOf(k), !.force = force]
  <2>2. j.at # "kill" /\ j.req # "cleanup" /\ Start(p, j)
    BY <2>1 DEF Idle, DeleteWorkspace
  <2> HIDE DEF j
  <2>3. QED
    BY <2>2, StartQuiet
<1>5. CASE Cleanup(p)
  <2> DEFINE j == [Idle EXCEPT !.at = "reconcile", !.req = "cleanup"]
  <2>1. j.at # "kill" /\ ~j.force /\ Start(p, j)
    BY <1>5 DEF Idle, Cleanup
  <2> HIDE DEF j
  <2>2. QED
    BY <2>1, StartQuiet
<1>6. QED
  BY <1>1, <1>2, <1>3, <1>4, <1>5 DEF Begin

(* Lemma: the one way from a deletion to a kill.                            *)
LEMMA CheckGoes ==
  ASSUME NEW p \in Procs, IInv, Spares, Check(p)
  PROVE  /\ job[p].at \in {"check1", "check2"} /\ lifecycle = p /\ UNCHANGED session
         /\ \/ Quiet(p)
            \/ /\ job[p].at = "check2" /\ Goto(p, "kill") /\ Owned(job[p].win)
               /\ session[job[p].win] = "live" => job[p].force
<1>1. job[p].at \in {"check1", "check2"} /\ lifecycle = p /\ UNCHANGED session
  BY HolderOf DEF Check, IInv
<1>2. \/ \E s \in {"unwind", "intend", "drop"} : Goto(p, s)
      \/ Fail(p)
      \/ AfterWindow(p, FALSE)
      \/ /\ job[p].at = "check2" /\ Goto(p, "kill") /\ Owned(job[p].win)
         /\ session[job[p].win] = "live" => job[p].force
  BY <1>1 DEF Check, RefuseLive, Then, Step
<1>3. ASSUME NEW s \in {"unwind", "intend", "drop"}, Goto(p, s)
      PROVE  Quiet(p)
  BY <1>3, GotoQuiet
<1>4. QED
  BY <1>1, <1>2, <1>3, ReturnQuiet

LEMMA CheckSpares ==
  ASSUME NEW p \in Procs, IInv, Spares, Check(p)
  PROVE  Spares'
<1>1. lifecycle = p /\ UNCHANGED session
  BY CheckGoes
<1>2. CASE Quiet(p)
  BY <1>1, <1>2, QuietSpares DEF Quiet, SpareInv
<1>3. CASE Goto(p, "kill") /\ Owned(job[p].win) /\ (session[job[p].win] = "live" => job[p].force)
  <2>1. /\ job'[p].req = job[p].req /\ job'[p].force = job[p].force /\ job'[p].win = job[p].win
        /\ \A q \in Procs \ {p} : job'[q] = job[q]
    BY <1>3 DEF Goto, IInv, JobsOK, Jobs
  <2>2. SpareInv(job[p])'
    BY <1>1, <1>3, <2>1 DEF SpareInv, Spares, Owned, Down
  <2>3. QED
    BY <1>1, <2>1, <2>2, QuietSpares
<1>4. QED
  BY <1>2, <1>3, CheckGoes

(* Lemma: a rollback belongs to a creation.                                 *)
LEMMA RollbackGoes ==
  ASSUME NEW p \in Procs, IInv, Spares, Rollback(p)
  PROVE  /\ job[p].at = "rollback" /\ lifecycle = p /\ job[p].req \in {"create", "open"}
         /\ Quiet(p) \/ Goto(p, "kill")
<1>1. job[p].at = "rollback" /\ lifecycle = p /\ job[p].req \in {"create", "open"}
  BY HolderOf DEF Rollback, Step, IInv, JobInv, CreateStages
<1>2. Finish(p) \/ \E s \in {"drop", "kill"} : Goto(p, s)
  BY DEF Rollback
<1>3. QED
  BY <1>1, <1>2, FinishQuiet, GotoQuiet

LEMMA RollbackSpares ==
  ASSUME NEW p \in Procs, IInv, Spares, Rollback(p)
  PROVE  Spares'
<1>1. lifecycle = p /\ job[p].req \in {"create", "open"}
  BY RollbackGoes
<1>2. CASE Quiet(p)
  BY <1>1, <1>2, QuietSpares DEF Quiet, SpareInv
<1>3. CASE Goto(p, "kill")
  <2>1. job'[p].req = job[p].req /\ \A q \in Procs \ {p} : job'[q] = job[q]
    BY <1>3 DEF Goto, IInv, JobsOK, Jobs
  <2>2. QED
    BY <1>1, <2>1, QuietSpares DEF SpareInv
<1>4. QED
  BY <1>2, <1>3, RollbackGoes

(* Lemma: no other stage leads to a kill.                                   *)
LEMMA AdvanceQuiet ==
  ASSUME NEW p \in Procs, IInv, Spares, Advance(p), ~Check(p), ~Rollback(p)
  PROVE  Quiet(p) /\ job[p].at # "idle"
<1> USE GotoQuiet, FinishQuiet, ReturnQuiet
<1>1. CASE Reopen(p) \/ Spawn(p) \/ Verify(p) \/ Commit(p)
  BY <1>1 DEF Reopen, Spawn, Verify, Commit, Then, Step
<1>2. CASE Intend(p) \/ Kill(p) \/ Drop(p)
  BY <1>2 DEF Intend, Kill, Drop, Then, Step
<1>3. CASE Risk(p)
  BY <1>3 DEF Risk, Step
<1>4. CASE MarkSpace(p)
  BY <1>4 DEF MarkSpace, Then, Step
<1>5. CASE NextWindow(p)
  <2>1. CASE \E w \in job[p].todo :
               job' = [job EXCEPT ![p].at = "check1", ![p].win = w, ![p].todo = @ \ {w}]
    <3>1. /\ job'[p].at = "check1" /\ job'[p].req = job[p].req /\ job'[p].force = job[p].force
          /\ \A q \in Procs \ {p} : job'[q] = job[q]
      BY <2>1 DEF IInv, JobsOK, Jobs
    <3>2. QED
      BY <1>5, <3>1 DEF Quiet, Spares, SpareInv, NextWindow, Step
  <2>2. CASE Goto(p, "confirm")
    BY <1>5, <2>2 DEF NextWindow, Step
  <2>3. CASE \E ks : job' = [job EXCEPT ![p].at = "nextSpace", ![p].spaces = ks]
    <3>1. /\ job'[p].at = "nextSpace" /\ job'[p].req = job[p].req /\ job'[p].force = job[p].force
          /\ \A q \in Procs \ {p} : job'[q] = job[q]
      BY <2>3 DEF IInv, JobsOK, Jobs
    <3>2. QED
      BY <1>5, <3>1 DEF Quiet, Spares, SpareInv, NextWindow, Step
  <2>4. QED
    BY <1>5, <2>1, <2>2, <2>3 DEF NextWindow
<1>6. CASE Confirm(p)
  <2>1. Fail(p) \/ \E s \in {"removeTree", "dropSpace"} : Goto(p, s)
    BY <1>6 DEF Confirm, Then
  <2>2. QED
    BY <1>6, <2>1 DEF Confirm, Step
<1>7. CASE RemoveTree(p) \/ DropSpace(p) \/ Unwind(p)
  BY <1>7 DEF RemoveTree, DropSpace, Unwind, Then, Step
<1>8. CASE Reconcile(p)
  <2>1. PICK ws : job' = [job EXCEPT ![p].at = "nextWindow", ![p].todo = ws]
    BY <1>8 DEF Reconcile
  <2>2. /\ job'[p].at = "nextWindow" /\ job'[p].req = job[p].req /\ job'[p].force = job[p].force
        /\ \A q \in Procs \ {p} : job'[q] = job[q]
    BY <2>1 DEF IInv, JobsOK, Jobs
  <2>3. QED
    BY <1>8, <2>2 DEF Quiet, Spares, SpareInv, Reconcile, Step
<1>9. CASE NextSpace(p)
  <2>1. CASE \E k, ws, ks : job' = [job EXCEPT ![p].at = "risk", ![p].space = k,
                                      ![p].todo = ws, ![p].spaces = ks]
    <3>1. /\ job'[p].at = "risk" /\ job'[p].req = job[p].req /\ job'[p].force = job[p].force
          /\ \A q \in Procs \ {p} : job'[q] = job[q]
      BY <2>1 DEF IInv, JobsOK, Jobs
    <3>2. QED
      BY <1>9, <3>1 DEF Quiet, Spares, SpareInv, NextSpace, Step
  <2>2. CASE Finish(p)
    BY <1>9, <2>2 DEF NextSpace, Step
  <2>3. QED
    BY <1>9, <2>1, <2>2 DEF NextSpace
<1>10. QED
  BY <1>1, <1>2, <1>3, <1>4, <1>5, <1>6, <1>7, <1>8, <1>9 DEF Advance

(* Lemma: in the environment only a respawn starts a dead pane.             *)
LEMMA EnvironmentSpares ==
  ASSUME IInv, Spares, Environment
  PROVE  Spares'
<1>1. UNCHANGED job /\ session \in [Windows -> SessionStates]
  BY DEF Environment, ServerLost, ShellExits, Alter, Restore, Respawn, registry, IInv, Facts, DataOK
<1>2. ASSUME NEW w \in Windows, w \notin Respawnable, session[w] \in Down
      PROVE  session'[w] \in Down
  BY <1>1, <1>2 DEF Environment, ServerLost, ShellExits, Alter, Restore, Respawn, Owned, Altered, Down
<1>3. ASSUME NEW p \in Procs
      PROVE  SpareInv(job[p])'
  <2>1. job[p].at = "kill" => job[p].win \in Windows
    BY DEF IInv, JobsOK, JobInv, WindowStages
  <2>2. QED
    BY <1>1, <1>2, <2>1 DEF Spares, SpareInv
<1>4. QED
  BY <1>3 DEF Spares

(* Lemma: every step keeps SpareInv of every operation.                     *)
LEMMA SparesStep ==
  ASSUME IInv, Spares, [Next]_vars
  PROVE  Spares'
<1>1. ASSUME NEW p \in Procs, Advance(p)
      PROVE  Spares'
  <2>1. CASE Quiet(p) /\ job[p].at # "idle"
    BY <2>1, QuietSpares, HolderOf DEF Quiet, SpareInv, IInv
  <2>2. QED
    BY <1>1, <2>1, AdvanceQuiet, CheckSpares, RollbackSpares
<1>2. ASSUME NEW p \in Procs, CallFails(p) \/ Crash(p)
      PROVE  Spares'
  <2>1. Quiet(p)
    BY <1>2, ReturnQuiet, FinishQuiet DEF CallFails, Crash
  <2>2. lifecycle = p
    BY <1>2, HolderOf DEF CallFails, Crash, IInv, JobsOK, JobInv
  <2>3. QED
    BY <2>1, <2>2, QuietSpares DEF Quiet, SpareInv
<1>3. ASSUME NEW p \in Procs, Begin(p)
      PROVE  Spares'
  <2>1. CASE Quiet(p)
    BY <1>3, <2>1, BeginQuiet, QuietSpares DEF Quiet, SpareInv
  <2>2. CASE UNCHANGED <<session, job>>
    BY <2>2 DEF Spares, SpareInv
  <2>3. QED
    BY <1>3, <2>1, <2>2, BeginQuiet
<1>4. CASE UNCHANGED vars
  BY <1>4 DEF vars, Spares, SpareInv
<1>5. QED
  BY <1>1, <1>2, <1>3, <1>4, EnvironmentSpares DEF Next

(* What SpareInv says of the operations is true throughout.                 *)
LEMMA AlwaysSpares == Spec => []Spares
<1>1. Init => Spares
  BY IdleType DEF Init, Spares, SpareInv
<1>2. QED
  BY <1>1, SparesStep, Inductive, PTL DEF Spec

(* Lemma: a deletion that nobody confirmed comes to the kill from the       *)
(* second inspection, which sees the pane dead and the intent on disk.      *)
LEMMA SeesItDead ==
  ASSUME IInv, Spares, [Next]_vars, NEW p \in Procs, Unconfirmed(p),
         job[p].at # "kill", job'[p].at = "kill"
  PROVE  session[job[p].win] = "dead" /\ windowRec[job[p].win] = "deletePending"
<1>1. job'[p] # job[p] /\ ~Quiet(p)
  BY DEF Quiet
<1>2. ASSUME NEW q \in Procs, Quiet(q)
      PROVE  FALSE
  BY <1>1, <1>2 DEF Quiet
<1>3. ASSUME NEW q \in Procs, Goto(q, "kill")
      PROVE  q = p
  BY <1>1, <1>3 DEF Goto, IInv, JobsOK
<1>4. ASSUME NEW q \in Procs, Advance(q), ~Check(q)
      PROVE  FALSE
  <2>1. Rollback(q)
    BY <1>2, <1>4, AdvanceQuiet
  <2>2. job[q].req \in {"create", "open"} /\ Goto(q, "kill")
    BY <1>2, <2>1, RollbackGoes
  <2>3. QED
    BY <1>3, <2>2 DEF Unconfirmed
<1>5. ASSUME NEW q \in Procs, Check(q)
      PROVE  session[job[p].win] = "dead" /\ windowRec[job[p].win] = "deletePending"
  <2>1. /\ job[q].at = "check2" /\ Goto(q, "kill") /\ Owned(job[q].win)
        /\ session[job[q].win] = "live" => job[q].force
    BY <1>2, <1>5, CheckGoes
  <2>2. q = p
    BY <1>3, <2>1
  <2>3. ~job[p].force
    BY DEF Unconfirmed, Recovering, Spares, SpareInv
  <2>4. windowRec[job[p].win] = "deletePending"
    BY <2>1, <2>2 DEF IInv, JobsOK, JobInv
  <2>5. QED
    BY <2>1, <2>2, <2>3, <2>4 DEF Owned
<1>6. ~Environment
  BY <1>1 DEF Environment, ServerLost, ShellExits, Alter, Restore, Respawn
<1>7. ASSUME NEW q \in Procs, CallFails(q) \/ Crash(q)
      PROVE  FALSE
  <2>1. Quiet(q)
    BY <1>7, ReturnQuiet, FinishQuiet DEF CallFails, Crash
  <2>2. QED
    BY <1>2, <2>1
<1>8. ASSUME NEW q \in Procs, Begin(q)
      PROVE  FALSE
  BY <1>1, <1>2, <1>8, BeginQuiet
<1>9. QED
  BY <1>1, <1>4, <1>5, <1>6, <1>7, <1>8 DEF Next, vars

(* KillsOnlyWhatItSawDead: a deletion that nobody confirmed goes on to the  *)
(* kill only from the inspection that finds the pane dead with the intent   *)
(* on disk, and what it then kills is live only if somebody started the     *)
(* pane again since: for a window nobody respawns no exit, restart, retry   *)
(* or change of lock holder in between does it.                             *)
THEOREM OnlyTheDeadAreKilled == Spec => KillsOnlyWhatItSawDead
<1>1. ASSUME IInv, Spares, [Next]_vars
      PROVE  [\A p \in Procs : Unconfirmed(p) =>
               /\ ~Step(p, "kill") /\ job'[p].at = "kill" =>
                    session[job[p].win] = "dead" /\ windowRec[job[p].win] = "deletePending"
               /\ Step(p, "kill") /\ Kill(p) =>
                    session[job[p].win] # "live" \/ job[p].win \in Respawnable]_vars
  <2> SUFFICES ASSUME NEW p \in Procs, Unconfirmed(p)
               PROVE  /\ ~Step(p, "kill") /\ job'[p].at = "kill" =>
                           /\ session[job[p].win] = "dead"
                           /\ windowRec[job[p].win] = "deletePending"
                      /\ Step(p, "kill") /\ Kill(p) =>
                           session[job[p].win] # "live" \/ job[p].win \in Respawnable
    OBVIOUS
  <2>1. ~Step(p, "kill") /\ job'[p].at = "kill" =>
          session[job[p].win] = "dead" /\ windowRec[job[p].win] = "deletePending"
    BY <1>1, SeesItDead DEF Step
  <2>2. Step(p, "kill") => session[job[p].win] # "live" \/ job[p].win \in Respawnable
    BY <1>1 DEF Spares, SpareInv, Step, Unconfirmed, Recovering, Down
  <2>3. QED
    BY <2>1, <2>2
<1>2. QED
  BY <1>1, Inductive, AlwaysSpares, PTL DEF Spec, KillsOnlyWhatItSawDead
=============================================================================
