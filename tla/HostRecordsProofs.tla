------------------------- MODULE HostRecordsProofs -------------------------
(***************************************************************************)
(* The markers and the files of the host's records, for any number of      *)
(* instances, sessions and attachments.  What an operation is about to     *)
(* drop from the registry has lost its markers or its file by then, and    *)
(* the lifecycle lock keeps it so: the people at the sessions only take    *)
(* markers away.  Which is what an operation relies on at each stage, and  *)
(* after each of the failures that lead it there, is the invariant.        *)
(***************************************************************************)
EXTENDS HostRecords, TLAPS

-----------------------------------------------------------------------------
(* The inductive invariant.                                                 *)

SessionStages == {"record", "mark", "verify", "inspect", "clear", "undo",
                  "release", "intend", "recheck", "dropWindow"}

(* What the lock keeps for the whole of an operation.                       *)
Settled(drop, todo) ==
  /\ \A s \in drop \cap Sessions : Untouched(s)
  /\ \A f \in drop \cap Files : f \notin disk
  /\ \A f \in todo \cap Files : file[f].at # "ready"

OpBase ==
  /\ At("idle") => op = Idle
  /\ ~At("idle") => Me \in Instances
  /\ op.at \in SessionStages => This \in Sessions
  /\ op.req \in {"adopt", "upload"} =>
       ~op.deleting /\ op.drop = {} /\ op.todo = {}
  /\ op.at \in {"risk", "markSpace", "withdraw", "windows", "confirm"} => op.deleting
  /\ op.at \in {"sweep", "kill", "create", "undoFile", "dropFile"} => ~op.deleting
  /\ op.deleting /\ op.at \notin {"risk", "markSpace", "withdraw"} => space[Me] = "deletePending"
  /\ Settled(op.drop, op.todo)

OpStage ==
  /\ op.at \in {"record", "mark", "verify", "undo"} => op.req = "adopt"
  /\ At("create") => op.req = "upload"
  /\ op.req = "upload" => op.at \in {"create", "commit", "undoFile", "dropFile"}
  /\ At("commit") => \/ op.req = "adopt" /\ This \in Sessions
                     \/ op.req = "upload" /\ op.file \in Files /\ file[op.file] # NoFile
  /\ op.at \in {"create", "undoFile", "dropFile"} => op.file \in Files
  /\ At("create") => file[op.file] # NoFile
  /\ At("undoFile") => op.req = "upload" \/ file[op.file].at # "ready"
  /\ At("dropFile") => op.file \notin disk
  /\ op.at \in {"record", "undo", "dropWindow"} => Untouched(This)
  /\ At("mark") => /\ window[Me][This] # "none" /\ op.keys # {}
                   /\ \A k \in Markers : marks[This][k] \in {Me, None}
  /\ At("clear") => /\ op.keys # {}
                    /\ \A k \in op.keys : marks[This][k] \in {Me, None}
                    /\ \A k \in Markers \ op.keys : marks[This][k] = None
  /\ op.at \in {"files", "dropSpace"} /\ ~op.deleting => terminal[Me] = "deletePending"
  /\ At("dropSpace") => Held(Me, IF op.deleting THEN "space" ELSE "terminal") \cap disk = {}

(* A session that is gone took its markers with it.                         *)
GoneIsUnmarked == \A s \in Sessions : ~Exists(s) => Untouched(s)

IInv ==
  /\ TypeOK /\ OpBase /\ OpStage
  /\ GoneIsUnmarked /\ OwnMarkersAreRecorded /\ FilesAreRecorded

USE NoneAssumption, KindAssumption, OwnerAssumption, FaultAssumption

-----------------------------------------------------------------------------
(* Where an operation goes on.                                              *)

(* The same operation, at another stage or in another pass.                 *)
Kept ==
  /\ op'.req = op.req /\ op'.inst = op.inst /\ op'.session = op.session
  /\ op'.file = op.file /\ op'.todo = op.todo

(* What the environment of the operation has to keep: to its end, and as    *)
(* long as it removes a workspace.                                          *)
StillSettled ==
  /\ \A s \in op.drop \cap Sessions : \A k \in Markers : marks'[s][k] = None
  /\ \A f \in op.drop \cap Files : f \notin disk'
  /\ \A f \in op.todo \cap Files : file'[f].at # "ready"

Quiet ==
  /\ StillSettled
  /\ op.deleting /\ op.at \notin {"risk", "markSpace", "withdraw"} => space'[Me] = "deletePending"

OpOK == op \in Ops /\ OpBase /\ OpStage

(* The fields of an operation that has not begun.                           *)
LEMMA IdleFacts ==
  /\ Idle \in Ops /\ Idle.at = "idle" /\ Idle.req = "none" /\ Idle.inst = None
  /\ Idle.deleting = FALSE /\ Idle.todo = {} /\ Idle.drop = {} /\ Idle.session = None
  /\ Idle.file = None /\ Idle.keys = {} /\ Idle.keep = {}
  BY DEF Idle, Ops, Stages, Requests

(* The operation moves on to another stage.                                 *)
LEMMA GotoFacts ==
  ASSUME op \in Ops, NEW s \in Stages, Goto(s)
  PROVE  /\ op' \in Ops /\ Kept /\ op'.at = s
         /\ op'.deleting = op.deleting /\ op'.drop = op.drop /\ op'.keys = op.keys
  BY DEF Goto, Ops, Kept

(* Nothing is relied on once the lock is free.                              *)
LEMMA FinishKeeps ==
  ASSUME op' = Idle
  PROVE  OpOK'
  BY IdleFacts DEF OpOK, OpBase, OpStage, Settled, At, SessionStages

(* A cleanup goes on with what is left to sweep.                            *)
LEMMA SweepOn ==
  ASSUME OpOK, ~At("idle"), Recovering, op' \in Ops, Kept, op'.drop = op.drop,
         op'.at = "sweep", ~op'.deleting, StillSettled
  PROVE  OpOK'
  BY DEF OpOK, OpBase, OpStage, Settled, Untouched, At, Me, This, SessionStages, Kept, StillSettled,
         Recovering

(* The end of a removal.                                                    *)
LEMMA EndDeleteKeeps ==
  ASSUME OpOK, ~At("idle"), EndDelete, StillSettled
  PROVE  OpOK'
  <1>1. CASE Recovering
    <2>1. op' = [op EXCEPT !.at = "sweep", !.deleting = FALSE]
      BY <1>1 DEF EndDelete
    <2>2. op' \in Ops /\ Kept /\ op'.drop = op.drop /\ op'.at = "sweep" /\ ~op'.deleting
      BY <2>1 DEF OpOK, Ops, Stages, Kept
    <2> QED BY <1>1, <2>2, SweepOn
  <1>2. CASE ~Recovering
    BY <1>2, FinishKeeps DEF EndDelete, Finish
  <1> QED BY <1>1, <1>2

(* The end of the release or the removal of a window.                       *)
LEMMA EndWindowKeeps ==
  ASSUME OpOK, ~At("idle"), NEW ok \in BOOLEAN, EndWindow(ok), Quiet,
         op.deleting => op.at \notin {"risk", "markSpace", "withdraw"}
  PROVE  OpOK'
  <1>1. CASE op.deleting /\ ok
    <2>1. op' \in Ops /\ Kept /\ op'.at = "windows" /\ op'.deleting = op.deleting
          /\ op'.drop = op.drop
      BY <1>1, GotoFacts DEF OpOK, EndWindow, Stages
    <2> QED BY <1>1, <2>1 DEF OpOK, OpBase, OpStage, Settled, Untouched, At, Me, This, SessionStages, Kept, Quiet, StillSettled
  <1>2. CASE op.deleting /\ ~ok
    BY <1>2, EndDeleteKeeps DEF EndWindow, Quiet
  <1>3. CASE ~op.deleting /\ Recovering
    <2>1. op' \in Ops /\ Kept /\ op'.at = "sweep" /\ op'.deleting = op.deleting
          /\ op'.drop = op.drop
      BY <1>3, GotoFacts DEF OpOK, EndWindow, Stages
    <2> QED BY <1>3, <2>1, SweepOn DEF Quiet
  <1>4. CASE ~op.deleting /\ ~Recovering
    BY <1>4, FinishKeeps DEF EndWindow, Finish
  <1> QED BY <1>1, <1>2, <1>3, <1>4

(* The markers could not be cleared.                                        *)
LEMMA NotClearedKeeps ==
  ASSUME OpOK, op.at \in {"inspect", "clear"}, NotCleared, Quiet
  PROVE  OpOK'
  <1>1. CASE op.req = "adopt"
    BY <1>1, FinishKeeps DEF NotCleared, Finish
  <1>2. CASE op.req # "adopt" /\ window[Me][This] = "createPending"
    <2>1. op' = [op EXCEPT !.at = "reconcile", !.keep = @ \cup {This}] /\ This \in Sessions
      BY <1>2 DEF NotCleared, OpOK, OpBase, SessionStages, This
    <2>2. op' \in Ops /\ Kept /\ op'.at = "reconcile" /\ op'.deleting = op.deleting
          /\ op'.drop = op.drop
      BY <2>1 DEF OpOK, Ops, Stages, Kept
    <2> QED BY <2>2 DEF OpOK, OpBase, OpStage, Settled, Untouched, At, Me, This, SessionStages, Kept, Quiet, StillSettled
  <1>3. CASE op.req # "adopt" /\ window[Me][This] # "createPending"
    BY <1>3, EndWindowKeeps DEF NotCleared, At
  <1> QED BY <1>1, <1>2, <1>3

(* The error path of a call, whatever became of the call's effect.          *)
LEMMA FailKeeps ==
  ASSUME OpOK, ~At("idle"), Fail, Quiet
  PROVE  OpOK'
  <1>1. CASE op.at \in {"mark", "verify"} \/ (At("commit") /\ op.req = "adopt")
    <2>1. op' \in Ops /\ Kept /\ op'.at = "inspect" /\ op'.deleting = op.deleting
          /\ op'.drop = op.drop
      BY <1>1, GotoFacts DEF OpOK, Fail, Stages, At
    <2> QED BY <1>1, <2>1 DEF OpOK, OpBase, OpStage, Settled, Untouched, At, Me, This, SessionStages, Kept, Quiet, StillSettled
  <1>2. CASE At("create") \/ (At("commit") /\ op.req # "adopt")
    <2>1. op' \in Ops /\ Kept /\ op'.at = "undoFile" /\ op'.deleting = op.deleting
          /\ op'.drop = op.drop
      BY <1>2, GotoFacts DEF OpOK, Fail, Stages, At
    <2> QED BY <1>2, <2>1 DEF OpOK, OpBase, OpStage, Settled, Untouched, At, Me, This, SessionStages, Kept, Quiet, StillSettled
  <1>3. CASE op.at \in {"inspect", "clear"}
    BY <1>3, NotClearedKeeps DEF Fail, At
  <1>4. CASE op.at \in {"release", "intend", "recheck", "dropWindow", "kill"}
    BY <1>4, EndWindowKeeps DEF Fail, At
  <1>5. CASE op.at \in {"risk", "markSpace", "confirm", "dropSpace", "withdraw"}
    BY <1>5, EndDeleteKeeps DEF Fail, At, Quiet
  <1>6. CASE At("files")
    BY <1>6, EndDeleteKeeps, EndWindowKeeps DEF Fail, At, Quiet
  <1>7. CASE At("undoFile")
    <2>1. CASE Recovering
      <3>1. op' \in Ops /\ Kept /\ op'.at = "sweep" /\ op'.deleting = op.deleting
            /\ op'.drop = op.drop
        BY <1>7, <2>1, GotoFacts DEF OpOK, Fail, Stages, At
      <3> QED BY <1>7, <2>1, <3>1, SweepOn DEF OpOK, OpBase, At, Quiet
    <2>2. CASE ~Recovering
      BY <1>7, <2>2, FinishKeeps DEF Fail, At, Finish
    <2> QED BY <2>1, <2>2
  <1>8. CASE op.at \in {"record", "undo", "windows", "dropFile", "reconcile", "sweep"}
    BY <1>8, FinishKeeps DEF Fail, At, Finish
  <1>9. op.at \in Stages
    BY DEF OpOK, Ops
  <1> QED BY <1>1, <1>2, <1>3, <1>4, <1>5, <1>6, <1>7, <1>8, <1>9 DEF Stages, At

(* Nothing else than the operation moves: the environment is quiet.         *)
LEMMA StillQuiet ==
  ASSUME OpOK, ~At("idle"), UNCHANGED <<registry, disk, tmux>>
  PROVE  Quiet
  BY DEF OpOK, OpBase, Settled, Untouched, Me, Quiet, StillSettled, registry, tmux

-----------------------------------------------------------------------------
(* The steps that only look.                                                *)

(* The rest of the invariant is about the registry, the files and tmux.     *)
LEMMA OnlyOp ==
  ASSUME IInv, UNCHANGED <<registry, disk, tmux>>, faults' \in 0..MaxFaults, OpOK'
  PROVE  IInv'
  BY DEF IInv, OpOK, TypeOK, GoneIsUnmarked, OwnMarkersAreRecorded, FilesAreRecorded, Exists,
         Untouched, registry, tmux

(* An operation that only looks at its windows and attachments begins.      *)
LEMMA BeginKeeps ==
  ASSUME IInv, At("idle"), UNCHANGED <<registry, disk, tmux>>, faults' \in 0..MaxFaults,
         NEW req \in {"adopt", "release", "delete", "close", "cleanup"}, NEW i \in Instances,
         op' \in Ops, op'.req = req, op'.inst = i, op'.drop = {},
         \/ req = "adopt" /\ op'.at = "record" /\ op'.session \in Sessions
            /\ Untouched(op'.session) /\ ~op'.deleting /\ op'.todo = {}
         \/ req = "release" /\ op'.at = "release" /\ op'.session \in Sessions /\ ~op'.deleting
            /\ op'.todo = {}
         \/ req = "delete" /\ op'.at = "risk" /\ op'.deleting /\ op'.todo = {}
         \/ req = "close" /\ op'.at = "kill" /\ ~op'.deleting /\ op'.todo = {}
         \/ req = "cleanup" /\ op'.at = "reconcile" /\ ~op'.deleting
            /\ \A f \in op'.todo \cap Files : file[f].at # "ready"
  PROVE  IInv'
  <1>1. OpBase'
    BY DEF OpBase, Settled, At, Me, This, SessionStages, registry
  <1>2. OpStage'
    BY DEF OpStage, At, This, Untouched, tmux
  <1> QED BY <1>1, <1>2, OnlyOp DEF OpOK

(* An operation begins with nothing reconciled and nothing to sweep.        *)
LEMMA RequestKeeps ==
  ASSUME IInv, NEW i \in Instances,
         \/ \E s \in Sessions : BeginAdopt(i, s) \/ BeginRelease(i, s)
         \/ \E force \in BOOLEAN : BeginDelete(i, force)
         \/ BeginClose(i) \/ BeginCleanup(i)
  PROVE  IInv'
  <1>1. ASSUME NEW s \in Sessions, BeginAdopt(i, s) PROVE IInv'
    <2> DEFINE o == Start("adopt", i)
    <2>1. op' = [o EXCEPT !.at = "record", !.session = s, !.made = space[i] = "none"]
      BY <1>1 DEF BeginAdopt
    <2>2. o \in Ops /\ o.req = "adopt" /\ o.inst = i /\ o.deleting = FALSE /\ o.todo = {} /\ o.drop = {}
      BY DEF Start, Idle, Ops, Stages, Requests
    <2> HIDE DEF o
    <2>3. op' \in Ops
      BY <2>1, <2>2 DEF Ops, Stages
    <2>4. /\ op'.at = "record" /\ op'.req = "adopt" /\ op'.inst = i /\ op'.session = s
          /\ op'.deleting = FALSE /\ op'.todo = {} /\ op'.drop = {}
      BY <2>1, <2>2 DEF Ops
    <2>5. Untouched(op'.session) /\ At("idle") /\ faults' \in 0..MaxFaults
      BY <1>1, <2>4 DEF BeginAdopt, Eligible, IInv, TypeOK
    <2> QED BY <1>1, <2>3, <2>4, <2>5, BeginKeeps DEF BeginAdopt
  <1>2. ASSUME NEW s \in Sessions, BeginRelease(i, s) PROVE IInv'
    <2> DEFINE o == Start("release", i)
    <2>1. op' = [o EXCEPT !.at = "release", !.session = s]
      BY <1>2 DEF BeginRelease
    <2>2. o \in Ops /\ o.req = "release" /\ o.inst = i /\ o.deleting = FALSE /\ o.todo = {} /\ o.drop = {}
      BY DEF Start, Idle, Ops, Stages, Requests
    <2> HIDE DEF o
    <2>3. op' \in Ops
      BY <2>1, <2>2 DEF Ops, Stages
    <2>4. /\ op'.at = "release" /\ op'.req = "release" /\ op'.inst = i /\ op'.session = s
          /\ op'.deleting = FALSE /\ op'.todo = {} /\ op'.drop = {}
      BY <2>1, <2>2 DEF Ops
    <2> QED BY <1>2, <2>3, <2>4, BeginKeeps DEF BeginRelease, IInv, TypeOK
  <1>3. ASSUME NEW force \in BOOLEAN, BeginDelete(i, force) PROVE IInv'
    <2> DEFINE o == Start("delete", i)
    <2>1. op' = [o EXCEPT !.at = "risk", !.force = force, !.deleting = TRUE]
      BY <1>3 DEF BeginDelete
    <2>2. o \in Ops /\ o.req = "delete" /\ o.inst = i /\ o.todo = {} /\ o.drop = {}
      BY DEF Start, Idle, Ops, Stages, Requests
    <2> HIDE DEF o
    <2>3. op' \in Ops
      BY <2>1, <2>2 DEF Ops, Stages
    <2>4. /\ op'.at = "risk" /\ op'.req = "delete" /\ op'.inst = i
          /\ op'.deleting = TRUE /\ op'.todo = {} /\ op'.drop = {}
      BY <2>1, <2>2 DEF Ops
    <2> QED BY <1>3, <2>3, <2>4, BeginKeeps DEF BeginDelete, IInv, TypeOK
  <1>4. CASE BeginClose(i)
    <2> DEFINE o == Start("close", i)
    <2>1. op' = [o EXCEPT !.at = "kill"]
      BY <1>4 DEF BeginClose
    <2>2. o \in Ops /\ o.req = "close" /\ o.inst = i /\ o.deleting = FALSE /\ o.todo = {} /\ o.drop = {}
      BY DEF Start, Idle, Ops, Stages, Requests
    <2> HIDE DEF o
    <2>3. op' \in Ops
      BY <2>1, <2>2 DEF Ops, Stages
    <2>4. /\ op'.at = "kill" /\ op'.req = "close" /\ op'.inst = i
          /\ op'.deleting = FALSE /\ op'.todo = {} /\ op'.drop = {}
      BY <2>1, <2>2 DEF Ops
    <2> QED BY <1>4, <2>3, <2>4, BeginKeeps DEF BeginClose, IInv, TypeOK
  <1>5. CASE BeginCleanup(i)
    <2> DEFINE o == Start("cleanup", i)
    <2>1. PICK there \in BOOLEAN :
            /\ IF there THEN UNCHANGED faults ELSE Fault
            /\ op' = [o EXCEPT !.at = "reconcile", !.made = there,
                 !.todo = PendingFiles(i) \cup
                   (IF space[i] = "ready" \/ (space[i] = "createPending" /\ there) THEN Pending(i) ELSE {})]
      BY <1>5 DEF BeginCleanup
    <2> DEFINE todo == PendingFiles(i) \cup
                 (IF space[i] = "ready" \/ (space[i] = "createPending" /\ there) THEN Pending(i) ELSE {})
    <2>2. o \in Ops /\ o.req = "cleanup" /\ o.inst = i /\ o.deleting = FALSE /\ o.drop = {}
      BY DEF Start, Idle, Ops, Stages, Requests
    <2>3. todo \subseteq Sessions \cup Files /\ \A f \in todo \cap Files : file[f].at = "createPending"
      BY DEF PendingFiles, Pending
    <2>4. op' = [o EXCEPT !.at = "reconcile", !.made = there, !.todo = todo]
      BY <2>1
    <2> HIDE DEF o, todo
    <2>5. op' \in Ops
      BY <2>2, <2>3, <2>4 DEF Ops, Stages
    <2>6. /\ op'.at = "reconcile" /\ op'.req = "cleanup" /\ op'.inst = i
          /\ op'.deleting = FALSE /\ op'.todo = todo /\ op'.drop = {}
      BY <2>2, <2>4 DEF Ops
    <2>7. faults' \in 0..MaxFaults
      BY <2>1 DEF Fault, IInv, TypeOK
    <2>8. \A f \in op'.todo \cap Files : file[f].at # "ready"
      BY <2>3, <2>6
    <2> QED BY <1>5, <2>5, <2>6, <2>7, <2>8, BeginKeeps DEF BeginCleanup
  <1> QED BY <1>1, <1>2, <1>3, <1>4, <1>5

(* A call fails without effect, or the host is killed.                      *)
LEMMA FailedCallKeeps ==
  ASSUME IInv, CallFails \/ Killed
  PROVE  IInv'
  <1>1. OpOK /\ ~At("idle") /\ faults' \in 0..MaxFaults /\ UNCHANGED <<registry, disk, tmux>>
    BY DEF IInv, OpOK, TypeOK, CallFails, Killed, Fault, At
  <1>2. Quiet
    BY <1>1, StillQuiet
  <1>3. OpOK'
    BY <1>1, <1>2, FailKeeps, FinishKeeps DEF CallFails, Killed, Finish
  <1> QED BY <1>1, <1>3, OnlyOp

-----------------------------------------------------------------------------
(* Adopting a session.                                                      *)

(* One call of tmux changes one marker of the session.                      *)
LEMMA MarkFacts ==
  ASSUME TypeOK, This \in Sessions, op.keys # {}, NEW v \in Instances \cup {None},
         marks' = [marks EXCEPT ![This][NextKey] = v]
  PROVE  /\ marks' \in [Sessions -> [Markers -> Instances \cup {None}]]
         /\ NextKey \in op.keys /\ NextKey \in Markers /\ marks'[This][NextKey] = v
         /\ \A s \in Sessions, k \in Markers :
              s # This \/ k # NextKey => marks'[s][k] = marks[s][k]
  <1>1. op.keys \subseteq 1..3
    BY DEF TypeOK, Ops, Markers
  <1>2. \E k \in op.keys : \A j \in op.keys : k <= j
    <2>1. CASE 1 \in op.keys
      BY <1>1, <2>1
    <2>2. CASE 1 \notin op.keys /\ 2 \in op.keys
      <3>1. \A j \in op.keys : 2 <= j
        BY <1>1, <2>2
      <3> QED BY <2>2, <3>1
    <2>3. CASE 1 \notin op.keys /\ 2 \notin op.keys
      <3>1. \A j \in op.keys : j = 3
        BY <1>1, <2>3
      <3> QED BY <3>1
    <2> QED BY <2>1, <2>2, <2>3
  <1>3. NextKey \in op.keys
    BY <1>2 DEF NextKey
  <1>4. NextKey \in Markers
    BY <1>1, <1>3 DEF Markers
  <1> DEFINE n == NextKey
             m == [marks[This] EXCEPT ![n] = v]
  <1>5. n \in Markers /\ marks' = [marks EXCEPT ![This] = m]
    BY <1>4
  <1> HIDE DEF n
  <1>6. m \in [Markers -> Instances \cup {None}] /\ m[n] = v
        /\ \A k \in Markers \ {n} : m[k] = marks[This][k]
    BY <1>5 DEF TypeOK
  <1> HIDE DEF m
  <1>7. /\ marks' \in [Sessions -> [Markers -> Instances \cup {None}]] /\ marks'[This] = m
        /\ \A s \in Sessions \ {This} : marks'[s] = marks[s]
    <2>1. marks \in [Sessions -> [Markers -> Instances \cup {None}]]
      BY DEF TypeOK
    <2>2. m \in [Markers -> Instances \cup {None}]
      BY <1>6
    <2> QED BY <1>5, <2>1, <2>2
  <1> QED BY <1>3, <1>4, <1>6, <1>7 DEF n

(* A write of the registry changes one window.                              *)
LEMMA WindowFacts ==
  ASSUME TypeOK, Me \in Instances, This \in Sessions, NEW v \in Records,
         window' = [window EXCEPT ![Me][This] = v]
  PROVE  /\ window' \in [Instances -> [Sessions -> Records]]
         /\ window'[Me][This] = v
         /\ \A i \in Instances, s \in Sessions :
              i # Me \/ s # This => window'[i][s] = window[i][s]
  <1> DEFINE m == [window[Me] EXCEPT ![This] = v]
  <1>1. window' = [window EXCEPT ![Me] = m]
    OBVIOUS
  <1>2. m \in [Sessions -> Records] /\ m[This] = v
        /\ \A s \in Sessions \ {This} : m[s] = window[Me][s]
    BY DEF TypeOK
  <1> HIDE DEF m
  <1>3. /\ window' \in [Instances -> [Sessions -> Records]] /\ window'[Me] = m
        /\ \A i \in Instances \ {Me} : window'[i] = window[i]
    BY <1>1, <1>2 DEF TypeOK
  <1> QED BY <1>2, <1>3

(* No record of a marked session goes.                                      *)
LEMMA OwnersStay ==
  ASSUME TypeOK, OwnMarkersAreRecorded, UNCHANGED marks,
         \A i \in Instances, s \in Sessions :
           \/ window[i][s] # "none" => window'[i][s] # "none"
           \/ \A k \in Markers : marks[s][k] # i
  PROVE  OwnMarkersAreRecorded'
  <1>1. ASSUME NEW s \in Sessions, NEW k \in Markers, marks[s][k] # None
        PROVE  window'[marks[s][k]][s] # "none"
    <2>1. marks[s][k] \in Instances
      BY <1>1 DEF TypeOK
    <2> QED BY <1>1, <2>1 DEF OwnMarkersAreRecorded
  <1> QED BY <1>1 DEF OwnMarkersAreRecorded

(* The pending record is written before the first marker.                   *)
LEMMA RecordAdoptionKeeps ==
  ASSUME IInv, RecordAdoption
  PROVE  IInv'
  <1> USE DEF IInv
  <1>1. /\ At("record") /\ Me \in Instances /\ This \in Sessions /\ Untouched(This) /\ op.req = "adopt"
        /\ ~op.deleting /\ op.drop = {} /\ op.todo = {} /\ op \in Ops
    BY DEF RecordAdoption, OpBase, OpStage, At, SessionStages, TypeOK
  <1>2. /\ window' \in [Instances -> [Sessions -> Records]] /\ window'[Me][This] = "createPending"
        /\ \A i \in Instances, s \in Sessions : i # Me \/ s # This => window'[i][s] = window[i][s]
    BY <1>1, WindowFacts DEF RecordAdoption, Records
  <1>3. faults' \in 0..MaxFaults /\ UNCHANGED <<terminal, file, disk, tmux>>
    BY DEF RecordAdoption, Then, Fault, TypeOK
  <1>4. OpOK'
    <2>1. CASE Fail
      BY <1>1, <1>3, <2>1, FailKeeps DEF OpOK, Quiet, StillSettled, At
    <2>2. CASE op' = [op EXCEPT !.at = "mark", !.keys = Markers]
      <3>1. op' \in Ops /\ Kept /\ op'.at = "mark" /\ op'.deleting = op.deleting
            /\ op'.drop = op.drop /\ op'.keys = Markers
        BY <1>1, <2>2 DEF Ops, Stages, Kept
      <3>2. OpBase'
        BY <1>1, <3>1 DEF OpBase, Settled, At, Me, This, SessionStages, Kept
      <3>3. OpStage'
        BY <1>1, <1>2, <1>3, <3>1 DEF OpStage, At, Me, This, Kept, Untouched, tmux, Markers
      <3> QED BY <3>1, <3>2, <3>3 DEF OpOK
    <2> QED BY <2>1, <2>2 DEF RecordAdoption, Then
  <1>5. TypeOK'
    <2>1. space' \in [Instances -> Records]
      BY <1>1 DEF RecordAdoption, TypeOK, Records
    <2> QED BY <1>2, <1>3, <1>4, <2>1 DEF TypeOK, OpOK, tmux
  <1>6. OwnMarkersAreRecorded'
    BY <1>1, <1>2, <1>3, OwnersStay DEF tmux
  <1>7. GoneIsUnmarked' /\ FilesAreRecorded'
    BY <1>3 DEF GoneIsUnmarked, Exists, Untouched, FilesAreRecorded, tmux
  <1> QED BY <1>4, <1>5, <1>6, <1>7 DEF OpOK

(* A marker is set on a session that carries nobody else's.                 *)
LEMMA SetMarkerKeeps ==
  ASSUME IInv, SetMarker
  PROVE  IInv'
  <1> USE DEF IInv
  <1>1. /\ At("mark") /\ Me \in Instances /\ This \in Sessions /\ op.req = "adopt"
        /\ ~op.deleting /\ op.drop = {} /\ op.todo = {} /\ op \in Ops /\ op.keys # {}
        /\ window[Me][This] # "none" /\ Exists(This)
        /\ \A k \in Markers : marks[This][k] \in {Me, None}
    BY DEF SetMarker, OpBase, OpStage, At, SessionStages, TypeOK
  <1>2. /\ marks' \in [Sessions -> [Markers -> Instances \cup {None}]]
        /\ NextKey \in Markers /\ marks'[This][NextKey] = Me
        /\ \A s \in Sessions, k \in Markers : s # This \/ k # NextKey => marks'[s][k] = marks[s][k]
    BY <1>1, MarkFacts DEF SetMarker
  <1>3. faults' \in 0..MaxFaults /\ UNCHANGED <<registry, disk, session>>
    BY DEF SetMarker, Then, Fault, TypeOK
  <1>4. OpOK'
    <2>1. CASE Fail
      BY <1>1, <1>3, <2>1, FailKeeps DEF OpOK, Quiet, StillSettled, At
    <2>2. CASE op' = [op EXCEPT !.keys = @ \ {NextKey}, !.at = IF op.keys = {NextKey} THEN "verify" ELSE @]
      <3>1. op' \in Ops /\ Kept /\ op'.deleting = op.deleting /\ op'.drop = op.drop
            /\ \/ op'.at = "verify"
               \/ op'.at = "mark" /\ op'.keys # {}
        <4>1. op.keys \ {NextKey} \in SUBSET Markers
          BY <1>1 DEF Ops
        <4>2. CASE op.keys = {NextKey}
          BY <1>1, <2>2, <4>1, <4>2 DEF Ops, Stages, Kept
        <4>3. CASE op.keys # {NextKey}
          <5>1. op.keys \ {NextKey} # {}
            BY <1>1, <4>3
          <5> QED BY <1>1, <2>2, <4>1, <4>3, <5>1 DEF Ops, Stages, Kept, At
        <4> QED BY <4>2, <4>3
      <3>2. OpBase'
        BY <1>1, <3>1 DEF OpBase, Settled, At, Me, This, SessionStages, Kept
      <3>3. \A k \in Markers : marks'[This][k] \in {Me, None}
        BY <1>1, <1>2
      <3>4. OpStage'
        BY <1>1, <1>2, <1>3, <3>1, <3>3 DEF OpStage, At, Me, This, Kept, registry
      <3> QED BY <3>1, <3>2, <3>4 DEF OpOK
    <2> QED BY <2>1, <2>2 DEF SetMarker, Then
  <1>5. TypeOK'
    BY <1>2, <1>3, <1>4 DEF TypeOK, OpOK, registry
  <1>6. OwnMarkersAreRecorded'
    <2>1. \A s \in Sessions, k \in Markers : marks'[s][k] # None => window[marks'[s][k]][s] # "none"
      BY <1>1, <1>2 DEF OwnMarkersAreRecorded
    <2> QED BY <1>3, <2>1 DEF OwnMarkersAreRecorded, registry
  <1>7. GoneIsUnmarked'
    BY <1>1, <1>2, <1>3 DEF GoneIsUnmarked, Exists, Untouched
  <1>8. FilesAreRecorded'
    BY <1>3 DEF FilesAreRecorded, registry
  <1> QED BY <1>4, <1>5, <1>6, <1>7, <1>8 DEF OpOK

(* The adoption is verified, committed or given up.                         *)
LEMMA VerifyKeeps ==
  ASSUME IInv, Verify \/ AdoptedIsGone
  PROVE  IInv'
  <1>1. /\ op.at \in {"verify", "mark"} /\ op.req = "adopt" /\ UNCHANGED <<registry, disk, tmux>>
        /\ OpOK /\ faults' \in 0..MaxFaults
    BY DEF IInv, OpOK, OpStage, TypeOK, Verify, AdoptedIsGone, At
  <1>2. Quiet
    BY <1>1, StillQuiet DEF At
  <1>3. op' \in Ops /\ Kept /\ op'.at \in {"commit", "inspect"} /\ op'.deleting = op.deleting
        /\ op'.drop = op.drop
    <2>1. Goto("commit") => op' \in Ops /\ Kept /\ op'.at = "commit" /\ op'.deleting = op.deleting
                            /\ op'.drop = op.drop
      BY <1>1, GotoFacts DEF OpOK, Stages
    <2>2. Goto("inspect") => op' \in Ops /\ Kept /\ op'.at = "inspect" /\ op'.deleting = op.deleting
                            /\ op'.drop = op.drop
      BY <1>1, GotoFacts DEF OpOK, Stages
    <2> QED BY <2>1, <2>2 DEF Verify, AdoptedIsGone
  <1>4. OpOK'
    BY <1>1, <1>2, <1>3 DEF OpOK, OpBase, OpStage, Settled, Untouched, At, Me, This, SessionStages,
         Kept, Quiet, StillSettled
  <1> QED BY <1>1, <1>4, OnlyOp

(* A verified adoption becomes a lasting record.                            *)
LEMMA CommitAdoptionKeeps ==
  ASSUME IInv, CommitAdoption
  PROVE  IInv'
  <1> USE DEF IInv
  <1>1. /\ At("commit") /\ Me \in Instances /\ This \in Sessions /\ op.req = "adopt"
        /\ ~op.deleting /\ op.drop = {} /\ op.todo = {} /\ op \in Ops
    BY DEF CommitAdoption, OpBase, OpStage, At, SessionStages, TypeOK
  <1>2. /\ window' \in [Instances -> [Sessions -> Records]] /\ window'[Me][This] = "ready"
        /\ \A i \in Instances, s \in Sessions : i # Me \/ s # This => window'[i][s] = window[i][s]
    BY <1>1, WindowFacts DEF CommitAdoption, Records
  <1>3. faults' \in 0..MaxFaults /\ UNCHANGED <<terminal, file, disk, tmux>>
    BY DEF CommitAdoption, Then, Fault, TypeOK
  <1>4. OpOK'
    BY <1>1, <1>3, FailKeeps, FinishKeeps DEF CommitAdoption, Then, Finish, OpOK, Quiet, StillSettled, At
  <1>5. TypeOK'
    <2>1. space' \in [Instances -> Records]
      BY <1>1 DEF CommitAdoption, TypeOK, Records
    <2> QED BY <1>2, <1>3, <1>4, <2>1 DEF TypeOK, OpOK, tmux
  <1>6. OwnMarkersAreRecorded'
    BY <1>1, <1>2, <1>3, OwnersStay DEF tmux
  <1>7. GoneIsUnmarked' /\ FilesAreRecorded'
    BY <1>3 DEF GoneIsUnmarked, Exists, Untouched, FilesAreRecorded, tmux
  <1> QED BY <1>4, <1>5, <1>6, <1>7 DEF OpOK

(* The markers are gone: what depended on them may go too.                  *)
LEMMA ClearedKeeps ==
  ASSUME OpOK, op.at \in {"inspect", "clear"}, Cleared, Quiet,
         \A k \in Markers : marks'[This][k] = None
  PROVE  OpOK'
  <1>1. CASE op.req = "adopt"
    <2>1. op' \in Ops /\ Kept /\ op'.at = "undo" /\ op'.deleting = op.deleting
          /\ op'.drop = op.drop
      BY <1>1, GotoFacts DEF OpOK, Cleared, Stages
    <2> QED BY <1>1, <2>1 DEF OpOK, OpBase, OpStage, Settled, Untouched, At, Me, This,
              SessionStages, Kept, Quiet, StillSettled
  <1>2. CASE op.req # "adopt" /\ window[Me][This] = "createPending"
    <2>1. op' = [op EXCEPT !.at = "reconcile", !.drop = @ \cup {This}] /\ This \in Sessions
      BY <1>2 DEF Cleared, OpOK, OpBase, SessionStages
    <2>2. op' \in Ops /\ Kept /\ op'.at = "reconcile" /\ op'.deleting = op.deleting
          /\ op'.drop = op.drop \cup {This}
      BY <2>1 DEF OpOK, Ops, Stages, Kept
    <2>3. op.req # "upload"
      BY DEF OpOK, OpStage
    <2> QED BY <1>2, <2>1, <2>2, <2>3 DEF OpOK, OpBase, OpStage, Settled, Untouched, At, Me, This,
              SessionStages, Kept, Quiet, StillSettled
  <1>3. CASE op.req # "adopt" /\ window[Me][This] # "createPending"
    <2>1. op' \in Ops /\ Kept /\ op'.at = "dropWindow" /\ op'.deleting = op.deleting
          /\ op'.drop = op.drop
      BY <1>3, GotoFacts DEF OpOK, Cleared, Stages
    <2> QED BY <1>3, <2>1 DEF OpOK, OpBase, OpStage, Settled, Untouched, At, Me, This,
              SessionStages, Kept, Quiet, StillSettled
  <1> QED BY <1>1, <1>2, <1>3

(* The markers found on the session decide how the operation goes on.       *)
LEMMA InspectMarkersKeeps ==
  ASSUME IInv, InspectMarkers
  PROVE  IInv'
  <1> DEFINE found == {k \in Markers : marks[This][k] # None}
  <1>1. /\ At("inspect") /\ UNCHANGED <<registry, disk, tmux>> /\ OpOK /\ faults' \in 0..MaxFaults
        /\ This \in Sessions
    BY DEF IInv, OpOK, OpBase, SessionStages, TypeOK, InspectMarkers, At
  <1>2. Quiet
    BY <1>1, StillQuiet DEF At
  <1>3. CASE ~Exists(This) \/ found = {}
    <2>1. Cleared
      BY <1>3 DEF InspectMarkers
    <2>2. Untouched(This)
      BY <1>1, <1>3 DEF IInv, GoneIsUnmarked, Untouched
    <2>3. \A k \in Markers : marks'[This][k] = None
      BY <1>1, <2>2 DEF Untouched, tmux
    <2>4. OpOK'
      BY <1>1, <1>2, <2>1, <2>3, ClearedKeeps DEF At
    <2> QED BY <1>1, <2>4, OnlyOp
  <1>4. CASE Exists(This) /\ \E k \in found : marks[This][k] # Me
    <2>1. NotCleared
      BY <1>4 DEF InspectMarkers
    <2>2. OpOK'
      BY <1>1, <1>2, <2>1, NotClearedKeeps DEF At
    <2> QED BY <1>1, <2>2, OnlyOp
  <1>5. CASE Exists(This) /\ found # {} /\ \A k \in found : marks[This][k] = Me
    <2>1. op' = [op EXCEPT !.at = "clear", !.keys = found]
      BY <1>5 DEF InspectMarkers
    <2>2. found \in SUBSET Markers /\ \A k \in Markers \ found : marks[This][k] = None
      OBVIOUS
    <2> HIDE DEF found
    <2>3. op' \in Ops /\ Kept /\ op'.at = "clear" /\ op'.deleting = op.deleting
          /\ op'.drop = op.drop /\ op'.keys = found
      BY <1>1, <2>1, <2>2 DEF OpOK, Ops, Stages, Kept
    <2>4. OpBase'
      BY <1>1, <1>2, <2>3 DEF OpOK, OpBase, OpStage, Settled, Untouched, At, Me, This, SessionStages,
           Kept, Quiet, StillSettled
    <2>5. OpStage'
      BY <1>1, <1>5, <2>2, <2>3 DEF OpOK, OpStage, At, Me, This, Kept, tmux
    <2> QED BY <1>1, <2>3, <2>4, <2>5, OnlyOp DEF OpOK
  <1> QED BY <1>3, <1>4, <1>5

(* One of the markers that were ours goes.                                  *)
LEMMA UnsetMarkerKeeps ==
  ASSUME IInv, UnsetMarker
  PROVE  IInv'
  <1> USE DEF IInv
  <1>1. /\ At("clear") /\ Me \in Instances /\ This \in Sessions /\ op \in Ops /\ op.keys # {} /\ OpOK
        /\ op.req # "upload"
    BY DEF UnsetMarker, OpOK, OpBase, OpStage, At, SessionStages, TypeOK
  <1>2. CASE ~Exists(This)
    <2>1. NotCleared /\ UNCHANGED <<registry, disk, tmux>> /\ faults' \in 0..MaxFaults
      BY <1>2 DEF UnsetMarker, TypeOK, tmux
    <2>2. OpOK'
      BY <1>1, <2>1, StillQuiet, NotClearedKeeps DEF At
    <2> QED BY <2>1, <2>2, OnlyOp
  <1>3. CASE Exists(This)
    <2>1. /\ marks' \in [Sessions -> [Markers -> Instances \cup {None}]]
          /\ NextKey \in op.keys /\ NextKey \in Markers /\ marks'[This][NextKey] = None
          /\ \A s \in Sessions, k \in Markers : s # This \/ k # NextKey => marks'[s][k] = marks[s][k]
      BY <1>1, <1>3, MarkFacts DEF UnsetMarker
    <2>2. \A s \in Sessions, k \in Markers : marks'[s][k] \in {marks[s][k], None}
      BY <2>1
    <2>3. faults' \in 0..MaxFaults /\ UNCHANGED <<registry, disk, session>>
      BY <1>3 DEF UnsetMarker, Then, Fault, TypeOK
    <2>4. Quiet
      BY <1>1, <2>2, <2>3 DEF OpOK, OpBase, Settled, Untouched, Quiet, StillSettled, Me, At, registry
    <2>5. OpOK'
      <3>1. CASE Fail
        BY <1>1, <2>4, <3>1, FailKeeps DEF At
      <3>2. CASE op.keys = {NextKey} /\ Cleared
        <4>1. \A k \in Markers : marks'[This][k] = None
          BY <1>1, <2>1, <3>2 DEF OpOK, OpStage
        <4> QED BY <1>1, <2>4, <3>2, <4>1, ClearedKeeps DEF At
      <3>3. CASE op.keys # {NextKey} /\ op' = [op EXCEPT !.keys = @ \ {NextKey}]
        <4>1. op.keys \ {NextKey} \in SUBSET Markers /\ op.keys \ {NextKey} # {}
          BY <1>1, <3>3 DEF Ops
        <4>2. op' \in Ops /\ Kept /\ op'.at = "clear" /\ op'.deleting = op.deleting
              /\ op'.drop = op.drop /\ op'.keys = op.keys \ {NextKey}
          BY <1>1, <3>3, <4>1 DEF Ops, Kept, At
        <4>3. OpBase'
          BY <1>1, <2>4, <4>2 DEF OpOK, OpBase, Settled, Untouched, At, Me, This, SessionStages,
               Kept, Quiet, StillSettled
        <4>4. \A k \in op'.keys : marks'[This][k] \in {Me, None}
          BY <1>1, <2>1, <2>2, <4>1, <4>2 DEF OpOK, OpStage
        <4>5. \A k \in Markers \ op'.keys : marks'[This][k] = None
          BY <1>1, <2>1, <2>2, <4>1, <4>2 DEF OpOK, OpStage
        <4>6. OpStage'
          BY <1>1, <4>1, <4>2, <4>4, <4>5 DEF OpStage, At, Me, This, Kept
        <4> QED BY <4>2, <4>3, <4>6 DEF OpOK
      <3> QED BY <1>3, <3>1, <3>2, <3>3 DEF UnsetMarker, Then
    <2>6. TypeOK'
      BY <2>1, <2>3, <2>5 DEF TypeOK, OpOK, registry
    <2>7. OwnMarkersAreRecorded'
      BY <2>2, <2>3 DEF OwnMarkersAreRecorded, registry
    <2>8. GoneIsUnmarked' /\ FilesAreRecorded'
      BY <2>2, <2>3 DEF GoneIsUnmarked, Exists, Untouched, FilesAreRecorded, registry
    <2> QED BY <2>5, <2>6, <2>7, <2>8 DEF OpOK
  <1> QED BY <1>2, <1>3

(* The records an adoption made go once its markers are gone.               *)
LEMMA UndoAdoptionKeeps ==
  ASSUME IInv, UndoAdoption
  PROVE  IInv'
  <1> USE DEF IInv
  <1>1. /\ At("undo") /\ Me \in Instances /\ This \in Sessions /\ op.req = "adopt" /\ Untouched(This)
        /\ ~op.deleting /\ op.drop = {} /\ op.todo = {} /\ op \in Ops
    BY DEF UndoAdoption, OpBase, OpStage, At, SessionStages, TypeOK
  <1>2. /\ window' \in [Instances -> [Sessions -> Records]] /\ window'[Me][This] = "none"
        /\ \A i \in Instances, s \in Sessions : i # Me \/ s # This => window'[i][s] = window[i][s]
    BY <1>1, WindowFacts DEF UndoAdoption, Records
  <1>3. faults' \in 0..MaxFaults /\ UNCHANGED <<terminal, file, disk, tmux>>
    BY DEF UndoAdoption, Then, Fault, TypeOK
  <1>4. OpOK'
    BY <1>1, <1>3, FailKeeps, FinishKeeps DEF UndoAdoption, Then, Finish, OpOK, Quiet, StillSettled, At
  <1>5. TypeOK'
    <2>1. space' \in [Instances -> Records]
      BY <1>1 DEF UndoAdoption, TypeOK, Records
    <2> QED BY <1>2, <1>3, <1>4, <2>1 DEF TypeOK, OpOK, tmux
  <1>6. OwnMarkersAreRecorded'
    <2>1. \A i \in Instances, s \in Sessions :
            \/ window[i][s] # "none" => window'[i][s] # "none"
            \/ \A k \in Markers : marks[s][k] # i
      BY <1>1, <1>2 DEF Untouched
    <2> QED BY <1>3, <2>1, OwnersStay DEF tmux
  <1>7. GoneIsUnmarked' /\ FilesAreRecorded'
    BY <1>3 DEF GoneIsUnmarked, Exists, Untouched, FilesAreRecorded, tmux
  <1> QED BY <1>4, <1>5, <1>6, <1>7 DEF OpOK

-----------------------------------------------------------------------------
(* Releasing a session.                                                     *)

(* An operation that only looks moves on to another stage of its own.       *)
LEMMA MoveKeeps ==
  ASSUME IInv, ~At("idle"), UNCHANGED <<registry, disk, tmux, faults>>,
         NEW s \in Stages, Goto(s),
         s \notin {"idle", "sweep", "undoFile", "dropFile", "kill", "create"},
         s \in SessionStages => op.at \in SessionStages,
         s \in {"record", "mark", "verify", "undo", "commit", "clear"} => FALSE,
         op.req = "upload" => FALSE,
         s = "dropWindow" => Untouched(This),
         s \in {"risk", "markSpace", "withdraw", "windows", "confirm"} =>
           op.deleting,
         op.at \in {"risk", "markSpace", "withdraw"} => s \in {"risk", "markSpace", "withdraw"},
         s = "files" => op.deleting,
         s = "dropSpace" => At("files") /\ Held(Me, IF op.deleting THEN "space" ELSE "terminal") \cap disk = {}
  PROVE  IInv'
  <1>1. OpOK /\ Quiet /\ faults' \in 0..MaxFaults
    BY StillQuiet DEF IInv, OpOK, TypeOK
  <1>2. op' \in Ops /\ Kept /\ op'.at = s /\ op'.deleting = op.deleting /\ op'.drop = op.drop
    BY <1>1, GotoFacts DEF OpOK
  <1>3. OpBase'
    BY <1>1, <1>2 DEF OpOK, OpBase, OpStage, Settled, Untouched, At, Me, This, SessionStages,
         Kept, Quiet, StillSettled
  <1>4. OpStage'
    <2>1. (s \in {"files", "dropSpace"} /\ ~op.deleting) => terminal'[Me] = "deletePending"
      BY <1>1 DEF OpOK, OpStage, At, registry
    <2>2. s = "dropWindow" => \A k \in Markers : marks'[This][k] = None
      BY DEF Untouched, tmux
    <2>3. s = "dropSpace" =>
            \A f \in Files : Owner[f] = Me /\ file'[f].of = (IF op.deleting THEN "space" ELSE "terminal")
                               => f \notin disk'
      BY DEF Held, registry
    <2> QED BY <1>1, <1>2, <2>1, <2>2, <2>3 DEF OpStage, Untouched, At, Me, This, Kept, Held
  <1> QED BY <1>1, <1>2, <1>3, <1>4, OnlyOp DEF OpOK

(* The session is looked at before the intent is written and after it.      *)
LEMMA CheckReleaseKeeps ==
  ASSUME IInv, CheckRelease
  PROVE  IInv'
  <1>1. /\ op.at \in {"release", "recheck"} /\ UNCHANGED <<registry, disk, tmux, faults>> /\ OpOK
        /\ faults' \in 0..MaxFaults /\ This \in Sessions /\ op.req # "upload"
    BY DEF IInv, OpOK, OpBase, OpStage, SessionStages, TypeOK, CheckRelease, At
  <1>2. CASE EndWindow(FALSE)
    <2>1. OpOK'
      BY <1>1, <1>2, StillQuiet, EndWindowKeeps DEF At
    <2> QED BY <1>1, <2>1, OnlyOp
  <1>3. CASE Goto("intend")
    BY <1>1, <1>3, MoveKeeps DEF At, Stages, SessionStages
  <1>4. CASE Goto("inspect")
    BY <1>1, <1>4, MoveKeeps DEF At, Stages, SessionStages
  <1>5. CASE (~Exists(This) \/ Untouched(This)) /\ Goto("dropWindow")
    <2>1. Untouched(This)
      BY <1>1, <1>5 DEF IInv, GoneIsUnmarked
    <2> QED BY <1>1, <1>5, <2>1, MoveKeeps DEF At, Stages, SessionStages
  <1> QED BY <1>2, <1>3, <1>4, <1>5 DEF CheckRelease

(* A record that would be created and deleted at once is refused.           *)
LEMMA RefusedKeeps ==
  ASSUME IInv, ~At("idle"), Refused
  PROVE  IInv'
  <1>1. OpOK /\ Quiet /\ faults' \in 0..MaxFaults
    BY StillQuiet DEF IInv, OpOK, TypeOK, Refused
  <1>2. OpOK'
    BY <1>1, FailKeeps DEF Refused
  <1> QED BY <1>1, <1>2, OnlyOp DEF Refused

(* The intent to release is written; the markers stay for now.              *)
LEMMA IntendReleaseKeeps ==
  ASSUME IInv, IntendRelease
  PROVE  IInv'
  <1> USE DEF IInv
  <1>1. /\ At("intend") /\ Me \in Instances /\ This \in Sessions /\ op \in Ops /\ OpOK /\ op.req # "upload"
    BY DEF IntendRelease, OpOK, OpBase, OpStage, At, SessionStages, TypeOK
  <1>2. CASE window[Me][This] = "createPending"
    BY <1>1, <1>2, RefusedKeeps DEF IntendRelease, At
  <1>3. CASE window[Me][This] # "createPending"
    <2>1. /\ window' \in [Instances -> [Sessions -> Records]] /\ window'[Me][This] = "deletePending"
          /\ \A i \in Instances, s \in Sessions : i # Me \/ s # This => window'[i][s] = window[i][s]
      BY <1>1, <1>3, WindowFacts DEF IntendRelease, Records
    <2>2. faults' \in 0..MaxFaults /\ UNCHANGED <<space, terminal, file, disk, tmux>>
      BY <1>3 DEF IntendRelease, Then, Fault, TypeOK
    <2>3. Quiet
      BY <1>1, <2>2 DEF OpOK, OpBase, Settled, Untouched, Quiet, StillSettled, Me, At, tmux
    <2>4. OpOK'
      <3>1. CASE Fail
        BY <1>1, <2>3, <3>1, FailKeeps DEF At
      <3>2. CASE Goto("recheck")
        <4>1. op' \in Ops /\ Kept /\ op'.at = "recheck" /\ op'.deleting = op.deleting
              /\ op'.drop = op.drop
          BY <1>1, <3>2, GotoFacts DEF Stages
        <4> QED BY <1>1, <2>3, <4>1 DEF OpOK, OpBase, OpStage, Settled, Untouched, At, Me, This,
                  SessionStages, Kept, Quiet, StillSettled
      <3> QED BY <1>3, <3>1, <3>2 DEF IntendRelease, Then
    <2>5. TypeOK'
      BY <2>1, <2>2, <2>4 DEF TypeOK, OpOK, tmux
    <2>6. OwnMarkersAreRecorded'
      BY <1>1, <2>1, <2>2, OwnersStay DEF tmux
    <2>7. GoneIsUnmarked' /\ FilesAreRecorded'
      BY <2>2 DEF GoneIsUnmarked, Exists, Untouched, FilesAreRecorded, tmux
    <2> QED BY <2>4, <2>5, <2>6, <2>7 DEF OpOK
  <1> QED BY <1>2, <1>3

(* The record of a released session goes when nothing marks it any more.    *)
LEMMA DropWindowKeeps ==
  ASSUME IInv, DropWindow
  PROVE  IInv'
  <1> USE DEF IInv
  <1>1. /\ At("dropWindow") /\ Me \in Instances /\ This \in Sessions /\ op \in Ops /\ OpOK
        /\ Untouched(This)
    BY DEF DropWindow, OpOK, OpBase, OpStage, At, SessionStages, TypeOK
  <1>2. /\ window' \in [Instances -> [Sessions -> Records]] /\ window'[Me][This] = "none"
        /\ \A i \in Instances, s \in Sessions : i # Me \/ s # This => window'[i][s] = window[i][s]
    BY <1>1, WindowFacts DEF DropWindow, Records
  <1>3. faults' \in 0..MaxFaults /\ UNCHANGED <<space, terminal, file, disk, tmux>>
    <2>1. UNCHANGED faults \/ Fault
      BY DEF DropWindow, Then
    <2>2. UNCHANGED <<space, terminal, file, disk, tmux>>
      BY DEF DropWindow
    <2> QED BY <2>1, <2>2 DEF Fault, TypeOK
  <1>4. Quiet
    BY <1>1, <1>3 DEF OpOK, OpBase, Settled, Untouched, Quiet, StillSettled, Me, At, tmux
  <1>5. OpOK'
    BY <1>1, <1>4, FailKeeps, EndWindowKeeps DEF DropWindow, Then, At
  <1>6. TypeOK'
    BY <1>2, <1>3, <1>5 DEF TypeOK, OpOK, tmux
  <1>7. OwnMarkersAreRecorded'
    <2>1. \A i \in Instances, s \in Sessions :
            \/ window[i][s] # "none" => window'[i][s] # "none"
            \/ \A k \in Markers : marks[s][k] # i
      BY <1>1, <1>2 DEF Untouched
    <2> QED BY <1>3, <2>1, OwnersStay DEF tmux
  <1>8. GoneIsUnmarked' /\ FilesAreRecorded'
    BY <1>3 DEF GoneIsUnmarked, Exists, Untouched, FilesAreRecorded, tmux
  <1> QED BY <1>5, <1>6, <1>7, <1>8 DEF OpOK

-----------------------------------------------------------------------------
(* Removing the preserved workspace and closing the project's terminal.     *)

(* The risk is judged before anything of a removal is written.              *)
LEMMA RiskKeeps ==
  ASSUME IInv, Risk
  PROVE  IInv'
  <1>1. /\ At("risk") /\ UNCHANGED <<registry, disk, tmux, faults>> /\ OpOK /\ op.deleting
        /\ faults' \in 0..MaxFaults /\ op.req # "upload"
    BY DEF IInv, OpOK, OpBase, OpStage, TypeOK, Risk, At
  <1>2. CASE EndDelete
    <2>1. OpOK'
      BY <1>1, <1>2, StillQuiet, EndDeleteKeeps DEF At, Quiet
    <2> QED BY <1>1, <2>1, OnlyOp
  <1>3. CASE Goto("markSpace")
    BY <1>1, <1>3, MoveKeeps DEF At, Stages, SessionStages
  <1>4. CASE Goto("withdraw")
    BY <1>1, <1>4, MoveKeeps DEF At, Stages, SessionStages
  <1> QED BY <1>2, <1>3, <1>4 DEF Risk

(* The intents of a removal that cannot go on are withdrawn.                *)
LEMMA WithdrawKeeps ==
  ASSUME IInv, Withdraw
  PROVE  IInv'
  <1> USE DEF IInv
  <1>1. /\ At("withdraw") /\ Me \in Instances /\ op \in Ops /\ OpOK
    BY DEF Withdraw, OpOK, OpBase, At, TypeOK
  <1>2. /\ window' \in [Instances -> [Sessions -> Records]]
        /\ \A i \in Instances, s \in Sessions : window[i][s] # "none" => window'[i][s] # "none"
    <2> DEFINE m == [s \in Sessions |-> IF window[Me][s] = "deletePending" THEN "ready" ELSE window[Me][s]]
    <2>1. window' = [window EXCEPT ![Me] = m]
      BY DEF Withdraw
    <2>2. m \in [Sessions -> Records] /\ \A s \in Sessions : window[Me][s] # "none" => m[s] # "none"
      BY <1>1 DEF TypeOK, Records
    <2> HIDE DEF m
    <2> QED BY <1>1, <2>1, <2>2 DEF TypeOK
  <1>3. faults' \in 0..MaxFaults /\ UNCHANGED <<terminal, file, disk, tmux>>
    BY DEF Withdraw, Then, Fault, TypeOK
  <1>4. Quiet
    BY <1>1, <1>3 DEF OpOK, OpBase, Settled, Untouched, Quiet, StillSettled, Me, At, tmux
  <1>5. OpOK'
    BY <1>1, <1>4, FailKeeps, EndDeleteKeeps DEF Withdraw, Then, At, Quiet
  <1>6. TypeOK'
    <2>1. space' \in [Instances -> Records]
      BY <1>1 DEF Withdraw, TypeOK, Records
    <2> QED BY <1>2, <1>3, <1>5, <2>1 DEF TypeOK, OpOK, tmux
  <1>7. OwnMarkersAreRecorded'
    BY <1>2, <1>3, OwnersStay DEF tmux
  <1>8. GoneIsUnmarked' /\ FilesAreRecorded'
    BY <1>3 DEF GoneIsUnmarked, Exists, Untouched, FilesAreRecorded, tmux
  <1> QED BY <1>5, <1>6, <1>7, <1>8 DEF OpOK

(* From here on the workspace is marked while it is being removed.          *)
LEMMA MarkSpaceKeeps ==
  ASSUME IInv, MarkSpace
  PROVE  IInv'
  <1> USE DEF IInv
  <1>1. /\ At("markSpace") /\ Me \in Instances /\ op \in Ops /\ OpOK /\ op.deleting /\ op.req # "upload"
    BY DEF MarkSpace, OpOK, OpBase, OpStage, At, TypeOK
  <1>2. CASE space[Me] = "createPending"
    BY <1>1, <1>2, RefusedKeeps DEF MarkSpace, At
  <1>3. CASE space[Me] # "createPending"
    <2>1. space' \in [Instances -> Records] /\ space'[Me] = "deletePending"
      BY <1>1, <1>3 DEF MarkSpace, TypeOK, Records
    <2>2. faults' \in 0..MaxFaults /\ UNCHANGED <<window, terminal, file, disk, tmux>>
      BY <1>3 DEF MarkSpace, Then, Fault, TypeOK
    <2>3. Quiet
      BY <1>1, <2>1, <2>2 DEF OpOK, OpBase, Settled, Untouched, Quiet, StillSettled, Me, At, tmux
    <2>4. OpOK'
      <3>1. CASE Fail
        BY <1>1, <2>3, <3>1, FailKeeps DEF At
      <3>2. CASE Goto("windows")
        <4>1. op' \in Ops /\ Kept /\ op'.at = "windows" /\ op'.deleting = op.deleting
              /\ op'.drop = op.drop
          BY <1>1, <3>2, GotoFacts DEF Stages
        <4> QED BY <1>1, <2>1, <2>3, <4>1 DEF OpOK, OpBase, OpStage, Settled, Untouched, At, Me, This,
                  SessionStages, Kept, Quiet, StillSettled
      <3> QED BY <1>3, <3>1, <3>2 DEF MarkSpace, Then
    <2>5. TypeOK'
      BY <2>1, <2>2, <2>4 DEF TypeOK, OpOK, tmux
    <2>6. OwnMarkersAreRecorded' /\ GoneIsUnmarked' /\ FilesAreRecorded'
      BY <2>2 DEF OwnMarkersAreRecorded, GoneIsUnmarked, Exists, Untouched, FilesAreRecorded, tmux
    <2> QED BY <2>4, <2>5, <2>6 DEF OpOK
  <1> QED BY <1>2, <1>3

(* The windows of a workspace are released one after the other.             *)
LEMMA ReleaseNextKeeps ==
  ASSUME IInv, ReleaseNext
  PROVE  IInv'
  <1>1. /\ At("windows") /\ UNCHANGED <<registry, disk, tmux, faults>> /\ OpOK /\ op.deleting
        /\ faults' \in 0..MaxFaults /\ op.req # "upload"
    BY DEF IInv, OpOK, OpBase, OpStage, TypeOK, ReleaseNext, At
  <1>2. CASE Goto("confirm")
    BY <1>1, <1>2, MoveKeeps DEF At, Stages, SessionStages
  <1>3. CASE \E s \in Windows(Me) : op' = [op EXCEPT !.at = "release", !.session = s]
    <2>1. PICK s \in Sessions : op' = [op EXCEPT !.at = "release", !.session = s]
      BY <1>3 DEF Windows
    <2>2. /\ op' \in Ops /\ op'.at = "release" /\ op'.session = s /\ op'.req = op.req
          /\ op'.inst = op.inst /\ op'.deleting = op.deleting /\ op'.drop = op.drop
          /\ op'.todo = op.todo
      BY <1>1, <2>1 DEF OpOK, Ops, Stages
    <2>3. Quiet
      BY <1>1, StillQuiet DEF At
    <2>4. OpOK'
      BY <1>1, <2>2, <2>3 DEF OpOK, OpBase, OpStage, Settled, Untouched, At, Me, This,
           SessionStages, Quiet, StillSettled
    <2> QED BY <1>1, <2>4, OnlyOp
  <1> QED BY <1>2, <1>3 DEF ReleaseNext

(* The removal is confirmed once no window is left.                         *)
LEMMA ConfirmSpaceKeeps ==
  ASSUME IInv, ConfirmSpace
  PROVE  IInv'
  <1>1. /\ At("confirm") /\ UNCHANGED <<registry, disk, tmux>> /\ OpOK /\ op.deleting
        /\ faults' \in 0..MaxFaults /\ op.req # "upload"
    BY DEF IInv, OpOK, OpBase, OpStage, TypeOK, ConfirmSpace, Then, Fault, At
  <1>2. CASE Fail
    <2>1. OpOK'
      BY <1>1, <1>2, StillQuiet, FailKeeps DEF At
    <2> QED BY <1>1, <2>1, OnlyOp
  <1>3. CASE Goto("files") /\ UNCHANGED faults
    BY <1>1, <1>3, MoveKeeps DEF At, Stages, SessionStages
  <1> QED BY <1>2, <1>3 DEF ConfirmSpace, Then

(* The files of what is removed go before the record that owns them.        *)
LEMMA RemoveFileKeeps ==
  ASSUME IInv, RemoveFile
  PROVE  IInv'
  <1> USE DEF IInv
  <1> DEFINE left == Held(Me, IF op.deleting THEN "space" ELSE "terminal") \cap disk
  <1>1. /\ At("files") /\ Me \in Instances /\ op \in Ops /\ OpOK /\ op.req # "upload"
    BY DEF RemoveFile, OpOK, OpBase, OpStage, At, TypeOK
  <1>2. CASE left = {}
    <2>1. Goto("dropSpace") /\ UNCHANGED <<registry, disk, tmux, faults>>
      BY <1>2 DEF RemoveFile
    <2>2. op' \in Ops /\ Kept /\ op'.at = "dropSpace" /\ op'.deleting = op.deleting
          /\ op'.drop = op.drop
      BY <1>1, <2>1, GotoFacts DEF Stages
    <2>3. Quiet
      BY <1>1, <2>1, StillQuiet DEF At
    <2>4. OpBase'
      BY <1>1, <2>2, <2>3 DEF OpOK, OpBase, OpStage, Settled, Untouched, At, Me, This,
           SessionStages, Kept, Quiet, StillSettled
    <2>5. \A f \in Files : Owner[f] = Me /\ file'[f].of = (IF op.deleting THEN "space" ELSE "terminal")
                             => f \notin disk'
      BY <1>2, <2>1 DEF Held, registry
    <2>6. op'.deleting = FALSE => terminal'[Me] = "deletePending"
      BY <1>1, <2>1, <2>2 DEF OpOK, OpStage, At, registry
    <2>7. OpStage'
      BY <1>1, <2>2, <2>5, <2>6 DEF OpStage, At, Me, This, Kept, Held
    <2>8. faults' \in 0..MaxFaults
      BY <2>1 DEF TypeOK
    <2> QED BY <2>1, <2>2, <2>4, <2>7, <2>8, OnlyOp DEF OpOK
  <1>3. CASE left # {}
    <2>1. PICK f \in left : disk' = disk \ {f} /\ Then(Goto("files"))
      BY <1>3 DEF RemoveFile
    <2>2. faults' \in 0..MaxFaults /\ UNCHANGED <<registry, tmux>>
      BY <2>1 DEF RemoveFile, Then, Fault, TypeOK
    <2>3. Quiet
      BY <1>1, <2>1, <2>2 DEF OpOK, OpBase, Settled, Untouched, Quiet, StillSettled, Me, At, tmux, registry
    <2>4. OpOK'
      <3>1. CASE Fail
        BY <1>1, <2>3, <3>1, FailKeeps DEF At
      <3>2. CASE Goto("files")
        <4>1. op' \in Ops /\ Kept /\ op'.at = "files" /\ op'.deleting = op.deleting
              /\ op'.drop = op.drop
          BY <1>1, <3>2, GotoFacts DEF Stages
        <4> QED BY <1>1, <2>2, <2>3, <4>1 DEF OpOK, OpBase, OpStage, Settled, Untouched, At, Me, This,
                  SessionStages, Kept, Quiet, StillSettled, registry
      <3> QED BY <2>1, <3>1, <3>2 DEF Then
    <2>5. disk' \in SUBSET Files /\ disk' \subseteq disk
      BY <2>1 DEF TypeOK
    <2>6. TypeOK'
      BY <2>2, <2>4, <2>5 DEF TypeOK, OpOK, tmux, registry
    <2>7. OwnMarkersAreRecorded' /\ GoneIsUnmarked' /\ FilesAreRecorded'
      BY <2>2, <2>5 DEF OwnMarkersAreRecorded, GoneIsUnmarked, Exists, Untouched, FilesAreRecorded,
           tmux, registry
    <2> QED BY <2>4, <2>6, <2>7 DEF OpOK
  <1> QED BY <1>2, <1>3

(* Records of attachments without files go.                                 *)
LEMMA WithoutFacts ==
  ASSUME TypeOK, FilesAreRecorded, NEW held \in SUBSET Files, held \cap disk = {},
         file' = Without(held), UNCHANGED disk
  PROVE  /\ file' \in [Files -> Attachments] /\ FilesAreRecorded'
         /\ \A f \in Files : file[f].at # "ready" => file'[f].at # "ready"
  <1>1. NoFile \in Attachments /\ NoFile.at = "none"
    BY DEF NoFile, Attachments
  <1>2. \A f \in Files : file'[f] = IF f \in held THEN NoFile ELSE file[f]
    BY DEF Without
  <1>3. file' \in [Files -> Attachments]
    BY <1>1 DEF Without, TypeOK
  <1>4. FilesAreRecorded'
    BY <1>2 DEF FilesAreRecorded, TypeOK
  <1> QED BY <1>1, <1>2, <1>3, <1>4

(* The record of the workspace goes with those of its removed files.        *)
LEMMA DropSpaceKeeps ==
  ASSUME IInv, DropSpace
  PROVE  IInv'
  <1> USE DEF IInv
  <1>1. /\ At("dropSpace") /\ op.deleting /\ Me \in Instances /\ op \in Ops /\ OpOK
        /\ Held(Me, "space") \cap disk = {} /\ Held(Me, "space") \in SUBSET Files
    BY DEF DropSpace, OpOK, OpBase, OpStage, At, TypeOK, Held
  <1>2. UNCHANGED <<window, terminal, disk, tmux>> /\ file' = Without(Held(Me, "space"))
    BY DEF DropSpace
  <1>3. faults' \in 0..MaxFaults
    <2>1. UNCHANGED faults \/ Fault
      BY DEF DropSpace, Then
    <2> QED BY <2>1 DEF Fault, TypeOK
  <1>4. /\ file' \in [Files -> Attachments] /\ FilesAreRecorded'
        /\ \A f \in Files : file[f].at # "ready" => file'[f].at # "ready"
    BY <1>1, <1>2, WithoutFacts
  <1>5. StillSettled
    BY <1>1, <1>2, <1>4 DEF OpOK, OpBase, Settled, Untouched, StillSettled, At, tmux
  <1>6. EndDelete
    BY <1>1 DEF DropSpace, Then, Fail, At
  <1>7. OpOK'
    BY <1>1, <1>5, <1>6, EndDeleteKeeps DEF At
  <1>8. TypeOK'
    <2>1. space' \in [Instances -> Records]
      BY <1>1 DEF DropSpace, TypeOK, Records
    <2> QED BY <1>2, <1>3, <1>4, <1>7, <2>1 DEF TypeOK, OpOK, tmux
  <1>9. OwnMarkersAreRecorded' /\ GoneIsUnmarked'
    BY <1>2 DEF OwnMarkersAreRecorded, GoneIsUnmarked, Exists, Untouched, tmux
  <1> QED BY <1>4, <1>7, <1>8, <1>9 DEF OpOK

(* The session of the terminal ends, and its deletion is intended.          *)
LEMMA KillKeeps ==
  ASSUME IInv, Kill
  PROVE  IInv'
  <1> USE DEF IInv
  <1>1. /\ At("kill") /\ ~op.deleting /\ Me \in Instances /\ op \in Ops /\ OpOK /\ op.req # "upload"
    BY DEF Kill, OpOK, OpBase, OpStage, At, TypeOK
  <1>2. /\ terminal' \in [Instances -> Records \ {"createPending"}] /\ terminal'[Me] = "deletePending"
    BY <1>1 DEF Kill, TypeOK, Records
  <1>3. faults' \in 0..MaxFaults /\ UNCHANGED <<space, window, file, disk, tmux>>
    BY DEF Kill, Then, Fault, TypeOK
  <1>4. Quiet
    BY <1>1, <1>3 DEF OpOK, OpBase, Settled, Untouched, Quiet, StillSettled, Me, At, tmux
  <1>5. OpOK'
    <2>1. CASE Fail
      BY <1>1, <1>4, <2>1, FailKeeps DEF At
    <2>2. CASE Goto("files")
      <3>1. op' \in Ops /\ Kept /\ op'.at = "files" /\ op'.deleting = op.deleting
            /\ op'.drop = op.drop
        BY <1>1, <2>2, GotoFacts DEF Stages
      <3> QED BY <1>1, <1>2, <1>4, <3>1 DEF OpOK, OpBase, OpStage, Settled, Untouched, At, Me, This,
                SessionStages, Kept, Quiet, StillSettled
    <2> QED BY <2>1, <2>2 DEF Kill, Then
  <1>6. TypeOK'
    BY <1>2, <1>3, <1>5 DEF TypeOK, OpOK, tmux
  <1>7. OwnMarkersAreRecorded' /\ GoneIsUnmarked' /\ FilesAreRecorded'
    BY <1>3 DEF OwnMarkersAreRecorded, GoneIsUnmarked, Exists, Untouched, FilesAreRecorded, tmux
  <1> QED BY <1>5, <1>6, <1>7 DEF OpOK

(* The record of the terminal goes with those of its removed files.         *)
LEMMA DropTerminalKeeps ==
  ASSUME IInv, DropTerminal
  PROVE  IInv'
  <1> USE DEF IInv
  <1>1. /\ At("dropSpace") /\ ~op.deleting /\ Me \in Instances /\ op \in Ops /\ OpOK
        /\ Held(Me, "terminal") \cap disk = {} /\ Held(Me, "terminal") \in SUBSET Files
    BY DEF DropTerminal, OpOK, OpBase, OpStage, At, TypeOK, Held
  <1>2. UNCHANGED <<space, window, disk, tmux>> /\ file' = Without(Held(Me, "terminal"))
    BY DEF DropTerminal
  <1>3. faults' \in 0..MaxFaults
    <2>1. UNCHANGED faults \/ Fault
      BY DEF DropTerminal, Then
    <2> QED BY <2>1 DEF Fault, TypeOK
  <1>4. /\ file' \in [Files -> Attachments] /\ FilesAreRecorded'
        /\ \A f \in Files : file[f].at # "ready" => file'[f].at # "ready"
    BY <1>1, <1>2, WithoutFacts
  <1>5. Quiet
    BY <1>1, <1>2, <1>4 DEF OpOK, OpBase, Settled, Untouched, Quiet, StillSettled, At, tmux
  <1>6. EndWindow(TRUE) \/ Fail
    BY DEF DropTerminal, Then
  <1>7. OpOK'
    BY <1>1, <1>5, <1>6, EndWindowKeeps, FailKeeps DEF At
  <1>8. TypeOK'
    <2>1. terminal' \in [Instances -> Records \ {"createPending"}]
      BY <1>1 DEF DropTerminal, TypeOK, Records
    <2> QED BY <1>2, <1>3, <1>4, <1>7, <2>1 DEF TypeOK, OpOK, tmux
  <1>9. OwnMarkersAreRecorded' /\ GoneIsUnmarked'
    BY <1>2 DEF OwnMarkersAreRecorded, GoneIsUnmarked, Exists, Untouched, tmux
  <1> QED BY <1>4, <1>7, <1>8, <1>9 DEF OpOK

(* The project's terminal comes and goes while no operation runs.           *)
LEMMA TerminalKeeps ==
  ASSUME IInv, NEW i \in Instances, Open(i) \/ OpenFails(i)
  PROVE  IInv'
  <1>1. /\ op' = Idle /\ UNCHANGED <<space, window, file, disk, tmux>>
        /\ faults' \in 0..MaxFaults
    BY DEF Open, OpenFails, Fault, IInv, TypeOK, OpBase, At
  <1>2. OpOK'
    BY <1>1, FinishKeeps
  <1>3. terminal' \in [Instances -> Records \ {"createPending"}]
    BY DEF Open, OpenFails, IInv, TypeOK, Records
  <1>4. TypeOK'
    BY <1>1, <1>2, <1>3 DEF IInv, TypeOK, OpOK, tmux
  <1>5. OwnMarkersAreRecorded' /\ GoneIsUnmarked' /\ FilesAreRecorded'
    BY <1>1 DEF IInv, OwnMarkersAreRecorded, GoneIsUnmarked, Exists, Untouched, FilesAreRecorded, tmux
  <1> QED BY <1>2, <1>4, <1>5 DEF OpOK, IInv

-----------------------------------------------------------------------------
(* Attachments.                                                             *)

(* An upload is recorded before its file is made.                           *)
LEMMA UploadKeeps ==
  ASSUME IInv, NEW f \in Files, NEW t \in Targets, Upload(f, t)
  PROVE  IInv'
  <1> USE DEF IInv
  <1> DEFINE r == [at |-> "createPending", of |-> t]
  <1>1. /\ op = Idle /\ At("idle") /\ f \notin disk /\ UNCHANGED <<space, window, terminal, disk, tmux>>
        /\ file' = [file EXCEPT ![f] = r]
    BY DEF Upload, OpBase
  <1>2. r \in Attachments /\ r # NoFile
    BY DEF Attachments, NoFile, Targets
  <1> HIDE DEF r
  <1>3. file' \in [Files -> Attachments] /\ file'[f] = r /\ \A g \in Files \ {f} : file'[g] = file[g]
    BY <1>1, <1>2 DEF TypeOK
  <1>4. faults' \in 0..MaxFaults
    <2>1. UNCHANGED faults \/ Fault
      BY DEF Upload, Then
    <2> QED BY <2>1 DEF Fault, TypeOK
  <1>5. OpOK'
    <2>1. CASE Fail
      BY <1>1, <2>1, FinishKeeps DEF Fail, At, Finish
    <2>2. CASE op' = [Start("upload", Owner[f]) EXCEPT !.at = "create", !.file = f]
      <3> DEFINE o == Start("upload", Owner[f])
      <3>1. o \in Ops /\ o.req = "upload" /\ o.inst = Owner[f] /\ o.deleting = FALSE /\ o.todo = {} /\ o.drop = {}
        BY DEF Start, Idle, Ops, Stages, Requests
      <3>2. op' = [o EXCEPT !.at = "create", !.file = f]
        BY <2>2
      <3> HIDE DEF o
      <3>3. /\ op' \in Ops /\ op'.at = "create" /\ op'.file = f /\ op'.req = "upload"
            /\ op'.inst = Owner[f] /\ op'.deleting = FALSE /\ op'.todo = {} /\ op'.drop = {}
        BY <3>1, <3>2 DEF Ops, Stages
      <3>4. OpBase'
        BY <3>3 DEF OpBase, Settled, At, Me, SessionStages
      <3>5. OpStage'
        BY <1>2, <1>3, <3>3 DEF OpStage, At
      <3> QED BY <3>3, <3>4, <3>5 DEF OpOK
    <2> QED BY <2>1, <2>2 DEF Upload, Then
  <1>6. TypeOK'
    BY <1>1, <1>3, <1>4, <1>5 DEF TypeOK, OpOK, tmux
  <1>7. FilesAreRecorded'
    BY <1>1, <1>3 DEF FilesAreRecorded, TypeOK
  <1>8. OwnMarkersAreRecorded' /\ GoneIsUnmarked'
    BY <1>1 DEF OwnMarkersAreRecorded, GoneIsUnmarked, Exists, Untouched, tmux
  <1> QED BY <1>5, <1>6, <1>7, <1>8 DEF OpOK

(* The file is made under its record.                                       *)
LEMMA CreateFileKeeps ==
  ASSUME IInv, CreateFile
  PROVE  IInv'
  <1> USE DEF IInv
  <1>1. /\ At("create") /\ op.req = "upload" /\ ~op.deleting /\ op.drop = {} /\ op.todo = {}
        /\ op \in Ops /\ OpOK /\ op.file \in Files /\ file[op.file] # NoFile
    BY DEF CreateFile, OpOK, OpBase, OpStage, At, TypeOK
  <1>2. faults' \in 0..MaxFaults /\ UNCHANGED <<registry, tmux>> /\ disk' = disk \cup {op.file}
    BY DEF CreateFile, Then, Fault, TypeOK
  <1>3. Quiet
    BY <1>1 DEF Quiet, StillSettled
  <1>4. OpOK'
    <2>1. CASE Fail
      BY <1>1, <1>3, <2>1, FailKeeps DEF At
    <2>2. CASE Goto("commit")
      <3>1. op' \in Ops /\ Kept /\ op'.at = "commit" /\ op'.deleting = op.deleting
            /\ op'.drop = op.drop
        BY <1>1, <2>2, GotoFacts DEF Stages
      <3> QED BY <1>1, <1>2, <1>3, <3>1 DEF OpOK, OpBase, OpStage, Settled, Untouched, At, Me, This,
                SessionStages, Kept, Quiet, StillSettled, registry
    <2> QED BY <2>1, <2>2 DEF CreateFile, Then
  <1>5. TypeOK'
    BY <1>1, <1>2, <1>4 DEF TypeOK, OpOK, tmux, registry
  <1>6. OwnMarkersAreRecorded' /\ GoneIsUnmarked' /\ FilesAreRecorded'
    BY <1>1, <1>2 DEF OwnMarkersAreRecorded, GoneIsUnmarked, Exists, Untouched, FilesAreRecorded,
         tmux, registry
  <1> QED BY <1>4, <1>5, <1>6 DEF OpOK

(* One record of an attachment changes.                                     *)
LEMMA FileFacts ==
  ASSUME TypeOK, FilesAreRecorded, NEW f \in Files, NEW r \in Attachments,
         file' = [file EXCEPT ![f] = r], UNCHANGED disk, r = NoFile => f \notin disk
  PROVE  /\ file' \in [Files -> Attachments] /\ file'[f] = r
         /\ \A g \in Files \ {f} : file'[g] = file[g]
         /\ FilesAreRecorded'
  <1>1. /\ file' \in [Files -> Attachments] /\ file'[f] = r
        /\ \A g \in Files \ {f} : file'[g] = file[g]
    BY DEF TypeOK
  <1> QED BY <1>1 DEF FilesAreRecorded, TypeOK

(* A finished upload becomes a lasting record.                              *)
LEMMA CommitFileKeeps ==
  ASSUME IInv, CommitFile
  PROVE  IInv'
  <1> USE DEF IInv
  <1>1. /\ At("commit") /\ op.req = "upload" /\ ~op.deleting /\ op.drop = {} /\ op.todo = {}
        /\ op \in Ops /\ OpOK /\ op.file \in Files
    BY DEF CommitFile, OpOK, OpBase, OpStage, At, TypeOK
  <1>2. faults' \in 0..MaxFaults /\ UNCHANGED <<space, window, terminal, disk, tmux>>
    BY DEF CommitFile, Then, Fault, TypeOK
  <1> DEFINE r == [file[op.file] EXCEPT !.at = "ready"]
  <1>3. file' = [file EXCEPT ![op.file] = r]
    BY DEF CommitFile
  <1>4. r \in Attachments /\ r # NoFile
    <2>1. PICK a \in Attachments : a = file[op.file]
      BY <1>1 DEF TypeOK
    <2>2. r = [a EXCEPT !.at = "ready"]
      BY <2>1
    <2> HIDE DEF r
    <2>3. r \in Attachments /\ r.at = "ready"
      BY <2>2 DEF Attachments
    <2> QED BY <2>3 DEF NoFile
  <1> HIDE DEF r
  <1>5. PICK f \in Files : f = op.file
    BY <1>1
  <1>6. file' \in [Files -> Attachments] /\ FilesAreRecorded'
    BY <1>2, <1>3, <1>4, <1>5, FileFacts
  <1>7. Quiet
    BY <1>1 DEF Quiet, StillSettled
  <1>8. OpOK'
    BY <1>1, <1>7, FailKeeps, FinishKeeps DEF CommitFile, Then, Finish, At
  <1>9. TypeOK'
    BY <1>2, <1>6, <1>8 DEF TypeOK, OpOK, tmux
  <1>10. OwnMarkersAreRecorded' /\ GoneIsUnmarked'
    BY <1>2 DEF OwnMarkersAreRecorded, GoneIsUnmarked, Exists, Untouched, tmux
  <1> QED BY <1>6, <1>8, <1>9, <1>10 DEF OpOK

(* The file of a failed or expired attachment goes before its record.       *)
LEMMA UndoFileKeeps ==
  ASSUME IInv, UndoFile
  PROVE  IInv'
  <1> USE DEF IInv
  <1>1. /\ At("undoFile") /\ ~op.deleting /\ op \in Ops /\ OpOK /\ op.file \in Files
    BY DEF UndoFile, OpOK, OpBase, OpStage, At, TypeOK
  <1>2. faults' \in 0..MaxFaults /\ UNCHANGED <<registry, tmux>> /\ disk' = disk \ {op.file}
    BY DEF UndoFile, Then, Fault, TypeOK
  <1>3. Quiet
    BY <1>1, <1>2 DEF OpOK, OpBase, Settled, Untouched, Quiet, StillSettled, registry, tmux
  <1>4. OpOK'
    <2>1. CASE Fail
      BY <1>1, <1>3, <2>1, FailKeeps DEF At
    <2>2. CASE Goto("dropFile")
      <3>1. op' \in Ops /\ Kept /\ op'.at = "dropFile" /\ op'.deleting = op.deleting
            /\ op'.drop = op.drop
        BY <1>1, <2>2, GotoFacts DEF Stages
      <3> QED BY <1>1, <1>2, <1>3, <3>1 DEF OpOK, OpBase, OpStage, Settled, Untouched, At, Me, This,
                SessionStages, Kept, Quiet, StillSettled
    <2> QED BY <2>1, <2>2 DEF UndoFile, Then
  <1>5. TypeOK'
    BY <1>1, <1>2, <1>4 DEF TypeOK, OpOK, tmux, registry
  <1>6. OwnMarkersAreRecorded' /\ GoneIsUnmarked' /\ FilesAreRecorded'
    BY <1>1, <1>2 DEF OwnMarkersAreRecorded, GoneIsUnmarked, Exists, Untouched, FilesAreRecorded,
         tmux, registry
  <1> QED BY <1>4, <1>5, <1>6 DEF OpOK

(* The record of an attachment goes after its file.                         *)
LEMMA DropFileKeeps ==
  ASSUME IInv, DropFile
  PROVE  IInv'
  <1> USE DEF IInv
  <1>1. /\ At("dropFile") /\ ~op.deleting /\ op \in Ops /\ OpOK /\ op.file \in Files
        /\ op.file \notin disk
    BY DEF DropFile, OpOK, OpBase, OpStage, At, TypeOK
  <1>2. UNCHANGED <<space, window, terminal, disk, tmux>> /\ file' = [file EXCEPT ![op.file] = NoFile]
    BY DEF DropFile
  <1>3. faults' \in 0..MaxFaults
    <2>1. UNCHANGED faults \/ Fault
      BY DEF DropFile, Then
    <2> QED BY <2>1 DEF Fault, TypeOK
  <1>4. NoFile \in Attachments /\ NoFile.at = "none"
    BY DEF Attachments, NoFile
  <1>5. PICK f \in Files : f = op.file
    BY <1>1
  <1>6. file' \in [Files -> Attachments] /\ FilesAreRecorded' /\ file'[f] = NoFile
        /\ \A g \in Files \ {f} : file'[g] = file[g]
    BY <1>1, <1>2, <1>4, <1>5, FileFacts
  <1>7. Quiet
    BY <1>1, <1>2, <1>4, <1>6 DEF OpOK, OpBase, Settled, Untouched, Quiet, StillSettled, tmux
  <1>8. OpOK'
    <2>1. CASE Fail
      BY <1>1, <1>7, <2>1, FailKeeps DEF At
    <2>2. CASE Recovering /\ Goto("sweep")
      <3>1. op' \in Ops /\ Kept /\ op'.at = "sweep" /\ op'.deleting = op.deleting
            /\ op'.drop = op.drop
        BY <1>1, <2>2, GotoFacts DEF Stages
      <3> QED BY <1>1, <1>7, <2>2, <3>1, SweepOn DEF Quiet, At
    <2>3. CASE Finish
      BY <2>3, FinishKeeps DEF Finish
    <2> QED BY <2>1, <2>2, <2>3 DEF DropFile, Then
  <1>9. TypeOK'
    BY <1>2, <1>3, <1>6, <1>8 DEF TypeOK, OpOK, tmux
  <1>10. OwnMarkersAreRecorded' /\ GoneIsUnmarked'
    BY <1>2 DEF OwnMarkersAreRecorded, GoneIsUnmarked, Exists, Untouched, tmux
  <1> QED BY <1>6, <1>8, <1>9, <1>10 DEF OpOK

-----------------------------------------------------------------------------
(* Cleanup.                                                                 *)

(* What is visited is not visited again.                                    *)
LEMMA VisitedFacts ==
  ASSUME op \in Ops, NEW x
  PROVE  /\ Visited(x) \in Ops /\ Visited(x).todo = op.todo \ {x}
         /\ Visited(x).at = op.at /\ Visited(x).req = op.req /\ Visited(x).inst = op.inst
         /\ Visited(x).deleting = op.deleting /\ Visited(x).drop = op.drop
         /\ Visited(x).session = op.session /\ Visited(x).keep = op.keep /\ Visited(x).file = op.file
  <1>1. op.todo \ {x} \in SUBSET (Sessions \cup Files \cup Instances \cup {None})
    BY DEF Ops
  <1> QED BY <1>1 DEF Visited, Ops

(* A pending adoption is to be dropped only when it left no marker.         *)
LEMMA ReconcileWindowKeeps ==
  ASSUME IInv, NEW s \in Sessions, ReconcileWindow(s)
  PROVE  IInv'
  <1> DEFINE v == Visited(s)
  <1>1. /\ At("reconcile") /\ s \in op.todo /\ OpOK /\ faults' \in 0..MaxFaults
        /\ op.req \notin {"adopt", "upload"} /\ UNCHANGED <<registry, disk, tmux>>
    BY DEF IInv, OpOK, OpBase, TypeOK, ReconcileWindow, Fault, At
  <1>2. /\ v \in Ops /\ v.todo = op.todo \ {s} /\ v.at = op.at /\ v.req = op.req /\ v.inst = op.inst
        /\ v.deleting = op.deleting /\ v.drop = op.drop /\ v.session = op.session /\ v.keep = op.keep
    BY <1>1, VisitedFacts DEF OpOK
  <1>3. \/ op' = [v EXCEPT !.drop = @ \cup {s}] /\ Untouched(s)
        \/ op' = v
        \/ op' = [v EXCEPT !.at = "inspect", !.session = s]
        \/ op' = [v EXCEPT !.keep = @ \cup {s}]
    BY DEF ReconcileWindow, IInv, GoneIsUnmarked
  <1> HIDE DEF v
  <1>4. /\ op' \in Ops /\ op'.todo = op.todo \ {s} /\ op'.req = op.req /\ op'.inst = op.inst
        /\ op'.deleting = op.deleting
        /\ op'.drop \subseteq op.drop \cup {s} /\ (op'.drop # op.drop => Untouched(s))
        /\ \/ op'.at = "reconcile"
           \/ op'.at = "inspect" /\ op'.session = s
    <2>1. v.drop \cup {s} \in SUBSET (Sessions \cup Files) /\ v.keep \cup {s} \in SUBSET (Sessions \cup Files)
      BY <1>1, <1>2 DEF OpOK, Ops
    <2>2. CASE op' = [v EXCEPT !.drop = @ \cup {s}] /\ Untouched(s)
      BY <1>1, <1>2, <2>1, <2>2 DEF Ops, At
    <2>3. CASE op' = v
      BY <1>1, <1>2, <2>3 DEF At
    <2>4. CASE op' = [v EXCEPT !.at = "inspect", !.session = s]
      BY <1>1, <1>2, <2>4 DEF Ops, Stages
    <2>5. CASE op' = [v EXCEPT !.keep = @ \cup {s}]
      BY <1>1, <1>2, <2>1, <2>5 DEF Ops, At
    <2> QED BY <1>3, <2>2, <2>3, <2>4, <2>5
  <1>5. Quiet
    BY <1>1, StillQuiet DEF At
  <1>6. Untouched(s) => \A k \in Markers : marks'[s][k] = None
    BY <1>1 DEF Untouched, tmux
  <1>7. OpBase'
    BY <1>1, <1>4, <1>5, <1>6 DEF OpOK, OpBase, Settled, Untouched, At, Me, This,
         SessionStages, Quiet, StillSettled
  <1>8. OpStage'
    BY <1>1, <1>4 DEF OpStage, At, Me, This
  <1> QED BY <1>1, <1>4, <1>7, <1>8, OnlyOp DEF OpOK

(* A pending upload is to be dropped only when its file is gone.            *)
LEMMA ReconcileFileKeeps ==
  ASSUME IInv, NEW f \in Files, ReconcileFile(f)
  PROVE  IInv'
  <1> USE DEF IInv
  <1> DEFINE v == Visited(f)
  <1>1. /\ At("reconcile") /\ f \in op.todo /\ OpOK /\ faults' \in 0..MaxFaults
        /\ op.req \notin {"adopt", "upload"} /\ UNCHANGED <<registry, tmux>>
    BY DEF OpOK, OpBase, TypeOK, ReconcileFile, Fault, At
  <1>2. /\ v \in Ops /\ v.todo = op.todo \ {f} /\ v.at = op.at /\ v.req = op.req /\ v.inst = op.inst
        /\ v.deleting = op.deleting /\ v.drop = op.drop /\ v.session = op.session /\ v.keep = op.keep
    BY <1>1, VisitedFacts DEF OpOK
  <1>3. \/ op' = [v EXCEPT !.drop = @ \cup {f}] /\ disk' = disk \ {f}
        \/ op' = [v EXCEPT !.keep = @ \cup {f}] /\ disk' \in {disk, disk \ {f}}
    BY DEF ReconcileFile
  <1> HIDE DEF v
  <1>4. /\ op' \in Ops /\ op'.todo = op.todo \ {f} /\ op'.req = op.req /\ op'.inst = op.inst
        /\ op'.deleting = op.deleting /\ op'.at = "reconcile"
        /\ op'.drop \subseteq op.drop \cup {f} /\ (op'.drop # op.drop => f \notin disk')
    <2>1. v.drop \cup {f} \in SUBSET (Sessions \cup Files) /\ v.keep \cup {f} \in SUBSET (Sessions \cup Files)
      BY <1>1, <1>2 DEF OpOK, Ops
    <2>2. CASE op' = [v EXCEPT !.drop = @ \cup {f}] /\ disk' = disk \ {f}
      BY <1>1, <1>2, <2>1, <2>2 DEF Ops, At
    <2>3. CASE op' = [v EXCEPT !.keep = @ \cup {f}]
      BY <1>1, <1>2, <2>1, <2>3 DEF Ops, At
    <2> QED BY <1>3, <2>2, <2>3
  <1>5. disk' \subseteq disk /\ disk' \in SUBSET Files
    BY <1>3 DEF TypeOK
  <1>6. Quiet
    BY <1>1, <1>5 DEF OpOK, OpBase, Settled, Untouched, Quiet, StillSettled, At, Me, registry, tmux
  <1>7. OpBase'
    BY <1>1, <1>4, <1>6 DEF OpOK, OpBase, Settled, Untouched, At, Me, This,
         SessionStages, Quiet, StillSettled
  <1>8. OpStage'
    BY <1>1, <1>4 DEF OpStage, At, Me, This
  <1>9. TypeOK'
    BY <1>1, <1>4, <1>5 DEF TypeOK, tmux, registry
  <1>10. OwnMarkersAreRecorded' /\ GoneIsUnmarked' /\ FilesAreRecorded'
    BY <1>1, <1>5 DEF OwnMarkersAreRecorded, GoneIsUnmarked, Exists, Untouched, FilesAreRecorded,
         tmux, registry
  <1> QED BY <1>7, <1>8, <1>9, <1>10

(* The recovery's one write drops only what has lost its markers or its     *)
(* file.                                                                    *)
LEMMA SaveReconciledKeeps ==
  ASSUME IInv, SaveReconciled
  PROVE  IInv'
  <1> USE DEF IInv
  <1>1. /\ At("reconcile") /\ Me \in Instances /\ op \in Ops /\ OpOK
    BY DEF SaveReconciled, OpOK, OpBase, At, TypeOK
  <1> DEFINE settled == space[Me] = "ready" \/ (space[Me] = "createPending" /\ op.made)
             left == [s \in Sessions |->
                    IF window[Me][s] # "createPending" \/ ~settled \/ s \in op.keep THEN window[Me][s]
                    ELSE IF s \in op.drop THEN "none" ELSE "ready"]
             todo == {s \in Sessions : window'[Me][s] = "deletePending"}
                \cup (IF terminal[Me] = "none" THEN {} ELSE {None})
                \cup (IF space'[Me] = "deletePending" THEN {Me} ELSE {})
                \cup {f \in Files : Owner[f] = Me /\ file'[f].at = "old"}
  <1>2. /\ window' = [window EXCEPT ![Me] = left]
        /\ space' = [space EXCEPT ![Me] =
             IF @ = "createPending" /\ op.made
             THEN IF \E s \in Sessions : left[s] # "none" THEN "ready" ELSE "none"
             ELSE @]
        /\ file' = Without(op.drop)
        /\ Then(op' = [Start("cleanup", Me) EXCEPT !.at = "sweep", !.todo = todo])
        /\ UNCHANGED <<terminal, disk, tmux>>
    BY DEF SaveReconciled, Without
  <1>3. /\ left \in [Sessions -> Records]
        /\ \A s \in Sessions : window[Me][s] # "none" => left[s] # "none" \/ Untouched(s)
    BY <1>1 DEF TypeOK, Records, OpOK, OpBase, Settled
  <1>4. /\ todo \subseteq Sessions \cup Files \cup Instances \cup {None}
        /\ \A f \in todo \cap Files : file'[f].at = "old"
    BY <1>1
  <1>5. space' \in [Instances -> Records]
    BY <1>1, <1>2 DEF TypeOK, Records
  <1> HIDE DEF left, todo, settled
  <1>6. /\ window' \in [Instances -> [Sessions -> Records]]
        /\ \A i \in Instances, s \in Sessions :
             \/ window[i][s] # "none" => window'[i][s] # "none"
             \/ \A k \in Markers : marks[s][k] # i
    <2>1. /\ window' \in [Instances -> [Sessions -> Records]] /\ window'[Me] = left
          /\ \A i \in Instances \ {Me} : window'[i] = window[i]
      BY <1>1, <1>2, <1>3 DEF TypeOK
    <2> QED BY <1>1, <1>3, <2>1 DEF Untouched
  <1>7. faults' \in 0..MaxFaults
    <2>1. UNCHANGED faults \/ Fault
      BY <1>2 DEF Then
    <2> QED BY <2>1 DEF Fault, TypeOK
  <1>8. file' \in [Files -> Attachments] /\ FilesAreRecorded'
    <2>1. op.drop \cap Files \in SUBSET Files /\ (op.drop \cap Files) \cap disk = {}
      BY <1>1 DEF OpOK, OpBase, Settled
    <2>2. file' = Without(op.drop \cap Files)
      BY <1>2 DEF Without
    <2> QED BY <1>2, <2>1, <2>2, WithoutFacts
  <1>9. OpOK'
    <2>1. CASE Fail
      BY <1>1, <2>1, FinishKeeps DEF Fail, At, Finish
    <2>2. CASE op' = [Start("cleanup", Me) EXCEPT !.at = "sweep", !.todo = todo]
      <3> DEFINE o == Start("cleanup", Me)
      <3>1. o \in Ops /\ o.req = "cleanup" /\ o.inst = Me /\ o.deleting = FALSE /\ o.drop = {}
        BY <1>1 DEF Start, Idle, Ops, Stages, Requests
      <3>2. op' = [o EXCEPT !.at = "sweep", !.todo = todo]
        BY <2>2
      <3> HIDE DEF o
      <3>3. /\ op' \in Ops /\ op'.at = "sweep" /\ op'.req = "cleanup" /\ op'.inst = Me
            /\ op'.deleting = FALSE /\ op'.todo = todo /\ op'.drop = {}
        BY <1>4, <3>1, <3>2 DEF Ops, Stages
      <3>4. OpBase'
        BY <1>1, <1>4, <3>3 DEF OpBase, Settled, At, Me, SessionStages
      <3>5. OpStage'
        BY <3>3 DEF OpStage, At
      <3> QED BY <3>3, <3>4, <3>5 DEF OpOK
    <2> QED BY <1>2, <2>1, <2>2 DEF Then
  <1>10. TypeOK'
    BY <1>2, <1>5, <1>6, <1>7, <1>8, <1>9 DEF TypeOK, OpOK, tmux
  <1>11. OwnMarkersAreRecorded'
    BY <1>2, <1>6, OwnersStay DEF tmux
  <1>12. GoneIsUnmarked'
    BY <1>2 DEF GoneIsUnmarked, Exists, Untouched, tmux
  <1> QED BY <1>8, <1>9, <1>10, <1>11, <1>12 DEF OpOK

(* The cleanup takes up what is being deleted and what is old.              *)
LEMMA SweepKeeps ==
  ASSUME IInv,
         \/ \E s \in Sessions : SweepWindow(s)
         \/ \E f \in Files : SweepFile(f)
         \/ SweepTerminal \/ SweepSpace \/ Swept
  PROVE  IInv'
  <1>1. /\ At("sweep") /\ ~op.deleting /\ UNCHANGED <<registry, disk, tmux, faults>> /\ OpOK
        /\ op.req # "upload" /\ faults' \in 0..MaxFaults /\ op \in Ops
    BY DEF IInv, OpOK, OpBase, OpStage, TypeOK, SweepWindow, SweepFile, SweepTerminal, SweepSpace,
         Swept, At
  <1>2. Quiet
    BY <1>1, StillQuiet DEF At
  <1> SUFFICES OpOK'
    BY <1>1, OnlyOp
  <1>3. ASSUME NEW s \in Sessions, SweepWindow(s) PROVE OpOK'
    <2> DEFINE v == Visited(s)
    <2>1. /\ v \in Ops /\ v.todo = op.todo \ {s} /\ v.req = op.req /\ v.inst = op.inst
          /\ v.deleting = op.deleting /\ v.drop = op.drop
      BY <1>1, VisitedFacts
    <2>2. op' = [v EXCEPT !.at = "release", !.session = s] /\ op.req \notin {"adopt", "upload"}
      BY <1>1, <1>3 DEF SweepWindow, OpOK, OpBase
    <2> HIDE DEF v
    <2>3. /\ op' \in Ops /\ op'.todo = op.todo \ {s} /\ op'.req = op.req /\ op'.inst = op.inst
          /\ op'.deleting = op.deleting /\ op'.drop = op.drop /\ op'.at = "release" /\ op'.session = s
      BY <2>1, <2>2 DEF Ops, Stages
    <2> QED BY <1>1, <1>2, <2>2, <2>3 DEF OpOK, OpBase, OpStage, Settled, Untouched, At, Me, This,
              SessionStages, Quiet, StillSettled
  <1>4. ASSUME NEW f \in Files, SweepFile(f) PROVE OpOK'
    <2> DEFINE v == Visited(f)
    <2>1. /\ v \in Ops /\ v.todo = op.todo \ {f} /\ v.req = op.req /\ v.inst = op.inst /\ v.at = op.at
          /\ v.deleting = op.deleting /\ v.drop = op.drop
      BY <1>1, VisitedFacts
    <2>2. /\ \/ op' = [v EXCEPT !.at = "undoFile", !.file = f] /\ file[f].at = "old"
             \/ op' = v
          /\ op.req \notin {"adopt", "upload"}
      BY <1>1, <1>4 DEF SweepFile, OpOK, OpBase
    <2> HIDE DEF v
    <2>3. /\ op' \in Ops /\ op'.todo = op.todo \ {f} /\ op'.req = op.req /\ op'.inst = op.inst
          /\ op'.deleting = op.deleting /\ op'.drop = op.drop
          /\ \/ op'.at = "undoFile" /\ op'.file = f /\ file[f].at = "old"
             \/ op'.at = "sweep"
      <3>1. CASE op' = [v EXCEPT !.at = "undoFile", !.file = f] /\ file[f].at = "old"
        BY <1>1, <2>1, <3>1 DEF Ops, Stages
      <3>2. CASE op' = v
        BY <1>1, <2>1, <3>2 DEF At
      <3> QED BY <2>2, <3>1, <3>2
    <2> QED BY <1>1, <1>2, <2>2, <2>3 DEF OpOK, OpBase, OpStage, Settled, Untouched, At, Me, This,
              SessionStages, Quiet, StillSettled, registry
  <1>5. CASE SweepTerminal
    <2> DEFINE v == Visited(None)
    <2>1. /\ v \in Ops /\ v.todo = op.todo \ {None} /\ v.req = op.req /\ v.inst = op.inst /\ v.at = op.at
          /\ v.deleting = op.deleting /\ v.drop = op.drop
      BY <1>1, VisitedFacts
    <2>2. /\ op' = v \/ op' = [v EXCEPT !.at = "kill"]
          /\ op.req \notin {"adopt", "upload"}
      BY <1>1, <1>5 DEF SweepTerminal, OpOK, OpBase
    <2> HIDE DEF v
    <2>3. /\ op' \in Ops /\ op'.todo = op.todo \ {None} /\ op'.req = op.req /\ op'.inst = op.inst
          /\ op'.deleting = op.deleting /\ op'.drop = op.drop /\ op'.at \in {"sweep", "kill"}
      BY <1>1, <2>1, <2>2 DEF Ops, Stages, At
    <2> QED BY <1>1, <1>2, <2>2, <2>3 DEF OpOK, OpBase, OpStage, Settled, Untouched, At, Me, This,
              SessionStages, Quiet, StillSettled
  <1>6. CASE SweepSpace
    <2> DEFINE v == Visited(Me)
    <2>1. /\ v \in Ops /\ v.todo = op.todo \ {Me} /\ v.req = op.req /\ v.inst = op.inst
          /\ v.drop = op.drop
      BY <1>1, VisitedFacts
    <2>2. op' = [v EXCEPT !.at = "risk", !.deleting = TRUE] /\ op.req \notin {"adopt", "upload"}
      BY <1>1, <1>6 DEF SweepSpace, OpOK, OpBase
    <2> HIDE DEF v
    <2>3. /\ op' \in Ops /\ op'.todo = op.todo \ {Me} /\ op'.req = op.req /\ op'.inst = op.inst
          /\ op'.deleting = TRUE /\ op'.drop = op.drop /\ op'.at = "risk"
      BY <2>1, <2>2 DEF Ops, Stages
    <2> QED BY <1>1, <1>2, <2>2, <2>3 DEF OpOK, OpBase, OpStage, Settled, Untouched, At, Me, This,
              SessionStages, Quiet, StillSettled
  <1>7. CASE Swept
    BY <1>7, FinishKeeps DEF Swept, Finish
  <1> QED BY <1>3, <1>4, <1>5, <1>6, <1>7

-----------------------------------------------------------------------------
(* The people at the sessions, and time.                                    *)

(* They take markers away with the session, and set none.                   *)
LEMMA UseKeeps ==
  ASSUME IInv, NEW s \in Sessions, Use(s)
  PROVE  IInv'
  <1> USE DEF IInv
  <1>1. PICK shape \in Shapes : session' = [session EXCEPT ![s] = shape]
    BY DEF Use, Shapes
  <1>2. UNCHANGED <<registry, disk, op, faults>>
    BY DEF Use
  <1>3. /\ session' \in [Sessions -> Shapes] /\ session'[s] = shape
        /\ \A r \in Sessions \ {s} : session'[r] = session[r]
    BY <1>1 DEF TypeOK
  <1>4. /\ marks' \in [Sessions -> [Markers -> Instances \cup {None}]]
        /\ shape = "absent" => \A k \in Markers : marks'[s][k] = None
        /\ \A r \in Sessions, k \in Markers : marks'[r][k] \in {marks[r][k], None}
    <2>1. CASE shape = "absent"
      <3> DEFINE m == [k \in Markers |-> None]
      <3>1. marks' = [marks EXCEPT ![s] = m]
        BY <1>3, <2>1 DEF Use
      <3>2. m \in [Markers -> Instances \cup {None}] /\ \A k \in Markers : m[k] = None
        OBVIOUS
      <3> HIDE DEF m
      <3>3. /\ marks' \in [Sessions -> [Markers -> Instances \cup {None}]] /\ marks'[s] = m
            /\ \A r \in Sessions \ {s} : marks'[r] = marks[r]
        BY <3>1, <3>2 DEF TypeOK
      <3> QED BY <3>2, <3>3
    <2>2. CASE shape # "absent"
      <3>1. marks' = marks
        BY <1>3, <2>2 DEF Use
      <3> QED BY <2>2, <3>1 DEF TypeOK
    <2> QED BY <2>1, <2>2
  <1>5. OpBase'
    BY <1>2, <1>4 DEF OpBase, Settled, Untouched, At, Me, This, registry
  <1>6. OpStage'
    <2>1. This \in Sessions => \A k \in Markers : marks'[This][k] \in {marks[This][k], None}
      BY <1>4
    <2>2. op.at \in {"record", "undo", "dropWindow", "mark", "clear"} => This \in Sessions
      BY DEF OpBase, SessionStages
    <2>3. op.at \in {"record", "undo", "dropWindow"} => Untouched(This)'
      BY <1>2, <2>1, <2>2 DEF OpStage, Untouched, This
    <2>4. At("mark") => \A k \in Markers : marks'[This][k] \in {Me, None}
      BY <2>1, <2>2 DEF OpStage, At
    <2>5. At("clear") => /\ \A k \in op.keys : marks'[This][k] \in {Me, None}
                         /\ \A k \in Markers \ op.keys : marks'[This][k] = None
      BY <2>1, <2>2 DEF OpStage, At, TypeOK, Ops
    <2> QED BY <1>2, <2>3, <2>4, <2>5 DEF OpStage, At, Me, This, Held, registry
  <1>7. TypeOK'
    BY <1>2, <1>3, <1>4 DEF TypeOK, registry
  <1>8. GoneIsUnmarked'
    BY <1>3, <1>4 DEF GoneIsUnmarked, Exists, Untouched
  <1>9. OwnMarkersAreRecorded'
    BY <1>2, <1>4 DEF OwnMarkersAreRecorded, registry
  <1>10. FilesAreRecorded'
    BY <1>2 DEF FilesAreRecorded, registry
  <1> QED BY <1>5, <1>6, <1>7, <1>8, <1>9, <1>10

(* A finished attachment grows old; no record and no file goes.             *)
LEMMA AgeKeeps ==
  ASSUME IInv, NEW f \in Files, Age(f)
  PROVE  IInv'
  <1> USE DEF IInv
  <1> DEFINE r == [file[f] EXCEPT !.at = "old"]
  <1>1. file' = [file EXCEPT ![f] = r] /\ UNCHANGED <<space, window, terminal, disk, tmux, op, faults>>
        /\ file[f].at = "ready"
    BY DEF Age
  <1>2. r \in Attachments /\ r.at = "old" /\ r.of = file[f].of
    <2>1. PICK a \in Attachments : a = file[f]
      BY DEF TypeOK
    <2> QED BY <2>1 DEF Attachments
  <1> HIDE DEF r
  <1>3. r # NoFile
    BY <1>2 DEF NoFile
  <1>4. /\ file' \in [Files -> Attachments] /\ file'[f] = r
        /\ \A g \in Files \ {f} : file'[g] = file[g]
        /\ FilesAreRecorded'
    BY <1>1, <1>2, <1>3, FileFacts
  <1>5. \A g \in Files : /\ file'[g].at # "ready" \/ file'[g] = file[g]
                         /\ file'[g].of = file[g].of
                         /\ file[g] # NoFile => file'[g] # NoFile
    BY <1>2, <1>3, <1>4
  <1>6. OpBase'
    BY <1>1, <1>5 DEF OpBase, Settled, Untouched, At, Me, This, tmux
  <1>7. OpStage'
    <2>1. \A t \in Targets : Held(Me, t)' = Held(Me, t)
      BY <1>1, <1>5 DEF Held, Me
    <2> QED BY <1>1, <1>5, <2>1 DEF OpStage, Untouched, At, Me, This, tmux, Held
  <1>8. TypeOK'
    BY <1>1, <1>4 DEF TypeOK, tmux
  <1>9. OwnMarkersAreRecorded' /\ GoneIsUnmarked'
    BY <1>1 DEF OwnMarkersAreRecorded, GoneIsUnmarked, Exists, Untouched, tmux
  <1> QED BY <1>4, <1>6, <1>7, <1>8, <1>9

-----------------------------------------------------------------------------
(* The invariant is inductive.                                              *)

(* Nothing is recorded, marked or kept at first.                            *)
LEMMA InitHolds == Init => IInv
  <1> SUFFICES ASSUME Init PROVE IInv
    OBVIOUS
  <1>1. NoFile \in Attachments /\ Idle \in Ops
    BY IdleFacts DEF NoFile, Attachments
  <1>2. TypeOK
    BY <1>1 DEF Init, TypeOK, Records, Shapes
  <1>3. OpBase /\ OpStage
    BY IdleFacts DEF Init, OpBase, OpStage, Settled, At, SessionStages
  <1>4. OwnMarkersAreRecorded /\ GoneIsUnmarked /\ FilesAreRecorded
    BY DEF Init, OwnMarkersAreRecorded, GoneIsUnmarked, Untouched, FilesAreRecorded
  <1> QED BY <1>2, <1>3, <1>4 DEF IInv

(* Every step of an operation keeps the invariant.                          *)
LEMMA StepKeeps ==
  ASSUME IInv, Step
  PROVE  IInv'
  <1>1. CASE AdoptStep
    BY <1>1, RecordAdoptionKeeps, SetMarkerKeeps, VerifyKeeps, CommitAdoptionKeeps,
       InspectMarkersKeeps, UnsetMarkerKeeps, UndoAdoptionKeeps DEF AdoptStep
  <1>2. CASE ReleaseStep
    BY <1>2, CheckReleaseKeeps, IntendReleaseKeeps, DropWindowKeeps DEF ReleaseStep
  <1>3. CASE DeleteStep
    BY <1>3, RiskKeeps, WithdrawKeeps, MarkSpaceKeeps, ReleaseNextKeeps, ConfirmSpaceKeeps,
       RemoveFileKeeps, DropSpaceKeeps DEF DeleteStep
  <1>4. CASE TerminalStep
    BY <1>4, KillKeeps, DropTerminalKeeps DEF TerminalStep
  <1>5. CASE FileStep
    BY <1>5, CreateFileKeeps, CommitFileKeeps, UndoFileKeeps, DropFileKeeps DEF FileStep
  <1>6. CASE CleanupStep
    BY <1>6, ReconcileWindowKeeps, ReconcileFileKeeps, SaveReconciledKeeps, SweepKeeps DEF CleanupStep
  <1> QED BY <1>1, <1>2, <1>3, <1>4, <1>5, <1>6 DEF Step

(* Every step of the system keeps the invariant.                            *)
LEMMA NextKeeps == IInv /\ [Next]_vars => IInv'
  <1> SUFFICES ASSUME IInv, [Next]_vars PROVE IInv'
    OBVIOUS
  <1>1. CASE Step
    BY <1>1, StepKeeps
  <1>2. CASE Request
    <2>1. ASSUME NEW i \in Instances, NEW s \in Sessions, BeginAdopt(i, s) \/ BeginRelease(i, s)
          PROVE  IInv'
      BY <2>1, RequestKeeps
    <2>2. ASSUME NEW i \in Instances, NEW force \in BOOLEAN, BeginDelete(i, force) PROVE IInv'
      BY <2>2, RequestKeeps
    <2>3. ASSUME NEW i \in Instances, Open(i) \/ OpenFails(i) \/ BeginClose(i) \/ BeginCleanup(i)
          PROVE  IInv'
      BY <2>3, RequestKeeps, TerminalKeeps
    <2>4. ASSUME NEW f \in Files, NEW t \in Targets, Upload(f, t) PROVE IInv'
      BY <2>4, UploadKeeps
    <2> QED BY <1>2, <2>1, <2>2, <2>3, <2>4 DEF Request
  <1>3. CASE CallFails \/ Killed
    BY <1>3, FailedCallKeeps
  <1>4. ASSUME NEW s \in Sessions, Use(s) PROVE IInv'
    BY <1>4, UseKeeps
  <1>5. ASSUME NEW f \in Files, Age(f) PROVE IInv'
    BY <1>5, AgeKeeps
  <1>6. CASE UNCHANGED vars
    BY <1>6 DEF vars, registry, tmux, IInv, TypeOK, OpBase, OpStage, Settled, At, Me, This, Untouched,
       Held, GoneIsUnmarked, OwnMarkersAreRecorded, FilesAreRecorded, Exists
  <1> QED BY <1>1, <1>2, <1>3, <1>4, <1>5, <1>6 DEF Next

-----------------------------------------------------------------------------
(* The results.                                                             *)

(* What the operations rely on at each stage holds throughout.              *)
THEOREM Inductive == Spec => []IInv
  <1>1. Init => IInv
    BY InitHolds
  <1>2. IInv /\ [Next]_vars => IInv'
    BY NextKeeps
  <1> QED BY <1>1, <1>2, PTL DEF Spec

(* No session is marked and forgotten: what carries a marker of an instance *)
(* has a record there.                                                      *)
THEOREM NoMarkerForgotten == Spec => []OwnMarkersAreRecorded
  <1>1. IInv => OwnMarkersAreRecorded
    BY DEF IInv
  <1> QED BY <1>1, Inductive, PTL

(* No attachment's file is left without its record.                         *)
THEOREM NoFileForgotten == Spec => []FilesAreRecorded
  <1>1. IInv => FilesAreRecorded
    BY DEF IInv
  <1> QED BY <1>1, Inductive, PTL

(* Only a session whose markers are ours or none is marked or cleared.      *)
LEMMA MarksStep ==
  ASSUME IInv, [Next]_vars, NEW s \in Sessions, NEW k \in Markers,
         marks[s][k] \notin {None, Me}, session'[s] # "absent"
  PROVE  marks'[s][k] = marks[s][k]
  <1>1. CASE UNCHANGED marks
    BY <1>1
  <1>2. CASE SetMarker
    <2>1. op.keys # {} /\ This \in Sessions /\ Me \in Instances /\ TypeOK
          /\ \A j \in Markers : marks[This][j] \in {Me, None}
      BY <1>2 DEF SetMarker, IInv, OpBase, OpStage, At, SessionStages
    <2>2. s # This
      BY <2>1
    <2> QED BY <1>2, <2>1, <2>2, MarkFacts DEF SetMarker
  <1>3. CASE UnsetMarker /\ Exists(This)
    <2>1. op.keys # {} /\ This \in Sessions /\ Me \in Instances /\ TypeOK
          /\ \A j \in Markers : marks[This][j] \in {Me, None}
      BY <1>3 DEF UnsetMarker, IInv, OpBase, OpStage, At, SessionStages
    <2>2. s # This
      BY <2>1
    <2> QED BY <1>3, <2>1, <2>2, MarkFacts DEF UnsetMarker
  <1>4. ASSUME NEW r \in Sessions, Use(r) PROVE marks'[s][k] = marks[s][k]
    <2>1. CASE session'[r] = "absent"
      <3>1. s # r
        BY <2>1
      <3>2. marks' = [marks EXCEPT ![r] = [j \in Markers |-> None]]
        BY <1>4, <2>1 DEF Use
      <3> QED BY <3>1, <3>2 DEF IInv, TypeOK
    <2>2. CASE session'[r] # "absent"
      BY <1>4, <2>2 DEF Use
    <2> QED BY <2>1, <2>2
  <1>5. UNCHANGED marks \/ SetMarker \/ (UnsetMarker /\ Exists(This)) \/ \E r \in Sessions : Use(r)
    <2>1. CASE AdoptStep
      BY <2>1 DEF AdoptStep, RecordAdoption, Verify, AdoptedIsGone, CommitAdoption, InspectMarkers,
         UnsetMarker, UndoAdoption, tmux
    <2>2. CASE ReleaseStep
      BY <2>2 DEF ReleaseStep, CheckRelease, IntendRelease, DropWindow, Refused, tmux
    <2>3. CASE DeleteStep
      BY <2>3 DEF DeleteStep, Risk, Withdraw, MarkSpace, ReleaseNext, ConfirmSpace, RemoveFile,
         DropSpace, Refused, tmux
    <2>4. CASE TerminalStep
      BY <2>4 DEF TerminalStep, Kill, DropTerminal, tmux
    <2>5. CASE FileStep
      BY <2>5 DEF FileStep, CreateFile, CommitFile, UndoFile, DropFile, tmux
    <2>6. CASE CleanupStep
      BY <2>6 DEF CleanupStep, ReconcileWindow, ReconcileFile, SaveReconciled, SweepWindow,
         SweepTerminal, SweepSpace, SweepFile, Swept, tmux
    <2>7. CASE Request
      BY <2>7 DEF Request, BeginAdopt, BeginRelease, BeginDelete, Open, OpenFails, BeginClose,
         BeginCleanup, Upload, tmux
    <2>8. CASE CallFails \/ Killed \/ UNCHANGED vars \/ (\E f \in Files : Age(f))
      BY <2>8 DEF CallFails, Killed, vars, Age, tmux
    <2> QED BY <2>1, <2>2, <2>3, <2>4, <2>5, <2>6, <2>7, <2>8 DEF Next, Step
  <1> QED BY <1>1, <1>2, <1>3, <1>4, <1>5

(* An instance never sets or unsets a marker of another.                    *)
THEOREM MarkersOfOthersHold == Spec => ForeignMarkersHold
  <1>1. IInv /\ [Next]_vars =>
          [\A s \in Sessions, k \in Markers :
             marks[s][k] \notin {None, Me} /\ session'[s] # "absent" => marks'[s][k] = marks[s][k]]_vars
    BY MarksStep
  <1> QED BY <1>1, Inductive, PTL DEF Spec, ForeignMarkersHold

(* A file goes with its workspace or terminal, by age or with its upload.   *)
LEMMA DiskStep ==
  ASSUME IInv, [Next]_vars, NEW f \in disk \ disk', file[f].at = "ready"
  PROVE  Holder(f, file[f].of) = "deletePending" \/ (op.req = "upload" /\ op.file = f)
  <1>1. CASE disk \subseteq disk'
    BY <1>1
  <1>2. CASE RemoveFile
    <2>1. CASE op.deleting
      <3>1. f \in Held(Me, "space")
        BY <1>2, <2>1 DEF RemoveFile
      <3>2. space[Me] = "deletePending"
        BY <1>2, <2>1 DEF RemoveFile, IInv, OpBase, At
      <3> QED BY <3>1, <3>2 DEF Held, Holder
    <2>2. CASE ~op.deleting
      <3>1. f \in Held(Me, "terminal")
        BY <1>2, <2>2 DEF RemoveFile
      <3>2. terminal[Me] = "deletePending"
        BY <1>2, <2>2 DEF RemoveFile, IInv, OpStage, At
      <3> QED BY <3>1, <3>2 DEF Held, Holder
    <2> QED BY <2>1, <2>2
  <1>3. CASE UndoFile
    BY <1>3 DEF UndoFile, IInv, OpStage, At
  <1>4. ASSUME NEW g \in Files, ReconcileFile(g)
        PROVE  FALSE
    <2>1. file[g].at # "ready"
      BY <1>4 DEF ReconcileFile, IInv, OpBase, Settled
    <2>2. f = g
      BY <1>4 DEF ReconcileFile
    <2> QED BY <2>1, <2>2
  <1>5. disk \subseteq disk' \/ RemoveFile \/ UndoFile \/ \E g \in Files : ReconcileFile(g)
    <2>1. CASE AdoptStep
      BY <2>1 DEF AdoptStep, RecordAdoption, SetMarker, Verify, AdoptedIsGone, CommitAdoption,
         InspectMarkers, UnsetMarker, UndoAdoption
    <2>2. CASE ReleaseStep
      BY <2>2 DEF ReleaseStep, CheckRelease, IntendRelease, DropWindow, Refused
    <2>3. CASE DeleteStep
      BY <2>3 DEF DeleteStep, Risk, Withdraw, MarkSpace, ReleaseNext, ConfirmSpace, DropSpace, Refused
    <2>4. CASE TerminalStep
      BY <2>4 DEF TerminalStep, Kill, DropTerminal
    <2>5. CASE FileStep
      BY <2>5 DEF FileStep, CreateFile, CommitFile, DropFile
    <2>6. CASE CleanupStep
      BY <2>6 DEF CleanupStep, ReconcileWindow, SaveReconciled, SweepWindow,
         SweepTerminal, SweepSpace, SweepFile, Swept
    <2>7. CASE Request
      BY <2>7 DEF Request, BeginAdopt, BeginRelease, BeginDelete, Open, OpenFails, BeginClose,
         BeginCleanup, Upload
    <2>8. CASE CallFails \/ Killed \/ UNCHANGED vars \/ (\E g \in Files : Age(g))
              \/ (\E s \in Sessions : Use(s))
      BY <2>8 DEF CallFails, Killed, vars, Age, Use
    <2> QED BY <2>1, <2>2, <2>3, <2>4, <2>5, <2>6, <2>7, <2>8 DEF Next, Step
  <1> QED BY <1>1, <1>2, <1>3, <1>4, <1>5

(* A finished attachment loses its file by age, with its target or with its *)
(* own upload.                                                              *)
THEOREM FinishedFilesStay == Spec => AttachmentsKept
  <1>1. IInv /\ [Next]_vars =>
          [\A f \in disk \ disk' : file[f].at = "ready" =>
             Holder(f, file[f].of) = "deletePending" \/ (op.req = "upload" /\ op.file = f)]_vars
    BY DiskStep
  <1> QED BY <1>1, Inductive, PTL DEF Spec, AttachmentsKept
=============================================================================
