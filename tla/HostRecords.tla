---------------------------- MODULE HostRecords ----------------------------
(***************************************************************************)
(* What the editor host owns without having made it, and the files it      *)
(* keeps for it (internal/editor/host_service.go): the tmux sessions it    *)
(* adopts from the standard tmux server, the preserved workspace that      *)
(* holds them, and the attachments of that workspace and of the terminal   *)
(* of its project.                                                         *)
(*                                                                         *)
(* Several editor instances of one home share the tmux server.  Each has a *)
(* registry of its own; one lifecycle lock, that of the home, lets one     *)
(* operation run at a time.  An operation is a sequence of steps: a write  *)
(* of the registry, a call to tmux, the change of a file.  Between two of  *)
(* them the host may be killed, and each may fail, before or after its     *)
(* effect, while the people who use the sessions go on.                    *)
(*                                                                         *)
(* An instance adopts a session only while nobody's markers are on it and  *)
(* has one record of it at a time, so a marker is named by the instance    *)
(* whose identifier, window or workspace it holds.                         *)
(***************************************************************************)
EXTENDS Naturals, FiniteSets

CONSTANTS
  Instances,  \* editor instances of one home, each with one project
  Sessions,   \* stable identifiers of the sessions of the standard tmux server
  Files,      \* attachments; an identity is used again once nothing holds it
  Owner,      \* the instance of each attachment
  Terminals,  \* the instances whose user opens the project's terminal
  Removers,   \* the instances whose user removes the preserved workspace
  MaxFaults,  \* bound: kills and failed calls
  None        \* nobody, nothing

ASSUME OwnerAssumption == Owner \in [Files -> Instances]
ASSUME UserAssumption == Terminals \subseteq Instances /\ Removers \subseteq Instances
ASSUME FaultAssumption == MaxFaults \in Nat
ASSUME NoneAssumption == None \notin Instances \cup Sessions \cup Files
ASSUME KindAssumption ==
  /\ Instances \cap Sessions = {} /\ Instances \cap Files = {} /\ Sessions \cap Files = {}

VARIABLES
  space,     \* registry: the preserved workspace of an instance
  window,    \* registry: the window of an adopted session
  terminal,  \* registry: the terminal of the project
  file,      \* registry: the attachments
  disk,      \* the attachments whose file exists
  session,   \* the tmux sessions
  marks,     \* their environment: MCE_INSTANCE, MCE_WINDOW, MCE_WORKSPACE
  op,        \* the operation that holds the lifecycle lock
  faults     \* faults so far

registry == <<space, window, terminal, file>>
tmux == <<session, marks>>
vars == <<registry, disk, tmux, op, faults>>

-----------------------------------------------------------------------------
(* Types.                                                                   *)

Records == {"none", "createPending", "ready", "deletePending"}

(* The preserved workspace or the project's terminal.                       *)
Targets == {"space", "terminal"}

(* "old": of more than seven days ago.                                      *)
Attachments == [at : {"none", "createPending", "ready", "old"}, of : Targets \cup {None}]
NoFile == [at |-> "none", of |-> None]

Markers == 1..3

(* "split": several windows or panes.  A plain one may be in use.           *)
Shapes == {"absent", "plain", "split"}

Requests == {"none", "adopt", "release", "delete", "upload", "close", "cleanup"}

Stages == {"idle", "record", "mark", "verify", "commit", "inspect", "clear", "undo",
           "release", "intend", "recheck", "dropWindow",
           "risk", "markSpace", "windows", "confirm", "files", "dropSpace", "withdraw",
           "create", "undoFile", "dropFile",
           "kill", "reconcile", "sweep"}

Ops == [at : Stages,
        req : Requests,
        inst : Instances \cup {None},
        session : Sessions \cup {None},
        file : Files \cup {None},
        made : BOOLEAN,        \* adopting: it made the record of the workspace;
                               \* recovering: the project's directory is there
        force : BOOLEAN,
        deleting : BOOLEAN,    \* within deleteWorkspace
        keys : SUBSET Markers, \* markers still to set or to unset
        todo : SUBSET (Sessions \cup Files \cup Instances \cup {None}), \* still to visit
        drop : SUBSET (Sessions \cup Files),  \* reconciled: to be dropped
        keep : SUBSET (Sessions \cup Files)]  \* reconciled: left pending

Idle == [at |-> "idle", req |-> "none", inst |-> None, session |-> None, file |-> None,
         made |-> FALSE, force |-> FALSE, deleting |-> FALSE,
         keys |-> {}, todo |-> {}, drop |-> {}, keep |-> {}]

TypeOK ==
  /\ space \in [Instances -> Records]
  /\ window \in [Instances -> [Sessions -> Records]]
  /\ terminal \in [Instances -> Records \ {"createPending"}]
  /\ file \in [Files -> Attachments]
  /\ disk \in SUBSET Files
  /\ session \in [Sessions -> Shapes]
  /\ marks \in [Sessions -> [Markers -> Instances \cup {None}]]
  /\ op \in Ops
  /\ faults \in 0..MaxFaults

-----------------------------------------------------------------------------
(* Control.                                                                 *)

Me == op.inst
This == op.session
At(stage) == op.at = stage
Goto(stage) == op' = [op EXCEPT !.at = stage]
Finish == op' = Idle
Recovering == op.req = "cleanup"
Start(req, i) == [Idle EXCEPT !.req = req, !.inst = i]

Fault == faults < MaxFaults /\ faults' = faults + 1

(* deleteWorkspace and deleteWindow return to the request or to cleanup.    *)
EndDelete ==
  IF Recovering THEN op' = [op EXCEPT !.at = "sweep", !.deleting = FALSE] ELSE Finish

EndWindow(ok) ==
  IF op.deleting THEN (IF ok THEN Goto("windows") ELSE EndDelete)
  ELSE IF Recovering THEN Goto("sweep") ELSE Finish

(* clearAdoptedMarkers is done: the rollback, the release and the recovery  *)
(* of an adoption go on from there.                                         *)
Cleared ==
  IF op.req = "adopt" THEN Goto("undo")
  ELSE IF window[Me][This] = "createPending"
    THEN op' = [op EXCEPT !.at = "reconcile", !.drop = @ \cup {This}]
  ELSE Goto("dropWindow")

NotCleared ==
  IF op.req = "adopt" THEN Finish
  ELSE IF window[Me][This] = "createPending"
    THEN op' = [op EXCEPT !.at = "reconcile", !.keep = @ \cup {This}]
  ELSE EndWindow(FALSE)

(* The error path of the call a stage makes.                                *)
Fail ==
  CASE op.at \in {"mark", "verify"} -> Goto("inspect")
    [] At("commit") -> Goto(IF op.req = "adopt" THEN "inspect" ELSE "undoFile")
    [] op.at \in {"inspect", "clear"} -> NotCleared
    [] op.at \in {"release", "intend", "recheck", "dropWindow", "kill"} -> EndWindow(FALSE)
    [] op.at \in {"risk", "markSpace", "confirm", "dropSpace", "withdraw"} -> EndDelete
    [] At("files") -> IF op.deleting THEN EndDelete ELSE EndWindow(FALSE)
    [] At("create") -> Goto("undoFile")
    [] At("undoFile") -> IF Recovering THEN Goto("sweep") ELSE Finish
    [] OTHER -> Finish

(* A call whose effect took place returns, or reports an error all the      *)
(* same: a deadline, a directory that is not synced.                        *)
Then(next) == (next /\ UNCHANGED faults) \/ (Fault /\ Fail)

CallFails ==
  /\ op.at \notin {"idle", "windows", "sweep"}
  /\ Fault
  /\ Fail
  /\ UNCHANGED <<registry, disk, tmux>>

(* The host is killed.  The next one finds the registry, the files and the  *)
(* markers as they are.                                                     *)
Killed ==
  /\ ~At("idle")
  /\ Fault
  /\ Finish
  /\ UNCHANGED <<registry, disk, tmux>>

-----------------------------------------------------------------------------
(* What the operations look at.                                             *)

Untouched(s) == \A k \in Markers : marks[s][k] = None

(* Mutant: a session that another instance has marked is eligible.          *)
EligibleMarked(s) == session[s] = "plain"

(* inspectTmuxCandidate: also detached, and where the project is.           *)
Eligible(s) == session[s] = "plain" /\ Untouched(s)

(* adoptedMarkerState.                                                      *)
Exists(s) == session[s] # "absent"
Compatible(i, s) == session[s] # "split" /\ \A k \in Markers : marks[s][k] \in {i, None}
Exact(i, s) == session[s] # "split" /\ \A k \in Markers : marks[s][k] = i

(* Mutant: whatever they belong to.                                         *)
HeldByAll(i, t) == {f \in Files : Owner[f] = i /\ file[f].of # None}

(* Attachments of a target, finished or not.                                *)
Held(i, t) == {f \in Files : Owner[f] = i /\ file[f].of = t}

(* validateRegistry: an attachment and an adopted window need the workspace. *)
Accepted(i) ==
  space'[i] = "none" =>
    /\ \A f \in Files : Owner[f] = i => file'[f].of # "space"
    /\ \A s \in Sessions : window'[i][s] = "none"

(* A write the registry refuses, because a record would be created and      *)
(* deleted at once.                                                         *)
Refused == Fail /\ UNCHANGED <<registry, disk, tmux, faults>>

-----------------------------------------------------------------------------
(* Adopting a session.                                                      *)

BeginAdopt(i, s) ==
  /\ At("idle")
  /\ Eligible(s)
  /\ window[i][s] = "none"
  /\ op' = [Start("adopt", i) EXCEPT !.at = "record", !.session = s, !.made = space[i] = "none"]
  /\ UNCHANGED <<registry, disk, tmux, faults>>

(* The pending window, in the workspace at the project's path or a new one. *)
RecordAdoption ==
  /\ At("record")
  /\ space' = [space EXCEPT ![Me] = IF @ = "none" THEN "createPending" ELSE @]
  /\ window' = [window EXCEPT ![Me][This] = "createPending"]
  /\ Then(op' = [op EXCEPT !.at = "mark", !.keys = Markers])
  /\ UNCHANGED <<terminal, file, disk, tmux>>

NextKey == CHOOSE k \in op.keys : \A j \in op.keys : k <= j

(* setAdoptedMarkers: one call for each marker.                             *)
SetMarker ==
  /\ At("mark")
  /\ Exists(This)
  /\ marks' = [marks EXCEPT ![This][NextKey] = Me]
  /\ Then(op' = [op EXCEPT !.keys = @ \ {NextKey}, !.at = IF op.keys = {NextKey} THEN "verify" ELSE @])
  /\ UNCHANGED <<registry, disk, session>>

(* verifyAdoptedSession, which also refuses a session that a client shows   *)
(* by now, or whose pane has moved on.                                      *)
Verify ==
  /\ At("verify")
  /\ \/ session[This] = "plain" /\ Exact(Me, This) /\ Goto("commit")
     \/ Goto("inspect")
  /\ UNCHANGED <<registry, disk, tmux, faults>>

(* The session ended before it was marked or verified.                      *)
AdoptedIsGone ==
  /\ op.at = "mark"
  /\ ~Exists(This)
  /\ Goto("inspect")
  /\ UNCHANGED <<registry, disk, tmux, faults>>

CommitAdoption ==
  /\ At("commit") /\ op.req = "adopt"
  /\ window' = [window EXCEPT ![Me][This] = "ready"]
  /\ space' = [space EXCEPT ![Me] = IF @ = "createPending" THEN "ready" ELSE @]
  /\ Then(Finish)
  /\ UNCHANGED <<terminal, file, disk, tmux>>

(* Mutant: a rollback drops its records whatever is left of its markers.    *)
InspectMarkersCareless ==
  /\ At("inspect")
  /\ IF op.req = "adopt" THEN Goto("undo") ELSE op' = [op EXCEPT !.at = "clear", !.keys = {k \in Markers : marks[This][k] # None}]
  /\ UNCHANGED <<registry, disk, tmux, faults>>

(* clearAdoptedMarkers: a marker that is not ours stops it; ours go one by  *)
(* one.                                                                     *)
InspectMarkers ==
  /\ At("inspect")
  /\ LET found == {k \in Markers : marks[This][k] # None}
     IN IF ~Exists(This) \/ found = {} THEN Cleared
        ELSE IF \E k \in found : marks[This][k] # Me THEN NotCleared
        ELSE op' = [op EXCEPT !.at = "clear", !.keys = found]
  /\ UNCHANGED <<registry, disk, tmux, faults>>

UnsetMarker ==
  /\ At("clear")
  /\ IF Exists(This)
       THEN /\ marks' = [marks EXCEPT ![This][NextKey] = None]
            /\ Then(IF op.keys = {NextKey} THEN Cleared ELSE op' = [op EXCEPT !.keys = @ \ {NextKey}])
       ELSE NotCleared /\ UNCHANGED <<marks, faults>>
  /\ UNCHANGED <<registry, disk, session>>

(* rollbackAdoption: the records this adoption made.                        *)
UndoAdoption ==
  /\ At("undo")
  /\ window' = [window EXCEPT ![Me][This] = "none"]
  /\ space' = [space EXCEPT ![Me] = IF op.made THEN "none" ELSE @]
  /\ Then(Finish)
  /\ UNCHANGED <<terminal, file, disk, tmux>>

-----------------------------------------------------------------------------
(* Releasing a session: by request, with its workspace, or by a cleanup     *)
(* that finds the release unfinished.                                       *)

BeginRelease(i, s) ==
  /\ At("idle")
  /\ window[i][s] # "none"
  /\ op' = [Start("release", i) EXCEPT !.at = "release", !.session = s]
  /\ UNCHANGED <<registry, disk, tmux, faults>>

CheckRelease ==
  /\ op.at \in {"release", "recheck"}
  /\ IF Exists(This) /\ ~Compatible(Me, This) THEN EndWindow(FALSE)
     ELSE IF At("release") THEN Goto("intend")
     ELSE Goto(IF ~Exists(This) \/ Untouched(This) THEN "dropWindow" ELSE "inspect")
  /\ UNCHANGED <<registry, disk, tmux, faults>>

IntendRelease ==
  /\ At("intend")
  /\ IF window[Me][This] = "createPending" THEN Refused
     ELSE /\ window' = [window EXCEPT ![Me][This] = "deletePending"]
          /\ Then(Goto("recheck"))
          /\ UNCHANGED <<space, terminal, file, disk, tmux>>

DropWindow ==
  /\ At("dropWindow")
  /\ window' = [window EXCEPT ![Me][This] = "none"]
  /\ Then(EndWindow(TRUE))
  /\ UNCHANGED <<space, terminal, file, disk, tmux>>

-----------------------------------------------------------------------------
(* Removing the preserved workspace: its windows are released and its       *)
(* attachments removed before its record goes.                              *)

BeginDelete(i, force) ==
  /\ At("idle")
  /\ i \in Removers
  /\ space[i] # "none"
  /\ op' = [Start("delete", i) EXCEPT !.at = "risk", !.force = force, !.deleting = TRUE]
  /\ UNCHANGED <<registry, disk, tmux, faults>>

Windows(i) == {s \in Sessions : window[i][s] # "none"}

(* workspaceDeletionRisk: a session that is no longer as it was adopted is  *)
(* a reason no force overcomes.                                             *)
Risk ==
  /\ At("risk")
  /\ IF \A s \in Windows(Me) : Exists(s) => Compatible(Me, s) THEN Goto("markSpace")
     ELSE IF op.force \/ Recovering THEN EndDelete
     ELSE Goto("withdraw")
  /\ UNCHANGED <<registry, disk, tmux, faults>>

(* clearWorkspaceCascadeDeletePending.                                      *)
Withdraw ==
  /\ At("withdraw")
  /\ space' = [space EXCEPT ![Me] = IF @ = "deletePending" THEN "ready" ELSE @]
  /\ window' = [window EXCEPT ![Me] =
       [s \in Sessions |-> IF @[s] = "deletePending" THEN "ready" ELSE @[s]]]
  /\ Then(EndDelete)
  /\ UNCHANGED <<terminal, file, disk, tmux>>

MarkSpace ==
  /\ At("markSpace")
  /\ IF space[Me] = "createPending" THEN Refused
     ELSE /\ space' = [space EXCEPT ![Me] = "deletePending"]
          /\ Then(Goto("windows"))
          /\ UNCHANGED <<window, terminal, file, disk, tmux>>

ReleaseNext ==
  /\ At("windows")
  /\ IF Windows(Me) = {} THEN Goto("confirm")
     ELSE \E s \in Windows(Me) : op' = [op EXCEPT !.at = "release", !.session = s]
  /\ UNCHANGED <<registry, disk, tmux, faults>>

(* Mutant: the record of the workspace goes before its files.               *)
ConfirmSpaceOnly ==
  /\ At("confirm")
  /\ Then(Goto("dropSpace"))
  /\ UNCHANGED <<registry, disk, tmux>>

ConfirmSpace ==
  /\ At("confirm")
  /\ Then(Goto("files"))
  /\ UNCHANGED <<registry, disk, tmux>>

(* removeOwnedAttachment, for each attachment of what is deleted.           *)
RemoveFile ==
  /\ At("files")
  /\ LET left == Held(Me, IF op.deleting THEN "space" ELSE "terminal") \cap disk
     IN IF left = {} THEN Goto("dropSpace") /\ UNCHANGED <<disk, faults>>
        ELSE \E f \in left : disk' = disk \ {f} /\ Then(Goto("files"))
  /\ UNCHANGED <<registry, tmux>>

Without(held) == [f \in Files |-> IF f \in held THEN NoFile ELSE file[f]]

DropSpace ==
  /\ At("dropSpace") /\ op.deleting
  /\ space' = [space EXCEPT ![Me] = "none"]
  /\ file' = Without(Held(Me, "space"))
  /\ Then(EndDelete)
  /\ UNCHANGED <<window, terminal, disk, tmux>>

-----------------------------------------------------------------------------
(* The terminal of the project.  WindowLifecycle models its creation and    *)
(* its session; here a creation has been recovered or has not happened.     *)

Open(i) ==
  /\ At("idle")
  /\ i \in Terminals
  /\ terminal' = [terminal EXCEPT ![i] = IF @ = "none" THEN "ready" ELSE @]
  /\ UNCHANGED <<space, window, file, disk, tmux, op, faults>>

(* Opening a terminal again fails: rollbackWindowCreation drops its lasting *)
(* record, unless the registry holds attachments for it.                    *)
OpenFails(i) ==
  /\ At("idle")
  /\ terminal[i] # "none"
  /\ terminal' = [terminal EXCEPT ![i] = "none"]
  /\ Held(i, "terminal") = {}
  /\ Fault
  /\ UNCHANGED <<space, window, file, disk, tmux, op>>

(* deleteWindow of the project's terminal.  A live process and no force     *)
(* ends it before its intent is written.                                    *)
BeginClose(i) ==
  /\ At("idle")
  /\ terminal[i] # "none"
  /\ op' = [Start("close", i) EXCEPT !.at = "kill"]
  /\ UNCHANGED <<registry, disk, tmux, faults>>

Kill ==
  /\ At("kill")
  /\ terminal' = [terminal EXCEPT ![Me] = "deletePending"]
  /\ Then(Goto("files"))
  /\ UNCHANGED <<space, window, file, disk, tmux>>

DropTerminal ==
  /\ At("dropSpace") /\ ~op.deleting
  /\ terminal' = [terminal EXCEPT ![Me] = "none"]
  /\ file' = Without(Held(Me, "terminal"))
  /\ Then(EndWindow(TRUE))
  /\ UNCHANGED <<space, window, disk, tmux>>

-----------------------------------------------------------------------------
(* Attachments.                                                             *)

Holder(f, t) == IF t = "space" THEN space[Owner[f]] ELSE terminal[Owner[f]]

(* Mutant: an attachment is accepted whatever happens to its target.        *)
UploadAny(f, t) ==
  /\ At("idle")
  /\ file[f] = NoFile /\ f \notin disk
  /\ Holder(f, t) # "none"
  /\ file' = [file EXCEPT ![f] = [at |-> "createPending", of |-> t]]
  /\ Then(op' = [Start("upload", Owner[f]) EXCEPT !.at = "create", !.file = f])
  /\ UNCHANGED <<space, window, terminal, disk, tmux>>

(* putAttachment: the target is there and settled.                          *)
Upload(f, t) ==
  /\ At("idle")
  /\ file[f] = NoFile /\ f \notin disk
  /\ Holder(f, t) = "ready"
  /\ file' = [file EXCEPT ![f] = [at |-> "createPending", of |-> t]]
  /\ Then(op' = [Start("upload", Owner[f]) EXCEPT !.at = "create", !.file = f])
  /\ UNCHANGED <<space, window, terminal, disk, tmux>>

CreateFile ==
  /\ At("create")
  /\ disk' = disk \cup {op.file}
  /\ Then(Goto("commit"))
  /\ UNCHANGED <<registry, tmux>>

CommitFile ==
  /\ At("commit") /\ op.req = "upload"
  /\ file' = [file EXCEPT ![op.file].at = "ready"]
  /\ Then(Finish)
  /\ UNCHANGED <<space, window, terminal, disk, tmux>>

(* rollbackAttachmentCreation and the expiry of cleanup: the file, then its *)
(* record.                                                                  *)
UndoFile ==
  /\ At("undoFile")
  /\ disk' = disk \ {op.file}
  /\ Then(Goto("dropFile"))
  /\ UNCHANGED <<registry, tmux>>

DropFile ==
  /\ At("dropFile")
  /\ file' = [file EXCEPT ![op.file] = NoFile]
  /\ Then(IF Recovering THEN Goto("sweep") ELSE Finish)
  /\ UNCHANGED <<space, window, terminal, disk, tmux>>

-----------------------------------------------------------------------------
(* Cleanup, at the start of the editor and every hour: it reconciles what   *)
(* was being created, then takes up what was being deleted and what is old. *)

Pending(i) == {s \in Sessions : window[i][s] = "createPending"}
PendingFiles(i) == {f \in Files : Owner[f] = i /\ file[f].at = "createPending"}

(* A window waits for its workspace, which waits for its directory.         *)
BeginCleanup(i) ==
  /\ At("idle")
  /\ \E there \in BOOLEAN :
       /\ IF there THEN UNCHANGED faults ELSE Fault
       /\ op' = [Start("cleanup", i) EXCEPT !.at = "reconcile", !.made = there,
            !.todo = PendingFiles(i) \cup
              (IF space[i] = "ready" \/ (space[i] = "createPending" /\ there) THEN Pending(i) ELSE {})]
  /\ UNCHANGED <<registry, disk, tmux>>

Visited(x) == [op EXCEPT !.todo = @ \ {x}]

(* A pending adoption with none of its markers is dropped, with some it is  *)
(* rolled back, with all it is completed; any other marker leaves it alone. *)
ReconcileWindow(s) ==
  /\ At("reconcile")
  /\ s \in op.todo
  /\ \/ /\ op' = IF ~Exists(s) \/ (session[s] # "split" /\ Untouched(s))
                  THEN [Visited(s) EXCEPT !.drop = @ \cup {s}]
                ELSE IF Exact(Me, s) THEN Visited(s)
                ELSE IF Compatible(Me, s) THEN [Visited(s) EXCEPT !.at = "inspect", !.session = s]
                ELSE [Visited(s) EXCEPT !.keep = @ \cup {s}]
        /\ UNCHANGED faults
     \/ Fault /\ op' = [Visited(s) EXCEPT !.keep = @ \cup {s}]
  /\ UNCHANGED <<registry, disk, tmux>>

ReconcileFile(f) ==
  /\ At("reconcile")
  /\ f \in op.todo
  /\ \/ disk' = disk \ {f} /\ op' = [Visited(f) EXCEPT !.drop = @ \cup {f}] /\ UNCHANGED faults
     \/ disk' \in {disk, disk \ {f}} /\ Fault /\ op' = [Visited(f) EXCEPT !.keep = @ \cup {f}]
  /\ UNCHANGED <<registry, tmux>>

(* The one write of the recovery; without windows the preserved workspace   *)
(* goes too.  Then the records to sweep are read.                           *)
SaveReconciled ==
  /\ At("reconcile")
  /\ op.todo = {}
  /\ LET settled == space[Me] = "ready" \/ (space[Me] = "createPending" /\ op.made)
         left == [s \in Sessions |->
                    IF window[Me][s] # "createPending" \/ ~settled \/ s \in op.keep THEN window[Me][s]
                    ELSE IF s \in op.drop THEN "none" ELSE "ready"]
     IN /\ window' = [window EXCEPT ![Me] = left]
        /\ space' = [space EXCEPT ![Me] =
             IF @ = "createPending" /\ op.made
             THEN IF \E s \in Sessions : left[s] # "none" THEN "ready" ELSE "none"
             ELSE @]
  /\ file' = [f \in Files |-> IF f \in op.drop THEN NoFile ELSE file[f]]
  /\ Accepted(Me)
  /\ Then(op' = [Start("cleanup", Me) EXCEPT !.at = "sweep",
       !.todo = {s \in Sessions : window'[Me][s] = "deletePending"}
                \cup (IF terminal[Me] = "none" THEN {} ELSE {None})
                \cup (IF space'[Me] = "deletePending" THEN {Me} ELSE {})
                \cup {f \in Files : Owner[f] = Me /\ file'[f].at = "old"}])
  /\ UNCHANGED <<terminal, disk, tmux>>

(* Adopted windows are only released when that was asked for.               *)
SweepWindow(s) ==
  /\ At("sweep")
  /\ s \in op.todo
  /\ op' = [Visited(s) EXCEPT !.at = "release", !.session = s]
  /\ UNCHANGED <<registry, disk, tmux, faults>>

(* An old terminal whose process has ended goes as well.                    *)
SweepTerminal ==
  /\ At("sweep")
  /\ None \in op.todo
  /\ \/ terminal[Me] # "deletePending" /\ op' = Visited(None)
     \/ op' = [Visited(None) EXCEPT !.at = "kill"]
  /\ UNCHANGED <<registry, disk, tmux, faults>>

SweepSpace ==
  /\ At("sweep")
  /\ op.todo \cap (Sessions \cup {None}) = {}
  /\ Me \in op.todo
  /\ op' = [Visited(Me) EXCEPT !.at = "risk", !.deleting = TRUE]
  /\ UNCHANGED <<registry, disk, tmux, faults>>

SweepFile(f) ==
  /\ At("sweep")
  /\ op.todo \subseteq Files
  /\ f \in op.todo
  /\ op' = IF file[f].at = "old" THEN [Visited(f) EXCEPT !.at = "undoFile", !.file = f] ELSE Visited(f)
  /\ UNCHANGED <<registry, disk, tmux, faults>>

Swept ==
  /\ At("sweep")
  /\ op.todo = {}
  /\ Finish
  /\ UNCHANGED <<registry, disk, tmux, faults>>

-----------------------------------------------------------------------------
(* The people at the sessions, and time.                                    *)

(* A session ends and its markers with it; the next tmux server may give    *)
(* its identifier to another.                                               *)
Use(s) ==
  /\ session' \in {[session EXCEPT ![s] = shape] : shape \in
       IF session[s] = "plain" THEN Shapes \ {"plain"} ELSE {"plain"}}
  /\ marks' = IF session'[s] = "absent" THEN [marks EXCEPT ![s] = [k \in Markers |-> None]] ELSE marks
  /\ UNCHANGED <<registry, disk, op, faults>>

Age(f) ==
  /\ file[f].at = "ready"
  /\ file' = [file EXCEPT ![f].at = "old"]
  /\ UNCHANGED <<space, window, terminal, disk, tmux, op, faults>>

-----------------------------------------------------------------------------
Init ==
  /\ space = [i \in Instances |-> "none"]
  /\ window = [i \in Instances |-> [s \in Sessions |-> "none"]]
  /\ terminal = [i \in Instances |-> "none"]
  /\ file = [f \in Files |-> NoFile]
  /\ disk = {}
  /\ session = [s \in Sessions |-> "absent"]
  /\ marks = [s \in Sessions |-> [k \in Markers |-> None]]
  /\ op = Idle
  /\ faults = 0

AdoptStep ==
  RecordAdoption \/ SetMarker \/ Verify \/ AdoptedIsGone \/ CommitAdoption
  \/ InspectMarkers \/ UnsetMarker \/ UndoAdoption

ReleaseStep == CheckRelease \/ IntendRelease \/ DropWindow

DeleteStep ==
  Risk \/ Withdraw \/ MarkSpace \/ ReleaseNext \/ ConfirmSpace \/ RemoveFile \/ DropSpace

TerminalStep == Kill \/ DropTerminal

FileStep == CreateFile \/ CommitFile \/ UndoFile \/ DropFile

CleanupStep ==
  \/ \E s \in Sessions : ReconcileWindow(s) \/ SweepWindow(s)
  \/ \E f \in Files : ReconcileFile(f) \/ SweepFile(f)
  \/ SaveReconciled \/ SweepTerminal \/ SweepSpace \/ Swept

Step == AdoptStep \/ ReleaseStep \/ DeleteStep \/ TerminalStep \/ FileStep \/ CleanupStep

Request ==
  \/ \E i \in Instances, s \in Sessions : BeginAdopt(i, s) \/ BeginRelease(i, s)
  \/ \E i \in Instances, force \in BOOLEAN : BeginDelete(i, force)
  \/ \E i \in Instances : Open(i) \/ OpenFails(i) \/ BeginClose(i) \/ BeginCleanup(i)
  \/ \E f \in Files, t \in Targets : Upload(f, t)

Next ==
  \/ Step \/ Request \/ CallFails \/ Killed
  \/ \E s \in Sessions : Use(s)
  \/ \E f \in Files : Age(f)

Spec == Init /\ [][Next]_vars

(* The steps of an operation are bounded by its deadlines; the editor runs  *)
(* a cleanup every hour, and a lock it does not get is tried again.         *)
LiveSpec == Spec /\ WF_vars(Step) /\ \A i \in Instances : SF_vars(BeginCleanup(i))

-----------------------------------------------------------------------------
(* Properties.                                                              *)

(* What carries a marker of an instance has a record there, whatever was    *)
(* killed, failed or rolled back: no session is marked and forgotten        *)
(* (adoptTmuxSession, rollbackAdoption, releaseAdoptedWindow).              *)
OwnMarkersAreRecorded ==
  \A s \in Sessions, k \in Markers : marks[s][k] # None => window[marks[s][k]][s] # "none"

(* An instance never sets or unsets a marker of another: clearAdoptedMarkers*)
(* and adoptedMarkerState look first, and the lifecycle lock of the home    *)
(* keeps what they saw.                                                     *)
ForeignMarkersHold ==
  [][\A s \in Sessions, k \in Markers :
       marks[s][k] \notin {None, Me} /\ session'[s] # "absent" => marks'[s][k] = marks[s][k]]_vars

(* No file is left without its record: not after an upload that died, not   *)
(* after the removal of the workspace or terminal it belongs to             *)
(* (putAttachment, rollbackAttachmentCreation, deleteWorkspace).            *)
FilesAreRecorded == \A f \in disk : file[f] # NoFile

(* A finished attachment loses its file only by age, by the deletion of its *)
(* target or by the failure of its own upload.                              *)
AttachmentsKept ==
  [][\A f \in disk \ disk' : file[f].at = "ready" =>
       Holder(f, file[f].of) = "deletePending" \/ (op.req = "upload" /\ op.file = f)]_vars

(* Nobody but the user keeps it from being settled: the session was split   *)
(* or is marked by another, or the removal of its workspace is unfinished.  *)
Blocked(i, s) ==
  \/ ~Compatible(i, s)
  \/ space[i] = "deletePending" /\ window[i][s] = "createPending"

(* Interrupted adoptions, releases and uploads are settled by a later       *)
(* cleanup (reconcilePendingCreates, cleanup).                              *)
RecordsSettle ==
  /\ \A i \in Instances, s \in Sessions :
       []<>(window[i][s] \notin {"createPending", "deletePending"} \/ Blocked(i, s))
  /\ \A f \in Files : []<>(file[f].at # "createPending")
=============================================================================
