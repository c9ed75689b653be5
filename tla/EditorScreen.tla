----------------------------- MODULE EditorScreen -----------------------------
(***************************************************************************)
(* The screen of the editor (internal/editor/tui.go): one event loop, the  *)
(* commands it starts and the answers they send back, the terminal that is *)
(* attached (internal/editor/terminal.go), the window that waits for its   *)
(* turn, the dialogs, and the way out.                                     *)
(*                                                                         *)
(* A handler of the event loop is one step.  A command is a goroutine: it  *)
(* is asked for, does its work on the host at some moment, and its answer  *)
(* is handled at another, in any order with the others.  What is left out  *)
(* is what no other part of the state depends on: the focus, the           *)
(* highlighted row, names, messages, and of the geometry all but whether   *)
(* the layout fits on the screen.                                          *)
(***************************************************************************)
EXTENDS Naturals, FiniteSets

CONSTANTS
  Windows,    \* windows of one host; an identifier is never used again
  Alive,      \* those that run when the editor starts
  Terminals,  \* attached processes; an identity is used again after its end
  Requests,   \* the kinds of things the user asks for
  MaxAsked,   \* bound: how often, the hourly cleanup included
  MaxFaults,  \* bound: failed calls, lost connections, shells that start again
  None        \* nobody, nothing

ASSUME RequestAssumption == Requests \subseteq {"open", "create", "delete", "file", "form", "other"}
ASSUME AliveAssumption == Alive \subseteq Windows
ASSUME BoundAssumption == MaxAsked \in Nat /\ MaxFaults \in Nat
ASSUME NoneAssumption == None \notin Windows \cup Terminals

VARIABLES
  host,      \* the windows, as their host has them
  shown,     \* statuses: the windows, as the screen has them
  offline,   \* statuses: the host was not reached
  refresh, cleanup, removal, action, attach,  \* the commands, one of each kind
  attached,  \* the terminal on the screen
  queued,    \* the window to attach after the one under way
  terminal,  \* the attached processes
  saved,     \* the selected window in the client state
  tried,     \* exitRemovalTried
  pending,   \* pendingPastes
  dialog,    \* the dialog over the screen
  fits,      \* the layout fits on the screen
  stage,     \* of the program
  wanted,    \* history: the window last asked for, and whether by moving back to it
  failed,    \* history: the windows whose removal was tried and failed
  asked, faults

truth == <<host, terminal>>
commands == <<refresh, cleanup, removal, action, attach>>
view == <<shown, offline, attached, queued, saved, tried, pending, dialog, fits>>
bounds == <<asked, faults>>
history == <<wanted, failed>>
vars == <<truth, commands, view, stage, history, bounds>>

-----------------------------------------------------------------------------
(* Types.                                                                   *)

(* "new": not yet created.  An exited shell keeps its window.               *)
Lives == {"new", "live", "exited", "gone"}
Seen == {"none", "live", "exited"}

WindowOrNone == Windows \cup {None}

(* "answered": the goroutine has ended and the loop has not had its answer. *)
Progress == {"idle", "asked", "answered"}

Refreshes == [at : Progress, result : {"none", "ok", "busy", "error"}, view : [Windows -> Seen]]
Removals == [at : Progress, window : WindowOrNone, result : {"none", "ok", "risk", "refused", "failed"}]
Attaches == [at : Progress, window : WindowOrNone, got : Terminals \cup {None}]

Actions ==
  [at : Progress,
   kind : {"none", "create", "delete", "file", "other"},
   window : WindowOrNone,
   force : BOOLEAN,
   form : BOOLEAN,       \* asked for by a form, which comes back on failure
   result : {"none", "ok", "risk", "refused", "failed", "choices"}]

Dialogs ==
  [kind : {"none", "form", "confirm", "choices"},
   action : {"none", "create", "delete", "file", "other"},
   window : WindowOrNone,
   force : BOOLEAN]

Processes == [state : {"free", "open", "ended"}, window : WindowOrNone]

Unseen == [w \in Windows |-> "none"]
NoRefresh == [at |-> "idle", result |-> "none", view |-> Unseen]
NoRemoval == [at |-> "idle", window |-> None, result |-> "none"]
NoAttach == [at |-> "idle", window |-> None, got |-> None]
NoAction == [at |-> "idle", kind |-> "none", window |-> None,
             force |-> FALSE, form |-> FALSE, result |-> "none"]
NoDialog == [kind |-> "none", action |-> "none", window |-> None, force |-> FALSE]
Free == [state |-> "free", window |-> None]
Nothing == [window |-> None, back |-> FALSE]

TypeOK ==
  /\ host \in [Windows -> Lives]
  /\ shown \in [Windows -> Seen]
  /\ offline \in BOOLEAN
  /\ refresh \in Refreshes
  /\ cleanup \in {"idle", "asked"}
  /\ removal \in Removals
  /\ action \in Actions
  /\ attach \in Attaches
  /\ attached \in Terminals \cup {None}
  /\ queued \in WindowOrNone
  /\ terminal \in [Terminals -> Processes]
  /\ saved \in WindowOrNone
  /\ failed \subseteq Windows
  /\ tried \subseteq Windows
  /\ pending \subseteq Windows
  /\ dialog \in Dialogs
  /\ fits \in BOOLEAN
  /\ stage \in {"running", "stopped", "waiting", "closed"}
  /\ wanted \in [window : WindowOrNone, back : BOOLEAN]
  /\ asked \in 0..MaxAsked
  /\ faults \in 0..MaxFaults

-----------------------------------------------------------------------------
(* Helpers.                                                                 *)

Running == stage = "running"
Fault == faults < MaxFaults /\ faults' = faults + 1
Asked == asked < MaxAsked /\ asked' = asked + 1 /\ UNCHANGED faults

AttachedTo == IF attached = None THEN None ELSE terminal[attached].window
Attaching == attach.at # "idle"

(* A command the workers no longer track is not run; the loop has ended     *)
(* before they stop.                                                        *)
StartRefresh ==
  IF refresh.at = "idle" THEN refresh' = [NoRefresh EXCEPT !.at = "asked"] ELSE UNCHANGED refresh

(* One attach runs at a time; the latest of the others waits.               *)
RequestAttach(w) ==
  /\ wanted' = [window |-> w, back |-> FALSE]
  /\ IF Attaching
       THEN queued' = w /\ UNCHANGED attach
       ELSE attach' = [NoAttach EXCEPT !.at = "asked", !.window = w] /\ UNCHANGED queued

(* The text for a window goes to its own terminal, unless its input is full.*)
Flushed(w, texts) == IF w # None /\ w = AttachedTo THEN {texts, texts \ {w}} ELSE {texts}

(* The window is known to be deleted: its terminal is closed.               *)
Forget(w) ==
  IF attached # None /\ w = AttachedTo
    THEN /\ terminal' = [terminal EXCEPT ![attached] = Free]
         /\ attached' = None
         /\ wanted' = IF Attaching THEN wanted ELSE Nothing
    ELSE UNCHANGED <<terminal, attached, wanted>>

-----------------------------------------------------------------------------
(* Refreshing.                                                              *)

(* The host is asked; a busy connection or a dead one is no news of it.     *)
RefreshRuns ==
  /\ refresh.at = "asked"
  /\ \/ /\ refresh' = [at |-> "answered", result |-> "ok",
                       view |-> [w \in Windows |-> IF host[w] \in {"live", "exited"} THEN host[w] ELSE "none"]]
        /\ UNCHANGED faults
     \/ /\ Fault
        /\ \E r \in {"busy", "error"} : refresh' = [NoRefresh EXCEPT !.at = "answered", !.result = r]
  /\ UNCHANGED <<truth, cleanup, removal, action, attach, view, stage, history, asked>>

(* A host that was busy or not reached keeps the windows it had.            *)
Merged == IF refresh.result = "ok" THEN refresh.view ELSE shown
MergedOffline == refresh.result = "error" \/ (refresh.result = "busy" /\ offline)

(* A window that is gone or runs again, or whose host is lost, may be tried *)
(* again.                                                                   *)
StillTried == IF MergedOffline THEN {} ELSE {w \in tried : Merged[w] = "exited"}

Removable == IF MergedOffline THEN {} ELSE {w \in Windows \ StillTried : Merged[w] = "exited"}

(* Mutant: the window counts as tried before it is known to be free.        *)
StartRemovalLate ==
  IF Removable # {}
    THEN \E w \in Removable :
           /\ tried' = StillTried \cup {w}
           /\ removal' = IF removal.at = "idle" /\ action.at = "idle" /\ cleanup = "idle"
                           THEN [NoRemoval EXCEPT !.at = "asked", !.window = w] ELSE removal
    ELSE UNCHANGED removal /\ tried' = StillTried

(* startExitedWindowRemoval: one at a time, never beside an action or a     *)
(* cleanup.                                                                 *)
StartRemoval ==
  IF removal.at = "idle" /\ action.at = "idle" /\ cleanup = "idle" /\ Removable # {}
    THEN \E w \in Removable :
           /\ removal' = [NoRemoval EXCEPT !.at = "asked", !.window = w]
           /\ tried' = StillTried \cup {w}
    ELSE UNCHANGED removal /\ tried' = StillTried

LiveShown == {w \in Windows : Merged[w] = "live"}

(* The selected window if it runs, or else another that does.               *)
Preferred == IF saved \in LiveShown THEN {saved} ELSE LiveShown

(* Mutant: nothing is attached but what the user asks for.                  *)
AttachPreferredNever == UNCHANGED <<attach, queued, wanted>>

(* Nothing is attached to a screen that is too small for it.                *)
AttachPreferred ==
  IF fits /\ attached = None /\ ~Attaching /\ Preferred # {}
    THEN \E w \in Preferred : RequestAttach(w)
    ELSE UNCHANGED <<attach, queued, wanted>>

RefreshAnswered ==
  /\ Running /\ refresh.at = "answered"
  /\ refresh' = NoRefresh
  /\ shown' = Merged
  /\ offline' = MergedOffline
  /\ pending' \in Flushed(AttachedTo, pending)
  /\ StartRemoval
  /\ AttachPreferred
  /\ UNCHANGED <<failed, truth, cleanup, action, attached, saved, dialog, fits, stage, bounds>>

RefreshTick ==
  /\ Running /\ refresh.at = "idle"
  /\ StartRefresh
  /\ UNCHANGED <<truth, cleanup, removal, action, attach, view, stage, history, bounds>>

-----------------------------------------------------------------------------
(* Deletions.                                                               *)

(* What a host does with a request to delete a window.  A live one is not   *)
(* deleted without force; an answer may be lost.  The client forgets a      *)
(* deleted window as its selection.                                         *)
Deletes(w, force, result) ==
  \/ /\ result = "failed" /\ Fault
     /\ host' \in {host, [host EXCEPT ![w] = "gone"]}
     /\ UNCHANGED saved
  \/ /\ UNCHANGED faults
     /\ CASE host[w] = "gone" -> result = "refused" /\ UNCHANGED <<host, saved>>
          [] host[w] = "live" /\ ~force -> result = "risk" /\ UNCHANGED <<host, saved>>
          [] OTHER -> /\ result = "ok"
                      /\ host' = [host EXCEPT ![w] = "gone"]
                      /\ saved' = IF saved = w THEN None ELSE saved

RemovalRuns ==
  /\ removal.at = "asked"
  /\ \E r \in {"ok", "risk", "refused", "failed"} :
       /\ Deletes(removal.window, FALSE, r)
       /\ removal' = [removal EXCEPT !.at = "answered", !.result = r]
       /\ failed' = IF r = "failed" THEN failed \cup {removal.window} ELSE failed
  /\ UNCHANGED <<terminal, refresh, cleanup, action, attach, shown, offline, attached, queued,
                 tried, pending, dialog, fits, stage, wanted, asked>>

(* A window that came back to life may be tried again when it exits.        *)
RemovalAnswered ==
  /\ Running /\ removal.at = "answered"
  /\ removal' = NoRemoval
  /\ IF removal.result \in {"ok", "refused"}
       THEN Forget(removal.window) ELSE UNCHANGED <<terminal, attached, wanted>>
  /\ tried' = IF removal.result = "risk" THEN tried \ {removal.window} ELSE tried
  /\ StartRefresh
  /\ UNCHANGED <<failed, host, cleanup, action, attach, shown, offline, queued, saved, pending, dialog, fits, stage, bounds>>

(* The hourly cleanup removes exited windows of more than seven days.       *)
CleanupTick ==
  /\ Running /\ cleanup = "idle" /\ Asked
  /\ cleanup' = "asked"
  /\ UNCHANGED <<truth, refresh, removal, action, attach, view, stage, history>>

(* Its answer says nothing the screen goes by.                              *)
CleanupRuns ==
  /\ cleanup = "asked"
  /\ cleanup' = "idle"
  /\ host' \in {host, [w \in Windows |-> IF host[w] = "exited" THEN "gone" ELSE host[w]]}
  /\ IF Running THEN StartRefresh ELSE UNCHANGED refresh
  /\ UNCHANGED <<terminal, removal, action, attach, view, stage, history, bounds>>

-----------------------------------------------------------------------------
(* Attaching.                                                               *)

(* The host confirms the window, then a process attaches to its session.    *)
AttachRuns ==
  /\ attach.at = "asked"
  /\ \/ /\ stage \in {"running", "stopped"}
        /\ host[attach.window] \in {"live", "exited"}
        /\ \E a \in Terminals :
             /\ terminal[a] = Free
             /\ terminal' = [terminal EXCEPT ![a] = [state |-> "open", window |-> attach.window]]
             /\ attach' = [attach EXCEPT !.at = "answered", !.got = a]
        /\ UNCHANGED faults
     \/ /\ Fault \/ (UNCHANGED faults /\ (host[attach.window] = "gone" \/ stage = "waiting"))
        /\ attach' = [attach EXCEPT !.at = "answered"]
        /\ UNCHANGED terminal
  /\ UNCHANGED <<host, refresh, cleanup, removal, action, view, stage, history, asked>>

(* Mutant: what was opened is dropped.                                      *)
AttachOvertakenOpen ==
  /\ queued # None
  /\ queued' = None
  /\ attach' = IF queued = AttachedTo THEN NoAttach ELSE [NoAttach EXCEPT !.at = "asked", !.window = queued]
  /\ UNCHANGED <<refresh, terminal, attached, saved, pending, wanted>>

(* Another window was asked for meanwhile: what was opened is closed.       *)
AttachOvertaken ==
  /\ queued # None
  /\ terminal' = IF attach.got = None THEN terminal ELSE [terminal EXCEPT ![attach.got] = Free]
  /\ queued' = None
  /\ attach' = IF queued = AttachedTo THEN NoAttach ELSE [NoAttach EXCEPT !.at = "asked", !.window = queued]
  /\ UNCHANGED <<refresh, attached, saved, pending, wanted>>

AttachFailed ==
  /\ queued = None /\ attach.got = None
  /\ attach' = NoAttach
  /\ wanted' = Nothing
  /\ UNCHANGED <<refresh, terminal, attached, queued, saved, pending>>

(* The new terminal replaces the one before and becomes the selection.      *)
AttachInstalled ==
  LET a == attach.got
      w == terminal[a].window
  IN /\ queued = None /\ a # None
     /\ terminal' = IF attached = None THEN terminal ELSE [terminal EXCEPT ![attached] = Free]
     /\ attached' = a
     /\ attach' = NoAttach
     /\ saved' = w
     /\ pending' \in {pending, pending \ {w}}
     /\ UNCHANGED <<refresh, queued, wanted>>

AttachAnswered ==
  /\ Running /\ attach.at = "answered"
  /\ AttachOvertaken \/ AttachFailed \/ AttachInstalled
  /\ UNCHANGED <<failed, host, cleanup, removal, action, shown, offline, tried, dialog, fits, stage, bounds>>

(* The process ends with its session or its connection.                     *)
TerminalEnds(a) ==
  /\ terminal[a].state = "open"
  /\ \/ host[terminal[a].window] = "gone" /\ UNCHANGED faults
     \/ Fault
  /\ terminal' = [terminal EXCEPT ![a].state = "ended"]
  /\ UNCHANGED <<host, commands, view, stage, history, asked>>

(* The end of a terminal that is no longer on the screen changes nothing.   *)
TerminalDone ==
  /\ Running /\ attached # None /\ terminal[attached].state = "ended"
  /\ terminal' = [terminal EXCEPT ![attached] = Free]
  /\ attached' = None
  /\ wanted' = IF Attaching THEN wanted ELSE Nothing
  /\ StartRefresh
  /\ UNCHANGED <<failed, host, cleanup, removal, action, attach, shown, offline, queued, saved, tried, pending,
                 dialog, fits, stage, bounds>>

(* Output arrived: a text that waits is tried again.                        *)
TerminalUpdates ==
  /\ Running /\ AttachedTo \in pending
  /\ pending' \in Flushed(AttachedTo, pending)
  /\ UNCHANGED <<truth, commands, shown, offline, attached, queued, saved, tried, dialog, fits, stage, history, bounds>>

-----------------------------------------------------------------------------
(* What the user does with the windows.                                     *)

(* Mutant: the window on the screen needs no attach.                        *)
SelectAttached(w) ==
  /\ shown[w] = "live" \/ (offline /\ shown[w] # "none")
  /\ Asked
  /\ IF w \in {AttachedTo, attach.window}
       THEN /\ queued' = IF w = attach.window THEN None ELSE queued
            /\ wanted' = [window |-> w, back |-> FALSE]
            /\ UNCHANGED attach
       ELSE RequestAttach(w)
  /\ UNCHANGED <<failed, truth, refresh, cleanup, removal, action, shown, offline, attached, saved, tried, pending,
                 dialog, fits, stage, faults>>

(* selectCurrentRow: a row is opened by Enter, a click or its number; one   *)
(* that has stopped is not.  Choosing the window that is on the screen or   *)
(* on the way takes back the later choice.                                  *)
Select(w) ==
  /\ shown[w] = "live" \/ (offline /\ shown[w] # "none")
  /\ Asked
  /\ CASE w = AttachedTo -> /\ queued' = IF Attaching THEN w ELSE queued
                            /\ wanted' = [window |-> w, back |-> FALSE]
                            /\ UNCHANGED attach
       [] w # AttachedTo /\ w = attach.window -> /\ queued' = None
                                                 /\ wanted' = [window |-> w, back |-> FALSE]
                                                 /\ UNCHANGED attach
       [] OTHER -> RequestAttach(w)
  /\ UNCHANGED <<failed, truth, refresh, cleanup, removal, action, shown, offline, attached, saved, tried, pending,
                 dialog, fits, stage, faults>>

(* openSelectedWindowFromSidebar: moving along the list opens windows too,  *)
(* but moving back to the one on the screen asks for nothing.               *)
Move(w) ==
  /\ shown[w] # "none"
  /\ Asked
  /\ IF w = AttachedTo
       THEN wanted' = [window |-> w, back |-> TRUE] /\ UNCHANGED <<attach, queued>>
       ELSE RequestAttach(w)
  /\ UNCHANGED <<failed, truth, refresh, cleanup, removal, action, shown, offline, attached, saved, tried, pending,
                 dialog, fits, stage, faults>>

-----------------------------------------------------------------------------
(* Actions: one at a time.                                                  *)

Idle == action.at = "idle"

Begin(kind, w, force, form) ==
  /\ Idle
  /\ action' = [NoAction EXCEPT !.at = "asked", !.kind = kind, !.window = w, !.force = force, !.form = form]

AnswerAction(r, w) ==
  action' = [action EXCEPT !.at = "answered", !.result = r, !.window = w]

(* A window is created, or the project's terminal or an adopted session is  *)
(* opened.                                                                  *)
CreateRuns ==
  /\ action.at = "asked" /\ action.kind = "create"
  /\ \/ /\ UNCHANGED faults
        /\ \E w \in Windows :
             /\ host[w] \in {"new", "live"}
             /\ host' = [host EXCEPT ![w] = "live"]
             /\ AnswerAction("ok", w)
     \/ /\ Fault \/ (UNCHANGED faults /\ \A w \in Windows : host[w] \notin {"new", "live"})
        /\ host' \in {host} \cup {[host EXCEPT ![w] = "live"] : w \in {v \in Windows : host[v] = "new"}}
        /\ AnswerAction("failed", None)
  /\ UNCHANGED <<terminal, refresh, cleanup, removal, attach, view, stage, history, asked>>

DeleteRuns ==
  /\ action.at = "asked" /\ action.kind = "delete"
  /\ \E r \in {"ok", "risk", "refused", "failed"} :
       Deletes(action.window, action.force, r) /\ AnswerAction(r, action.window)
  /\ UNCHANGED <<terminal, refresh, cleanup, removal, attach, shown, offline, attached, queued,
                 tried, pending, dialog, fits, stage, history, asked>>

(* A file or an image is copied to the host; or anything that only reports. *)
OtherRuns ==
  /\ action.at = "asked" /\ action.kind \in {"file", "other"}
  /\ \/ /\ UNCHANGED faults
        /\ \E r \in IF action.kind = "file" THEN {"ok"} ELSE {"ok", "choices"} : AnswerAction(r, action.window)
     \/ Fault /\ AnswerAction("failed", action.window)
  /\ UNCHANGED <<truth, refresh, cleanup, removal, attach, view, stage, history, asked>>

-----------------------------------------------------------------------------
(* Their answers: handleActionResult.                                       *)

(* A form comes back with what was typed, over whatever is open.            *)
ActionFailed ==
  /\ action.result = "failed"
  /\ dialog' = IF action.form
                 THEN [NoDialog EXCEPT !.kind = "form", !.action = action.kind, !.window = action.window]
                 ELSE dialog
  /\ StartRefresh
  /\ UNCHANGED <<terminal, attached, attach, queued, wanted, pending>>

ActionCreated ==
  /\ action.result = "ok" /\ action.kind = "create"
  /\ RequestAttach(action.window)
  /\ StartRefresh
  /\ UNCHANGED <<terminal, attached, pending, dialog>>

ActionDeleted ==
  /\ action.result = "ok" /\ action.kind = "delete"
  /\ Forget(action.window)
  /\ StartRefresh
  /\ UNCHANGED <<attach, queued, pending, dialog>>

(* The host saw a risk: a second dialog asks for force.                     *)
ActionRisky ==
  /\ action.result = "risk"
  /\ dialog' = [kind |-> "confirm", action |-> "delete", window |-> action.window, force |-> TRUE]
  /\ UNCHANGED <<terminal, attached, refresh, attach, queued, wanted, pending>>

ActionUploaded ==
  /\ action.result = "ok" /\ action.kind = "file"
  /\ pending' \in Flushed(action.window, pending \cup {action.window})
  /\ StartRefresh
  /\ UNCHANGED <<terminal, attached, attach, queued, wanted, dialog>>

ActionReported ==
  /\ action.result = "refused" \/ (action.kind = "other" /\ action.result \in {"ok", "choices"})
  /\ IF action.result = "choices"
       THEN dialog' = [NoDialog EXCEPT !.kind = "choices"] /\ UNCHANGED refresh
       ELSE StartRefresh /\ UNCHANGED dialog
  /\ UNCHANGED <<terminal, attached, attach, queued, wanted, pending>>

ActionAnswered ==
  /\ Running /\ action.at = "answered"
  /\ action' = NoAction
  /\ \/ ActionFailed \/ ActionCreated \/ ActionDeleted
     \/ ActionRisky \/ ActionUploaded \/ ActionReported
  /\ UNCHANGED <<failed, host, cleanup, removal, shown, offline, saved, tried, fits, stage, bounds>>

-----------------------------------------------------------------------------
(* Menus, forms and confirmations.                                          *)

Untouched ==
  /\ UNCHANGED <<truth, refresh, cleanup, removal, attach, shown, offline, attached, queued, saved, tried,
                 pending, fits, stage, history>>

Show(d) == Asked /\ dialog' = d /\ UNCHANGED action /\ Untouched

(* New terminal in a workspace, the project's terminal, or another query.   *)
Ask(kind) == Asked /\ Begin(kind, None, FALSE, FALSE) /\ dialog' = NoDialog /\ Untouched

AskDelete(w) ==
  /\ shown[w] # "none" /\ ~offline
  /\ Show([kind |-> "confirm", action |-> "delete", window |-> w, force |-> FALSE])

(* A file is attached to the window on the screen; one text may wait.       *)
AskFile ==
  /\ AttachedTo # None /\ shown[AttachedTo] # "none" /\ AttachedTo \notin pending
  /\ Show([kind |-> "form", action |-> "file", window |-> AttachedTo, force |-> FALSE])

AskImage ==
  /\ AttachedTo # None /\ shown[AttachedTo] # "none" /\ AttachedTo \notin pending
  /\ Asked /\ Begin("file", AttachedTo, FALSE, FALSE)
  /\ dialog' = NoDialog
  /\ Untouched

AskForm == Show([NoDialog EXCEPT !.kind = "form", !.action = "create"])

Cancel == dialog' = NoDialog /\ UNCHANGED <<action, bounds>> /\ Untouched

Submit ==
  /\ dialog.kind = "form"
  /\ Begin(dialog.action, dialog.window, FALSE, TRUE)
  /\ dialog' = NoDialog
  /\ UNCHANGED bounds /\ Untouched

Confirm ==
  /\ dialog.kind = "confirm"
  /\ Begin("delete", dialog.window, dialog.force, FALSE)
  /\ dialog' = NoDialog
  /\ UNCHANGED bounds /\ Untouched

(* A session to adopt is chosen.                                            *)
Choose ==
  /\ dialog.kind = "choices"
  /\ Begin("create", None, FALSE, FALSE)
  /\ dialog' = NoDialog
  /\ UNCHANGED bounds /\ Untouched

-----------------------------------------------------------------------------
(* The way out: the terminal on the screen is closed, no new command is     *)
(* tracked, the manager closes, and the commands under way are waited for.  *)

(* A command that has ended is not heard; what the screen had is no more.   *)
Unheard(command, none) == IF command.at = "answered" THEN none ELSE command

Quit ==
  /\ Running
  /\ stage' = "stopped"
  /\ terminal' = IF attached = None THEN terminal ELSE [terminal EXCEPT ![attached] = Free]
  /\ refresh' = Unheard(refresh, NoRefresh)
  /\ removal' = Unheard(removal, NoRemoval)
  /\ action' = Unheard(action, NoAction)
  /\ attach' = Unheard(attach, NoAttach)
  /\ shown' = Unseen /\ offline' = FALSE
  /\ attached' = None /\ queued' = None /\ saved' = None
  /\ tried' = {} /\ pending' = {}
  /\ dialog' = NoDialog /\ fits' = FALSE
  /\ wanted' = Nothing /\ failed' = {}
  /\ UNCHANGED <<host, cleanup, bounds>>

(* Its context ends every call.                                             *)
ManagerCloses ==
  /\ stage = "stopped"
  /\ stage' = "waiting"
  /\ UNCHANGED <<truth, commands, view, history, bounds>>

(* What was opened for a loop that has ended is closed by the context.      *)
ContextCloses(a) ==
  /\ stage \in {"waiting", "closed"}
  /\ terminal[a].state \in {"open", "ended"}
  /\ terminal' = [terminal EXCEPT ![a] = Free]
  /\ UNCHANGED <<host, commands, view, stage, history, bounds>>

Working ==
  \/ refresh.at = "asked" \/ removal.at = "asked" \/ action.at = "asked"
  \/ attach.at = "asked" \/ cleanup = "asked"

WorkersDone ==
  /\ stage = "waiting" /\ ~Working
  /\ stage' = "closed"
  /\ UNCHANGED <<truth, commands, view, history, bounds>>

-----------------------------------------------------------------------------
(* The world: the screen is resized, or its layout asks for more room;      *)
(* shells exit, and sometimes start again.                                 *)

Resize ==
  /\ Running
  /\ fits' = ~fits
  /\ UNCHANGED <<truth, commands, shown, offline, attached, queued, saved, tried, pending, dialog,
                 stage, history, bounds>>

Exit(w) ==
  /\ host[w] = "live"
  /\ host' = [host EXCEPT ![w] = "exited"]
  /\ UNCHANGED <<terminal, commands, view, stage, history, bounds>>

Respawn(w) ==
  /\ host[w] = "exited" /\ Fault
  /\ host' = [host EXCEPT ![w] = "live"]
  /\ UNCHANGED <<terminal, commands, view, stage, history, asked>>

Init ==
  /\ host = [w \in Windows |-> IF w \in Alive THEN "live" ELSE "new"]
  /\ shown = Unseen
  /\ offline = FALSE
  /\ refresh = [NoRefresh EXCEPT !.at = "asked"]
  /\ cleanup = "asked"
  /\ removal = NoRemoval
  /\ action = NoAction
  /\ attach = NoAttach
  /\ attached = None
  /\ queued = None
  /\ terminal = [a \in Terminals |-> Free]
  /\ saved \in Alive \cup {None}
  /\ tried = {} /\ pending = {}
  /\ dialog = NoDialog
  /\ fits = FALSE
  /\ stage = "running"
  /\ wanted = Nothing /\ failed = {}
  /\ asked = 0 /\ faults = 0

(* handleKey and handleMouse on the list, and the choices of the menus; the *)
(* slots and the menus are other ways to the same handlers.                 *)
Keys ==
  /\ Running /\ fits /\ dialog = NoDialog
  /\ \/ "open" \in Requests /\ \E w \in Windows : Select(w) \/ Move(w)
     \/ "delete" \in Requests /\ \E w \in Windows : AskDelete(w)
     \/ \E kind \in {"create", "other"} \cap Requests : Ask(kind)
     \/ "file" \in Requests /\ (AskFile \/ AskImage)
     \/ "form" \in Requests /\ AskForm

(* handleModalKey and handleModalMouse: a dialog has all the input.         *)
DialogKeys == Running /\ fits /\ dialog # NoDialog /\ (Cancel \/ Submit \/ Confirm \/ Choose)

Answers ==
  \/ RefreshAnswered \/ RemovalAnswered \/ AttachAnswered \/ ActionAnswered \/ TerminalDone

Commands == RefreshRuns \/ RemovalRuns \/ CleanupRuns \/ AttachRuns \/ CreateRuns \/ DeleteRuns \/ OtherRuns

Leaving == Quit \/ ManagerCloses \/ WorkersDone \/ \E a \in Terminals : ContextCloses(a)

Next ==
  \/ Keys \/ DialogKeys \/ Answers \/ Commands \/ Leaving
  \/ RefreshTick \/ CleanupTick \/ TerminalUpdates \/ Resize
  \/ \E a \in Terminals : TerminalEnds(a)
  \/ \E w \in Windows : Exit(w) \/ Respawn(w)

Spec == Init /\ [][Next]_vars

(* The loop handles what arrives, every command has a deadline, and the     *)
(* timer of the refresh runs for as long as the program.  Nothing forces    *)
(* the user.                                                                *)
LiveSpec ==
  /\ Spec
  /\ WF_vars(RefreshAnswered) /\ WF_vars(RemovalAnswered)
  /\ WF_vars(AttachAnswered) /\ WF_vars(ActionAnswered)
  /\ WF_vars(TerminalDone) /\ \A a \in Terminals : WF_vars(ContextCloses(a))
  /\ WF_vars(RefreshRuns) /\ WF_vars(RemovalRuns) /\ WF_vars(CleanupRuns)
  /\ WF_vars(AttachRuns) /\ WF_vars(CreateRuns) /\ WF_vars(DeleteRuns) /\ WF_vars(OtherRuns)
  /\ WF_vars(RefreshTick) /\ WF_vars(ManagerCloses) /\ WF_vars(WorkersDone)

-----------------------------------------------------------------------------
(* Properties.                                                              *)

(* Every process that was attached is on the screen or in an answer that    *)
(* the loop has still to handle: nothing is left open behind the screen,    *)
(* whatever was asked for, deleted or lost meanwhile, and on the way out    *)
(* the manager's context closes what nobody took.                           *)
TerminalsAccounted ==
  \A a \in Terminals :
    terminal[a].state \in {"open", "ended"} =>
      a \in {attached, attach.got} \/ stage # "running"

(* Where the screen is going: the window that waits, or else the one on its *)
(* way, or else the one it has.                                             *)
Target == IF queued # None THEN queued ELSE IF Attaching THEN attach.window ELSE AttachedTo

(* The latest request wins, whoever made it and whatever was under way      *)
(* (selectCurrentRow, requestAttach, the attach result).                    *)
LastRequestWins == wanted.window # None /\ ~wanted.back => Target = wanted.window

(* While some window runs and the layout fits, the screen finds its way to  *)
(* a terminal again, whatever ended the last one.                           *)
Reattaches ==
  []<>(stage # "running" \/ ~fits \/ attached # None \/ \A w \in Windows : host[w] # "live")

(* A window whose shell exited is removed, or its removal was tried and     *)
(* failed.                                                                  *)
ExitedAreRemoved ==
  \A w \in Windows :
    []<>(stage # "running" \/ host[w] # "exited" \/ w \in failed)
=============================================================================
