-------------------------- MODULE EditorScreenProofs --------------------------
(***************************************************************************)
(* The attached terminals and the user's last choice, for any number of    *)
(* windows, terminals, requests and faults.  Both depend on one thing: an  *)
(* attach under way is the only holder of the terminal it opened, and the  *)
(* window that waits for its turn waits for nothing else than its answer.  *)
(***************************************************************************)
EXTENDS EditorScreen, TLAPS

USE NoneAssumption, BoundAssumption, AliveAssumption

-----------------------------------------------------------------------------
(* The inductive invariant.                                                 *)

(* What is asked of a host is about a window.                               *)
Named ==
  /\ removal.at # "idle" => removal.window \in Windows
  /\ action.kind \in {"file", "delete"} \/ action.result = "risk" => action.window \in Windows
  /\ dialog.action \in {"file", "delete"} \/ dialog.kind = "confirm" => dialog.window \in Windows

(* No attach is under way, or it has opened nothing yet, or it was answered.*)
AttachOK ==
  /\ ~Attaching => attach = NoAttach
  /\ attach.at = "asked" => attach.got = None
  /\ queued # None => Attaching

(* What is on the screen and what was opened for it are two terminals, and  *)
(* the second is that of the window it was opened for.                      *)
TerminalsOK ==
  /\ attached # None => terminal[attached].state # "free"
  /\ attach.got # None =>
       /\ terminal[attach.got].state # "free" /\ attach.got # attached
       /\ terminal[attach.got].window = attach.window

Screen ==
  /\ AttachOK
  /\ IF Running THEN TerminalsOK ELSE wanted = Nothing
  /\ TerminalsAccounted /\ LastRequestWins

IInv == TypeOK /\ Named /\ Screen

-----------------------------------------------------------------------------
(* Types.                                                                   *)

(* What stands for nothing in each place has the type of the place.         *)
LEMMA NothingTyped ==
  /\ NoRefresh \in Refreshes /\ NoRemoval \in Removals /\ NoAttach \in Attaches
  /\ NoAction \in Actions /\ NoDialog \in Dialogs /\ Free \in Processes
  /\ Nothing \in [window : WindowOrNone, back : BOOLEAN]
  BY DEF NoRefresh, Unseen, Seen, Refreshes, Progress, NoRemoval, Removals, NoAttach, Attaches,
     NoAction, Actions, NoDialog, Dialogs, Free, Processes, Nothing, WindowOrNone

(* A refresh is asked for, unless one is under way.                         *)
LEMMA StartRefreshTyped ==
  ASSUME TypeOK, StartRefresh
  PROVE  refresh' \in Refreshes
  BY NothingTyped DEF TypeOK, StartRefresh, Refreshes, Progress

(* A request is a window on its way or one that waits.                      *)
LEMMA RequestTyped ==
  ASSUME TypeOK, NEW w \in WindowOrNone, RequestAttach(w)
  PROVE  /\ attach' \in Attaches /\ queued' \in WindowOrNone
         /\ wanted' \in [window : WindowOrNone, back : BOOLEAN]
  BY NothingTyped DEF TypeOK, RequestAttach, Attaches, Progress

(* A deleted window leaves the screen.                                      *)
LEMMA ForgetTyped ==
  ASSUME TypeOK, NEW w, Forget(w)
  PROVE  /\ terminal' \in [Terminals -> Processes] /\ attached' \in Terminals \cup {None}
         /\ wanted' \in [window : WindowOrNone, back : BOOLEAN]
  BY NothingTyped DEF TypeOK, Forget

(* The texts that wait are for windows, sent or not.                        *)
LEMMA FlushedTyped ==
  ASSUME NEW w, NEW texts \in SUBSET Windows, NEW left \in Flushed(w, texts)
  PROVE  left \in SUBSET Windows
  BY DEF Flushed

(* The windows, the selection and the bound after a deletion on the host.   *)
LEMMA DeletesTyped ==
  ASSUME TypeOK, NEW w, NEW force \in BOOLEAN, NEW r, Deletes(w, force, r)
  PROVE  /\ host' \in [Windows -> Lives] /\ saved' \in WindowOrNone /\ faults' \in 0..MaxFaults
  <1>1. host' \in {host, [host EXCEPT ![w] = "gone"]}
    BY DEF Deletes
  <1>2. saved' \in {saved, None}
    BY DEF Deletes
  <1>3. UNCHANGED faults \/ Fault
    BY DEF Deletes
  <1> QED BY <1>1, <1>2, <1>3 DEF TypeOK, Lives, WindowOrNone, Fault

(* The commands do their work.                                              *)
LEMMA CommandsTyped ==
  ASSUME TypeOK, Named, Commands
  PROVE  TypeOK'
  <1>1. CASE RefreshRuns
    <2>1. refresh' \in Refreshes
      <3>1. CASE refresh' = [at |-> "answered", result |-> "ok",
               view |-> [w \in Windows |-> IF host[w] \in {"live", "exited"} THEN host[w] ELSE "none"]]
        BY <3>1 DEF Refreshes, Progress, Seen
      <3>2. ASSUME NEW r \in {"busy", "error"},
                   refresh' = [NoRefresh EXCEPT !.at = "answered", !.result = r]
            PROVE  refresh' \in Refreshes
        BY <3>2, NothingTyped DEF Refreshes, Progress
      <3> QED BY <1>1, <3>1, <3>2 DEF RefreshRuns
    <2>2. faults' \in 0..MaxFaults
      BY <1>1 DEF RefreshRuns, Fault, TypeOK
    <2> QED BY <1>1, <2>1, <2>2 DEF TypeOK, RefreshRuns, truth, view, history
  <1>2. CASE RemovalRuns
    <2>1. PICK r \in {"ok", "risk", "refused", "failed"} :
            /\ Deletes(removal.window, FALSE, r)
            /\ removal' = [removal EXCEPT !.at = "answered", !.result = r]
            /\ failed' = IF r = "failed" THEN failed \cup {removal.window} ELSE failed
      BY <1>2 DEF RemovalRuns
    <2>2. removal' \in Removals
      BY <2>1 DEF TypeOK, Removals, Progress
    <2>3. host' \in [Windows -> Lives] /\ saved' \in WindowOrNone /\ faults' \in 0..MaxFaults
      BY <2>1, DeletesTyped
    <2>4. failed' \subseteq Windows
      BY <1>2, <2>1 DEF TypeOK, Named, RemovalRuns
    <2> QED BY <1>2, <2>2, <2>3, <2>4 DEF TypeOK, RemovalRuns
  <1>3. CASE CleanupRuns
    <2>1. host' \in [Windows -> Lives]
      BY <1>3 DEF CleanupRuns, TypeOK, Lives
    <2>2. refresh' \in Refreshes
      BY <1>3, StartRefreshTyped DEF CleanupRuns, TypeOK
    <2> QED BY <1>3, <2>1, <2>2 DEF TypeOK, CleanupRuns, view, history, bounds
  <1>4. CASE AttachRuns
    <2>1. attach' \in Attaches
      BY <1>4 DEF AttachRuns, TypeOK, Attaches, Progress
    <2>2. terminal' \in [Terminals -> Processes]
      <3>1. [state |-> "open", window |-> attach.window] \in Processes
        BY DEF TypeOK, Attaches, Processes
      <3> QED BY <1>4, <3>1 DEF AttachRuns, TypeOK
    <2>3. faults' \in 0..MaxFaults
      <3>1. UNCHANGED faults \/ Fault
        BY <1>4 DEF AttachRuns
      <3> QED BY <3>1 DEF TypeOK, Fault
    <2> QED BY <1>4, <2>1, <2>2, <2>3 DEF TypeOK, AttachRuns, view, history
  <1>5. CASE CreateRuns
    <2>1. host' \in [Windows -> Lives]
      BY <1>5 DEF CreateRuns, TypeOK, Lives
    <2>2. action' \in Actions
      <3>1. \E r \in {"ok", "failed"}, w \in WindowOrNone : AnswerAction(r, w)
        BY <1>5 DEF CreateRuns, WindowOrNone
      <3> QED BY <3>1 DEF AnswerAction, TypeOK, Actions, Progress
    <2>3. faults' \in 0..MaxFaults
      BY <1>5 DEF CreateRuns, TypeOK, Fault
    <2> QED BY <1>5, <2>1, <2>2, <2>3 DEF TypeOK, CreateRuns, view, history
  <1>6. CASE DeleteRuns
    <2>1. PICK r \in {"ok", "risk", "refused", "failed"} :
            Deletes(action.window, action.force, r) /\ AnswerAction(r, action.window)
      BY <1>6 DEF DeleteRuns
    <2>2. action' \in Actions
      BY <2>1 DEF AnswerAction, TypeOK, Actions, Progress
    <2>3. host' \in [Windows -> Lives] /\ saved' \in WindowOrNone /\ faults' \in 0..MaxFaults
      BY <2>1, DeletesTyped DEF TypeOK, Actions
    <2> QED BY <1>6, <2>2, <2>3 DEF TypeOK, DeleteRuns, history
  <1>7. CASE OtherRuns
    <2>1. action' \in Actions
      <3>1. \E r \in {"ok", "choices", "failed"} : AnswerAction(r, action.window)
        BY <1>7 DEF OtherRuns
      <3> QED BY <3>1 DEF AnswerAction, TypeOK, Actions, Progress
    <2>2. faults' \in 0..MaxFaults
      BY <1>7 DEF OtherRuns, TypeOK, Fault
    <2> QED BY <1>7, <2>1, <2>2 DEF TypeOK, OtherRuns, truth, view, history
  <1> QED BY <1>1, <1>2, <1>3, <1>4, <1>5, <1>6, <1>7 DEF Commands

(* The loop handles an answer.                                              *)
LEMMA AnswersTyped ==
  ASSUME TypeOK, Named, Answers
  PROVE  TypeOK'
  <1>1. CASE RefreshAnswered
    <2>1. shown' \in [Windows -> Seen] /\ offline' \in BOOLEAN
      BY <1>1 DEF RefreshAnswered, Merged, MergedOffline, TypeOK, Refreshes
    <2>2. pending' \subseteq Windows
      BY <1>1, FlushedTyped DEF RefreshAnswered, TypeOK
    <2>3. StillTried \subseteq Windows /\ Removable \subseteq Windows
      BY DEF StillTried, Removable, TypeOK
    <2>4. removal' \in Removals /\ tried' \subseteq Windows
      <3>1. CASE UNCHANGED removal /\ tried' = StillTried
        BY <2>3, <3>1 DEF TypeOK
      <3>2. ASSUME NEW w \in Removable, removal' = [NoRemoval EXCEPT !.at = "asked", !.window = w],
                   tried' = StillTried \cup {w}
            PROVE  removal' \in Removals /\ tried' \subseteq Windows
        BY <2>3, <3>2, NothingTyped DEF Removals, Progress, WindowOrNone
      <3> QED BY <1>1, <3>1, <3>2 DEF RefreshAnswered, StartRemoval
    <2>5. /\ attach' \in Attaches /\ queued' \in WindowOrNone
          /\ wanted' \in [window : WindowOrNone, back : BOOLEAN]
      <3>1. CASE UNCHANGED <<attach, queued, wanted>>
        BY <3>1 DEF TypeOK
      <3>2. ASSUME NEW w \in Preferred, RequestAttach(w)
            PROVE  /\ attach' \in Attaches /\ queued' \in WindowOrNone
                   /\ wanted' \in [window : WindowOrNone, back : BOOLEAN]
        BY <3>2, RequestTyped DEF Preferred, LiveShown, TypeOK, WindowOrNone
      <3> QED BY <1>1, <3>1, <3>2 DEF RefreshAnswered, AttachPreferred
    <2>6. refresh' \in Refreshes
      BY <1>1, NothingTyped DEF RefreshAnswered
    <2> QED BY <1>1, <2>1, <2>2, <2>4, <2>5, <2>6 DEF TypeOK, RefreshAnswered, truth, bounds
  <1>2. CASE RemovalAnswered
    <2>1. removal' \in Removals /\ refresh' \in Refreshes
      BY <1>2, NothingTyped, StartRefreshTyped DEF RemovalAnswered
    <2>2. /\ terminal' \in [Terminals -> Processes] /\ attached' \in Terminals \cup {None}
          /\ wanted' \in [window : WindowOrNone, back : BOOLEAN]
      BY <1>2, ForgetTyped DEF RemovalAnswered, TypeOK
    <2>3. tried' \subseteq Windows
      BY <1>2 DEF RemovalAnswered, TypeOK
    <2> QED BY <1>2, <2>1, <2>2, <2>3 DEF TypeOK, RemovalAnswered, bounds
  <1>3. CASE AttachAnswered
    <2>1. /\ attach' \in Attaches /\ queued' \in WindowOrNone
      BY <1>3, NothingTyped DEF AttachAnswered, AttachOvertaken, AttachFailed, AttachInstalled, TypeOK,
         Attaches, Progress, WindowOrNone
    <2>2. terminal' \in [Terminals -> Processes] /\ attached' \in Terminals \cup {None}
      BY <1>3, NothingTyped DEF AttachAnswered, AttachOvertaken, AttachFailed, AttachInstalled, TypeOK,
         Attaches
    <2>3. saved' \in WindowOrNone
      BY <1>3 DEF AttachAnswered, AttachOvertaken, AttachFailed, AttachInstalled, TypeOK, Attaches,
         Processes
    <2>4. pending' \subseteq Windows /\ wanted' \in [window : WindowOrNone, back : BOOLEAN]
          /\ UNCHANGED refresh
      BY <1>3, NothingTyped DEF AttachAnswered, AttachOvertaken, AttachFailed, AttachInstalled, TypeOK
    <2> QED BY <1>3, <2>1, <2>2, <2>3, <2>4 DEF TypeOK, AttachAnswered, bounds
  <1>4. CASE ActionAnswered
    <2>1. action' \in Actions /\ action.window \in WindowOrNone
          /\ action.kind \in {"none", "create", "delete", "file", "other"}
      BY <1>4, NothingTyped DEF ActionAnswered, TypeOK, Actions
    <2>2. /\ UNCHANGED <<failed, host, cleanup, removal, shown, offline, saved, tried, fits, stage, bounds>>
          /\ ActionFailed \/ ActionCreated \/ ActionDeleted
             \/ ActionRisky \/ ActionUploaded \/ ActionReported
      BY <1>4 DEF ActionAnswered
    <2>3. refresh' \in Refreshes
      BY <2>2, StartRefreshTyped DEF ActionFailed, ActionCreated, ActionDeleted, ActionRisky,
         ActionUploaded, ActionReported, TypeOK
    <2>4. dialog' \in Dialogs
      <3> DEFINE f == [NoDialog EXCEPT !.kind = "form", !.action = action.kind, !.window = action.window]
                 c == [kind |-> "confirm", action |-> "delete", window |-> action.window, force |-> TRUE]
                 n == [NoDialog EXCEPT !.kind = "choices"]
      <3>1. f \in Dialogs /\ c \in Dialogs /\ n \in Dialogs
        BY <2>1, NothingTyped DEF Dialogs
      <3>2. dialog' \in {dialog, f, c, n}
        BY <2>2 DEF ActionFailed, ActionCreated, ActionDeleted, ActionRisky, ActionUploaded,
           ActionReported
      <3> QED BY <3>1, <3>2 DEF TypeOK
    <2>5. pending' \subseteq Windows
      <3>1. CASE ActionUploaded
        <4>1. action.window \in Windows
          BY <3>1 DEF ActionUploaded, Named
        <4>2. pending \cup {action.window} \in SUBSET Windows
          BY <4>1 DEF TypeOK
        <4> QED BY <3>1, <4>2, FlushedTyped DEF ActionUploaded
      <3>2. CASE UNCHANGED pending
        BY <3>2 DEF TypeOK
      <3> QED BY <2>2, <3>1, <3>2 DEF ActionFailed, ActionCreated, ActionDeleted, ActionRisky,
              ActionReported
    <2>6. /\ terminal' \in [Terminals -> Processes] /\ attached' \in Terminals \cup {None}
          /\ attach' \in Attaches /\ queued' \in WindowOrNone
          /\ wanted' \in [window : WindowOrNone, back : BOOLEAN]
      <3>1. CASE ActionCreated
        BY <2>1, <3>1, RequestTyped DEF ActionCreated, TypeOK
      <3>2. CASE ActionDeleted
        BY <3>2, ForgetTyped DEF ActionDeleted, TypeOK
      <3>3. CASE UNCHANGED <<terminal, attached, attach, queued, wanted>>
        BY <3>3 DEF TypeOK
      <3> QED BY <2>2, <3>1, <3>2, <3>3 DEF ActionFailed, ActionRisky, ActionUploaded, ActionReported
    <2> QED BY <2>1, <2>2, <2>3, <2>4, <2>5, <2>6 DEF TypeOK, bounds
  <1>5. CASE TerminalDone
    <2>1. terminal' \in [Terminals -> Processes] /\ refresh' \in Refreshes
          /\ wanted' \in [window : WindowOrNone, back : BOOLEAN]
      BY <1>5, NothingTyped, StartRefreshTyped DEF TerminalDone, TypeOK
    <2> QED BY <1>5, <2>1 DEF TypeOK, TerminalDone, bounds
  <1> QED BY <1>1, <1>2, <1>3, <1>4, <1>5 DEF Answers

(* The user.                                                                *)
LEMMA KeysTyped ==
  ASSUME TypeOK, Named, Keys \/ DialogKeys
  PROVE  TypeOK' /\ Named'
  <1> DEFINE Asking == asked' \in 0..MaxAsked /\ faults' \in 0..MaxFaults
  <1>1. ASSUME NEW w \in Windows, Select(w) \/ Move(w)
        PROVE  TypeOK' /\ Named'
    <2>1. /\ attach' \in Attaches /\ queued' \in WindowOrNone
          /\ wanted' \in [window : WindowOrNone, back : BOOLEAN]
      <3>1. w \in WindowOrNone /\ None \in WindowOrNone
        BY DEF WindowOrNone
      <3>2. CASE RequestAttach(w)
        BY <3>1, <3>2, RequestTyped
      <3>3. CASE /\ UNCHANGED attach /\ queued' \in {queued, w, None}
                 /\ wanted' \in [window : WindowOrNone, back : BOOLEAN]
        BY <3>1, <3>3 DEF TypeOK
      <3>4. \/ RequestAttach(w)
            \/ /\ UNCHANGED attach /\ queued' \in {queued, w, None}
               /\ wanted' \in {[window |-> w, back |-> b] : b \in BOOLEAN}
        BY <1>1 DEF Select, Move
      <3> QED BY <3>1, <3>2, <3>3, <3>4
    <2>2. asked' \in 0..MaxAsked /\ UNCHANGED faults
      BY <1>1 DEF Select, Move, Asked, TypeOK
    <2>3. UNCHANGED <<failed, truth, refresh, cleanup, removal, action, shown, offline, attached, saved,
                      tried, pending, dialog, fits, stage>>
      BY <1>1 DEF Select, Move
    <2> QED BY <2>1, <2>2, <2>3 DEF TypeOK, Named, truth
  <1>2. ASSUME NEW d \in Dialogs, Show(d),
               d.action \in {"file", "delete"} \/ d.kind = "confirm" => d.window \in Windows
        PROVE  TypeOK' /\ Named'
    BY <1>2 DEF Show, Asked, Untouched, TypeOK, Named, truth, history
  <1>3. ASSUME NEW kind \in {"create", "delete", "file", "other", "none"}, NEW w \in WindowOrNone,
               NEW force \in BOOLEAN, NEW form \in BOOLEAN, Begin(kind, w, force, form),
               kind \in {"file", "delete"} => w \in Windows,
               Asked \/ UNCHANGED bounds, dialog' = NoDialog, Untouched
        PROVE  TypeOK' /\ Named'
    <2>1. action' \in Actions /\ action'.kind = kind /\ action'.window = w
          /\ action'.result = "none"
      BY <1>3, NothingTyped DEF Begin, Actions, Progress, NoAction
    <2>2. asked' \in 0..MaxAsked /\ faults' \in 0..MaxFaults
      BY <1>3 DEF Asked, TypeOK, bounds
    <2>3. dialog' \in Dialogs /\ dialog'.action = "none" /\ dialog'.kind = "none"
      BY <1>3, NothingTyped DEF NoDialog
    <2> QED BY <1>3, <2>1, <2>2, <2>3 DEF Untouched, TypeOK, Named, truth, history
  <1>4. ASSUME NEW w \in Windows, AskDelete(w) PROVE TypeOK' /\ Named'
    <2> DEFINE d == [kind |-> "confirm", action |-> "delete", window |-> w, force |-> FALSE]
    <2>1. d \in Dialogs /\ d.window = w
      BY DEF Dialogs, WindowOrNone
    <2> QED BY <1>2, <1>4, <2>1 DEF AskDelete
  <1>5. ASSUME NEW kind \in {"create", "other"}, Ask(kind) PROVE TypeOK' /\ Named'
    BY <1>3, <1>5 DEF Ask, WindowOrNone
  <1>6. AttachedTo \in WindowOrNone
    BY DEF AttachedTo, TypeOK, Processes, WindowOrNone
  <1>7. CASE AskFile
    <2> DEFINE d == [kind |-> "form", action |-> "file", window |-> AttachedTo, force |-> FALSE]
    <2>1. d \in Dialogs /\ d.window \in Windows
      BY <1>6, <1>7 DEF AskFile, Dialogs, WindowOrNone
    <2> QED BY <1>2, <1>7, <2>1 DEF AskFile
  <1>8. CASE AskImage
    <2>1. AttachedTo \in Windows
      BY <1>6, <1>8 DEF AskImage, WindowOrNone
    <2> QED BY <1>3, <1>6, <1>8, <2>1 DEF AskImage
  <1>9. CASE AskForm
    <2> DEFINE d == [NoDialog EXCEPT !.kind = "form", !.action = "create"]
    <2>1. d \in Dialogs /\ d.action = "create" /\ d.kind = "form"
      BY NothingTyped DEF Dialogs
    <2> QED BY <1>2, <1>9, <2>1 DEF AskForm
  <1>10. CASE Cancel
    BY <1>10, NothingTyped DEF Cancel, Untouched, NoDialog, TypeOK, Named, truth, history, bounds
  <1>11. dialog.window \in WindowOrNone /\ dialog.force \in BOOLEAN
         /\ dialog.action \in {"none", "create", "delete", "file", "other"}
    BY DEF TypeOK, Dialogs
  <1>12. CASE Submit
    BY <1>3, <1>11, <1>12 DEF Submit, Named
  <1>13. CASE Choose
    BY <1>3, <1>13 DEF Choose, WindowOrNone
  <1>14. CASE DialogKeys /\ Confirm
    BY <1>3, <1>11, <1>14 DEF Confirm, Named
  <1> QED BY <1>1, <1>4, <1>5, <1>7, <1>8, <1>9, <1>10, <1>12, <1>13, <1>14 DEF Keys, DialogKeys

(* What is asked of a host stays about a window.                            *)
LEMMA NamedStays ==
  ASSUME TypeOK, Named, Commands \/ Answers
  PROVE  Named'
  <1>1. CASE CreateRuns \/ OtherRuns
    <2>1. \E r \in {"ok", "choices", "failed"}, w \in WindowOrNone :
            AnswerAction(r, w) /\ (action.kind # "create" => w = action.window)
      BY <1>1 DEF CreateRuns, OtherRuns, TypeOK, Actions, WindowOrNone
    <2>2. /\ action'.kind = action.kind /\ action'.result # "risk"
          /\ action.kind # "create" => action'.window = action.window
      BY <2>1 DEF AnswerAction, TypeOK, Actions
    <2> QED BY <1>1, <2>2 DEF Named, CreateRuns, OtherRuns, view
  <1>2. CASE DeleteRuns
    <2>1. action'.kind = "delete" /\ action'.window = action.window /\ action.kind = "delete"
      BY <1>2 DEF DeleteRuns, AnswerAction, TypeOK, Actions
    <2> QED BY <1>2, <2>1 DEF Named, DeleteRuns
  <1>3. CASE RemovalRuns
    <2>1. removal'.window = removal.window /\ removal.at = "asked"
      BY <1>3 DEF RemovalRuns, TypeOK, Removals
    <2> QED BY <1>3, <2>1 DEF Named, RemovalRuns
  <1>4. CASE RefreshRuns \/ CleanupRuns \/ AttachRuns
    BY <1>4 DEF RefreshRuns, CleanupRuns, AttachRuns, Named, view
  <1>5. CASE RefreshAnswered
    <2>1. removal'.at # "idle" => removal'.window \in Windows
      <3>1. CASE UNCHANGED removal
        BY <3>1 DEF Named
      <3>2. ASSUME NEW w \in Removable, removal' = [NoRemoval EXCEPT !.at = "asked", !.window = w]
            PROVE  removal'.window \in Windows
        BY <3>2 DEF NoRemoval, Removable
      <3> QED BY <1>5, <3>1, <3>2 DEF RefreshAnswered, StartRemoval
    <2> QED BY <1>5, <2>1 DEF RefreshAnswered, Named
  <1>6. CASE RemovalAnswered \/ AttachAnswered \/ TerminalDone
    BY <1>6 DEF RemovalAnswered, AttachAnswered, TerminalDone, Named, NoRemoval
  <1>7. CASE ActionAnswered
    <2>1. action' = NoAction /\ UNCHANGED removal
      BY <1>7 DEF ActionAnswered
    <2>2. dialog'.action \in {"file", "delete"} \/ dialog'.kind = "confirm" => dialog'.window \in Windows
      <3>1. CASE UNCHANGED dialog
        BY <3>1 DEF Named
      <3>2. CASE dialog' = [NoDialog EXCEPT !.kind = "form", !.action = action.kind, !.window = action.window]
        BY <3>2 DEF NoDialog, Named
      <3>3. CASE dialog' = [NoDialog EXCEPT !.kind = "choices"]
        BY <3>3 DEF NoDialog
      <3>4. CASE ActionRisky
        BY <3>4 DEF ActionRisky, Named
      <3> QED BY <1>7, <3>1, <3>2, <3>3, <3>4 DEF ActionAnswered, ActionFailed, ActionCreated,
              ActionDeleted, ActionUploaded, ActionReported
    <2> QED BY <2>1, <2>2 DEF Named, NoAction
  <1> QED BY <1>1, <1>2, <1>3, <1>4, <1>5, <1>6, <1>7 DEF Commands, Answers

(* What happens by itself, and the way out.                                 *)
LEMMA OthersTyped ==
  ASSUME TypeOK, Named,
         \/ Leaving \/ RefreshTick \/ CleanupTick \/ TerminalUpdates \/ Resize
         \/ \E a \in Terminals : TerminalEnds(a)
         \/ \E w \in Windows : Exit(w) \/ Respawn(w)
         \/ UNCHANGED vars
  PROVE  TypeOK' /\ Named'
  <1>1. CASE Quit
    <2>1. \A command \in Refreshes : Unheard(command, NoRefresh) \in Refreshes
      BY NothingTyped DEF Unheard
    <2>2. \A command \in Removals : Unheard(command, NoRemoval) \in {command, NoRemoval}
      BY DEF Unheard
    <2>3. \A command \in Actions : Unheard(command, NoAction) \in {command, NoAction}
      BY DEF Unheard
    <2>4. \A command \in Attaches : Unheard(command, NoAttach) \in Attaches
      BY NothingTyped DEF Unheard
    <2>5. /\ refresh' \in Refreshes /\ attach' \in Attaches
          /\ removal' \in {removal, NoRemoval} /\ action' \in {action, NoAction}
      BY <1>1, <2>1, <2>2, <2>3, <2>4 DEF Quit, TypeOK
    <2>6. removal' \in Removals /\ action' \in Actions /\ dialog' \in Dialogs
          /\ terminal' \in [Terminals -> Processes]
          /\ wanted' \in [window : WindowOrNone, back : BOOLEAN]
      BY <1>1, <2>5, NothingTyped DEF Quit, TypeOK
    <2>7. shown' \in [Windows -> Seen] /\ attached' = None /\ queued' = None /\ saved' = None
          /\ None \in WindowOrNone
      BY <1>1 DEF Quit, Unseen, Seen, WindowOrNone
    <2>8. TypeOK'
      BY <1>1, <2>5, <2>6, <2>7 DEF Quit, TypeOK, bounds
    <2>9. Named'
      BY <1>1, <2>5 DEF Quit, Named, NoRemoval, NoAction, NoDialog
    <2> QED BY <2>8, <2>9
  <1>2. CASE ManagerCloses \/ WorkersDone
    BY <1>2 DEF ManagerCloses, WorkersDone, TypeOK, Named, truth, commands, view, history, bounds
  <1>3. ASSUME NEW a \in Terminals, ContextCloses(a) PROVE TypeOK' /\ Named'
    <2>1. terminal' \in [Terminals -> Processes]
      BY <1>3, NothingTyped DEF ContextCloses, TypeOK
    <2> QED BY <1>3, <2>1 DEF ContextCloses, TypeOK, Named, commands, view, history, bounds
  <1>4. CASE RefreshTick
    BY <1>4, StartRefreshTyped DEF RefreshTick, TypeOK, Named, truth, view, history, bounds
  <1>5. CASE CleanupTick
    BY <1>5 DEF CleanupTick, Asked, TypeOK, Named, truth, view, history
  <1>6. CASE TerminalUpdates
    <2>1. pending' \subseteq Windows
      BY <1>6, FlushedTyped DEF TerminalUpdates, TypeOK
    <2> QED BY <1>6, <2>1 DEF TerminalUpdates, TypeOK, Named, truth, commands, history, bounds
  <1>7. ASSUME NEW a \in Terminals, TerminalEnds(a) PROVE TypeOK' /\ Named'
    <2>1. terminal' \in [Terminals -> Processes]
      <3>1. PICK p \in Processes : p = terminal[a]
        BY DEF TypeOK
      <3>2. [p EXCEPT !.state = "ended"] \in Processes
        BY DEF Processes
      <3> QED BY <1>7, <3>1, <3>2 DEF TerminalEnds, TypeOK
    <2>2. faults' \in 0..MaxFaults
      BY <1>7 DEF TerminalEnds, Fault, TypeOK
    <2> QED BY <1>7, <2>1, <2>2 DEF TerminalEnds, TypeOK, Named, commands, view, history
  <1>8. ASSUME NEW w \in Windows, Exit(w) \/ Respawn(w) PROVE TypeOK' /\ Named'
    <2>1. host' \in [Windows -> Lives] /\ faults' \in 0..MaxFaults
      BY <1>8 DEF Exit, Respawn, Fault, TypeOK, Lives, bounds
    <2> QED BY <1>8, <2>1 DEF Exit, Respawn, TypeOK, Named, commands, view, history, bounds
  <1>9. CASE Resize
    BY <1>9 DEF Resize, TypeOK, Named, truth, commands, history, bounds
  <1>10. CASE UNCHANGED vars
    BY <1>10 DEF vars, truth, commands, view, history, bounds, TypeOK, Named
  <1> QED BY <1>1, <1>2, <1>3, <1>4, <1>5, <1>6, <1>7, <1>8, <1>9, <1>10 DEF Leaving

(* Every step keeps the types, and what is asked for about a window.        *)
LEMMA TypesKeep ==
  ASSUME TypeOK, Named, [Next]_vars
  PROVE  TypeOK' /\ Named'
  BY CommandsTyped, AnswersTyped, KeysTyped, NamedStays, OthersTyped DEF Next

-----------------------------------------------------------------------------
(* The screen.                                                              *)

ScreenVars == <<attach, attached, queued, terminal, wanted, stage>>

(* Most steps leave the screen alone.                                       *)
LEMMA ScreenStays ==
  ASSUME Screen, UNCHANGED ScreenVars
  PROVE  Screen'
  BY DEF Screen, ScreenVars, AttachOK, TerminalsOK, TerminalsAccounted, LastRequestWins, Target,
     Attaching, AttachedTo, Running

(* A request becomes the target, at once or after what is under way.        *)
LEMMA RequestKeeps ==
  ASSUME TypeOK, Screen, Running, NEW w \in WindowOrNone, RequestAttach(w),
         UNCHANGED <<attached, terminal, stage>>
  PROVE  Screen'
  <1>1. CASE Attaching
    BY <1>1 DEF RequestAttach, Screen, AttachOK, TerminalsOK, TerminalsAccounted, LastRequestWins,
       Target, Attaching, AttachedTo, Running
  <1>2. CASE ~Attaching
    <2>1. /\ attach' = [NoAttach EXCEPT !.at = "asked", !.window = w]
          /\ wanted' = [window |-> w, back |-> FALSE] /\ queued' = None
      BY <1>2 DEF RequestAttach, Screen, AttachOK
    <2>2. /\ attach'.at = "asked" /\ attach'.window = w /\ attach'.got = None /\ attach.got = None
          /\ wanted'.window = w
      BY <1>2, <2>1 DEF NoAttach, Screen, AttachOK
    <2> QED BY <1>2, <2>1, <2>2 DEF Screen, AttachOK, TerminalsOK, TerminalsAccounted,
              LastRequestWins, Target, Attaching, AttachedTo, Running
  <1> QED BY <1>1, <1>2

(* The terminal of a deleted window is closed; it was the target only if    *)
(* nothing else is on its way.                                              *)
LEMMA CloseKeeps ==
  ASSUME TypeOK, Screen, Running, attached # None,
         terminal' = [terminal EXCEPT ![attached] = Free], attached' = None,
         wanted' = IF Attaching THEN wanted ELSE Nothing,
         UNCHANGED <<attach, queued, stage>>
  PROVE  Screen'
  <1>1. attached \in Terminals /\ attach.got \in Terminals \cup {None}
    BY DEF TypeOK, Attaches
  <1>2. /\ terminal'[attached].state = "free"
        /\ \A a \in Terminals \ {attached} : terminal'[a] = terminal[a]
    BY <1>1 DEF TypeOK, Free
  <1>3. AttachOK' /\ TerminalsOK' /\ TerminalsAccounted'
    BY <1>1, <1>2 DEF Screen, AttachOK, TerminalsOK, TerminalsAccounted, Attaching, Running
  <1>4. LastRequestWins'
    BY DEF Screen, LastRequestWins, Target, Attaching, Nothing
  <1> QED BY <1>3, <1>4 DEF Screen, Running

(* A deleted window is forgotten, on the screen or not.                     *)
LEMMA ForgetKeeps ==
  ASSUME TypeOK, Screen, Running, NEW w, Forget(w), UNCHANGED <<attach, queued, stage>>
  PROVE  Screen'
  <1>1. CASE attached # None /\ w = AttachedTo
    BY <1>1, CloseKeeps DEF Forget
  <1>2. CASE ~(attached # None /\ w = AttachedTo)
    BY <1>2, ScreenStays DEF Forget, ScreenVars
  <1> QED BY <1>1, <1>2

(* The user chooses a window.                                               *)
LEMMA SelectKeeps ==
  ASSUME TypeOK, Screen, Running, NEW w \in Windows, Select(w)
  PROVE  Screen'
  <1>1. UNCHANGED <<attached, terminal, stage>>
    BY DEF Select, truth
  <1>2. CASE RequestAttach(w)
    BY <1>1, <1>2, RequestKeeps DEF WindowOrNone
  <1>3. CASE /\ UNCHANGED attach /\ wanted' = [window |-> w, back |-> FALSE]
             /\ w = AttachedTo /\ queued' = IF Attaching THEN w ELSE queued
    BY <1>1, <1>3 DEF Screen, AttachOK, TerminalsOK, TerminalsAccounted, LastRequestWins,
       Target, Attaching, AttachedTo, Running
  <1>4. CASE /\ UNCHANGED attach /\ wanted' = [window |-> w, back |-> FALSE]
             /\ w = attach.window /\ queued' = None
    <2>1. Attaching
      BY <1>4 DEF Screen, AttachOK, NoAttach
    <2> QED BY <1>1, <1>4, <2>1 DEF Screen, AttachOK, TerminalsOK, TerminalsAccounted,
              LastRequestWins, Target, Attaching, Running
  <1> QED BY <1>2, <1>3, <1>4 DEF Select

(* Moving along the list asks for the window, or back to the one shown.     *)
LEMMA MoveKeeps ==
  ASSUME TypeOK, Screen, Running, NEW w \in Windows, Move(w)
  PROVE  Screen'
  <1>1. UNCHANGED <<attached, terminal, stage>>
    BY DEF Move, truth
  <1>2. CASE RequestAttach(w)
    BY <1>1, <1>2, RequestKeeps DEF WindowOrNone
  <1>3. CASE UNCHANGED <<attach, queued>> /\ wanted' = [window |-> w, back |-> TRUE]
    BY <1>1, <1>3 DEF Screen, AttachOK, TerminalsOK, TerminalsAccounted, LastRequestWins,
       Attaching, Running
  <1> QED BY <1>2, <1>3 DEF Move

(* The terminal of an attach is opened: it was free, so it is not on the    *)
(* screen.                                                                  *)
LEMMA AttachRunsKeeps ==
  ASSUME TypeOK, Screen, AttachRuns
  PROVE  Screen'
  <1>1. /\ attach.at = "asked" /\ attach.got = None
        /\ UNCHANGED <<attached, queued, wanted, stage>>
    BY DEF AttachRuns, Screen, AttachOK, view, history
  <1>2. CASE UNCHANGED terminal /\ attach' = [attach EXCEPT !.at = "answered"]
    <2>1. attach'.at = "answered" /\ attach'.window = attach.window /\ attach'.got = attach.got
      BY <1>2 DEF TypeOK, Attaches
    <2> QED BY <1>1, <1>2, <2>1 DEF Screen, AttachOK, TerminalsOK, TerminalsAccounted,
              LastRequestWins, Target, Attaching, AttachedTo, Running
  <1>3. ASSUME NEW a \in Terminals, terminal[a] = Free,
               terminal' = [terminal EXCEPT ![a] = [state |-> "open", window |-> attach.window]],
               attach' = [attach EXCEPT !.at = "answered", !.got = a]
        PROVE  Screen'
    <2>1. attach'.at = "answered" /\ attach'.window = attach.window /\ attach'.got = a
      BY <1>3 DEF TypeOK, Attaches
    <2>2. /\ terminal'[a].state = "open" /\ terminal'[a].window = attach.window
          /\ \A b \in Terminals \ {a} : terminal'[b] = terminal[b]
      BY <1>3 DEF TypeOK
    <2>3. Running => attached # a
      BY <1>3 DEF Screen, TerminalsOK, Free
    <2>4. Running => AttachedTo' = AttachedTo
      BY <1>1, <2>2, <2>3 DEF AttachedTo, TypeOK
    <2>5. AttachOK' /\ Attaching' /\ Attaching
      BY <1>1, <2>1 DEF AttachOK, Attaching
    <2>6. Running => TerminalsOK'
      BY <1>1, <2>1, <2>2, <2>3 DEF Screen, TerminalsOK, TypeOK
    <2>7. TerminalsAccounted'
      BY <1>1, <2>1, <2>2 DEF Screen, TerminalsAccounted
    <2>8. LastRequestWins'
      BY <1>1, <2>1, <2>4, <2>5 DEF Screen, LastRequestWins, Target, Nothing
    <2> QED BY <1>1, <2>5, <2>6, <2>7, <2>8 DEF Screen, Running
  <1> QED BY <1>2, <1>3 DEF AttachRuns

(* The answer of an attach: closed, failed or put on the screen.            *)
LEMMA AttachAnsweredKeeps ==
  ASSUME TypeOK, Screen, AttachAnswered
  PROVE  Screen'
  <1>1. /\ Running /\ attach.at = "answered" /\ UNCHANGED stage /\ TerminalsOK /\ Running'
        /\ attach.got \in Terminals \cup {None} /\ attached \in Terminals \cup {None}
        /\ Attaching
    BY DEF AttachAnswered, Screen, Running, TypeOK, Attaches, Attaching
  <1>2. CASE AttachOvertaken
    <2>1. /\ queued' = None /\ UNCHANGED <<attached, wanted>>
          /\ terminal' = IF attach.got = None THEN terminal ELSE [terminal EXCEPT ![attach.got] = Free]
          /\ attach' = IF queued = AttachedTo THEN NoAttach
                       ELSE [NoAttach EXCEPT !.at = "asked", !.window = queued]
      BY <1>2 DEF AttachOvertaken
    <2>2. /\ attach'.got = None
          /\ \/ queued = AttachedTo /\ attach' = NoAttach /\ ~Attaching'
             \/ attach'.at = "asked" /\ attach'.window = queued /\ Attaching'
      BY <2>1 DEF NoAttach, Attaching
    <2>3. /\ \A a \in Terminals \ {attach.got} : terminal'[a] = terminal[a]
          /\ attach.got # None => terminal'[attach.got].state = "free"
      BY <1>1, <2>1 DEF TypeOK, Free
    <2>4. attach.got # attached \/ attached = None
      BY <1>1 DEF TerminalsOK
    <2>5. AttachedTo' = AttachedTo
      BY <1>1, <2>1, <2>3, <2>4 DEF AttachedTo
    <2>6. AttachOK'
      BY <2>1, <2>2 DEF AttachOK, Attaching, NoAttach
    <2>7. TerminalsOK'
      BY <1>1, <2>1, <2>2, <2>3, <2>4 DEF TerminalsOK
    <2>8. TerminalsAccounted'
      BY <1>1, <2>1, <2>3 DEF Screen, TerminalsAccounted, Running
    <2>9. LastRequestWins'
      BY <1>2, <2>1, <2>2, <2>5 DEF AttachOvertaken, Screen, LastRequestWins, Target
    <2> QED BY <1>1, <2>6, <2>7, <2>8, <2>9 DEF Screen
  <1>3. CASE AttachFailed
    BY <1>1, <1>3 DEF AttachFailed, NoAttach, Nothing, Screen, AttachOK, TerminalsOK,
       TerminalsAccounted, LastRequestWins, Attaching, Running
  <1>4. CASE AttachInstalled
    <2>1. PICK a \in Terminals : a = attach.got
      BY <1>1, <1>4 DEF AttachInstalled
    <2>2. /\ queued = None /\ attached' = a /\ attach' = NoAttach /\ UNCHANGED <<queued, wanted>>
          /\ terminal' = IF attached = None THEN terminal ELSE [terminal EXCEPT ![attached] = Free]
      BY <1>4, <2>1 DEF AttachInstalled
    <2>3. a # attached /\ terminal[a].state # "free" /\ terminal[a].window = attach.window
      BY <1>1, <2>1 DEF TerminalsOK
    <2>4. /\ \A b \in Terminals \ {attached} : terminal'[b] = terminal[b]
          /\ attached # None => terminal'[attached].state = "free"
      BY <1>1, <2>2 DEF TypeOK, Free
    <2>5. AttachedTo' = attach.window
      BY <2>1, <2>2, <2>3, <2>4 DEF AttachedTo
    <2>6. AttachOK' /\ ~Attaching'
      BY <2>2 DEF AttachOK, Attaching, NoAttach
    <2>7. TerminalsOK'
      BY <2>2, <2>3, <2>4 DEF TerminalsOK, NoAttach
    <2>8. TerminalsAccounted'
      BY <1>1, <2>1, <2>2, <2>4 DEF Screen, TerminalsAccounted, Running
    <2>9. LastRequestWins'
      BY <1>1, <2>2, <2>5, <2>6 DEF Screen, LastRequestWins, Target
    <2> QED BY <1>1, <2>6, <2>7, <2>8, <2>9 DEF Screen
  <1> QED BY <1>2, <1>3, <1>4 DEF AttachAnswered

(* An attached process ends, and keeps its place until the loop hears it.   *)
LEMMA TerminalEndsKeeps ==
  ASSUME TypeOK, Screen, NEW a \in Terminals, TerminalEnds(a)
  PROVE  Screen'
  <1>1. /\ terminal[a].state = "open" /\ terminal' = [terminal EXCEPT ![a].state = "ended"]
        /\ UNCHANGED <<attach, attached, queued, wanted, stage>>
    BY DEF TerminalEnds, commands, view, history
  <1>2. PICK p \in Processes : p = terminal[a]
    BY DEF TypeOK
  <1>3. /\ terminal'[a].state = "ended" /\ terminal'[a].window = terminal[a].window
        /\ \A b \in Terminals \ {a} : terminal'[b] = terminal[b]
    BY <1>1, <1>2 DEF TypeOK, Processes
  <1>4. attached \in Terminals \cup {None} /\ attach.got \in Terminals \cup {None}
    BY DEF TypeOK, Attaches
  <1>5. AttachedTo' = AttachedTo
    BY <1>1, <1>3, <1>4 DEF AttachedTo
  <1>6. AttachOK' /\ LastRequestWins'
    BY <1>1, <1>5 DEF Screen, AttachOK, LastRequestWins, Target, Attaching
  <1>7. Running' = Running /\ (TerminalsOK => TerminalsOK')
    BY <1>1, <1>3, <1>4 DEF TerminalsOK, Running
  <1>8. TerminalsAccounted'
    BY <1>1, <1>3 DEF Screen, TerminalsAccounted
  <1> QED BY <1>1, <1>6, <1>7, <1>8 DEF Screen

(* On the way out nothing is wanted any more.                               *)
LEMMA LeavingKeeps ==
  ASSUME TypeOK, Screen, Leaving
  PROVE  Screen'
  <1>1. CASE Quit
    <2>1. /\ stage' = "stopped" /\ wanted' = Nothing /\ queued' = None /\ attached' = None
          /\ attach' = IF attach.at = "answered" THEN NoAttach ELSE attach
      BY <1>1 DEF Quit, Unheard
    <2>2. AttachOK'
      BY <2>1 DEF Screen, AttachOK, Attaching, NoAttach
    <2> QED BY <2>1, <2>2 DEF Screen, TerminalsAccounted, LastRequestWins, Running, Nothing
  <1>2. CASE ManagerCloses \/ WorkersDone
    BY <1>2 DEF ManagerCloses, WorkersDone, truth, commands, view, history, Screen, AttachOK,
       TerminalsAccounted, LastRequestWins, Running, Nothing, Attaching
  <1>3. ASSUME NEW a \in Terminals, ContextCloses(a) PROVE Screen'
    BY <1>3 DEF ContextCloses, commands, view, history, Screen, AttachOK, TerminalsAccounted,
       LastRequestWins, Running, Nothing, Attaching
  <1> QED BY <1>1, <1>2, <1>3 DEF Leaving

(* The loop handles one answer at a time.                                   *)
LEMMA AnswersKeep ==
  ASSUME TypeOK, Screen, Answers
  PROVE  Screen'
  <1>1. CASE RefreshAnswered
    <2>1. Running /\ UNCHANGED <<attached, terminal, stage>>
      BY <1>1 DEF RefreshAnswered, truth
    <2>2. CASE UNCHANGED <<attach, queued, wanted>>
      BY <2>1, <2>2, ScreenStays DEF ScreenVars
    <2>3. ASSUME NEW w \in Preferred, RequestAttach(w) PROVE Screen'
      <3>1. w \in WindowOrNone
        BY DEF Preferred, LiveShown, TypeOK, WindowOrNone
      <3> QED BY <2>1, <2>3, <3>1, RequestKeeps
    <2> QED BY <1>1, <2>2, <2>3 DEF RefreshAnswered, AttachPreferred
  <1>2. CASE RemovalAnswered
    <2>1. Running /\ UNCHANGED <<attach, queued, stage>>
      BY <1>2 DEF RemovalAnswered
    <2>2. CASE Forget(removal.window)
      BY <2>1, <2>2, ForgetKeeps
    <2>3. CASE UNCHANGED <<terminal, attached, wanted>>
      BY <2>1, <2>3, ScreenStays DEF ScreenVars
    <2> QED BY <1>2, <2>2, <2>3 DEF RemovalAnswered
  <1>3. CASE AttachAnswered
    BY <1>3, AttachAnsweredKeeps
  <1>4. CASE ActionAnswered
    <2>1. Running /\ UNCHANGED stage /\ action.window \in WindowOrNone
      BY <1>4 DEF ActionAnswered, TypeOK, Actions
    <2>2. CASE ActionCreated
      BY <2>1, <2>2, RequestKeeps DEF ActionCreated
    <2>3. CASE ActionDeleted
      BY <2>1, <2>3, ForgetKeeps DEF ActionDeleted
    <2>4. CASE ActionFailed \/ ActionRisky \/ ActionUploaded \/ ActionReported
      BY <2>1, <2>4, ScreenStays DEF ActionFailed, ActionRisky, ActionUploaded, ActionReported,
         ScreenVars
    <2> QED BY <1>4, <2>2, <2>3, <2>4 DEF ActionAnswered
  <1>5. CASE TerminalDone
    BY <1>5, CloseKeeps DEF TerminalDone
  <1> QED BY <1>1, <1>2, <1>3, <1>4, <1>5 DEF Answers

(* Every step keeps the terminals accounted for and the target right.       *)
LEMMA ScreenKeeps ==
  ASSUME TypeOK, Screen, [Next]_vars
  PROVE  Screen'
  <1>1. CASE Keys
    <2>1. ASSUME NEW w \in Windows, AskDelete(w) PROVE UNCHANGED ScreenVars
      BY <2>1 DEF AskDelete, Show, Untouched, truth, history, ScreenVars
    <2>2. ASSUME NEW kind, Ask(kind) PROVE UNCHANGED ScreenVars
      BY <2>2 DEF Ask, Untouched, truth, history, ScreenVars
    <2>3. CASE AskFile \/ AskImage \/ AskForm
      BY <2>3, ScreenStays DEF AskFile, AskImage, AskForm, Show, Untouched, truth, history, ScreenVars
    <2> QED BY <1>1, <2>1, <2>2, <2>3, ScreenStays, SelectKeeps, MoveKeeps DEF Keys
  <1>2. CASE DialogKeys
    BY <1>2, ScreenStays DEF DialogKeys, Cancel, Submit, Confirm, Choose, Untouched, truth, history,
       ScreenVars
  <1>3. CASE Answers
    BY <1>3, AnswersKeep
  <1>4. CASE Commands
    <2>1. CASE RefreshRuns \/ RemovalRuns \/ CleanupRuns
      BY <2>1, ScreenStays DEF RefreshRuns, RemovalRuns, CleanupRuns, truth, view, history, ScreenVars
    <2>2. CASE CreateRuns \/ DeleteRuns \/ OtherRuns
      BY <2>2, ScreenStays DEF CreateRuns, DeleteRuns, OtherRuns, truth, view, history, ScreenVars
    <2> QED BY <1>4, <2>1, <2>2, AttachRunsKeeps DEF Commands
  <1>5. CASE Leaving
    BY <1>5, LeavingKeeps
  <1>6. CASE RefreshTick \/ CleanupTick \/ TerminalUpdates \/ Resize
    BY <1>6, ScreenStays DEF RefreshTick, CleanupTick, TerminalUpdates, Resize, truth, commands, view,
       history, ScreenVars
  <1>7. ASSUME NEW a \in Terminals, TerminalEnds(a) PROVE Screen'
    BY <1>7, TerminalEndsKeeps
  <1>8. ASSUME NEW w \in Windows, Exit(w) \/ Respawn(w) PROVE Screen'
    BY <1>8, ScreenStays DEF Exit, Respawn, commands, view, history, ScreenVars
  <1>9. CASE UNCHANGED vars
    BY <1>9, ScreenStays DEF vars, truth, commands, view, history, ScreenVars
  <1> QED BY <1>1, <1>2, <1>3, <1>4, <1>5, <1>6, <1>7, <1>8, <1>9 DEF Next

-----------------------------------------------------------------------------
(* The results.                                                             *)

(* Nothing is attached and nothing is wanted at first.                      *)
LEMMA InitHolds == Init => IInv
  <1> SUFFICES ASSUME Init PROVE IInv
    OBVIOUS
  <1>1. TypeOK
    <2>1. refresh \in Refreshes
      BY NothingTyped DEF Init, Refreshes, Progress
    <2>2. saved \in WindowOrNone /\ None \in WindowOrNone
      BY DEF Init, WindowOrNone
    <2>3. host \in [Windows -> Lives] /\ shown \in [Windows -> Seen]
      BY DEF Init, Lives, Unseen, Seen
    <2>4. terminal \in [Terminals -> Processes]
      BY NothingTyped DEF Init
    <2>5. asked \in 0..MaxAsked /\ faults \in 0..MaxFaults
      BY DEF Init
    <2> QED BY <2>1, <2>2, <2>3, <2>4, <2>5, NothingTyped DEF Init, TypeOK
  <1>2. Named
    BY DEF Init, Named, NoRemoval, NoAction, NoDialog
  <1>3. Screen
    BY DEF Init, Screen, AttachOK, TerminalsOK, TerminalsAccounted, LastRequestWins, Running, Attaching,
       NoAttach, Free, Nothing
  <1> QED BY <1>1, <1>2, <1>3 DEF IInv

(* The invariant holds throughout.                                          *)
THEOREM Inductive == Spec => []IInv
  <1>1. Init => IInv
    BY InitHolds
  <1>2. IInv /\ [Next]_vars => IInv'
    BY TypesKeep, ScreenKeeps DEF IInv
  <1> QED BY <1>1, <1>2, PTL DEF Spec

(* Nothing stays attached behind the screen.                                *)
THEOREM NothingBehindTheScreen == Spec => []TerminalsAccounted
  <1>1. IInv => TerminalsAccounted
    BY DEF IInv, Screen
  <1> QED BY <1>1, Inductive, PTL

(* The latest request wins, whoever made it and whatever was under way.     *)
THEOREM LatestWins == Spec => []LastRequestWins
  <1>1. IInv => LastRequestWins
    BY DEF IInv, Screen
  <1> QED BY <1>1, Inductive, PTL
=============================================================================
