---------------------------- MODULE OwnedResource ----------------------------
(***************************************************************************)
(* What the host registry promises about every outside resource the editor *)
(* makes for itself (a tmux session, a Git worktree): the record is        *)
(* written before the resource is made and is removed after it is gone, so *)
(* nothing the editor made is ever without a record; a resource is either  *)
(* being created, in use or being deleted; and the record and the resource *)
(* never change in the same step, since no write covers both.  A resource  *)
(* may be lost at any time without the editor.                             *)
(***************************************************************************)
CONSTANT Resources

VARIABLES
  record,  \* "none", "createPending", "ready" or "deletePending"
  exists   \* the resource is there

vars == <<record, exists>>

RecordMoves == {<<"none", "createPending">>, <<"createPending", "ready">>,
                <<"ready", "deletePending">>, <<"deletePending", "ready">>}

(* Intent, commit, intent to delete, and its withdrawal.                    *)
Write(r) == <<record[r], record'[r]>> \in RecordMoves /\ exists'[r] = exists[r]

Make(r) == /\ ~exists[r] /\ exists'[r]
           /\ record[r] \in {"createPending", "ready"}
           /\ record'[r] = record[r]

Vanish(r) == exists[r] /\ ~exists'[r] /\ record'[r] = record[r]

Forget(r) == ~exists[r] /\ ~exists'[r] /\ record'[r] = "none"

Same(r) == record'[r] = record[r] /\ exists'[r] = exists[r]

(* Resources of an earlier life may be there already.                       *)
Init ==
  \A r \in Resources : record[r] = "ready" \/ (record[r] = "none" /\ ~exists[r])

(* One write of the registry, or one loss of a server, touches several      *)
(* resources at once.                                                       *)
Next ==
  \A r \in Resources : Write(r) \/ Make(r) \/ Vanish(r) \/ Forget(r) \/ Same(r)

Spec == Init /\ [][Next]_vars
=============================================================================
