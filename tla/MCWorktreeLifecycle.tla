------------------------ MODULE MCWorktreeLifecycle ------------------------
(* One workspace, which an older version made and which is made anew after  *)
(* its deletion.                                                            *)
EXTENDS WorktreeLifecycle, TLC

CONSTANT s1

MCSpaces == {s1}
=============================================================================
