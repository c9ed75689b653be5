--------------------------- MODULE MCEditorScreen ---------------------------
(* Two windows: one runs from the start, the other may still be created.    *)
EXTENDS EditorScreen, TLC

CONSTANTS w1, w2, a1, a2

MCWindows == {w1, w2}
MCAlive == {w1}
MCTerminals == {a1, a2}
MCRequests == {"open", "create", "delete", "form", "other"}
LiveRequests == {"open", "create", "delete", "file"}
Symmetry == Permutations(MCTerminals)
=============================================================================
