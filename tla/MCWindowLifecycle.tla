------------------------- MODULE MCWindowLifecycle -------------------------
(* A Git workspace with one window and the terminal of one project, or a    *)
(* plain workspace with one window, served by two host processes.           *)
EXTENDS WindowLifecycle, TLC

CONSTANTS p1, p2, w1, w2, t1, k1, k2

MCProcs == {p1, p2}
MCWindows == {w1, t1}
MCWorkspaces == {k1, k2}
MCHome == w1 :> k1 @@ t1 :> Project
AllRequests == {"create", "open", "delete", "deleteSpace", "createSpace"}
CascadeRequests == {"create", "deleteSpace", "createSpace"}
PlainWindows == {w2}
PlainWorkspaces == {k2}
PlainHome == w2 :> k2
=============================================================================
