--------------------------- MODULE MCHostRecords ---------------------------
(* Two instances contend for a session; the first keeps attachments.    *)
EXTENDS HostRecords, TLC

CONSTANTS i1, i2, s1, f1

MCInstances == {i1, i2}
MCSessions == {s1}
MCFiles == {f1}
MCUsers == {i1}
MCOwner == f1 :> i1
=============================================================================
