---------------------------- MODULE MCSyncQueue ----------------------------
(***************************************************************************)
(* Instances of SyncQueue for TLC.                                         *)
(***************************************************************************)
EXTENDS SyncQueue

CONSTANTS e1, e2

TwoEvents == {e1, e2}
=============================================================================
