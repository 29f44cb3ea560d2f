------------------------------ MODULE MCSyncModes ------------------------------
(* From genesis or a forkpoint, far enough for the root to move on twice.    *)
EXTENDS SyncModes
=============================================================================
