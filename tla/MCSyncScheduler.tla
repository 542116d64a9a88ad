---------------------------- MODULE MCSyncScheduler ----------------------------
(* TLC instances of SyncScheduler. *)
EXTENDS SyncScheduler
===============================================================================
