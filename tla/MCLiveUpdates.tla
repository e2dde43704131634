--------------------------- MODULE MCLiveUpdates ---------------------------
(* Values of the constants for the runs of LiveUpdates. *)
EXTENDS LiveUpdates, TLC

AllFaults == {"network", "refused", "drop", "publish", "listener"}
=============================================================================
