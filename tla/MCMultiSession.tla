--------------------------- MODULE MCMultiSession ---------------------------
(* Values of the constants for the runs of MultiSession. *)
EXTENDS MultiSession

NoJobs   == {}
BothJobs == {"recovery", "cleanup"}

BackgroundFaults == {"db", "refresh", "parse", "timeout", "broadcast", "crash"}
HealedFaults     == {"crash", "dispatch", "revoke", "jobdb"}
=============================================================================
