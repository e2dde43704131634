------------------------ MODULE MCAnalysisLifecycle ------------------------
(* Values of the constants and symmetry for the runs of AnalysisLifecycle. *)
EXTENDS AnalysisLifecycle, TLC

NoJobs      == {}
RecoveryJob == {"recovery"}
BothJobs    == {"recovery", "cleanup"}

NoFaults         == {}
WorkerFaults     == {"crash"}
CeleryFaults     == {"db", "broadcast", "parse", "crash", "dispatch", "revoke"}
HealedFaults     == {"db", "refresh", "broadcast", "parse", "crash"}

\* Tasks and workers are interchangeable in the safety runs.
Symmetry == Permutations(Tasks) \cup Permutations(Workers)
=============================================================================
