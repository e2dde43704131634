----------------------------- MODULE MCAIService -----------------------------
(* Values of the constants for the runs of AIService. *)
EXTENDS AIService, TLC

AllOutages == {"refusing", "hanging"}
=============================================================================
