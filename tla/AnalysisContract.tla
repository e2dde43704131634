-------------------------- MODULE AnalysisContract --------------------------
(***************************************************************************)
(* What a client of the single-document API may rely on, whatever runs the *)
(* analysis: it is in progress once accepted, it gets one outcome and      *)
(* keeps it, it is cancelled only on request, and the outcome a client is  *)
(* told of is the outcome stored.  AnalysisLifecycle implements this when  *)
(* nothing but one run works on a task.                                    *)
(***************************************************************************)
CONSTANT Tasks

VARIABLES
    status,     \* status[t]: the outcome of t, or how far it is from one
    wanted,     \* wanted[t]: a cancellation of t was recorded
    heard       \* heard[t]: the outcome clients were told of

vars == <<status, wanted, heard>>

Outcomes == {"completed", "failed", "cancelled"}

Init ==
    /\ status = [t \in Tasks |-> "none"]
    /\ wanted = [t \in Tasks |-> FALSE]
    /\ heard = [t \in Tasks |-> "none"]

Accept(t) ==
    /\ status[t] = "none"
    /\ status' = [status EXCEPT ![t] = "processing"]
    /\ UNCHANGED <<wanted, heard>>

Cancel(t) ==
    /\ status[t] = "processing"
    /\ wanted' = [wanted EXCEPT ![t] = TRUE]
    /\ UNCHANGED <<status, heard>>

Settle(t) ==
    /\ status[t] = "processing"
    /\ \E outcome \in Outcomes :
          /\ outcome = "cancelled" => wanted[t]
          /\ status' = [status EXCEPT ![t] = outcome]
    /\ UNCHANGED <<wanted, heard>>

Tell(t) ==
    /\ status[t] \in Outcomes /\ heard[t] = "none"
    /\ heard' = [heard EXCEPT ![t] = status[t]]
    /\ UNCHANGED <<status, wanted>>

Next == \E t \in Tasks : Accept(t) \/ Cancel(t) \/ Settle(t) \/ Tell(t)

Spec == Init /\ [][Next]_vars
=============================================================================
