-------------------------- MODULE DecisionLifecycle --------------------------
(***************************************************************************)
(* What the broker promises of one decision, with no handler, task or row  *)
(* in it: a proposal may be revised until somebody settles it; the plan    *)
(* that was approved is the plan that is carried out and stays on record;  *)
(* it is carried out once; and every end state is final.                   *)
(***************************************************************************)
CONSTANT Plans

VARIABLES status, steps

lifecycle == <<status, steps>>

Init == status = "NONE" /\ steps = <<>>

Move(from, to) == status = from /\ status' = to /\ UNCHANGED steps

Propose == status = "NONE" /\ status' = "PENDING" /\ steps' \in Plans
Revise  == status = "PENDING" /\ UNCHANGED status /\ steps' \in Plans
\* A person, or the autopilot, stands behind the plan; or nobody will.
Approve   == Move("PENDING", "APPROVED")
Reject    == Move("PENDING", "REJECTED")
Supersede == Move("PENDING", "SUPERSEDED")
\* The approved plan is carried out, and the outcome recorded.
Execute == Move("APPROVED", "EXECUTING")
Settle  == \E end \in {"DONE", "FAILED", "SIMULATED"} : Move("EXECUTING", end)

Next == Propose \/ Revise \/ Approve \/ Reject \/ Supersede \/ Execute \/ Settle

Spec == Init /\ [][Next]_lifecycle

=============================================================================
