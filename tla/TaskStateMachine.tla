-------------------------- MODULE TaskStateMachine --------------------------
(***************************************************************************)
(* The task states of Paperclip and the transitions its guard accepts      *)
(* (paperclip/state_machine.py).  A task without a row is "absent".        *)
(***************************************************************************)

States == {"received", "validating", "pending_approval", "approved", "queued",
           "running", "succeeded", "failed", "rejected", "cancelled"}

AllowedTransitions ==
  [s \in States |->
     CASE s = "received"         -> {"validating", "cancelled"}
       [] s = "validating"       ->
            {"pending_approval", "approved", "cancelled"}
       [] s = "pending_approval" -> {"approved", "rejected", "cancelled"}
       [] s = "approved"         -> {"queued", "cancelled"}
       [] s = "queued"           -> {"running", "cancelled"}
       [] s = "running"          -> {"succeeded", "failed", "cancelled"}
       [] OTHER                  -> {}]

\* can_transition: an unknown current state has no successor.
CanTransition(current, target) ==
  current \in States /\ target \in AllowedTransitions[current]

Terminal == {s \in States : AllowedTransitions[s] = {}}

\* The states a task reaches only after it was approved.
PostApproval == {"approved", "queued", "running", "succeeded", "failed"}
=============================================================================
