--------------------------- MODULE TaskLifecycle ---------------------------
(***************************************************************************)
(* What a client of Paperclip may rely on: a task is received once, moves  *)
(* only along the transitions state_machine.py allows, goes back from      *)
(* running to queued only when its dispatch is retried, and may be         *)
(* deleted.  Nothing is said of queues, threads or results.                *)
(***************************************************************************)
EXTENDS TaskStateMachine

CONSTANT Tasks

VARIABLE state

Init == state = [t \in Tasks |-> "absent"]

Receive(t) ==
  /\ state[t] = "absent"
  /\ state' = [state EXCEPT ![t] = "received"]

Move(t) ==
  \E target \in States :
    /\ CanTransition(state[t], target)
    /\ state' = [state EXCEPT ![t] = target]

\* The except branch of process_queue, outside the table of transitions.
Retry(t) ==
  /\ state[t] = "running"
  /\ state' = [state EXCEPT ![t] = "queued"]

\* The retention delete: nothing keeps the state it had.
Delete(t) ==
  /\ state[t] # "absent"
  /\ state' = [state EXCEPT ![t] = "absent"]

Next == \E t \in Tasks : Receive(t) \/ Move(t) \/ Retry(t) \/ Delete(t)

Spec == Init /\ [][Next]_state
=============================================================================
