------------------------- MODULE PaperclipPromises -------------------------
(***************************************************************************)
(* What the documents of Paperclip say of the program and the code does    *)
(* not keep.  Each formula states the words quoted above it; one run per   *)
(* formula finds the execution that breaks it.                             *)
(***************************************************************************)
EXTENDS PaperclipProperties

\* docs/cancellation-support.md:9 "prevent late Hermes results from overwriting
\* a cancelled task".  record_result looks at the state before the transition
\* does, and the transition writes without looking again.
LateResultLeavesCancelled ==
  [][\A t \in Tasks : db.task[t].state = "cancelled"
                        => db'.task[t].state \notin {"succeeded", "failed"}]_vars

\* docs/cancellation-support.md:40 "durable control-plane cancellation".  The
\* statements of cancel_task stay in the open transaction: a crash after the
\* client was answered brings the running task back.
AcknowledgedCancelHolds ==
  \A t \in Tasks : "cancel" \in acked[t] => db.task[t].state = "cancelled"

\* docs/timeout-enforcement.md:8 "fail tasks that exceed a configured
\* queue/runtime timeout window".  enforce_timeouts lists rows with status
\* running, and dispatch_task has overwritten that status with dispatched.
OverdueIsTimedOut ==
  \A w \in Threads : thread[w].op = "timeouts" /\ At(w, "return") =>
    \A t \in Tasks : LET row == db.queue[t] IN
      db.task[t].state = "running" /\ row.timeout # NoTime
        => row.timeout > thread[w].at

\* docs/idempotent-result-handling.md:8 "keep result persistence safe when Hermes
\* retries delivery".  The transition is committed before the result is stored:
\* after a crash in between the task has succeeded without a result, and the
\* result delivered again is refused.
SucceededHasResult ==
  \A t \in Tasks : Quiet(t) /\ db.task[t].state = "succeeded"
                     => db.result[t] # NoResult

\* docs/worker-claiming-leasing.md:7 "ensure only one worker owns a queued task
\* at a time".  Two workers read the unclaimed row before either writes it.
Owns(w, t) == /\ thread[w].task = t /\ thread[w].worker # NoWorker
              /\ thread[w].caught /\ At(w, "d_read")
              /\ Deadline(thread[w].at, LeaseSeconds) > now

ClaimIsExclusive ==
  \A v, w \in Threads, t \in Tasks :
    Owns(v, t) /\ Owns(w, t) => thread[v].worker = thread[w].worker
=============================================================================
