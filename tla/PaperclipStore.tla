--------------------------- MODULE PaperclipStore ---------------------------
(***************************************************************************)
(* The tables of the Paperclip database and the statements the service     *)
(* issues on them (paperclip/db.py, migrations/001_initial_schema.sql).    *)
(*                                                                         *)
(* A store is one record with a function per table.  Every operator below  *)
(* is one statement: it takes the store and returns the store the          *)
(* statement leaves.  An UPDATE whose WHERE clause matches no row leaves   *)
(* the store alone.                                                        *)
(***************************************************************************)
EXTENDS TaskStateMachine, Naturals

CONSTANTS
  Tasks,        \* task ids
  Keys,         \* idempotency keys
  Workers,      \* worker ids
  NoWorker,     \* worker_id IS NULL
  NoTask,       \* task_idempotency has no row for the key
  NoResult,     \* task_results has no row for the task
  MaxAttempts   \* queue_max_attempts, copied into every queue row

ASSUME StoreAssumption ==
  /\ NoWorker \notin Workers
  /\ NoTask \notin Tasks
  /\ NoResult \notin {"succeeded", "failed"}
  /\ MaxAttempts \in Nat \ {0}

\* A clock reading of 0 stands for a NULL timestamp; the clock starts at 1.
NoTime == 0

RunStatus == {"succeeded", "failed"}

ApprovalStatus == {"not_required", "pending", "approved", "rejected"}

RowStatus == {"queued", "running", "dispatched", "timed_out", "dead_letter",
              "cancelled"}

\* The audit events some property reads, with the actor they name.
Actors == {"paperclip", "human", "client"}
AuditEvents ==
  {"approval_granted", "approval_rejected", "task_cancelled"} \X Actors

\* review abstracts request_payload: its execution policy asks for approval and
\* does not bring it along.
TaskRow == [state : States, approval : ApprovalStatus, review : BOOLEAN]

NoTaskRow == [state |-> "absent", approval |-> "none", review |-> FALSE]

QueueRow == [status   : RowStatus,
             attempts : Nat,
             next     : Nat,                    \* next_attempt_at
             worker   : Workers \cup {NoWorker},
             lease    : Nat,                    \* lease_expires_at
             timeout  : Nat]                    \* timeout_at

NoQueueRow == [status |-> "none", attempts |-> 0, next |-> NoTime,
               worker |-> NoWorker, lease |-> NoTime, timeout |-> NoTime]

Store == [task   : [Tasks -> TaskRow \cup {NoTaskRow}],
          queue  : [Tasks -> QueueRow \cup {NoQueueRow}],
          result : [Tasks -> RunStatus \cup {NoResult}],
          idem   : [Keys -> Tasks \cup {NoTask}],
          audit  : [Tasks -> SUBSET AuditEvents],
          granted : SUBSET Tasks]   \* history: rows a human set to approved

EmptyStore == [task   |-> [t \in Tasks |-> NoTaskRow],
               queue  |-> [t \in Tasks |-> NoQueueRow],
               result |-> [t \in Tasks |-> NoResult],
               idem   |-> [k \in Keys |-> NoTask],
               audit  |-> [t \in Tasks |-> {}],
               granted |-> {}]

HasTask(s, t) == s.task[t] # NoTaskRow
HasRow(s, t)  == s.queue[t] # NoQueueRow

-----------------------------------------------------------------------------
(* Tables tasks and audit_events *)

\* The INSERT of create_task: the primary key refuses a second row.
CreateTask(s, t, approval, review) ==
  [s EXCEPT !.task[t] = [state |-> "received", approval |-> approval,
                         review |-> review]]

UpdateTaskState(s, t, state) ==
  IF HasTask(s, t) THEN [s EXCEPT !.task[t].state = state] ELSE s

\* Faulty variant: the approval status is forgotten.
UpdateTaskStatus(s, t, state, approval) ==
  IF HasTask(s, t) THEN [s EXCEPT !.task[t].state = state] ELSE s

\* update_task_state called with an approval_status.
UpdateTaskApproval(s, t, state, approval) ==
  IF HasTask(s, t)
  THEN [s EXCEPT !.task[t] = [@ EXCEPT !.state = state, !.approval = approval]]
  ELSE s

\* What the UPDATE that a human's approval issues leaves behind for good.
Grant(s, t) == IF HasTask(s, t) THEN [s EXCEPT !.granted = @ \cup {t}] ELSE s

AddAudit(s, t, event, actor) ==
  [s EXCEPT !.audit[t] = @ \cup {<<event, actor>>}]

-----------------------------------------------------------------------------
(* Table task_queue *)

\* INSERT OR REPLACE: whatever row there was is overwritten.
EnqueueRow(s, t, now) ==
  [s EXCEPT !.queue[t] = [status |-> "queued", attempts |-> 0, next |-> now,
                          worker |-> NoWorker, lease |-> NoTime,
                          timeout |-> NoTime]]

UpdateRow(s, t, row) ==
  IF HasRow(s, t) THEN [s EXCEPT !.queue[t] = row] ELSE s

ClaimRow(s, t, w, lease) ==
  UpdateRow(s, t, [s.queue[t] EXCEPT !.worker = w, !.lease = lease])

MarkRunning(s, t, timeout) ==
  UpdateRow(s, t, [s.queue[t] EXCEPT !.status = "running", !.timeout = timeout])

MarkStatus(s, t, status) ==
  UpdateRow(s, t, [s.queue[t] EXCEPT !.status = status])

MarkDispatched(s, t) == MarkStatus(s, t, "dispatched")
MarkTimedOut(s, t)   == MarkStatus(s, t, "timed_out")

\* Faulty variant: the row of a cancelled task is left as it is.
LeaveRow(s, t) == s

MarkCancelled(s, t)  == MarkStatus(s, t, "cancelled")

ResetToQueued(s, t) ==
  UpdateRow(s, t, [s.queue[t] EXCEPT !.status = "queued", !.worker = NoWorker,
                                     !.lease = NoTime, !.timeout = NoTime])

\* Faulty variant: the attempt is not counted.
MarkRetryUncounted(s, t, attempts, next) ==
  UpdateRow(s, t, [s.queue[t] EXCEPT !.status = "queued", !.next = next])

MarkRetry(s, t, attempts, next) ==
  UpdateRow(s, t, [s.queue[t] EXCEPT !.status = "queued",
                                     !.attempts = attempts, !.next = next])

MarkDeadLetter(s, t, attempts) ==
  UpdateRow(s, t, [s.queue[t] EXCEPT !.status = "dead_letter",
                                     !.attempts = attempts])

-----------------------------------------------------------------------------
(* Tables task_idempotency and task_results, and the retention delete *)

CreateIdempotencyRecord(s, k, t) == [s EXCEPT !.idem[k] = t]

\* store_result: INSERT OR REPLACE.
StoreResult(s, t, status) == [s EXCEPT !.result[t] = status]

\* Faulty variant: the idempotency record outlives its task.
DeleteFromButKey(s, t, table) ==
  CASE table = "idem"   -> s
    [] table = "result" -> [s EXCEPT !.result[t] = NoResult]
    [] table = "queue"  -> [s EXCEPT !.queue[t] = NoQueueRow]
    [] table = "audit"  -> [s EXCEPT !.audit[t] = {}]
    [] table = "task"   -> [s EXCEPT !.task[t] = NoTaskRow, !.granted = @ \ {t}]

\* One of the five statements of delete_task_data.
DeleteFrom(s, t, table) ==
  CASE table = "idem"   ->
         [s EXCEPT !.idem = [k \in Keys |-> IF @[k] = t THEN NoTask ELSE @[k]]]
    [] table = "result" -> [s EXCEPT !.result[t] = NoResult]
    [] table = "queue"  -> [s EXCEPT !.queue[t] = NoQueueRow]
    [] table = "audit"  -> [s EXCEPT !.audit[t] = {}]
    [] table = "task"   -> [s EXCEPT !.task[t] = NoTaskRow, !.granted = @ \ {t}]
=============================================================================
