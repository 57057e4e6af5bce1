-------------------------- MODULE PaperclipService --------------------------
(***************************************************************************)
(* The Paperclip control plane: the request handlers of paperclip/app.py   *)
(* and the operations of paperclip/service.py, run by the threads of a     *)
(* ThreadingHTTPServer over one shared sqlite connection.                  *)
(*                                                                         *)
(* A step of a thread is one database statement or one end of the HTTP     *)
(* call to Hermes; between two steps any other thread may run.  Reads that *)
(* follow each other with no write in between are one step, and so are a   *)
(* write and the audit events behind it that no property reads.            *)
(* Exceptions are control flow: Raise sends a thread to the handler of     *)
(* process_queue, or out of the request.                                   *)
(*                                                                         *)
(* db is what every thread sees through the shared connection.  Python's   *)
(* sqlite3 opens a transaction at the first write and only                 *)
(* run_in_transaction commits it, whoever wrote: disk is db as it was at   *)
(* the last commit, and what a crash leaves.                               *)
(***************************************************************************)
EXTENDS PaperclipStore

CONSTANTS
  Threads,         \* request threads
  Ops,             \* the operations requested in this instance
  KeyOf,           \* the Idempotency-Key a task is submitted with, or NoKey
  NoKey,
  LeaseSeconds,    \* queue_lease_seconds
  TimeoutSeconds,  \* queue_timeout_seconds
  BackoffSeconds,  \* queue_backoff_seconds
  MaxTime,         \* bound: the horizon of the clock
  MaxCrashes,      \* bound: number of crashes
  RunCap,          \* bound: executions of one task are counted up to here
  AttemptCap       \* bound: no recover_stuck_job of a row with more attempts

AllOps == {"submit", "approve", "reject", "cancel", "result", "process",
           "timeouts", "recover_job", "recover_approval", "delete"}

ASSUME ServiceAssumption ==
  /\ Ops \subseteq AllOps
  /\ NoKey \notin Keys
  /\ KeyOf \in [Tasks -> Keys \cup {NoKey}]
  /\ LeaseSeconds \in Nat /\ TimeoutSeconds \in Nat /\ BackoffSeconds \in Nat
  /\ MaxTime \in Nat \ {0} /\ MaxCrashes \in Nat /\ RunCap \in Nat \ {0}
  /\ AttemptCap \in Nat

\* _queue_backoff_seconds
Backoff(attempt) ==
  BackoffSeconds * 2 ^ (IF attempt > 1 THEN attempt - 1 ELSE 0)

\* The prover knows nothing of exponents: that a backoff is a number is assumed,
\* and evaluated for every attempt that can be scheduled.
ASSUME BackoffAssumption == \A n \in 1..MaxAttempts : Backoff(n) \in Nat

\* A timestamp `seconds` after another.  The horizon MaxTime stands for every
\* later moment: a deadline beyond it is reached once the clock is there.
Deadline(at, seconds) ==
  IF at + seconds < MaxTime THEN at + seconds ELSE MaxTime

VARIABLES
  db,       \* the tables as the shared connection sees them
  disk,     \* the tables as last committed
  files,    \* tasks with a result file in the storage layout
  thread,   \* the program counter and locals of each thread
  now,      \* the wall clock, in seconds
  crashes,  \* crashes so far
  runs,     \* executions Hermes started, per task
  answers,  \* results Hermes produced and may post, any number of times
  acked     \* operations a client was told had succeeded, per task

vars == <<db, disk, files, thread, now, crashes, runs, answers, acked>>

PCs == {"idle", "return", "submit_lookup", "submit_create", "submit_idem",
        "t_read", "t_write", "t_commit", "enqueue_row", "pq_read", "claim_read",
        "claim_write", "d_read", "d_ready", "d_running", "d_dispatched",
        "d_submit", "d_wait", "e_dead", "e_state", "e_retry", "r_read",
        "r_store", "r_commit", "r_file", "c_read", "c_state", "c_row",
        "to_list", "to_next", "rj_read", "rj_row", "rj_state", "ra_write",
        "x_read", "x_idem", "x_result", "x_queue", "x_audit", "x_task",
        "x_files"}

\* What follows a call of transition_task.
Continuations == {"submit_validated", "submit_decided", "enqueue_row",
                  "d_read", "d_running", "r_store", "to_next", "return"}

Idle == [op |-> "none", pc |-> "idle", task |-> NoTask, worker |-> NoWorker,
         goal |-> "absent",     \* submit: the state after validating
         target |-> "absent",   \* transition_task: target_state
         then |-> "return",     \* where transition_task returns
         at |-> NoTime,         \* the `now` local of the operation
         attempts |-> 0,        \* attempt_count of the row process_queue read
         caught |-> FALSE,      \* inside the try of process_queue
         status |-> NoResult,   \* result["run"]["status"]
         hasRow |-> FALSE,      \* cancel_task: a queue row was found
         todo |-> {}]           \* enforce_timeouts: items still to time out

Locals == [op : Ops \cup {"none"}, pc : PCs, task : Tasks \cup {NoTask},
           worker : Workers \cup {NoWorker},
           goal : {"absent", "pending_approval", "approved"},
           target : States \cup {"absent"}, then : Continuations,
           at : Nat, attempts : Nat, caught : BOOLEAN,
           status : RunStatus \cup {NoResult}, hasRow : BOOLEAN,
           todo : SUBSET Tasks]

Init ==
  /\ db = EmptyStore
  /\ disk = EmptyStore
  /\ files = {}
  /\ thread = [w \in Threads |-> Idle]
  /\ now = 1
  /\ crashes = 0
  /\ runs = [t \in Tasks |-> 0]
  /\ answers = [t \in Tasks |-> {}]
  /\ acked = [t \in Tasks |-> {}]

-----------------------------------------------------------------------------
(* Control flow of a thread *)

At(w, pc) == thread[w].pc = pc
Task(w) == thread[w].task
Key(w) == KeyOf[Task(w)]
Become(w, locals) == thread' = [thread EXCEPT ![w] = locals]
Goto(w, pc) == Become(w, [thread[w] EXCEPT !.pc = pc])
GiveUp(w) == Become(w, Idle)

\* transition_task(target), then go on as `then` says.
Transition(locals, target, then) ==
  [locals EXCEPT !.pc = "t_read", !.target = target, !.then = then]

\* What a thread does when transition_task returned.
After(locals) ==
  CASE locals.then = "submit_validated" ->
         Transition(locals, locals.goal, "submit_decided")
    [] locals.then = "submit_decided" /\ locals.goal = "approved" ->
         Transition(locals, "queued", "enqueue_row")
    [] locals.then = "submit_decided" /\ locals.goal # "approved" ->
         [locals EXCEPT !.pc = "return"]
    [] OTHER -> [locals EXCEPT !.pc = locals.then]

\* Faulty variant: one attempt too many.
RaisedOneLate(locals) ==
  IF locals.caught
  THEN [locals EXCEPT !.caught = FALSE,
                      !.pc = IF locals.attempts > MaxAttempts
                             THEN "e_dead" ELSE "e_state"]
  ELSE Idle

\* An exception: the `except Exception` of process_queue, or out of the request.
\* Whether to dead-letter is decided on the row read before dispatching.
Raised(locals) ==
  IF locals.caught
  THEN [locals EXCEPT !.caught = FALSE,
                      !.pc = IF locals.attempts + 1 >= MaxAttempts
                             THEN "e_dead" ELSE "e_state"]
  ELSE Idle

Raise(w) == Become(w, Raised(thread[w]))

\* A statement outside run_in_transaction: seen by every thread, not durable.
Write(s) == db' = s /\ UNCHANGED disk

\* Faulty variant: the transaction is left open.
LeaveOpen(s) == db' = s /\ UNCHANGED disk

\* A transaction ends: it commits what every thread wrote so far.
Commit(s) == db' = s /\ disk' = s

\* A step that only reads the tables or computes.
Read == UNCHANGED <<db, disk>>

\* What only the environment's steps, and the steps that say so, change.
Outside == <<files, now, crashes, runs, answers, acked>>

-----------------------------------------------------------------------------
(* Requests: a free thread takes one up *)

Start(w, op, locals) ==
  /\ At(w, "idle")
  /\ op \in Ops
  /\ Become(w, [locals EXCEPT !.op = op])
  /\ Read
  /\ UNCHANGED Outside

RequestSubmit(w, t) ==
  Start(w, "submit",
        [Idle EXCEPT !.pc = IF KeyOf[t] = NoKey THEN "submit_create"
                                                ELSE "submit_lookup",
                     !.task = t])

\* POST /tasks/<id>/approve dispatches by itself: process_queue is not involved.
RequestApprove(w, t) ==
  Start(w, "approve",
        Transition([Idle EXCEPT !.task = t], "approved", "d_read"))

RequestReject(w, t) ==
  Start(w, "reject", Transition([Idle EXCEPT !.task = t], "rejected", "return"))

RequestCancel(w, t) ==
  Start(w, "cancel", [Idle EXCEPT !.pc = "c_read", !.task = t])

\* Hermes, or whoever retries for it, posts one of the results it has.
RequestResult(w, t, status) ==
  /\ status \in answers[t]
  /\ Start(w, "result",
           [Idle EXCEPT !.pc = "r_read", !.task = t, !.status = status])

RequestProcess(w, t, worker) ==
  Start(w, "process",
        [Idle EXCEPT !.pc = "pq_read", !.task = t, !.worker = worker])

RequestTimeouts(w) == Start(w, "timeouts", [Idle EXCEPT !.pc = "to_list"])

RequestRecoverJob(w, t) ==
  /\ db.queue[t].attempts <= AttemptCap
  /\ Start(w, "recover_job", [Idle EXCEPT !.pc = "rj_read", !.task = t])

RequestRecoverApproval(w, t) ==
  Start(w, "recover_approval", [Idle EXCEPT !.pc = "ra_write", !.task = t])

RequestDelete(w, t) ==
  Start(w, "delete", [Idle EXCEPT !.pc = "x_read", !.task = t])

\* The answer is sent; only those of submit and cancel are looked at again.
Return(w) ==
  /\ At(w, "return")
  /\ GiveUp(w)
  /\ acked' = IF thread[w].op \in {"submit", "cancel"}
              THEN [acked EXCEPT ![Task(w)] = @ \cup {thread[w].op}]
              ELSE acked
  /\ Read
  /\ UNCHANGED <<files, now, crashes, runs, answers>>

-----------------------------------------------------------------------------
(* transition_task *)

\* Faulty variant: the transition is not asserted.
TransitionReadUnasserted(w) ==
  /\ At(w, "t_read")
  /\ IF HasTask(db, Task(w)) THEN Goto(w, "t_write") ELSE Raise(w)
  /\ Read
  /\ UNCHANGED Outside

\* The row is read and the transition asserted; KeyError without a row.
TransitionRead(w) ==
  /\ At(w, "t_read")
  /\ IF CanTransition(db.task[Task(w)].state, thread[w].target)
     THEN Goto(w, "t_write")
     ELSE Raise(w)
  /\ Read
  /\ UNCHANGED Outside

\* Faulty variant: a rejection leaves the approval status alone.
ApplyTransitionStateOnly(s, t, target, actor) ==
  CASE target = "pending_approval" ->
         UpdateTaskApproval(s, t, target, "pending")
    [] target = "approved" /\ actor = "human" ->
         Grant(UpdateTaskApproval(s, t, target, "approved"), t)
    [] target = "approved" /\ actor # "human" ->
         UpdateTaskApproval(s, t, target, "approved")
    [] OTHER -> UpdateTaskState(s, t, target)

\* The first statement of the transaction: the state, and the approval status
\* the three approval states carry.  It does not look at the row.
ApplyTransition(s, t, target, actor) ==
  CASE target = "pending_approval" ->
         UpdateTaskApproval(s, t, target, "pending")
    [] target = "approved" /\ actor = "human" ->
         Grant(UpdateTaskApproval(s, t, target, "approved"), t)
    [] target = "approved" /\ actor # "human" ->
         UpdateTaskApproval(s, t, target, "approved")
    [] target = "rejected" ->
         UpdateTaskApproval(s, t, target, "rejected")
    [] OTHER -> UpdateTaskState(s, t, target)

\* The audit events behind it.
AuditTransition(s, t, target, actor) ==
  CASE target = "approved" -> AddAudit(s, t, "approval_granted", actor)
    [] target = "rejected" -> AddAudit(s, t, "approval_rejected", actor)
    [] OTHER -> s

Actor(w) ==
  IF thread[w].op \in {"approve", "reject"} THEN "human" ELSE "paperclip"

\* Faulty variant: the two statements are not in one transaction.
TransitionWriteCommitted(w) ==
  /\ At(w, "t_write")
  /\ Commit(ApplyTransition(db, Task(w), thread[w].target, Actor(w)))
  /\ Goto(w, "t_commit")
  /\ UNCHANGED Outside

TransitionWrite(w) ==
  /\ At(w, "t_write")
  /\ Write(ApplyTransition(db, Task(w), thread[w].target, Actor(w)))
  /\ Goto(w, "t_commit")
  /\ UNCHANGED Outside

\* The audit events, and the end of `with self.conn`.
TransitionCommit(w) ==
  /\ At(w, "t_commit")
  /\ Commit(AuditTransition(db, Task(w), thread[w].target, Actor(w)))
  /\ Become(w, After(thread[w]))
  /\ UNCHANGED Outside

-----------------------------------------------------------------------------
(* submit_task and enqueue_task *)

\* Faulty variant: the key is recorded and never looked up.
SubmitLookupSkipped(w) ==
  /\ At(w, "submit_lookup")
  /\ Goto(w, "submit_create")
  /\ Read
  /\ UNCHANGED Outside

\* A recorded key answers with the task it was recorded for.
SubmitLookup(w) ==
  /\ At(w, "submit_lookup")
  /\ LET existing == db.idem[Key(w)] IN
       IF existing # NoTask /\ HasTask(db, existing)
       THEN Become(w, [thread[w] EXCEPT !.pc = "return", !.task = existing])
       ELSE Goto(w, "submit_create")
  /\ Read
  /\ UNCHANGED Outside

\* Faulty variant: only a status of "pending" waits for review.
NextStatePendingOnly(required, status) ==
  IF required /\ status = "pending" THEN "pending_approval" ELSE "approved"

\* Faulty variant: a state that does not exist.
NextStateMisspelt(required, status) ==
  IF required /\ status # "approved" THEN "pending" ELSE "approved"

\* approval["required"] and approval["status"] decide what follows validating.
NextState(required, status) ==
  IF required /\ status # "approved" THEN "pending_approval" ELSE "approved"

\* The row is created from what the payload says of its approval.
SubmitCreate(w) ==
  /\ At(w, "submit_create")
  /\ IF HasTask(db, Task(w))
     THEN GiveUp(w) /\ Read                      \* IntegrityError
     ELSE \E required \in BOOLEAN, status \in ApprovalStatus :
            LET locals == [thread[w] EXCEPT !.goal = NextState(required, status)]
            IN
            /\ Write(CreateTask(db, Task(w), status,
                                required /\ status # "approved"))
            /\ Become(w, IF Key(w) = NoKey
                         THEN Transition(locals, "validating",
                                         "submit_validated")
                         ELSE [locals EXCEPT !.pc = "submit_idem"])
  /\ UNCHANGED Outside

SubmitIdempotency(w) ==
  /\ At(w, "submit_idem")
  /\ IF db.idem[Key(w)] # NoTask
     THEN GiveUp(w) /\ Read                      \* IntegrityError
     ELSE /\ Write(CreateIdempotencyRecord(db, Key(w), Task(w)))
          /\ Become(w, Transition(thread[w], "validating", "submit_validated"))
  /\ UNCHANGED Outside

\* The end of enqueue_task, after its transition to queued: submit_task goes on
\* with process_queue, dispatch_task with the dispatch.
EnqueueTask(w) ==
  /\ At(w, "enqueue_row")
  /\ Write(EnqueueRow(db, Task(w), now))
  /\ Goto(w, IF thread[w].op = "submit" /\ ~thread[w].caught
             THEN "pq_read" ELSE "d_ready")
  /\ UNCHANGED Outside

-----------------------------------------------------------------------------
(* process_queue and claim_queue_item *)

\* The row decides whether there is anything to do; `now` is read here, once.
ProcessRead(w) ==
  /\ At(w, "pq_read")
  /\ LET row == db.queue[Task(w)]
         locals == [thread[w] EXCEPT !.at = now, !.attempts = row.attempts]
     IN CASE ~HasRow(db, Task(w)) -> GiveUp(w)                    \* KeyError
          [] HasRow(db, Task(w)) /\ (row.status # "queued" \/ row.next > now) ->
               Goto(w, "return")
          [] OTHER ->
               Become(w, IF thread[w].worker = NoWorker
                         THEN [locals EXCEPT !.pc = "d_read", !.caught = TRUE]
                         ELSE [locals EXCEPT !.pc = "claim_read"])
  /\ Read
  /\ UNCHANGED Outside

\* Only a lease of another worker that is still running refuses the claim.
Leased(row, worker, at) ==
  row.worker \notin {NoWorker, worker} /\ row.lease > at

ClaimRead(w) ==
  /\ At(w, "claim_read")
  /\ IF HasRow(db, Task(w))
        /\ ~Leased(db.queue[Task(w)], thread[w].worker, thread[w].at)
     THEN Goto(w, "claim_write")
     ELSE GiveUp(w)
  /\ Read
  /\ UNCHANGED Outside

\* The claim, and the row read again inside process_queue.
ClaimWrite(w) ==
  /\ At(w, "claim_write")
  /\ Write(ClaimRow(db, Task(w), thread[w].worker,
                    Deadline(thread[w].at, LeaseSeconds)))
  /\ IF HasRow(db, Task(w))
     THEN Become(w, [thread[w] EXCEPT !.pc = "d_read", !.caught = TRUE,
                                      !.attempts = db.queue[Task(w)].attempts])
     ELSE GiveUp(w)
  /\ UNCHANGED Outside

-----------------------------------------------------------------------------
(* dispatch_task *)

\* A worker must own the row; whether its lease still runs is not asked.
Dispatchable(w) ==
  /\ db.task[Task(w)].state = "queued"
  /\ \/ thread[w].worker = NoWorker
     \/ HasRow(db, Task(w)) /\ db.queue[Task(w)].worker = thread[w].worker

Ready(w) ==
  IF Dispatchable(w)
  THEN Become(w, Transition(thread[w], "running", "d_running"))
  ELSE Raise(w)

DispatchRead(w) ==
  /\ At(w, "d_read")
  /\ IF db.task[Task(w)].state = "approved"
     THEN Become(w, Transition(thread[w], "queued", "enqueue_row"))
     ELSE Ready(w)
  /\ Read
  /\ UNCHANGED Outside

\* The second read of dispatch_task, after it enqueued the task itself.
DispatchReady(w) ==
  /\ At(w, "d_ready")
  /\ Ready(w)
  /\ Read
  /\ UNCHANGED Outside

DispatchRunning(w) ==
  /\ At(w, "d_running")
  /\ Write(MarkRunning(db, Task(w), Deadline(now, TimeoutSeconds)))
  /\ Goto(w, "d_dispatched")
  /\ UNCHANGED Outside

DispatchDispatched(w) ==
  /\ At(w, "d_dispatched")
  /\ Write(MarkDispatched(db, Task(w)))
  /\ Goto(w, "d_submit")
  /\ UNCHANGED Outside

\* HermesDispatchClient.submit: the request reaches Hermes, which executes.
SubmitReceived(w) ==
  /\ At(w, "d_submit")
  /\ runs' = [runs EXCEPT ![Task(w)] = IF @ < RunCap THEN @ + 1 ELSE @]
  /\ Goto(w, "d_wait")
  /\ Read
  /\ UNCHANGED <<files, now, crashes, answers, acked>>

\* Hermes is not reachable.
SubmitFails(w) ==
  /\ At(w, "d_submit")
  /\ Raise(w)
  /\ Read
  /\ UNCHANGED Outside

\* Hermes refuses (rate limit, token, bad request) with a JSON body: submit
\* returns the body like an answer and dispatch_task drops it.
SubmitRefused(w) ==
  /\ At(w, "d_submit")
  /\ Goto(w, "return")
  /\ Read
  /\ UNCHANGED Outside

SubmitAnswered(w) ==
  /\ At(w, "d_wait")
  /\ Goto(w, "return")
  /\ Read
  /\ UNCHANGED Outside

\* The execution started and its response is lost or not JSON.
SubmitBroken(w) ==
  /\ At(w, "d_wait")
  /\ Raise(w)
  /\ Read
  /\ UNCHANGED Outside

-----------------------------------------------------------------------------
(* The except branch of process_queue *)

DeadLetter(w) ==
  /\ At(w, "e_dead")
  /\ Write(MarkDeadLetter(db, Task(w), thread[w].attempts + 1))
  /\ Become(w, Transition(thread[w], "failed", "return"))
  /\ UNCHANGED Outside

\* The state is set whatever it is by now: no transition is asserted.
RetryState(w) ==
  /\ At(w, "e_state")
  /\ Write(UpdateTaskState(db, Task(w), "queued"))
  /\ Goto(w, "e_retry")
  /\ UNCHANGED Outside

RetryRow(w) ==
  /\ At(w, "e_retry")
  /\ LET attempt == thread[w].attempts + 1
     IN Write(MarkRetry(db, Task(w), attempt,
                        Deadline(thread[w].at, Backoff(attempt))))
  /\ Goto(w, "return")
  /\ UNCHANGED Outside

-----------------------------------------------------------------------------
(* record_result *)

\* Faulty variant: whatever Hermes reports, the task succeeds.
ResultReadOptimistic(w) ==
  /\ At(w, "r_read")
  /\ IF ~HasTask(db, Task(w)) \/ db.result[Task(w)] # NoResult
     THEN GiveUp(w)
     ELSE Become(w, Transition(thread[w], "succeeded", "r_store"))
  /\ Read
  /\ UNCHANGED Outside

\* Faulty variant: a result that comes again is stored again.
ResultReadReplay(w) ==
  /\ At(w, "r_read")
  /\ CASE ~HasTask(db, Task(w)) -> GiveUp(w)
       [] db.result[Task(w)] # NoResult -> Goto(w, "r_store")
       [] OTHER -> Become(w, Transition(thread[w], thread[w].status, "r_store"))
  /\ Read
  /\ UNCHANGED Outside

\* Faulty variant: a verdict that a crash left without its result gets the one
\* that is delivered now.
ResultReadRepair(w) ==
  /\ At(w, "r_read")
  /\ CASE ~HasTask(db, Task(w)) -> GiveUp(w)
       [] db.result[Task(w)] # NoResult \/ db.task[Task(w)].state = "cancelled" ->
            Goto(w, "return")
       [] db.result[Task(w)] = NoResult /\ db.task[Task(w)].state \in RunStatus ->
            Goto(w, "r_store")
       [] OTHER -> Become(w, Transition(thread[w], thread[w].status, "r_store"))
  /\ Read
  /\ UNCHANGED Outside

ResultRead(w) ==
  /\ At(w, "r_read")
  /\ LET t == Task(w) IN
       CASE ~HasTask(db, t) -> GiveUp(w)                           \* KeyError
         [] HasTask(db, t) /\ (db.result[t] # NoResult
                               \/ db.task[t].state = "cancelled") ->
              Goto(w, "return")             \* recorded already, or ignored
         [] OTHER ->
              Become(w, Transition(thread[w], thread[w].status, "r_store"))
  /\ Read
  /\ UNCHANGED Outside

\* A transaction of its own: the transition is committed before it starts.
ResultStore(w) ==
  /\ At(w, "r_store")
  /\ Write(StoreResult(db, Task(w), thread[w].status))
  /\ Goto(w, "r_commit")
  /\ UNCHANGED Outside

ResultCommit(w) ==
  /\ At(w, "r_commit")
  /\ Commit(db)
  /\ Goto(w, "r_file")
  /\ UNCHANGED Outside

\* persist_result of the storage layout.
ResultFile(w) ==
  /\ At(w, "r_file")
  /\ files' = files \cup {Task(w)}
  /\ Goto(w, "return")
  /\ Read
  /\ UNCHANGED <<now, crashes, runs, answers, acked>>

-----------------------------------------------------------------------------
(* cancel_task: check, then act, and nothing commits *)

CancelRead(w) ==
  /\ At(w, "c_read")
  /\ LET state == db.task[Task(w)].state IN
       CASE state = "cancelled" -> Goto(w, "return")
         [] state \in {"absent", "succeeded", "failed", "rejected"} -> GiveUp(w)
         [] OTHER ->
              Become(w, [thread[w] EXCEPT !.pc = "c_state",
                                          !.hasRow = HasRow(db, Task(w))])
  /\ Read
  /\ UNCHANGED Outside

CancelState(w) ==
  /\ At(w, "c_state")
  /\ Write(UpdateTaskState(db, Task(w), "cancelled"))
  /\ Goto(w, "c_row")
  /\ UNCHANGED Outside

CancelRow(w) ==
  /\ At(w, "c_row")
  /\ LET marked == IF thread[w].hasRow THEN MarkCancelled(db, Task(w)) ELSE db
     IN Write(AddAudit(marked, Task(w), "task_cancelled", "client"))
  /\ Goto(w, "return")
  /\ UNCHANGED Outside

-----------------------------------------------------------------------------
(* Operator tools: enforce_timeouts, recover_stuck_job,                    *)
(* recover_stuck_approval, delete_task                                     *)

\* The rows are listed once, and by status: a dispatched row is not listed.
TimeoutsList(w) ==
  /\ At(w, "to_list")
  /\ Become(w, [thread[w] EXCEPT
                  !.pc = "to_next", !.at = now,
                  !.todo = {t \in Tasks : /\ db.queue[t].status = "running"
                                          /\ db.queue[t].timeout # NoTime
                                          /\ db.queue[t].timeout <= now}])
  /\ Read
  /\ UNCHANGED Outside

\* An item that cannot fail any more ends the whole pass with a ValueError.
TimeoutsNext(w) ==
  /\ At(w, "to_next")
  /\ IF thread[w].todo = {}
     THEN Goto(w, "return") /\ Read
     ELSE \E t \in thread[w].todo :
            /\ Write(MarkTimedOut(db, t))
            /\ Become(w, Transition([thread[w] EXCEPT !.task = t,
                                                      !.todo = @ \ {t}],
                                    "failed", "to_next"))
  /\ UNCHANGED Outside

\* Neither the task's state nor the row's status is looked at.
RecoverJobRead(w) ==
  /\ At(w, "rj_read")
  /\ LET row == db.queue[Task(w)] IN
       IF /\ HasTask(db, Task(w)) /\ HasRow(db, Task(w))
          /\ row.worker # NoWorker /\ row.lease # NoTime /\ row.lease <= now
       THEN Goto(w, "rj_row")
       ELSE GiveUp(w)
  /\ Read
  /\ UNCHANGED Outside

RecoverJobRow(w) ==
  /\ At(w, "rj_row")
  /\ Write(ResetToQueued(db, Task(w)))
  /\ Goto(w, "rj_state")
  /\ UNCHANGED Outside

RecoverJobState(w) ==
  /\ At(w, "rj_state")
  /\ Write(UpdateTaskState(db, Task(w), "queued"))
  /\ Goto(w, "return")
  /\ UNCHANGED Outside

\* Any state goes back to review; the queue row stays as it is.
RecoverApproval(w) ==
  /\ At(w, "ra_write")
  /\ Write(UpdateTaskApproval(db, Task(w), "pending_approval", "pending"))
  /\ Goto(w, "return")
  /\ UNCHANGED Outside

DeleteRead(w) ==
  /\ At(w, "x_read")
  /\ IF HasTask(db, Task(w)) THEN Goto(w, "x_idem") ELSE GiveUp(w)
  /\ Read
  /\ UNCHANGED Outside

DeleteStatement(w, table, pc, next) ==
  /\ At(w, pc)
  /\ Write(DeleteFrom(db, Task(w), table))
  /\ Goto(w, next)
  /\ UNCHANGED Outside

\* The transaction of delete_task_data, in its order.
DeleteData(w) ==
  \/ DeleteStatement(w, "idem", "x_idem", "x_result")
  \/ DeleteStatement(w, "result", "x_result", "x_queue")
  \/ DeleteStatement(w, "queue", "x_queue", "x_audit")
  \/ DeleteStatement(w, "audit", "x_audit", "x_task")

DeleteTask(w) ==
  /\ At(w, "x_task")
  /\ Commit(DeleteFrom(db, Task(w), "task"))
  /\ Goto(w, "x_files")
  /\ acked' = [acked EXCEPT ![Task(w)] = {}]
  /\ UNCHANGED <<files, now, crashes, runs, answers>>

DeleteFiles(w) ==
  /\ At(w, "x_files")
  /\ files' = files \ {Task(w)}
  /\ Goto(w, "return")
  /\ Read
  /\ UNCHANGED <<now, crashes, runs, answers, acked>>

-----------------------------------------------------------------------------
(* Hermes, the clock and crashes *)

\* An execution ends.  Two executions of a task may end differently.
HermesAnswers(t, status) ==
  /\ runs[t] > 0
  /\ answers' = [answers EXCEPT ![t] = @ \cup {status}]
  /\ UNCHANGED <<db, disk, files, thread, now, crashes, runs, acked>>

Tick ==
  /\ now < MaxTime
  /\ now' = now + 1
  /\ UNCHANGED <<db, disk, files, thread, crashes, runs, answers, acked>>

\* The process dies and starts again: what was not committed is gone, and so is
\* every request it was serving.  Hermes and the result files are not affected.
Crash ==
  /\ crashes < MaxCrashes
  /\ crashes' = crashes + 1
  /\ db' = disk
  /\ thread' = [w \in Threads |-> Idle]
  /\ UNCHANGED <<disk, files, now, runs, answers, acked>>

-----------------------------------------------------------------------------
Request(w) ==
  \/ \E t \in Tasks :
       \/ RequestSubmit(w, t) \/ RequestApprove(w, t)
       \/ RequestReject(w, t) \/ RequestCancel(w, t)
       \/ \E status \in RunStatus : RequestResult(w, t, status)
       \/ \E worker \in Workers \cup {NoWorker} : RequestProcess(w, t, worker)
       \/ RequestRecoverJob(w, t) \/ RequestRecoverApproval(w, t)
       \/ RequestDelete(w, t)
  \/ RequestTimeouts(w)

Transact(w) == TransitionRead(w) \/ TransitionWrite(w) \/ TransitionCommit(w)

Submit(w) == SubmitLookup(w) \/ SubmitCreate(w) \/ SubmitIdempotency(w)
             \/ EnqueueTask(w)

Process(w) == ProcessRead(w) \/ ClaimRead(w) \/ ClaimWrite(w) \/ DeadLetter(w)
              \/ RetryState(w) \/ RetryRow(w)

Dispatch(w) ==
  \/ DispatchRead(w) \/ DispatchReady(w) \/ DispatchRunning(w)
  \/ DispatchDispatched(w) \/ SubmitReceived(w) \/ SubmitFails(w)
  \/ SubmitRefused(w) \/ SubmitAnswered(w) \/ SubmitBroken(w)

RecordResult(w) ==
  ResultRead(w) \/ ResultStore(w) \/ ResultCommit(w) \/ ResultFile(w)

Cancel(w) == CancelRead(w) \/ CancelState(w) \/ CancelRow(w)

Operate(w) ==
  \/ TimeoutsList(w) \/ TimeoutsNext(w) \/ RecoverJobRead(w)
  \/ RecoverJobRow(w) \/ RecoverJobState(w) \/ RecoverApproval(w)
  \/ DeleteRead(w) \/ DeleteData(w) \/ DeleteTask(w) \/ DeleteFiles(w)

\* A thread goes on with the request it is serving.
Serve(w) ==
  \/ Return(w) \/ Transact(w) \/ Submit(w) \/ Process(w) \/ Dispatch(w)
  \/ RecordResult(w) \/ Cancel(w) \/ Operate(w)

Hermes == \E t \in Tasks, status \in RunStatus : HermesAnswers(t, status)

Next ==
  \/ \E w \in Threads : Request(w) \/ Serve(w)
  \/ Hermes \/ Tick \/ Crash

Spec == Init /\ [][Next]_vars
=============================================================================
