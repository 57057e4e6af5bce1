-------------------------- MODULE PaperclipProofs --------------------------
(***************************************************************************)
(* Theorems about PaperclipService, for any number of tasks, threads and   *)
(* workers, any interleaving and any crash.                                *)
(***************************************************************************)
EXTENDS PaperclipProperties, TLAPS

-----------------------------------------------------------------------------
(* What the statements of PaperclipStore preserve: the types of the tables,  *)
(* one lemma per operator.                                                   *)

USE DEF Store, NoTime

\* A row that is there has the type of a row (db.get_task).
LEMMA TaskRowType ==
  ASSUME NEW s \in Store, NEW t \in Tasks, HasTask(s, t)
  PROVE  s.task[t] \in TaskRow
BY DEF HasTask

\* The same of a queue row (db.get_queue_item).
LEMMA QueueRowType ==
  ASSUME NEW s \in Store, NEW t \in Tasks, HasRow(s, t)
  PROVE  s.queue[t] \in QueueRow
BY DEF HasRow

\* Writing a typed row keeps the tables typed.
LEMMA PutTaskType ==
  ASSUME NEW s \in Store, NEW t \in Tasks, NEW row \in TaskRow
  PROVE  [s EXCEPT !.task = [@ EXCEPT ![t] = row]] \in Store
OBVIOUS

\* The same for the queue.
LEMMA PutQueueType ==
  ASSUME NEW s \in Store, NEW t \in Tasks, NEW row \in QueueRow
  PROVE  [s EXCEPT !.queue[t] = row] \in Store
OBVIOUS

\* The other tables, one statement each.
LEMMA AddAuditType ==
  ASSUME NEW s \in Store, NEW t \in Tasks, NEW event, NEW actor,
         <<event, actor>> \in AuditEvents
  PROVE  AddAudit(s, t, event, actor) \in Store
BY DEF AddAudit

\* db.create_idempotency_record
LEMMA CreateIdempotencyRecordType ==
  ASSUME NEW s \in Store, NEW k \in Keys, NEW t \in Tasks
  PROVE  CreateIdempotencyRecord(s, k, t) \in Store
BY DEF CreateIdempotencyRecord

\* db.store_result
LEMMA StoreResultType ==
  ASSUME NEW s \in Store, NEW t \in Tasks, NEW status \in RunStatus
  PROVE  StoreResult(s, t, status) \in Store
BY DEF StoreResult

\* The history of human approvals.
LEMMA GrantType ==
  ASSUME NEW s \in Store, NEW t \in Tasks
  PROVE  Grant(s, t) \in Store
BY DEF Grant

\* The tables delete_task_data empties.
DeletedTables == {"idem", "result", "queue", "audit", "task"}

\* db.delete_task_data
LEMMA DeleteFromType ==
  ASSUME NEW s \in Store, NEW t \in Tasks, NEW table \in DeletedTables
  PROVE  DeleteFrom(s, t, table) \in Store
BY DEF DeleteFrom, DeletedTables

\* A fresh database (the migrations).
LEMMA EmptyStoreType == EmptyStore \in Store
BY DEF EmptyStore

\* From here on only the lemmas above know what a Store is.
HIDE DEF Store

\* CreateTask inserts a typed row (db.create_task).
LEMMA CreateTaskType ==
  ASSUME NEW s \in Store, NEW t \in Tasks, NEW approval \in ApprovalStatus,
         NEW review \in BOOLEAN
  PROVE  CreateTask(s, t, approval, review) \in Store
<1> DEFINE row == [state |-> "received", approval |-> approval,
                    review |-> review]
<1>1. row \in TaskRow
  BY DEF TaskRow, States
<1>2. CreateTask(s, t, approval, review)
        = [s EXCEPT !.task = [@ EXCEPT ![t] = row]]
  BY DEF CreateTask
<1> HIDE DEF row
<1> QED BY <1>1, <1>2, PutTaskType

\* UpdateTaskState keeps the types, with or without a row to update.
LEMMA UpdateTaskStateType ==
  ASSUME NEW s \in Store, NEW t \in Tasks, NEW state \in States
  PROVE  UpdateTaskState(s, t, state) \in Store
<1>1. CASE HasTask(s, t)
  <2> DEFINE row == [s.task[t] EXCEPT !.state = state]
  <2>1. row \in TaskRow
    BY <1>1, TaskRowType DEF TaskRow
  <2>2. UpdateTaskState(s, t, state) = [s EXCEPT !.task = [@ EXCEPT ![t] = row]]
    BY <1>1 DEF UpdateTaskState
  <2> HIDE DEF row
  <2> QED BY <2>1, <2>2, PutTaskType
<1>2. CASE ~HasTask(s, t)
  BY <1>2 DEF UpdateTaskState
<1> QED BY <1>1, <1>2

\* The same of update_task_state with an approval status.
LEMMA UpdateTaskApprovalType ==
  ASSUME NEW s \in Store, NEW t \in Tasks, NEW state \in States,
         NEW approval \in ApprovalStatus
  PROVE  UpdateTaskApproval(s, t, state, approval) \in Store
<1>1. CASE HasTask(s, t)
  <2> DEFINE row == [s.task[t] EXCEPT !.state = state, !.approval = approval]
  <2>1. row \in TaskRow
    BY <1>1, TaskRowType DEF TaskRow
  <2>2. UpdateTaskApproval(s, t, state, approval)
          = [s EXCEPT !.task = [@ EXCEPT ![t] = row]]
    BY <1>1 DEF UpdateTaskApproval
  <2> HIDE DEF row
  <2> QED BY <2>1, <2>2, PutTaskType
<1>2. CASE ~HasTask(s, t)
  BY <1>2 DEF UpdateTaskApproval
<1> QED BY <1>1, <1>2

\* The row enqueue_task inserts is typed.
LEMMA EnqueueRowType ==
  ASSUME NEW s \in Store, NEW t \in Tasks, NEW time \in Nat
  PROVE  EnqueueRow(s, t, time) \in Store
<1> DEFINE row == [status |-> "queued", attempts |-> 0, next |-> time,
                   worker |-> NoWorker, lease |-> NoTime, timeout |-> NoTime]
<1>1. row \in QueueRow
  BY DEF QueueRow, RowStatus, NoTime
<1>2. EnqueueRow(s, t, time) = [s EXCEPT !.queue[t] = row]
  BY DEF EnqueueRow
<1> HIDE DEF row
<1> QED BY <1>1, <1>2, PutQueueType

\* db.claim_queue_item
LEMMA ClaimRowType ==
  ASSUME NEW s \in Store, NEW t \in Tasks,
         NEW w \in Workers, NEW lease \in Nat
  PROVE  ClaimRow(s, t, w, lease) \in Store
<1>1. CASE HasRow(s, t)
  <2> DEFINE row == [s.queue[t] EXCEPT !.worker = w, !.lease = lease]
  <2>1. s.queue[t] \in QueueRow
    BY <1>1, QueueRowType
  <2>2. row \in QueueRow
    BY <2>1 DEF QueueRow, RowStatus
  <2>3. ClaimRow(s, t, w, lease) = [s EXCEPT !.queue[t] = row]
    BY <1>1 DEF ClaimRow, UpdateRow
  <2> HIDE DEF row
  <2> QED BY <2>2, <2>3, PutQueueType
<1>2. CASE ~HasRow(s, t)
  BY <1>2 DEF ClaimRow, UpdateRow
<1> QED BY <1>1, <1>2

\* db.mark_queue_running
LEMMA MarkRunningType ==
  ASSUME NEW s \in Store, NEW t \in Tasks, NEW timeout \in Nat
  PROVE  MarkRunning(s, t, timeout) \in Store
<1>1. CASE HasRow(s, t)
  <2> DEFINE row == [s.queue[t] EXCEPT !.status = "running",
                                       !.timeout = timeout]
  <2>1. s.queue[t] \in QueueRow
    BY <1>1, QueueRowType
  <2>2. row \in QueueRow
    BY <2>1 DEF QueueRow, RowStatus
  <2>3. MarkRunning(s, t, timeout) = [s EXCEPT !.queue[t] = row]
    BY <1>1 DEF MarkRunning, UpdateRow
  <2> HIDE DEF row
  <2> QED BY <2>2, <2>3, PutQueueType
<1>2. CASE ~HasRow(s, t)
  BY <1>2 DEF MarkRunning, UpdateRow
<1> QED BY <1>1, <1>2

\* db.mark_queue_dispatched, _timed_out and _cancelled
LEMMA MarkStatusType ==
  ASSUME NEW s \in Store, NEW t \in Tasks, NEW status \in RowStatus
  PROVE  MarkStatus(s, t, status) \in Store
<1>1. CASE HasRow(s, t)
  <2> DEFINE row == [s.queue[t] EXCEPT !.status = status]
  <2>1. s.queue[t] \in QueueRow
    BY <1>1, QueueRowType
  <2>2. row \in QueueRow
    BY <2>1 DEF QueueRow, RowStatus
  <2>3. MarkStatus(s, t, status) = [s EXCEPT !.queue[t] = row]
    BY <1>1 DEF MarkStatus, UpdateRow
  <2> HIDE DEF row
  <2> QED BY <2>2, <2>3, PutQueueType
<1>2. CASE ~HasRow(s, t)
  BY <1>2 DEF MarkStatus, UpdateRow
<1> QED BY <1>1, <1>2

\* db.reset_queue_to_queued
LEMMA ResetToQueuedType ==
  ASSUME NEW s \in Store, NEW t \in Tasks
  PROVE  ResetToQueued(s, t) \in Store
<1>1. CASE HasRow(s, t)
  <2> DEFINE row == [s.queue[t] EXCEPT !.status = "queued", !.worker = NoWorker,
                                   !.lease = NoTime, !.timeout = NoTime]
  <2>1. s.queue[t] \in QueueRow
    BY <1>1, QueueRowType
  <2>2. row \in QueueRow
    BY <2>1 DEF QueueRow, RowStatus, NoTime
  <2>3. ResetToQueued(s, t) = [s EXCEPT !.queue[t] = row]
    BY <1>1 DEF ResetToQueued, UpdateRow
  <2> HIDE DEF row
  <2> QED BY <2>2, <2>3, PutQueueType
<1>2. CASE ~HasRow(s, t)
  BY <1>2 DEF ResetToQueued, UpdateRow
<1> QED BY <1>1, <1>2

\* db.mark_queue_retry
LEMMA MarkRetryType ==
  ASSUME NEW s \in Store, NEW t \in Tasks,
         NEW attempts \in Nat, NEW next \in Nat
  PROVE  MarkRetry(s, t, attempts, next) \in Store
<1>1. CASE HasRow(s, t)
  <2> DEFINE row == [s.queue[t] EXCEPT !.status = "queued",
                                   !.attempts = attempts, !.next = next]
  <2>1. s.queue[t] \in QueueRow
    BY <1>1, QueueRowType
  <2>2. row \in QueueRow
    BY <2>1 DEF QueueRow, RowStatus
  <2>3. MarkRetry(s, t, attempts, next) = [s EXCEPT !.queue[t] = row]
    BY <1>1 DEF MarkRetry, UpdateRow
  <2> HIDE DEF row
  <2> QED BY <2>2, <2>3, PutQueueType
<1>2. CASE ~HasRow(s, t)
  BY <1>2 DEF MarkRetry, UpdateRow
<1> QED BY <1>1, <1>2

\* db.mark_queue_dead_letter
LEMMA MarkDeadLetterType ==
  ASSUME NEW s \in Store, NEW t \in Tasks, NEW attempts \in Nat
  PROVE  MarkDeadLetter(s, t, attempts) \in Store
<1>1. CASE HasRow(s, t)
  <2> DEFINE row == [s.queue[t] EXCEPT !.status = "dead_letter",
                                   !.attempts = attempts]
  <2>1. s.queue[t] \in QueueRow
    BY <1>1, QueueRowType
  <2>2. row \in QueueRow
    BY <2>1 DEF QueueRow, RowStatus
  <2>3. MarkDeadLetter(s, t, attempts) = [s EXCEPT !.queue[t] = row]
    BY <1>1 DEF MarkDeadLetter, UpdateRow
  <2> HIDE DEF row
  <2> QED BY <2>2, <2>3, PutQueueType
<1>2. CASE ~HasRow(s, t)
  BY <1>2 DEF MarkDeadLetter, UpdateRow
<1> QED BY <1>1, <1>2

HIDE DEF NoTime

-----------------------------------------------------------------------------

(***************************************************************************)
(* What the locals of a thread are at each point of the code, beyond their *)
(* types: a request names a task, a call of transition_task has a target,  *)
(* a retry has attempts left.                                              *)
(***************************************************************************)
InTransition(l) == l.pc \in {"t_read", "t_write", "t_commit"}

NamesTask(l) ==
  \/ l.pc \in {"idle", "to_list", "to_next"}
  \/ l.pc = "return" /\ l.op = "timeouts"
  \/ l.task \in Tasks

ThreadOK(l) ==
  /\ l \in Locals
  /\ NamesTask(l)
  /\ l.pc \in {"to_list", "to_next"} => l.op = "timeouts"
  /\ InTransition(l) => l.target \in States
  /\ InTransition(l) /\ l.then = "to_next" => l.op = "timeouts"
  /\ InTransition(l) /\ l.then \in {"submit_validated", "submit_decided"}
       => l.goal \in States
  /\ InTransition(l) /\ l.then = "r_store" => l.status \in RunStatus
  /\ l.pc \in {"r_read", "r_store"} => l.status \in RunStatus
  /\ l.pc = "submit_idem" => l.goal \in States
  /\ l.pc \in {"submit_lookup", "submit_idem"} => KeyOf[l.task] \in Keys
  /\ l.pc \in {"claim_read", "claim_write"} => l.worker \in Workers
  /\ l.pc \in {"e_state", "e_retry"} => l.attempts + 1 < MaxAttempts
  /\ l.pc = "e_dead" => l.attempts + 1 >= MaxAttempts
  /\ l.pc \in {"rj_read", "rj_row"} => "recover_job" \in Ops

TypeInv ==
  /\ TypeOK
  /\ \A w \in Threads : ThreadOK(thread[w])

-----------------------------------------------------------------------------
(* Control flow keeps ThreadOK *)

LEMMA ThreadIsTyped == ASSUME NEW l, ThreadOK(l) PROVE l \in Locals
BY DEF ThreadOK

\* A thread that has given up, or was never used.
LEMMA IdleOK == ThreadOK(Idle)
BY
   DEF ThreadOK, NamesTask, InTransition, Idle, Locals, PCs, Continuations,
       NoTime

\* The points of the code that ask nothing of the locals but a task.
PlainPCs == {"enqueue_row", "pq_read", "d_read", "d_ready", "d_running",
             "d_dispatched", "d_submit", "d_wait", "r_commit", "r_file",
             "c_read", "c_state", "c_row", "rj_state", "ra_write", "x_read",
             "x_idem", "x_result", "x_queue", "x_audit", "x_task", "x_files",
             "return"}

LEMMA PlainOK ==
  ASSUME NEW l \in Locals, l.pc \in PlainPCs, l.task \in Tasks
  PROVE  ThreadOK(l)
BY DEF ThreadOK, NamesTask, InTransition, PlainPCs

LEMMA GotoOK ==
  ASSUME NEW l, ThreadOK(l), NEW pc \in PlainPCs, l.task \in Tasks
  PROVE  ThreadOK([l EXCEPT !.pc = pc])
BY DEF ThreadOK, NamesTask, InTransition, Locals, PlainPCs, PCs

\* A call of transition_task.
LEMMA TransitionOK ==
  ASSUME NEW l, ThreadOK(l), l.task \in Tasks,
         NEW target \in States, NEW then \in Continuations,
         then = "to_next" => l.op = "timeouts",
         then \in {"submit_validated", "submit_decided"} => l.goal \in States,
         then = "r_store" => l.status \in RunStatus
  PROVE  ThreadOK(Transition(l, target, then))
<1> DEFINE m == Transition(l, target, then)
<1>0. l \in Locals
  BY ThreadIsTyped
<1>1. m \in Locals
  BY <1>0 DEF Locals, PCs, Transition
<1>2. /\ m.pc = "t_read" /\ m.target = target /\ m.then = then
      /\ m.task = l.task /\ m.op = l.op /\ m.goal = l.goal
      /\ m.status = l.status
  BY <1>0 DEF Locals, Transition
<1> HIDE DEF m
<1>3. ThreadOK(m)
  BY <1>1, <1>2 DEF ThreadOK, NamesTask, InTransition
<1> QED BY <1>3 DEF m

\* An exception, caught or not.
LEMMA RaisedOK ==
  ASSUME NEW l, ThreadOK(l), l.task \in Tasks
  PROVE  ThreadOK(Raised(l))
<1>1. CASE l.caught
  <2> DEFINE pc == IF l.attempts + 1 >= MaxAttempts THEN "e_dead" ELSE "e_state"
             m == [l EXCEPT !.caught = FALSE, !.pc = pc]
  <2>0. l \in Locals
    BY ThreadIsTyped
  <2>1. /\ pc \in {"e_dead", "e_state"}
        /\ pc = "e_state" => l.attempts + 1 < MaxAttempts
        /\ pc = "e_dead" => l.attempts + 1 >= MaxAttempts
    BY <2>0, StoreAssumption DEF Locals
  <2>2. Raised(l) = m
    BY <1>1 DEF Raised
  <2> HIDE DEF pc
  <2>6. pc \in PCs
    BY <2>1 DEF PCs
  <2>3. m \in Locals
    BY <2>0, <2>6 DEF Locals
  <2>4. m.pc = pc /\ m.task = l.task /\ m.attempts = l.attempts
    BY <2>0 DEF Locals
  <2> HIDE DEF m
  <2>5. ThreadOK(m)
    BY <2>1, <2>3, <2>4 DEF ThreadOK, NamesTask, InTransition
  <2> QED BY <2>2, <2>5
<1>2. CASE ~l.caught
  BY <1>2, IdleOK DEF Raised
<1> QED BY <1>1, <1>2

\* transition_task returns.
LEMMA AfterOK ==
  ASSUME NEW l, ThreadOK(l), l.pc = "t_commit"
  PROVE  ThreadOK(After(l))
<1>0. l.task \in Tasks /\ l.then \in Continuations
  BY DEF ThreadOK, NamesTask, Locals
<1>1. CASE l.then = "submit_validated"
  <2>1. l.goal \in States
    BY <1>1 DEF ThreadOK, InTransition
  <2> QED BY <1>0, <1>1, <2>1, TransitionOK DEF After, Continuations
<1>2. CASE l.then = "submit_decided" /\ l.goal = "approved"
  <2>1. "queued" \in States /\ "enqueue_row" \in Continuations
    BY DEF States, Continuations
  <2> QED BY <1>0, <1>2, <2>1, TransitionOK DEF After
<1>3. CASE l.then = "submit_decided" /\ l.goal # "approved"
  BY <1>0, <1>3, GotoOK DEF After, PlainPCs
<1>4. CASE l.then \in {"enqueue_row", "d_read", "d_running", "return"}
  BY <1>0, <1>4, GotoOK DEF After, PlainPCs
<1>5. CASE l.then \in {"r_store", "to_next"}
  <2>1. After(l) = [l EXCEPT !.pc = l.then]
    BY <1>5 DEF After
  <2> QED BY <1>0, <1>5, <2>1 DEF ThreadOK, NamesTask, InTransition, Locals, PCs
<1> QED BY <1>0, <1>1, <1>2, <1>3, <1>4, <1>5 DEF Continuations

-----------------------------------------------------------------------------
(* The three kinds of step of a thread keep TypeInv *)

LEMMA BecomeOK ==
  ASSUME TypeInv, NEW w \in Threads, NEW l, ThreadOK(l), Become(w, l)
  PROVE  /\ thread' \in [Threads -> Locals]
         /\ \A v \in Threads : ThreadOK(thread'[v])
BY ThreadIsTyped DEF TypeInv, TypeOK, Become

\* A step that only reads.
LEMMA ReadStep ==
  ASSUME TypeInv, NEW w \in Threads, NEW l, ThreadOK(l), Become(w, l),
         Read, UNCHANGED Outside
  PROVE  TypeInv'
BY BecomeOK DEF TypeInv, TypeOK, Read, Outside

\* A statement.
LEMMA WriteStep ==
  ASSUME TypeInv, NEW w \in Threads, NEW l, ThreadOK(l), Become(w, l),
         NEW s \in Store, Write(s), UNCHANGED Outside
  PROVE  TypeInv'
BY BecomeOK DEF TypeInv, TypeOK, Write, Outside

\* A transaction.
LEMMA CommitStep ==
  ASSUME TypeInv, NEW w \in Threads, NEW l, ThreadOK(l), Become(w, l),
         NEW s \in Store, Commit(s), UNCHANGED Outside
  PROVE  TypeInv'
BY BecomeOK DEF TypeInv, TypeOK, Commit, Outside

\* A thread that is serving a request about a task.
LEMMA Serving ==
  ASSUME TypeInv, NEW w \in Threads,
         thread[w].pc \notin {"idle", "to_list", "to_next", "return"}
  PROVE  Task(w) \in Tasks /\ ThreadOK(thread[w])
BY DEF TypeInv, ThreadOK, NamesTask, Task

\* The stores of a reachable state are typed.
LEMMA StoreTyped ==
  ASSUME TypeInv
  PROVE  /\ db \in Store /\ disk \in Store
         /\ \A t \in Tasks : db.task[t] \in TaskRow \cup {NoTaskRow}
BY DEF TypeInv, TypeOK, Store

\* Giving up, raising and going on are steps of the thread.
LEMMA GiveUpOK ==
  ASSUME NEW w \in Threads, GiveUp(w)
  PROVE  ThreadOK(Idle) /\ Become(w, Idle)
BY IdleOK DEF GiveUp

LEMMA RaiseOK ==
  ASSUME TypeInv, NEW w \in Threads, Raise(w), ThreadOK(thread[w]),
         Task(w) \in Tasks
  PROVE  ThreadOK(Raised(thread[w])) /\ Become(w, Raised(thread[w]))
BY RaisedOK DEF Raise, Task

LEMMA GoOK ==
  ASSUME TypeInv, NEW w \in Threads, NEW pc \in PlainPCs, Goto(w, pc),
         ThreadOK(thread[w]), Task(w) \in Tasks
  PROVE  /\ ThreadOK([thread[w] EXCEPT !.pc = pc])
         /\ Become(w, [thread[w] EXCEPT !.pc = pc])
BY GotoOK DEF Goto, Task

-----------------------------------------------------------------------------
(* TypeInv, one lemma per group of actions *)

LEMMA TransitionReadType ==
  ASSUME TypeInv, NEW w \in Threads, TransitionRead(w)
  PROVE  TypeInv'
<1>1. Task(w) \in Tasks /\ ThreadOK(thread[w]) /\ thread[w].pc = "t_read"
  BY Serving DEF TransitionRead, At
<1>2. Read /\ UNCHANGED Outside
  BY DEF TransitionRead
<1>3. CASE CanTransition(db.task[Task(w)].state, thread[w].target)
  <2> DEFINE l == [thread[w] EXCEPT !.pc = "t_write"]
  <2>1. Become(w, l)
    BY <1>3 DEF TransitionRead, Goto
  <2>2. ThreadOK(l)
    BY <1>1 DEF ThreadOK, NamesTask, InTransition, Locals, PCs
  <2> QED BY <1>2, <2>1, <2>2, ReadStep
<1>4. CASE ~CanTransition(db.task[Task(w)].state, thread[w].target)
  BY <1>1, <1>2, <1>4, RaiseOK, ReadStep DEF TransitionRead
<1> QED BY <1>3, <1>4

\* The store a transition leaves is typed.
LEMMA ApplyTransitionType ==
  ASSUME NEW s \in Store, NEW t \in Tasks, NEW target \in States,
         NEW actor \in Actors
  PROVE  ApplyTransition(s, t, target, actor) \in Store
<1>0. /\ {"approved", "pending_approval", "rejected"} \subseteq States
      /\ {"pending", "approved", "rejected"} \subseteq ApprovalStatus
  BY DEF States, ApprovalStatus
<1>1. CASE target = "pending_approval"
  BY <1>0, <1>1, UpdateTaskApprovalType DEF ApplyTransition
<1>2. CASE target = "approved"
  BY <1>0, <1>2, UpdateTaskApprovalType, GrantType DEF ApplyTransition
<1>3. CASE target = "rejected"
  BY <1>0, <1>3, UpdateTaskApprovalType DEF ApplyTransition
<1>4. CASE target \notin {"pending_approval", "approved", "rejected"}
  BY <1>4, UpdateTaskStateType DEF ApplyTransition
<1> QED BY <1>1, <1>2, <1>3, <1>4

LEMMA AuditTransitionType ==
  ASSUME NEW s \in Store, NEW t \in Tasks, NEW target, NEW actor \in Actors
  PROVE  AuditTransition(s, t, target, actor) \in Store
BY AddAuditType DEF AuditTransition, AuditEvents

LEMMA TransitionWriteType ==
  ASSUME TypeInv, NEW w \in Threads, TransitionWrite(w)
  PROVE  TypeInv'
<1> DEFINE s == ApplyTransition(db, Task(w), thread[w].target, Actor(w))
           l == [thread[w] EXCEPT !.pc = "t_commit"]
<1>1. Task(w) \in Tasks /\ ThreadOK(thread[w]) /\ thread[w].pc = "t_write"
  BY Serving DEF TransitionWrite, At
<1>2. thread[w].target \in States /\ Actor(w) \in Actors
  BY <1>1 DEF ThreadOK, InTransition, Actor, Actors
<1>3. s \in Store
  BY <1>1, <1>2, StoreTyped, ApplyTransitionType
<1>4. ThreadOK(l)
  BY <1>1 DEF ThreadOK, NamesTask, InTransition, Locals, PCs
<1>5. Write(s) /\ Become(w, l) /\ UNCHANGED Outside
  BY DEF TransitionWrite, Goto
<1> HIDE DEF s, l
<1> QED BY <1>3, <1>4, <1>5, WriteStep

LEMMA TransitionCommitType ==
  ASSUME TypeInv, NEW w \in Threads, TransitionCommit(w)
  PROVE  TypeInv'
<1> DEFINE s == AuditTransition(db, Task(w), thread[w].target, Actor(w))
<1>1. Task(w) \in Tasks /\ ThreadOK(thread[w]) /\ thread[w].pc = "t_commit"
  BY Serving DEF TransitionCommit, At
<1>2. Actor(w) \in Actors
  BY DEF Actor, Actors
<1>3. s \in Store
  BY <1>1, <1>2, StoreTyped, AuditTransitionType
<1>4. Commit(s) /\ Become(w, After(thread[w])) /\ UNCHANGED Outside
  BY DEF TransitionCommit
<1> HIDE DEF s
<1> QED BY <1>1, <1>3, <1>4, AfterOK, CommitStep

LEMMA TransactType ==
  ASSUME TypeInv, NEW w \in Threads, Transact(w)
  PROVE  TypeInv'
BY TransitionReadType, TransitionWriteType, TransitionCommitType DEF Transact

\* A request is taken up.
LEMMA StartType ==
  ASSUME TypeInv, NEW w \in Threads, NEW op, NEW l, Start(w, op, l),
         ThreadOK([l EXCEPT !.op = op])
  PROVE  TypeInv'
<1> DEFINE m == [l EXCEPT !.op = op]
<1>1. ThreadOK(m) /\ Become(w, m) /\ Read /\ UNCHANGED Outside
  BY DEF Start
<1> HIDE DEF m
<1> QED BY <1>1, ReadStep

LEMMA FreshOK ==
  ASSUME NEW op \in Ops, NEW t \in Tasks, NEW pc \in PlainPCs
  PROVE  ThreadOK([[Idle EXCEPT !.pc = pc, !.task = t] EXCEPT !.op = op])
<1> DEFINE m == [[Idle EXCEPT !.pc = pc, !.task = t] EXCEPT !.op = op]
<1>1. m \in Locals
  BY DEF Idle, Locals, PCs, PlainPCs, Continuations, NoTime
<1>2. m.pc = pc /\ m.task = t
  BY DEF Idle
<1> HIDE DEF m
<1>3. ThreadOK(m)
  BY <1>1, <1>2 DEF ThreadOK, NamesTask, InTransition, PlainPCs
<1> QED BY <1>3 DEF m

LEMMA RequestSubmitType ==
  ASSUME TypeInv, NEW w \in Threads, NEW t \in Tasks, RequestSubmit(w, t)
  PROVE  TypeInv'
<1> DEFINE pc == IF KeyOf[t] = NoKey THEN "submit_create" ELSE "submit_lookup"
           l == [Idle EXCEPT !.pc = pc, !.task = t]
           m == [l EXCEPT !.op = "submit"]
<1>1. Start(w, "submit", l) /\ "submit" \in Ops
  BY DEF RequestSubmit, Start
<1>2. /\ pc \in {"submit_create", "submit_lookup"}
      /\ pc = "submit_lookup" => KeyOf[t] \in Keys
  BY ServiceAssumption
<1> HIDE DEF pc
<1>3. m \in Locals
  BY <1>1, <1>2 DEF Idle, Locals, PCs, Continuations, NoTime
<1>4. m.pc = pc /\ m.task = t
  BY DEF Idle
<1> HIDE DEF m
<1>5. ThreadOK(m)
  BY <1>2, <1>3, <1>4 DEF ThreadOK, NamesTask, InTransition
<1> QED BY <1>1, <1>5, StartType DEF m

\* The requests that call transition_task first.
LEMMA FreshTransitionOK ==
  ASSUME NEW op \in Ops, NEW t \in Tasks, NEW target \in States,
         NEW then \in {"d_read", "return"}
  PROVE  ThreadOK([Transition([Idle EXCEPT !.task = t], target, then)
                     EXCEPT !.op = op])
BY DEF ThreadOK, NamesTask, InTransition, Idle, Locals, PCs, Transition,
       Continuations, NoTime

LEMMA RequestType ==
  ASSUME TypeInv, NEW w \in Threads, Request(w)
  PROVE  TypeInv'
<1>1. ASSUME NEW t \in Tasks, RequestSubmit(w, t)
      PROVE  TypeInv'
  BY <1>1, RequestSubmitType
<1>2. ASSUME NEW t \in Tasks, RequestApprove(w, t)
      PROVE  TypeInv'
  BY <1>2, FreshTransitionOK, StartType DEF RequestApprove, Start, States
<1>3. ASSUME NEW t \in Tasks, RequestReject(w, t)
      PROVE  TypeInv'
  BY <1>3, FreshTransitionOK, StartType DEF RequestReject, Start, States
<1>4. ASSUME NEW t \in Tasks, NEW op \in Ops, NEW pc \in PlainPCs,
             Start(w, op, [Idle EXCEPT !.pc = pc, !.task = t])
      PROVE  TypeInv'
  <2> DEFINE l == [Idle EXCEPT !.pc = pc, !.task = t]
  <2>1. ThreadOK([l EXCEPT !.op = op])
    BY FreshOK
  <2>2. Start(w, op, l)
    BY <1>4
  <2> HIDE DEF l
  <2> QED BY <2>1, <2>2, StartType
<1>5. ASSUME NEW t \in Tasks,
             \/ RequestCancel(w, t) \/ RequestRecoverApproval(w, t)
             \/ RequestDelete(w, t)
      PROVE  TypeInv'
  BY <1>4, <1>5 DEF RequestCancel, RequestRecoverApproval, RequestDelete, Start,
                    PlainPCs
<1>6. ASSUME NEW t \in Tasks, NEW status \in RunStatus, RequestResult(w, t, status)
      PROVE  TypeInv'
  <2> DEFINE l == [Idle EXCEPT !.pc = "r_read", !.task = t, !.status = status]
  <2>1. Start(w, "result", l) /\ "result" \in Ops
    BY <1>6 DEF RequestResult, Start
  <2>2. ThreadOK([l EXCEPT !.op = "result"])
    BY <2>1 DEF ThreadOK, NamesTask, InTransition, Idle, Locals, PCs,
                Continuations, NoTime
  <2> HIDE DEF l
  <2> QED BY <2>1, <2>2, StartType
<1>7. ASSUME NEW t \in Tasks, NEW worker \in Workers \cup {NoWorker},
             RequestProcess(w, t, worker)
      PROVE  TypeInv'
  <2> DEFINE l == [Idle EXCEPT !.pc = "pq_read", !.task = t, !.worker = worker]
  <2>1. Start(w, "process", l) /\ "process" \in Ops
    BY <1>7 DEF RequestProcess, Start
  <2>2. ThreadOK([l EXCEPT !.op = "process"])
    BY <2>1 DEF ThreadOK, NamesTask, InTransition, Idle, Locals, PCs,
                Continuations, NoTime
  <2> HIDE DEF l
  <2> QED BY <2>1, <2>2, StartType
<1>8. CASE RequestTimeouts(w)
  <2> DEFINE l == [Idle EXCEPT !.pc = "to_list"]
  <2>1. Start(w, "timeouts", l) /\ "timeouts" \in Ops
    BY <1>8 DEF RequestTimeouts, Start
  <2>2. ThreadOK([l EXCEPT !.op = "timeouts"])
    BY <2>1 DEF ThreadOK, NamesTask, InTransition, Idle, Locals, PCs,
                Continuations, NoTime
  <2> HIDE DEF l
  <2> QED BY <2>1, <2>2, StartType
<1>9. ASSUME NEW t \in Tasks, RequestRecoverJob(w, t)
      PROVE  TypeInv'
  <2> DEFINE l == [Idle EXCEPT !.pc = "rj_read", !.task = t]
  <2>1. Start(w, "recover_job", l) /\ "recover_job" \in Ops
    BY <1>9 DEF RequestRecoverJob, Start
  <2>2. ThreadOK([l EXCEPT !.op = "recover_job"])
    BY <2>1 DEF ThreadOK, NamesTask, InTransition, Idle, Locals, PCs,
                Continuations, NoTime
  <2> HIDE DEF l
  <2> QED BY <2>1, <2>2, StartType
<1> QED BY <1>1, <1>2, <1>3, <1>5, <1>6, <1>7, <1>8, <1>9 DEF Request

\* The commonest steps: read, or write one statement, and go on or leave.
LEMMA GotoReads ==
  ASSUME TypeInv, NEW w \in Threads, NEW pc \in PlainPCs, Task(w) \in Tasks,
         Goto(w, pc), Read, UNCHANGED Outside
  PROVE  TypeInv'
<1>1. ThreadOK(thread[w])
  BY DEF TypeInv
<1> QED BY <1>1, GoOK, ReadStep

LEMMA GotoWrites ==
  ASSUME TypeInv, NEW w \in Threads, NEW pc \in PlainPCs, Task(w) \in Tasks,
         Goto(w, pc), NEW s \in Store, Write(s), UNCHANGED Outside
  PROVE  TypeInv'
<1>1. ThreadOK(thread[w])
  BY DEF TypeInv
<1> QED BY <1>1, GoOK, WriteStep

LEMMA RaiseReads ==
  ASSUME TypeInv, NEW w \in Threads, Task(w) \in Tasks, Raise(w), Read,
         UNCHANGED Outside
  PROVE  TypeInv'
<1>1. ThreadOK(thread[w])
  BY DEF TypeInv
<1> QED BY <1>1, RaiseOK, ReadStep

LEMMA GiveUpReads ==
  ASSUME TypeInv, NEW w \in Threads, GiveUp(w), Read, UNCHANGED Outside
  PROVE  TypeInv'
BY GiveUpOK, ReadStep

\* A call of transition_task, as a step of the thread.
LEMMA TransitionReads ==
  ASSUME TypeInv, NEW w \in Threads, Task(w) \in Tasks, NEW target \in States,
         NEW then \in {"enqueue_row", "d_read", "d_running", "return"},
         Become(w, Transition(thread[w], target, then)), Read, UNCHANGED Outside
  PROVE  TypeInv'
<1>1. ThreadOK(thread[w]) /\ then \in Continuations
  BY DEF TypeInv, Continuations
<1>2. ThreadOK(Transition(thread[w], target, then))
  BY <1>1, TransitionOK DEF Task
<1> QED BY <1>2, ReadStep

\* A deadline is a clock reading.
LEMMA DeadlineType ==
  ASSUME NEW at \in Nat, NEW seconds \in Nat
  PROVE  Deadline(at, seconds) \in Nat
BY ServiceAssumption DEF Deadline

LEMMA ReturnType ==
  ASSUME TypeInv, NEW w \in Threads, Return(w)
  PROVE  TypeInv'
<1>1. Become(w, Idle) /\ ThreadOK(Idle)
  BY GiveUpOK DEF Return
<1>2. acked' \in [Tasks -> SUBSET {"submit", "cancel"}]
  <2>1. CASE thread[w].op \in {"submit", "cancel"}
    <3>1. Task(w) \in Tasks
      BY <2>1 DEF Return, At, TypeInv, ThreadOK, NamesTask, Task
    <3> QED BY <2>1, <3>1 DEF Return, TypeInv, TypeOK
  <2>2. CASE thread[w].op \notin {"submit", "cancel"}
    BY <2>2 DEF Return, TypeInv, TypeOK
  <2> QED BY <2>1, <2>2
<1> QED BY <1>1, <1>2, BecomeOK DEF Return, Read, TypeInv, TypeOK

\* What submit_task does with one payload: the row, and where it goes on.
CreatesTask(w, required, status) ==
  LET locals == [thread[w] EXCEPT !.goal = NextState(required, status)] IN
  /\ Write(CreateTask(db, Task(w), status, required /\ status # "approved"))
  /\ Key(w) = NoKey =>
       Become(w, Transition(locals, "validating", "submit_validated"))
  /\ Key(w) # NoKey => Become(w, [locals EXCEPT !.pc = "submit_idem"])

LEMMA CreatesSome ==
  ASSUME NEW w \in Threads, SubmitCreate(w), ~HasTask(db, Task(w))
  PROVE  \E required \in BOOLEAN, status \in ApprovalStatus :
           CreatesTask(w, required, status)
BY DEF SubmitCreate, CreatesTask

LEMMA SubmitCreateType ==
  ASSUME TypeInv, NEW w \in Threads, SubmitCreate(w)
  PROVE  TypeInv'
<1>1. /\ Task(w) \in Tasks /\ ThreadOK(thread[w])
      /\ thread[w].pc = "submit_create" /\ UNCHANGED Outside
  BY Serving DEF SubmitCreate, At
<1>2. CASE HasTask(db, Task(w))
  BY <1>1, <1>2, GiveUpReads DEF SubmitCreate
<1>3. CASE ~HasTask(db, Task(w))
  <2>1. PICK required \in BOOLEAN, status \in ApprovalStatus :
               CreatesTask(w, required, status)
    BY <1>3, CreatesSome
  <2> DEFINE s == CreateTask(db, Task(w), status,
                             required /\ status # "approved")
             goal == NextState(required, status)
             m == [thread[w] EXCEPT !.goal = goal]
  <2>2. s \in Store
    BY <1>1, StoreTyped, CreateTaskType
  <2>3. /\ Write(s)
        /\ Key(w) = NoKey =>
             Become(w, Transition(m, "validating", "submit_validated"))
        /\ Key(w) # NoKey => Become(w, [m EXCEPT !.pc = "submit_idem"])
    BY <2>1 DEF CreatesTask
  <2>4. goal \in {"pending_approval", "approved"} /\ goal \in States
    BY DEF NextState, States
  <2> HIDE DEF s, goal
  <2>5. m.pc = "submit_create" /\ m.goal = goal /\ m.task = Task(w)
    BY <1>1 DEF ThreadOK, Locals, Task
  <2>6. ThreadOK(m)
    BY <1>1, <2>4 DEF ThreadOK, NamesTask, InTransition, Locals, Task
  <2> HIDE DEF m
  <2>7. CASE Key(w) = NoKey
    <3>1. ThreadOK(Transition(m, "validating", "submit_validated"))
      BY <1>1, <2>4, <2>5, <2>6, TransitionOK DEF States, Continuations
    <3> QED BY <1>1, <2>2, <2>3, <2>7, <3>1, WriteStep
  <2>8. CASE Key(w) # NoKey
    <3> DEFINE l == [m EXCEPT !.pc = "submit_idem"]
    <3>1. Key(w) \in Keys
      BY <1>1, <2>8, ServiceAssumption DEF Key
    <3>2. ThreadOK(l)
      BY <1>1, <2>4, <2>5, <2>6, <3>1
         DEF ThreadOK, NamesTask, InTransition, Locals, PCs, Key, Task
    <3> QED BY <1>1, <2>2, <2>3, <2>8, <3>2, WriteStep
  <2> QED BY <2>7, <2>8
<1> QED BY <1>2, <1>3

LEMMA SubmitLookupType ==
  ASSUME TypeInv, NEW w \in Threads, SubmitLookup(w)
  PROVE  TypeInv'
<1> DEFINE existing == db.idem[Key(w)]
<1>1. /\ Task(w) \in Tasks /\ ThreadOK(thread[w])
      /\ thread[w].pc = "submit_lookup" /\ Read /\ UNCHANGED Outside
  BY Serving DEF SubmitLookup, At
<1>2. existing \in Tasks \cup {NoTask}
  BY <1>1, StoreTyped DEF ThreadOK, Key, Task, Store
<1>3. CASE existing # NoTask /\ HasTask(db, existing)
  <2> DEFINE l == [thread[w] EXCEPT !.pc = "return", !.task = existing]
  <2>1. Become(w, l)
    BY <1>3 DEF SubmitLookup
  <2>2. existing \in Tasks
    BY <1>2, <1>3
  <2> HIDE DEF existing
  <2>3. ThreadOK(l)
    <3>0. thread[w] \in Locals
      BY <1>1, ThreadIsTyped
    <3>4. "return" \in PCs
      BY DEF PCs
    <3>1. l \in Locals
      BY <2>2, <3>0, <3>4 DEF Locals
    <3>2. l.pc \in PlainPCs /\ l.task \in Tasks
      BY <2>2, <3>0 DEF Locals, PlainPCs
    <3> HIDE DEF l
    <3> QED BY <3>1, <3>2, PlainOK
  <2> HIDE DEF l
  <2> QED BY <1>1, <2>1, <2>3, ReadStep
<1>4. CASE ~(existing # NoTask /\ HasTask(db, existing))
  <2> DEFINE l == [thread[w] EXCEPT !.pc = "submit_create"]
  <2>1. Become(w, l)
    BY <1>4 DEF SubmitLookup, Goto
  <2>2. ThreadOK(l)
    BY <1>1 DEF ThreadOK, NamesTask, InTransition, Locals, PCs
  <2> QED BY <1>1, <2>1, <2>2, ReadStep
<1> QED BY <1>3, <1>4

LEMMA SubmitIdempotencyType ==
  ASSUME TypeInv, NEW w \in Threads, SubmitIdempotency(w)
  PROVE  TypeInv'
<1>1. /\ Task(w) \in Tasks /\ ThreadOK(thread[w])
      /\ thread[w].pc = "submit_idem" /\ UNCHANGED Outside
  BY Serving DEF SubmitIdempotency, At
<1>2. CASE db.idem[Key(w)] # NoTask
  BY <1>1, <1>2, GiveUpReads DEF SubmitIdempotency
<1>3. CASE db.idem[Key(w)] = NoTask
  <2> DEFINE s == CreateIdempotencyRecord(db, Key(w), Task(w))
             l == Transition(thread[w], "validating", "submit_validated")
  <2>1. s \in Store
    BY <1>1, StoreTyped, CreateIdempotencyRecordType DEF ThreadOK, Key, Task
  <2>2. Write(s) /\ Become(w, l)
    BY <1>3 DEF SubmitIdempotency
  <2> HIDE DEF s
  <2>3. ThreadOK(l)
    BY <1>1, TransitionOK DEF ThreadOK, States, Continuations, Task
  <2> QED BY <1>1, <2>1, <2>2, <2>3, WriteStep
<1> QED BY <1>2, <1>3

LEMMA EnqueueTaskType ==
  ASSUME TypeInv, NEW w \in Threads, EnqueueTask(w)
  PROVE  TypeInv'
<1> DEFINE s  == EnqueueRow(db, Task(w), now)
           pc == IF thread[w].op = "submit" /\ ~thread[w].caught
                 THEN "pq_read" ELSE "d_ready"
<1>1. Task(w) \in Tasks /\ UNCHANGED Outside
  BY Serving DEF EnqueueTask, At
<1>2. s \in Store
  BY <1>1, StoreTyped, EnqueueRowType DEF TypeInv, TypeOK
<1>3. pc \in PlainPCs
  BY DEF PlainPCs
<1>4. Write(s) /\ Goto(w, pc)
  BY DEF EnqueueTask
<1> HIDE DEF s, pc
<1> QED BY <1>1, <1>2, <1>3, <1>4, GotoWrites

LEMMA SubmitStepType ==
  ASSUME TypeInv, NEW w \in Threads, Submit(w)
  PROVE  TypeInv'
BY SubmitLookupType, SubmitCreateType, SubmitIdempotencyType, EnqueueTaskType
   DEF Submit

LEMMA ProcessReadType ==
  ASSUME TypeInv, NEW w \in Threads, ProcessRead(w)
  PROVE  TypeInv'
<1> DEFINE row == db.queue[Task(w)]
           l == [[thread[w] EXCEPT !.at = now, !.attempts = row.attempts]
                   EXCEPT !.pc = "d_read", !.caught = TRUE]
           m == [[thread[w] EXCEPT !.at = now, !.attempts = row.attempts]
                   EXCEPT !.pc = "claim_read"]
<1>1. /\ Task(w) \in Tasks /\ ThreadOK(thread[w]) /\ thread[w].pc = "pq_read"
      /\ Read /\ UNCHANGED Outside
  BY Serving DEF ProcessRead, At
<1>2. CASE ~HasRow(db, Task(w))
  BY <1>1, <1>2, GiveUpReads DEF ProcessRead
<1>3. CASE HasRow(db, Task(w)) /\ (row.status # "queued" \/ row.next > now)
  BY <1>1, <1>3, GotoReads DEF ProcessRead, PlainPCs
<1>4. CASE HasRow(db, Task(w)) /\ ~(row.status # "queued" \/ row.next > now)
  <2>1. row \in QueueRow
    BY <1>1, <1>4, StoreTyped, QueueRowType
  <2>2. row.attempts \in Nat /\ now \in Nat
    BY <2>1 DEF QueueRow, TypeInv, TypeOK
  <2>3. Become(w, IF thread[w].worker = NoWorker THEN l ELSE m)
    BY <1>4 DEF ProcessRead
  <2> HIDE DEF row
  <2>4. CASE thread[w].worker = NoWorker
    <3>1. ThreadOK(l)
      <4>0. thread[w] \in Locals
        BY <1>1, ThreadIsTyped
      <4>3. "d_read" \in PCs
        BY DEF PCs
      <4>1. l \in Locals
        BY <2>2, <4>0, <4>3 DEF Locals
      <4>2. l.pc \in PlainPCs /\ l.task \in Tasks
        BY <1>1, <4>0 DEF Locals, PlainPCs, Task
      <4> HIDE DEF l
      <4> QED BY <4>1, <4>2, PlainOK
    <3>2. Become(w, l)
      BY <2>3, <2>4
    <3> HIDE DEF l
    <3> QED BY <1>1, <3>1, <3>2, ReadStep
  <2>5. CASE thread[w].worker # NoWorker
    <3>1. ThreadOK(m)
      <4>0. thread[w] \in Locals
        BY <1>1, ThreadIsTyped
      <4>3. "claim_read" \in PCs
        BY DEF PCs
      <4>1. m \in Locals
        BY <2>2, <4>0, <4>3 DEF Locals
      <4>2. /\ m.pc = "claim_read" /\ m.task \in Tasks
            /\ m.worker \in Workers
        BY <1>1, <2>5, <4>0 DEF Locals, Task
      <4> HIDE DEF m
      <4> QED BY <4>1, <4>2 DEF ThreadOK, NamesTask, InTransition
    <3>2. Become(w, m)
      BY <2>3, <2>5
    <3> HIDE DEF m
    <3> QED BY <1>1, <3>1, <3>2, ReadStep
  <2> QED BY <2>4, <2>5
<1> QED BY <1>2, <1>3, <1>4

LEMMA ClaimReadType ==
  ASSUME TypeInv, NEW w \in Threads, ClaimRead(w)
  PROVE  TypeInv'
<1> DEFINE l == [thread[w] EXCEPT !.pc = "claim_write"]
<1>1. /\ Task(w) \in Tasks /\ ThreadOK(thread[w]) /\ thread[w].pc = "claim_read"
      /\ Read /\ UNCHANGED Outside
  BY Serving DEF ClaimRead, At
<1>2. CASE Become(w, l)
  <2>1. ThreadOK(l)
    BY <1>1 DEF ThreadOK, NamesTask, InTransition, Locals, PCs
  <2> QED BY <1>1, <1>2, <2>1, ReadStep
<1>3. CASE GiveUp(w)
  BY <1>1, <1>3, GiveUpReads
<1> QED BY <1>2, <1>3 DEF ClaimRead, Goto

LEMMA ClaimWriteType ==
  ASSUME TypeInv, NEW w \in Threads, ClaimWrite(w)
  PROVE  TypeInv'
<1> DEFINE lease == Deadline(thread[w].at, LeaseSeconds)
           s == ClaimRow(db, Task(w), thread[w].worker, lease)
           attempts == db.queue[Task(w)].attempts
           l == [thread[w] EXCEPT !.pc = "d_read", !.caught = TRUE,
                                  !.attempts = attempts]
<1>1. /\ Task(w) \in Tasks /\ ThreadOK(thread[w]) /\ thread[w].pc = "claim_write"
      /\ Write(s) /\ UNCHANGED Outside
  BY Serving DEF ClaimWrite, At
<1>2. lease \in Nat /\ thread[w].worker \in Workers
  BY <1>1, DeadlineType, ServiceAssumption DEF ThreadOK, Locals
<1>3. s \in Store
  BY <1>1, <1>2, StoreTyped, ClaimRowType
<1>4. CASE HasRow(db, Task(w))
  <2>1. db.queue[Task(w)] \in QueueRow
    BY <1>1, <1>4, StoreTyped, QueueRowType
  <2>2. attempts \in Nat
    BY <2>1 DEF QueueRow
  <2>3. Become(w, l)
    BY <1>4 DEF ClaimWrite
  <2> HIDE DEF s, attempts
  <2>4. ThreadOK(l)
    <3>0. thread[w] \in Locals /\ thread[w].task \in Tasks
      BY <1>1, ThreadIsTyped DEF Task
    <3>1. l \in Locals
      BY <2>2, <3>0 DEF Locals, PCs
    <3>2. l.pc \in PlainPCs /\ l.task \in Tasks
      BY <3>0 DEF Locals, PlainPCs
    <3> HIDE DEF l
    <3> QED BY <3>1, <3>2, PlainOK
  <2> HIDE DEF l
  <2> QED BY <1>1, <1>3, <2>3, <2>4, WriteStep
<1>5. CASE ~HasRow(db, Task(w))
  <2>1. Become(w, Idle) /\ ThreadOK(Idle)
    BY <1>5, GiveUpOK DEF ClaimWrite
  <2> HIDE DEF s
  <2> QED BY <1>1, <1>3, <2>1, WriteStep
<1> QED BY <1>4, <1>5

LEMMA DeadLetterType ==
  ASSUME TypeInv, NEW w \in Threads, DeadLetter(w)
  PROVE  TypeInv'
<1> DEFINE attempts == thread[w].attempts + 1
           s == MarkDeadLetter(db, Task(w), attempts)
           l == Transition(thread[w], "failed", "return")
<1>1. /\ Task(w) \in Tasks /\ ThreadOK(thread[w]) /\ thread[w].pc = "e_dead"
      /\ Write(s) /\ Become(w, l) /\ UNCHANGED Outside
  BY Serving DEF DeadLetter, At
<1>2. attempts \in Nat
  BY <1>1 DEF ThreadOK, Locals
<1> HIDE DEF attempts
<1>3. s \in Store
  BY <1>1, <1>2, StoreTyped, MarkDeadLetterType
<1>4. ThreadOK(l)
  BY <1>1, TransitionOK DEF States, Continuations, Task
<1> HIDE DEF s, l
<1> QED BY <1>1, <1>3, <1>4, WriteStep

LEMMA RetryStateType ==
  ASSUME TypeInv, NEW w \in Threads, RetryState(w)
  PROVE  TypeInv'
<1> DEFINE s == UpdateTaskState(db, Task(w), "queued")
           l == [thread[w] EXCEPT !.pc = "e_retry"]
<1>1. /\ Task(w) \in Tasks /\ ThreadOK(thread[w]) /\ thread[w].pc = "e_state"
      /\ Write(s) /\ Become(w, l) /\ UNCHANGED Outside
  BY Serving DEF RetryState, At, Goto
<1>2. s \in Store
  BY <1>1, StoreTyped, UpdateTaskStateType DEF States
<1>3. ThreadOK(l)
  BY <1>1 DEF ThreadOK, NamesTask, InTransition, Locals, PCs
<1> HIDE DEF s, l
<1> QED BY <1>1, <1>2, <1>3, WriteStep

LEMMA RetryRowType ==
  ASSUME TypeInv, NEW w \in Threads, RetryRow(w)
  PROVE  TypeInv'
<1> DEFINE attempt == thread[w].attempts + 1
           next == Deadline(thread[w].at, Backoff(attempt))
           s == MarkRetry(db, Task(w), attempt, next)
<1>1. /\ Task(w) \in Tasks /\ ThreadOK(thread[w]) /\ thread[w].pc = "e_retry"
      /\ Write(s) /\ Goto(w, "return") /\ UNCHANGED Outside
  BY Serving DEF RetryRow, At
<1>2. attempt \in 1..MaxAttempts /\ attempt \in Nat /\ thread[w].at \in Nat
  BY <1>1, StoreAssumption DEF ThreadOK, Locals
<1> HIDE DEF attempt
<1>3. next \in Nat
  BY <1>2, BackoffAssumption, DeadlineType
<1> HIDE DEF next
<1>4. s \in Store
  BY <1>1, <1>2, <1>3, StoreTyped, MarkRetryType
<1> HIDE DEF s
<1> QED BY <1>1, <1>4, GotoWrites DEF PlainPCs

LEMMA ProcessType ==
  ASSUME TypeInv, NEW w \in Threads, Process(w)
  PROVE  TypeInv'
BY ProcessReadType, ClaimReadType, ClaimWriteType, DeadLetterType,
   RetryStateType, RetryRowType DEF Process

\* Both reads of dispatch_task end in Ready.
LEMMA ReadyType ==
  ASSUME TypeInv, NEW w \in Threads, Task(w) \in Tasks, Ready(w), Read,
         UNCHANGED Outside
  PROVE  TypeInv'
<1>1. "running" \in States
  BY DEF States
<1>2. CASE Dispatchable(w)
  BY <1>1, <1>2, TransitionReads DEF Ready
<1>3. CASE ~Dispatchable(w)
  BY <1>3, RaiseReads DEF Ready
<1> QED BY <1>2, <1>3

LEMMA DispatchReadType ==
  ASSUME TypeInv, NEW w \in Threads, DispatchRead(w) \/ DispatchReady(w)
  PROVE  TypeInv'
<1>1. Task(w) \in Tasks /\ Read /\ UNCHANGED Outside /\ "queued" \in States
  BY Serving DEF DispatchRead, DispatchReady, At, States
<1>2. CASE Ready(w)
  BY <1>1, <1>2, ReadyType
<1>3. CASE Become(w, Transition(thread[w], "queued", "enqueue_row"))
  BY <1>1, <1>3, TransitionReads
<1> QED BY <1>2, <1>3 DEF DispatchRead, DispatchReady

LEMMA DispatchWriteType ==
  ASSUME TypeInv, NEW w \in Threads, DispatchRunning(w) \/ DispatchDispatched(w)
  PROVE  TypeInv'
<1>1. Task(w) \in Tasks /\ UNCHANGED Outside
  BY Serving DEF DispatchRunning, DispatchDispatched, At
<1>2. CASE DispatchRunning(w)
  <2> DEFINE timeout == Deadline(now, TimeoutSeconds)
             s == MarkRunning(db, Task(w), timeout)
  <2>1. timeout \in Nat
    BY DeadlineType, ServiceAssumption DEF TypeInv, TypeOK
  <2> HIDE DEF timeout
  <2>2. s \in Store
    BY <1>1, <2>1, StoreTyped, MarkRunningType
  <2>3. Write(s) /\ Goto(w, "d_dispatched")
    BY <1>2 DEF DispatchRunning, timeout
  <2> HIDE DEF s
  <2> QED BY <1>1, <2>2, <2>3, GotoWrites DEF PlainPCs
<1>3. CASE DispatchDispatched(w)
  <2> DEFINE s == MarkDispatched(db, Task(w))
  <2>1. s \in Store
    BY <1>1, StoreTyped, MarkStatusType DEF MarkDispatched, RowStatus
  <2>2. Write(s) /\ Goto(w, "d_submit")
    BY <1>3 DEF DispatchDispatched
  <2> HIDE DEF s
  <2> QED BY <1>1, <2>1, <2>2, GotoWrites DEF PlainPCs
<1> QED BY <1>2, <1>3

\* The ends of the HTTP call.
LEMMA DispatchCallType ==
  ASSUME TypeInv, NEW w \in Threads,
         \/ SubmitReceived(w) \/ SubmitFails(w) \/ SubmitRefused(w)
         \/ SubmitAnswered(w) \/ SubmitBroken(w)
  PROVE  TypeInv'
<1>1. Task(w) \in Tasks /\ ThreadOK(thread[w])
  BY Serving DEF SubmitReceived, SubmitFails, SubmitRefused, SubmitAnswered,
                 SubmitBroken, At
<1>2. CASE SubmitReceived(w)
  <2> DEFINE l == [thread[w] EXCEPT !.pc = "d_wait"]
  <2>1. ThreadOK(l)
    BY <1>1, GotoOK DEF Task, PlainPCs
  <2>2. Become(w, l)
    BY <1>2 DEF SubmitReceived, Goto
  <2>3. runs' \in [Tasks -> Nat]
    BY <1>1, <1>2 DEF SubmitReceived, TypeInv, TypeOK
  <2> HIDE DEF l
  <2> QED BY <1>2, <2>1, <2>2, <2>3, BecomeOK
             DEF SubmitReceived, Read, TypeInv, TypeOK
<1>3. CASE SubmitFails(w) \/ SubmitBroken(w)
  BY <1>1, <1>3, RaiseReads DEF SubmitFails, SubmitBroken
<1>4. CASE SubmitRefused(w) \/ SubmitAnswered(w)
  BY <1>1, <1>4, GotoReads DEF SubmitRefused, SubmitAnswered, PlainPCs
<1> QED BY <1>2, <1>3, <1>4

LEMMA DispatchType ==
  ASSUME TypeInv, NEW w \in Threads, Dispatch(w)
  PROVE  TypeInv'
BY DispatchReadType, DispatchWriteType, DispatchCallType DEF Dispatch

LEMMA RecordResultType ==
  ASSUME TypeInv, NEW w \in Threads, RecordResult(w)
  PROVE  TypeInv'
<1>1. Task(w) \in Tasks /\ ThreadOK(thread[w])
  BY Serving DEF RecordResult, ResultRead, ResultStore, ResultCommit,
                 ResultFile, At
<1>2. CASE ResultRead(w)
  <2>0. thread[w].pc = "r_read" /\ Read /\ UNCHANGED Outside
    BY <1>2 DEF ResultRead, At
  <2>1. CASE GiveUp(w)
    BY <2>0, <2>1, GiveUpReads
  <2>2. CASE Goto(w, "return")
    BY <1>1, <2>0, <2>2, GotoReads DEF PlainPCs
  <2>3. CASE Become(w, Transition(thread[w], thread[w].status, "r_store"))
    <3>1. thread[w].status \in RunStatus /\ thread[w].status \in States
      BY <1>1, <2>0 DEF ThreadOK, RunStatus, States
    <3>2. ThreadOK(Transition(thread[w], thread[w].status, "r_store"))
      BY <1>1, <3>1, TransitionOK DEF Continuations, Task
    <3> QED BY <2>0, <2>3, <3>2, ReadStep
  <2> QED BY <1>2, <2>1, <2>2, <2>3 DEF ResultRead
<1>3. CASE ResultStore(w)
  <2> DEFINE s == StoreResult(db, Task(w), thread[w].status)
  <2>1. thread[w].status \in RunStatus
    BY <1>1, <1>3 DEF ResultStore, At, ThreadOK
  <2>2. s \in Store
    BY <1>1, <2>1, StoreTyped, StoreResultType
  <2>3. Write(s) /\ Goto(w, "r_commit") /\ UNCHANGED Outside
    BY <1>3 DEF ResultStore
  <2> HIDE DEF s
  <2> QED BY <1>1, <2>2, <2>3, GotoWrites DEF PlainPCs
<1>4. CASE ResultCommit(w)
  <2> DEFINE l == [thread[w] EXCEPT !.pc = "r_file"]
  <2>1. ThreadOK(l) /\ Become(w, l)
    BY <1>1, <1>4, GotoOK DEF Task, PlainPCs, ResultCommit, Goto
  <2> HIDE DEF l
  <2> QED BY <1>4, <2>1, StoreTyped, CommitStep DEF ResultCommit
<1>5. CASE ResultFile(w)
  <2> DEFINE l == [thread[w] EXCEPT !.pc = "return"]
  <2>1. ThreadOK(l) /\ Become(w, l)
    BY <1>1, <1>5, GotoOK DEF Task, PlainPCs, ResultFile, Goto
  <2> HIDE DEF l
  <2> QED BY <1>1, <1>5, <2>1, BecomeOK DEF ResultFile, Read, TypeInv, TypeOK
<1> QED BY <1>2, <1>3, <1>4, <1>5 DEF RecordResult

LEMMA CancelType ==
  ASSUME TypeInv, NEW w \in Threads, Cancel(w)
  PROVE  TypeInv'
<1>1. Task(w) \in Tasks /\ ThreadOK(thread[w]) /\ UNCHANGED Outside
  BY Serving DEF Cancel, CancelRead, CancelState, CancelRow, At
<1>2. CASE CancelRead(w)
  <2> DEFINE found == HasRow(db, Task(w))
             l == [thread[w] EXCEPT !.pc = "c_state", !.hasRow = found]
  <2>1. CASE Become(w, l)
    <3>1. thread[w] \in Locals /\ thread[w].task \in Tasks /\ found \in BOOLEAN
      BY <1>1, ThreadIsTyped DEF Task, HasRow
    <3> HIDE DEF found
    <3>4. "c_state" \in PCs
      BY DEF PCs
    <3>2. l \in Locals /\ l.pc \in PlainPCs /\ l.task \in Tasks
      BY <3>1, <3>4 DEF Locals, PlainPCs
    <3>3. Read /\ UNCHANGED Outside
      BY <1>2 DEF CancelRead
    <3> HIDE DEF l
    <3> QED BY <2>1, <3>2, <3>3, PlainOK, ReadStep
  <2>2. CASE ~Become(w, l)
    <3>1. Goto(w, "return") \/ GiveUp(w)
      BY <1>2, <2>2 DEF CancelRead
    <3>2. Read
      BY <1>2 DEF CancelRead
    <3> QED BY <1>1, <3>1, <3>2, GiveUpReads, GotoReads DEF PlainPCs
  <2> QED BY <2>1, <2>2
<1>3. CASE CancelState(w)
  <2> DEFINE s == UpdateTaskState(db, Task(w), "cancelled")
  <2>1. s \in Store
    BY <1>1, StoreTyped, UpdateTaskStateType DEF States
  <2>2. Write(s) /\ Goto(w, "c_row")
    BY <1>3 DEF CancelState
  <2> HIDE DEF s
  <2> QED BY <1>1, <2>1, <2>2, GotoWrites DEF PlainPCs
<1>4. CASE CancelRow(w)
  <2> DEFINE marked == IF thread[w].hasRow
                       THEN MarkCancelled(db, Task(w)) ELSE db
             s == AddAudit(marked, Task(w), "task_cancelled", "client")
  <2>1. marked \in Store
    BY <1>1, StoreTyped, MarkStatusType DEF MarkCancelled, RowStatus
  <2>2. Write(s) /\ Goto(w, "return")
    BY <1>4 DEF CancelRow
  <2> HIDE DEF marked
  <2>3. s \in Store
    BY <1>1, <2>1, AddAuditType DEF AuditEvents, Actors
  <2> HIDE DEF s
  <2> QED BY <1>1, <2>2, <2>3, GotoWrites DEF PlainPCs
<1> QED BY <1>2, <1>3, <1>4 DEF Cancel

LEMMA TimeoutsListType ==
  ASSUME TypeInv, NEW w \in Threads, TimeoutsList(w)
  PROVE  TypeInv'
<1> DEFINE todo == {t \in Tasks : /\ db.queue[t].status = "running"
                                  /\ db.queue[t].timeout # NoTime
                                  /\ db.queue[t].timeout <= now}
           l == [thread[w] EXCEPT !.pc = "to_next", !.at = now, !.todo = todo]
<1>1. /\ ThreadOK(thread[w]) /\ thread[w].pc = "to_list"
      /\ Read /\ UNCHANGED Outside
  BY DEF TimeoutsList, At, TypeInv
<1>2. Become(w, l)
  BY DEF TimeoutsList
<1>3. todo \in SUBSET Tasks /\ now \in Nat
  BY DEF TypeInv, TypeOK
<1> HIDE DEF todo
<1>4. ThreadOK(l)
  <2>0. thread[w] \in Locals /\ thread[w].op = "timeouts"
    BY <1>1, ThreadIsTyped DEF ThreadOK
  <2>1. l \in Locals
    BY <1>3, <2>0 DEF Locals, PCs
  <2>2. l.pc = "to_next" /\ l.op = "timeouts"
    BY <2>0 DEF Locals
  <2> HIDE DEF l
  <2> QED BY <2>1, <2>2 DEF ThreadOK, NamesTask, InTransition
<1> HIDE DEF l
<1> QED BY <1>1, <1>2, <1>4, ReadStep

LEMMA TimeoutsNextType ==
  ASSUME TypeInv, NEW w \in Threads, TimeoutsNext(w)
  PROVE  TypeInv'
<1>1. /\ ThreadOK(thread[w]) /\ thread[w] \in Locals
      /\ thread[w].pc = "to_next" /\ thread[w].op = "timeouts"
      /\ UNCHANGED Outside
  BY ThreadIsTyped DEF TimeoutsNext, At, TypeInv, ThreadOK
<1>2. CASE thread[w].todo = {}
  <2> DEFINE l == [thread[w] EXCEPT !.pc = "return"]
  <2>1. Become(w, l) /\ Read
    BY <1>2 DEF TimeoutsNext, Goto
  <2>2. l \in Locals /\ l.pc = "return" /\ l.op = "timeouts"
    BY <1>1 DEF Locals, PCs
  <2> HIDE DEF l
  <2>3. ThreadOK(l)
    BY <2>2 DEF ThreadOK, NamesTask, InTransition
  <2> QED BY <1>1, <2>1, <2>3, ReadStep
<1>3. CASE thread[w].todo # {}
  <2>1. PICK t \in thread[w].todo :
          /\ Write(MarkTimedOut(db, t))
          /\ Become(w, Transition([thread[w] EXCEPT !.task = t,
                                                    !.todo = @ \ {t}],
                                  "failed", "to_next"))
    BY <1>3 DEF TimeoutsNext
  <2> DEFINE s == MarkTimedOut(db, t)
             l == [thread[w] EXCEPT !.task = t, !.todo = @ \ {t}]
  <2>2. t \in Tasks
    BY <1>1 DEF Locals
  <2>3. s \in Store
    BY <2>2, StoreTyped, MarkStatusType DEF MarkTimedOut, RowStatus
  <2>4. l \in Locals /\ l.pc = "to_next" /\ l.op = "timeouts" /\ l.task \in Tasks
    BY <1>1, <2>2 DEF Locals
  <2> HIDE DEF l, s
  <2>5. ThreadOK(l)
    BY <2>4 DEF ThreadOK, NamesTask, InTransition
  <2>6. ThreadOK(Transition(l, "failed", "to_next"))
    BY <2>4, <2>5, TransitionOK DEF States, Continuations
  <2>7. Write(s) /\ Become(w, Transition(l, "failed", "to_next"))
    BY <2>1 DEF s, l
  <2> QED BY <1>1, <2>3, <2>6, <2>7, WriteStep
<1> QED BY <1>2, <1>3

LEMMA RecoverType ==
  ASSUME TypeInv, NEW w \in Threads,
         \/ RecoverJobRead(w) \/ RecoverJobRow(w) \/ RecoverJobState(w)
         \/ RecoverApproval(w)
  PROVE  TypeInv'
<1>1. Task(w) \in Tasks /\ UNCHANGED Outside
  BY Serving DEF RecoverJobRead, RecoverJobRow, RecoverJobState,
                 RecoverApproval, At
<1>2. CASE RecoverJobRead(w)
  <2> DEFINE l == [thread[w] EXCEPT !.pc = "rj_row"]
  <2>1. /\ ThreadOK(thread[w]) /\ thread[w] \in Locals
        /\ "recover_job" \in Ops /\ Read
    BY <1>2, ThreadIsTyped DEF RecoverJobRead, At, TypeInv, ThreadOK
  <2>2. CASE Become(w, l)
    <3>1. l \in Locals /\ l.pc = "rj_row" /\ l.task \in Tasks
      BY <1>1, <2>1 DEF Locals, PCs, Task
    <3> HIDE DEF l
    <3>2. ThreadOK(l)
      BY <2>1, <3>1 DEF ThreadOK, NamesTask, InTransition
    <3> QED BY <1>1, <2>1, <2>2, <3>2, ReadStep
  <2>3. CASE GiveUp(w)
    BY <1>1, <2>1, <2>3, GiveUpReads
  <2> QED BY <1>2, <2>2, <2>3 DEF RecoverJobRead, Goto
<1>3. CASE RecoverJobRow(w)
  BY <1>1, <1>3, StoreTyped, ResetToQueuedType, GotoWrites
     DEF RecoverJobRow, PlainPCs
<1>4. CASE RecoverJobState(w)
  <2> DEFINE s == UpdateTaskState(db, Task(w), "queued")
  <2>1. s \in Store
    BY <1>1, StoreTyped, UpdateTaskStateType DEF States
  <2>2. Write(s) /\ Goto(w, "return")
    BY <1>4 DEF RecoverJobState
  <2> HIDE DEF s
  <2> QED BY <1>1, <2>1, <2>2, GotoWrites DEF PlainPCs
<1>5. CASE RecoverApproval(w)
  <2> DEFINE s == UpdateTaskApproval(db, Task(w), "pending_approval", "pending")
  <2>1. s \in Store
    BY <1>1, StoreTyped, UpdateTaskApprovalType DEF States, ApprovalStatus
  <2>2. Write(s) /\ Goto(w, "return")
    BY <1>5 DEF RecoverApproval
  <2> HIDE DEF s
  <2> QED BY <1>1, <2>1, <2>2, GotoWrites DEF PlainPCs
<1> QED BY <1>2, <1>3, <1>4, <1>5

LEMMA DeleteType ==
  ASSUME TypeInv, NEW w \in Threads,
         DeleteRead(w) \/ DeleteData(w) \/ DeleteTask(w) \/ DeleteFiles(w)
  PROVE  TypeInv'
<1>1. Task(w) \in Tasks /\ ThreadOK(thread[w])
  BY Serving
     DEF DeleteRead, DeleteData, DeleteStatement, DeleteTask, DeleteFiles, At
<1>2. CASE DeleteRead(w)
  BY <1>1, <1>2, GiveUpReads, GotoReads DEF DeleteRead, PlainPCs
<1>3. ASSUME NEW table \in DeletedTables, NEW pc,
             NEW next \in {"x_result", "x_queue", "x_audit", "x_task"},
             DeleteStatement(w, table, pc, next)
      PROVE  TypeInv'
  <2> DEFINE s == DeleteFrom(db, Task(w), table)
  <2>1. s \in Store
    BY <1>1, StoreTyped, DeleteFromType
  <2>2. Write(s) /\ Goto(w, next) /\ UNCHANGED Outside /\ next \in PlainPCs
    BY <1>3 DEF DeleteStatement, PlainPCs
  <2> HIDE DEF s
  <2> QED BY <1>1, <2>1, <2>2, GotoWrites
<1>4. CASE DeleteTask(w)
  <2> DEFINE s == DeleteFrom(db, Task(w), "task")
             l == [thread[w] EXCEPT !.pc = "x_files"]
  <2>1. s \in Store
    BY <1>1, StoreTyped, DeleteFromType DEF DeletedTables
  <2>2. ThreadOK(l)
    BY <1>1, GotoOK DEF Task, PlainPCs
  <2>3. Commit(s) /\ Become(w, l)
    BY <1>4 DEF DeleteTask, Goto
  <2>4. acked' \in [Tasks -> SUBSET {"submit", "cancel"}]
    BY <1>1, <1>4 DEF DeleteTask, TypeInv, TypeOK
  <2> HIDE DEF s, l
  <2> QED BY <1>4, <2>1, <2>2, <2>3, <2>4, BecomeOK
             DEF DeleteTask, Commit, TypeInv, TypeOK
<1>5. CASE DeleteFiles(w)
  <2> DEFINE l == [thread[w] EXCEPT !.pc = "return"]
  <2>1. ThreadOK(l) /\ Become(w, l)
    BY <1>1, <1>5, GotoOK DEF Task, PlainPCs, DeleteFiles, Goto
  <2> HIDE DEF l
  <2> QED BY <1>5, <2>1, BecomeOK DEF DeleteFiles, Read, TypeInv, TypeOK
<1> QED BY <1>2, <1>3, <1>4, <1>5 DEF DeleteData, DeletedTables

LEMMA OperateType ==
  ASSUME TypeInv, NEW w \in Threads, Operate(w)
  PROVE  TypeInv'
BY TimeoutsListType, TimeoutsNextType, RecoverType, DeleteType DEF Operate

-----------------------------------------------------------------------------
(* The type invariant *)

LEMMA InitType == Init => TypeInv
<1> SUFFICES ASSUME Init PROVE TypeInv
  OBVIOUS
<1>1. Idle \in Locals
  BY IdleOK, ThreadIsTyped
<1>2. TypeOK
  BY <1>1, EmptyStoreType DEF Init, TypeOK
<1> QED BY <1>2, IdleOK DEF Init, TypeInv

LEMMA NextType == TypeInv /\ [Next]_vars => TypeInv'
<1> SUFFICES ASSUME TypeInv, [Next]_vars PROVE TypeInv'
  OBVIOUS
<1>1. ASSUME NEW w \in Threads, Request(w) PROVE TypeInv'
  BY <1>1, RequestType
<1>2. ASSUME NEW w \in Threads, Serve(w) PROVE TypeInv'
  BY <1>2, ReturnType, TransactType, SubmitStepType, ProcessType, DispatchType,
     RecordResultType, CancelType, OperateType DEF Serve
<1>3. CASE Hermes
  BY <1>3 DEF Hermes, HermesAnswers, TypeInv, TypeOK
<1>4. CASE Tick
  BY <1>4 DEF Tick, TypeInv, TypeOK
<1>5. CASE Crash
  BY <1>5, IdleOK, ThreadIsTyped DEF Crash, TypeInv, TypeOK
<1>6. CASE UNCHANGED vars
  BY <1>6 DEF vars, TypeInv, TypeOK
<1> QED BY <1>1, <1>2, <1>3, <1>4, <1>5, <1>6 DEF Next

\* In every reachable state, for any number of tasks, threads and workers, the
\* tables, the locals of every request and the environment have their types: no
\* handler of app.py or service.py writes a state, status or count outside them.
THEOREM TypeCorrect == Spec => []TypeOK
<1>1. TypeInv => TypeOK
  BY DEF TypeInv
<1> QED BY <1>1, InitType, NextType, PTL DEF Spec
=============================================================================
