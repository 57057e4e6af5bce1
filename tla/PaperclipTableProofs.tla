------------------------ MODULE PaperclipTableProofs ------------------------
(***************************************************************************)
(* Invariants of the tables alone: NothingToReconcile and AttemptsBounded. *)
(*                                                                         *)
(* Every step of PaperclipService issues at most one statement, and a      *)
(* crash goes back to the committed tables (StepStatement); so an          *)
(* invariant of the tables holds if each statement keeps it.               *)
(***************************************************************************)
EXTENDS PaperclipProofs

\* The statements the service issues, with what it is known to pass to them: a
\* retry has attempts left, a dead letter has none, and only recover_stuck_job
\* resets a row without counting.
TaskStatement(s, s2, t) ==
  \/ \E approval \in ApprovalStatus, review \in BOOLEAN :
       s2 = CreateTask(s, t, approval, review)
  \/ \E target \in States, actor \in Actors :
       s2 = ApplyTransition(s, t, target, actor)
  \/ \E state \in {"queued", "cancelled"} : s2 = UpdateTaskState(s, t, state)
  \/ s2 = UpdateTaskApproval(s, t, "pending_approval", "pending")

RowStatement(s, s2, t) ==
  \/ \E time \in Nat : s2 = EnqueueRow(s, t, time)
  \/ \E w \in Workers, lease \in Nat : s2 = ClaimRow(s, t, w, lease)
  \/ \E timeout \in Nat : s2 = MarkRunning(s, t, timeout)
  \/ \E status \in {"dispatched", "timed_out"} : s2 = MarkStatus(s, t, status)
  \/ \E attempts \in Nat, next \in Nat :
       attempts < MaxAttempts /\ s2 = MarkRetry(s, t, attempts, next)
  \/ \E attempts \in Nat :
       attempts >= MaxAttempts /\ s2 = MarkDeadLetter(s, t, attempts)
  \/ "recover_job" \in Ops /\ s2 = ResetToQueued(s, t)

OtherStatement(s, s2, t) ==
  \/ \E k \in Keys : s2 = CreateIdempotencyRecord(s, k, t)
  \/ \E status \in RunStatus : s2 = StoreResult(s, t, status)
  \/ \E marked \in {s, MarkCancelled(s, t)}, actor \in Actors,
        event \in {"approval_granted", "approval_rejected", "task_cancelled"} :
       s2 = AddAudit(marked, t, event, actor)
  \/ \E table \in DeletedTables : s2 = DeleteFrom(s, t, table)

Statement(s, s2) ==
  \/ s2 = s
  \/ \E t \in Tasks :
       \/ TaskStatement(s, s2, t)
       \/ RowStatement(s, s2, t)
       \/ OtherStatement(s, s2, t)

\* What a step that is no crash does to the tables.
StatementStep == Statement(db, db') /\ (UNCHANGED disk \/ disk' = db')

-----------------------------------------------------------------------------
(* Every step is a statement, or a crash *)

LEMMA ReadStatement == ASSUME Read PROVE StatementStep
BY DEF Read, StatementStep, Statement

LEMMA WriteStatement ==
  ASSUME NEW s, NEW t \in Tasks, Write(s) \/ Commit(s),
         \/ TaskStatement(db, s, t) \/ RowStatement(db, s, t)
         \/ OtherStatement(db, s, t)
  PROVE  StatementStep
BY DEF Write, Commit, StatementStep, Statement

LEMMA SubmitStatement ==
  ASSUME TypeInv, NEW w \in Threads, Submit(w)
  PROVE  StatementStep
<1>1. Task(w) \in Tasks /\ ThreadOK(thread[w]) /\ thread[w] \in Locals
  BY Serving, ThreadIsTyped
     DEF Submit, SubmitLookup, SubmitCreate, SubmitIdempotency, EnqueueTask, At
<1>2. CASE SubmitLookup(w)
  BY <1>2, ReadStatement DEF SubmitLookup
<1>3. CASE SubmitCreate(w)
  <2>1. CASE HasTask(db, Task(w))
    BY <1>3, <2>1, ReadStatement DEF SubmitCreate
  <2>2. CASE ~HasTask(db, Task(w))
    <3>1. PICK required \in BOOLEAN, status \in ApprovalStatus :
                 CreatesTask(w, required, status)
      BY <1>3, <2>2, CreatesSome
    <3>2. /\ Write(CreateTask(db, Task(w), status,
                              required /\ status # "approved"))
          /\ (required /\ status # "approved") \in BOOLEAN
      BY <3>1 DEF CreatesTask
    <3>3. TaskStatement(db, CreateTask(db, Task(w), status,
                                       required /\ status # "approved"), Task(w))
      BY <3>2 DEF TaskStatement
    <3> QED BY <1>1, <3>2, <3>3, WriteStatement
  <2> QED BY <2>1, <2>2
<1>4. CASE SubmitIdempotency(w)
  <2>1. CASE db.idem[Key(w)] # NoTask
    BY <1>4, <2>1, ReadStatement DEF SubmitIdempotency
  <2>2. CASE db.idem[Key(w)] = NoTask
    <3>1. /\ Key(w) \in Keys
          /\ Write(CreateIdempotencyRecord(db, Key(w), Task(w)))
      BY <1>1, <1>4, <2>2 DEF SubmitIdempotency, At, ThreadOK, Key, Task
    <3> QED BY <1>1, <3>1, WriteStatement DEF OtherStatement
  <2> QED BY <2>1, <2>2
<1>5. CASE EnqueueTask(w)
  <2>1. now \in Nat /\ Write(EnqueueRow(db, Task(w), now))
    BY <1>5 DEF EnqueueTask, TypeInv, TypeOK
  <2> QED BY <1>1, <2>1, WriteStatement DEF RowStatement
<1> QED BY <1>2, <1>3, <1>4, <1>5 DEF Submit

LEMMA ProcessStatement ==
  ASSUME TypeInv, NEW w \in Threads, Process(w)
  PROVE  StatementStep
<1>1. Task(w) \in Tasks /\ ThreadOK(thread[w]) /\ thread[w] \in Locals
  BY Serving, ThreadIsTyped
     DEF Process, ProcessRead, ClaimRead, ClaimWrite, DeadLetter, RetryState,
         RetryRow, At
<1>2. CASE ProcessRead(w) \/ ClaimRead(w)
  BY <1>2, ReadStatement DEF ProcessRead, ClaimRead
<1>3. CASE ClaimWrite(w)
  <2> DEFINE lease == Deadline(thread[w].at, LeaseSeconds)
  <2>1. thread[w].worker \in Workers /\ lease \in Nat
    BY <1>1, <1>3, DeadlineType, ServiceAssumption
       DEF ClaimWrite, At, ThreadOK, Locals
  <2>2. Write(ClaimRow(db, Task(w), thread[w].worker, lease))
    BY <1>3 DEF ClaimWrite
  <2> HIDE DEF lease
  <2> QED BY <1>1, <2>1, <2>2, WriteStatement DEF RowStatement
<1>4. CASE DeadLetter(w)
  <2> DEFINE attempts == thread[w].attempts + 1
  <2>1. attempts \in Nat /\ attempts >= MaxAttempts
    BY <1>1, <1>4 DEF DeadLetter, At, ThreadOK, Locals
  <2>2. Write(MarkDeadLetter(db, Task(w), attempts))
    BY <1>4 DEF DeadLetter
  <2> HIDE DEF attempts
  <2> QED BY <1>1, <2>1, <2>2, WriteStatement DEF RowStatement
<1>5. CASE RetryState(w)
  BY <1>1, <1>5, WriteStatement DEF RetryState, TaskStatement
<1>6. CASE RetryRow(w)
  <2> DEFINE attempt == thread[w].attempts + 1
             next == Deadline(thread[w].at, Backoff(attempt))
  <2>1. /\ attempt \in Nat /\ attempt < MaxAttempts /\ attempt \in 1..MaxAttempts
        /\ thread[w].at \in Nat
    BY <1>1, <1>6, StoreAssumption DEF RetryRow, At, ThreadOK, Locals
  <2>2. Write(MarkRetry(db, Task(w), attempt, next))
    BY <1>6 DEF RetryRow
  <2> HIDE DEF attempt
  <2>3. next \in Nat
    BY <2>1, BackoffAssumption, DeadlineType
  <2> HIDE DEF next
  <2> QED BY <1>1, <2>1, <2>2, <2>3, WriteStatement DEF RowStatement
<1> QED BY <1>2, <1>3, <1>4, <1>5, <1>6 DEF Process

LEMMA DispatchStatement ==
  ASSUME TypeInv, NEW w \in Threads, Dispatch(w)
  PROVE  StatementStep
<1>1. CASE DispatchRunning(w)
  <2> DEFINE timeout == Deadline(now, TimeoutSeconds)
  <2>1. Task(w) \in Tasks /\ timeout \in Nat
    BY <1>1, Serving, DeadlineType, ServiceAssumption
       DEF DispatchRunning, At, TypeInv, TypeOK
  <2>2. Write(MarkRunning(db, Task(w), timeout))
    BY <1>1 DEF DispatchRunning
  <2> HIDE DEF timeout
  <2> QED BY <2>1, <2>2, WriteStatement DEF RowStatement
<1>2. CASE DispatchDispatched(w)
  BY <1>2, Serving, WriteStatement
     DEF DispatchDispatched, At, RowStatement, MarkDispatched
<1>3. CASE Read
  BY <1>3, ReadStatement
<1> QED BY <1>1, <1>2, <1>3
        DEF Dispatch, DispatchRead, DispatchReady, SubmitReceived, SubmitFails,
            SubmitRefused, SubmitAnswered, SubmitBroken

LEMMA OperateStatement ==
  ASSUME TypeInv, NEW w \in Threads, Operate(w)
  PROVE  StatementStep
<1>1. CASE Read
  BY <1>1, ReadStatement
<1>2. CASE TimeoutsNext(w) /\ thread[w].todo # {}
  <2>1. PICK t \in thread[w].todo : Write(MarkTimedOut(db, t))
    BY <1>2 DEF TimeoutsNext
  <2>2. t \in Tasks
    BY DEF TypeInv, TypeOK, Locals
  <2> QED BY <2>1, <2>2, WriteStatement DEF RowStatement, MarkTimedOut
<1>3. CASE RecoverJobRow(w)
  <2>1. Task(w) \in Tasks /\ "recover_job" \in Ops
    BY <1>3, Serving DEF RecoverJobRow, At, ThreadOK
  <2> QED BY <1>3, <2>1, WriteStatement DEF RecoverJobRow, RowStatement
<1>4. CASE RecoverJobState(w)
  BY <1>4, Serving, WriteStatement DEF RecoverJobState, At, TaskStatement
<1>5. CASE RecoverApproval(w)
  BY <1>5, Serving, WriteStatement DEF RecoverApproval, At, TaskStatement
<1>6. CASE DeleteData(w) \/ DeleteTask(w)
  <2>1. PICK table \in DeletedTables :
               \/ Write(DeleteFrom(db, Task(w), table))
               \/ Commit(DeleteFrom(db, Task(w), table))
    BY <1>6 DEF DeleteData, DeleteStatement, DeleteTask, DeletedTables
  <2>2. Task(w) \in Tasks
    BY <1>6, Serving DEF DeleteData, DeleteStatement, DeleteTask, At
  <2> QED BY <2>1, <2>2, WriteStatement DEF OtherStatement
<1> QED BY <1>1, <1>2, <1>3, <1>4, <1>5, <1>6
        DEF Operate, TimeoutsList, TimeoutsNext, RecoverJobRead, DeleteRead,
            DeleteFiles

\* Every step that is not a crash.
LEMMA StepStatement ==
  ASSUME TypeInv, [Next]_vars
  PROVE  StatementStep \/ (db' = disk /\ disk' = disk)
<1>1. ASSUME NEW w \in Threads, TransitionWrite(w) PROVE StatementStep
  <2>1. /\ Task(w) \in Tasks /\ thread[w].target \in States /\ Actor(w) \in Actors
    BY <1>1, Serving
       DEF TransitionWrite, At, ThreadOK, InTransition, Actor, Actors
  <2>2. Write(ApplyTransition(db, Task(w), thread[w].target, Actor(w)))
    BY <1>1 DEF TransitionWrite
  <2> QED BY <2>1, <2>2, WriteStatement DEF TaskStatement
<1>1a. ASSUME NEW w \in Threads, TransitionCommit(w) PROVE StatementStep
  <2> DEFINE s == AuditTransition(db, Task(w), thread[w].target, Actor(w))
  <2>1. Task(w) \in Tasks /\ Actor(w) \in Actors
    BY <1>1a, Serving DEF TransitionCommit, At, Actor, Actors
  <2>2. Commit(s)
    BY <1>1a DEF TransitionCommit
  <2>3. CASE s = db
    BY <2>2, <2>3 DEF Commit, StatementStep, Statement
  <2>4. CASE s # db
    <3>1. OtherStatement(db, s, Task(w))
      BY <2>1, <2>4 DEF AuditTransition, OtherStatement
    <3> QED BY <2>1, <2>2, <3>1, WriteStatement
  <2> QED BY <2>3, <2>4
<1>2. ASSUME NEW w \in Threads, RecordResult(w) PROVE StatementStep
  <2>1. CASE ResultStore(w)
    <3>1. Task(w) \in Tasks /\ thread[w].status \in RunStatus
      BY <2>1, Serving DEF ResultStore, At, ThreadOK
    <3> QED BY <2>1, <3>1, WriteStatement DEF ResultStore, OtherStatement
  <2>2. CASE ResultCommit(w)
    BY <2>2 DEF ResultCommit, Commit, StatementStep, Statement
  <2> QED BY <1>2, <2>1, <2>2, ReadStatement
             DEF RecordResult, ResultRead, ResultFile
<1>3. ASSUME NEW w \in Threads, Cancel(w) PROVE StatementStep
  <2>1. CASE CancelState(w)
    BY <2>1, Serving, WriteStatement DEF CancelState, At, TaskStatement
  <2>2. CASE CancelRow(w)
    BY <2>2, Serving, WriteStatement DEF CancelRow, At, OtherStatement, Actors
  <2> QED BY <1>3, <2>1, <2>2, ReadStatement DEF Cancel, CancelRead
<1>4. ASSUME NEW w \in Threads, Request(w) PROVE StatementStep
  BY <1>4, ReadStatement
     DEF Request, RequestSubmit, RequestApprove, RequestReject, RequestCancel,
         RequestResult, RequestProcess, RequestRecoverJob, RequestRecoverApproval,
         RequestDelete, RequestTimeouts, Start
<1>5. ASSUME NEW w \in Threads, Serve(w) PROVE StatementStep
  BY <1>1, <1>2, <1>3, <1>5, <1>1a, ReadStatement, SubmitStatement, ProcessStatement,
     DispatchStatement, OperateStatement
     DEF Serve, Return, Transact, TransitionRead
<1>6. CASE Hermes \/ Tick \/ UNCHANGED vars
  BY <1>6, ReadStatement DEF Hermes, HermesAnswers, Tick, Read, vars
<1>7. CASE Crash
  BY <1>7 DEF Crash
<1> QED BY <1>4, <1>5, <1>6, <1>7 DEF Next

-----------------------------------------------------------------------------
(* NothingToReconcile: no statement writes a state without its approval *)

Tidy(s) == \A t \in Tasks : Reconciled(s.task[t])

\* The statements that leave the table of tasks alone.
LEMMA OtherTables ==
  ASSUME NEW s \in Store, NEW t \in Tasks, NEW s2,
         RowStatement(s, s2, t) \/ OtherStatement(s, s2, t)
  PROVE  s2.task = s.task \/ s2.task = [s.task EXCEPT ![t] = NoTaskRow]
<1>1. \A row : UpdateRow(s, t, row).task = s.task
  BY DEF UpdateRow, Store
<1>2. CASE RowStatement(s, s2, t)
  <2>1. \A time \in Nat : EnqueueRow(s, t, time).task = s.task
    BY DEF EnqueueRow, Store
  <2> QED BY <1>1, <1>2, <2>1
             DEF RowStatement, ClaimRow, MarkRunning, MarkStatus, MarkRetry,
                 MarkDeadLetter, ResetToQueued
<1>3. CASE \E k \in Keys : s2 = CreateIdempotencyRecord(s, k, t)
  BY <1>3 DEF CreateIdempotencyRecord, Store
<1>4. CASE \E status \in RunStatus : s2 = StoreResult(s, t, status)
  BY <1>4 DEF StoreResult, Store
<1>5. CASE \E marked \in {s, MarkCancelled(s, t)} : \E event, actor :
             s2 = AddAudit(marked, t, event, actor)
  <2>1. PICK marked \in {s, MarkCancelled(s, t)} : \E event, actor :
               s2 = AddAudit(marked, t, event, actor)
    BY <1>5
  <2>2. marked \in Store
    BY MarkStatusType DEF MarkCancelled, RowStatus
  <2>3. marked.task = s.task
    BY <1>1 DEF MarkCancelled, MarkStatus
  <2> QED BY <2>1, <2>2, <2>3 DEF AddAudit, Store
<1>6. CASE \E table \in DeletedTables : s2 = DeleteFrom(s, t, table)
  BY <1>6 DEF DeletedTables, DeleteFrom, Store
<1> QED BY <1>2, <1>3, <1>4, <1>5, <1>6 DEF OtherStatement

\* A write of a row that has the approval its state asks for.
LEMMA TidyRow ==
  ASSUME NEW s \in Store, NEW t \in Tasks, Tidy(s), NEW row, Reconciled(row),
         NEW s2, s2.task = [s.task EXCEPT ![t] = row]
  PROVE  Tidy(s2)
BY DEF Tidy, Store

LEMMA UpdateTaskStateTidy ==
  ASSUME NEW s \in Store, NEW t \in Tasks, Tidy(s),
         NEW state \in States \ {"pending_approval", "approved", "rejected"}
  PROVE  Tidy(UpdateTaskState(s, t, state))
<1>1. CASE HasTask(s, t)
  <2> DEFINE row == [s.task[t] EXCEPT !.state = state]
             s2 == UpdateTaskState(s, t, state)
  <2>1. Reconciled(row)
    BY <1>1, TaskRowType DEF TaskRow, Reconciled
  <2>2. s2 = [s EXCEPT !.task = [@ EXCEPT ![t] = row]]
    BY <1>1 DEF UpdateTaskState
  <2> HIDE DEF row, s2
  <2>3. s2.task = [s.task EXCEPT ![t] = row]
    BY <2>2 DEF Store
  <2>4. Tidy(s2)
    BY <2>1, <2>3, TidyRow
  <2> QED BY <2>4 DEF s2
<1>2. CASE ~HasTask(s, t)
  BY <1>2 DEF UpdateTaskState
<1> QED BY <1>1, <1>2

LEMMA UpdateTaskApprovalTidy ==
  ASSUME NEW s \in Store, NEW t \in Tasks, Tidy(s),
         NEW state, NEW approval,
         <<state, approval>> \in {<<"pending_approval", "pending">>,
                                  <<"approved", "approved">>,
                                  <<"rejected", "rejected">>}
  PROVE  Tidy(UpdateTaskApproval(s, t, state, approval))
<1>1. CASE HasTask(s, t)
  <2> DEFINE row == [s.task[t] EXCEPT !.state = state, !.approval = approval]
             s2 == UpdateTaskApproval(s, t, state, approval)
  <2>1. Reconciled(row)
    <3>1. row.state = state /\ row.approval = approval
      BY <1>1, TaskRowType DEF TaskRow
    <3> HIDE DEF row
    <3> QED BY <3>1 DEF Reconciled
  <2>2. s2 = [s EXCEPT !.task = [@ EXCEPT ![t] = row]]
    BY <1>1 DEF UpdateTaskApproval
  <2> HIDE DEF row, s2
  <2>3. s2.task = [s.task EXCEPT ![t] = row]
    BY <2>2 DEF Store
  <2>4. Tidy(s2)
    BY <2>1, <2>3, TidyRow
  <2> QED BY <2>4 DEF s2
<1>2. CASE ~HasTask(s, t)
  BY <1>2 DEF UpdateTaskApproval
<1> QED BY <1>1, <1>2

LEMMA ApplyTransitionTidy ==
  ASSUME NEW s \in Store, NEW t \in Tasks, Tidy(s), NEW target \in States,
         NEW actor \in Actors
  PROVE  Tidy(ApplyTransition(s, t, target, actor))
<1>1. ASSUME NEW s1 \in Store, Tidy(s1) PROVE Tidy(Grant(s1, t))
  BY <1>1 DEF Tidy, Grant, Store
<1>2. CASE target = "pending_approval"
  BY <1>2, UpdateTaskApprovalTidy DEF ApplyTransition
<1>3. CASE target \in {"approved", "rejected"}
  <2>1. \A approval \in ApprovalStatus :
          UpdateTaskApproval(s, t, target, approval) \in Store
    BY UpdateTaskApprovalType
  <2>2. Tidy(UpdateTaskApproval(s, t, target, target))
    BY <1>3, UpdateTaskApprovalTidy
  <2> QED BY <1>1, <1>3, <2>1, <2>2 DEF ApplyTransition, ApprovalStatus
<1>4. CASE target \notin {"pending_approval", "approved", "rejected"}
  BY <1>4, UpdateTaskStateTidy DEF ApplyTransition
<1> QED BY <1>2, <1>3, <1>4

LEMMA StatementTidy ==
  ASSUME NEW s \in Store, NEW s2, Tidy(s), Statement(s, s2)
  PROVE  Tidy(s2)
<1>1. ASSUME NEW t \in Tasks, TaskStatement(s, s2, t) PROVE Tidy(s2)
  <2>1. CASE \E approval \in ApprovalStatus, review \in BOOLEAN :
               s2 = CreateTask(s, t, approval, review)
    <3>1. PICK approval \in ApprovalStatus, review \in BOOLEAN :
                 s2 = CreateTask(s, t, approval, review)
      BY <2>1
    <3> DEFINE row == [state |-> "received", approval |-> approval,
                       review |-> review]
    <3>2. s2.task = [s.task EXCEPT ![t] = row] /\ Reconciled(row)
      BY <3>1 DEF CreateTask, Store, Reconciled
    <3> HIDE DEF row
    <3> QED BY <3>2, TidyRow
  <2>2. CASE \E target \in States, actor \in Actors :
               s2 = ApplyTransition(s, t, target, actor)
    BY <2>2, ApplyTransitionTidy
  <2>3. CASE \E state \in {"queued", "cancelled"} : s2 = UpdateTaskState(s, t, state)
    BY <2>3, UpdateTaskStateTidy DEF States
  <2>4. CASE s2 = UpdateTaskApproval(s, t, "pending_approval", "pending")
    BY <2>4, UpdateTaskApprovalTidy
  <2> QED BY <1>1, <2>1, <2>2, <2>3, <2>4 DEF TaskStatement
<1>2. ASSUME NEW t \in Tasks, RowStatement(s, s2, t) \/ OtherStatement(s, s2, t)
      PROVE  Tidy(s2)
  <2>1. Reconciled(NoTaskRow)
    BY DEF Reconciled, NoTaskRow
  <2>2. CASE s2.task = s.task
    BY <2>2 DEF Tidy
  <2>3. CASE s2.task = [s.task EXCEPT ![t] = NoTaskRow]
    BY <2>1, <2>3, TidyRow
  <2> QED BY <1>2, <2>2, <2>3, OtherTables
<1> QED BY <1>1, <1>2 DEF Statement

\* For any interleaving and any crash reconcile_approval_status finds nothing: no
\* handler writes pending_approval, approved or rejected without the approval
\* status that goes with it.
THEOREM NothingToReconcileHolds == Spec => []NothingToReconcile
<1> DEFINE TidyInv == Tidy(db) /\ Tidy(disk)
<1>1. Init => TypeInv /\ TidyInv
  <2>1. Tidy(EmptyStore)
    BY DEF Tidy, EmptyStore, Reconciled, NoTaskRow
  <2> QED BY <2>1, InitType DEF Init
<1>2. TypeInv /\ TidyInv /\ [Next]_vars => (TypeInv /\ TidyInv)'
  <2> SUFFICES ASSUME TypeInv, TidyInv, [Next]_vars PROVE TidyInv'
    BY NextType
  <2>1. CASE StatementStep
    <3>1. Tidy(db')
      BY <2>1, StoreTyped, StatementTidy DEF StatementStep
    <3> QED BY <2>1, <3>1 DEF StatementStep
  <2>2. CASE db' = disk /\ disk' = disk
    BY <2>2
  <2> QED BY <2>1, <2>2, StepStatement
<1>3. TidyInv => NothingToReconcile
  BY DEF Tidy, NothingToReconcile
<1> QED BY <1>1, <1>2, <1>3, PTL DEF Spec

-----------------------------------------------------------------------------
(* AttemptsBounded: the attempts of a row, whoever counts them *)

RowBounded(row) ==
  /\ row.status = "queued" => row.attempts < MaxAttempts
  /\ row.status = "dead_letter" => row.attempts >= MaxAttempts

Bounded(s) == \A t \in Tasks : RowBounded(s.queue[t])

LEMMA BoundedRow ==
  ASSUME NEW s \in Store, NEW t \in Tasks, Bounded(s), NEW row, RowBounded(row),
         NEW s2, s2.queue = [s.queue EXCEPT ![t] = row]
  PROVE  Bounded(s2)
BY DEF Bounded, Store

LEMMA UpdateRowBounded ==
  ASSUME NEW s \in Store, NEW t \in Tasks, Bounded(s), NEW row,
         HasRow(s, t) => RowBounded(row)
  PROVE  Bounded(UpdateRow(s, t, row))
<1>1. CASE HasRow(s, t)
  <2>1. UpdateRow(s, t, row).queue = [s.queue EXCEPT ![t] = row]
    BY <1>1 DEF UpdateRow, Store
  <2> QED BY <1>1, <2>1, BoundedRow
<1>2. CASE ~HasRow(s, t)
  BY <1>2 DEF UpdateRow
<1> QED BY <1>1, <1>2

LEMMA RowStatementBounded ==
  ASSUME NEW s \in Store, NEW s2, NEW t \in Tasks, Bounded(s),
         RowStatement(s, s2, t), "recover_job" \notin Ops
  PROVE  Bounded(s2)
<1> DEFINE row == s.queue[t]
<1>0. RowBounded(row) /\ (HasRow(s, t) => row \in QueueRow)
  BY QueueRowType DEF Bounded
<1>1. CASE \E time \in Nat : s2 = EnqueueRow(s, t, time)
  <2>1. PICK time \in Nat : s2 = EnqueueRow(s, t, time)
    BY <1>1
  <2> DEFINE new == [status |-> "queued", attempts |-> 0, next |-> time,
                     worker |-> NoWorker, lease |-> NoTime, timeout |-> NoTime]
  <2>2. s2.queue = [s.queue EXCEPT ![t] = new] /\ RowBounded(new)
    BY <2>1, StoreAssumption DEF EnqueueRow, Store, RowBounded
  <2> HIDE DEF new
  <2> QED BY <2>2, BoundedRow
<1>2. CASE \E w \in Workers, lease \in Nat : s2 = ClaimRow(s, t, w, lease)
  <2>1. PICK w \in Workers, lease \in Nat : s2 = ClaimRow(s, t, w, lease)
    BY <1>2
  <2>2. HasRow(s, t) => RowBounded([row EXCEPT !.worker = w, !.lease = lease])
    BY <1>0 DEF RowBounded, QueueRow
  <2> QED BY <2>1, <2>2, UpdateRowBounded DEF ClaimRow
<1>3. CASE \E timeout \in Nat : s2 = MarkRunning(s, t, timeout)
  <2>1. PICK timeout \in Nat : s2 = MarkRunning(s, t, timeout)
    BY <1>3
  <2>2. HasRow(s, t)
          => RowBounded([row EXCEPT !.status = "running", !.timeout = timeout])
    BY <1>0 DEF RowBounded, QueueRow
  <2> QED BY <2>1, <2>2, UpdateRowBounded DEF MarkRunning
<1>4. CASE \E status \in {"dispatched", "timed_out"} : s2 = MarkStatus(s, t, status)
  <2>1. PICK status \in {"dispatched", "timed_out"} : s2 = MarkStatus(s, t, status)
    BY <1>4
  <2>2. HasRow(s, t) => RowBounded([row EXCEPT !.status = status])
    BY <1>0 DEF RowBounded, QueueRow
  <2> QED BY <2>1, <2>2, UpdateRowBounded DEF MarkStatus
<1>5. CASE \E attempts \in Nat, next \in Nat :
             attempts < MaxAttempts /\ s2 = MarkRetry(s, t, attempts, next)
  <2>1. PICK attempts \in Nat, next \in Nat :
               attempts < MaxAttempts /\ s2 = MarkRetry(s, t, attempts, next)
    BY <1>5
  <2>2. HasRow(s, t)
          => RowBounded([row EXCEPT !.status = "queued", !.attempts = attempts,
                                    !.next = next])
    BY <1>0, <2>1 DEF RowBounded, QueueRow
  <2> QED BY <2>1, <2>2, UpdateRowBounded DEF MarkRetry
<1>6. CASE \E attempts \in Nat :
             attempts >= MaxAttempts /\ s2 = MarkDeadLetter(s, t, attempts)
  <2>1. PICK attempts \in Nat :
               attempts >= MaxAttempts /\ s2 = MarkDeadLetter(s, t, attempts)
    BY <1>6
  <2>2. HasRow(s, t)
          => RowBounded([row EXCEPT !.status = "dead_letter",
                                    !.attempts = attempts])
    BY <1>0, <2>1 DEF RowBounded, QueueRow
  <2> QED BY <2>1, <2>2, UpdateRowBounded DEF MarkDeadLetter
<1> QED BY <1>1, <1>2, <1>3, <1>4, <1>5, <1>6 DEF RowStatement

\* The other statements mark a row cancelled, delete it or leave the queue alone.
LEMMA OtherStatementBounded ==
  ASSUME NEW s \in Store, NEW s2, NEW t \in Tasks, Bounded(s),
         TaskStatement(s, s2, t) \/ OtherStatement(s, s2, t)
  PROVE  Bounded(s2)
<1>1. CASE s2.queue = s.queue
  BY <1>1 DEF Bounded
<1>2. CASE TaskStatement(s, s2, t)
  <2>1. \A state \in States : UpdateTaskState(s, t, state).queue = s.queue
    BY DEF UpdateTaskState, Store
  <2>2. ASSUME NEW state \in States, NEW approval \in ApprovalStatus
        PROVE  /\ UpdateTaskApproval(s, t, state, approval).queue = s.queue
               /\ UpdateTaskApproval(s, t, state, approval) \in Store
    BY UpdateTaskApprovalType DEF UpdateTaskApproval, Store
  <2>3. ASSUME NEW s1 \in Store PROVE Grant(s1, t).queue = s1.queue
    BY DEF Grant, Store
  <2>4. ASSUME NEW target \in States, NEW actor
        PROVE  ApplyTransition(s, t, target, actor).queue = s.queue
    <3>1. {"pending", "approved", "rejected"} \subseteq ApprovalStatus
      BY DEF ApprovalStatus
    <3>2. CASE target = "pending_approval"
      BY <2>2, <3>1, <3>2 DEF ApplyTransition
    <3>3. CASE target = "approved"
      BY <2>2, <2>3, <3>1, <3>3 DEF ApplyTransition
    <3>4. CASE target = "rejected"
      BY <2>2, <2>3, <3>1, <3>4 DEF ApplyTransition
    <3>5. CASE target \notin {"pending_approval", "approved", "rejected"}
      BY <2>1, <3>5 DEF ApplyTransition
    <3> QED BY <3>2, <3>3, <3>4, <3>5
  <2>5. \A approval, review : CreateTask(s, t, approval, review).queue = s.queue
    BY DEF CreateTask, Store
  <2>6. /\ {"queued", "cancelled", "pending_approval"} \subseteq States
        /\ "pending" \in ApprovalStatus
    BY DEF States, ApprovalStatus
  <2>7. s2.queue = s.queue
    BY <1>2, <2>1, <2>2, <2>4, <2>5, <2>6 DEF TaskStatement
  <2> QED BY <1>1, <2>7
<1>3. CASE \/ \E k \in Keys : s2 = CreateIdempotencyRecord(s, k, t)
           \/ \E status \in RunStatus : s2 = StoreResult(s, t, status)
  BY <1>1, <1>3 DEF CreateIdempotencyRecord, StoreResult, Store
<1>4. CASE \E marked \in {s, MarkCancelled(s, t)} : \E event, actor :
             s2 = AddAudit(marked, t, event, actor)
  <2>1. PICK marked \in {s, MarkCancelled(s, t)} : \E event, actor :
               s2 = AddAudit(marked, t, event, actor)
    BY <1>4
  <2>2. marked \in Store
    BY MarkStatusType DEF MarkCancelled, RowStatus
  <2>3. HasRow(s, t)
          => RowBounded([s.queue[t] EXCEPT !.status = "cancelled"])
    BY QueueRowType DEF RowBounded, QueueRow
  <2>4. Bounded(marked)
    BY <2>1, <2>3, UpdateRowBounded DEF MarkCancelled, MarkStatus
  <2>5. s2.queue = marked.queue
    BY <2>1, <2>2 DEF AddAudit, Store
  <2> QED BY <2>4, <2>5 DEF Bounded
<1>5. CASE \E table \in DeletedTables : s2 = DeleteFrom(s, t, table)
  <2>1. \/ s2.queue = s.queue
        \/ s2.queue = [s.queue EXCEPT ![t] = NoQueueRow]
    BY <1>5 DEF DeletedTables, DeleteFrom, Store
  <2>2. RowBounded(NoQueueRow)
    BY DEF RowBounded, NoQueueRow
  <2> QED BY <1>1, <2>1, <2>2, BoundedRow
<1> QED BY <1>2, <1>3, <1>4, <1>5 DEF OtherStatement

\* Unless an operator resets rows by hand, a row that waits for another attempt
\* has attempts left and a dead letter has used all of them, however many
\* threads and workers process the same row and wherever a crash hits.
THEOREM AttemptsBoundedHolds ==
  ASSUME "recover_job" \notin Ops
  PROVE  Spec => []AttemptsBounded
<1> DEFINE BoundedInv == Bounded(db) /\ Bounded(disk)
<1>1. Init => TypeInv /\ BoundedInv
  <2>1. Bounded(EmptyStore)
    BY DEF Bounded, EmptyStore, RowBounded, NoQueueRow
  <2> QED BY <2>1, InitType DEF Init
<1>2. TypeInv /\ BoundedInv /\ [Next]_vars => (TypeInv /\ BoundedInv)'
  <2> SUFFICES ASSUME TypeInv, BoundedInv, [Next]_vars PROVE BoundedInv'
    BY NextType
  <2>1. CASE StatementStep
    <3>1. Bounded(db')
      BY <2>1, StoreTyped, RowStatementBounded, OtherStatementBounded
         DEF StatementStep, Statement
    <3> QED BY <2>1, <3>1 DEF StatementStep
  <2>2. CASE db' = disk /\ disk' = disk
    BY <2>2
  <2> QED BY <2>1, <2>2, StepStatement
<1>3. BoundedInv => AttemptsBounded
  BY DEF Bounded, RowBounded, AttemptsBounded
<1> QED BY <1>1, <1>2, <1>3, PTL DEF Spec
=============================================================================
