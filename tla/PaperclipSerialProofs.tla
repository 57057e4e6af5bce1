----------------------- MODULE PaperclipSerialProofs -----------------------
(***************************************************************************)
(* What PaperclipService guarantees while the requests about a task are    *)
(* served one at a time (OneByOne), by any number of threads and for any   *)
(* number of tasks, keys and workers; and what one thread guarantees that  *)
(* crashes.                                                                *)
(*                                                                         *)
(* The argument: between two requests about a task the tables tell one     *)
(* story about it (Rest); inside a request the task may be ahead of its    *)
(* other rows, and the point of the code the thread is at says by how much *)
(* (Story).                                                                *)
(***************************************************************************)
EXTENDS PaperclipProofs, PaperclipPromises

StateOf(s, t) == s.task[t].state
StatusOf(s, t) == s.queue[t].status
Keyed(s, t) == \E k \in Keys : s.idem[k] = t

-----------------------------------------------------------------------------
(* What a step does to the locals of its thread, field by field *)

\* The locals but for the program counter and the call of transition_task.
Same(l, m) ==
  /\ m.op = l.op /\ m.task = l.task /\ m.worker = l.worker /\ m.goal = l.goal
  /\ m.at = l.at /\ m.attempts = l.attempts /\ m.caught = l.caught
  /\ m.status = l.status /\ m.hasRow = l.hasRow /\ m.todo = l.todo

Goes(l, m, pc) ==
  Same(l, m) /\ m.pc = pc /\ m.target = l.target /\ m.then = l.then

Calls(l, m, target, then) ==
  Same(l, m) /\ m.pc = "t_read" /\ m.target = target /\ m.then = then

\* An exception that process_queue catches.
Caught(l, m) ==
  /\ l.caught
  /\ ~m.caught
  /\ m.pc = IF l.attempts + 1 >= MaxAttempts THEN "e_dead" ELSE "e_state"
  /\ m.task = l.task /\ m.op = l.op /\ m.worker = l.worker
  /\ m.attempts = l.attempts /\ m.at = l.at

\* The request has ended.
Ended(m) ==
  /\ m.pc = "idle" /\ m.op = "none" /\ m.task = NoTask /\ ~m.caught
  /\ m.worker = NoWorker /\ m.todo = {}

LEMMA BecomeDoes ==
  ASSUME TypeInv, NEW w \in Threads, NEW l, Become(w, l)
  PROVE  thread'[w] = l
BY DEF Become, TypeInv, TypeOK

LEMMA LocalsTyped ==
  ASSUME TypeInv, NEW w \in Threads
  PROVE  thread[w] \in Locals /\ ThreadOK(thread[w])
BY DEF TypeInv, TypeOK

LEMMA GotoDoes ==
  ASSUME TypeInv, NEW w \in Threads, NEW pc, Goto(w, pc)
  PROVE  Goes(thread[w], thread'[w], pc)
<1> DEFINE m == [thread[w] EXCEPT !.pc = pc]
<1>1. thread'[w] = m
  BY BecomeDoes DEF Goto
<1>2. Goes(thread[w], m, pc)
  BY LocalsTyped DEF Goes, Same, Locals
<1> HIDE DEF m
<1> QED BY <1>1, <1>2

LEMMA TransitionDoes ==
  ASSUME NEW l \in Locals, NEW target, NEW then
  PROVE  Calls(l, Transition(l, target, then), target, then)
BY DEF Calls, Same, Locals, Transition

LEMMA CallDoes ==
  ASSUME TypeInv, NEW w \in Threads, NEW target, NEW then,
         Become(w, Transition(thread[w], target, then))
  PROVE  Calls(thread[w], thread'[w], target, then)
BY BecomeDoes, LocalsTyped, TransitionDoes

LEMMA GiveUpDoes ==
  ASSUME TypeInv, NEW w \in Threads, GiveUp(w)
  PROVE  Ended(thread'[w])
BY BecomeDoes DEF GiveUp, Ended, Idle

LEMMA RaiseDoes ==
  ASSUME TypeInv, NEW w \in Threads, Raise(w)
  PROVE  Caught(thread[w], thread'[w]) \/ (~thread[w].caught /\ Ended(thread'[w]))
<1> DEFINE l == thread[w]
           pc == IF l.attempts + 1 >= MaxAttempts THEN "e_dead" ELSE "e_state"
           m == [l EXCEPT !.caught = FALSE, !.pc = pc]
<1>1. CASE l.caught
  <2>1. thread'[w] = m
    BY <1>1, BecomeDoes DEF Raise, Raised
  <2>2. Caught(l, m)
    BY <1>1, LocalsTyped DEF Caught, Locals
  <2> HIDE DEF l, m
  <2> QED BY <2>1, <2>2 DEF l
<1>2. CASE ~l.caught
  BY <1>2, BecomeDoes DEF Raise, Raised, Ended, Idle
<1> QED BY <1>1, <1>2

-----------------------------------------------------------------------------
(* What a statement does to the rows of its task; the rows of the others,    *)
(* it leaves alone                                                           *)

SameState(s, s2, t) == StateOf(s2, t) = StateOf(s, t)
SameRow(s, s2, t) == s2.queue[t] = s.queue[t]
SameResult(s, s2, t) == s2.result[t] = s.result[t]
SameKeys(s, s2, t) == Keyed(s2, t) <=> Keyed(s, t)
SameAudit(s, s2, t) ==
  s2.audit[t] = s.audit[t] /\ (t \in s2.granted <=> t \in s.granted)

SameRows(s, s2, t) ==
  /\ SameState(s, s2, t) /\ SameRow(s, s2, t) /\ SameResult(s, s2, t)
  /\ SameKeys(s, s2, t) /\ SameAudit(s, s2, t)

Apart(s, s2, t) == \A u \in Tasks : u # t => SameRows(s, s2, u)

LEMMA NothingDone ==
  ASSUME NEW s, NEW t
  PROVE  Apart(s, s, t) /\ SameRows(s, s, t)
BY DEF Apart, SameRows, SameState, SameRow, SameResult, SameKeys, SameAudit

LEMMA ApartTwice ==
  ASSUME NEW s, NEW s1, NEW s2, NEW t, Apart(s, s1, t), Apart(s1, s2, t)
  PROVE  Apart(s, s2, t)
BY DEF Apart, SameRows, SameState, SameRow, SameResult, SameKeys, SameAudit

\* A task without a row is absent, and has no status without a queue row.
LEMMA NoRow ==
  ASSUME NEW s \in Store, NEW t \in Tasks
  PROVE  /\ HasTask(s, t) <=> StateOf(s, t) # "absent"
         /\ HasRow(s, t) <=> StatusOf(s, t) # "none"
         /\ StateOf(s, t) \in States \cup {"absent"}
         /\ StatusOf(s, t) \in RowStatus \cup {"none"}
<1>1. /\ HasTask(s, t) <=> StateOf(s, t) # "absent"
      /\ StateOf(s, t) \in States \cup {"absent"}
  <2>1. CASE HasTask(s, t)
    <3>1. StateOf(s, t) \in States
      BY <2>1, TaskRowType DEF StateOf, TaskRow
    <3> QED BY <2>1, <3>1 DEF States
  <2>2. CASE ~HasTask(s, t)
    BY <2>2 DEF HasTask, StateOf, NoTaskRow
  <2> QED BY <2>1, <2>2
<1>2. /\ HasRow(s, t) <=> StatusOf(s, t) # "none"
      /\ StatusOf(s, t) \in RowStatus \cup {"none"}
  <2>1. CASE HasRow(s, t)
    <3>1. StatusOf(s, t) \in RowStatus
      BY <2>1, QueueRowType DEF StatusOf, QueueRow
    <3> QED BY <2>1, <3>1 DEF RowStatus
  <2>2. CASE ~HasRow(s, t)
    BY <2>2 DEF HasRow, StatusOf, NoQueueRow
  <2> QED BY <2>1, <2>2
<1> QED BY <1>1, <1>2

\* A write of the row of a task, to the state `state`.
SetsState(s, s2, t, state) ==
  /\ Apart(s, s2, t) /\ SameRow(s, s2, t) /\ SameResult(s, s2, t)
  /\ SameKeys(s, s2, t) /\ s2.idem = s.idem /\ s2.audit = s.audit
  /\ StateOf(s2, t) = IF StateOf(s, t) = "absent" THEN "absent" ELSE state

LEMMA TaskWriteDoes ==
  ASSUME NEW s \in Store, NEW t \in Tasks, HasTask(s, t), NEW row,
         NEW s2, s2.task = [s.task EXCEPT ![t] = row], s2.queue = s.queue,
         s2.result = s.result, s2.idem = s.idem, s2.audit = s.audit,
         \A u \in Tasks : u # t => (u \in s2.granted <=> u \in s.granted)
  PROVE  SetsState(s, s2, t, row.state)
<1>1. s2.task[t] = row /\ \A u \in Tasks : u # t => s2.task[u] = s.task[u]
  BY DEF Store
<1> QED BY <1>1, NoRow
        DEF SetsState, Apart, SameRows, SameState, SameRow, SameResult, SameKeys,
            SameAudit, StateOf, Keyed

LEMMA UpdateTaskStateDoes ==
  ASSUME NEW s \in Store, NEW t \in Tasks, NEW state
  PROVE  LET s2 == UpdateTaskState(s, t, state) IN
           SetsState(s, s2, t, state) /\ s2.granted = s.granted
<1> DEFINE s2 == UpdateTaskState(s, t, state)
           row == [s.task[t] EXCEPT !.state = state]
<1>1. CASE HasTask(s, t)
  <2>1. row.state = state
    BY <1>1, TaskRowType DEF TaskRow
  <2>2. s2 = [s EXCEPT !.task = [@ EXCEPT ![t] = row]]
    BY <1>1 DEF UpdateTaskState
  <2> HIDE DEF row, s2
  <2>3. /\ s2.task = [s.task EXCEPT ![t] = row] /\ s2.queue = s.queue
        /\ s2.result = s.result /\ s2.idem = s.idem /\ s2.audit = s.audit
        /\ s2.granted = s.granted
    BY <2>2 DEF Store
  <2>4. SetsState(s, s2, t, row.state)
    BY <1>1, <2>3, TaskWriteDoes
  <2> QED BY <2>1, <2>3, <2>4 DEF s2
<1>2. CASE ~HasTask(s, t)
  BY <1>2, NothingDone, NoRow DEF UpdateTaskState, SetsState, SameRows
<1> QED BY <1>1, <1>2

LEMMA UpdateTaskApprovalDoes ==
  ASSUME NEW s \in Store, NEW t \in Tasks, NEW state, NEW approval
  PROVE  LET s2 == UpdateTaskApproval(s, t, state, approval) IN
           SetsState(s, s2, t, state) /\ s2.granted = s.granted
<1> DEFINE s2 == UpdateTaskApproval(s, t, state, approval)
           row == [s.task[t] EXCEPT !.state = state, !.approval = approval]
<1>1. CASE HasTask(s, t)
  <2>1. row.state = state
    BY <1>1, TaskRowType DEF TaskRow
  <2>2. s2 = [s EXCEPT !.task = [@ EXCEPT ![t] = row]]
    BY <1>1 DEF UpdateTaskApproval
  <2> HIDE DEF row, s2
  <2>3. /\ s2.task = [s.task EXCEPT ![t] = row] /\ s2.queue = s.queue
        /\ s2.result = s.result /\ s2.idem = s.idem /\ s2.audit = s.audit
        /\ s2.granted = s.granted
    BY <2>2 DEF Store
  <2>4. SetsState(s, s2, t, row.state)
    BY <1>1, <2>3, TaskWriteDoes
  <2> QED BY <2>1, <2>3, <2>4 DEF s2
<1>2. CASE ~HasTask(s, t)
  BY <1>2, NothingDone, NoRow DEF UpdateTaskApproval, SetsState, SameRows
<1> QED BY <1>1, <1>2

LEMMA GrantDoes ==
  ASSUME NEW s \in Store, NEW t \in Tasks
  PROVE  LET s2 == Grant(s, t) IN
           /\ s2.task = s.task /\ s2.queue = s.queue /\ s2.result = s.result
           /\ s2.idem = s.idem /\ s2.audit = s.audit
           /\ \A u \in Tasks : u # t => (u \in s2.granted <=> u \in s.granted)
BY DEF Grant, Store

\* What transition_task does to the row: a human's approval is granted too.
LEMMA ApplyTransitionDoes ==
  ASSUME NEW s \in Store, NEW t \in Tasks, NEW target \in States, NEW actor
  PROVE  LET s2 == ApplyTransition(s, t, target, actor) IN
           /\ SetsState(s, s2, t, target)
           /\ t \in s2.granted
                => t \in s.granted \/ (target = "approved" /\ actor = "human")
<1> DEFINE s2 == ApplyTransition(s, t, target, actor)
<1>1. CASE target = "pending_approval"
  BY <1>1, UpdateTaskApprovalDoes DEF ApplyTransition
<1>2. CASE target = "approved" /\ actor # "human"
  BY <1>2, UpdateTaskApprovalDoes DEF ApplyTransition
<1>3. CASE target = "approved" /\ actor = "human"
  <2> DEFINE s1 == UpdateTaskApproval(s, t, target, "approved")
  <2>1. SetsState(s, s1, t, target) /\ s1.granted = s.granted /\ s1 \in Store
    BY UpdateTaskApprovalDoes, UpdateTaskApprovalType DEF ApprovalStatus
  <2>2. s2 = Grant(s1, t)
    BY <1>3 DEF ApplyTransition
  <2> HIDE DEF s1, s2
  <2>3. /\ s2.task = s1.task /\ s2.queue = s1.queue /\ s2.result = s1.result
        /\ s2.idem = s1.idem /\ s2.audit = s1.audit
        /\ \A u \in Tasks : u # t => (u \in s2.granted <=> u \in s1.granted)
    BY <2>1, <2>2, GrantDoes
  <2>4. SetsState(s, s2, t, target)
    BY <2>1, <2>3 DEF SetsState, Apart, SameRows, SameState, SameRow, SameResult,
                      SameKeys, SameAudit, StateOf, Keyed
  <2> QED BY <1>3, <2>4 DEF s2
<1>4. CASE target = "rejected"
  BY <1>4, UpdateTaskApprovalDoes DEF ApplyTransition
<1>5. CASE target \notin {"pending_approval", "approved", "rejected"}
  BY <1>5, UpdateTaskStateDoes DEF ApplyTransition
<1> QED BY <1>1, <1>2, <1>3, <1>4, <1>5

\* An audit event is added, and nothing else changes.
Adds(s, s2, t, events) ==
  /\ Apart(s, s2, t) /\ SameState(s, s2, t) /\ SameRow(s, s2, t)
  /\ SameResult(s, s2, t) /\ SameKeys(s, s2, t) /\ s2.idem = s.idem
  /\ s2.granted = s.granted /\ s2.audit[t] = s.audit[t] \cup events

LEMMA AddAuditDoes ==
  ASSUME NEW s \in Store, NEW t \in Tasks, NEW event, NEW actor
  PROVE  Adds(s, AddAudit(s, t, event, actor), t, {<<event, actor>>})
<1> DEFINE s2 == AddAudit(s, t, event, actor)
<1>1. /\ s2.task = s.task /\ s2.queue = s.queue /\ s2.result = s.result
      /\ s2.idem = s.idem /\ s2.granted = s.granted
      /\ s2.audit = [s.audit EXCEPT ![t] = @ \cup {<<event, actor>>}]
  BY DEF AddAudit, Store
<1> HIDE DEF s2
<1>2. /\ s2.audit[t] = s.audit[t] \cup {<<event, actor>>}
      /\ \A u \in Tasks : u # t => s2.audit[u] = s.audit[u]
  BY <1>1 DEF Store
<1>3. Adds(s, s2, t, {<<event, actor>>})
  BY <1>1, <1>2 DEF Adds, Apart, SameRows, SameState, SameRow, SameResult,
                    SameKeys, SameAudit, StateOf, Keyed
<1> QED BY <1>3 DEF s2

\* The audit event of a transition.
EventOf(target, actor) ==
  CASE target = "approved" -> {<<"approval_granted", actor>>}
    [] target = "rejected" -> {<<"approval_rejected", actor>>}
    [] OTHER -> {}

LEMMA AuditTransitionDoes ==
  ASSUME NEW s \in Store, NEW t \in Tasks, NEW target, NEW actor
  PROVE  Adds(s, AuditTransition(s, t, target, actor), t, EventOf(target, actor))
<1>1. CASE target \in {"approved", "rejected"}
  BY <1>1, AddAuditDoes DEF AuditTransition, EventOf
<1>2. CASE target \notin {"approved", "rejected"}
  <2>1. AuditTransition(s, t, target, actor) = s /\ EventOf(target, actor) = {}
    BY <1>2 DEF AuditTransition, EventOf
  <2> QED BY <2>1, NothingDone DEF Adds, SameRows
<1> QED BY <1>1, <1>2

\* A new row of a task: only its state is new.
LEMMA CreateTaskDoes ==
  ASSUME NEW s \in Store, NEW t \in Tasks, NEW approval, NEW review
  PROVE  LET s2 == CreateTask(s, t, approval, review) IN
           /\ Apart(s, s2, t) /\ SameRow(s, s2, t) /\ SameResult(s, s2, t)
           /\ SameKeys(s, s2, t) /\ SameAudit(s, s2, t) /\ s2.idem = s.idem
           /\ StateOf(s2, t) = "received"
<1> DEFINE s2 == CreateTask(s, t, approval, review)
<1>1. /\ s2.queue = s.queue /\ s2.result = s.result
      /\ s2.idem = s.idem /\ s2.granted = s.granted /\ s2.audit = s.audit
      /\ s2.task[t].state = "received"
      /\ \A u \in Tasks : u # t => s2.task[u] = s.task[u]
  BY DEF CreateTask, Store
<1> HIDE DEF s2
<1>2. /\ Apart(s, s2, t) /\ SameRow(s, s2, t) /\ SameResult(s, s2, t)
      /\ SameKeys(s, s2, t) /\ SameAudit(s, s2, t) /\ s2.idem = s.idem
      /\ StateOf(s2, t) = "received"
  BY <1>1 DEF Apart, SameRows, SameState, SameRow, SameResult, SameKeys,
              SameAudit, StateOf, Keyed
<1> QED BY <1>2 DEF s2

\* A free key is recorded.
LEMMA CreateIdempotencyRecordDoes ==
  ASSUME NEW s \in Store, NEW t \in Tasks, NEW k \in Keys, s.idem[k] = NoTask
  PROVE  LET s2 == CreateIdempotencyRecord(s, k, t) IN
           /\ Apart(s, s2, t) /\ SameState(s, s2, t) /\ SameRow(s, s2, t)
           /\ SameResult(s, s2, t) /\ SameAudit(s, s2, t)
           /\ s2.idem = [s.idem EXCEPT ![k] = t]
           /\ Keyed(s2, t)
<1> DEFINE s2 == CreateIdempotencyRecord(s, k, t)
<1>1. /\ s2.task = s.task /\ s2.queue = s.queue /\ s2.result = s.result
      /\ s2.audit = s.audit /\ s2.granted = s.granted
      /\ s2.idem = [s.idem EXCEPT ![k] = t]
  BY DEF CreateIdempotencyRecord, Store
<1> HIDE DEF s2
<1>2. s2.idem[k] = t /\ \A j \in Keys : j # k => s2.idem[j] = s.idem[j]
  BY <1>1 DEF Store
<1>3. \A u \in Tasks : u # t => SameKeys(s, s2, u)
  BY <1>2, StoreAssumption DEF SameKeys, Keyed
<1>4. Keyed(s2, t)
  BY <1>2 DEF Keyed
<1>5. /\ Apart(s, s2, t) /\ SameState(s, s2, t) /\ SameRow(s, s2, t)
      /\ SameResult(s, s2, t) /\ SameAudit(s, s2, t)
  BY <1>1, <1>3 DEF Apart, SameRows, SameState, SameRow, SameResult, SameAudit,
                    StateOf
<1> QED BY <1>1, <1>4, <1>5 DEF s2

\* A row of task_queue is written, and nothing else.
PutsRow(s, s2, t, row) ==
  /\ Apart(s, s2, t) /\ SameState(s, s2, t) /\ SameResult(s, s2, t)
  /\ SameKeys(s, s2, t) /\ SameAudit(s, s2, t) /\ s2.idem = s.idem
  /\ s2.queue[t] = row /\ StatusOf(s2, t) = row.status

LEMMA QueueWriteDoes ==
  ASSUME NEW s \in Store, NEW t \in Tasks, NEW row, NEW s2,
         s2 = [s EXCEPT !.queue[t] = row]
  PROVE  PutsRow(s, s2, t, row)
<1>1. /\ s2.task = s.task /\ s2.result = s.result /\ s2.idem = s.idem
      /\ s2.audit = s.audit /\ s2.granted = s.granted
      /\ s2.queue[t] = row /\ \A u \in Tasks : u # t => s2.queue[u] = s.queue[u]
  BY DEF Store
<1>2. StatusOf(s2, t) = row.status
  BY <1>1 DEF StatusOf
<1> QED BY <1>1, <1>2
        DEF PutsRow, Apart, SameRows, SameState, SameRow, SameResult, SameKeys,
            SameAudit, StateOf, Keyed

LEMMA EnqueueRowDoes ==
  ASSUME NEW s \in Store, NEW t \in Tasks, NEW time
  PROVE  PutsRow(s, EnqueueRow(s, t, time), t,
                 [status |-> "queued", attempts |-> 0, next |-> time,
                  worker |-> NoWorker, lease |-> NoTime, timeout |-> NoTime])
BY QueueWriteDoes DEF EnqueueRow

\* An UPDATE of task_queue: it leaves the row with that status, worker and
\* number of attempts, if there is a row.
SetsRow(s, s2, t, status, worker, attempts) ==
  /\ Apart(s, s2, t) /\ SameState(s, s2, t) /\ SameResult(s, s2, t)
  /\ SameKeys(s, s2, t) /\ SameAudit(s, s2, t) /\ s2.idem = s.idem
  /\ StatusOf(s, t) = "none" => SameRow(s, s2, t) /\ StatusOf(s2, t) = "none"
  /\ StatusOf(s, t) # "none" =>
       /\ StatusOf(s2, t) = status
       /\ s2.queue[t].worker = worker
       /\ s2.queue[t].attempts = attempts

LEMMA UpdateRowDoes ==
  ASSUME NEW s \in Store, NEW t \in Tasks, NEW row
  PROVE  SetsRow(s, UpdateRow(s, t, row), t, row.status, row.worker, row.attempts)
<1> DEFINE s2 == UpdateRow(s, t, row)
<1>1. CASE HasRow(s, t)
  <2>1. s2 = [s EXCEPT !.queue[t] = row]
    BY <1>1 DEF UpdateRow
  <2> HIDE DEF s2
  <2>2. PutsRow(s, s2, t, row) /\ StatusOf(s, t) # "none"
    BY <1>1, <2>1, QueueWriteDoes, NoRow
  <2> QED BY <2>2 DEF PutsRow, SetsRow, s2
<1>2. CASE ~HasRow(s, t)
  BY <1>2, NothingDone, NoRow DEF UpdateRow, SetsRow, SameRows
<1> QED BY <1>1, <1>2

LEMMA MarkStatusDoes ==
  ASSUME NEW s \in Store, NEW t \in Tasks, NEW status
  PROVE  SetsRow(s, MarkStatus(s, t, status), t, status,
                 s.queue[t].worker, s.queue[t].attempts)
<1> DEFINE row == [s.queue[t] EXCEPT !.status = status]
<1>1. s.queue[t] \in QueueRow \cup {NoQueueRow}
  BY DEF Store
<1>2. /\ row.status = status /\ row.worker = s.queue[t].worker
      /\ row.attempts = s.queue[t].attempts
  BY <1>1 DEF QueueRow, NoQueueRow
<1>3. MarkStatus(s, t, status) = UpdateRow(s, t, row)
  BY DEF MarkStatus
<1> HIDE DEF row
<1> QED BY <1>2, <1>3, UpdateRowDoes

LEMMA ClaimRowDoes ==
  ASSUME NEW s \in Store, NEW t \in Tasks, NEW worker, NEW lease
  PROVE  SetsRow(s, ClaimRow(s, t, worker, lease), t, StatusOf(s, t),
                 worker, s.queue[t].attempts)
<1> DEFINE row == [s.queue[t] EXCEPT !.worker = worker, !.lease = lease]
<1>1. s.queue[t] \in QueueRow \cup {NoQueueRow}
  BY DEF Store
<1>2. /\ row.status = StatusOf(s, t) /\ row.worker = worker
      /\ row.attempts = s.queue[t].attempts
  BY <1>1 DEF QueueRow, NoQueueRow, StatusOf
<1>3. ClaimRow(s, t, worker, lease) = UpdateRow(s, t, row)
  BY DEF ClaimRow
<1> HIDE DEF row
<1> QED BY <1>2, <1>3, UpdateRowDoes

LEMMA MarkRunningDoes ==
  ASSUME NEW s \in Store, NEW t \in Tasks, NEW timeout
  PROVE  SetsRow(s, MarkRunning(s, t, timeout), t, "running",
                 s.queue[t].worker, s.queue[t].attempts)
<1> DEFINE row == [s.queue[t] EXCEPT !.status = "running", !.timeout = timeout]
<1>1. s.queue[t] \in QueueRow \cup {NoQueueRow}
  BY DEF Store
<1>2. /\ row.status = "running" /\ row.worker = s.queue[t].worker
      /\ row.attempts = s.queue[t].attempts
  BY <1>1 DEF QueueRow, NoQueueRow
<1>3. MarkRunning(s, t, timeout) = UpdateRow(s, t, row)
  BY DEF MarkRunning
<1> HIDE DEF row
<1> QED BY <1>2, <1>3, UpdateRowDoes

LEMMA ResetToQueuedDoes ==
  ASSUME NEW s \in Store, NEW t \in Tasks
  PROVE  SetsRow(s, ResetToQueued(s, t), t, "queued", NoWorker,
                 s.queue[t].attempts)
<1> DEFINE row == [s.queue[t] EXCEPT !.status = "queued", !.worker = NoWorker,
                                     !.lease = NoTime, !.timeout = NoTime]
<1>1. s.queue[t] \in QueueRow \cup {NoQueueRow}
  BY DEF Store
<1>2. /\ row.status = "queued" /\ row.worker = NoWorker
      /\ row.attempts = s.queue[t].attempts
  BY <1>1 DEF QueueRow, NoQueueRow
<1>3. ResetToQueued(s, t) = UpdateRow(s, t, row)
  BY DEF ResetToQueued
<1> HIDE DEF row
<1> QED BY <1>2, <1>3, UpdateRowDoes

LEMMA MarkRetryDoes ==
  ASSUME NEW s \in Store, NEW t \in Tasks, NEW attempts, NEW next
  PROVE  SetsRow(s, MarkRetry(s, t, attempts, next), t, "queued",
                 s.queue[t].worker, attempts)
<1> DEFINE row == [s.queue[t] EXCEPT !.status = "queued", !.attempts = attempts,
                                     !.next = next]
<1>1. s.queue[t] \in QueueRow \cup {NoQueueRow}
  BY DEF Store
<1>2. /\ row.status = "queued" /\ row.worker = s.queue[t].worker
      /\ row.attempts = attempts
  BY <1>1 DEF QueueRow, NoQueueRow
<1>3. MarkRetry(s, t, attempts, next) = UpdateRow(s, t, row)
  BY DEF MarkRetry
<1> HIDE DEF row
<1> QED BY <1>2, <1>3, UpdateRowDoes

LEMMA MarkDeadLetterDoes ==
  ASSUME NEW s \in Store, NEW t \in Tasks, NEW attempts
  PROVE  SetsRow(s, MarkDeadLetter(s, t, attempts), t, "dead_letter",
                 s.queue[t].worker, attempts)
<1> DEFINE row == [s.queue[t] EXCEPT !.status = "dead_letter",
                                     !.attempts = attempts]
<1>1. s.queue[t] \in QueueRow \cup {NoQueueRow}
  BY DEF Store
<1>2. /\ row.status = "dead_letter" /\ row.worker = s.queue[t].worker
      /\ row.attempts = attempts
  BY <1>1 DEF QueueRow, NoQueueRow
<1>3. MarkDeadLetter(s, t, attempts) = UpdateRow(s, t, row)
  BY DEF MarkDeadLetter
<1> HIDE DEF row
<1> QED BY <1>2, <1>3, UpdateRowDoes

LEMMA StoreResultDoes ==
  ASSUME NEW s \in Store, NEW t \in Tasks, NEW status
  PROVE  LET s2 == StoreResult(s, t, status) IN
           /\ Apart(s, s2, t) /\ SameState(s, s2, t) /\ SameRow(s, s2, t)
           /\ SameKeys(s, s2, t) /\ SameAudit(s, s2, t) /\ s2.idem = s.idem
           /\ s2.result[t] = status
<1> DEFINE s2 == StoreResult(s, t, status)
<1>1. /\ s2.task = s.task /\ s2.queue = s.queue /\ s2.idem = s.idem
      /\ s2.audit = s.audit /\ s2.granted = s.granted /\ s2.result[t] = status
      /\ \A u \in Tasks : u # t => s2.result[u] = s.result[u]
  BY DEF StoreResult, Store
<1> HIDE DEF s2
<1>2. /\ Apart(s, s2, t) /\ SameState(s, s2, t) /\ SameRow(s, s2, t)
      /\ SameKeys(s, s2, t) /\ SameAudit(s, s2, t)
  BY <1>1 DEF Apart, SameRows, SameState, SameRow, SameResult, SameKeys,
              SameAudit, StateOf, Keyed
<1> QED BY <1>1, <1>2 DEF s2

-----------------------------------------------------------------------------
(* The five statements of delete_task_data *)

LEMMA DeleteKeysDoes ==
  ASSUME NEW s \in Store, NEW t \in Tasks
  PROVE  LET s2 == DeleteFrom(s, t, "idem") IN
           /\ Apart(s, s2, t) /\ SameState(s, s2, t) /\ SameRow(s, s2, t)
           /\ SameResult(s, s2, t) /\ SameAudit(s, s2, t)
           /\ ~Keyed(s2, t)
           /\ \A k \in Keys :
                s2.idem[k] = IF s.idem[k] = t THEN NoTask ELSE s.idem[k]
<1> DEFINE s2 == DeleteFrom(s, t, "idem")
<1>1. /\ s2.task = s.task /\ s2.queue = s.queue /\ s2.result = s.result
      /\ s2.audit = s.audit /\ s2.granted = s.granted
      /\ \A k \in Keys :
           s2.idem[k] = IF s.idem[k] = t THEN NoTask ELSE s.idem[k]
  BY DEF DeleteFrom, Store
<1> HIDE DEF s2
<1>2. ~Keyed(s2, t) /\ \A u \in Tasks : u # t => SameKeys(s, s2, u)
  BY <1>1, StoreAssumption DEF SameKeys, Keyed
<1>3. /\ Apart(s, s2, t) /\ SameState(s, s2, t) /\ SameRow(s, s2, t)
      /\ SameResult(s, s2, t) /\ SameAudit(s, s2, t)
  BY <1>1, <1>2 DEF Apart, SameRows, SameState, SameRow, SameResult, SameAudit,
                    StateOf
<1> QED BY <1>1, <1>2, <1>3 DEF s2

LEMMA DeleteResultDoes ==
  ASSUME NEW s \in Store, NEW t \in Tasks
  PROVE  LET s2 == DeleteFrom(s, t, "result") IN
           /\ Apart(s, s2, t) /\ SameState(s, s2, t) /\ SameRow(s, s2, t)
           /\ SameKeys(s, s2, t) /\ SameAudit(s, s2, t) /\ s2.idem = s.idem
           /\ s2.result[t] = NoResult
<1>1. DeleteFrom(s, t, "result") = StoreResult(s, t, NoResult)
  BY DEF DeleteFrom, StoreResult
<1> QED BY <1>1, StoreResultDoes

LEMMA DeleteRowDoes ==
  ASSUME NEW s \in Store, NEW t \in Tasks
  PROVE  PutsRow(s, DeleteFrom(s, t, "queue"), t, NoQueueRow)
BY QueueWriteDoes DEF DeleteFrom

LEMMA DeleteAuditDoes ==
  ASSUME NEW s \in Store, NEW t \in Tasks
  PROVE  LET s2 == DeleteFrom(s, t, "audit") IN
           /\ Apart(s, s2, t) /\ SameState(s, s2, t) /\ SameRow(s, s2, t)
           /\ SameResult(s, s2, t) /\ SameKeys(s, s2, t) /\ s2.idem = s.idem
           /\ s2.granted = s.granted
<1> DEFINE s2 == DeleteFrom(s, t, "audit")
<1>1. /\ s2.task = s.task /\ s2.queue = s.queue /\ s2.idem = s.idem
      /\ s2.result = s.result /\ s2.granted = s.granted
      /\ \A u \in Tasks : u # t => s2.audit[u] = s.audit[u]
  BY DEF DeleteFrom, Store
<1> HIDE DEF s2
<1>2. /\ Apart(s, s2, t) /\ SameState(s, s2, t) /\ SameRow(s, s2, t)
      /\ SameResult(s, s2, t) /\ SameKeys(s, s2, t)
  BY <1>1 DEF Apart, SameRows, SameState, SameRow, SameResult, SameKeys,
              SameAudit, StateOf, Keyed
<1> QED BY <1>1, <1>2 DEF s2

LEMMA DeleteTaskDoes ==
  ASSUME NEW s \in Store, NEW t \in Tasks
  PROVE  LET s2 == DeleteFrom(s, t, "task") IN
           /\ Apart(s, s2, t) /\ SameRow(s, s2, t) /\ SameResult(s, s2, t)
           /\ SameKeys(s, s2, t) /\ s2.idem = s.idem
           /\ StateOf(s2, t) = "absent" /\ t \notin s2.granted
<1> DEFINE s2 == DeleteFrom(s, t, "task")
<1>1. /\ s2.queue = s.queue /\ s2.idem = s.idem /\ s2.result = s.result
      /\ s2.audit = s.audit /\ s2.task[t].state = "absent"
      /\ t \notin s2.granted
      /\ \A u \in Tasks : u # t => /\ s2.task[u] = s.task[u]
                                   /\ u \in s2.granted <=> u \in s.granted
  BY DEF DeleteFrom, Store, NoTaskRow
<1> HIDE DEF s2
<1>2. ASSUME NEW u \in Tasks, u # t
      PROVE  SameRows(s, s2, u)
  <2>1. SameKeys(s, s2, u)
    BY <1>1 DEF SameKeys, Keyed
  <2> QED BY <1>1, <1>2, <2>1
          DEF SameRows, SameState, SameRow, SameResult, SameAudit, StateOf
<1>3. SameRow(s, s2, t) /\ SameResult(s, s2, t) /\ SameKeys(s, s2, t)
  BY <1>1 DEF SameRow, SameResult, SameKeys, Keyed
<1> QED BY <1>1, <1>2, <1>3 DEF Apart, StateOf, s2

-----------------------------------------------------------------------------
(* The inductive invariant *)

\* The rows of a task between two statements that belong together.
Rest(s, f, t) ==
  LET state == StateOf(s, t)  status == StatusOf(s, t)  result == s.result[t] IN
  /\ state = "absent"
       => status = "none" /\ result = NoResult /\ ~Keyed(s, t) /\ t \notin f
  /\ status = "queued" <=> state = "queued"
  /\ status = "dispatched" => state \in {"running", "succeeded", "failed"}
  /\ status \in {"dead_letter", "timed_out"} => state = "failed"
  /\ status = "cancelled" => state = "cancelled"
  /\ status # "running"
  /\ result # NoResult => state = result
  /\ state = "succeeded" => result = "succeeded"

\* The points of the code at which a thread has written one row of its task and
\* not yet the other.
Odd(l) ==
  \/ l.pc \in {"enqueue_row", "d_running", "d_dispatched", "e_retry", "r_store",
               "c_row", "x_queue", "x_audit", "x_task", "x_files"}
  \/ l.pc \in {"t_read", "t_write"} /\ l.target = "failed" /\ l.then = "return"
  \/ l.pc = "t_commit" /\ l.then \in {"enqueue_row", "d_running", "r_store"}

\* Where a thread is in its request, and what it has found and written by then.
PointOK(l, s) ==
  LET t == l.task  state == StateOf(s, t)  status == StatusOf(s, t)
      result == s.result[t]
  IN
  /\ l.pc \notin {"rj_read", "rj_row", "rj_state", "ra_write"}
  /\ l.pc \in {"to_list", "to_next"} => l.todo = {}
  /\ l.pc = "submit_create" => l.op = "submit" /\ ~l.caught /\ l.worker = NoWorker
  /\ l.pc = "submit_lookup" => l.op = "submit" /\ ~l.caught /\ l.worker = NoWorker
  /\ l.pc = "submit_idem" =>
       /\ state = "received" /\ l.op = "submit" /\ ~l.caught
       /\ l.worker = NoWorker /\ l.goal \in {"pending_approval", "approved"}
  /\ l.pc \in {"pq_read", "r_read"} => ~l.caught
  /\ l.pc \in {"claim_read", "claim_write", "d_ready"} => state = "queued"
  /\ l.pc \in {"claim_read", "claim_write"} => ~l.caught
  /\ l.pc = "d_ready" => l.worker = NoWorker
  /\ l.pc = "d_read" =>
       IF l.caught
       THEN state = "queued" /\ l.worker \in {NoWorker, s.queue[t].worker}
       ELSE state = "approved" /\ l.worker = NoWorker /\ l.op = "approve"
  /\ l.pc = "enqueue_row" =>
       /\ state = "queued" /\ status = "none" /\ result = NoResult
       /\ ~l.caught /\ l.worker = NoWorker
  /\ l.pc = "d_running" =>
       state = "running" /\ status = "queued" /\ result = NoResult
  /\ l.pc = "d_dispatched" =>
       state = "running" /\ status = "running" /\ result = NoResult
  /\ l.pc \in {"d_submit", "d_wait", "e_dead", "e_state"} =>
       state = "running" /\ status = "dispatched" /\ result = NoResult
  /\ l.pc \in {"e_dead", "e_state"} => ~l.caught
  /\ l.pc = "e_retry" =>
       state = "queued" /\ status = "dispatched" /\ result = NoResult
  /\ l.pc = "r_store" =>
       /\ state = l.status /\ l.status \in RunStatus /\ result = NoResult
       /\ status \in {"none", "dispatched"}
  /\ l.pc \in {"r_commit", "r_file"} => state # "absent"
  /\ l.pc = "c_state" =>
       state \notin Terminal \cup {"absent"} /\ (l.hasRow <=> status # "none")
  /\ l.pc = "c_row" =>
       /\ state = "cancelled" /\ result = NoResult
       /\ l.hasRow <=> status # "none"
  /\ l.pc \in {"x_idem", "x_result", "x_queue", "x_audit", "x_task"}
       => state # "absent"
  /\ l.pc \in {"x_result", "x_queue", "x_audit", "x_task", "x_files"}
       => ~Keyed(s, t)
  /\ l.pc \in {"x_queue", "x_audit", "x_task", "x_files"} => result = NoResult
  /\ l.pc \in {"x_audit", "x_task", "x_files"} => status = "none"
  /\ l.pc = "x_files" => state = "absent"

\* The same inside a call of transition_task.
CallOK(l, s) ==
  LET t == l.task  state == StateOf(s, t)  status == StatusOf(s, t)
      result == s.result[t]  done == l.pc = "t_commit"
  IN
  InTransition(l) =>
    CASE l.then = "submit_validated" ->
           /\ ~l.caught /\ l.worker = NoWorker /\ l.op = "submit"
           /\ l.goal \in {"pending_approval", "approved"}
           /\ l.target = "validating"
           /\ state = IF done THEN "validating" ELSE "received"
      [] l.then = "submit_decided" ->
           /\ ~l.caught /\ l.worker = NoWorker /\ l.op = "submit"
           /\ l.goal \in {"pending_approval", "approved"}
           /\ l.target = l.goal
           /\ state = IF done THEN l.goal ELSE "validating"
      [] l.then = "enqueue_row" ->
           /\ ~l.caught /\ l.worker = NoWorker
           /\ l.target = "queued" /\ result = NoResult /\ status = "none"
           /\ state = IF done THEN "queued" ELSE "approved"
      [] l.then = "d_running" ->
           /\ l.target = "running" /\ result = NoResult /\ status = "queued"
           /\ state = IF done THEN "running" ELSE "queued"
      [] l.then = "d_read" ->
           /\ ~l.caught /\ l.worker = NoWorker /\ l.op = "approve"
           /\ l.target = "approved"
           /\ l.pc = "t_write" => state \in {"validating", "pending_approval"}
           /\ done => state = "approved"
      [] l.then = "r_store" ->
           /\ ~l.caught
           /\ l.target = l.status /\ l.status \in RunStatus /\ result = NoResult
           /\ l.pc = "t_write" => state = "running"
           /\ done => state = l.status /\ status \in {"none", "dispatched"}
      [] l.then = "return" /\ l.target = "rejected" ->
           /\ ~l.caught
           /\ l.pc = "t_write" => state = "pending_approval"
           /\ done => state = "rejected"
      [] l.then = "return" /\ l.target = "failed" ->
           /\ ~l.caught
           /\ status = "dead_letter" /\ result = NoResult
           /\ state = IF done THEN "failed" ELSE "running"
      [] OTHER -> FALSE

Story(l, s) == PointOK(l, s) /\ CallOK(l, s)

\* No thread is in the middle of writing about the task.
Untouched(t) == \A w \in Threads : thread[w].task # t \/ ~Odd(thread[w])

SerialInv ==
  /\ \A w \in Threads : Story(thread[w], db)
  /\ \A t \in Tasks : Untouched(t) => Rest(db, files, t)

\* The thread has a request about the task in hand, and has not only to answer:
\* a pass of enforce_timeouts has the rows it listed in hand.
Handles(w, t) ==
  ~At(w, "return") /\ (thread[w].task = t \/ t \in thread[w].todo)

\* No two threads have requests about one task in hand.  The code does not see
\* to it; a lock per task would, and one thread does.
OneByOne ==
  \A v, w \in Threads, t \in Tasks : Handles(v, t) /\ Handles(w, t) => v = w

LEMMA OneThread ==
  ASSUME NEW w, Threads = {w}
  PROVE  OneByOne
BY DEF OneByOne

-----------------------------------------------------------------------------
(* One step of a thread *)

LEMMA RestKept ==
  ASSUME NEW s, NEW s2, NEW f, NEW f2, NEW t, Rest(s, f, t),
         SameState(s, s2, t), SameRow(s, s2, t), SameResult(s, s2, t),
         SameKeys(s, s2, t), t \in f2 => t \in f
  PROVE  Rest(s2, f2, t)
<1>1. StatusOf(s2, t) = StatusOf(s, t)
  BY DEF SameRow, StatusOf
<1> QED BY <1>1 DEF Rest, SameState, SameResult, SameKeys

\* How the state of a task may move (TaskLifecycle).
Moves(from, to) ==
  \/ to = from
  \/ from = "absent" /\ to = "received"
  \/ CanTransition(from, to)
  \/ from = "running" /\ to = "queued"
  \/ to = "absent"

\* What a step of thread w has to show: it is where its story says, and its task
\* is at rest or the thread is known to be in between; nothing else changed.
Serves(w) ==
  LET m == thread'[w]  t == Task(w) IN
  /\ Story(m, db')
  /\ Apart(db, db', t)
  /\ \A u \in Tasks : u # t /\ u \in files' => u \in files
  /\ At(w, "return") => Read /\ UNCHANGED files
  /\ t \in Tasks =>
       /\ At(w, "return") \/ (m.task = t /\ Odd(m)) \/ Rest(db', files', t)
       /\ Moves(StateOf(db, t), StateOf(db', t))
       /\ db.result[t] # NoResult => db'.result[t] \in {db.result[t], NoResult}

\* The other threads wait.
LEMMA OthersWait ==
  ASSUME TypeInv, NEW w \in Threads, Request(w) \/ Serve(w)
  PROVE  \A v \in Threads : v # w => thread'[v] = thread[v]
<1> DEFINE Steps == \E l : Become(w, l)
<1>1. SUFFICES Steps
  BY DEF Become, TypeInv, TypeOK
<1>2. Request(w) => Steps
  BY DEF Request, RequestSubmit, RequestApprove, RequestReject, RequestCancel,
         RequestResult, RequestProcess, RequestTimeouts, RequestRecoverJob,
         RequestRecoverApproval, RequestDelete, Start
<1>3. /\ GiveUp(w) => Steps
      /\ Raise(w) => Steps
      /\ \A pc : Goto(w, pc) => Steps
  BY DEF GiveUp, Raise, Goto
<1>4. Transact(w) => Steps
  BY <1>3 DEF Transact, TransitionRead, TransitionWrite, TransitionCommit
<1>5. Submit(w) => Steps
  BY <1>3 DEF Submit, SubmitLookup, SubmitCreate, SubmitIdempotency, EnqueueTask
<1>6. Process(w) => Steps
  BY <1>3 DEF Process, ProcessRead, ClaimRead, ClaimWrite, DeadLetter, RetryState,
              RetryRow
<1>7. Dispatch(w) => Steps
  BY <1>3 DEF Dispatch, DispatchRead, DispatchReady, Ready, DispatchRunning,
              DispatchDispatched, SubmitReceived, SubmitFails, SubmitRefused,
              SubmitAnswered, SubmitBroken
<1>8. RecordResult(w) => Steps
  BY <1>3 DEF RecordResult, ResultRead, ResultStore, ResultCommit, ResultFile
<1>9. Cancel(w) => Steps
  BY <1>3 DEF Cancel, CancelRead, CancelState, CancelRow
<1>10. Operate(w) => Steps
  BY <1>3 DEF Operate, TimeoutsList, TimeoutsNext, RecoverJobRead, RecoverJobRow,
              RecoverJobState, RecoverApproval, DeleteRead, DeleteData,
              DeleteStatement, DeleteTask, DeleteFiles
<1>11. Return(w) => Steps
  BY <1>3 DEF Return
<1> HIDE DEF Steps
<1> QED BY <1>2, <1>4, <1>5, <1>6, <1>7, <1>8, <1>9, <1>10, <1>11 DEF Serve

LEMMA IdleStory ==
  ASSUME NEW m, NEW s, m.pc \in {"idle", "return"}
  PROVE  Story(m, s)
BY DEF Story, PointOK, CallOK, InTransition

LEMMA StoryKept ==
  ASSUME NEW l, NEW s, NEW s2, Story(l, s), SameState(s, s2, l.task),
         SameRow(s, s2, l.task), SameResult(s, s2, l.task),
         SameKeys(s, s2, l.task)
  PROVE  Story(l, s2)
<1>1. StatusOf(s2, l.task) = StatusOf(s, l.task)
  BY DEF SameRow, StatusOf
<1>2. PointOK(l, s2)
  BY <1>1 DEF Story, PointOK, SameState, SameRow, SameResult, SameKeys
<1>3. CallOK(l, s2)
  BY <1>1 DEF Story, CallOK, SameState, SameResult
<1> QED BY <1>2, <1>3 DEF Story

\* The task another thread has in hand is not the one that is served here.
LEMMA TheirTask ==
  ASSUME TypeInv, OneByOne, NEW w \in Threads, NEW v \in Threads, v # w,
         ~At(w, "return"),
         thread[v].pc \notin {"idle", "to_list", "to_next", "return"}
  PROVE  Task(v) \in Tasks /\ Task(v) # Task(w)
<1>1. Task(v) \in Tasks
  BY Serving
<1> QED BY <1>1 DEF OneByOne, Handles, At, Task

LEMMA ServesKeeps ==
  ASSUME TypeInv, SerialInv, OneByOne, NEW w \in Threads, Serves(w),
         \A v \in Threads : v # w => thread'[v] = thread[v]
  PROVE  SerialInv'
<1> DEFINE m == thread'[w]
           t == Task(w)
<1>1. ASSUME NEW v \in Threads
      PROVE  Story(thread'[v], db')
  <2> DEFINE k == thread[v]
  <2>1. CASE v = w
    BY <2>1 DEF Serves
  <2>2. CASE v # w
    <3>1. k = thread'[v] /\ Story(k, db)
      BY <2>2 DEF SerialInv
    <3>2. CASE k.pc \in {"idle", "return"}
      BY <3>1, <3>2, IdleStory
    <3>3. CASE k.pc \in {"to_list", "to_next"}
      BY <3>1, <3>3 DEF Story, PointOK, CallOK, InTransition
    <3>4. CASE At(w, "return")
      BY <3>1, <3>4 DEF Serves, Read
    <3>5. CASE /\ ~At(w, "return")
               /\ k.pc \notin {"idle", "to_list", "to_next", "return"}
      <4>1. SameRows(db, db', k.task)
        BY <2>2, <3>5, TheirTask DEF Serves, Apart, Task
      <4> QED BY <3>1, <4>1, StoryKept DEF SameRows
    <3> QED BY <3>2, <3>3, <3>4, <3>5
  <2> QED BY <2>1, <2>2
<1>2. ASSUME NEW u \in Tasks, Untouched(u)'
      PROVE  Rest(db', files', u)
  <2>1. \A v \in Threads : v # w => thread[v].task # u \/ ~Odd(thread[v])
    BY <1>2 DEF Untouched
  <2>2. CASE u # t
    <3>1. Rest(db, files, u)
      BY <2>1, <2>2 DEF SerialInv, Untouched, Task
    <3>2. SameRows(db, db', u) /\ (u \in files' => u \in files)
      BY <2>2 DEF Serves, Apart
    <3> QED BY <3>1, <3>2, RestKept DEF SameRows
  <2>3. CASE At(w, "return")
    <3>1. Rest(db, files, u)
      BY <2>1, <2>3 DEF SerialInv, Untouched, At, Odd
    <3> QED BY <2>3, <3>1 DEF Serves, Read
  <2>4. CASE u = t /\ ~At(w, "return")
    <3>1. ~(m.task = t /\ Odd(m))
      BY <1>2, <2>4 DEF Untouched
    <3> QED BY <2>4, <3>1 DEF Serves
  <2> QED BY <2>2, <2>3, <2>4
<1> QED BY <1>1, <1>2 DEF SerialInv

\* Nobody else is in the middle of writing about a task a thread has in hand.
LEMMA HandledAlone ==
  ASSUME OneByOne, NEW w \in Threads, NEW t \in Tasks, Handles(w, t),
         ~Odd(thread[w])
  PROVE  Untouched(t)
BY DEF OneByOne, Handles, Untouched, Odd, At

\* What is known before a step at a point of the code that is about a task.
LEMMA Standing ==
  ASSUME TypeInv, SerialInv, OneByOne, NEW w \in Threads,
         thread[w].pc \notin {"idle", "to_list", "to_next", "return"}
  PROVE  /\ Task(w) \in Tasks /\ Task(w) # NoTask
         /\ thread[w] \in Locals /\ ThreadOK(thread[w])
         /\ thread[w].task = Task(w)
         /\ db \in Store /\ db.result[Task(w)] \in RunStatus \cup {NoResult}
         /\ Story(thread[w], db)
         /\ ~Odd(thread[w]) => Rest(db, files, Task(w))
<1>1. Task(w) \in Tasks /\ thread[w] \in Locals /\ ThreadOK(thread[w])
  BY Serving, LocalsTyped
<1>2. db \in Store /\ db.result[Task(w)] \in RunStatus \cup {NoResult}
  BY <1>1, StoreTyped DEF Store
<1>3. ~Odd(thread[w]) => Rest(db, files, Task(w))
  <2>1. Handles(w, Task(w))
    BY DEF Handles, At, Task
  <2> QED BY <1>1, <2>1, HandledAlone DEF SerialInv
<1> QED BY <1>1, <1>2, <1>3, StoreAssumption DEF SerialInv, Task

LEMMA TerminalStates == Terminal = {"succeeded", "failed", "rejected", "cancelled"}
BY DEF Terminal, States, AllowedTransitions

\* The transitions the guard accepts, read both ways.
LEMMA Guard ==
  /\ CanTransition("received", "validating")
  /\ CanTransition("validating", "approved")
  /\ CanTransition("validating", "pending_approval")
  /\ CanTransition("approved", "queued")
  /\ CanTransition("queued", "running")
  /\ CanTransition("running", "failed")
  /\ CanTransition("running", "succeeded")
  /\ \A s : CanTransition(s, "approved") => s \in {"validating", "pending_approval"}
  /\ \A s : CanTransition(s, "rejected") => s = "pending_approval"
  /\ \A s : \A r \in RunStatus : CanTransition(s, r) => s = "running"
  /\ \A s \in (States \cup {"absent"}) \ (Terminal \cup {"absent"}) :
       CanTransition(s, "cancelled")
  /\ \A s \in States : CanTransition(s, "cancelled") => s \notin Terminal
<1>1. /\ CanTransition("received", "validating")
      /\ CanTransition("validating", "approved")
      /\ CanTransition("validating", "pending_approval")
      /\ CanTransition("approved", "queued")
      /\ CanTransition("queued", "running")
      /\ CanTransition("running", "failed")
      /\ CanTransition("running", "succeeded")
  BY DEF CanTransition, AllowedTransitions, States
<1>2. ASSUME NEW s, CanTransition(s, "approved")
      PROVE  s \in {"validating", "pending_approval"}
  BY <1>2 DEF CanTransition, AllowedTransitions, States
<1>3. ASSUME NEW s, CanTransition(s, "rejected")
      PROVE  s = "pending_approval"
  BY <1>3 DEF CanTransition, AllowedTransitions, States
<1>4. ASSUME NEW s, NEW r \in RunStatus, CanTransition(s, r)
      PROVE  s = "running"
  BY <1>4 DEF CanTransition, AllowedTransitions, States, RunStatus
<1>5. ASSUME NEW s \in States, s \notin Terminal
      PROVE  CanTransition(s, "cancelled")
  BY <1>5 DEF CanTransition, AllowedTransitions, States, Terminal
<1>6. ASSUME NEW s \in States, CanTransition(s, "cancelled")
      PROVE  s \notin Terminal
  BY <1>6 DEF CanTransition, AllowedTransitions, States, Terminal
<1> QED BY <1>1, <1>2, <1>3, <1>4, <1>5, <1>6

\* The commonest steps: read and go on, answer, or give up.
LEMMA StillServes ==
  ASSUME TypeInv, SerialInv, OneByOne, NEW w \in Threads, Read, UNCHANGED files,
         ~Odd(thread[w]), Story(thread'[w], db)
  PROVE  Serves(w)
<1>1. Task(w) \in Tasks /\ ~At(w, "return") => Rest(db, files, Task(w))
  BY HandledAlone DEF SerialInv, Handles, Task
<1> QED BY <1>1, NothingDone DEF Serves, Read, Moves

LEMMA LeaveServes ==
  ASSUME TypeInv, SerialInv, OneByOne, NEW w \in Threads, Read, UNCHANGED files,
         ~Odd(thread[w]), GiveUp(w) \/ Goto(w, "return")
  PROVE  Serves(w)
<1>1. thread'[w].pc \in {"idle", "return"}
  BY GiveUpDoes, GotoDoes DEF Ended, Goes
<1> QED BY <1>1, IdleStory, StillServes

\* A statement about the task and then the answer: the task is at rest again.
LEMMA AnswerServes ==
  ASSUME TypeInv, SerialInv, OneByOne, NEW w \in Threads, UNCHANGED files,
         ~At(w, "return"), Goto(w, "return"), Apart(db, db', Task(w)),
         Rest(db', files, Task(w)), SameState(db, db', Task(w)),
         SameResult(db, db', Task(w))
  PROVE  Serves(w)
<1>1. Story(thread'[w], db')
  BY GotoDoes, IdleStory DEF Goes
<1> QED BY <1>1 DEF Serves, Moves, SameState, SameResult

LEMMA TransitionReadServes ==
  ASSUME TypeInv, SerialInv, OneByOne, NEW w \in Threads, TransitionRead(w)
  PROVE  Serves(w)
<1> DEFINE l == thread[w]
           m == thread'[w]
           t == Task(w)
<1>0. /\ w \in Threads /\ UNCHANGED files /\ Read /\ l.pc = "t_read"
      /\ t \in Tasks /\ l.task = t /\ CallOK(l, db)
      /\ ~Odd(l) => Rest(db, files, t)
  BY Standing DEF TransitionRead, At, Outside, Story
<1>1. CASE CanTransition(StateOf(db, t), l.target)
  <2>1. Goes(l, m, "t_write")
    BY <1>0, <1>1, GotoDoes DEF TransitionRead, StateOf
  <2>2. CallOK(m, db)
    <3>1. l.then = "d_read" => StateOf(db, t) \in {"validating", "pending_approval"}
      BY <1>0, <1>1, Guard DEF CallOK, InTransition
    <3>2. l.then = "return" /\ l.target = "rejected"
            => StateOf(db, t) = "pending_approval"
      BY <1>0, <1>1, Guard DEF CallOK, InTransition
    <3>3. l.then = "r_store" => StateOf(db, t) = "running"
      BY <1>0, <1>1, Guard DEF CallOK, InTransition
    <3> QED BY <1>0, <2>1, <3>1, <3>2, <3>3 DEF CallOK, InTransition, Goes, Same
  <2>3. PointOK(m, db)
    BY <2>1 DEF PointOK, Goes
  <2>4. Odd(m) <=> Odd(l)
    BY <1>0, <2>1 DEF Odd, Goes
  <2> QED BY <1>0, <2>1, <2>2, <2>3, <2>4, NothingDone
          DEF Serves, Story, Goes, Same, Read, Moves
<1>2. CASE ~CanTransition(StateOf(db, t), l.target)
  <2>1. ~l.caught /\ ~Odd(l)
    BY <1>0, <1>2, Guard DEF CallOK, InTransition, Odd
  <2>2. GiveUp(w)
    BY <1>2, <2>1 DEF TransitionRead, Raise, Raised, GiveUp, StateOf
  <2> QED BY <1>0, <2>1, <2>2, LeaveServes
<1> QED BY <1>1, <1>2

LEMMA CancelServes ==
  ASSUME TypeInv, SerialInv, OneByOne, NEW w \in Threads, Cancel(w)
  PROVE  Serves(w)
<1> DEFINE l == thread[w]
           m == thread'[w]
           t == Task(w)
<1>0. /\ w \in Threads /\ UNCHANGED files
      /\ t \in Tasks /\ t # NoTask /\ l \in Locals /\ l.task = t /\ db \in Store
      /\ db.result[t] \in RunStatus \cup {NoResult}
      /\ Story(l, db) /\ (~Odd(l) => Rest(db, files, t))
  <2>1. l.pc \in {"c_read", "c_state", "c_row"} /\ UNCHANGED files
    BY DEF Cancel, CancelRead, CancelState, CancelRow, At, Outside
  <2> QED BY <2>1, Standing
<1>1. CASE CancelState(w)
  <2>1. l.pc = "c_state" /\ Goes(l, m, "c_row")
    BY <1>0, <1>1, GotoDoes DEF CancelState, At
  <2>2. SetsState(db, db', t, "cancelled")
    BY <1>0, <1>1, UpdateTaskStateDoes DEF CancelState, Write
  <2>3. Rest(db, files, t)
    BY <1>0, <2>1 DEF Odd
  <2>4. /\ StateOf(db, t) \notin Terminal \cup {"absent"}
        /\ StateOf(db', t) = "cancelled"
        /\ StatusOf(db', t) = StatusOf(db, t) /\ db'.result[t] = db.result[t]
        /\ l.hasRow <=> StatusOf(db, t) # "none"
    BY <1>0, <2>1, <2>2 DEF Story, PointOK, SetsState, SameRow, StatusOf, SameResult
  <2>6. db.result[t] = NoResult
    BY <1>0, <2>3, <2>4, TerminalStates DEF Rest, RunStatus
  <2>5. Story(m, db')
    BY <1>0, <2>1, <2>4, <2>6
       DEF Story, PointOK, CallOK, InTransition, Goes, Same
  <2> QED BY <1>0, <2>1, <2>2, <2>4, <2>5, Guard, NoRow
          DEF At, Serves, Odd, Goes, Same, Moves, SetsState
<1>2. CASE CancelRead(w)
  <2>1. l.pc = "c_read" /\ Read
    BY <1>2 DEF CancelRead, At
  <2>2. Rest(db, files, t) /\ ~Odd(l)
    BY <1>0, <2>1 DEF Odd
  <2>3. CASE GiveUp(w) \/ Goto(w, "return")
    BY <1>0, <2>1, <2>2, <2>3, LeaveServes
  <2>4. CASE ~(GiveUp(w) \/ Goto(w, "return"))
    <3> DEFINE n == [l EXCEPT !.pc = "c_state", !.hasRow = HasRow(db, t)]
    <3>1. /\ StateOf(db, t)
                \notin {"cancelled", "absent", "succeeded", "failed", "rejected"}
          /\ m = n
      BY <1>0, <1>2, <2>4, BecomeDoes DEF CancelRead, StateOf
    <3>2. n.pc = "c_state" /\ n.task = t /\ (n.hasRow <=> HasRow(db, t))
      BY <1>0 DEF Locals
    <3> HIDE DEF n
    <3>3. Story(n, db)
      BY <1>0, <3>1, <3>2, NoRow, TerminalStates
         DEF Story, PointOK, CallOK, InTransition
    <3> QED BY <1>0, <2>1, <2>2, <3>1, <3>3, StillServes
  <2> QED BY <2>3, <2>4
<1>3. CASE CancelRow(w)
  <2> DEFINE marked == IF l.hasRow THEN MarkCancelled(db, t) ELSE db
  <2>1. l.pc = "c_row" /\ Goto(w, "return")
    BY <1>3 DEF CancelRow, At
  <2>2. /\ StateOf(db, t) = "cancelled" /\ db.result[t] = NoResult
        /\ l.hasRow <=> StatusOf(db, t) # "none"
    BY <1>0, <2>1 DEF Story, PointOK
  <2>3. /\ marked \in Store /\ Apart(db, marked, t) /\ SameState(db, marked, t)
        /\ SameResult(db, marked, t) /\ StatusOf(marked, t) \in {"none", "cancelled"}
    <3>1. CASE l.hasRow
      BY <1>0, <2>2, <3>1, MarkStatusDoes, MarkStatusType
         DEF MarkCancelled, SetsRow, RowStatus
    <3>2. CASE ~l.hasRow
      BY <1>0, <2>2, <3>2, NothingDone DEF SameRows
    <3> QED BY <3>1, <3>2
  <2>4. Adds(marked, db', t, {<<"task_cancelled", "client">>})
    BY <1>0, <1>3, <2>3, AddAuditDoes DEF CancelRow, Write
  <2> HIDE DEF marked
  <2>5. /\ Apart(db, db', t) /\ SameState(db, db', t) /\ SameResult(db, db', t)
        /\ StatusOf(db', t) \in {"none", "cancelled"}
    BY <2>3, <2>4, ApartTwice
       DEF Adds, SameState, SameResult, SameRow, StatusOf
  <2>6. Rest(db', files, t)
    BY <2>2, <2>5 DEF Rest, SameState, SameResult
  <2> QED BY <1>0, <2>1, <2>5, <2>6, AnswerServes DEF At
<1> QED BY <1>1, <1>2, <1>3 DEF Cancel

\* Before it is queued a task has nothing but its own row.
LEMMA EarlyRow ==
  ASSUME NEW s \in Store, NEW f, NEW t \in Tasks, Rest(s, f, t),
         StateOf(s, t) \in {"received", "validating", "pending_approval", "approved"}
  PROVE  StatusOf(s, t) = "none" /\ s.result[t] = NoResult
<1>1. s.result[t] \in RunStatus \cup {NoResult}
  BY DEF Store
<1>2. StatusOf(s, t) \in RowStatus \cup {"none"}
  BY NoRow
<1> QED BY <1>1, <1>2 DEF Rest, RunStatus, RowStatus

\* A task that is running has been dispatched, if it was queued at all, and has
\* no result.
LEMMA RunningRow ==
  ASSUME NEW s \in Store, NEW f, NEW t \in Tasks, Rest(s, f, t),
         StateOf(s, t) = "running"
  PROVE  StatusOf(s, t) \in {"none", "dispatched"} /\ s.result[t] = NoResult
<1>1. s.result[t] \in RunStatus \cup {NoResult}
  BY DEF Store
<1>2. StatusOf(s, t) \in RowStatus \cup {"none"}
  BY NoRow
<1> QED BY <1>1, <1>2 DEF Rest, RunStatus, RowStatus

\* A task that is queued has a row that says so, and no result.
LEMMA QueuedRow ==
  ASSUME NEW s \in Store, NEW f, NEW t \in Tasks, Rest(s, f, t),
         StateOf(s, t) = "queued"
  PROVE  StatusOf(s, t) = "queued" /\ s.result[t] = NoResult /\ HasRow(s, t)
<1>1. s.result[t] \in RunStatus \cup {NoResult}
  BY DEF Store
<1>2. HasRow(s, t) <=> StatusOf(s, t) # "none"
  BY NoRow
<1> QED BY <1>1, <1>2 DEF Rest, RunStatus

LEMMA TransitionWriteServes ==
  ASSUME TypeInv, SerialInv, OneByOne, NEW w \in Threads, TransitionWrite(w)
  PROVE  Serves(w)
<1> DEFINE l == thread[w]
           m == thread'[w]
           t == Task(w)
<1>0. /\ w \in Threads /\ UNCHANGED files /\ l.pc = "t_write"
      /\ t \in Tasks /\ l \in Locals /\ l.task = t /\ db \in Store
      /\ l.target \in States /\ l.then \in Continuations
      /\ CallOK(l, db) /\ (~Odd(l) => Rest(db, files, t))
  BY Standing DEF TransitionWrite, At, Outside, Story, ThreadOK, InTransition,
                  Locals
<1>1. Goes(l, m, "t_commit")
  BY <1>0, GotoDoes DEF TransitionWrite
<1>2. SetsState(db, db', t, l.target)
  BY <1>0, ApplyTransitionDoes DEF TransitionWrite, Write
<1>3. PointOK(m, db') /\ m.task = t
  BY <1>0, <1>1 DEF PointOK, Goes, Same
<1>4. /\ StatusOf(db', t) = StatusOf(db, t) /\ db'.result[t] = db.result[t]
      /\ Keyed(db', t) <=> Keyed(db, t)
      /\ Apart(db, db', t)
  BY <1>2 DEF SetsState, SameRow, SameResult, SameKeys, StatusOf
<1>5. SUFFICES /\ StateOf(db', t) = l.target
               /\ CanTransition(StateOf(db, t), l.target)
               /\ CallOK(m, db')
               /\ Odd(m) \/ Rest(db', files, t)
  BY <1>0, <1>3, <1>4 DEF At, Serves, Story, Moves
<1>6. StateOf(db, t) # "absent" => StateOf(db', t) = l.target
  BY <1>2 DEF SetsState
<1>7. CASE l.then \in {"submit_validated", "submit_decided", "d_read"}
           \/ (l.then = "return" /\ l.target = "rejected")
  <2>1. /\ StateOf(db, t) \in {"received", "validating", "pending_approval"}
        /\ l.target \in {"validating", "pending_approval", "approved", "rejected"}
        /\ CanTransition(StateOf(db, t), l.target)
    <3>1. CanTransition("pending_approval", "approved")
          /\ CanTransition("pending_approval", "rejected")
      BY DEF CanTransition, AllowedTransitions, States
    <3> QED BY <1>0, <1>7, <3>1, Guard DEF CallOK, InTransition
  <2>2. Rest(db, files, t)
    BY <1>0, <2>1 DEF Odd
  <2>3. StateOf(db', t) = l.target
    BY <1>6, <2>1
  <2>4. Rest(db', files, t)
    BY <1>0, <1>4, <2>1, <2>2, <2>3, EarlyRow DEF Rest, RunStatus
  <2>5. CallOK(m, db')
    BY <1>0, <1>1, <1>7, <2>3 DEF CallOK, InTransition, Goes, Same
  <2> QED BY <2>1, <2>3, <2>4, <2>5
<1>8. CASE l.then \in {"enqueue_row", "d_running"}
  <2>1. /\ StateOf(db, t) \in {"approved", "queued"}
        /\ CanTransition(StateOf(db, t), l.target)
    BY <1>0, <1>8, Guard DEF CallOK, InTransition
  <2>2. StateOf(db', t) = l.target
    BY <1>6, <2>1
  <2>3. CallOK(m, db')
    BY <1>0, <1>1, <1>4, <1>8, <2>2 DEF CallOK, InTransition, Goes, Same
  <2>4. Odd(m)
    BY <1>1, <1>8 DEF Odd, Goes
  <2> QED BY <2>1, <2>2, <2>3, <2>4
<1>9. CASE l.then = "r_store"
  <2>1. /\ StateOf(db, t) = "running" /\ l.target \in RunStatus
        /\ l.target = l.status
    BY <1>0, <1>9 DEF CallOK, InTransition
  <2>2. StateOf(db', t) = l.target /\ CanTransition(StateOf(db, t), l.target)
    BY <1>6, <2>1, Guard DEF RunStatus
  <2>3. StatusOf(db, t) \in {"none", "dispatched"} /\ db.result[t] = NoResult
    BY <1>0, <1>9, <2>1, RunningRow DEF Odd
  <2>4. CallOK(m, db')
    BY <1>0, <1>1, <1>4, <1>9, <2>1, <2>2, <2>3
       DEF CallOK, InTransition, Goes, Same
  <2>5. Odd(m)
    BY <1>1, <1>9 DEF Odd, Goes
  <2> QED BY <2>2, <2>4, <2>5
<1>10. CASE l.then = "return" /\ l.target = "failed"
  <2>1. /\ StateOf(db, t) = "running" /\ db.result[t] = NoResult
        /\ StatusOf(db, t) = "dead_letter"
    BY <1>0, <1>10 DEF CallOK, InTransition
  <2>2. StateOf(db', t) = "failed" /\ CanTransition(StateOf(db, t), l.target)
    BY <1>6, <1>10, <2>1, Guard
  <2>3. CallOK(m, db')
    BY <1>0, <1>1, <1>4, <1>10, <2>1, <2>2 DEF CallOK, InTransition, Goes, Same
  <2>4. Rest(db', files, t)
    BY <1>4, <2>1, <2>2 DEF Rest
  <2> QED BY <1>10, <2>2, <2>3, <2>4
<1>11. \/ l.then \in {"submit_validated", "submit_decided", "d_read"}
       \/ l.then = "return" /\ l.target = "rejected"
       \/ l.then \in {"enqueue_row", "d_running", "r_store"}
       \/ l.then = "return" /\ l.target = "failed"
  BY <1>0 DEF CallOK, InTransition
<1> QED BY <1>7, <1>8, <1>9, <1>10, <1>11

\* Where transition_task returns to.
LEMMA AfterDoes ==
  ASSUME NEW l \in Locals
  PROVE  /\ l.then = "submit_validated"
              => Calls(l, After(l), l.goal, "submit_decided")
         /\ l.then = "submit_decided" /\ l.goal = "approved"
              => Calls(l, After(l), "queued", "enqueue_row")
         /\ l.then = "submit_decided" /\ l.goal # "approved"
              => Goes(l, After(l), "return")
         /\ l.then \notin {"submit_validated", "submit_decided"}
              => Goes(l, After(l), l.then)
<1>1. CASE l.then = "submit_validated"
  BY <1>1, TransitionDoes DEF After
<1>2. CASE l.then = "submit_decided" /\ l.goal = "approved"
  BY <1>2, TransitionDoes DEF After
<1>3. ASSUME NEW pc
      PROVE  Goes(l, [l EXCEPT !.pc = pc], pc)
  BY DEF Goes, Same, Locals
<1>4. CASE l.then = "submit_decided" /\ l.goal # "approved"
  BY <1>3, <1>4 DEF After
<1>5. CASE l.then \notin {"submit_validated", "submit_decided"}
  BY <1>3, <1>5 DEF After
<1> QED BY <1>1, <1>2, <1>4, <1>5

LEMMA TransitionCommitServes ==
  ASSUME TypeInv, SerialInv, OneByOne, NEW w \in Threads, TransitionCommit(w)
  PROVE  Serves(w)
<1> DEFINE l == thread[w]
           m == thread'[w]
           t == Task(w)
<1>0. /\ w \in Threads /\ UNCHANGED files /\ l.pc = "t_commit"
      /\ t \in Tasks /\ l \in Locals /\ l.task = t /\ db \in Store
      /\ CallOK(l, db) /\ (~Odd(l) => Rest(db, files, t))
      /\ m = After(l)
  BY Standing, BecomeDoes DEF TransitionCommit, At, Outside, Story
<1>1. Adds(db, db', t, EventOf(l.target, Actor(w)))
  BY <1>0, AuditTransitionDoes DEF TransitionCommit, Commit
<1>2. /\ Apart(db, db', t) /\ SameState(db, db', t) /\ SameRow(db, db', t)
      /\ SameResult(db, db', t) /\ SameKeys(db, db', t)
  BY <1>1 DEF Adds
<1>3. SUFFICES /\ m.task = t /\ Story(m, db)
               /\ Odd(m) \/ Rest(db, files, t)
  <2>1. Story(m, db')
    BY <1>2, <1>3, StoryKept
  <2>2. Odd(m) \/ Rest(db', files, t)
    BY <1>0, <1>2, <1>3, RestKept
  <2> QED BY <1>0, <1>2, <1>3, <2>1, <2>2
          DEF At, Serves, Moves, SameState, SameResult
<1>4. CASE l.then = "submit_validated"
  <2>1. Calls(l, m, l.goal, "submit_decided")
    BY <1>0, <1>4, AfterDoes
  <2>2. Story(m, db)
    BY <1>0, <1>4, <2>1 DEF Story, PointOK, CallOK, InTransition, Calls, Same
  <2> QED BY <1>0, <1>4, <2>1, <2>2 DEF Odd, Calls, Same
<1>5. CASE l.then = "submit_decided" /\ l.goal = "approved"
  <2>1. Calls(l, m, "queued", "enqueue_row")
    BY <1>0, <1>5, AfterDoes
  <2>2. Rest(db, files, t) /\ StateOf(db, t) = "approved"
    BY <1>0, <1>5 DEF Odd, CallOK, InTransition
  <2>3. StatusOf(db, t) = "none" /\ db.result[t] = NoResult
    BY <1>0, <2>2, EarlyRow
  <2>4. Story(m, db)
    BY <1>0, <1>5, <2>1, <2>2, <2>3
       DEF Story, PointOK, CallOK, InTransition, Calls, Same
  <2> QED BY <1>0, <2>1, <2>2, <2>4 DEF Calls, Same
<1>6. CASE l.then = "submit_decided" /\ l.goal # "approved"
  <2>1. Goes(l, m, "return")
    BY <1>0, <1>6, AfterDoes
  <2>2. Rest(db, files, t)
    BY <1>0, <1>6 DEF Odd
  <2> QED BY <1>0, <2>1, <2>2, IdleStory DEF Goes, Same
<1>7. CASE l.then \notin {"submit_validated", "submit_decided"}
  <2>1. Goes(l, m, l.then)
    BY <1>0, <1>7, AfterDoes
  <2>2. l.then \in {"enqueue_row", "d_running", "d_read", "r_store", "return"}
    BY <1>0, <1>7 DEF CallOK, InTransition
  <2>3. Story(m, db)
    <3>1. CallOK(m, db)
      BY <2>1, <2>2 DEF CallOK, InTransition, Goes
    <3>2. PointOK(m, db)
      BY <1>0, <2>1, <2>2 DEF PointOK, CallOK, InTransition, Goes, Same
    <3> QED BY <3>1, <3>2 DEF Story
  <2>4. Odd(m) \/ Rest(db, files, t)
    BY <1>0, <2>1, <2>2 DEF Odd, Goes
  <2> QED BY <1>0, <2>1, <2>3, <2>4 DEF Goes, Same
<1> QED BY <1>4, <1>5, <1>6, <1>7
LEMMA SubmitLookupServes ==
  ASSUME TypeInv, SerialInv, OneByOne, NEW w \in Threads, SubmitLookup(w)
  PROVE  Serves(w)
<1> DEFINE l == thread[w]
           m == thread'[w]
           existing == db.idem[Key(w)]
<1>0. /\ w \in Threads /\ UNCHANGED files /\ Read /\ l.pc = "submit_lookup"
      /\ l \in Locals /\ Story(l, db) /\ ~Odd(l)
  BY Standing DEF SubmitLookup, At, Outside, Odd
<1>1. CASE existing # NoTask /\ HasTask(db, existing)
  <2> DEFINE n == [l EXCEPT !.pc = "return", !.task = existing]
  <2>1. m = n
    BY <1>0, <1>1, BecomeDoes DEF SubmitLookup
  <2>2. n.pc = "return"
    BY <1>0 DEF Locals
  <2> HIDE DEF n
  <2> QED BY <1>0, <2>1, <2>2, IdleStory, StillServes
<1>2. CASE ~(existing # NoTask /\ HasTask(db, existing))
  <2>1. Goes(l, m, "submit_create")
    BY <1>0, <1>2, GotoDoes DEF SubmitLookup
  <2>2. Story(m, db)
    BY <1>0, <2>1 DEF Story, PointOK, CallOK, InTransition, Goes, Same
  <2> QED BY <1>0, <2>2, StillServes
<1> QED BY <1>1, <1>2

LEMMA SubmitCreateServes ==
  ASSUME TypeInv, SerialInv, OneByOne, NEW w \in Threads, SubmitCreate(w)
  PROVE  Serves(w)
<1> DEFINE l == thread[w]
           m == thread'[w]
           t == Task(w)
<1>0. /\ w \in Threads /\ UNCHANGED files /\ l.pc = "submit_create"
      /\ t \in Tasks /\ l \in Locals /\ l.task = t /\ db \in Store
      /\ Story(l, db) /\ ~Odd(l) /\ Rest(db, files, t)
  BY Standing DEF SubmitCreate, At, Outside, Odd
<1>1. CASE HasTask(db, t)
  BY <1>0, <1>1, LeaveServes DEF SubmitCreate
<1>2. CASE ~HasTask(db, t)
  <2>1. PICK required \in BOOLEAN, status \in ApprovalStatus :
          LET n == [l EXCEPT !.goal = NextState(required, status)] IN
          /\ db' = CreateTask(db, t, status, required /\ status # "approved")
          /\ Become(w, IF Key(w) = NoKey
                       THEN Transition(n, "validating", "submit_validated")
                       ELSE [n EXCEPT !.pc = "submit_idem"])
    BY <1>2 DEF SubmitCreate, Write
  <2> DEFINE goal == NextState(required, status)
             n == [l EXCEPT !.goal = goal]
  <2>2. goal \in {"pending_approval", "approved"}
    BY DEF NextState
  <2> HIDE DEF goal
  <2>3. /\ n \in Locals /\ n.goal = goal /\ n.op = l.op /\ n.task = t
        /\ n.caught = l.caught /\ n.worker = l.worker
    BY <1>0, <2>2 DEF Locals
  <2>4. [n EXCEPT !.pc = "submit_idem"].pc = "submit_idem"
        /\ Goes(n, [n EXCEPT !.pc = "submit_idem"], "submit_idem")
    BY <2>3 DEF Goes, Same, Locals
  <2>5. \/ Calls(n, m, "validating", "submit_validated")
        \/ Goes(n, m, "submit_idem")
    <3> HIDE DEF n
    <3> QED BY <1>0, <2>1, <2>3, <2>4, BecomeDoes, TransitionDoes DEF n, goal
  <2> HIDE DEF n
  <2>6. /\ Apart(db, db', t) /\ SameRow(db, db', t) /\ SameResult(db, db', t)
        /\ SameKeys(db, db', t) /\ StateOf(db', t) = "received"
    BY <1>0, <2>1, CreateTaskDoes
  <2>7. StateOf(db, t) = "absent"
    BY <1>0, <1>2, NoRow
  <2>8. Rest(db', files, t)
    BY <1>0, <2>6, <2>7 DEF Rest, SameRow, SameResult, StatusOf
  <2>9. Story(m, db')
    BY <1>0, <2>2, <2>3, <2>5, <2>6
       DEF Story, PointOK, CallOK, InTransition, Goes, Calls, Same
  <2> QED BY <1>0, <2>6, <2>7, <2>8, <2>9 DEF At, Serves, Moves, SameResult
<1> QED BY <1>1, <1>2

LEMMA SubmitIdempotencyServes ==
  ASSUME TypeInv, SerialInv, OneByOne, NEW w \in Threads, SubmitIdempotency(w)
  PROVE  Serves(w)
<1> DEFINE l == thread[w]
           m == thread'[w]
           t == Task(w)
<1>0. /\ w \in Threads /\ UNCHANGED files /\ l.pc = "submit_idem"
      /\ t \in Tasks /\ l \in Locals /\ l.task = t /\ db \in Store
      /\ Story(l, db) /\ ~Odd(l) /\ Rest(db, files, t) /\ Key(w) \in Keys
  BY Standing DEF SubmitIdempotency, At, Outside, Odd, ThreadOK, Key
<1>1. CASE db.idem[Key(w)] # NoTask
  BY <1>0, <1>1, LeaveServes DEF SubmitIdempotency
<1>2. CASE db.idem[Key(w)] = NoTask
  <2>1. Calls(l, m, "validating", "submit_validated")
    BY <1>0, <1>2, CallDoes DEF SubmitIdempotency
  <2>2. db' = CreateIdempotencyRecord(db, Key(w), t)
    BY <1>2 DEF SubmitIdempotency, Write
  <2>3. /\ Apart(db, db', t) /\ SameRow(db, db', t) /\ SameResult(db, db', t)
        /\ SameState(db, db', t)
    BY <1>0, <1>2, <2>2, CreateIdempotencyRecordDoes
  <2>4. StateOf(db, t) = "received"
    BY <1>0 DEF Story, PointOK
  <2>5. Rest(db', files, t)
    BY <1>0, <2>3, <2>4 DEF Rest, SameRow, SameResult, SameState, StatusOf
  <2>6. Story(m, db')
    BY <1>0, <2>1, <2>3, <2>4
       DEF Story, PointOK, CallOK, InTransition, Calls, Same, SameState
  <2> QED BY <1>0, <2>3, <2>5, <2>6 DEF At, Serves, Moves, SameResult, SameState
<1> QED BY <1>1, <1>2

LEMMA EnqueueTaskServes ==
  ASSUME TypeInv, SerialInv, OneByOne, NEW w \in Threads, EnqueueTask(w)
  PROVE  Serves(w)
<1> DEFINE l == thread[w]
           m == thread'[w]
           t == Task(w)
<1>0. /\ w \in Threads /\ UNCHANGED files /\ l.pc = "enqueue_row"
      /\ t \in Tasks /\ l \in Locals /\ l.task = t /\ db \in Store
      /\ Story(l, db)
  BY Standing DEF EnqueueTask, At, Outside
<1>1. Goes(l, m, "pq_read") \/ Goes(l, m, "d_ready")
  BY <1>0, GotoDoes DEF EnqueueTask
<1>2. /\ StateOf(db, t) = "queued" /\ db.result[t] = NoResult
      /\ ~l.caught /\ l.worker = NoWorker
  BY <1>0 DEF Story, PointOK
<1>3. /\ Apart(db, db', t) /\ SameState(db, db', t) /\ SameResult(db, db', t)
      /\ StatusOf(db', t) = "queued"
  BY <1>0, EnqueueRowDoes DEF EnqueueTask, Write, PutsRow
<1>4. Rest(db', files, t)
  BY <1>2, <1>3 DEF Rest, SameState, SameResult
<1>5. Story(m, db')
  BY <1>0, <1>1, <1>2, <1>3
     DEF Story, PointOK, CallOK, InTransition, Goes, Same, SameState
<1> QED BY <1>0, <1>3, <1>4, <1>5 DEF At, Serves, Moves, SameResult, SameState
LEMMA ProcessReadServes ==
  ASSUME TypeInv, SerialInv, OneByOne, NEW w \in Threads, ProcessRead(w)
  PROVE  Serves(w)
<1> DEFINE l == thread[w]
           m == thread'[w]
           t == Task(w)
           row == db.queue[t]
<1>0. /\ w \in Threads /\ UNCHANGED files /\ Read /\ l.pc = "pq_read"
      /\ t \in Tasks /\ l \in Locals /\ l.task = t /\ db \in Store
      /\ Story(l, db) /\ ~Odd(l) /\ Rest(db, files, t)
  BY Standing DEF ProcessRead, At, Outside, Odd
<1>1. CASE GiveUp(w) \/ Goto(w, "return")
  BY <1>0, <1>1, LeaveServes
<1>2. CASE ~(GiveUp(w) \/ Goto(w, "return"))
  <2> DEFINE n == [l EXCEPT !.at = now, !.attempts = row.attempts]
             a == [n EXCEPT !.pc = "d_read", !.caught = TRUE]
             b == [n EXCEPT !.pc = "claim_read"]
  <2>1. /\ HasRow(db, t) /\ row.status = "queued"
        /\ m = IF l.worker = NoWorker THEN a ELSE b
    BY <1>0, <1>2, BecomeDoes DEF ProcessRead
  <2>2. StateOf(db, t) = "queued"
    BY <1>0, <2>1 DEF Rest, StatusOf
  <2>3. /\ a.pc = "d_read" /\ a.caught /\ a.task = t /\ a.worker = l.worker
        /\ b.pc = "claim_read" /\ b.caught = l.caught /\ b.task = t
    BY <1>0 DEF Locals
  <2>4. ~l.caught
    BY <1>0 DEF Story, PointOK
  <2> HIDE DEF a, b
  <2>5. Story(m, db)
    BY <2>1, <2>2, <2>3, <2>4 DEF Story, PointOK, CallOK, InTransition
  <2> QED BY <1>0, <2>5, StillServes
<1> QED BY <1>1, <1>2

LEMMA ClaimServes ==
  ASSUME TypeInv, SerialInv, OneByOne, NEW w \in Threads,
         ClaimRead(w) \/ ClaimWrite(w)
  PROVE  Serves(w)
<1> DEFINE l == thread[w]
           m == thread'[w]
           t == Task(w)
<1>0. /\ w \in Threads /\ UNCHANGED files /\ l.pc \in {"claim_read", "claim_write"}
      /\ t \in Tasks /\ l \in Locals /\ l.task = t /\ db \in Store
      /\ Story(l, db) /\ ~Odd(l) /\ Rest(db, files, t)
  <2>1. l.pc \in {"claim_read", "claim_write"} /\ UNCHANGED files
    BY DEF ClaimRead, ClaimWrite, At, Outside
  <2> QED BY <2>1, Standing DEF Odd
<1>1. StateOf(db, t) = "queued" /\ ~l.caught
  BY <1>0 DEF Story, PointOK
<1>2. CASE ClaimRead(w)
  <2>1. CASE GiveUp(w)
    BY <1>0, <1>2, <2>1, LeaveServes DEF ClaimRead
  <2>2. CASE Goto(w, "claim_write")
    <3>1. Goes(l, m, "claim_write")
      BY <1>0, <2>2, GotoDoes
    <3>2. Story(m, db)
      BY <1>0, <1>1, <3>1 DEF Story, PointOK, CallOK, InTransition, Goes, Same
    <3> QED BY <1>0, <1>2, <3>2, StillServes DEF ClaimRead
  <2> QED BY <1>2, <2>1, <2>2 DEF ClaimRead
<1>3. CASE ClaimWrite(w)
  <2> DEFINE n == [l EXCEPT !.pc = "d_read", !.caught = TRUE,
                            !.attempts = db.queue[t].attempts]
  <2>1. HasRow(db, t) /\ StatusOf(db, t) = "queued" /\ db.result[t] = NoResult
    BY <1>0, <1>1, QueuedRow
  <2>2. m = n
    BY <1>0, <1>3, <2>1, BecomeDoes DEF ClaimWrite
  <2>3. n.pc = "d_read" /\ n.caught /\ n.task = t /\ n.worker = l.worker
    BY <1>0 DEF Locals
  <2> HIDE DEF n
  <2>4. SetsRow(db, db', t, "queued", l.worker, db.queue[t].attempts)
    BY <1>0, <1>3, <2>1, ClaimRowDoes DEF ClaimWrite, Write
  <2>5. /\ StatusOf(db', t) = "queued" /\ db'.queue[t].worker = l.worker
        /\ SameState(db, db', t) /\ SameResult(db, db', t) /\ Apart(db, db', t)
    BY <2>1, <2>4 DEF SetsRow
  <2>6. Story(m, db')
    BY <1>1, <2>2, <2>3, <2>5
       DEF Story, PointOK, CallOK, InTransition, SameState
  <2>7. Rest(db', files, t)
    BY <1>1, <2>1, <2>5 DEF Rest, SameState, SameResult
  <2> QED BY <1>0, <2>5, <2>6, <2>7 DEF At, Serves, Moves, SameState, SameResult
<1> QED BY <1>2, <1>3

LEMMA RetryServes ==
  ASSUME TypeInv, SerialInv, OneByOne, NEW w \in Threads,
         DeadLetter(w) \/ RetryState(w) \/ RetryRow(w)
  PROVE  Serves(w)
<1> DEFINE l == thread[w]
           m == thread'[w]
           t == Task(w)
<1>0. /\ w \in Threads /\ UNCHANGED files
      /\ l.pc \in {"e_dead", "e_state", "e_retry"}
      /\ t \in Tasks /\ l \in Locals /\ l.task = t /\ db \in Store
      /\ Story(l, db) /\ (~Odd(l) => Rest(db, files, t))
  <2>1. l.pc \in {"e_dead", "e_state", "e_retry"} /\ UNCHANGED files
    BY DEF DeadLetter, RetryState, RetryRow, At, Outside
  <2> QED BY <2>1, Standing
<1>1. StatusOf(db, t) = "dispatched" /\ db.result[t] = NoResult
  BY <1>0 DEF Story, PointOK
<1>2. CASE DeadLetter(w)
  <2>1. StateOf(db, t) = "running" /\ ~l.caught
    BY <1>0, <1>2 DEF Story, PointOK, DeadLetter, At
  <2>2. SetsRow(db, db', t, "dead_letter", db.queue[t].worker, l.attempts + 1)
    BY <1>0, <1>2, MarkDeadLetterDoes DEF DeadLetter, Write
  <2>3. /\ StatusOf(db', t) = "dead_letter" /\ SameState(db, db', t)
        /\ SameResult(db, db', t) /\ Apart(db, db', t)
    BY <1>1, <2>2 DEF SetsRow
  <2>4. Calls(l, m, "failed", "return")
    BY <1>0, <1>2, CallDoes DEF DeadLetter
  <2>5. Story(m, db')
    BY <1>0, <1>1, <2>1, <2>3, <2>4
       DEF Story, PointOK, CallOK, InTransition, SameState, SameResult, Calls, Same
  <2> QED BY <1>0, <2>3, <2>4, <2>5
          DEF At, Serves, Moves, Odd, SameState, SameResult, Calls, Same
<1>3. CASE RetryState(w)
  <2>1. StateOf(db, t) = "running"
    BY <1>0, <1>3 DEF Story, PointOK, RetryState, At
  <2>2. SetsState(db, db', t, "queued")
    BY <1>0, <1>3, UpdateTaskStateDoes DEF RetryState, Write
  <2>3. /\ StateOf(db', t) = "queued" /\ StatusOf(db', t) = "dispatched"
        /\ SameResult(db, db', t) /\ Apart(db, db', t)
    BY <1>1, <2>1, <2>2 DEF SetsState, SameRow, StatusOf
  <2>4. Goes(l, m, "e_retry")
    BY <1>0, <1>3, GotoDoes DEF RetryState
  <2>5. Story(m, db')
    BY <1>0, <1>1, <2>3, <2>4
       DEF Story, PointOK, CallOK, InTransition, SameResult, Goes, Same
  <2> QED BY <1>0, <2>1, <2>3, <2>4, <2>5
          DEF At, Serves, Moves, Odd, SameResult, Goes, Same
<1>4. CASE RetryRow(w)
  <2>1. StateOf(db, t) = "queued"
    BY <1>0, <1>4 DEF Story, PointOK, RetryRow, At
  <2>2. PICK n : SetsRow(db, db', t, "queued", db.queue[t].worker, n)
    BY <1>0, <1>4, MarkRetryDoes DEF RetryRow, Write
  <2>3. /\ StatusOf(db', t) = "queued" /\ SameState(db, db', t)
        /\ SameResult(db, db', t) /\ Apart(db, db', t)
    BY <1>1, <2>2 DEF SetsRow
  <2>4. Rest(db', files, t)
    BY <1>1, <2>1, <2>3 DEF Rest, SameState, SameResult
  <2> QED BY <1>0, <1>4, <2>3, <2>4, AnswerServes DEF RetryRow, At
<1> QED BY <1>2, <1>3, <1>4

LEMMA ReadyServes ==
  ASSUME TypeInv, SerialInv, OneByOne, NEW w \in Threads, Ready(w), Read,
         UNCHANGED files, thread[w].pc \in {"d_read", "d_ready"},
         StateOf(db, Task(w)) = "queued",
         thread[w].worker \in {NoWorker, db.queue[Task(w)].worker}
  PROVE  Serves(w)
<1> DEFINE l == thread[w]
           m == thread'[w]
           t == Task(w)
<1>0. /\ w \in Threads /\ t \in Tasks /\ l \in Locals /\ l.task = t
      /\ db \in Store /\ ~Odd(l) /\ Rest(db, files, t)
  BY Standing DEF Odd
<1>1. HasRow(db, t) /\ StatusOf(db, t) = "queued" /\ db.result[t] = NoResult
  BY <1>0, QueuedRow
<1>2. Calls(l, m, "running", "d_running")
  BY <1>0, <1>1, CallDoes DEF Ready, Dispatchable, StateOf
<1>3. Story(m, db)
  BY <1>0, <1>1, <1>2 DEF Story, PointOK, CallOK, InTransition, Calls, Same
<1> QED BY <1>0, <1>3, StillServes

LEMMA DispatchReadServes ==
  ASSUME TypeInv, SerialInv, OneByOne, NEW w \in Threads,
         DispatchRead(w) \/ DispatchReady(w)
  PROVE  Serves(w)
<1> DEFINE l == thread[w]
           m == thread'[w]
           t == Task(w)
<1>0. /\ w \in Threads /\ UNCHANGED files /\ Read /\ l.pc \in {"d_read", "d_ready"}
      /\ t \in Tasks /\ l \in Locals /\ l.task = t /\ db \in Store
      /\ Story(l, db) /\ ~Odd(l) /\ Rest(db, files, t)
  <2>1. l.pc \in {"d_read", "d_ready"} /\ UNCHANGED files /\ Read
    BY DEF DispatchRead, DispatchReady, At, Outside
  <2> QED BY <2>1, Standing DEF Odd
<1>1. CASE StateOf(db, t) = "queued"
  <2>1. l.worker \in {NoWorker, db.queue[t].worker}
    BY <1>0, <1>1 DEF Story, PointOK
  <2>2. Ready(w)
    BY <1>1 DEF DispatchRead, DispatchReady, StateOf
  <2> QED BY <1>0, <1>1, <2>1, <2>2, ReadyServes
<1>2. CASE StateOf(db, t) # "queued"
  <2>1. /\ DispatchRead(w) /\ StateOf(db, t) = "approved" /\ ~l.caught
        /\ l.worker = NoWorker
    BY <1>0, <1>2 DEF Story, PointOK, DispatchReady, At
  <2>2. Calls(l, m, "queued", "enqueue_row")
    BY <1>0, <2>1, CallDoes DEF DispatchRead, StateOf
  <2>3. StatusOf(db, t) = "none" /\ db.result[t] = NoResult
    BY <1>0, <2>1, EarlyRow
  <2>4. Story(m, db)
    BY <1>0, <2>1, <2>2, <2>3
       DEF Story, PointOK, CallOK, InTransition, Calls, Same
  <2> QED BY <1>0, <2>4, StillServes
<1> QED BY <1>1, <1>2
LEMMA DispatchWriteServes ==
  ASSUME TypeInv, SerialInv, OneByOne, NEW w \in Threads,
         DispatchRunning(w) \/ DispatchDispatched(w)
  PROVE  Serves(w)
<1> DEFINE l == thread[w]
           m == thread'[w]
           t == Task(w)
<1>0. /\ w \in Threads /\ UNCHANGED files
      /\ l.pc \in {"d_running", "d_dispatched"}
      /\ t \in Tasks /\ l \in Locals /\ l.task = t /\ db \in Store
      /\ Story(l, db)
  <2>1. l.pc \in {"d_running", "d_dispatched"} /\ UNCHANGED files
    BY DEF DispatchRunning, DispatchDispatched, At, Outside
  <2> QED BY <2>1, Standing
<1>1. /\ StateOf(db, t) = "running" /\ db.result[t] = NoResult
      /\ StatusOf(db, t) \in {"queued", "running"}
  BY <1>0 DEF Story, PointOK
<1>2. CASE DispatchRunning(w)
  <2>1. SetsRow(db, db', t, "running", db.queue[t].worker, db.queue[t].attempts)
    BY <1>0, <1>2, MarkRunningDoes DEF DispatchRunning, Write
  <2>2. /\ StatusOf(db', t) = "running" /\ SameState(db, db', t)
        /\ SameResult(db, db', t) /\ Apart(db, db', t)
    BY <1>1, <2>1 DEF SetsRow
  <2>3. Goes(l, m, "d_dispatched")
    BY <1>0, <1>2, GotoDoes DEF DispatchRunning
  <2>4. Story(m, db')
    BY <1>0, <1>1, <2>2, <2>3
       DEF Story, PointOK, CallOK, InTransition, SameState, SameResult, Goes, Same
  <2> QED BY <1>0, <2>2, <2>3, <2>4
          DEF At, Serves, Moves, Odd, SameState, SameResult, Goes, Same
<1>3. CASE DispatchDispatched(w)
  <2>1. SetsRow(db, db', t, "dispatched", db.queue[t].worker, db.queue[t].attempts)
    BY <1>0, <1>3, MarkStatusDoes DEF DispatchDispatched, Write, MarkDispatched
  <2>2. /\ StatusOf(db', t) = "dispatched" /\ SameState(db, db', t)
        /\ SameResult(db, db', t) /\ Apart(db, db', t)
    BY <1>1, <2>1 DEF SetsRow
  <2>3. Goes(l, m, "d_submit")
    BY <1>0, <1>3, GotoDoes DEF DispatchDispatched
  <2>4. Story(m, db')
    BY <1>0, <1>1, <2>2, <2>3
       DEF Story, PointOK, CallOK, InTransition, SameState, SameResult, Goes, Same
  <2>5. Rest(db', files, t)
    BY <1>1, <2>2 DEF Rest, SameState, SameResult
  <2> QED BY <1>0, <2>2, <2>4, <2>5 DEF At, Serves, Moves, SameState, SameResult
<1> QED BY <1>2, <1>3

\* The HTTP call, however it ends.
LEMMA SubmitsServe ==
  ASSUME TypeInv, SerialInv, OneByOne, NEW w \in Threads,
         \/ SubmitReceived(w) \/ SubmitFails(w) \/ SubmitRefused(w)
         \/ SubmitAnswered(w) \/ SubmitBroken(w)
  PROVE  Serves(w)
<1> DEFINE l == thread[w]
           m == thread'[w]
           t == Task(w)
<1>0. /\ w \in Threads /\ UNCHANGED files /\ Read /\ l.pc \in {"d_submit", "d_wait"}
      /\ t \in Tasks /\ l \in Locals /\ l.task = t /\ db \in Store
      /\ Story(l, db) /\ ~Odd(l)
      /\ Goto(w, "d_wait") \/ Goto(w, "return") \/ Raise(w)
  <2>1. /\ l.pc \in {"d_submit", "d_wait"} /\ UNCHANGED files /\ Read
        /\ Goto(w, "d_wait") \/ Goto(w, "return") \/ Raise(w)
    BY DEF SubmitReceived, SubmitFails, SubmitRefused, SubmitAnswered,
           SubmitBroken, At, Outside
  <2> QED BY <2>1, Standing DEF Odd
<1>1. CASE Goto(w, "return")
  BY <1>0, <1>1, LeaveServes
<1>2. CASE Goto(w, "d_wait")
  <2>1. Goes(l, m, "d_wait")
    BY <1>0, <1>2, GotoDoes
  <2>2. Story(m, db)
    BY <1>0, <2>1 DEF Story, PointOK, CallOK, InTransition, Goes, Same
  <2> QED BY <1>0, <2>2, StillServes
<1>3. CASE Raise(w)
  <2>1. Caught(l, m) \/ Ended(m)
    BY <1>0, <1>3, RaiseDoes
  <2>2. Caught(l, m) => Story(m, db)
    BY <1>0 DEF Story, PointOK, CallOK, InTransition, Caught
  <2>3. Ended(m) => Story(m, db)
    BY IdleStory DEF Ended
  <2> QED BY <1>0, <2>1, <2>2, <2>3, StillServes
<1> QED BY <1>0, <1>1, <1>2, <1>3

LEMMA RecordResultServes ==
  ASSUME TypeInv, SerialInv, OneByOne, NEW w \in Threads, RecordResult(w)
  PROVE  Serves(w)
<1> DEFINE l == thread[w]
           m == thread'[w]
           t == Task(w)
<1>0. /\ w \in Threads /\ l.pc \in {"r_read", "r_store", "r_commit", "r_file"}
      /\ t \in Tasks /\ l \in Locals /\ l.task = t /\ db \in Store
      /\ Story(l, db) /\ ThreadOK(l) /\ (~Odd(l) => Rest(db, files, t))
  <2>1. l.pc \in {"r_read", "r_store", "r_commit", "r_file"}
    BY DEF RecordResult, ResultRead, ResultStore, ResultCommit, ResultFile, At
  <2> QED BY <2>1, Standing
<1>1. CASE ResultRead(w)
  <2>1. l.pc = "r_read" /\ Read /\ UNCHANGED files /\ ~Odd(l)
    BY <1>1 DEF ResultRead, At, Outside, Odd
  <2>2. CASE GiveUp(w) \/ Goto(w, "return")
    BY <1>0, <2>1, <2>2, LeaveServes
  <2>3. CASE ~(GiveUp(w) \/ Goto(w, "return"))
    <3>1. db.result[t] = NoResult
      BY <1>0, <1>1, <2>3 DEF ResultRead
    <3>2. Calls(l, m, l.status, "r_store")
      <4>1. Become(w, Transition(l, l.status, "r_store"))
        BY <1>0, <1>1, <2>3 DEF ResultRead
      <4> QED BY <1>0, <4>1, CallDoes
    <3>3. l.status \in RunStatus /\ ~l.caught
      BY <1>0, <2>1 DEF ThreadOK, Story, PointOK
    <3>4. Story(m, db)
      BY <1>0, <3>1, <3>2, <3>3
         DEF Story, PointOK, CallOK, InTransition, Calls, Same
    <3> QED BY <1>0, <2>1, <3>4, StillServes
  <2> QED BY <2>2, <2>3
<1>2. CASE ResultStore(w)
  <2>1. /\ l.pc = "r_store" /\ UNCHANGED files
        /\ db' = StoreResult(db, t, l.status)
    BY <1>2 DEF ResultStore, At, Outside, Write
  <2>2. Goes(l, m, "r_commit")
    BY <1>0, <1>2, GotoDoes DEF ResultStore
  <2>3. /\ StateOf(db, t) = l.status /\ l.status \in RunStatus
        /\ db.result[t] = NoResult
        /\ StatusOf(db, t) \in {"none", "dispatched"}
    BY <1>0, <2>1 DEF Story, PointOK
  <2>4. /\ Apart(db, db', t) /\ SameState(db, db', t) /\ SameRow(db, db', t)
        /\ db'.result[t] = l.status
    BY <1>0, <2>1, StoreResultDoes
  <2>5. Rest(db', files, t) /\ StateOf(db', t) # "absent"
    BY <2>3, <2>4 DEF Rest, SameState, SameRow, StatusOf, RunStatus
  <2>6. Story(m, db')
    BY <1>0, <2>2, <2>5 DEF Story, PointOK, CallOK, InTransition, Goes, Same
  <2> QED BY <1>0, <2>1, <2>3, <2>4, <2>5, <2>6 DEF At, Serves, Moves, SameState
<1>3. CASE ResultCommit(w)
  <2>1. l.pc = "r_commit" /\ UNCHANGED files /\ db' = db
    BY <1>3 DEF ResultCommit, At, Outside, Commit
  <2>2. Goes(l, m, "r_file")
    BY <1>0, <1>3, GotoDoes DEF ResultCommit
  <2>3. Rest(db, files, t)
    BY <1>0, <2>1 DEF Odd
  <2>4. Story(m, db)
    BY <1>0, <2>1, <2>2 DEF Story, PointOK, CallOK, InTransition, Goes, Same
  <2> QED BY <1>0, <2>1, <2>3, <2>4, NothingDone DEF At, Serves, Moves
<1>4. CASE ResultFile(w)
  <2>1. l.pc = "r_file" /\ files' = files \cup {t} /\ db' = db
    BY <1>4 DEF ResultFile, At, Read
  <2>2. Goes(l, m, "return")
    BY <1>0, <1>4, GotoDoes DEF ResultFile
  <2>3. Rest(db, files, t) /\ StateOf(db, t) # "absent"
    BY <1>0, <2>1 DEF Odd, Story, PointOK
  <2>4. Rest(db, files', t)
    BY <2>3 DEF Rest
  <2>5. Story(m, db)
    BY <2>2, IdleStory DEF Goes
  <2> QED BY <1>0, <2>1, <2>4, <2>5, NothingDone DEF At, Serves, Moves
<1> QED BY <1>1, <1>2, <1>3, <1>4 DEF RecordResult

\* Between requests no row is running, and a row of a task that another thread
\* dispatches is not in hand: the timeout pass finds nothing.
LEMMA TimeoutsServe ==
  ASSUME TypeInv, SerialInv, OneByOne, OneByOne', NEW w \in Threads,
         TimeoutsList(w) \/ TimeoutsNext(w)
  PROVE  Serves(w)
<1> DEFINE l == thread[w]
           m == thread'[w]
<1>0. /\ w \in Threads /\ UNCHANGED files /\ l.pc \in {"to_list", "to_next"}
      /\ l \in Locals /\ Story(l, db) /\ ~Odd(l)
  BY LocalsTyped DEF TimeoutsList, TimeoutsNext, At, Outside, Odd, SerialInv
<1>1. CASE TimeoutsList(w)
  <2> DEFINE late == {t \in Tasks : /\ db.queue[t].status = "running"
                                    /\ db.queue[t].timeout # NoTime
                                    /\ db.queue[t].timeout <= now}
             n == [l EXCEPT !.pc = "to_next", !.at = now, !.todo = late]
  <2>1. m = n /\ Read
    BY <1>0, <1>1, BecomeDoes DEF TimeoutsList
  <2>2. n.pc = "to_next" /\ n.todo = late
    BY <1>0 DEF Locals
  <2>3. ASSUME NEW t \in late
        PROVE  FALSE
    <3> HIDE DEF n
    <3>1. StatusOf(db, t) = "running" /\ t \in Tasks
      BY DEF StatusOf
    <3>2. ~Untouched(t)
      BY <3>1 DEF SerialInv, Rest
    <3>3. PICK v \in Threads : thread[v].task = t /\ Odd(thread[v])
      BY <3>2 DEF Untouched
    <3>4. v # w /\ thread'[v] = thread[v]
      BY <1>0, <1>1, <3>3, OthersWait DEF Serve, Operate
    <3>5. Handles(v, t)'
      BY <3>3, <3>4 DEF Handles, At, Odd
    <3>6. Handles(w, t)'
      BY <2>1, <2>2 DEF Handles, At
    <3> QED BY <3>1, <3>4, <3>5, <3>6 DEF OneByOne
  <2>4. n.pc = "to_next" /\ n.todo = {}
    BY <2>2, <2>3
  <2> HIDE DEF n
  <2>5. Story(m, db)
    BY <2>1, <2>4 DEF Story, PointOK, CallOK, InTransition
  <2> QED BY <1>0, <2>1, <2>5, StillServes
<1>2. CASE TimeoutsNext(w)
  <2>1. l.todo = {}
    BY <1>0 DEF Story, PointOK
  <2> QED BY <1>0, <1>2, <2>1, LeaveServes DEF TimeoutsNext
<1> QED BY <1>1, <1>2

LEMMA DeleteServes ==
  ASSUME TypeInv, SerialInv, OneByOne, NEW w \in Threads,
         DeleteRead(w) \/ DeleteData(w) \/ DeleteTask(w) \/ DeleteFiles(w)
  PROVE  Serves(w)
<1> DEFINE l == thread[w]
           m == thread'[w]
           t == Task(w)
           x == {"x_read", "x_idem", "x_result", "x_queue", "x_audit", "x_task",
                 "x_files"}
<1>0. /\ w \in Threads /\ l.pc \in x
      /\ t \in Tasks /\ l \in Locals /\ l.task = t /\ db \in Store
      /\ Story(l, db) /\ (~Odd(l) => Rest(db, files, t))
      /\ db.result[t] \in RunStatus \cup {NoResult}
  <2>1. l.pc \in x
    BY DEF DeleteRead, DeleteData, DeleteStatement, DeleteTask, DeleteFiles, At
  <2> QED BY <2>1, Standing
<1>1. CASE DeleteRead(w)
  <2>1. l.pc = "x_read" /\ Read /\ UNCHANGED files /\ ~Odd(l)
    BY <1>1 DEF DeleteRead, At, Outside, Odd
  <2>2. CASE HasTask(db, t)
    <3>1. Goes(l, m, "x_idem")
      BY <1>0, <1>1, <2>2, GotoDoes DEF DeleteRead
    <3>2. Story(m, db)
      BY <1>0, <2>2, <3>1, NoRow
         DEF Story, PointOK, CallOK, InTransition, Goes, Same
    <3> QED BY <1>0, <2>1, <3>2, StillServes
  <2>3. CASE ~HasTask(db, t)
    BY <1>0, <1>1, <2>1, <2>3, LeaveServes DEF DeleteRead
  <2> QED BY <2>2, <2>3
<1>2. CASE DeleteStatement(w, "idem", "x_idem", "x_result")
  <2>1. /\ l.pc = "x_idem" /\ db' = DeleteFrom(db, t, "idem")
        /\ Goes(l, m, "x_result") /\ UNCHANGED files
    BY <1>0, <1>2, GotoDoes DEF DeleteStatement, At, Write, Outside
  <2>2. /\ Apart(db, db', t) /\ SameState(db, db', t) /\ SameRow(db, db', t)
        /\ SameResult(db, db', t) /\ ~Keyed(db', t)
    BY <1>0, <2>1, DeleteKeysDoes
  <2>3. Rest(db, files, t) /\ StateOf(db, t) # "absent"
    BY <1>0, <2>1 DEF Odd, Story, PointOK
  <2>4. Rest(db', files, t)
    BY <2>2, <2>3 DEF Rest, SameState, SameRow, SameResult, StatusOf
  <2>5. Story(m, db')
    BY <1>0, <2>1, <2>2, <2>3
       DEF Story, PointOK, CallOK, InTransition, Goes, Same, SameState
  <2> QED BY <1>0, <2>1, <2>2, <2>4, <2>5 DEF At, Serves, Moves, SameState, SameResult
<1>3. CASE DeleteStatement(w, "result", "x_result", "x_queue")
  <2>1. /\ l.pc = "x_result" /\ db' = DeleteFrom(db, t, "result")
        /\ Goes(l, m, "x_queue") /\ UNCHANGED files
    BY <1>0, <1>3, GotoDoes DEF DeleteStatement, At, Write, Outside
  <2>2. /\ Apart(db, db', t) /\ SameState(db, db', t) /\ SameRow(db, db', t)
        /\ SameKeys(db, db', t) /\ db'.result[t] = NoResult
    BY <1>0, <2>1, DeleteResultDoes
  <2>3. Story(m, db')
    BY <1>0, <2>1, <2>2
       DEF Story, PointOK, CallOK, InTransition, Goes, Same, SameState, SameKeys
  <2> QED BY <1>0, <2>1, <2>2, <2>3 DEF At, Serves, Moves, Odd, Goes, Same, SameState
<1>4. CASE DeleteStatement(w, "queue", "x_queue", "x_audit")
  <2>1. /\ l.pc = "x_queue" /\ db' = DeleteFrom(db, t, "queue")
        /\ Goes(l, m, "x_audit") /\ UNCHANGED files
    BY <1>0, <1>4, GotoDoes DEF DeleteStatement, At, Write, Outside
  <2>2. /\ Apart(db, db', t) /\ SameState(db, db', t) /\ SameResult(db, db', t)
        /\ SameKeys(db, db', t) /\ StatusOf(db', t) = "none"
    BY <1>0, <2>1, DeleteRowDoes DEF PutsRow, NoQueueRow
  <2>3. Story(m, db')
    BY <1>0, <2>1, <2>2
       DEF Story, PointOK, CallOK, InTransition, Goes, Same, SameState, SameKeys,
           SameResult
  <2> QED BY <1>0, <2>1, <2>2, <2>3
          DEF At, Serves, Moves, Odd, Goes, Same, SameState, SameResult
<1>5. CASE DeleteStatement(w, "audit", "x_audit", "x_task")
  <2>1. /\ l.pc = "x_audit" /\ db' = DeleteFrom(db, t, "audit")
        /\ Goes(l, m, "x_task") /\ UNCHANGED files
    BY <1>0, <1>5, GotoDoes DEF DeleteStatement, At, Write, Outside
  <2>2. /\ Apart(db, db', t) /\ SameState(db, db', t) /\ SameResult(db, db', t)
        /\ SameKeys(db, db', t) /\ SameRow(db, db', t)
    BY <1>0, <2>1, DeleteAuditDoes
  <2>3. Story(m, db')
    BY <1>0, <2>1, <2>2
       DEF Story, PointOK, CallOK, InTransition, Goes, Same, SameState, SameKeys,
           SameResult, SameRow, StatusOf
  <2> QED BY <1>0, <2>1, <2>2, <2>3
          DEF At, Serves, Moves, Odd, Goes, Same, SameState, SameResult
<1>6. CASE DeleteTask(w)
  <2>1. /\ l.pc = "x_task" /\ db' = DeleteFrom(db, t, "task")
        /\ Goes(l, m, "x_files") /\ UNCHANGED files
    BY <1>0, <1>6, GotoDoes DEF DeleteTask, At, Commit
  <2>2. /\ Apart(db, db', t) /\ StateOf(db', t) = "absent"
        /\ SameResult(db, db', t) /\ SameKeys(db, db', t) /\ SameRow(db, db', t)
    BY <1>0, <2>1, DeleteTaskDoes
  <2>3. Story(m, db')
    BY <1>0, <2>1, <2>2
       DEF Story, PointOK, CallOK, InTransition, Goes, Same, SameKeys,
           SameResult, SameRow, StatusOf
  <2> QED BY <1>0, <2>1, <2>2, <2>3 DEF At, Serves, Moves, Odd, Goes, Same, SameResult
<1>7. CASE DeleteFiles(w)
  <2>1. /\ l.pc = "x_files" /\ db' = db /\ files' = files \ {t}
        /\ Goes(l, m, "return")
    BY <1>0, <1>7, GotoDoes DEF DeleteFiles, At, Read
  <2>2. Rest(db, files', t)
    BY <1>0, <2>1, StoreAssumption DEF Story, PointOK, Rest
  <2>3. Story(m, db)
    BY <2>1, IdleStory DEF Goes
  <2> QED BY <1>0, <2>1, <2>2, <2>3, NothingDone DEF At, Serves, Moves
<1> QED BY <1>1, <1>2, <1>3, <1>4, <1>5, <1>6, <1>7 DEF DeleteData
\* A request starts with fresh locals and nothing written.
LEMMA StartDoes ==
  ASSUME TypeInv, NEW w \in Threads, NEW op, NEW locals \in Locals,
         Start(w, op, locals)
  PROVE  /\ LET m == thread'[w] IN
              /\ m.pc = locals.pc /\ m.task = locals.task /\ m.op = op
              /\ m.worker = locals.worker /\ m.caught = locals.caught
              /\ m.target = locals.target /\ m.then = locals.then
              /\ m.todo = locals.todo /\ m.status = locals.status
              /\ m.goal = locals.goal /\ m.attempts = locals.attempts
         /\ thread[w].pc = "idle" /\ op \in Ops /\ Read /\ UNCHANGED Outside
<1> DEFINE n == [locals EXCEPT !.op = op]
<1>1. thread'[w] = n
  BY BecomeDoes DEF Start
<1>2. /\ n.pc = locals.pc /\ n.task = locals.task /\ n.op = op
      /\ n.worker = locals.worker /\ n.caught = locals.caught
      /\ n.target = locals.target /\ n.then = locals.then
      /\ n.todo = locals.todo /\ n.status = locals.status
      /\ n.goal = locals.goal /\ n.attempts = locals.attempts
  BY DEF Locals
<1> HIDE DEF n
<1> QED BY <1>1, <1>2 DEF Start, At

\* The locals a request can start with: nothing caught, nothing to do.
Fresh(l, pc) ==
  /\ l \in Locals /\ l.pc = pc /\ ~l.caught /\ l.todo = {}

LEMMA FreshServes ==
  ASSUME TypeInv, SerialInv, OneByOne, NEW w \in Threads, NEW op, NEW l, NEW pc,
         Start(w, op, l), Fresh(l, pc),
         \/ pc \in {"c_read", "r_read", "pq_read", "to_list", "x_read"}
         \/ pc \in {"submit_create", "submit_lookup"} /\ op = "submit"
              /\ l.worker = NoWorker
         \/ pc = "t_read" /\ l.target = "approved" /\ l.then = "d_read"
              /\ op = "approve" /\ l.worker = NoWorker
         \/ pc = "t_read" /\ l.target = "rejected" /\ l.then = "return"
  PROVE  Serves(w)
<1> DEFINE m == thread'[w]
<1>1. /\ m.pc = pc /\ m.op = op /\ m.worker = l.worker /\ m.target = l.target
      /\ m.then = l.then /\ m.todo = {} /\ ~m.caught
      /\ thread[w].pc = "idle" /\ Read /\ UNCHANGED files
  BY StartDoes DEF Fresh, Outside
<1>2. Story(m, db)
  BY <1>1 DEF Story, PointOK, CallOK, InTransition
<1>3. ~Odd(thread[w])
  BY <1>1 DEF Odd
<1> QED BY <1>1, <1>2, <1>3, StillServes

LEMMA RequestServes ==
  ASSUME TypeInv, SerialInv, OneByOne, NEW w \in Threads, Request(w),
         "recover_job" \notin Ops, "recover_approval" \notin Ops
  PROVE  Serves(w)
<1> USE DEF Fresh
<1>1. Idle \in Locals
  BY IdleOK, ThreadIsTyped
<1>2. ASSUME NEW t \in Tasks, RequestSubmit(w, t)
      PROVE  Serves(w)
  <2> DEFINE pc == IF KeyOf[t] = NoKey THEN "submit_create" ELSE "submit_lookup"
             l == [Idle EXCEPT !.pc = pc, !.task = t]
  <2>1. Start(w, "submit", l)
    BY <1>2 DEF RequestSubmit
  <2>3. pc \in {"submit_create", "submit_lookup"}
    OBVIOUS
  <2> HIDE DEF pc
  <2>2. Fresh(l, pc) /\ l.worker = NoWorker
    BY <1>1, <2>3 DEF Idle, Locals, PCs
  <2> HIDE DEF l
  <2> QED BY <2>1, <2>2, <2>3, FreshServes
<1>3. ASSUME NEW t \in Tasks, RequestApprove(w, t)
      PROVE  Serves(w)
  <2> DEFINE l == Transition([Idle EXCEPT !.task = t], "approved", "d_read")
  <2>1. Start(w, "approve", l)
    BY <1>3 DEF RequestApprove
  <2>2. /\ Fresh(l, "t_read") /\ l.worker = NoWorker
        /\ l.target = "approved" /\ l.then = "d_read"
    BY <1>1 DEF Transition, Idle, Locals, PCs, States, Continuations
  <2> HIDE DEF l
  <2> QED BY <2>1, <2>2, FreshServes
<1>4. ASSUME NEW t \in Tasks, RequestReject(w, t)
      PROVE  Serves(w)
  <2> DEFINE l == Transition([Idle EXCEPT !.task = t], "rejected", "return")
  <2>1. Start(w, "reject", l)
    BY <1>4 DEF RequestReject
  <2>2. Fresh(l, "t_read") /\ l.target = "rejected" /\ l.then = "return"
    BY <1>1 DEF Transition, Idle, Locals, PCs, States, Continuations
  <2> HIDE DEF l
  <2> QED BY <2>1, <2>2, FreshServes
<1>5. ASSUME NEW t \in Tasks, RequestCancel(w, t)
      PROVE  Serves(w)
  <2> DEFINE l == [Idle EXCEPT !.pc = "c_read", !.task = t]
  <2>1. Start(w, "cancel", l)
    BY <1>5 DEF RequestCancel
  <2>2. Fresh(l, "c_read")
    BY <1>1 DEF Idle, Locals, PCs
  <2> HIDE DEF l
  <2> QED BY <2>1, <2>2, FreshServes
<1>6. ASSUME NEW t \in Tasks, NEW status \in RunStatus, RequestResult(w, t, status)
      PROVE  Serves(w)
  <2> DEFINE l == [Idle EXCEPT !.pc = "r_read", !.task = t, !.status = status]
  <2>1. Start(w, "result", l)
    BY <1>6 DEF RequestResult
  <2>2. Fresh(l, "r_read")
    BY <1>1 DEF Idle, Locals, PCs
  <2> HIDE DEF l
  <2> QED BY <2>1, <2>2, FreshServes
<1>7. ASSUME NEW t \in Tasks, NEW worker \in Workers \cup {NoWorker},
             RequestProcess(w, t, worker)
      PROVE  Serves(w)
  <2> DEFINE l == [Idle EXCEPT !.pc = "pq_read", !.task = t, !.worker = worker]
  <2>1. Start(w, "process", l)
    BY <1>7 DEF RequestProcess
  <2>2. Fresh(l, "pq_read")
    BY <1>1 DEF Idle, Locals, PCs
  <2> HIDE DEF l
  <2> QED BY <2>1, <2>2, FreshServes
<1>8. ASSUME NEW t \in Tasks, RequestDelete(w, t)
      PROVE  Serves(w)
  <2> DEFINE l == [Idle EXCEPT !.pc = "x_read", !.task = t]
  <2>1. Start(w, "delete", l)
    BY <1>8 DEF RequestDelete
  <2>2. Fresh(l, "x_read")
    BY <1>1 DEF Idle, Locals, PCs
  <2> HIDE DEF l
  <2> QED BY <2>1, <2>2, FreshServes
<1>9. CASE RequestTimeouts(w)
  <2> DEFINE l == [Idle EXCEPT !.pc = "to_list"]
  <2>1. Start(w, "timeouts", l)
    BY <1>9 DEF RequestTimeouts
  <2>2. Fresh(l, "to_list")
    BY <1>1 DEF Idle, Locals, PCs
  <2> HIDE DEF l
  <2> QED BY <2>1, <2>2, FreshServes
<1>10. \A t \in Tasks : ~RequestRecoverJob(w, t) /\ ~RequestRecoverApproval(w, t)
  BY DEF RequestRecoverJob, RequestRecoverApproval, Start
<1> QED BY <1>2, <1>3, <1>4, <1>5, <1>6, <1>7, <1>8, <1>9, <1>10 DEF Request

\* Every step of the thread.
LEMMA ThreadServes ==
  ASSUME TypeInv, SerialInv, OneByOne, OneByOne', NEW w \in Threads,
         Request(w) \/ Serve(w),
         "recover_job" \notin Ops, "recover_approval" \notin Ops
  PROVE  Serves(w)
<1>1. CASE Return(w)
  <2>1. ~Odd(thread[w])
    BY <1>1 DEF Return, At, Odd
  <2> QED BY <1>1, <2>1, LeaveServes DEF Return
<1>2. CASE Transact(w)
  BY <1>2, TransitionReadServes, TransitionWriteServes, TransitionCommitServes
     DEF Transact
<1>3. CASE Submit(w)
  BY <1>3, SubmitLookupServes, SubmitCreateServes, SubmitIdempotencyServes,
     EnqueueTaskServes DEF Submit
<1>4. CASE Process(w)
  BY <1>4, ProcessReadServes, ClaimServes, RetryServes DEF Process
<1>5. CASE Dispatch(w)
  BY <1>5, DispatchReadServes, DispatchWriteServes, SubmitsServe DEF Dispatch
<1>6. CASE Operate(w)
  <2>1. ~(\/ RecoverJobRead(w) \/ RecoverJobRow(w) \/ RecoverJobState(w)
          \/ RecoverApproval(w))
    BY DEF SerialInv, Story, PointOK, RecoverJobRead, RecoverJobRow,
           RecoverJobState, RecoverApproval, At
  <2> QED BY <1>6, <2>1, TimeoutsServe, DeleteServes DEF Operate
<1> QED BY <1>1, <1>2, <1>3, <1>4, <1>5, <1>6, RequestServes,
           RecordResultServes, CancelServes DEF Serve

-----------------------------------------------------------------------------
(* The theorems: the requests about a task are served one at a time, and     *)
(* nothing crashes                                                           *)

\* What every step does to the tables: at most one task moves, and as the
\* lifecycle allows; a recorded result is kept or deleted.
Served ==
  \E t \in Tasks \cup {NoTask} :
    /\ Apart(db, db', t)
    /\ t \in Tasks =>
         /\ Moves(StateOf(db, t), StateOf(db', t))
         /\ db.result[t] # NoResult => db'.result[t] \in {db.result[t], NoResult}

\* The recovery tools, which set a task back whatever its state is, are not
\* used, and nothing crashes.
Serial ==
  /\ "recover_job" \notin Ops /\ "recover_approval" \notin Ops
  /\ MaxCrashes = 0

LEMMA SerialInit ==
  ASSUME Init
  PROVE  SerialInv
<1>1. \A w \in Threads : thread[w].pc = "idle"
  BY DEF Init, Idle
<1>2. \A t \in Tasks : Rest(db, files, t)
  BY StoreAssumption DEF Init, EmptyStore, NoTaskRow, NoQueueRow, Rest, StateOf,
                         StatusOf, Keyed
<1> QED BY <1>1, <1>2, IdleStory DEF SerialInv

LEMMA SerialStep ==
  ASSUME Serial, TypeInv, SerialInv, OneByOne, OneByOne', [Next]_vars
  PROVE  SerialInv' /\ Served
<1>1. CASE \E w \in Threads : Request(w) \/ Serve(w)
  <2>1. PICK w \in Threads : Request(w) \/ Serve(w)
    BY <1>1
  <2>2. Serves(w)
    BY <2>1, ThreadServes DEF Serial
  <2>3. Task(w) \in Tasks \cup {NoTask}
    BY LocalsTyped DEF Task, Locals
  <2> QED BY <2>1, <2>2, <2>3, OthersWait, ServesKeeps DEF Serves, Served
<1>2. CASE UNCHANGED <<db, files, thread>>
  <2>1. SerialInv'
    BY <1>2 DEF SerialInv, Untouched, Odd, Story, PointOK, CallOK, InTransition,
                Rest, StateOf, StatusOf, Keyed
  <2>2. Served
    BY <1>2, NothingDone DEF Served, Moves
  <2> QED BY <2>1, <2>2
<1>3. ~Crash
  BY DEF Crash, Serial, TypeInv, TypeOK
<1>4. Hermes \/ Tick \/ UNCHANGED vars => UNCHANGED <<db, files, thread>>
  BY DEF Hermes, HermesAnswers, Tick, vars
<1> QED BY <1>1, <1>2, <1>3, <1>4 DEF Next

\* The invariant, and what it says of a task nobody is serving.
LEMMA Serially ==
  ASSUME Serial
  PROVE  Spec /\ []OneByOne => [](TypeInv /\ SerialInv)
<1>1. Init => TypeInv /\ SerialInv
  BY InitType, SerialInit
<1>2. TypeInv /\ SerialInv /\ OneByOne /\ OneByOne' /\ [Next]_vars
        => (TypeInv /\ SerialInv)'
  BY NextType, SerialStep
<1> QED BY <1>1, <1>2, PTL DEF Spec

LEMMA QuietRest ==
  ASSUME SerialInv, NEW t \in Tasks, Quiet(t)
  PROVE  Rest(db, files, t)
BY DEF SerialInv, Untouched, Quiet

\* A task that Hermes completed has the state of its result, for any number of
\* tasks and workers: record_result writes the state and the result in two
\* transactions, and nothing served between two requests sees the first alone
\* (service.py:218-245).
THEOREM ResultMatchesStateHolds ==
  ASSUME Serial
  PROVE  Spec /\ []OneByOne => []ResultMatchesState
<1>1. SerialInv => ResultMatchesState
  <2> SUFFICES ASSUME SerialInv, NEW t \in Tasks, Quiet(t)
               PROVE  /\ db.result[t] # NoResult
                           => db.task[t].state = db.result[t]
                      /\ db.task[t].state = "succeeded"
                           => db.result[t] = "succeeded"
    BY DEF ResultMatchesState
  <2> QED BY QuietRest DEF Rest, StateOf
<1> QED BY <1>1, Serially, PTL

\* Between requests the row of a task and its queue row tell the same story:
\* enqueueing, dispatching, retrying, dead-lettering, cancelling and deleting
\* each write both (service.py:119-216, 291-307, 414-420).
THEOREM RowMatchesStateHolds ==
  ASSUME Serial
  PROVE  Spec /\ []OneByOne => []RowMatchesState
<1>1. SerialInv => RowMatchesState
  <2> SUFFICES ASSUME SerialInv, NEW t \in Tasks, Quiet(t)
               PROVE  LET row == db.queue[t]  state == db.task[t].state IN
                        /\ row.status = "queued" <=> state = "queued"
                        /\ row.status = "dispatched"
                             => state \in {"running", "succeeded", "failed"}
                        /\ row.status \in {"dead_letter", "timed_out"}
                             => state = "failed"
                        /\ row.status = "cancelled" => state = "cancelled"
                        /\ row.status # "running"
    BY DEF RowMatchesState
  <2> QED BY QuietRest DEF Rest, StateOf, StatusOf
<1> QED BY <1>1, Serially, PTL

\* A deleted task leaves no queue row, result, key or result file behind
\* (service.py:414-420).
THEOREM DeletedIsGoneHolds ==
  ASSUME Serial
  PROVE  Spec /\ []OneByOne => []DeletedIsGone
<1>1. TypeInv /\ SerialInv => DeletedIsGone
  <2> SUFFICES ASSUME TypeInv, SerialInv, NEW t \in Tasks, Quiet(t),
                      ~HasTask(db, t)
               PROVE  /\ ~HasRow(db, t)
                      /\ db.result[t] = NoResult
                      /\ \A k \in Keys : db.idem[k] # t
                      /\ t \notin files
    BY DEF DeletedIsGone
  <2>1. StateOf(db, t) = "absent" /\ (HasRow(db, t) <=> StatusOf(db, t) # "none")
    BY StoreTyped, NoRow
  <2> QED BY <2>1, QuietRest DEF Rest, Keyed
<1> QED BY <1>1, Serially, PTL

\* No request moves a terminal task, neither a result that comes late nor a
\* retry of what was cancelled meanwhile; it can only be deleted
\* (state_machine.py:10-13, 21-23, service.py:169-193, 218-242).
LEMMA TerminalIsFinalHolds ==
  ASSUME Serial
  PROVE  Spec /\ []OneByOne => TerminalIsFinal
<1>1. TypeInv /\ SerialInv /\ OneByOne /\ OneByOne' /\ [Next]_vars
        => [\A t \in Tasks : db.task[t].state \in Terminal
              => db'.task[t].state \in {db.task[t].state, "absent"}]_vars
  <2> SUFFICES ASSUME Served, NEW t \in Tasks, StateOf(db, t) \in Terminal
               PROVE  StateOf(db', t) \in {StateOf(db, t), "absent"}
    BY SerialStep DEF StateOf
  <2>1. PICK u \in Tasks \cup {NoTask} :
          /\ Apart(db, db', u)
          /\ u \in Tasks => Moves(StateOf(db, u), StateOf(db', u))
    BY DEF Served
  <2>2. CASE t # u
    BY <2>1, <2>2 DEF Apart, SameRows, SameState
  <2>3. CASE t = u
    <3>1. \A to : ~CanTransition(StateOf(db, t), to)
      BY DEF CanTransition, Terminal
    <3> QED BY <2>1, <2>3, <3>1, TerminalStates DEF Moves
  <2> QED BY <2>2, <2>3
<1> QED BY <1>1, Serially, PTL DEF Spec, TerminalIsFinal

\* A late result leaves a cancelled task alone, as docs/cancellation-support.md:9
\* says, when the requests about the task do not overlap: the run LateResult
\* needs the overlap (service.py:90-103, 218-242).
THEOREM LateResultLeavesCancelledHolds ==
  ASSUME Serial
  PROVE  Spec /\ []OneByOne => LateResultLeavesCancelled
<1>1. (\A t \in Tasks : db.task[t].state \in Terminal
         => db'.task[t].state \in {db.task[t].state, "absent"})
      => (\A t \in Tasks : db.task[t].state = "cancelled"
           => db'.task[t].state \notin {"succeeded", "failed"})
  BY TerminalStates
<1>2. UNCHANGED vars
      => (\A t \in Tasks : db.task[t].state = "cancelled"
           => db'.task[t].state \notin {"succeeded", "failed"})
  BY DEF vars
<1>3. TerminalIsFinal => LateResultLeavesCancelled
  BY <1>1, <1>2, PTL DEF TerminalIsFinal, LateResultLeavesCancelled
<1> QED BY <1>3, TerminalIsFinalHolds

\* A task that has succeeded has its result, as
\* docs/idempotent-result-handling.md:8 has it, while nothing crashes between the
\* commit of the state and that of the result (service.py:242-244).
THEOREM SucceededHasResultHolds ==
  ASSUME Serial
  PROVE  Spec /\ []OneByOne => []SucceededHasResult
<1>1. SerialInv => SucceededHasResult
  BY QuietRest, StoreAssumption DEF SucceededHasResult, Rest, StateOf
<1> QED BY <1>1, Serially, PTL

\* The first result recorded for a task stays, whatever Hermes posts again
\* (service.py:219-224: an existing result is returned).
THEOREM FirstResultWinsHolds ==
  ASSUME Serial
  PROVE  Spec /\ []OneByOne => FirstResultWins
<1>1. TypeInv /\ SerialInv /\ OneByOne /\ OneByOne' /\ [Next]_vars
        => [\A t \in Tasks : db.result[t] # NoResult
              => db'.result[t] \in {db.result[t], NoResult}]_vars
  <2> SUFFICES ASSUME Served, NEW t \in Tasks, db.result[t] # NoResult
               PROVE  db'.result[t] \in {db.result[t], NoResult}
    BY SerialStep
  <2>1. PICK u \in Tasks \cup {NoTask} :
          /\ Apart(db, db', u)
          /\ u \in Tasks => (db.result[u] # NoResult
                               => db'.result[u] \in {db.result[u], NoResult})
    BY DEF Served
  <2>2. CASE t # u
    BY <2>1, <2>2 DEF Apart, SameRows, SameResult
  <2>3. CASE t = u
    BY <2>1, <2>3
  <2> QED BY <2>2, <2>3
<1> QED BY <1>1, Serially, PTL DEF Spec, FirstResultWins

-----------------------------------------------------------------------------
(* The service implements TaskLifecycle *)

\* The instance speaks of the same states and transitions.
LEMMA SameLifecycle ==
  /\ Lifecycle!States = States
  /\ \A s, target : Lifecycle!CanTransition(s, target) <=> CanTransition(s, target)
<1>1. Lifecycle!States = States
  BY DEF Lifecycle!States, States
<1>2. Lifecycle!AllowedTransitions = AllowedTransitions
  BY <1>1 DEF Lifecycle!AllowedTransitions, AllowedTransitions
<1> QED BY <1>1, <1>2 DEF Lifecycle!CanTransition, CanTransition

\* A state the guard accepts is a state.
LEMMA TargetIsState ==
  ASSUME NEW s, NEW target, CanTransition(s, target)
  PROVE  target \in States
BY DEF CanTransition, AllowedTransitions, States

\* Every handler of paperclip/service.py moves a task along the transitions of
\* state_machine.py, back to the queue from a failed dispatch, or deletes it:
\* served one at a time, the service refines TaskLifecycle.
THEOREM FollowsLifecycleHolds ==
  ASSUME Serial
  PROVE  Spec /\ []OneByOne => FollowsLifecycle
<1> DEFINE state == [t \in Tasks |-> db.task[t].state]
<1>1. Init => Lifecycle!Init
  BY DEF Init, Lifecycle!Init, EmptyStore, NoTaskRow
<1>2. TypeInv /\ SerialInv /\ OneByOne /\ OneByOne' /\ [Next]_vars
        => [Lifecycle!Next]_state
  <2> SUFFICES ASSUME Served
               PROVE  [Lifecycle!Next]_state
    BY SerialStep
  <2>1. PICK t \in Tasks \cup {NoTask} :
          /\ Apart(db, db', t)
          /\ t \in Tasks => Moves(StateOf(db, t), StateOf(db', t))
    BY DEF Served
  <2>2. \A u \in Tasks : u # t => state'[u] = state[u]
    BY <2>1 DEF Apart, SameRows, SameState, StateOf
  <2>3. CASE t \notin Tasks \/ StateOf(db', t) = StateOf(db, t)
    BY <2>2, <2>3 DEF StateOf
  <2>4. CASE t \in Tasks /\ StateOf(db', t) # StateOf(db, t)
    <3> DEFINE to == StateOf(db', t)
    <3>1. state' = [state EXCEPT ![t] = to] /\ state[t] = StateOf(db, t)
      BY <2>2, <2>4 DEF StateOf
    <3>2. CASE state[t] = "absent" /\ to = "received"
      BY <2>4, <3>1, <3>2 DEF Lifecycle!Next, Lifecycle!Receive
    <3>3. CASE CanTransition(state[t], to)
      <4>1. to \in States
        BY <3>3, TargetIsState
      <4> HIDE DEF to
      <4>2. Lifecycle!Move(t)
        BY <3>1, <3>3, <4>1, SameLifecycle DEF Lifecycle!Move
      <4> QED BY <2>4, <4>2 DEF Lifecycle!Next
    <3>4. CASE state[t] = "running" /\ to = "queued"
      BY <2>4, <3>1, <3>4 DEF Lifecycle!Next, Lifecycle!Retry
    <3>5. CASE to = "absent"
      BY <2>4, <3>1, <3>5 DEF Lifecycle!Next, Lifecycle!Delete
    <3> QED BY <2>1, <2>4, <3>1, <3>2, <3>3, <3>4, <3>5 DEF Moves
  <2> QED BY <2>1, <2>3, <2>4
<1> QED BY <1>1, <1>2, Serially, PTL DEF Spec, FollowsLifecycle, Lifecycle!Spec
-----------------------------------------------------------------------------
(* What a step of a thread does, by the point of the code it is at: to the   *)
(* locals (Goes, Calls, Raises, Ended) and to the rows of the task it is     *)
(* about.  Every interleaving, every operation, with crashes.                *)

Raises(l, m) == Caught(l, m) \/ (~l.caught /\ Ended(m))

\* A request is taken up.
Starts(m) ==
  /\ m.op \in Ops /\ ~m.caught /\ m.todo = {}
  /\ \/ /\ m.op = "submit" /\ m.task \in Tasks
        /\ m.pc = IF KeyOf[m.task] = NoKey THEN "submit_create" ELSE "submit_lookup"
     \/ m.op = "approve" /\ m.pc = "t_read" /\ m.target = "approved" /\ m.then = "d_read"
     \/ m.op = "reject" /\ m.pc = "t_read" /\ m.target = "rejected" /\ m.then = "return"
     \/ <<m.op, m.pc>> \in {<<"cancel", "c_read">>, <<"result", "r_read">>,
                            <<"process", "pq_read">>, <<"timeouts", "to_list">>,
                            <<"recover_job", "rj_read">>,
                            <<"recover_approval", "ra_write">>,
                            <<"delete", "x_read">>}

\* transition_task returns.
Returns(l, m) ==
  \/ l.then = "submit_validated" /\ Calls(l, m, l.goal, "submit_decided")
  \/ l.then = "submit_decided" /\ l.goal = "approved"
       /\ Calls(l, m, "queued", "enqueue_row")
  \/ l.then = "submit_decided" /\ l.goal # "approved" /\ Goes(l, m, "return")
  \/ l.then \notin {"submit_validated", "submit_decided"} /\ Goes(l, m, l.then)

TransactDoes(l, m, t, actor) ==
  /\ l.pc = "t_read" =>
       /\ Read
       /\ IF CanTransition(StateOf(db, t), l.target)
          THEN Goes(l, m, "t_write") ELSE Raises(l, m)
  /\ l.pc = "t_write" =>
       /\ disk' = disk /\ Goes(l, m, "t_commit")
       /\ SetsState(db, db', t, l.target)
       /\ t \in db'.granted
            => t \in db.granted \/ (l.target = "approved" /\ actor = "human")
  /\ l.pc = "t_commit" =>
       /\ disk' = db' /\ Returns(l, m)
       /\ Adds(db, db', t, EventOf(l.target, actor))

\* The row of task t is inserted, and the locals say where to go on.
Creates(l, m, t) ==
  /\ StateOf(db, t) = "absent" /\ StateOf(db', t) = "received"
  /\ Apart(db, db', t) /\ SameRow(db, db', t) /\ SameResult(db, db', t)
  /\ SameAudit(db, db', t) /\ db'.idem = db.idem
  /\ m.op = l.op /\ m.task = l.task /\ m.caught = l.caught
  /\ \/ KeyOf[t] = NoKey /\ m.pc = "t_read" /\ m.target = "validating"
          /\ m.then = "submit_validated"
     \/ KeyOf[t] # NoKey /\ m.pc = "submit_idem"

SubmitDoes(l, m, t) ==
  /\ l.pc = "submit_lookup" =>
       /\ Read
       /\ \/ /\ m.pc = "return" /\ m.op = l.op
             /\ m.task = db.idem[KeyOf[t]] /\ m.task # NoTask
          \/ /\ Goes(l, m, "submit_create")
             /\ LET existing == db.idem[KeyOf[t]] IN
                  existing = NoTask \/ ~HasTask(db, existing)
  /\ l.pc = "submit_create" =>
       disk' = disk /\ ((db' = db /\ Ended(m)) \/ Creates(l, m, t))
  /\ l.pc = "submit_idem" =>
       /\ disk' = disk
       /\ \/ db.idem[KeyOf[t]] # NoTask /\ db' = db /\ Ended(m)
          \/ /\ Calls(l, m, "validating", "submit_validated")
             /\ db.idem[KeyOf[t]] = NoTask
             /\ db'.idem = [db.idem EXCEPT ![KeyOf[t]] = t]
             /\ Apart(db, db', t) /\ SameState(db, db', t) /\ SameRow(db, db', t)
             /\ SameResult(db, db', t) /\ SameAudit(db, db', t)
  /\ l.pc = "enqueue_row" =>
       /\ disk' = disk
       /\ (~l.caught /\ Goes(l, m, "pq_read")) \/ Goes(l, m, "d_ready")
       /\ \E row : /\ PutsRow(db, db', t, row)
                   /\ row.status = "queued" /\ row.attempts = 0

ProcessDoes(l, m, t) ==
  LET worker == db.queue[t].worker  attempts == db.queue[t].attempts
      entered == /\ m.pc = "d_read" /\ m.caught /\ m.op = l.op
                 /\ m.task = l.task /\ m.attempts = attempts
  IN
  /\ l.pc = "pq_read" =>
       /\ Read
       /\ \/ Ended(m) \/ Goes(l, m, "return")
          \/ StatusOf(db, t) = "queued" /\ entered
          \/ /\ StatusOf(db, t) = "queued" /\ m.pc = "claim_read"
             /\ m.op = l.op /\ m.task = l.task /\ m.caught = l.caught
             /\ m.attempts = attempts
  /\ l.pc = "claim_read" => Read /\ (Ended(m) \/ Goes(l, m, "claim_write"))
  /\ l.pc = "claim_write" =>
       /\ disk' = disk /\ (Ended(m) \/ entered)
       /\ SetsRow(db, db', t, StatusOf(db, t), l.worker, attempts)
  /\ l.pc = "e_dead" =>
       /\ disk' = disk /\ Calls(l, m, "failed", "return")
       /\ SetsRow(db, db', t, "dead_letter", worker, l.attempts + 1)
  /\ l.pc = "e_state" =>
       /\ disk' = disk /\ Goes(l, m, "e_retry")
       /\ SetsState(db, db', t, "queued") /\ db'.granted = db.granted
  /\ l.pc = "e_retry" =>
       /\ disk' = disk /\ Goes(l, m, "return")
       /\ SetsRow(db, db', t, "queued", worker, l.attempts + 1)

DispatchDoes(l, m, t) ==
  LET worker == db.queue[t].worker  attempts == db.queue[t].attempts IN
  /\ l.pc \in {"d_read", "d_ready"} =>
       /\ Read
       /\ \/ StateOf(db, t) = "approved" /\ Calls(l, m, "queued", "enqueue_row")
          \/ StateOf(db, t) = "queued" /\ Calls(l, m, "running", "d_running")
          \/ Raises(l, m)
  /\ l.pc = "d_running" =>
       /\ disk' = disk /\ Goes(l, m, "d_dispatched")
       /\ SetsRow(db, db', t, "running", worker, attempts)
  /\ l.pc = "d_dispatched" =>
       /\ disk' = disk /\ Goes(l, m, "d_submit")
       /\ SetsRow(db, db', t, "dispatched", worker, attempts)
  /\ l.pc = "d_submit" =>
       /\ Read
       /\ \/ runs' = runs /\ (Goes(l, m, "return") \/ Raises(l, m))
          \/ /\ Goes(l, m, "d_wait") /\ runs'[t] <= runs[t] + 1
             /\ \A u \in Tasks : u # t => runs'[u] = runs[u]
  /\ l.pc = "d_wait" => Read /\ (Goes(l, m, "return") \/ Raises(l, m))
  /\ l.pc # "d_submit" => runs' = runs

ResultDoes(l, m, t) ==
  /\ l.pc = "r_read" =>
       Read /\ (Ended(m) \/ Goes(l, m, "return") \/ Calls(l, m, l.status, "r_store"))
  /\ l.pc = "r_store" =>
       /\ disk' = disk /\ Goes(l, m, "r_commit")
       /\ Apart(db, db', t) /\ SameState(db, db', t) /\ SameRow(db, db', t)
       /\ SameKeys(db, db', t) /\ SameAudit(db, db', t) /\ db'.idem = db.idem
       /\ db'.result[t] = l.status
  /\ l.pc = "r_commit" => db' = db /\ disk' = db /\ Goes(l, m, "r_file")
  /\ l.pc = "r_file" => Read /\ Goes(l, m, "return")

CancelDoes(l, m, t) ==
  /\ l.pc = "c_read" =>
       /\ Read
       /\ \/ Ended(m) \/ Goes(l, m, "return")
          \/ /\ m.pc = "c_state" /\ StateOf(db, t) \notin Terminal \cup {"absent"}
             /\ m.op = l.op /\ m.task = l.task /\ m.caught = l.caught
  /\ l.pc = "c_state" =>
       /\ disk' = disk /\ Goes(l, m, "c_row")
       /\ SetsState(db, db', t, "cancelled") /\ db'.granted = db.granted
  /\ l.pc = "c_row" =>
       /\ disk' = disk /\ Goes(l, m, "return")
       /\ \E marked \in Store :
            /\ marked = db \/ SetsRow(db, marked, t, "cancelled",
                                      db.queue[t].worker, db.queue[t].attempts)
            /\ Adds(marked, db', t, {<<"task_cancelled", "client">>})

OperateDoes(l, m, t) ==
  /\ l.pc = "to_list" =>
       /\ Read /\ m.pc = "to_next"
       /\ m.op = l.op /\ m.task = l.task /\ m.caught = l.caught
  /\ l.pc = "to_next" =>
       /\ disk' = disk
       /\ \/ db' = db /\ Goes(l, m, "return")
          \/ /\ m.task \in Tasks /\ m.pc = "t_read"
             /\ m.target = "failed" /\ m.then = "to_next"
             /\ m.op = l.op /\ m.caught = l.caught
             /\ SetsRow(db, db', m.task, "timed_out", db.queue[m.task].worker,
                        db.queue[m.task].attempts)
  /\ l.pc = "rj_read" => Read /\ (Ended(m) \/ Goes(l, m, "rj_row"))
  /\ l.pc = "rj_row" =>
       /\ disk' = disk /\ Goes(l, m, "rj_state")
       /\ SetsRow(db, db', t, "queued", NoWorker, db.queue[t].attempts)
  /\ l.pc = "rj_state" =>
       /\ disk' = disk /\ Goes(l, m, "return")
       /\ SetsState(db, db', t, "queued") /\ db'.granted = db.granted
  /\ l.pc = "ra_write" =>
       /\ disk' = disk /\ Goes(l, m, "return")
       /\ SetsState(db, db', t, "pending_approval") /\ db'.granted = db.granted

\* The statements of delete_task, in their order.
DeleteDoes(l, m, t) ==
  /\ l.pc = "x_read" =>
       Read /\ (Ended(m) \/ (Goes(l, m, "x_idem") /\ StateOf(db, t) # "absent"))
  /\ l.pc = "x_idem" =>
       /\ disk' = disk /\ Goes(l, m, "x_result")
       /\ Apart(db, db', t) /\ SameState(db, db', t) /\ SameRow(db, db', t)
       /\ SameResult(db, db', t) /\ SameAudit(db, db', t)
       /\ \A k \in Keys :
            db'.idem[k] = IF db.idem[k] = t THEN NoTask ELSE db.idem[k]
  /\ l.pc = "x_result" =>
       /\ disk' = disk /\ Goes(l, m, "x_queue")
       /\ Apart(db, db', t) /\ SameState(db, db', t) /\ SameRow(db, db', t)
       /\ SameAudit(db, db', t) /\ db'.idem = db.idem
  /\ l.pc = "x_queue" =>
       /\ disk' = disk /\ Goes(l, m, "x_audit") /\ PutsRow(db, db', t, NoQueueRow)
  /\ l.pc = "x_audit" =>
       /\ disk' = disk /\ Goes(l, m, "x_task")
       /\ Apart(db, db', t) /\ SameState(db, db', t) /\ SameRow(db, db', t)
       /\ SameResult(db, db', t) /\ db'.idem = db.idem /\ db'.granted = db.granted
  /\ l.pc = "x_task" =>
       /\ disk' = db' /\ Goes(l, m, "x_files")
       /\ Apart(db, db', t) /\ SameRow(db, db', t) /\ SameResult(db, db', t)
       /\ db'.idem = db.idem
       /\ StateOf(db', t) = "absent" /\ t \notin db'.granted
  /\ l.pc = "x_files" => Read /\ Goes(l, m, "return")

Does(w) ==
  LET l == thread[w]  m == thread'[w]  t == Task(w) IN
  /\ l.pc = "idle" => Read /\ Starts(m)
  /\ l.pc = "return" => Read /\ Ended(m)
  /\ TransactDoes(l, m, t, Actor(w))
  /\ SubmitDoes(l, m, t)
  /\ ProcessDoes(l, m, t)
  /\ DispatchDoes(l, m, t)
  /\ ResultDoes(l, m, t)
  /\ CancelDoes(l, m, t)
  /\ OperateDoes(l, m, t)
  /\ DeleteDoes(l, m, t)

\* A handler says nothing of the points of the code that are not its own.
LEMMA Elsewhere ==
  ASSUME NEW l, NEW m, NEW t, NEW actor
  PROVE  /\ l.pc \notin {"t_read", "t_write", "t_commit"}
              => TransactDoes(l, m, t, actor)
         /\ l.pc \notin {"submit_lookup", "submit_create", "submit_idem",
                         "enqueue_row"} => SubmitDoes(l, m, t)
         /\ l.pc \notin {"pq_read", "claim_read", "claim_write", "e_dead",
                         "e_state", "e_retry"} => ProcessDoes(l, m, t)
         /\ l.pc \notin {"d_read", "d_ready", "d_running", "d_dispatched",
                         "d_submit", "d_wait"} /\ runs' = runs
              => DispatchDoes(l, m, t)
         /\ l.pc \notin {"r_read", "r_store", "r_commit", "r_file"}
              => ResultDoes(l, m, t)
         /\ l.pc \notin {"c_read", "c_state", "c_row"} => CancelDoes(l, m, t)
         /\ l.pc \notin {"to_list", "to_next", "rj_read", "rj_row", "rj_state",
                         "ra_write"} => OperateDoes(l, m, t)
         /\ l.pc \notin {"x_read", "x_idem", "x_result", "x_queue", "x_audit",
                         "x_task", "x_files"} => DeleteDoes(l, m, t)
<1>1. l.pc \notin {"t_read", "t_write", "t_commit"} => TransactDoes(l, m, t, actor)
  BY DEF TransactDoes
<1>2. l.pc \notin {"submit_lookup", "submit_create", "submit_idem", "enqueue_row"}
        => SubmitDoes(l, m, t)
  BY DEF SubmitDoes
<1>3. l.pc \notin {"pq_read", "claim_read", "claim_write", "e_dead", "e_state",
                   "e_retry"} => ProcessDoes(l, m, t)
  BY DEF ProcessDoes
<1>4. l.pc \notin {"d_read", "d_ready", "d_running", "d_dispatched", "d_submit",
                   "d_wait"} /\ runs' = runs => DispatchDoes(l, m, t)
  BY DEF DispatchDoes
<1>5. l.pc \notin {"r_read", "r_store", "r_commit", "r_file"} => ResultDoes(l, m, t)
  BY DEF ResultDoes
<1>6. l.pc \notin {"c_read", "c_state", "c_row"} => CancelDoes(l, m, t)
  BY DEF CancelDoes
<1>7. l.pc \notin {"to_list", "to_next", "rj_read", "rj_row", "rj_state",
                   "ra_write"} => OperateDoes(l, m, t)
  BY DEF OperateDoes
<1>8. l.pc \notin {"x_read", "x_idem", "x_result", "x_queue", "x_audit", "x_task",
                   "x_files"} => DeleteDoes(l, m, t)
  BY DEF DeleteDoes
<1> QED BY <1>1, <1>2, <1>3, <1>4, <1>5, <1>6, <1>7, <1>8

LEMMA ReturnsDoes ==
  ASSUME NEW l \in Locals
  PROVE  Returns(l, After(l))
BY AfterDoes DEF Returns

LEMMA TransactIsDone ==
  ASSUME TypeInv, NEW w \in Threads, Transact(w)
  PROVE  Does(w)
<1> DEFINE l == thread[w]
           m == thread'[w]
           t == Task(w)
<1>0. /\ l.pc \in {"t_read", "t_write", "t_commit"} /\ runs' = runs
      /\ t \in Tasks /\ l \in Locals /\ l.target \in States /\ db \in Store
  <2>1. l.pc \in {"t_read", "t_write", "t_commit"} /\ runs' = runs
    BY DEF Transact, TransitionRead, TransitionWrite, TransitionCommit, At, Outside
  <2> QED BY <2>1, Serving, StoreTyped, LocalsTyped DEF ThreadOK, InTransition
<1>1. CASE TransitionRead(w)
  <2>1. l.pc = "t_read" /\ Read
    BY <1>1 DEF TransitionRead, At
  <2>2. CASE CanTransition(StateOf(db, t), l.target)
    BY <1>0, <1>1, <2>1, <2>2, GotoDoes, Elsewhere
       DEF Does, TransactDoes, TransitionRead, StateOf
  <2>3. CASE ~CanTransition(StateOf(db, t), l.target)
    BY <1>0, <1>1, <2>1, <2>3, RaiseDoes, Elsewhere
       DEF Does, TransactDoes, TransitionRead, StateOf, Raises
  <2> QED BY <2>2, <2>3
<1>2. CASE TransitionWrite(w)
  <2>1. /\ l.pc = "t_write" /\ disk' = disk /\ Goes(l, m, "t_commit")
        /\ db' = ApplyTransition(db, t, l.target, Actor(w))
    BY <1>2, GotoDoes DEF TransitionWrite, At, Write
  <2>2. /\ SetsState(db, db', t, l.target)
        /\ t \in db'.granted
             => t \in db.granted \/ (l.target = "approved" /\ Actor(w) = "human")
    BY <1>0, <2>1, ApplyTransitionDoes
  <2> QED BY <1>0, <2>1, <2>2, Elsewhere DEF Does, TransactDoes
<1>3. CASE TransitionCommit(w)
  <2>1. /\ l.pc = "t_commit" /\ disk' = db' /\ m = After(l)
        /\ db' = AuditTransition(db, t, l.target, Actor(w))
    BY <1>3, BecomeDoes DEF TransitionCommit, At, Commit
  <2>2. Returns(l, m) /\ Adds(db, db', t, EventOf(l.target, Actor(w)))
    BY <1>0, <2>1, ReturnsDoes, AuditTransitionDoes
  <2> QED BY <1>0, <2>1, <2>2, Elsewhere DEF Does, TransactDoes
<1> QED BY <1>1, <1>2, <1>3 DEF Transact

LEMMA SubmitIsDone ==
  ASSUME TypeInv, NEW w \in Threads, Submit(w)
  PROVE  Does(w)
<1> DEFINE l == thread[w]
           m == thread'[w]
           t == Task(w)
<1>0. /\ l.pc \in {"submit_lookup", "submit_create", "submit_idem", "enqueue_row"}
      /\ runs' = runs
      /\ t \in Tasks /\ l \in Locals /\ db \in Store /\ l.task = t /\ ThreadOK(l)
  <2>1. /\ l.pc \in {"submit_lookup", "submit_create", "submit_idem", "enqueue_row"}
        /\ runs' = runs
    BY DEF Submit, SubmitLookup, SubmitCreate, SubmitIdempotency, EnqueueTask, At,
           Outside
  <2> QED BY <2>1, Serving, StoreTyped, LocalsTyped DEF Task
<1>1. SUFFICES SubmitDoes(l, m, t)
  BY <1>0, <1>1, Elsewhere DEF Does
<1>2. CASE SubmitLookup(w)
  <2> DEFINE existing == db.idem[Key(w)]
             n == [l EXCEPT !.pc = "return", !.task = existing]
  <2>1. l.pc = "submit_lookup" /\ Read
    BY <1>2 DEF SubmitLookup, At
  <2>2. CASE existing # NoTask /\ HasTask(db, existing)
    <3>1. m = n
      BY <1>2, <2>2, BecomeDoes DEF SubmitLookup
    <3>2. n.pc = "return" /\ n.op = l.op /\ n.task = existing
      BY <1>0 DEF Locals
    <3> HIDE DEF n
    <3> QED BY <2>1, <2>2, <3>1, <3>2 DEF SubmitDoes, Key
  <2>3. CASE ~(existing # NoTask /\ HasTask(db, existing))
    BY <1>2, <2>1, <2>3, GotoDoes DEF SubmitLookup, SubmitDoes, Key
  <2> QED BY <2>2, <2>3
<1>3. CASE SubmitCreate(w)
  <2>1. l.pc = "submit_create"
    BY <1>3 DEF SubmitCreate, At
  <2>2. CASE HasTask(db, t)
    BY <1>3, <2>1, <2>2, GiveUpDoes DEF SubmitCreate, SubmitDoes, Read
  <2>3. CASE ~HasTask(db, t)
    <3>1. PICK required \in BOOLEAN, status \in ApprovalStatus :
            LET n == [l EXCEPT !.goal = NextState(required, status)] IN
            /\ db' = CreateTask(db, t, status, required /\ status # "approved")
            /\ disk' = disk
            /\ Become(w, IF Key(w) = NoKey
                         THEN Transition(n, "validating", "submit_validated")
                         ELSE [n EXCEPT !.pc = "submit_idem"])
      BY <1>3, <2>3 DEF SubmitCreate, Write
    <3> DEFINE goal == NextState(required, status)
               n == [l EXCEPT !.goal = goal]
    <3>2. goal \in {"pending_approval", "approved"}
      BY DEF NextState
    <3> HIDE DEF goal
    <3>3. /\ n \in Locals /\ n.op = l.op /\ n.task = l.task /\ n.caught = l.caught
      BY <1>0, <3>2 DEF Locals
    <3>4. Goes(n, [n EXCEPT !.pc = "submit_idem"], "submit_idem")
      BY <3>3 DEF Goes, Same, Locals
    <3>5. \/ KeyOf[t] = NoKey /\ Calls(n, m, "validating", "submit_validated")
          \/ KeyOf[t] # NoKey /\ Goes(n, m, "submit_idem")
      <4> HIDE DEF n
      <4> QED BY <3>1, <3>3, <3>4, BecomeDoes, TransitionDoes DEF n, goal, Key
    <3> HIDE DEF n
    <3>6. Creates(l, m, t)
      <4>1. StateOf(db, t) = "absent"
        BY <1>0, <2>3, NoRow
      <4>2. /\ Apart(db, db', t) /\ SameRow(db, db', t) /\ SameResult(db, db', t)
            /\ SameAudit(db, db', t) /\ db'.idem = db.idem
            /\ StateOf(db', t) = "received"
        BY <1>0, <3>1, CreateTaskDoes
      <4> QED BY <3>3, <3>5, <4>1, <4>2 DEF Creates, Calls, Goes, Same
    <3> QED BY <2>1, <3>1, <3>6 DEF SubmitDoes
  <2> QED BY <2>2, <2>3
<1>4. CASE SubmitIdempotency(w)
  <2>1. l.pc = "submit_idem" /\ KeyOf[t] \in Keys
    BY <1>0, <1>4 DEF SubmitIdempotency, At, ThreadOK
  <2>2. CASE db.idem[KeyOf[t]] # NoTask
    BY <1>4, <2>1, <2>2, GiveUpDoes DEF SubmitIdempotency, SubmitDoes, Read, Key
  <2>3. CASE db.idem[KeyOf[t]] = NoTask
    <3>1. /\ db' = CreateIdempotencyRecord(db, KeyOf[t], t) /\ disk' = disk
          /\ Calls(l, m, "validating", "submit_validated")
      BY <1>4, <2>3, CallDoes DEF SubmitIdempotency, Key, Write
    <3>2. /\ Apart(db, db', t) /\ SameState(db, db', t) /\ SameRow(db, db', t)
          /\ SameResult(db, db', t) /\ SameAudit(db, db', t)
          /\ db'.idem = [db.idem EXCEPT ![KeyOf[t]] = t]
      BY <1>0, <2>1, <2>3, <3>1, CreateIdempotencyRecordDoes
    <3> QED BY <2>1, <2>3, <3>1, <3>2 DEF SubmitDoes
  <2> QED BY <2>2, <2>3
<1>5. CASE EnqueueTask(w)
  <2> DEFINE row == [status |-> "queued", attempts |-> 0, next |-> now,
                     worker |-> NoWorker, lease |-> NoTime, timeout |-> NoTime]
  <2>1. /\ l.pc = "enqueue_row" /\ db' = EnqueueRow(db, t, now) /\ disk' = disk
        /\ (~l.caught /\ Goes(l, m, "pq_read")) \/ Goes(l, m, "d_ready")
    BY <1>5, GotoDoes DEF EnqueueTask, At, Write
  <2>2. PutsRow(db, db', t, row)
    BY <1>0, <2>1, EnqueueRowDoes
  <2>3. row.status = "queued" /\ row.attempts = 0
    OBVIOUS
  <2> HIDE DEF row
  <2> QED BY <2>1, <2>2, <2>3 DEF SubmitDoes
<1> QED BY <1>2, <1>3, <1>4, <1>5 DEF Submit
LEMMA ProcessIsDone ==
  ASSUME TypeInv, NEW w \in Threads, Process(w)
  PROVE  Does(w)
<1> DEFINE l == thread[w]
           m == thread'[w]
           t == Task(w)
           row == db.queue[t]
<1>0. /\ l.pc \in {"pq_read", "claim_read", "claim_write", "e_dead", "e_state",
                   "e_retry"}
      /\ runs' = runs
      /\ t \in Tasks /\ l \in Locals /\ db \in Store /\ l.task = t
  <2>1. /\ l.pc \in {"pq_read", "claim_read", "claim_write", "e_dead", "e_state",
                     "e_retry"}
        /\ runs' = runs
    BY DEF Process, ProcessRead, ClaimRead, ClaimWrite, DeadLetter, RetryState,
           RetryRow, At, Outside
  <2> QED BY <2>1, Serving, StoreTyped, LocalsTyped DEF Task
<1>1. SUFFICES ProcessDoes(l, m, t)
  BY <1>0, <1>1, Elsewhere DEF Does
<1>2. CASE ProcessRead(w)
  <2> DEFINE n == [l EXCEPT !.at = now, !.attempts = row.attempts]
             a == [n EXCEPT !.pc = "d_read", !.caught = TRUE]
             b == [n EXCEPT !.pc = "claim_read"]
  <2>1. l.pc = "pq_read" /\ Read
    BY <1>2 DEF ProcessRead, At
  <2>2. CASE GiveUp(w) \/ Goto(w, "return")
    BY <2>1, <2>2, GiveUpDoes, GotoDoes DEF ProcessDoes
  <2>3. CASE ~(GiveUp(w) \/ Goto(w, "return"))
    <3>1. StatusOf(db, t) = "queued" /\ m \in {a, b}
      BY <1>2, <2>3, BecomeDoes DEF ProcessRead, StatusOf
    <3>2. /\ a.pc = "d_read" /\ a.caught /\ a.op = l.op /\ a.task = l.task
          /\ a.attempts = row.attempts
          /\ b.pc = "claim_read" /\ b.op = l.op /\ b.task = l.task
          /\ b.caught = l.caught /\ b.attempts = row.attempts
      BY <1>0 DEF Locals
    <3> HIDE DEF a, b
    <3> QED BY <2>1, <3>1, <3>2 DEF ProcessDoes
  <2> QED BY <2>2, <2>3
<1>3. CASE ClaimRead(w)
  BY <1>0, <1>3, GiveUpDoes, GotoDoes DEF ClaimRead, At, ProcessDoes
<1>4. CASE ClaimWrite(w)
  <2> DEFINE n == [l EXCEPT !.pc = "d_read", !.caught = TRUE,
                            !.attempts = row.attempts]
  <2>1. l.pc = "claim_write" /\ disk' = disk
    BY <1>4 DEF ClaimWrite, At, Write
  <2>2. SetsRow(db, db', t, StatusOf(db, t), l.worker, row.attempts)
    BY <1>0, <1>4, ClaimRowDoes DEF ClaimWrite, Write
  <2>3. GiveUp(w) \/ m = n
    BY <1>4, BecomeDoes DEF ClaimWrite
  <2>4. /\ n.pc = "d_read" /\ n.caught /\ n.op = l.op /\ n.task = l.task
        /\ n.attempts = row.attempts
    BY <1>0 DEF Locals
  <2> HIDE DEF n
  <2> QED BY <2>1, <2>2, <2>3, <2>4, GiveUpDoes DEF ProcessDoes
<1>5. CASE DeadLetter(w)
  <2>1. SetsRow(db, db', t, "dead_letter", row.worker, l.attempts + 1)
    BY <1>0, <1>5, MarkDeadLetterDoes DEF DeadLetter, Write
  <2>2. l.pc = "e_dead" /\ disk' = disk /\ Calls(l, m, "failed", "return")
    BY <1>5, CallDoes DEF DeadLetter, At, Write
  <2> QED BY <2>1, <2>2 DEF ProcessDoes
<1>6. CASE RetryState(w)
  <2>1. SetsState(db, db', t, "queued") /\ db'.granted = db.granted
    BY <1>0, <1>6, UpdateTaskStateDoes DEF RetryState, Write
  <2>2. l.pc = "e_state" /\ disk' = disk /\ Goes(l, m, "e_retry")
    BY <1>6, GotoDoes DEF RetryState, At, Write
  <2> QED BY <2>1, <2>2 DEF ProcessDoes
<1>7. CASE RetryRow(w)
  <2>1. SetsRow(db, db', t, "queued", row.worker, l.attempts + 1)
    BY <1>0, <1>7, MarkRetryDoes DEF RetryRow, Write
  <2>2. l.pc = "e_retry" /\ disk' = disk /\ Goes(l, m, "return")
    BY <1>7, GotoDoes DEF RetryRow, At, Write
  <2> QED BY <2>1, <2>2 DEF ProcessDoes
<1> QED BY <1>2, <1>3, <1>4, <1>5, <1>6, <1>7 DEF Process

LEMMA ReadyDoes ==
  ASSUME TypeInv, NEW w \in Threads, Ready(w)
  PROVE  \/ /\ StateOf(db, Task(w)) = "queued"
            /\ Calls(thread[w], thread'[w], "running", "d_running")
         \/ Raises(thread[w], thread'[w])
BY CallDoes, RaiseDoes DEF Ready, Dispatchable, StateOf, Raises

LEMMA DispatchIsDone ==
  ASSUME TypeInv, NEW w \in Threads, Dispatch(w)
  PROVE  Does(w)
<1> DEFINE l == thread[w]
           m == thread'[w]
           t == Task(w)
           row == db.queue[t]
<1>0. /\ l.pc \in {"d_read", "d_ready", "d_running", "d_dispatched", "d_submit",
                   "d_wait"}
      /\ t \in Tasks /\ db \in Store
  <2>1. l.pc \in {"d_read", "d_ready", "d_running", "d_dispatched", "d_submit",
                  "d_wait"}
    BY DEF Dispatch, DispatchRead, DispatchReady, DispatchRunning,
           DispatchDispatched, SubmitReceived, SubmitFails, SubmitRefused,
           SubmitAnswered, SubmitBroken, At
  <2> QED BY <2>1, Serving, StoreTyped
<1>1. SUFFICES DispatchDoes(l, m, t)
  BY <1>0, <1>1, Elsewhere DEF Does
<1>2. CASE DispatchRead(w)
  <2>1. l.pc = "d_read" /\ Read /\ runs' = runs
    BY <1>2 DEF DispatchRead, At, Outside
  <2>2. CASE StateOf(db, t) = "approved"
    BY <1>2, <2>1, <2>2, CallDoes DEF DispatchRead, DispatchDoes, StateOf
  <2>3. CASE StateOf(db, t) # "approved"
    BY <1>2, <2>1, <2>3, ReadyDoes DEF DispatchRead, DispatchDoes, StateOf
  <2> QED BY <2>2, <2>3
<1>3. CASE DispatchReady(w)
  BY <1>3, ReadyDoes DEF DispatchReady, At, Outside, DispatchDoes
<1>4. CASE DispatchRunning(w)
  <2>1. SetsRow(db, db', t, "running", row.worker, row.attempts)
    BY <1>0, <1>4, MarkRunningDoes DEF DispatchRunning, Write
  <2>2. /\ l.pc = "d_running" /\ disk' = disk /\ Goes(l, m, "d_dispatched")
        /\ runs' = runs
    BY <1>4, GotoDoes DEF DispatchRunning, At, Write, Outside
  <2> QED BY <2>1, <2>2 DEF DispatchDoes
<1>5. CASE DispatchDispatched(w)
  <2>1. SetsRow(db, db', t, "dispatched", row.worker, row.attempts)
    BY <1>0, <1>5, MarkStatusDoes DEF DispatchDispatched, Write, MarkDispatched
  <2>2. /\ l.pc = "d_dispatched" /\ disk' = disk /\ Goes(l, m, "d_submit")
        /\ runs' = runs
    BY <1>5, GotoDoes DEF DispatchDispatched, At, Write, Outside
  <2> QED BY <2>1, <2>2 DEF DispatchDoes
<1>6. CASE SubmitReceived(w)
  <2>1. /\ l.pc = "d_submit" /\ Read /\ Goes(l, m, "d_wait")
        /\ runs' = [runs EXCEPT ![t] = IF @ < RunCap THEN @ + 1 ELSE @]
    BY <1>6, GotoDoes DEF SubmitReceived, At
  <2>2. runs'[t] <= runs[t] + 1 /\ \A u \in Tasks : u # t => runs'[u] = runs[u]
    BY <1>0, <2>1 DEF TypeInv, TypeOK
  <2> QED BY <2>1, <2>2 DEF DispatchDoes
<1>7. CASE SubmitFails(w)
  BY <1>7, RaiseDoes DEF SubmitFails, At, Outside, DispatchDoes, Raises
<1>8. CASE SubmitRefused(w)
  BY <1>8, GotoDoes DEF SubmitRefused, At, Outside, DispatchDoes
<1>9. CASE SubmitAnswered(w)
  BY <1>9, GotoDoes DEF SubmitAnswered, At, Outside, DispatchDoes
<1>10. CASE SubmitBroken(w)
  BY <1>10, RaiseDoes DEF SubmitBroken, At, Outside, DispatchDoes, Raises
<1> QED BY <1>2, <1>3, <1>4, <1>5, <1>6, <1>7, <1>8, <1>9, <1>10 DEF Dispatch

LEMMA ResultIsDone ==
  ASSUME TypeInv, NEW w \in Threads, RecordResult(w)
  PROVE  Does(w)
<1> DEFINE l == thread[w]
           m == thread'[w]
           t == Task(w)
<1>0. /\ l.pc \in {"r_read", "r_store", "r_commit", "r_file"} /\ runs' = runs
      /\ t \in Tasks /\ db \in Store
  <2>1. l.pc \in {"r_read", "r_store", "r_commit", "r_file"} /\ runs' = runs
    BY DEF RecordResult, ResultRead, ResultStore, ResultCommit, ResultFile, At,
           Outside
  <2> QED BY <2>1, Serving, StoreTyped
<1>1. SUFFICES ResultDoes(l, m, t)
  BY <1>0, <1>1, Elsewhere DEF Does
<1>2. CASE ResultRead(w)
  <2>1. l.pc = "r_read" /\ Read
    BY <1>2 DEF ResultRead, At
  <2>2. \/ GiveUp(w) \/ Goto(w, "return")
        \/ Become(w, Transition(l, l.status, "r_store"))
    BY <1>2 DEF ResultRead
  <2> QED BY <2>1, <2>2, GiveUpDoes, GotoDoes, CallDoes DEF ResultDoes
<1>3. CASE ResultStore(w)
  <2>1. /\ l.pc = "r_store" /\ disk' = disk /\ Goes(l, m, "r_commit")
        /\ db' = StoreResult(db, t, l.status)
    BY <1>3, GotoDoes DEF ResultStore, At, Write
  <2>2. /\ Apart(db, db', t) /\ SameState(db, db', t) /\ SameRow(db, db', t)
        /\ SameKeys(db, db', t) /\ SameAudit(db, db', t) /\ db'.idem = db.idem
        /\ db'.result[t] = l.status
    BY <1>0, <2>1, StoreResultDoes
  <2> QED BY <2>1, <2>2 DEF ResultDoes
<1>4. CASE ResultCommit(w)
  BY <1>4, GotoDoes DEF ResultCommit, At, Commit, ResultDoes
<1>5. CASE ResultFile(w)
  BY <1>5, GotoDoes DEF ResultFile, At, ResultDoes
<1> QED BY <1>2, <1>3, <1>4, <1>5 DEF RecordResult

LEMMA CancelIsDone ==
  ASSUME TypeInv, NEW w \in Threads, Cancel(w)
  PROVE  Does(w)
<1> DEFINE l == thread[w]
           m == thread'[w]
           t == Task(w)
<1>0. /\ l.pc \in {"c_read", "c_state", "c_row"} /\ runs' = runs
      /\ t \in Tasks /\ db \in Store /\ l \in Locals
  <2>1. l.pc \in {"c_read", "c_state", "c_row"} /\ runs' = runs
    BY DEF Cancel, CancelRead, CancelState, CancelRow, At, Outside
  <2> QED BY <2>1, Serving, StoreTyped, LocalsTyped
<1>1. SUFFICES CancelDoes(l, m, t)
  BY <1>0, <1>1, Elsewhere DEF Does
<1>2. CASE CancelRead(w)
  <2> DEFINE n == [l EXCEPT !.pc = "c_state", !.hasRow = HasRow(db, t)]
  <2>1. l.pc = "c_read" /\ Read
    BY <1>2 DEF CancelRead, At
  <2>2. CASE GiveUp(w) \/ Goto(w, "return")
    BY <2>1, <2>2, GiveUpDoes, GotoDoes DEF CancelDoes
  <2>3. CASE ~(GiveUp(w) \/ Goto(w, "return"))
    <3>1. /\ StateOf(db, t)
                \notin {"cancelled", "absent", "succeeded", "failed", "rejected"}
          /\ m = n
      BY <1>2, <2>3, BecomeDoes DEF CancelRead, StateOf
    <3>2. n.pc = "c_state" /\ n.op = l.op /\ n.task = l.task /\ n.caught = l.caught
      BY <1>0 DEF Locals
    <3> HIDE DEF n
    <3> QED BY <2>1, <3>1, <3>2, TerminalStates DEF CancelDoes
  <2> QED BY <2>2, <2>3
<1>3. CASE CancelState(w)
  <2>1. SetsState(db, db', t, "cancelled") /\ db'.granted = db.granted
    BY <1>0, <1>3, UpdateTaskStateDoes DEF CancelState, Write
  <2>2. l.pc = "c_state" /\ disk' = disk /\ Goes(l, m, "c_row")
    BY <1>3, GotoDoes DEF CancelState, At, Write
  <2> QED BY <2>1, <2>2 DEF CancelDoes
<1>4. CASE CancelRow(w)
  <2> DEFINE marked == IF l.hasRow THEN MarkCancelled(db, t) ELSE db
  <2>1. l.pc = "c_row" /\ disk' = disk /\ Goes(l, m, "return")
    BY <1>4, GotoDoes DEF CancelRow, At, Write
  <2>2. /\ marked \in Store
        /\ marked = db \/ SetsRow(db, marked, t, "cancelled", db.queue[t].worker,
                                  db.queue[t].attempts)
    BY <1>0, MarkStatusDoes, MarkStatusType DEF MarkCancelled, RowStatus
  <2>3. Adds(marked, db', t, {<<"task_cancelled", "client">>})
    BY <1>0, <1>4, <2>2, AddAuditDoes DEF CancelRow, Write
  <2> HIDE DEF marked
  <2> QED BY <2>1, <2>2, <2>3 DEF CancelDoes
<1> QED BY <1>2, <1>3, <1>4 DEF Cancel
LEMMA OperateIsDone ==
  ASSUME TypeInv, NEW w \in Threads,
         \/ TimeoutsList(w) \/ TimeoutsNext(w) \/ RecoverJobRead(w)
         \/ RecoverJobRow(w) \/ RecoverJobState(w) \/ RecoverApproval(w)
  PROVE  Does(w)
<1> DEFINE l == thread[w]
           m == thread'[w]
           t == Task(w)
<1>0. /\ l.pc \in {"to_list", "to_next", "rj_read", "rj_row", "rj_state", "ra_write"}
      /\ runs' = runs /\ db \in Store /\ l \in Locals
  <2>1. /\ l.pc \in {"to_list", "to_next", "rj_read", "rj_row", "rj_state",
                     "ra_write"}
        /\ runs' = runs
    BY DEF TimeoutsList, TimeoutsNext, RecoverJobRead, RecoverJobRow,
           RecoverJobState, RecoverApproval, At, Outside
  <2> QED BY <2>1, StoreTyped, LocalsTyped
<1>1. SUFFICES OperateDoes(l, m, t)
  BY <1>0, <1>1, Elsewhere DEF Does
<1>2. CASE TimeoutsList(w)
  <2> DEFINE late == {u \in Tasks : /\ db.queue[u].status = "running"
                                    /\ db.queue[u].timeout # NoTime
                                    /\ db.queue[u].timeout <= now}
             n == [l EXCEPT !.pc = "to_next", !.at = now, !.todo = late]
  <2>1. l.pc = "to_list" /\ Read /\ m = n
    BY <1>2, BecomeDoes DEF TimeoutsList, At
  <2>2. n.pc = "to_next" /\ n.op = l.op /\ n.task = l.task /\ n.caught = l.caught
    BY <1>0 DEF Locals
  <2> HIDE DEF n
  <2> QED BY <2>1, <2>2 DEF OperateDoes
<1>3. CASE TimeoutsNext(w)
  <2>1. l.pc = "to_next"
    BY <1>3 DEF TimeoutsNext, At
  <2>2. CASE l.todo = {}
    BY <1>3, <2>1, <2>2, GotoDoes DEF TimeoutsNext, OperateDoes, Read
  <2>3. CASE l.todo # {}
    <3>1. PICK u \in l.todo :
            LET n == [l EXCEPT !.task = u, !.todo = @ \ {u}] IN
              /\ db' = MarkTimedOut(db, u) /\ disk' = disk
              /\ Become(w, Transition(n, "failed", "to_next"))
      BY <1>3, <2>3 DEF TimeoutsNext, Write
    <3> DEFINE n == [l EXCEPT !.task = u, !.todo = @ \ {u}]
    <3>2. u \in Tasks
      BY <1>0 DEF Locals
    <3>3. n \in Locals /\ n.task = u /\ n.op = l.op /\ n.caught = l.caught
      BY <1>0, <3>2 DEF Locals
    <3>4. Calls(n, m, "failed", "to_next")
      <4>1. m = Transition(n, "failed", "to_next")
        BY <3>1, BecomeDoes
      <4> HIDE DEF n
      <4> QED BY <3>3, <4>1, TransitionDoes
    <3> HIDE DEF n
    <3>5. SetsRow(db, db', u, "timed_out", db.queue[u].worker, db.queue[u].attempts)
      BY <1>0, <3>1, <3>2, MarkStatusDoes DEF MarkTimedOut
    <3> QED BY <2>1, <3>1, <3>2, <3>3, <3>4, <3>5 DEF OperateDoes, Calls, Same
  <2> QED BY <2>2, <2>3
<1>4. CASE RecoverJobRead(w)
  BY <1>4, GiveUpDoes, GotoDoes DEF RecoverJobRead, At, OperateDoes
<1>5. ASSUME l.pc \in {"rj_row", "rj_state", "ra_write"}
      PROVE  t \in Tasks
  BY <1>5, Serving
<1>6. CASE RecoverJobRow(w)
  <2>1. l.pc = "rj_row" /\ disk' = disk /\ Goes(l, m, "rj_state")
    BY <1>6, GotoDoes DEF RecoverJobRow, At, Write
  <2>2. SetsRow(db, db', t, "queued", NoWorker, db.queue[t].attempts)
    BY <1>0, <1>5, <1>6, <2>1, ResetToQueuedDoes DEF RecoverJobRow, Write
  <2> QED BY <2>1, <2>2 DEF OperateDoes
<1>7. CASE RecoverJobState(w)
  <2>1. l.pc = "rj_state" /\ disk' = disk /\ Goes(l, m, "return")
    BY <1>7, GotoDoes DEF RecoverJobState, At, Write
  <2>2. SetsState(db, db', t, "queued") /\ db'.granted = db.granted
    BY <1>0, <1>5, <1>7, <2>1, UpdateTaskStateDoes DEF RecoverJobState, Write
  <2> QED BY <2>1, <2>2 DEF OperateDoes
<1>8. CASE RecoverApproval(w)
  <2>1. l.pc = "ra_write" /\ disk' = disk /\ Goes(l, m, "return")
    BY <1>8, GotoDoes DEF RecoverApproval, At, Write
  <2>2. SetsState(db, db', t, "pending_approval") /\ db'.granted = db.granted
    BY <1>0, <1>5, <1>8, <2>1, UpdateTaskApprovalDoes DEF RecoverApproval, Write
  <2> QED BY <2>1, <2>2 DEF OperateDoes
<1> QED BY <1>2, <1>3, <1>4, <1>6, <1>7, <1>8

LEMMA DeleteIsDone ==
  ASSUME TypeInv, NEW w \in Threads,
         DeleteRead(w) \/ DeleteData(w) \/ DeleteTask(w) \/ DeleteFiles(w)
  PROVE  Does(w)
<1> DEFINE l == thread[w]
           m == thread'[w]
           t == Task(w)
           x == {"x_read", "x_idem", "x_result", "x_queue", "x_audit", "x_task",
                 "x_files"}
<1>0. l.pc \in x /\ runs' = runs /\ t \in Tasks /\ db \in Store
  <2>1. l.pc \in x /\ runs' = runs
    BY DEF DeleteRead, DeleteData, DeleteStatement, DeleteTask, DeleteFiles, At,
           Outside
  <2> QED BY <2>1, Serving, StoreTyped
<1>1. SUFFICES DeleteDoes(l, m, t)
  BY <1>0, <1>1, Elsewhere DEF Does
<1>2. CASE DeleteRead(w)
  <2>1. CASE HasTask(db, t)
    BY <1>0, <1>2, <2>1, GotoDoes, NoRow DEF DeleteRead, At, DeleteDoes
  <2>2. CASE ~HasTask(db, t)
    BY <1>2, <2>2, GiveUpDoes DEF DeleteRead, At, DeleteDoes
  <2> QED BY <2>1, <2>2
<1>3. ASSUME NEW table, NEW pc, NEW next, DeleteStatement(w, table, pc, next)
      PROVE  /\ l.pc = pc /\ disk' = disk /\ Goes(l, m, next)
             /\ db' = DeleteFrom(db, t, table)
  BY <1>3, GotoDoes DEF DeleteStatement, At, Write
<1>4. CASE DeleteStatement(w, "idem", "x_idem", "x_result")
  <2>1. /\ l.pc = "x_idem" /\ disk' = disk /\ Goes(l, m, "x_result")
        /\ db' = DeleteFrom(db, t, "idem")
    BY <1>3, <1>4
  <2>2. /\ Apart(db, db', t) /\ SameState(db, db', t) /\ SameRow(db, db', t)
        /\ SameResult(db, db', t) /\ SameAudit(db, db', t)
        /\ \A k \in Keys :
             db'.idem[k] = IF db.idem[k] = t THEN NoTask ELSE db.idem[k]
    BY <1>0, <2>1, DeleteKeysDoes
  <2> QED BY <2>1, <2>2 DEF DeleteDoes
<1>5. CASE DeleteStatement(w, "result", "x_result", "x_queue")
  <2>1. /\ l.pc = "x_result" /\ disk' = disk /\ Goes(l, m, "x_queue")
        /\ db' = DeleteFrom(db, t, "result")
    BY <1>3, <1>5
  <2>2. /\ Apart(db, db', t) /\ SameState(db, db', t) /\ SameRow(db, db', t)
        /\ SameAudit(db, db', t) /\ db'.idem = db.idem
    BY <1>0, <2>1, DeleteResultDoes
  <2> QED BY <2>1, <2>2 DEF DeleteDoes
<1>6. CASE DeleteStatement(w, "queue", "x_queue", "x_audit")
  <2>1. /\ l.pc = "x_queue" /\ disk' = disk /\ Goes(l, m, "x_audit")
        /\ db' = DeleteFrom(db, t, "queue")
    BY <1>3, <1>6
  <2> QED BY <1>0, <2>1, DeleteRowDoes DEF DeleteDoes
<1>7. CASE DeleteStatement(w, "audit", "x_audit", "x_task")
  <2>1. /\ l.pc = "x_audit" /\ disk' = disk /\ Goes(l, m, "x_task")
        /\ db' = DeleteFrom(db, t, "audit")
    BY <1>3, <1>7
  <2>2. /\ Apart(db, db', t) /\ SameState(db, db', t) /\ SameRow(db, db', t)
        /\ SameResult(db, db', t) /\ db'.idem = db.idem /\ db'.granted = db.granted
    BY <1>0, <2>1, DeleteAuditDoes
  <2> QED BY <2>1, <2>2 DEF DeleteDoes
<1>8. CASE DeleteTask(w)
  <2>1. /\ l.pc = "x_task" /\ disk' = db' /\ Goes(l, m, "x_files")
        /\ db' = DeleteFrom(db, t, "task")
    BY <1>8, GotoDoes DEF DeleteTask, At, Commit
  <2>2. /\ Apart(db, db', t) /\ SameRow(db, db', t) /\ SameResult(db, db', t)
        /\ db'.idem = db.idem
        /\ StateOf(db', t) = "absent" /\ t \notin db'.granted
    BY <1>0, <2>1, DeleteTaskDoes
  <2> QED BY <2>1, <2>2 DEF DeleteDoes
<1>9. CASE DeleteFiles(w)
  BY <1>9, GotoDoes DEF DeleteFiles, At, DeleteDoes
<1> QED BY <1>2, <1>4, <1>5, <1>6, <1>7, <1>8, <1>9 DEF DeleteData

LEMMA StartIsDone ==
  ASSUME TypeInv, NEW w \in Threads, NEW op, NEW l, NEW pc, Start(w, op, l),
         Fresh(l, pc),
         \/ op = "submit" /\ l.task \in Tasks
              /\ pc = IF KeyOf[l.task] = NoKey THEN "submit_create"
                                               ELSE "submit_lookup"
         \/ op = "approve" /\ pc = "t_read" /\ l.target = "approved" /\ l.then = "d_read"
         \/ op = "reject" /\ pc = "t_read" /\ l.target = "rejected" /\ l.then = "return"
         \/ <<op, pc>> \in {<<"cancel", "c_read">>, <<"result", "r_read">>,
                            <<"process", "pq_read">>, <<"timeouts", "to_list">>,
                            <<"recover_job", "rj_read">>,
                            <<"recover_approval", "ra_write">>,
                            <<"delete", "x_read">>}
  PROVE  Does(w)
<1> DEFINE m == thread'[w]
<1>1. /\ m.pc = pc /\ m.op = op /\ m.target = l.target /\ m.task = l.task
      /\ m.then = l.then /\ m.todo = {} /\ ~m.caught /\ op \in Ops
      /\ thread[w].pc = "idle" /\ Read /\ runs' = runs
  BY StartDoes DEF Fresh, Outside
<1>2. Starts(m)
  BY <1>1 DEF Starts
<1> QED BY <1>1, <1>2, Elsewhere DEF Does

LEMMA RequestIsDone ==
  ASSUME TypeInv, NEW w \in Threads, Request(w)
  PROVE  Does(w)
<1> USE DEF Fresh
<1>1. Idle \in Locals
  BY IdleOK, ThreadIsTyped
<1>2. ASSUME NEW t \in Tasks, RequestSubmit(w, t)
      PROVE  Does(w)
  <2> DEFINE pc == IF KeyOf[t] = NoKey THEN "submit_create" ELSE "submit_lookup"
             l == [Idle EXCEPT !.pc = pc, !.task = t]
  <2>1. Start(w, "submit", l)
    BY <1>2 DEF RequestSubmit
  <2>2. pc \in {"submit_create", "submit_lookup"}
    OBVIOUS
  <2> HIDE DEF pc
  <2>3. Fresh(l, pc) /\ l.task = t
    BY <1>1, <2>2 DEF Idle, Locals, PCs
  <2> HIDE DEF l
  <2> QED BY <2>1, <2>3, StartIsDone DEF pc
<1>3. ASSUME NEW t \in Tasks, RequestApprove(w, t)
      PROVE  Does(w)
  <2> DEFINE l == Transition([Idle EXCEPT !.task = t], "approved", "d_read")
  <2>1. Start(w, "approve", l)
    BY <1>3 DEF RequestApprove
  <2>2. Fresh(l, "t_read") /\ l.target = "approved" /\ l.then = "d_read"
    BY <1>1 DEF Transition, Idle, Locals, PCs, States, Continuations
  <2> HIDE DEF l
  <2> QED BY <2>1, <2>2, StartIsDone
<1>4. ASSUME NEW t \in Tasks, RequestReject(w, t)
      PROVE  Does(w)
  <2> DEFINE l == Transition([Idle EXCEPT !.task = t], "rejected", "return")
  <2>1. Start(w, "reject", l)
    BY <1>4 DEF RequestReject
  <2>2. Fresh(l, "t_read") /\ l.target = "rejected" /\ l.then = "return"
    BY <1>1 DEF Transition, Idle, Locals, PCs, States, Continuations
  <2> HIDE DEF l
  <2> QED BY <2>1, <2>2, StartIsDone
<1>5. ASSUME NEW t \in Tasks, RequestCancel(w, t)
      PROVE  Does(w)
  <2> DEFINE l == [Idle EXCEPT !.pc = "c_read", !.task = t]
  <2>1. Start(w, "cancel", l)
    BY <1>5 DEF RequestCancel
  <2>2. Fresh(l, "c_read")
    BY <1>1 DEF Idle, Locals, PCs
  <2> HIDE DEF l
  <2> QED BY <2>1, <2>2, StartIsDone
<1>6. ASSUME NEW t \in Tasks, NEW status \in RunStatus, RequestResult(w, t, status)
      PROVE  Does(w)
  <2> DEFINE l == [Idle EXCEPT !.pc = "r_read", !.task = t, !.status = status]
  <2>1. Start(w, "result", l)
    BY <1>6 DEF RequestResult
  <2>2. Fresh(l, "r_read")
    BY <1>1 DEF Idle, Locals, PCs
  <2> HIDE DEF l
  <2> QED BY <2>1, <2>2, StartIsDone
<1>7. ASSUME NEW t \in Tasks, NEW worker \in Workers \cup {NoWorker},
             RequestProcess(w, t, worker)
      PROVE  Does(w)
  <2> DEFINE l == [Idle EXCEPT !.pc = "pq_read", !.task = t, !.worker = worker]
  <2>1. Start(w, "process", l)
    BY <1>7 DEF RequestProcess
  <2>2. Fresh(l, "pq_read")
    BY <1>1 DEF Idle, Locals, PCs
  <2> HIDE DEF l
  <2> QED BY <2>1, <2>2, StartIsDone
<1>8. ASSUME NEW t \in Tasks, RequestRecoverJob(w, t)
      PROVE  Does(w)
  <2> DEFINE l == [Idle EXCEPT !.pc = "rj_read", !.task = t]
  <2>1. Start(w, "recover_job", l)
    BY <1>8 DEF RequestRecoverJob
  <2>2. Fresh(l, "rj_read")
    BY <1>1 DEF Idle, Locals, PCs
  <2> HIDE DEF l
  <2> QED BY <2>1, <2>2, StartIsDone
<1>9. ASSUME NEW t \in Tasks, RequestRecoverApproval(w, t)
      PROVE  Does(w)
  <2> DEFINE l == [Idle EXCEPT !.pc = "ra_write", !.task = t]
  <2>1. Start(w, "recover_approval", l)
    BY <1>9 DEF RequestRecoverApproval
  <2>2. Fresh(l, "ra_write")
    BY <1>1 DEF Idle, Locals, PCs
  <2> HIDE DEF l
  <2> QED BY <2>1, <2>2, StartIsDone
<1>10. ASSUME NEW t \in Tasks, RequestDelete(w, t)
       PROVE  Does(w)
  <2> DEFINE l == [Idle EXCEPT !.pc = "x_read", !.task = t]
  <2>1. Start(w, "delete", l)
    BY <1>10 DEF RequestDelete
  <2>2. Fresh(l, "x_read")
    BY <1>1 DEF Idle, Locals, PCs
  <2> HIDE DEF l
  <2> QED BY <2>1, <2>2, StartIsDone
<1>11. CASE RequestTimeouts(w)
  <2> DEFINE l == [Idle EXCEPT !.pc = "to_list"]
  <2>1. Start(w, "timeouts", l)
    BY <1>11 DEF RequestTimeouts
  <2>2. Fresh(l, "to_list")
    BY <1>1 DEF Idle, Locals, PCs
  <2> HIDE DEF l
  <2> QED BY <2>1, <2>2, StartIsDone
<1> QED BY <1>2, <1>3, <1>4, <1>5, <1>6, <1>7, <1>8, <1>9, <1>10, <1>11 DEF Request

LEMMA ThreadDoes ==
  ASSUME TypeInv, NEW w \in Threads, Request(w) \/ Serve(w)
  PROVE  Does(w)
<1>1. CASE Return(w)
  <2>1. thread[w].pc = "return" /\ Read /\ Ended(thread'[w]) /\ runs' = runs
    BY <1>1, GiveUpDoes DEF Return, At
  <2> QED BY <2>1, Elsewhere DEF Does
<1>2. CASE Operate(w)
  BY <1>2, OperateIsDone, DeleteIsDone DEF Operate
<1> QED BY <1>1, <1>2, RequestIsDone, TransactIsDone, SubmitIsDone, ProcessIsDone,
           DispatchIsDone, ResultIsDone, CancelIsDone DEF Serve

\* Every step: one thread's while the others wait, a crash, or one that leaves
\* threads and tables alone.
LEMMA NextDoes ==
  ASSUME TypeInv, [Next]_vars
  PROVE  \/ \E w \in Threads :
              /\ Request(w) \/ Serve(w)
              /\ Does(w)
              /\ \A v \in Threads : v # w => thread'[v] = thread[v]
         \/ db' = disk /\ disk' = disk /\ thread' = [w \in Threads |-> Idle]
            /\ crashes < MaxCrashes /\ runs' = runs
         \/ UNCHANGED <<db, disk, thread, runs>>
<1>1. CASE \E w \in Threads : Request(w) \/ Serve(w)
  BY <1>1, ThreadDoes, OthersWait
<1>2. CASE Crash
  BY <1>2 DEF Crash
<1>3. CASE Hermes \/ Tick \/ UNCHANGED vars
  BY <1>3 DEF Hermes, HermesAnswers, Tick, vars
<1> QED BY <1>1, <1>2, <1>3 DEF Next

LEMMA OneThreadDoes ==
  ASSUME TypeInv, NEW w, Threads = {w}, [Next]_vars
  PROVE  \/ Does(w)
         \/ db' = disk /\ disk' = disk /\ thread'[w] = Idle /\ crashes < MaxCrashes
            /\ runs' = runs
         \/ UNCHANGED <<db, disk, thread, runs>>
BY NextDoes

-----------------------------------------------------------------------------
(* Every decision has its audit event.  A transition and the event behind it *)
(* are two statements of one transaction, and so are the statements of a     *)
(* delete: what is true on disk at any time is, in the tables, due only at   *)
(* the points of the code between two such statements.                       *)

Says(s, t, event, actor) == <<event, actor>> \in s.audit[t]

Audited(s, t) ==
  /\ t \in s.granted => Says(s, t, "approval_granted", "human")
  /\ StateOf(s, t) = "rejected" => Says(s, t, "approval_rejected", "human")
  /\ StateOf(s, t) = "cancelled" => Says(s, t, "task_cancelled", "client")

ByHuman(l) == l.op \in {"approve", "reject"}

\* Where the event of the thread's own task may be missing, and which one.
Unaudited == {"t_commit", "c_row", "x_task"}

Due(l, s, t) ==
  /\ l.pc = "t_commit" =>
       /\ t \in s.granted => \/ Says(s, t, "approval_granted", "human")
                             \/ l.target = "approved" /\ ByHuman(l)
       /\ StateOf(s, t) = "rejected" =>
            \/ Says(s, t, "approval_rejected", "human")
            \/ l.target = "rejected" /\ ByHuman(l)
       /\ StateOf(s, t) = "cancelled" => Says(s, t, "task_cancelled", "client")
  /\ l.pc = "c_row" =>
       /\ t \in s.granted => Says(s, t, "approval_granted", "human")
       /\ StateOf(s, t) # "rejected"

\* transition_task is never asked to cancel, and to reject only by a human.
Decides(l) ==
  InTransition(l) =>
    l.target # "cancelled" /\ (l.target = "rejected" => ByHuman(l))

AuditOK(l, s) ==
  /\ \A t \in Tasks : t # l.task \/ l.pc \notin Unaudited => Audited(s, t)
  /\ l.task \in Tasks => Due(l, s, l.task)
  /\ Decides(l)

AuditInv ==
  /\ \A t \in Tasks : Audited(disk, t)
  /\ \A w \in Threads : AuditOK(thread[w], db)

LEMMA AuditedKept ==
  ASSUME NEW s, NEW s2, NEW t, SameAudit(s, s2, t), Audited(s, t),
         SameState(s, s2, t) \/ StateOf(s2, t) \notin {"rejected", "cancelled"}
  PROVE  Audited(s2, t)
BY DEF SameAudit, SameState, Audited, Says

LEMMA ApartAudited ==
  ASSUME NEW s, NEW s2, NEW t, Apart(s, s2, t),
         \A u \in Tasks : u # t => Audited(s, u)
  PROVE  \A u \in Tasks : u # t => Audited(s2, u)
BY AuditedKept DEF Apart, SameRows

\* A step that neither decides nor commits half a decision.
Indifferent(l, m) ==
  /\ l.pc \notin Unaudited /\ m.pc \notin Unaudited /\ Decides(m)
  /\ \A u \in Tasks :
       /\ SameAudit(db, db', u)
       /\ \/ SameState(db, db', u)
          \/ StateOf(db', u) \notin {"rejected", "cancelled"}
  /\ disk' = disk \/ disk' = db'

LEMMA IndifferentAudits ==
  ASSUME NEW w, Threads = {w}, AuditInv, Indifferent(thread[w], thread'[w])
  PROVE  AuditInv'
<1>1. \A t \in Tasks : Audited(db, t) /\ Audited(disk, t)
  BY DEF AuditInv, AuditOK, Indifferent
<1>2. \A t \in Tasks : Audited(db', t) /\ Audited(disk', t)
  BY <1>1, AuditedKept DEF Indifferent
<1> QED BY <1>2 DEF AuditInv, AuditOK, Indifferent, Due, Unaudited

\* The rows of one task change, its state and its audit events do not.
LEMMA OneTaskIndifferent ==
  ASSUME NEW s, NEW s2, NEW t, Apart(s, s2, t), SameAudit(s, s2, t),
         NEW u \in Tasks
  PROVE  SameAudit(s, s2, u) /\ (u # t => SameState(s, s2, u))
BY DEF Apart, SameRows

LEMMA SetsStateIndifferent ==
  ASSUME NEW s, NEW s2, NEW t, NEW state, SetsState(s, s2, t, state),
         s2.granted = s.granted, state \notin {"rejected", "cancelled"}
  PROVE  \A u \in Tasks :
           /\ SameAudit(s, s2, u)
           /\ \/ SameState(s, s2, u)
              \/ StateOf(s2, u) \notin {"rejected", "cancelled"}
BY DEF SetsState, Apart, SameRows, SameAudit

LEMMA SetsRowIndifferent ==
  ASSUME NEW s, NEW s2, NEW t, NEW status, NEW worker, NEW attempts,
         SetsRow(s, s2, t, status, worker, attempts)
  PROVE  \A u \in Tasks : SameAudit(s, s2, u) /\ SameState(s, s2, u)
BY DEF SetsRow, Apart, SameRows

LEMMA PutsRowIndifferent ==
  ASSUME NEW s, NEW s2, NEW t, NEW row, PutsRow(s, s2, t, row)
  PROVE  \A u \in Tasks : SameAudit(s, s2, u) /\ SameState(s, s2, u)
BY DEF PutsRow, Apart, SameRows

\* Reading changes nothing, and giving up and raising ask for no transition.
LEMMA ReadIndifferent ==
  ASSUME Read
  PROVE  /\ disk' = disk /\ db' = db
         /\ \A u \in Tasks : SameAudit(db, db', u) /\ SameState(db, db', u)
BY DEF Read, SameAudit, SameState

LEMMA RaisesDecides ==
  ASSUME NEW l, NEW m, Raises(l, m) \/ Ended(m)
  PROVE  Decides(m) /\ m.pc \notin Unaudited
BY DEF Raises, Caught, Ended, Decides, InTransition, Unaudited
\* The points of the code whose step is Indifferent.
Deciding == {"t_write", "c_state", "x_audit"} \cup Unaudited

LEMMA SubmitIndifferent ==
  ASSUME NEW l, NEW m, NEW t, SubmitDoes(l, m, t),
         m \in Locals, l.pc \in {"submit_lookup", "submit_create",
                                 "submit_idem", "enqueue_row"}
  PROVE  Indifferent(l, m)
<1>1. CASE l.pc = "submit_lookup"
  BY <1>1, ReadIndifferent
     DEF SubmitDoes, Goes, Indifferent, Decides, InTransition, Unaudited
<1>2. CASE l.pc = "submit_create"
  <2>1. CASE db' = db /\ Ended(m) /\ disk' = disk
    BY <1>2, <2>1, RaisesDecides, ReadIndifferent DEF Indifferent, Read, Unaudited
  <2>2. CASE Creates(l, m, t) /\ disk' = disk
    BY <1>2, <2>2, OneTaskIndifferent
       DEF Creates, Indifferent, Decides, InTransition, Unaudited
  <2> QED BY <1>2, <2>1, <2>2 DEF SubmitDoes
<1>3. CASE l.pc = "submit_idem"
  <2>1. CASE db' = db /\ Ended(m) /\ disk' = disk
    BY <1>3, <2>1, RaisesDecides, ReadIndifferent DEF Indifferent, Read, Unaudited
  <2>2. CASE /\ Calls(l, m, "validating", "submit_validated") /\ disk' = disk
             /\ Apart(db, db', t) /\ SameState(db, db', t) /\ SameAudit(db, db', t)
    BY <1>3, <2>2, OneTaskIndifferent
       DEF Calls, Indifferent, Decides, InTransition, Unaudited
  <2> QED BY <1>3, <2>1, <2>2 DEF SubmitDoes
<1>4. CASE l.pc = "enqueue_row"
  <2>1. PICK row : PutsRow(db, db', t, row)
    BY <1>4 DEF SubmitDoes
  <2> QED BY <1>4, <2>1, PutsRowIndifferent
          DEF SubmitDoes, Goes, Indifferent, Decides, InTransition, Unaudited
<1> QED BY <1>1, <1>2, <1>3, <1>4

LEMMA ProcessIndifferent ==
  ASSUME NEW l, NEW m, NEW t, ProcessDoes(l, m, t),
         l.pc \in {"pq_read", "claim_read", "claim_write", "e_dead", "e_state",
                   "e_retry"}
  PROVE  Indifferent(l, m)
<1>1. CASE l.pc \in {"pq_read", "claim_read"}
  BY <1>1, ReadIndifferent
     DEF ProcessDoes, Ended, Goes, Indifferent, Decides, InTransition, Unaudited
<1>2. CASE l.pc = "claim_write"
  <2>1. \A u \in Tasks : SameAudit(db, db', u) /\ SameState(db, db', u)
    BY <1>2, SetsRowIndifferent DEF ProcessDoes
  <2> QED BY <1>2, <2>1
          DEF ProcessDoes, Ended, Indifferent, Decides, InTransition, Unaudited
<1>3. CASE l.pc \in {"e_dead", "e_retry"}
  <2>1. \A u \in Tasks : SameAudit(db, db', u) /\ SameState(db, db', u)
    BY <1>3, SetsRowIndifferent DEF ProcessDoes
  <2> QED BY <1>3, <2>1
          DEF ProcessDoes, Goes, Calls, Indifferent, Decides, InTransition, Unaudited
<1>4. CASE l.pc = "e_state"
  BY <1>4, SetsStateIndifferent
     DEF ProcessDoes, Goes, Indifferent, Decides, InTransition, Unaudited
<1> QED BY <1>1, <1>2, <1>3, <1>4

LEMMA DispatchIndifferent ==
  ASSUME NEW l, NEW m, NEW t, DispatchDoes(l, m, t),
         l.pc \in {"d_read", "d_ready", "d_running", "d_dispatched", "d_submit",
                   "d_wait"}
  PROVE  Indifferent(l, m)
<1>1. CASE l.pc \in {"d_running", "d_dispatched"}
  <2>1. \A u \in Tasks : SameAudit(db, db', u) /\ SameState(db, db', u)
    BY <1>1, SetsRowIndifferent DEF DispatchDoes
  <2> QED BY <1>1, <2>1
          DEF DispatchDoes, Goes, Indifferent, Decides, InTransition, Unaudited
<1>2. CASE l.pc \in {"d_read", "d_ready", "d_submit", "d_wait"}
  <2>1. Read
    BY <1>2 DEF DispatchDoes
  <2>2. Decides(m) /\ m.pc \notin Unaudited
    <3>1. CASE Raises(l, m)
      BY <3>1, RaisesDecides
    <3>2. CASE ~Raises(l, m)
      BY <1>2, <3>2 DEF DispatchDoes, Goes, Calls, Decides, InTransition, Unaudited
    <3> QED BY <3>1, <3>2
  <2> QED BY <1>2, <2>1, <2>2, ReadIndifferent DEF Indifferent, Unaudited
<1> QED BY <1>1, <1>2

LEMMA ResultIndifferent ==
  ASSUME NEW l, NEW m, NEW t, ResultDoes(l, m, t), ThreadOK(l),
         l.pc \in {"r_read", "r_store", "r_commit", "r_file"}
  PROVE  Indifferent(l, m)
<1>1. CASE l.pc \in {"r_read", "r_file"}
  BY <1>1, ReadIndifferent
     DEF ResultDoes, Goes, Calls, Ended, Indifferent, Decides, InTransition,
         Unaudited, ThreadOK, RunStatus
<1>2. CASE l.pc = "r_store"
  BY <1>2, OneTaskIndifferent
     DEF ResultDoes, Goes, Indifferent, Decides, InTransition, Unaudited
<1>3. CASE l.pc = "r_commit"
  BY <1>3 DEF ResultDoes, Goes, Indifferent, Decides, InTransition, Unaudited,
              SameAudit, SameState
<1> QED BY <1>1, <1>2, <1>3

LEMMA OperateIndifferent ==
  ASSUME NEW l, NEW m, NEW t, OperateDoes(l, m, t),
         l.pc \in {"to_list", "to_next", "rj_read", "rj_row", "rj_state", "ra_write"}
  PROVE  Indifferent(l, m)
<1>1. CASE l.pc \in {"to_list", "rj_read"}
  BY <1>1, ReadIndifferent
     DEF OperateDoes, Goes, Ended, Indifferent, Decides, InTransition, Unaudited
<1>2. CASE l.pc = "to_next" /\ db' = db
  BY <1>2, ReadIndifferent
     DEF OperateDoes, Goes, Indifferent, Decides, InTransition, Unaudited, Read
<1>3. CASE l.pc = "to_next" /\ db' # db
  <2>1. \A u \in Tasks : SameAudit(db, db', u) /\ SameState(db, db', u)
    BY <1>3, SetsRowIndifferent DEF OperateDoes
  <2> QED BY <1>3, <2>1
          DEF OperateDoes, Indifferent, Decides, InTransition, Unaudited
<1>4. CASE l.pc = "rj_row"
  <2>1. \A u \in Tasks : SameAudit(db, db', u) /\ SameState(db, db', u)
    BY <1>4, SetsRowIndifferent DEF OperateDoes
  <2> QED BY <1>4, <2>1
          DEF OperateDoes, Goes, Indifferent, Decides, InTransition, Unaudited
<1>5. CASE l.pc \in {"rj_state", "ra_write"}
  BY <1>5, SetsStateIndifferent
     DEF OperateDoes, Goes, Indifferent, Decides, InTransition, Unaudited
<1> QED BY <1>1, <1>2, <1>3, <1>4, <1>5

LEMMA DeleteIndifferent ==
  ASSUME NEW l, NEW m, NEW t, DeleteDoes(l, m, t),
         l.pc \in {"x_read", "x_idem", "x_result", "x_queue", "x_files"}
  PROVE  Indifferent(l, m)
<1>1. CASE l.pc \in {"x_read", "x_files"}
  BY <1>1, ReadIndifferent
     DEF DeleteDoes, Goes, Ended, Indifferent, Decides, InTransition, Unaudited
<1>2. CASE l.pc \in {"x_idem", "x_result"}
  BY <1>2, OneTaskIndifferent
     DEF DeleteDoes, Goes, Indifferent, Decides, InTransition, Unaudited
<1>3. CASE l.pc = "x_queue"
  BY <1>3, PutsRowIndifferent
     DEF DeleteDoes, Goes, Indifferent, Decides, InTransition, Unaudited
<1> QED BY <1>1, <1>2, <1>3
LEMMA TransactAudits ==
  ASSUME NEW w, Threads = {w}, TypeInv, AuditInv,
         TransactDoes(thread[w], thread'[w], Task(w), Actor(w)),
         InTransition(thread[w]), TypeInv'
  PROVE  AuditInv'
<1> DEFINE l == thread[w]
           m == thread'[w]
           t == Task(w)
<1>0. /\ w \in Threads /\ l.task = t /\ t \in Tasks /\ l \in Locals /\ m \in Locals
      /\ \A u \in Tasks : Audited(disk, u)
      /\ \A u \in Tasks : u # t \/ l.pc \notin Unaudited => Audited(db, u)
      /\ Due(l, db, t) /\ Decides(l) /\ l.target \in States
      /\ Actor(w) = IF ByHuman(l) THEN "human" ELSE "paperclip"
  BY Serving, LocalsTyped
     DEF InTransition, Task, AuditInv, AuditOK, ThreadOK, TypeInv, Actor, ByHuman
<1>1. CASE l.pc = "t_read"
  <2>1. Read
    BY <1>1 DEF TransactDoes
  <2>2. Decides(m) /\ m.pc \notin Unaudited
    BY <1>0, <1>1, RaisesDecides
       DEF TransactDoes, Goes, Same, Decides, InTransition, Unaudited, ByHuman
  <2> QED BY <1>1, <2>1, <2>2, ReadIndifferent, IndifferentAudits
          DEF Indifferent, Unaudited
<1>2. CASE l.pc = "t_write"
  <2>1. /\ disk' = disk /\ Goes(l, m, "t_commit") /\ SetsState(db, db', t, l.target)
        /\ t \in db'.granted
             => t \in db.granted \/ (l.target = "approved" /\ Actor(w) = "human")
    BY <1>2 DEF TransactDoes
  <2>2. \A u \in Tasks : Audited(db, u)
    BY <1>0, <1>2 DEF Unaudited
  <2>3. \A u \in Tasks : u # t => Audited(db', u)
    BY <2>1, <2>2, ApartAudited DEF SetsState
  <2>4. /\ db'.audit = db.audit
        /\ StateOf(db', t) \in {"absent", l.target}
    BY <2>1 DEF SetsState
  <2>5. /\ m.task = t /\ m.pc = "t_commit" /\ m.target = l.target
        /\ ByHuman(m) <=> ByHuman(l)
    BY <1>0, <2>1 DEF Goes, Same, ByHuman
  <2>6. Due(m, db', t)
    BY <1>0, <1>2, <2>1, <2>2, <2>4, <2>5
       DEF Due, Audited, Says, Decides, InTransition
  <2>7. Decides(m)
    BY <1>0, <1>2, <2>5 DEF Decides, InTransition
  <2> QED BY <1>0, <2>1, <2>3, <2>5, <2>6, <2>7 DEF AuditInv, AuditOK, Unaudited
<1>3. CASE l.pc = "t_commit"
  <2>1. /\ disk' = db' /\ Returns(l, m)
        /\ Adds(db, db', t, EventOf(l.target, Actor(w)))
    BY <1>3 DEF TransactDoes
  <2>2. \A u \in Tasks : u # t => Audited(db', u)
    <3>1. \A u \in Tasks : u # t => Audited(db, u)
      BY <1>0
    <3> QED BY <2>1, <3>1, ApartAudited DEF Adds
  <2>3. Audited(db', t)
    BY <1>0, <1>3, <2>1
       DEF Due, Audited, Says, Adds, EventOf, SameState
  <2>4. Decides(m) /\ m.pc \notin Unaudited
    BY <1>0, <2>1
       DEF Returns, Calls, Goes, Decides, InTransition, Unaudited, Locals,
           Continuations
  <2> QED BY <2>1, <2>2, <2>3, <2>4 DEF AuditInv, AuditOK, Due, Unaudited
<1> QED BY <1>1, <1>2, <1>3 DEF InTransition

LEMMA CancelAudits ==
  ASSUME NEW w, Threads = {w}, TypeInv, AuditInv,
         CancelDoes(thread[w], thread'[w], Task(w)),
         thread[w].pc \in {"c_read", "c_state", "c_row"}
  PROVE  AuditInv'
<1> DEFINE l == thread[w]
           m == thread'[w]
           t == Task(w)
<1>0. /\ w \in Threads /\ l.task = t /\ t \in Tasks
      /\ \A u \in Tasks : Audited(disk, u)
      /\ \A u \in Tasks : u # t \/ l.pc \notin Unaudited => Audited(db, u)
      /\ Due(l, db, t)
  BY Serving DEF Task, AuditInv, AuditOK, TypeInv
<1>1. CASE l.pc = "c_read"
  <2>1. Indifferent(l, m)
    BY <1>1, ReadIndifferent
       DEF CancelDoes, Ended, Goes, Indifferent, Decides, InTransition, Unaudited
  <2> QED BY <2>1, IndifferentAudits
<1>2. CASE l.pc = "c_state"
  <2>1. /\ disk' = disk /\ Goes(l, m, "c_row")
        /\ SetsState(db, db', t, "cancelled") /\ db'.granted = db.granted
    BY <1>2 DEF CancelDoes
  <2>2. \A u \in Tasks : Audited(db, u)
    BY <1>0, <1>2 DEF Unaudited
  <2>3. \A u \in Tasks : u # t => Audited(db', u)
    BY <2>1, <2>2, ApartAudited DEF SetsState
  <2>4. Due(m, db', t)
    BY <1>0, <2>1, <2>2 DEF Due, Audited, Says, SetsState, Goes
  <2> QED BY <1>0, <2>1, <2>3, <2>4
          DEF AuditInv, AuditOK, Unaudited, Goes, Same, Decides, InTransition
<1>3. CASE l.pc = "c_row"
  <2>1. PICK marked \in Store :
          /\ marked = db \/ SetsRow(db, marked, t, "cancelled",
                                    db.queue[t].worker, db.queue[t].attempts)
          /\ Adds(marked, db', t, {<<"task_cancelled", "client">>})
    BY <1>3 DEF CancelDoes
  <2>2. \A u \in Tasks : SameAudit(db, marked, u) /\ SameState(db, marked, u)
    BY <2>1, SetsRowIndifferent DEF SameAudit, SameState
  <2>3. \A u \in Tasks : u # t => Audited(marked, u)
    BY <1>0, <2>2, AuditedKept
  <2>4. \A u \in Tasks : u # t => Audited(db', u)
    BY <2>1, <2>3, ApartAudited DEF Adds
  <2>5. Audited(db', t)
    BY <1>0, <1>3, <2>1, <2>2
       DEF Due, Audited, Says, Adds, SameState, SameAudit
  <2>6. disk' = disk /\ Goes(l, m, "return")
    BY <1>3 DEF CancelDoes
  <2> QED BY <1>0, <2>4, <2>5, <2>6
          DEF AuditInv, AuditOK, Due, Unaudited, Goes, Decides, InTransition
<1> QED BY <1>1, <1>2, <1>3

LEMMA DeleteAudits ==
  ASSUME NEW w, Threads = {w}, TypeInv, AuditInv,
         DeleteDoes(thread[w], thread'[w], Task(w)),
         thread[w].pc \in {"x_audit", "x_task"}
  PROVE  AuditInv'
<1> DEFINE l == thread[w]
           m == thread'[w]
           t == Task(w)
<1>0. /\ w \in Threads /\ l.task = t /\ t \in Tasks
      /\ \A u \in Tasks : Audited(disk, u)
      /\ \A u \in Tasks : u # t => Audited(db, u)
  BY Serving DEF Task, AuditInv, AuditOK, TypeInv
<1>1. Apart(db, db', t)
  BY DEF DeleteDoes
<1>2. \A u \in Tasks : u # t => Audited(db', u)
  BY <1>0, <1>1, ApartAudited
<1>3. CASE l.pc = "x_audit"
  BY <1>0, <1>2, <1>3
     DEF DeleteDoes, AuditInv, AuditOK, Due, Unaudited, Goes, Same, Decides,
         InTransition
<1>4. CASE l.pc = "x_task"
  <2>1. Audited(db', t)
    BY <1>4 DEF DeleteDoes, Audited
  <2> QED BY <1>0, <1>2, <1>4, <2>1
          DEF DeleteDoes, AuditInv, AuditOK, Due, Unaudited, Goes, Decides,
              InTransition
<1> QED BY <1>3, <1>4

LEMMA AuditInit ==
  ASSUME Init
  PROVE  AuditInv
BY DEF Init, EmptyStore, NoTaskRow, Idle, AuditInv, AuditOK, Audited, StateOf,
       Due, Decides, InTransition, Unaudited

LEMMA AuditStep ==
  ASSUME NEW w, Threads = {w}, TypeInv, AuditInv, [Next]_vars
  PROVE  AuditInv'
<1> DEFINE l == thread[w]
           m == thread'[w]
           t == Task(w)
<1>1. CASE Does(w)
  <2>0. TypeInv' /\ w \in Threads
    BY NextType
  <2>1. l.pc \in PCs /\ m \in Locals /\ ThreadOK(l)
    BY <2>0 DEF TypeInv, TypeOK, Locals
  <2>2. CASE l.pc \in {"idle", "return"}
    <3>1. Indifferent(l, m)
      BY <1>1, <2>2, ReadIndifferent
         DEF Does, Starts, Ended, Indifferent, Decides, InTransition, Unaudited,
             ByHuman
    <3> QED BY <3>1, IndifferentAudits
  <2>3. CASE l.pc \in Deciding \/ l.pc \in {"t_read", "c_read"}
    BY <1>1, <2>0, <2>3, TransactAudits, CancelAudits, DeleteAudits
       DEF Deciding, Unaudited, Does, InTransition
  <2>4. CASE l.pc \notin Deciding \cup {"idle", "return", "t_read", "c_read"}
    <3>1. Indifferent(l, m)
      BY <1>1, <2>1, <2>4, SubmitIndifferent, ProcessIndifferent,
         DispatchIndifferent, ResultIndifferent, OperateIndifferent,
         DeleteIndifferent
         DEF Does, PCs, Deciding, Unaudited
    <3> QED BY <3>1, IndifferentAudits
  <2> QED BY <2>2, <2>3, <2>4
<1>2. CASE db' = disk /\ disk' = disk /\ thread'[w] = Idle
  BY <1>2 DEF Idle, AuditInv, AuditOK, Due, Unaudited, Decides, InTransition
<1>3. CASE UNCHANGED <<db, disk, thread>>
  BY <1>3 DEF AuditInv, AuditOK, Due, Unaudited, Decides, InTransition, Audited,
              StateOf, Says
<1> QED BY <1>1, <1>2, <1>3, OneThreadDoes

\* A decision on disk has the audit event that says who took it, for any number
\* of tasks, any operations and any number of crashes: transition_task commits
\* the two together, and what cancel_task leaves open is committed with its
\* event or lost with it (service.py:102-116, 291-306).
THEOREM DecisionsAreAuditedHolds ==
  ASSUME NEW w, Threads = {w}
  PROVE  Spec => []DecisionsAreAudited
<1>1. Init => TypeInv /\ AuditInv
  BY InitType, AuditInit
<1>2. TypeInv /\ AuditInv /\ [Next]_vars => (TypeInv /\ AuditInv)'
  BY NextType, AuditStep
<1>3. AuditInv => DecisionsAreAudited
  BY DEF AuditInv, DecisionsAreAudited, Audited, Says, StateOf
<1> QED BY <1>1, <1>2, <1>3, PTL DEF Spec
-----------------------------------------------------------------------------
(* One task per key.  submit_task looks the key up, inserts the task and     *)
(* records the key in three statements; delete_task removes the key first    *)
(* and the task last.  In between the task of the thread has a row and no    *)
(* key, and then no task has the key.                                        *)

Owned(s, t) ==
  StateOf(s, t) # "absent" /\ KeyOf[t] # NoKey => s.idem[KeyOf[t]] = t

Truthful(s) ==
  \A k \in Keys : s.idem[k] # NoTask
    => s.idem[k] \in Tasks /\ StateOf(s, s.idem[k]) # "absent"
         /\ KeyOf[s.idem[k]] = k

Unkeyed == {"submit_idem", "x_result", "x_queue", "x_audit", "x_task"}

KeyFree(s, t) == KeyOf[t] # NoKey => s.idem[KeyOf[t]] = NoTask

KeyOK(l, s) ==
  /\ Truthful(s)
  /\ \A t \in Tasks : Owned(s, t) \/ (t = l.task /\ l.pc \in Unkeyed)
  /\ l.pc \in Unkeyed \cup {"submit_create"} => KeyFree(s, l.task)
  /\ l.pc \in {"submit_idem", "x_idem"} => StateOf(s, l.task) # "absent"

KeyInv ==
  /\ Truthful(disk) /\ \A t \in Tasks : Owned(disk, t)
  /\ \A w \in Threads : KeyOK(thread[w], db)

LEMMA KeyOfTask ==
  ASSUME NEW t \in Tasks, KeyOf[t] # NoKey
  PROVE  KeyOf[t] \in Keys
BY ServiceAssumption

SamePresence(s, s2, t) == StateOf(s2, t) = "absent" <=> StateOf(s, t) = "absent"

\* A step that neither records a key nor inserts or deletes a task.
Keyless(l, m) ==
  /\ l.pc \notin Unkeyed
  /\ m.pc \notin Unkeyed \cup {"submit_create", "x_idem"}
  /\ \A k \in Keys : db'.idem[k] = db.idem[k]
  /\ \A u \in Tasks : SamePresence(db, db', u)
  /\ disk' = disk \/ disk' = db'

LEMMA KeysKept ==
  ASSUME NEW s, NEW s2,
         \A k \in Keys : s2.idem[k] = s.idem[k],
         \A u \in Tasks : SamePresence(s, s2, u)
  PROVE  /\ \A t \in Tasks : Owned(s, t) => Owned(s2, t)
         /\ Truthful(s) => Truthful(s2)
BY KeyOfTask DEF SamePresence, Owned, Truthful

LEMMA KeylessKeeps ==
  ASSUME NEW w, Threads = {w}, KeyInv, Keyless(thread[w], thread'[w])
  PROVE  KeyInv'
<1>1. Truthful(db) /\ \A t \in Tasks : Owned(db, t)
  BY DEF KeyInv, KeyOK, Keyless
<1>2. Truthful(db') /\ \A t \in Tasks : Owned(db', t)
  BY <1>1, KeysKept DEF Keyless
<1>3. Truthful(disk') /\ \A t \in Tasks : Owned(disk', t)
  BY <1>2 DEF KeyInv, Keyless
<1> QED BY <1>2, <1>3 DEF KeyInv, KeyOK, Keyless, Unkeyed

LEMMA ReadKeyless ==
  ASSUME Read
  PROVE  /\ disk' = disk
         /\ \A k \in Keys : db'.idem[k] = db.idem[k]
         /\ \A u \in Tasks : SamePresence(db, db', u)
BY DEF Read, SamePresence

LEMMA SetsStateKeyless ==
  ASSUME NEW s, NEW s2, NEW t, NEW state \in States, SetsState(s, s2, t, state)
  PROVE  /\ \A k \in Keys : s2.idem[k] = s.idem[k]
         /\ \A u \in Tasks : SamePresence(s, s2, u)
BY DEF SetsState, Apart, SameRows, SameState, SamePresence, States

LEMMA SetsRowKeyless ==
  ASSUME NEW s, NEW s2, NEW t, NEW status, NEW worker, NEW attempts,
         SetsRow(s, s2, t, status, worker, attempts)
  PROVE  /\ \A k \in Keys : s2.idem[k] = s.idem[k]
         /\ \A u \in Tasks : SamePresence(s, s2, u)
BY DEF SetsRow, Apart, SameRows, SameState, SamePresence

LEMMA OneTaskKeyless ==
  ASSUME NEW s, NEW s2, NEW t, Apart(s, s2, t), SameState(s, s2, t),
         s2.idem = s.idem
  PROVE  /\ \A k \in Keys : s2.idem[k] = s.idem[k]
         /\ \A u \in Tasks : SamePresence(s, s2, u)
BY DEF Apart, SameRows, SameState, SamePresence

LEMMA RaisesKeyless ==
  ASSUME NEW l, NEW m, Raises(l, m) \/ Ended(m)
  PROVE  m.pc \notin Unkeyed \cup {"submit_create", "x_idem"}
BY DEF Raises, Caught, Ended, Unkeyed

LEMMA TransactKeyless ==
  ASSUME NEW l \in Locals, NEW m, NEW t, NEW actor, TransactDoes(l, m, t, actor),
         InTransition(l), l.target \in States
  PROVE  Keyless(l, m)
<1>1. CASE l.pc = "t_read"
  BY <1>1, ReadKeyless, RaisesKeyless DEF TransactDoes, Goes, Keyless, Unkeyed
<1>2. CASE l.pc = "t_write"
  BY <1>2, SetsStateKeyless DEF TransactDoes, Goes, Keyless, Unkeyed
<1>3. CASE l.pc = "t_commit"
  <2>1. m.pc \in Continuations \cup {"t_read"}
    BY <1>3 DEF TransactDoes, Returns, Calls, Goes, Locals, Continuations
  <2> QED BY <1>3, <2>1, OneTaskKeyless
          DEF TransactDoes, Adds, Keyless, Unkeyed, Continuations
<1> QED BY <1>1, <1>2, <1>3 DEF InTransition

LEMMA ProcessKeyless ==
  ASSUME NEW l, NEW m, NEW t, ProcessDoes(l, m, t),
         l.pc \in {"pq_read", "claim_read", "claim_write", "e_dead", "e_state",
                   "e_retry"}
  PROVE  Keyless(l, m)
<1>1. CASE l.pc \in {"pq_read", "claim_read"}
  BY <1>1, ReadKeyless DEF ProcessDoes, Ended, Goes, Keyless, Unkeyed
<1>2. CASE l.pc \in {"claim_write", "e_dead", "e_retry"}
  <2>1. /\ \A k \in Keys : db'.idem[k] = db.idem[k]
        /\ \A u \in Tasks : SamePresence(db, db', u)
    BY <1>2, SetsRowKeyless DEF ProcessDoes
  <2> QED BY <1>2, <2>1 DEF ProcessDoes, Ended, Goes, Calls, Keyless, Unkeyed
<1>3. CASE l.pc = "e_state"
  BY <1>3, SetsStateKeyless DEF ProcessDoes, Goes, Keyless, Unkeyed, States
<1> QED BY <1>1, <1>2, <1>3

LEMMA DispatchKeyless ==
  ASSUME NEW l, NEW m, NEW t, DispatchDoes(l, m, t),
         l.pc \in {"d_read", "d_ready", "d_running", "d_dispatched", "d_submit",
                   "d_wait"}
  PROVE  Keyless(l, m)
<1>1. CASE l.pc \in {"d_running", "d_dispatched"}
  <2>1. /\ \A k \in Keys : db'.idem[k] = db.idem[k]
        /\ \A u \in Tasks : SamePresence(db, db', u)
    BY <1>1, SetsRowKeyless DEF DispatchDoes
  <2> QED BY <1>1, <2>1 DEF DispatchDoes, Goes, Keyless, Unkeyed
<1>2. CASE l.pc \in {"d_read", "d_ready", "d_submit", "d_wait"}
  BY <1>2, ReadKeyless, RaisesKeyless
     DEF DispatchDoes, Goes, Calls, Keyless, Unkeyed
<1> QED BY <1>1, <1>2

LEMMA ResultKeyless ==
  ASSUME NEW l, NEW m, NEW t, ResultDoes(l, m, t),
         l.pc \in {"r_read", "r_store", "r_commit", "r_file"}
  PROVE  Keyless(l, m)
<1>1. CASE l.pc \in {"r_read", "r_file"}
  BY <1>1, ReadKeyless DEF ResultDoes, Goes, Calls, Ended, Keyless, Unkeyed
<1>2. CASE l.pc = "r_store"
  BY <1>2, OneTaskKeyless DEF ResultDoes, Goes, Keyless, Unkeyed
<1>3. CASE l.pc = "r_commit"
  BY <1>3 DEF ResultDoes, Goes, Keyless, Unkeyed, SamePresence
<1> QED BY <1>1, <1>2, <1>3

LEMMA CancelKeyless ==
  ASSUME NEW l, NEW m, NEW t, CancelDoes(l, m, t),
         l.pc \in {"c_read", "c_state", "c_row"}
  PROVE  Keyless(l, m)
<1>1. CASE l.pc = "c_read"
  BY <1>1, ReadKeyless DEF CancelDoes, Goes, Ended, Keyless, Unkeyed
<1>2. CASE l.pc = "c_state"
  BY <1>2, SetsStateKeyless DEF CancelDoes, Goes, Keyless, Unkeyed, States
<1>3. CASE l.pc = "c_row"
  <2>1. PICK marked \in Store :
          /\ marked = db \/ SetsRow(db, marked, t, "cancelled",
                                    db.queue[t].worker, db.queue[t].attempts)
          /\ Adds(marked, db', t, {<<"task_cancelled", "client">>})
    BY <1>3 DEF CancelDoes
  <2>2. /\ \A k \in Keys : marked.idem[k] = db.idem[k]
        /\ \A u \in Tasks : SamePresence(db, marked, u)
    BY <2>1, SetsRowKeyless DEF SamePresence
  <2>3. /\ \A k \in Keys : db'.idem[k] = marked.idem[k]
        /\ \A u \in Tasks : SamePresence(marked, db', u)
    BY <2>1, OneTaskKeyless DEF Adds
  <2> QED BY <1>3, <2>2, <2>3 DEF CancelDoes, Goes, Keyless, Unkeyed, SamePresence
<1> QED BY <1>1, <1>2, <1>3

LEMMA OperateKeyless ==
  ASSUME NEW l, NEW m, NEW t, OperateDoes(l, m, t),
         l.pc \in {"to_list", "to_next", "rj_read", "rj_row", "rj_state", "ra_write"}
  PROVE  Keyless(l, m)
<1>1. CASE l.pc \in {"to_list", "rj_read"}
  BY <1>1, ReadKeyless DEF OperateDoes, Goes, Ended, Keyless, Unkeyed
<1>2. CASE l.pc = "to_next"
  BY <1>2, ReadKeyless, SetsRowKeyless
     DEF OperateDoes, Goes, Keyless, Unkeyed, Read
<1>3. CASE l.pc = "rj_row"
  <2>1. /\ \A k \in Keys : db'.idem[k] = db.idem[k]
        /\ \A u \in Tasks : SamePresence(db, db', u)
    BY <1>3, SetsRowKeyless DEF OperateDoes
  <2> QED BY <1>3, <2>1 DEF OperateDoes, Goes, Keyless, Unkeyed
<1>4. CASE l.pc \in {"rj_state", "ra_write"}
  BY <1>4, SetsStateKeyless DEF OperateDoes, Goes, Keyless, Unkeyed, States
<1> QED BY <1>1, <1>2, <1>3, <1>4
LEMMA SubmitKeys ==
  ASSUME NEW w, Threads = {w}, TypeInv, KeyInv,
         SubmitDoes(thread[w], thread'[w], Task(w)),
         thread[w].pc \in {"submit_lookup", "submit_create", "submit_idem",
                           "enqueue_row"}
  PROVE  KeyInv'
<1> DEFINE l == thread[w]
           m == thread'[w]
           t == Task(w)
<1>0. /\ w \in Threads /\ l.task = t /\ t \in Tasks /\ KeyOK(l, db)
      /\ Truthful(disk) /\ \A u \in Tasks : Owned(disk, u)
      /\ l.pc \in {"submit_lookup", "submit_idem"} => KeyOf[t] \in Keys
  BY Serving DEF Task, KeyInv, ThreadOK
<1>1. CASE l.pc = "submit_lookup"
  <2>1. Read /\ Truthful(db) /\ \A u \in Tasks : Owned(db, u)
    BY <1>0, <1>1 DEF SubmitDoes, KeyOK, Unkeyed
  <2>2. CASE m.pc = "return"
    BY <1>0, <1>1, <2>1, <2>2, ReadKeyless, KeylessKeeps DEF Keyless, Unkeyed
  <2>3. CASE Goes(l, m, "submit_create")
    <3>1. KeyFree(db, t)
      BY <1>0, <1>1, <2>1, <2>3
         DEF SubmitDoes, Goes, Truthful, HasTask, NoTaskRow, StateOf, KeyFree
    <3> QED BY <1>0, <2>1, <2>3, <3>1
            DEF KeyInv, KeyOK, Goes, Same, Read, Unkeyed
  <2> QED BY <1>1, <2>2, <2>3 DEF SubmitDoes
<1>2. CASE l.pc = "submit_create"
  <2>1. /\ Truthful(db) /\ \A u \in Tasks : Owned(db, u)
        /\ KeyFree(db, t) /\ disk' = disk
    BY <1>0, <1>2 DEF SubmitDoes, KeyOK, Unkeyed
  <2>2. CASE db' = db /\ Ended(m)
    BY <1>2, <2>1, <2>2, ReadKeyless, RaisesKeyless, KeylessKeeps
       DEF Keyless, Read, Unkeyed
  <2>3. CASE Creates(l, m, t)
    <3>1. /\ db'.idem = db.idem /\ StateOf(db', t) = "received"
          /\ StateOf(db, t) = "absent" /\ m.task = t
          /\ \A u \in Tasks : u # t => StateOf(db', u) = StateOf(db, u)
      BY <1>0, <2>3 DEF Creates, Apart, SameRows, SameState
    <3>2. Truthful(db')
      BY <2>1, <3>1 DEF Truthful
    <3>3. \A u \in Tasks : u # t => Owned(db', u)
      BY <2>1, <3>1 DEF Owned
    <3>4. KeyFree(db', t)
      BY <2>1, <3>1 DEF KeyFree
    <3>5. CASE KeyOf[t] = NoKey /\ m.pc = "t_read"
      BY <1>0, <2>1, <3>1, <3>2, <3>3, <3>5 DEF KeyInv, KeyOK, Owned, Unkeyed
    <3>6. CASE m.pc = "submit_idem"
      BY <1>0, <2>1, <3>1, <3>2, <3>3, <3>4, <3>6 DEF KeyInv, KeyOK, Unkeyed
    <3> QED BY <2>3, <3>5, <3>6 DEF Creates
  <2> QED BY <1>2, <2>2, <2>3 DEF SubmitDoes
<1>3. CASE l.pc = "submit_idem"
  <2>1. /\ Truthful(db) /\ \A u \in Tasks : u # t => Owned(db, u)
        /\ db.idem[KeyOf[t]] = NoTask /\ KeyOf[t] \in Keys
        /\ StateOf(db, t) # "absent" /\ disk' = disk
    BY <1>0, <1>3, ServiceAssumption DEF SubmitDoes, KeyOK, Unkeyed, KeyFree
  <2>2. /\ Calls(l, m, "validating", "submit_validated")
        /\ db'.idem = [db.idem EXCEPT ![KeyOf[t]] = t]
        /\ Apart(db, db', t) /\ SameState(db, db', t)
    BY <1>3, <2>1 DEF SubmitDoes
  <2>3. /\ db'.idem[KeyOf[t]] = t
        /\ \A k \in Keys : k # KeyOf[t] => db'.idem[k] = db.idem[k]
        /\ \A u \in Tasks : StateOf(db', u) = StateOf(db, u)
    <3>1. db.idem \in [Keys -> Tasks \cup {NoTask}]
      BY StoreTyped DEF Store
    <3> QED BY <2>1, <2>2, <3>1 DEF Apart, SameRows, SameState
  <2>4. Truthful(db')
    BY <1>0, <2>1, <2>3 DEF Truthful
  <2>5. ASSUME NEW u \in Tasks
        PROVE  Owned(db', u)
    <3>1. CASE u = t
      BY <2>3, <3>1 DEF Owned
    <3>2. CASE u # t /\ KeyOf[u] # NoKey /\ StateOf(db', u) # "absent"
      <4>1. KeyOf[u] \in Keys /\ db.idem[KeyOf[u]] = u
        BY <2>1, <2>3, <3>2, KeyOfTask DEF Owned
      <4> QED BY <2>1, <2>3, <4>1, StoreAssumption DEF Owned
    <3> QED BY <3>1, <3>2 DEF Owned
  <2> QED BY <1>0, <2>1, <2>2, <2>4, <2>5 DEF KeyInv, KeyOK, Calls, Unkeyed
<1>4. CASE l.pc = "enqueue_row"
  <2>1. PICK row : PutsRow(db, db', t, row)
    BY <1>4 DEF SubmitDoes
  <2>2. Keyless(l, m)
    BY <1>4, <2>1, OneTaskKeyless DEF SubmitDoes, PutsRow, Goes, Keyless, Unkeyed
  <2> QED BY <2>2, KeylessKeeps
<1> QED BY <1>1, <1>2, <1>3, <1>4

\* The key of a task nobody else has is free once its record is deleted.
LEMMA DeleteKeys ==
  ASSUME NEW w, Threads = {w}, TypeInv, KeyInv,
         DeleteDoes(thread[w], thread'[w], Task(w)),
         thread[w].pc \in {"x_read", "x_idem", "x_result", "x_queue", "x_audit",
                           "x_task", "x_files"}
  PROVE  KeyInv'
<1> DEFINE l == thread[w]
           m == thread'[w]
           t == Task(w)
<1>0. /\ w \in Threads /\ l.task = t /\ t \in Tasks /\ KeyOK(l, db)
      /\ Truthful(disk) /\ \A u \in Tasks : Owned(disk, u)
  BY Serving DEF Task, KeyInv
<1>1. CASE l.pc = "x_read"
  <2>1. CASE Ended(m)
    BY <1>1, <2>1, ReadKeyless, RaisesKeyless, KeylessKeeps
       DEF DeleteDoes, Keyless, Unkeyed
  <2>2. CASE Goes(l, m, "x_idem") /\ StateOf(db, t) # "absent"
    BY <1>0, <1>1, <2>2
       DEF DeleteDoes, KeyInv, KeyOK, Goes, Same, Read, Unkeyed
  <2> QED BY <1>1, <2>1, <2>2 DEF DeleteDoes
<1>2. CASE l.pc = "x_idem"
  <2>1. /\ Truthful(db) /\ \A u \in Tasks : Owned(db, u)
        /\ StateOf(db, t) # "absent"
    BY <1>0, <1>2 DEF KeyOK, Unkeyed
  <2>2. /\ disk' = disk /\ Goes(l, m, "x_result")
        /\ \A k \in Keys :
             db'.idem[k] = IF db.idem[k] = t THEN NoTask ELSE db.idem[k]
        /\ \A u \in Tasks : StateOf(db', u) = StateOf(db, u)
    BY <1>2 DEF DeleteDoes, Apart, SameRows, SameState
  <2>3. Truthful(db')
    BY <2>1, <2>2 DEF Truthful
  <2>4. \A u \in Tasks : u # t => Owned(db', u)
    BY <2>1, <2>2, KeyOfTask DEF Owned
  <2>5. KeyFree(db', t)
    BY <1>0, <2>1, <2>2, KeyOfTask DEF Owned, KeyFree
  <2> QED BY <1>0, <2>2, <2>3, <2>4, <2>5 DEF KeyInv, KeyOK, Goes, Same, Unkeyed
<1>3. CASE l.pc \in {"x_result", "x_queue", "x_audit"}
  <2>1. /\ Truthful(db) /\ \A u \in Tasks : u # t => Owned(db, u)
        /\ KeyFree(db, t)
    BY <1>0, <1>3 DEF KeyOK, Unkeyed
  <2>2. /\ disk' = disk /\ db'.idem = db.idem
        /\ Apart(db, db', t) /\ SameState(db, db', t)
        /\ \E pc \in {"x_queue", "x_audit", "x_task"} : Goes(l, m, pc)
    BY <1>3 DEF DeleteDoes, PutsRow
  <2>3. /\ Truthful(db') /\ \A u \in Tasks : u # t => Owned(db', u)
        /\ KeyFree(db', t)
    <3>1. \A u \in Tasks : StateOf(db', u) = StateOf(db, u)
      BY <2>2 DEF Apart, SameRows, SameState
    <3> QED BY <2>1, <2>2, <3>1 DEF Truthful, Owned, KeyFree
  <2> QED BY <1>0, <2>2, <2>3 DEF KeyInv, KeyOK, Goes, Same, Unkeyed
<1>4. CASE l.pc = "x_task"
  <2>1. /\ Truthful(db) /\ \A u \in Tasks : u # t => Owned(db, u)
        /\ KeyFree(db, t)
    BY <1>0, <1>4 DEF KeyOK, Unkeyed
  <2>2. /\ disk' = db' /\ db'.idem = db.idem /\ Goes(l, m, "x_files")
        /\ StateOf(db', t) = "absent"
        /\ \A u \in Tasks : u # t => StateOf(db', u) = StateOf(db, u)
    BY <1>4 DEF DeleteDoes, Apart, SameRows, SameState
  <2>3. \A k \in Keys : db.idem[k] # t
    BY <1>0, <2>1, ServiceAssumption, StoreAssumption DEF Truthful, KeyFree
  <2>4. Truthful(db')
    BY <2>1, <2>2, <2>3 DEF Truthful
  <2>5. \A u \in Tasks : Owned(db', u)
    BY <2>1, <2>2 DEF Owned
  <2> QED BY <2>2, <2>4, <2>5 DEF KeyInv, KeyOK, Goes, Unkeyed
<1>5. CASE l.pc = "x_files"
  BY <1>5, ReadKeyless, KeylessKeeps DEF DeleteDoes, Goes, Keyless, Unkeyed
<1> QED BY <1>1, <1>2, <1>3, <1>4, <1>5

LEMMA KeyInit ==
  ASSUME Init
  PROVE  KeyInv
BY DEF Init, EmptyStore, NoTaskRow, Idle, KeyInv, KeyOK, Truthful, Owned, StateOf,
       Unkeyed

LEMMA KeyStep ==
  ASSUME NEW w, Threads = {w}, TypeInv, KeyInv, [Next]_vars
  PROVE  KeyInv'
<1> DEFINE l == thread[w]
           m == thread'[w]
           t == Task(w)
<1>1. CASE Does(w)
  <2>1. l.pc \in PCs /\ l \in Locals /\ ThreadOK(l)
    BY DEF TypeInv, TypeOK, Locals
  <2>2. CASE l.pc = "return"
    BY <1>1, <2>2, ReadKeyless, RaisesKeyless, KeylessKeeps
       DEF Does, Keyless, Unkeyed
  <2>3. CASE l.pc = "idle"
    <3>1. /\ Read /\ Truthful(db) /\ \A u \in Tasks : Owned(db, u)
          /\ Starts(m)
      BY <1>1, <2>3 DEF Does, KeyInv, KeyOK, Unkeyed
    <3> QED BY <3>1 DEF KeyInv, KeyOK, Read, Starts, Unkeyed, KeyFree
  <2>4. CASE l.pc \in {"submit_lookup", "submit_create", "submit_idem",
                       "enqueue_row"}
    BY <1>1, <2>4, SubmitKeys DEF Does
  <2>5. CASE l.pc \in {"x_read", "x_idem", "x_result", "x_queue", "x_audit",
                       "x_task", "x_files"}
    BY <1>1, <2>5, DeleteKeys DEF Does
  <2>6. CASE l.pc \notin {"return", "idle", "submit_lookup", "submit_create",
                          "submit_idem", "enqueue_row", "x_read", "x_idem",
                          "x_result", "x_queue", "x_audit", "x_task", "x_files"}
    <3>1. Keyless(l, m)
      BY <1>1, <2>1, <2>6, TransactKeyless, ProcessKeyless, DispatchKeyless,
         ResultKeyless, CancelKeyless, OperateKeyless
         DEF Does, PCs, InTransition, ThreadOK
    <3> QED BY <3>1, KeylessKeeps
  <2> QED BY <2>2, <2>3, <2>4, <2>5, <2>6
<1>2. CASE db' = disk /\ disk' = disk /\ thread'[w] = Idle
  BY <1>2 DEF Idle, KeyInv, KeyOK, Unkeyed
<1>3. CASE UNCHANGED <<db, disk, thread>>
  BY <1>3 DEF KeyInv, KeyOK, Truthful, Owned, KeyFree, StateOf, Unkeyed
<1> QED BY <1>1, <1>2, <1>3, OneThreadDoes

\* Two submissions with one key never leave two tasks, for any number of tasks
\* and keys, any operations and any number of crashes: a key is lost only with
\* its task, and submit_task inserts a task only while no task has its key
\* (service.py:34-39, 50, 75, 414-420).
THEOREM OneTaskPerKeyHolds ==
  ASSUME NEW w, Threads = {w}
  PROVE  Spec => []OneTaskPerKey
<1>1. Init => TypeInv /\ KeyInv
  BY InitType, KeyInit
<1>2. TypeInv /\ KeyInv /\ [Next]_vars => (TypeInv /\ KeyInv)'
  BY NextType, KeyStep
<1>3. TypeInv /\ KeyInv => OneTaskPerKey
  <2> SUFFICES ASSUME TypeInv, KeyInv, NEW t \in Tasks, NEW u \in Tasks, t # u,
                      KeyOf[t] = KeyOf[u], KeyOf[t] # NoKey,
                      HasTask(db, t), HasTask(db, u)
               PROVE  FALSE
    BY DEF OneTaskPerKey
  <2>1. StateOf(db, t) # "absent" /\ StateOf(db, u) # "absent"
    BY StoreTyped, NoRow
  <2>2. KeyOK(thread[w], db)
    BY DEF KeyInv
  <2> QED BY <2>1, <2>2, StoreAssumption DEF KeyOK, Owned, KeyFree
<1> QED BY <1>1, <1>2, <1>3, PTL DEF Spec
-----------------------------------------------------------------------------
(* Answered submissions.  The first transition of a submission commits its   *)
(* row and its key; until then nobody else is told of the task, for a key    *)
(* names a task that is on disk or the one being submitted.                  *)

Submitting(l) == InTransition(l) /\ l.then = "submit_validated"

\* The row of a submission may not be on disk yet.
Unsaved(l) ==
  l.pc \in {"submit_lookup", "submit_create", "submit_idem"} \/ Submitting(l)

Deleting == {"x_read", "x_idem", "x_result", "x_queue", "x_audit", "x_task",
             "x_files"}

\* s is what the connection sees, d what is on disk.
SavedOK(l, s, d) ==
  /\ l.op = "submit" /\ ~Unsaved(l) => StateOf(d, l.task) # "absent"
  /\ Unsaved(l) => l.op = "submit"
  /\ l.pc = "submit_idem" => StateOf(s, l.task) = "received"
  /\ Submitting(l) =>
       /\ l.target = "validating"
       /\ StateOf(s, l.task) = IF l.pc = "t_commit" THEN "validating" ELSE "received"
  /\ l.pc \in Deleting => l.op = "delete"
  /\ \A k \in Keys : s.idem[k] # NoTask =>
       \/ StateOf(d, s.idem[k]) # "absent"
       \/ s.idem[k] = l.task /\ Submitting(l)

\* A row goes from the tables only with the commit of its delete.
Outlives(s, d) ==
  \A t \in Tasks : StateOf(d, t) # "absent" => StateOf(s, t) # "absent"

Answered(a, d) ==
  \A t \in Tasks : "submit" \in a[t] => StateOf(d, t) # "absent"

SavedInv ==
  /\ Outlives(db, disk) /\ Answered(acked, disk)
  /\ \A w \in Threads : SavedOK(thread[w], db, disk)

\* What is told to clients: a submission is answered at its end, and a delete
\* takes the answer back with the task.
LEMMA AckedDoes ==
  ASSUME TypeInv, NEW w \in Threads, Request(w) \/ Serve(w), NEW t \in Tasks,
         "submit" \in acked'[t]
  PROVE  \/ "submit" \in acked[t] /\ ~(At(w, "x_task") /\ t = Task(w))
         \/ At(w, "return") /\ thread[w].op = "submit" /\ t = Task(w)
<1>0. acked \in [Tasks -> SUBSET {"submit", "cancel"}]
  BY DEF TypeInv, TypeOK
<1>1. CASE Return(w)
  BY <1>0, <1>1 DEF Return, At, Task
<1>2. CASE DeleteTask(w)
  BY <1>0, <1>2 DEF DeleteTask, At, Task
<1>3. CASE acked' = acked /\ ~At(w, "x_task")
  BY <1>3
<1>4. Request(w) => acked' = acked /\ ~At(w, "x_task")
  BY DEF Request, RequestSubmit, RequestApprove, RequestReject, RequestCancel,
         RequestResult, RequestProcess, RequestTimeouts, RequestRecoverJob,
         RequestRecoverApproval, RequestDelete, Start, At, Outside
<1>5. Transact(w) \/ Submit(w) => acked' = acked /\ ~At(w, "x_task")
  BY DEF Transact, TransitionRead, TransitionWrite, TransitionCommit, Submit,
         SubmitLookup, SubmitCreate, SubmitIdempotency, EnqueueTask, At, Outside
<1>6. Process(w) \/ Dispatch(w) => acked' = acked /\ ~At(w, "x_task")
  BY DEF Process, ProcessRead, ClaimRead, ClaimWrite, DeadLetter, RetryState,
         RetryRow, Dispatch, DispatchRead, DispatchReady, Ready, DispatchRunning,
         DispatchDispatched, SubmitReceived, SubmitFails, SubmitRefused,
         SubmitAnswered, SubmitBroken, At, Outside
<1>7. RecordResult(w) \/ Cancel(w) => acked' = acked /\ ~At(w, "x_task")
  BY DEF RecordResult, ResultRead, ResultStore, ResultCommit, ResultFile, Cancel,
         CancelRead, CancelState, CancelRow, At, Outside
<1>8. Operate(w) /\ ~DeleteTask(w) => acked' = acked /\ ~At(w, "x_task")
  BY DEF Operate, TimeoutsList, TimeoutsNext, RecoverJobRead, RecoverJobRow,
         RecoverJobState, RecoverApproval, DeleteRead, DeleteData,
         DeleteStatement, DeleteFiles, At, Outside
<1> QED BY <1>1, <1>2, <1>3, <1>4, <1>5, <1>6, <1>7, <1>8 DEF Serve

\* A step outside the submission and the delete of a task: the thread stays with
\* its task, or its request ends.
Steady(l, m) ==
  /\ ~Unsaved(m) /\ m.pc \notin Deleting
  /\ m.op = "submit" => l.op = "submit" /\ m.task = l.task

\* A step of the first transition.
Saving(l, m) ==
  /\ l.pc \in {"t_read", "t_write"} /\ m.pc \in {"t_write", "t_commit"}
  /\ Submitting(m) /\ m.op = l.op /\ m.task = l.task /\ m.target = l.target
  /\ StateOf(db', m.task)
       = IF m.pc = "t_commit" THEN "validating" ELSE "received"

LEMMA RaisesSteady ==
  ASSUME NEW l, NEW m, Raises(l, m) \/ Ended(m)
  PROVE  Steady(l, m)
BY DEF Raises, Caught, Ended, Steady, Unsaved, Submitting, InTransition, Deleting

LEMMA TransactSaves ==
  ASSUME NEW l \in Locals, NEW m, NEW t, NEW actor, TransactDoes(l, m, t, actor),
         InTransition(l), l.task = t, SavedOK(l, db, disk)
  PROVE  \/ Saving(l, m) /\ Submitting(l)
         \/ Steady(l, m) /\ (Submitting(l) => l.pc = "t_commit")
<1>1. CASE l.pc = "t_read"
  <2>1. CASE CanTransition(StateOf(db, t), l.target)
    BY <1>1, <2>1
       DEF TransactDoes, Read, Goes, Same, SavedOK, Saving, Steady, Unsaved,
           Submitting, InTransition, Deleting
  <2>2. CASE ~CanTransition(StateOf(db, t), l.target)
    <3>1. CanTransition("received", "validating")
      BY DEF CanTransition, AllowedTransitions, States
    <3>2. ~Submitting(l)
      BY <1>1, <2>2, <3>1 DEF SavedOK
    <3> QED BY <1>1, <2>2, <3>2, RaisesSteady DEF TransactDoes
  <2> QED BY <2>1, <2>2
<1>2. CASE l.pc = "t_write"
  <2>1. Goes(l, m, "t_commit")
    BY <1>2 DEF TransactDoes
  <2>2. Submitting(l) => StateOf(db', t) = "validating"
    BY <1>2 DEF TransactDoes, SetsState, SavedOK
  <2> QED BY <1>2, <2>1, <2>2
          DEF Goes, Same, SavedOK, Saving, Steady, Unsaved, Submitting,
              InTransition, Deleting
<1>3. CASE l.pc = "t_commit"
  <2>1. Returns(l, m) /\ l.then \in Continuations
    BY <1>3 DEF TransactDoes, Locals
  <2>2. Steady(l, m)
    BY <2>1 DEF Returns, Calls, Goes, Same, Steady, Unsaved, Submitting,
                InTransition, Deleting, Continuations
  <2> QED BY <1>3, <2>2
<1> QED BY <1>1, <1>2, <1>3 DEF InTransition

LEMMA ProcessSteady ==
  ASSUME NEW l, NEW m, NEW t, ProcessDoes(l, m, t),
         l.pc \in {"pq_read", "claim_read", "claim_write", "e_dead", "e_state",
                   "e_retry"}
  PROVE  Steady(l, m)
<1> USE DEF Steady, Unsaved, Submitting, InTransition, Deleting
<1>1. CASE l.pc \in {"pq_read", "claim_read"}
  BY <1>1 DEF ProcessDoes, Ended, Goes, Same
<1>2. CASE l.pc \in {"claim_write", "e_dead", "e_state", "e_retry"}
  BY <1>2 DEF ProcessDoes, Ended, Goes, Calls, Same
<1> QED BY <1>1, <1>2

LEMMA DispatchSteady ==
  ASSUME NEW l, NEW m, NEW t, DispatchDoes(l, m, t),
         l.pc \in {"d_read", "d_ready", "d_running", "d_dispatched", "d_submit",
                   "d_wait"}
  PROVE  Steady(l, m)
<1>1. CASE Raises(l, m)
  BY <1>1, RaisesSteady
<1>2. CASE ~Raises(l, m)
  BY <1>2 DEF DispatchDoes, Goes, Calls, Same, Steady, Unsaved, Submitting,
              InTransition, Deleting
<1> QED BY <1>1, <1>2

LEMMA OtherSteady ==
  ASSUME NEW l, NEW m, NEW t, ResultDoes(l, m, t), CancelDoes(l, m, t),
         OperateDoes(l, m, t), l.pc \in {"to_list", "to_next"} => l.op = "timeouts",
         l.pc \in {"r_read", "r_store", "r_commit", "r_file", "c_read", "c_state",
                   "c_row", "to_list", "to_next", "rj_read", "rj_row", "rj_state",
                   "ra_write"}
  PROVE  Steady(l, m)
<1> USE DEF Steady, Unsaved, Submitting, InTransition, Deleting
<1>1. CASE l.pc \in {"r_read", "r_store", "r_commit", "r_file"}
  BY <1>1 DEF ResultDoes, Ended, Goes, Calls, Same
<1>2. CASE l.pc \in {"c_read", "c_state", "c_row"}
  BY <1>2 DEF CancelDoes, Ended, Goes, Same
<1>3. CASE l.pc \in {"to_list", "to_next"}
  BY <1>3 DEF OperateDoes, Goes, Same
<1>4. CASE l.pc \in {"rj_read", "rj_row", "rj_state", "ra_write"}
  BY <1>4 DEF OperateDoes, Ended, Goes, Same
<1> QED BY <1>1, <1>2, <1>3, <1>4

\* A step that inserts and deletes no row and records no key.
LEMMA KeylessSaves ==
  ASSUME NEW w, Threads = {w}, TypeInv, KeyInv', SavedInv, Request(w) \/ Serve(w),
         Keyless(thread[w], thread'[w]), thread[w].pc # "idle",
         \/ Saving(thread[w], thread'[w]) /\ Submitting(thread[w])
         \/ Steady(thread[w], thread'[w])
            /\ (Unsaved(thread[w]) => thread[w].pc = "t_commit" /\ disk' = db')
  PROVE  SavedInv'
<1> DEFINE l == thread[w]
           m == thread'[w]
<1>0. /\ w \in Threads /\ SavedOK(l, db, disk)
      /\ l.op = "submit" => l.task \in Tasks
  BY LocalsTyped DEF SavedInv, ThreadOK, NamesTask
<1>1. Outlives(db', disk')
  BY DEF SavedInv, Outlives, Keyless, SamePresence
<1>2. \A t \in Tasks : StateOf(disk, t) # "absent" => StateOf(disk', t) # "absent"
  BY DEF SavedInv, Outlives, Keyless, SamePresence
<1>3. l.pc # "x_task"
  BY DEF Keyless, Unkeyed
<1>4. Answered(acked', disk')
  <2> SUFFICES ASSUME NEW t \in Tasks, "submit" \in acked'[t]
               PROVE  StateOf(disk', t) # "absent"
    BY DEF Answered
  <2>1. CASE "submit" \in acked[t]
    BY <1>2, <2>1 DEF SavedInv, Answered
  <2>2. CASE At(w, "return") /\ l.op = "submit" /\ t = Task(w)
    BY <1>0, <1>2, <2>2
       DEF SavedOK, Unsaved, Submitting, InTransition, At, Task
  <2> QED BY <1>0, <2>1, <2>2, AckedDoes
<1>5. ASSUME m.op = "submit", ~Unsaved(m)
      PROVE  StateOf(disk', m.task) # "absent"
  <2>1. /\ Steady(l, m) /\ l.op = "submit" /\ m.task = l.task
        /\ Unsaved(l) => l.pc = "t_commit" /\ disk' = db'
    BY <1>5 DEF Saving, Steady, Unsaved
  <2>2. CASE ~Unsaved(l)
    BY <1>0, <1>2, <2>1, <2>2 DEF SavedOK
  <2>3. CASE Unsaved(l)
    <3>1. StateOf(db, l.task) # "absent"
      BY <1>0, <2>1, <2>3 DEF SavedOK, Unsaved
    <3> QED BY <1>0, <2>1, <2>3, <3>1 DEF Keyless, SamePresence
  <2> QED BY <2>2, <2>3
<1>6. /\ Unsaved(m) => m.op = "submit"
      /\ m.pc # "submit_idem"
      /\ Submitting(m) =>
           /\ m.target = "validating"
           /\ StateOf(db', m.task)
                = IF m.pc = "t_commit" THEN "validating" ELSE "received"
      /\ m.pc \in Deleting => m.op = "delete"
  BY <1>0 DEF SavedOK, Saving, Steady, Unsaved, Submitting, InTransition, Deleting
<1>7. ASSUME NEW k \in Keys, db'.idem[k] # NoTask
      PROVE  \/ StateOf(disk', db'.idem[k]) # "absent"
             \/ db'.idem[k] = m.task /\ Submitting(m)
  <2> DEFINE u == db'.idem[k]
  <2>1. u \in Tasks /\ StateOf(db', u) # "absent" /\ u = db.idem[k]
    BY <1>0, <1>7 DEF KeyInv, KeyOK, Truthful, Keyless
  <2>2. CASE disk' = db'
    BY <2>1, <2>2
  <2>3. CASE StateOf(disk, u) # "absent"
    BY <1>2, <2>1, <2>3
  <2>4. CASE disk' # db' /\ u = l.task /\ Submitting(l)
    BY <2>4 DEF Unsaved, Saving
  <2> QED BY <1>0, <1>7, <2>1, <2>2, <2>3, <2>4 DEF SavedOK
<1>8. SavedOK(m, db', disk')
  BY <1>5, <1>6, <1>7 DEF SavedOK
<1> QED BY <1>1, <1>4, <1>8 DEF SavedInv

\* The submission up to its first transition.
LEMMA SubmitSaves ==
  ASSUME NEW w, Threads = {w}, TypeInv, KeyInv, SavedInv, Request(w) \/ Serve(w),
         SubmitDoes(thread[w], thread'[w], Task(w)),
         thread[w].pc \in {"submit_lookup", "submit_create", "submit_idem"}
  PROVE  SavedInv'
<1> DEFINE l == thread[w]
           m == thread'[w]
           t == Task(w)
<1>0. /\ w \in Threads /\ l.task = t /\ t \in Tasks /\ disk' = disk
      /\ SavedOK(l, db, disk) /\ Outlives(db, disk) /\ Answered(acked, disk)
      /\ l.op = "submit" /\ ~Submitting(l)
      /\ l.pc \in {"submit_lookup", "submit_idem"} => KeyOf[t] \in Keys
  BY Serving DEF Task, SavedInv, SavedOK, Unsaved, Submitting, InTransition,
                 ThreadOK, SubmitDoes, Read
<1>1. Answered(acked', disk')
  BY <1>0, AckedDoes DEF Answered, At
<1>2. CASE Ended(m) /\ db' = db
  BY <1>0, <1>1, <1>2
     DEF Ended, SavedInv, SavedOK, Unsaved, Submitting, InTransition, Deleting
<1>3. CASE l.pc = "submit_lookup"
  <2>1. Read
    BY <1>3 DEF SubmitDoes
  <2>2. CASE /\ m.pc = "return" /\ m.op = l.op
             /\ m.task = db.idem[KeyOf[t]] /\ m.task # NoTask
    <3>1. StateOf(disk, m.task) # "absent"
      BY <1>0, <1>3, <2>2 DEF SavedOK
    <3> QED BY <1>0, <1>1, <2>1, <2>2, <3>1
            DEF Read, SavedInv, SavedOK, Unsaved, Submitting, InTransition, Deleting
  <2>3. CASE Goes(l, m, "submit_create")
    BY <1>0, <1>1, <2>1, <2>3
       DEF Read, Goes, Same, SavedInv, SavedOK, Unsaved, Submitting, InTransition,
           Deleting
  <2> QED BY <1>3, <2>2, <2>3 DEF SubmitDoes
<1>4. CASE l.pc = "submit_create" /\ Creates(l, m, t)
  <2>1. /\ db'.idem = db.idem /\ StateOf(db', t) = "received"
        /\ \A u \in Tasks : u # t => StateOf(db', u) = StateOf(db, u)
        /\ m.op = "submit" /\ m.task = t
        /\ \/ m.pc = "t_read" /\ m.target = "validating"
                /\ m.then = "submit_validated"
           \/ m.pc = "submit_idem"
    BY <1>0, <1>4 DEF Creates, Apart, SameRows, SameState
  <2>2. Outlives(db', disk')
    BY <1>0, <2>1 DEF Outlives
  <2>3. SavedOK(m, db', disk')
    BY <1>0, <2>1 DEF SavedOK, Unsaved, Submitting, InTransition, Deleting
  <2> QED BY <1>0, <1>1, <2>2, <2>3 DEF SavedInv
<1>5. CASE l.pc = "submit_idem" /\ ~(Ended(m) /\ db' = db)
  <2>1. /\ Calls(l, m, "validating", "submit_validated")
        /\ db'.idem = [db.idem EXCEPT ![KeyOf[t]] = t]
        /\ \A u \in Tasks : StateOf(db', u) = StateOf(db, u)
    BY <1>5 DEF SubmitDoes, Apart, SameRows, SameState
  <2>2. /\ db'.idem[KeyOf[t]] = t
        /\ \A k \in Keys : k # KeyOf[t] => db'.idem[k] = db.idem[k]
    <3>1. db.idem \in [Keys -> Tasks \cup {NoTask}]
      BY StoreTyped DEF Store
    <3> QED BY <1>0, <1>5, <2>1, <3>1
  <2>3. Outlives(db', disk')
    BY <1>0, <2>1 DEF Outlives
  <2>4. StateOf(db, t) = "received" /\ m.task = t /\ Submitting(m) /\ m.op = "submit"
        /\ m.pc = "t_read" /\ m.target = "validating"
    BY <1>0, <1>5, <2>1 DEF SavedOK, Calls, Same, Submitting, InTransition
  <2>5. SavedOK(m, db', disk')
    BY <1>0, <2>1, <2>2, <2>4 DEF SavedOK, Unsaved, Submitting, Deleting
  <2> QED BY <1>0, <1>1, <2>3, <2>5 DEF SavedInv
<1> QED BY <1>2, <1>3, <1>4, <1>5 DEF SubmitDoes

\* The delete of a task.
LEMMA DeleteSaves ==
  ASSUME NEW w, Threads = {w}, TypeInv, KeyInv, KeyInv', SavedInv,
         Request(w) \/ Serve(w), DeleteDoes(thread[w], thread'[w], Task(w)),
         thread[w].pc \in Deleting
  PROVE  SavedInv'
<1> DEFINE l == thread[w]
           m == thread'[w]
           t == Task(w)
<1>0. /\ w \in Threads /\ l.task = t /\ t \in Tasks
      /\ SavedOK(l, db, disk) /\ Outlives(db, disk) /\ Answered(acked, disk)
      /\ l.op = "delete" /\ ~Submitting(l)
  BY Serving DEF Task, SavedInv, SavedOK, Submitting, InTransition, Deleting
<1>1. Ended(m) \/ (m.op = "delete" /\ ~Unsaved(m))
  BY <1>0 DEF DeleteDoes, Goes, Same, Unsaved, Submitting, InTransition, Deleting
<1>2. ASSUME Outlives(db', disk'), Answered(acked', disk'),
             \A k \in Keys : db'.idem[k] # NoTask
               => StateOf(disk', db'.idem[k]) # "absent"
      PROVE  SavedInv'
  <2>1. SavedOK(m, db', disk')
    BY <1>1, <1>2
       DEF Ended, SavedOK, Unsaved, Submitting, InTransition, Deleting
  <2> QED BY <1>0, <1>2, <2>1 DEF SavedInv
<1>3. CASE l.pc = "x_task"
  <2>1. /\ disk' = db' /\ StateOf(db', t) = "absent"
        /\ \A u \in Tasks : u # t => StateOf(db', u) = StateOf(db, u)
    BY <1>3 DEF DeleteDoes, Apart, SameRows, SameState
  <2>2. Outlives(db', disk')
    BY <2>1 DEF Outlives
  <2>3. Answered(acked', disk')
    BY <1>0, <1>3, <2>1, AckedDoes DEF Answered, Outlives, At
  <2>4. \A k \in Keys : db'.idem[k] # NoTask
          => StateOf(disk', db'.idem[k]) # "absent"
    BY <1>0, <2>1 DEF KeyInv, KeyOK, Truthful
  <2> QED BY <1>2, <2>2, <2>3, <2>4
<1>4. CASE l.pc # "x_task"
  <2>1. /\ disk' = disk /\ \A u \in Tasks : StateOf(db', u) = StateOf(db, u)
        /\ \A k \in Keys : db'.idem[k] \in {db.idem[k], NoTask}
    BY <1>4 DEF DeleteDoes, Deleting, Read, PutsRow, Apart, SameRows, SameState
  <2>2. Outlives(db', disk')
    BY <1>0, <2>1 DEF Outlives
  <2>3. Answered(acked', disk')
    BY <1>0, <2>1, AckedDoes DEF Answered, At, Deleting
  <2>4. \A k \in Keys : db'.idem[k] # NoTask
          => StateOf(disk', db'.idem[k]) # "absent"
    BY <1>0, <2>1 DEF SavedOK
  <2> QED BY <1>2, <2>2, <2>3, <2>4
<1> QED BY <1>3, <1>4

LEMMA SavedInit ==
  ASSUME Init
  PROVE  SavedInv
BY DEF Init, EmptyStore, Idle, SavedInv, SavedOK, Outlives, Answered, Unsaved,
       Submitting, InTransition, Deleting

\* Every step of the thread.
LEMMA ThreadSaves ==
  ASSUME NEW w, Threads = {w}, TypeInv, KeyInv, KeyInv', SavedInv,
         Request(w) \/ Serve(w), Does(w)
  PROVE  SavedInv'
<1> DEFINE l == thread[w]
           m == thread'[w]
           t == Task(w)
<1>0. /\ w \in Threads /\ l.pc \in PCs /\ l \in Locals /\ ThreadOK(l)
      /\ l.task = t /\ SavedOK(l, db, disk)
  BY DEF TypeInv, TypeOK, Locals, Task, SavedInv
<1>1. CASE l.pc = "idle"
  <2>1. /\ Read /\ Starts(m) /\ ~Submitting(l)
        /\ Outlives(db, disk) /\ Answered(acked, disk)
    BY <1>1 DEF Does, SavedInv, Submitting, InTransition
  <2>2. Answered(acked', disk')
    BY <1>0, <1>1, <2>1, AckedDoes DEF Answered, At, Read
  <2>3. SavedOK(m, db', disk')
    BY <1>0, <2>1
       DEF Starts, Read, SavedOK, Unsaved, Submitting, InTransition, Deleting
  <2> QED BY <1>0, <2>1, <2>2, <2>3 DEF SavedInv, Read
<1>2. CASE l.pc \in {"submit_lookup", "submit_create", "submit_idem"}
  BY <1>2, SubmitSaves DEF Does
<1>3. CASE l.pc \in Deleting
  BY <1>3, DeleteSaves DEF Does
<1>4. CASE l.pc = "return"
  <2>1. Keyless(l, m)
    BY <1>4, ReadKeyless, RaisesKeyless DEF Does, Keyless, Unkeyed
  <2>2. Steady(l, m) /\ ~Unsaved(l)
    BY <1>4, RaisesSteady DEF Does, Unsaved, Submitting, InTransition
  <2> QED BY <1>4, <2>1, <2>2, KeylessSaves
<1>5. CASE InTransition(l)
  <2>1. Keyless(l, m)
    BY <1>0, <1>5, TransactKeyless DEF Does, ThreadOK
  <2>2. \/ Saving(l, m) /\ Submitting(l)
        \/ Steady(l, m) /\ (Submitting(l) => l.pc = "t_commit")
    BY <1>0, <1>5, TransactSaves DEF Does
  <2>3. l.pc = "t_commit" => disk' = db'
    BY DEF Does, TransactDoes
  <2> QED BY <1>5, <2>1, <2>2, <2>3, KeylessSaves DEF Unsaved, InTransition
<1>6. CASE l.pc = "enqueue_row"
  <2>1. PICK row : PutsRow(db, db', t, row)
    BY <1>6 DEF Does, SubmitDoes
  <2>2. Goes(l, m, "pq_read") \/ Goes(l, m, "d_ready")
    BY <1>6 DEF Does, SubmitDoes
  <2>3. Keyless(l, m)
    BY <1>6, <2>1, <2>2, OneTaskKeyless
       DEF Does, SubmitDoes, PutsRow, Goes, Keyless, Unkeyed
  <2>4. Steady(l, m) /\ ~Unsaved(l)
    BY <1>6, <2>2 DEF Goes, Same, Steady, Unsaved, Submitting, InTransition, Deleting
  <2> QED BY <1>6, <2>3, <2>4, KeylessSaves
<1>7. CASE /\ ~InTransition(l) /\ l.pc \notin Deleting
           /\ l.pc \notin {"idle", "return", "submit_lookup", "submit_create",
                           "submit_idem", "enqueue_row"}
  <2>1. Keyless(l, m)
    BY <1>0, <1>7, ProcessKeyless, DispatchKeyless, ResultKeyless, CancelKeyless,
       OperateKeyless DEF Does, PCs, InTransition, Deleting
  <2>2. Steady(l, m)
    BY <1>0, <1>7, ProcessSteady, DispatchSteady, OtherSteady
       DEF Does, PCs, InTransition, Deleting, ThreadOK
  <2>3. ~Unsaved(l)
    BY <1>7 DEF Unsaved, Submitting
  <2> QED BY <1>7, <2>1, <2>2, <2>3, KeylessSaves
<1> QED BY <1>1, <1>2, <1>3, <1>4, <1>5, <1>6, <1>7

LEMMA SavedStep ==
  ASSUME NEW w, Threads = {w}, TypeInv, KeyInv, KeyInv', SavedInv, [Next]_vars
  PROVE  SavedInv'
<1>1. CASE Request(w) \/ Serve(w)
  BY <1>1, ThreadSaves, ThreadDoes
<1>2. CASE Crash
  <2>1. /\ db' = disk /\ disk' = disk /\ acked' = acked /\ thread'[w] = Idle
    BY <1>2 DEF Crash
  <2>2. SavedOK(Idle, disk, disk)
    BY DEF Idle, SavedOK, Unsaved, Submitting, InTransition, Deleting, KeyInv,
           Truthful
  <2> QED BY <2>1, <2>2 DEF SavedInv, Outlives
<1>3. CASE UNCHANGED <<db, disk, thread, acked>>
  BY <1>3 DEF SavedInv, SavedOK, Outlives, Answered, StateOf, Unsaved, Submitting,
              InTransition
<1>4. Hermes \/ Tick \/ UNCHANGED vars => UNCHANGED <<db, disk, thread, acked>>
  BY DEF Hermes, HermesAnswers, Tick, vars
<1> QED BY <1>1, <1>2, <1>3, <1>4 DEF Next

\* A submission that was answered with 201 is on disk, with Idempotency-Keys and
\* all operations, deletes included, for any number of tasks, keys and crashes: a
\* key that is answered with an earlier task names one whose first transition is
\* committed (service.py:34-39, 75-87).  PaperclipGateProofs has the same for any
\* number of threads, without keys.
THEOREM KeyedSubmitIsDurableHolds ==
  ASSUME NEW w, Threads = {w}
  PROVE  Spec => []AcknowledgedSubmitIsDurable
<1>1. Init => TypeInv /\ KeyInv /\ SavedInv
  BY InitType, KeyInit, SavedInit
<1>2. TypeInv /\ KeyInv /\ SavedInv /\ [Next]_vars
        => (TypeInv /\ KeyInv /\ SavedInv)'
  BY NextType, KeyStep, SavedStep
<1>3. TypeInv /\ SavedInv => AcknowledgedSubmitIsDurable
  BY StoreTyped, NoRow DEF SavedInv, Answered, AcknowledgedSubmitIsDurable
<1> QED BY <1>1, <1>2, <1>3, PTL DEF Spec
-----------------------------------------------------------------------------
(* Committed verdicts.  No statement writes the state of a terminal task:    *)
(* transition_task asserts the transition, and the writes that assert        *)
(* nothing (cancel_task, the retry of process_queue) stand behind a read of  *)
(* the state.  A task that is terminal on disk is as terminal in the tables. *)

VerdictOK(l, s) ==
  LET state == StateOf(s, l.task) IN
  /\ l.pc \in {"pq_read", "claim_read", "claim_write", "enqueue_row", "e_dead",
               "e_state", "c_state"} => state \notin Terminal
  /\ l.caught /\ l.pc # "return" => state \notin Terminal
  /\ l.caught => l.pc \in {"t_read", "t_write", "t_commit", "enqueue_row", "d_read",
                          "d_ready", "d_running", "d_dispatched", "d_submit",
                          "d_wait", "return"}
  /\ l.pc = "t_write" => CanTransition(state, l.target)
  /\ l.pc = "t_commit" => state \in {l.target, "absent"}
  /\ InTransition(l) /\ l.then = "enqueue_row" => l.target = "queued"
  /\ InTransition(l) /\ l.caught
       => l.then \in {"enqueue_row", "d_running"} /\ l.target \in {"queued", "running"}
  /\ l.pc \notin {"x_read", "x_idem", "x_result", "x_queue", "x_audit", "x_task",
                  "x_files", "rj_read", "rj_row", "rj_state", "ra_write"}

VerdictInv ==
  /\ \A t \in Tasks :
       StateOf(disk, t) \in Terminal => StateOf(db, t) = StateOf(disk, t)
  /\ \A w \in Threads : VerdictOK(thread[w], db)

\* What every step of a thread does.
VerdictKept(m) ==
  /\ VerdictOK(m, db')
  /\ \A u \in Tasks :
       StateOf(db, u) \in Terminal => StateOf(db', u) = StateOf(db, u)
  /\ disk' = disk \/ disk' = db'

LEMMA GuardedStates ==
  /\ \A s, r : CanTransition(s, r) => s \notin Terminal
  /\ \A s \in {"absent", "received", "queued", "running"} : s \notin Terminal
BY DEF CanTransition, Terminal, States, AllowedTransitions

LEMMA SameStates ==
  ASSUME NEW s, NEW s2, NEW t, Apart(s, s2, t), SameState(s, s2, t)
  PROVE  \A u \in Tasks : StateOf(s2, u) = StateOf(s, u)
BY DEF Apart, SameRows, SameState

\* Outside delete_task and the recovery tools a step leaves the states of the
\* tasks it is not about alone.
LEMMA OtherStates ==
  ASSUME NEW w, Does(w), thread[w].pc \in PCs,
         thread[w].pc \notin {"x_read", "x_idem", "x_result", "x_queue", "x_audit",
                             "x_task", "x_files", "rj_read", "rj_row",
                             "rj_state", "ra_write"}
  PROVE  \A u \in Tasks : u # Task(w) => StateOf(db', u) = StateOf(db, u)
<1> DEFINE l == thread[w]
           m == thread'[w]
           t == Task(w)
<1>1. Apart(db, db', t) => \A u \in Tasks : u # t => StateOf(db', u) = StateOf(db, u)
  BY DEF Apart, SameRows, SameState
<1>2. CASE l.pc \in {"t_read", "t_write", "t_commit"}
  BY <1>1, <1>2 DEF Does, TransactDoes, Read, SetsState, Adds
<1>3. CASE l.pc \in {"submit_lookup", "submit_create", "submit_idem", "enqueue_row"}
  BY <1>1, <1>3 DEF Does, SubmitDoes, Read, Creates, PutsRow
<1>4. CASE l.pc \in {"pq_read", "claim_read", "claim_write", "e_dead", "e_state",
                    "e_retry"}
  BY <1>1, <1>4 DEF Does, ProcessDoes, Read, SetsRow, SetsState
<1>5. CASE l.pc \in {"d_read", "d_ready", "d_running", "d_dispatched", "d_submit",
                    "d_wait"}
  BY <1>1, <1>5 DEF Does, DispatchDoes, Read, SetsRow
<1>6. CASE l.pc \in {"r_read", "r_store", "r_commit", "r_file"}
  BY <1>1, <1>6 DEF Does, ResultDoes, Read
<1>7. CASE l.pc \in {"c_read", "c_state"}
  BY <1>1, <1>7 DEF Does, CancelDoes, Read, SetsState
<1>8. CASE l.pc = "c_row"
  <2>1. PICK marked \in Store :
          /\ marked = db \/ SetsRow(db, marked, t, "cancelled",
                                    db.queue[t].worker, db.queue[t].attempts)
          /\ Adds(marked, db', t, {<<"task_cancelled", "client">>})
    BY <1>8 DEF Does, CancelDoes
  <2> QED BY <2>1 DEF Adds, SetsRow, Apart, SameRows, SameState
<1>9. CASE l.pc \in {"to_list", "to_next"}
  BY <1>9, SameStates DEF Does, OperateDoes, Read, SetsRow
<1>10. CASE l.pc \in {"idle", "return"}
  BY <1>10 DEF Does, Read
<1> QED BY <1>2, <1>3, <1>4, <1>5, <1>6, <1>7, <1>8, <1>9, <1>10 DEF PCs

LEMMA TransactVerdict ==
  ASSUME NEW l \in Locals, NEW m, NEW t \in Tasks, NEW actor, ThreadOK(l),
         TransactDoes(l, m, t, actor), InTransition(l), l.task = t,
         VerdictOK(l, db)
  PROVE  VerdictKept(m)
<1>1. CASE l.pc = "t_read"
  <2>1. CASE CanTransition(StateOf(db, t), l.target)
    BY <1>1, <2>1
       DEF TransactDoes, Read, Goes, Same, VerdictKept, VerdictOK, InTransition
  <2>2. CASE ~CanTransition(StateOf(db, t), l.target)
    BY <1>1, <2>2
       DEF TransactDoes, Read, Raises, Caught, Ended, VerdictKept, VerdictOK,
           InTransition
  <2> QED BY <2>1, <2>2
<1>2. CASE l.pc = "t_write"
  <2>1. /\ disk' = disk /\ Goes(l, m, "t_commit")
        /\ StateOf(db', t) \in {l.target, "absent"}
        /\ \A u \in Tasks : u # t => StateOf(db', u) = StateOf(db, u)
    BY <1>2 DEF TransactDoes, SetsState, Apart, SameRows, SameState
  <2>2. StateOf(db, t) \notin Terminal
    BY <1>2, GuardedStates DEF VerdictOK
  <2> QED BY <1>2, <2>1, <2>2, GuardedStates
          DEF Goes, Same, VerdictKept, VerdictOK, InTransition
<1>3. CASE l.pc = "t_commit"
  <2>1. /\ disk' = db' /\ Returns(l, m)
        /\ \A u \in Tasks : StateOf(db', u) = StateOf(db, u)
    BY <1>3, SameStates DEF TransactDoes, Adds
  <2>2. l.then \in Continuations /\ (l.then = "to_next" => l.op = "timeouts")
    BY <1>3 DEF Locals, ThreadOK, InTransition
  <2> QED BY <1>3, <2>1, <2>2, GuardedStates
          DEF Returns, Calls, Goes, Same, Continuations, VerdictKept, VerdictOK,
              InTransition
<1> QED BY <1>1, <1>2, <1>3 DEF InTransition

LEMMA SubmitVerdict ==
  ASSUME NEW l, NEW m, NEW t \in Tasks, SubmitDoes(l, m, t), l.task = t,
         l.pc \in {"submit_lookup", "submit_create", "submit_idem",
                   "enqueue_row"},
         VerdictOK(l, db)
  PROVE  VerdictKept(m)
<1>1. CASE l.pc = "submit_lookup"
  BY <1>1 DEF SubmitDoes, Read, Goes, Same, VerdictKept, VerdictOK, InTransition
<1>2. CASE l.pc = "submit_create"
  <2>1. CASE db' = db /\ Ended(m) /\ disk' = disk
    BY <2>1 DEF Ended, VerdictKept, VerdictOK, InTransition
  <2>2. CASE Creates(l, m, t) /\ disk' = disk
    <3>1. /\ StateOf(db', t) = "received" /\ StateOf(db, t) = "absent"
          /\ \A u \in Tasks : u # t => StateOf(db', u) = StateOf(db, u)
      BY <2>2 DEF Creates, Apart, SameRows, SameState
    <3> QED BY <1>2, <2>2, <3>1, GuardedStates
            DEF Creates, VerdictKept, VerdictOK, InTransition
  <2> QED BY <1>2, <2>1, <2>2 DEF SubmitDoes
<1>3. CASE l.pc = "submit_idem"
  <2>1. CASE db' = db /\ Ended(m) /\ disk' = disk
    BY <2>1 DEF Ended, VerdictKept, VerdictOK, InTransition
  <2>2. CASE /\ Calls(l, m, "validating", "submit_validated") /\ disk' = disk
             /\ Apart(db, db', t) /\ SameState(db, db', t)
    BY <1>3, <2>2, SameStates
       DEF Calls, Same, VerdictKept, VerdictOK, InTransition
  <2> QED BY <1>3, <2>1, <2>2 DEF SubmitDoes
<1>4. CASE l.pc = "enqueue_row"
  <2>1. \A u \in Tasks : StateOf(db', u) = StateOf(db, u)
    BY <1>4, SameStates DEF SubmitDoes, PutsRow
  <2> QED BY <1>4, <2>1
          DEF SubmitDoes, Goes, Same, VerdictKept, VerdictOK, InTransition
<1> QED BY <1>1, <1>2, <1>3, <1>4

LEMMA ProcessVerdict ==
  ASSUME NEW l, NEW m, NEW t \in Tasks, ProcessDoes(l, m, t), l.task = t,
         l.pc \in {"pq_read", "claim_read", "claim_write", "e_dead", "e_state",
                   "e_retry"},
         VerdictOK(l, db)
  PROVE  VerdictKept(m)
<1>1. CASE l.pc \in {"pq_read", "claim_read"}
  BY <1>1 DEF ProcessDoes, Read, Ended, Goes, Same, VerdictKept, VerdictOK,
              InTransition
<1>2. CASE l.pc \in {"claim_write", "e_dead", "e_retry"}
  <2>1. \A u \in Tasks : StateOf(db', u) = StateOf(db, u)
    BY <1>2, SameStates DEF ProcessDoes, SetsRow
  <2> QED BY <1>2, <2>1
          DEF ProcessDoes, Ended, Goes, Calls, Same, VerdictKept, VerdictOK,
              InTransition
<1>3. CASE l.pc = "e_state"
  <2>1. \A u \in Tasks : u # t => StateOf(db', u) = StateOf(db, u)
    BY <1>3 DEF ProcessDoes, SetsState, Apart, SameRows, SameState
  <2> QED BY <1>3, <2>1
          DEF ProcessDoes, Goes, Same, VerdictKept, VerdictOK, InTransition
<1> QED BY <1>1, <1>2, <1>3

LEMMA DispatchVerdict ==
  ASSUME NEW l, NEW m, NEW t \in Tasks, DispatchDoes(l, m, t), l.task = t,
         l.pc \in {"d_read", "d_ready", "d_running", "d_dispatched", "d_submit",
                   "d_wait"},
         VerdictOK(l, db)
  PROVE  VerdictKept(m)
<1>1. CASE l.pc \in {"d_running", "d_dispatched"}
  <2>1. \A u \in Tasks : StateOf(db', u) = StateOf(db, u)
    BY <1>1, SameStates DEF DispatchDoes, SetsRow
  <2> QED BY <1>1, <2>1
          DEF DispatchDoes, Goes, Same, VerdictKept, VerdictOK, InTransition
<1>2. CASE l.pc \in {"d_read", "d_ready", "d_submit", "d_wait"}
  BY <1>2, GuardedStates
     DEF DispatchDoes, Read, Goes, Calls, Same, Raises, Caught, Ended,
         VerdictKept, VerdictOK, InTransition
<1> QED BY <1>1, <1>2

LEMMA ResultVerdict ==
  ASSUME NEW l, NEW m, NEW t \in Tasks, ResultDoes(l, m, t), l.task = t,
         l.pc \in {"r_read", "r_store", "r_commit", "r_file"}, VerdictOK(l, db)
  PROVE  VerdictKept(m)
<1>0. \A u \in Tasks : StateOf(db', u) = StateOf(db, u)
  BY SameStates DEF ResultDoes, Read
<1> QED BY <1>0
        DEF ResultDoes, Read, Goes, Calls, Same, Ended, VerdictKept, VerdictOK,
            InTransition

LEMMA CancelVerdict ==
  ASSUME NEW l, NEW m, NEW t \in Tasks, CancelDoes(l, m, t), l.task = t,
         l.pc \in {"c_read", "c_state", "c_row"}, VerdictOK(l, db)
  PROVE  VerdictKept(m)
<1>1. CASE l.pc = "c_read"
  BY <1>1 DEF CancelDoes, Read, Ended, Goes, Same, VerdictKept, VerdictOK,
              InTransition
<1>2. CASE l.pc = "c_state"
  <2>1. \A u \in Tasks : u # t => StateOf(db', u) = StateOf(db, u)
    BY <1>2 DEF CancelDoes, SetsState, Apart, SameRows, SameState
  <2>2. ~l.caught
    BY <1>2 DEF CancelDoes, VerdictOK
  <2> QED BY <1>2, <2>1, <2>2
          DEF CancelDoes, Goes, Same, VerdictKept, VerdictOK, InTransition
<1>3. CASE l.pc = "c_row"
  <2>1. \A u \in Tasks : StateOf(db', u) = StateOf(db, u)
    <3>1. PICK marked \in Store :
            /\ marked = db \/ SetsRow(db, marked, t, "cancelled",
                                      db.queue[t].worker, db.queue[t].attempts)
            /\ Adds(marked, db', t, {<<"task_cancelled", "client">>})
      BY <1>3 DEF CancelDoes
    <3>2. \A u \in Tasks : StateOf(marked, u) = StateOf(db, u)
      BY <3>1, SameStates DEF SetsRow
    <3> QED BY <3>1, <3>2, SameStates DEF Adds
  <2> QED BY <1>3, <2>1
          DEF CancelDoes, Goes, Same, VerdictKept, VerdictOK, InTransition
<1> QED BY <1>1, <1>2, <1>3
LEMMA TimeoutsVerdict ==
  ASSUME NEW l, NEW m, NEW t, OperateDoes(l, m, t),
         l.pc \in {"to_list", "to_next"}, VerdictOK(l, db)
  PROVE  VerdictKept(m)
<1>1. ~l.caught
  BY DEF VerdictOK
<1>2. CASE l.pc = "to_list"
  BY <1>1, <1>2 DEF OperateDoes, Read, VerdictKept, VerdictOK, InTransition
<1>3. CASE l.pc = "to_next"
  <2>1. \A u \in Tasks : StateOf(db', u) = StateOf(db, u)
    BY <1>3, SameStates DEF OperateDoes, SetsRow
  <2> QED BY <1>1, <1>3, <2>1
          DEF OperateDoes, Goes, Same, VerdictKept, VerdictOK, InTransition
<1> QED BY <1>2, <1>3

\* Operations that set a task back or remove it are not used, and process_queue
\* is called by submit_task only: a row that a crash left queued behind the
\* verdict of its task is not picked up.
Settling ==
  Ops \cap {"process", "recover_job", "recover_approval", "delete"} = {}

LEMMA VerdictInit ==
  ASSUME Init
  PROVE  VerdictInv
BY DEF Init, Idle, VerdictInv, VerdictOK, InTransition

\* A step of a thread.
LEMMA ThreadVerdict ==
  ASSUME Settling, TypeInv, VerdictInv, NEW w \in Threads, Does(w)
  PROVE  VerdictKept(thread'[w])
<1> DEFINE l == thread[w]
           m == thread'[w]
           t == Task(w)
<1>1. VerdictOK(l, db)
  BY DEF VerdictInv
<1>2. l.pc \in PCs /\ l \in Locals /\ ThreadOK(l) /\ l.task = t
  BY DEF TypeInv, TypeOK, Locals, Task
<1>3. CASE l.pc = "return"
  BY <1>3 DEF Does, Read, Ended, VerdictKept, VerdictOK, InTransition
<1>4. CASE l.pc = "idle"
  BY <1>4 DEF Does, Read, Starts, Settling, VerdictKept, VerdictOK, InTransition
<1>5. CASE l.pc \in {"to_list", "to_next"}
  BY <1>1, <1>5, TimeoutsVerdict DEF Does
<1>6. CASE l.pc \notin {"return", "idle", "to_list", "to_next"}
  <2>1. t \in Tasks
    BY <1>6, Serving
  <2>2. l.pc \notin {"x_read", "x_idem", "x_result", "x_queue", "x_audit",
                     "x_task", "x_files", "rj_read", "rj_row", "rj_state",
                     "ra_write"}
    BY <1>1 DEF VerdictOK
  <2> QED BY <1>1, <1>2, <1>6, <2>1, <2>2, TransactVerdict, SubmitVerdict,
             ProcessVerdict, DispatchVerdict, ResultVerdict, CancelVerdict
          DEF Does, PCs, InTransition
<1> QED BY <1>3, <1>4, <1>5, <1>6

\* The threads that wait are where they were: the step is about another task.
LEMMA OthersVerdict ==
  ASSUME TypeInv, VerdictInv, OneByOne, NEW w \in Threads, Does(w),
         NEW v \in Threads, v # w, thread'[v] = thread[v]
  PROVE  VerdictOK(thread'[v], db')
<1> DEFINE k == thread[v]
<1>1. /\ VerdictOK(k, db) /\ VerdictOK(thread[w], db) /\ thread[w].pc \in PCs
      /\ thread'[v] = k
  BY LocalsTyped DEF VerdictInv, Locals
<1>2. CASE At(w, "return")
  BY <1>1, <1>2 DEF Does, Read, At
<1>3. CASE k.pc \in {"idle", "to_list", "to_next", "return"}
  BY <1>1, <1>3 DEF VerdictOK, InTransition
<1>4. CASE ~At(w, "return") /\ k.pc \notin {"idle", "to_list", "to_next", "return"}
  <2>1. k.task \in Tasks /\ k.task # Task(w)
    BY <1>4, TheirTask DEF Task
  <2>2. thread[w].pc \notin {"x_read", "x_idem", "x_result", "x_queue", "x_audit",
                             "x_task", "x_files", "rj_read", "rj_row",
                             "rj_state", "ra_write"}
    BY <1>1 DEF VerdictOK
  <2>3. StateOf(db', k.task) = StateOf(db, k.task)
    BY <1>1, <2>1, <2>2, OtherStates
  <2> HIDE DEF k
  <2> QED BY <1>1, <2>3 DEF VerdictOK
<1> QED BY <1>2, <1>3, <1>4

LEMMA VerdictStep ==
  ASSUME Settling, TypeInv, VerdictInv, OneByOne, [Next]_vars
  PROVE  /\ VerdictInv'
         /\ \A t \in Tasks : StateOf(disk, t) \in Terminal
                               => StateOf(disk', t) = StateOf(disk, t)
<1>1. CASE \E w \in Threads :
             Does(w) /\ \A v \in Threads : v # w => thread'[v] = thread[v]
  <2>1. PICK w \in Threads :
               Does(w) /\ \A v \in Threads : v # w => thread'[v] = thread[v]
    BY <1>1
  <2>2. VerdictKept(thread'[w])
    BY <2>1, ThreadVerdict
  <2>3. ASSUME NEW u \in Tasks, StateOf(disk, u) \in Terminal
        PROVE  StateOf(disk', u) = StateOf(disk, u)
    BY <2>2, <2>3 DEF VerdictInv, VerdictKept
  <2>4. ASSUME NEW u \in Tasks, StateOf(disk', u) \in Terminal
        PROVE  StateOf(db', u) = StateOf(disk', u)
    BY <2>2, <2>4 DEF VerdictInv, VerdictKept
  <2>5. \A v \in Threads : VerdictOK(thread'[v], db')
    BY <2>1, <2>2, OthersVerdict DEF VerdictKept
  <2> QED BY <2>3, <2>4, <2>5 DEF VerdictInv
<1>2. CASE db' = disk /\ disk' = disk /\ thread' = [w \in Threads |-> Idle]
  BY <1>2 DEF Idle, VerdictInv, VerdictOK, InTransition
<1>3. CASE UNCHANGED <<db, disk, thread>>
  BY <1>3 DEF VerdictInv, VerdictOK, StateOf, InTransition
<1> QED BY <1>1, <1>2, <1>3, NextDoes

\* A verdict that was committed is never taken back, for any number of tasks,
\* threads and crashes: not by a late approval, rejection, cancellation or
\* timeout, and not by a result that is delivered again after a restart, while the
\* requests about a task do not overlap (state_machine.py:10-13, 21-23, service.py:102-116, 169-193, 291-306).
THEOREM VerdictIsDurableHolds ==
  ASSUME Settling
  PROVE  Spec /\ []OneByOne => VerdictIsDurable
<1>1. Init => TypeInv /\ VerdictInv
  BY InitType, VerdictInit
<1>2. TypeInv /\ VerdictInv /\ OneByOne /\ [Next]_vars => (TypeInv /\ VerdictInv)'
  BY NextType, VerdictStep
<1>3. TypeInv /\ VerdictInv /\ OneByOne /\ [Next]_vars
        => [\A t \in Tasks : disk.task[t].state \in Terminal
              => disk'.task[t].state = disk.task[t].state]_vars
  BY VerdictStep DEF StateOf
<1> QED BY <1>1, <1>2, <1>3, PTL DEF Spec, VerdictIsDurable
-----------------------------------------------------------------------------
(* Stored results.  record_result stores what it has moved the task to, and  *)
(* the state that a task has a result beside is terminal: it stays.          *)

\* Thread l has moved its task to the state of the result it is to store.
Storing(l, s) ==
  /\ InTransition(l) /\ l.then = "r_store" => l.target = l.status
  /\ (l.pc = "t_commit" /\ l.then = "r_store") \/ l.pc = "r_store"
       => StateOf(s, l.task) = l.status

ResultsMatch(s) ==
  \A t \in Tasks : s.result[t] # NoResult => StateOf(s, t) = s.result[t]

StoredInv ==
  /\ ResultsMatch(db) /\ ResultsMatch(disk)
  /\ \A w \in Threads : Storing(thread[w], db)

\* What every step of a thread does: only the result of a task in its state is
\* stored.
StoresVerdict(m) ==
  /\ Storing(m, db')
  /\ \A u \in Tasks : db'.result[u] \in {db.result[u], StateOf(db', u)}

\* A point of the code where there is nothing to be said of results.
Aside(m) == /\ m.pc # "r_store"
            /\ InTransition(m) => m.then # "r_store"

LEMMA NoResultStored ==
  ASSUME NEW m, Aside(m), \A u \in Tasks : db'.result[u] = db.result[u]
  PROVE  StoresVerdict(m)
BY DEF Aside, StoresVerdict, Storing, InTransition

LEMMA SameResults ==
  ASSUME NEW s, NEW s2, NEW t, Apart(s, s2, t), SameResult(s, s2, t)
  PROVE  \A u \in Tasks : s2.result[u] = s.result[u]
BY DEF Apart, SameRows, SameResult

LEMMA TransactStores ==
  ASSUME NEW l \in Locals, NEW m, NEW t \in Tasks, NEW actor, ThreadOK(l),
         TransactDoes(l, m, t, actor), InTransition(l), l.task = t,
         VerdictOK(l, db), Storing(l, db)
  PROVE  StoresVerdict(m)
<1>1. CASE l.pc = "t_read"
  BY <1>1 DEF TransactDoes, Read, Goes, Same, Raises, Caught, Ended, StoresVerdict,
              Storing, InTransition
<1>2. CASE l.pc = "t_write"
  <2>1. /\ Goes(l, m, "t_commit") /\ SetsState(db, db', t, l.target)
        /\ \A u \in Tasks : db'.result[u] = db.result[u]
    BY <1>2, SameResults DEF TransactDoes, SetsState
  <2>2. StateOf(db, t) # "absent"
    BY <1>2 DEF VerdictOK, CanTransition, States
  <2>3. StateOf(db', t) = l.target
    BY <2>1, <2>2 DEF SetsState
  <2> QED BY <1>2, <2>1, <2>3 DEF Goes, Same, StoresVerdict, Storing, InTransition
<1>3. CASE l.pc = "t_commit"
  <2>1. /\ Returns(l, m) /\ StateOf(db', t) = StateOf(db, t)
        /\ \A u \in Tasks : db'.result[u] = db.result[u]
    BY <1>3, SameResults DEF TransactDoes, Adds, SameState
  <2>2. l.then \in Continuations
    BY DEF Locals
  <2> QED BY <1>3, <2>1, <2>2
          DEF Returns, Calls, Goes, Same, Continuations, StoresVerdict, Storing,
              InTransition
<1> QED BY <1>1, <1>2, <1>3 DEF InTransition

LEMMA SubmitStores ==
  ASSUME NEW l, NEW m, NEW t \in Tasks, SubmitDoes(l, m, t),
         l.pc \in {"submit_lookup", "submit_create", "submit_idem", "enqueue_row"}
  PROVE  StoresVerdict(m)
<1>1. \A u \in Tasks : db'.result[u] = db.result[u]
  BY SameResults DEF SubmitDoes, Read, Creates, PutsRow
<1>2. Aside(m)
  BY DEF SubmitDoes, Creates, Goes, Calls, Same, Ended, Aside, InTransition
<1> QED BY <1>1, <1>2, NoResultStored

LEMMA ProcessStores ==
  ASSUME NEW l, NEW m, NEW t \in Tasks, ProcessDoes(l, m, t),
         l.pc \in {"pq_read", "claim_read", "claim_write", "e_dead", "e_state",
                   "e_retry"}
  PROVE  StoresVerdict(m)
<1>1. \A u \in Tasks : db'.result[u] = db.result[u]
  BY SameResults DEF ProcessDoes, Read, SetsRow, SetsState
<1>2. Aside(m)
  BY DEF ProcessDoes, Goes, Calls, Same, Ended, Aside, InTransition
<1> QED BY <1>1, <1>2, NoResultStored

LEMMA DispatchStores ==
  ASSUME NEW l, NEW m, NEW t \in Tasks, DispatchDoes(l, m, t),
         l.pc \in {"d_read", "d_ready", "d_running", "d_dispatched", "d_submit",
                   "d_wait"}
  PROVE  StoresVerdict(m)
<1>1. \A u \in Tasks : db'.result[u] = db.result[u]
  BY SameResults DEF DispatchDoes, Read, SetsRow
<1>2. Aside(m)
  BY DEF DispatchDoes, Goes, Calls, Same, Raises, Caught, Ended, Aside,
         InTransition
<1> QED BY <1>1, <1>2, NoResultStored

LEMMA CancelStores ==
  ASSUME NEW l, NEW m, NEW t \in Tasks, CancelDoes(l, m, t),
         l.pc \in {"c_read", "c_state", "c_row"}
  PROVE  StoresVerdict(m)
<1>1. \A u \in Tasks : db'.result[u] = db.result[u]
  <2>1. CASE l.pc # "c_row"
    BY <2>1, SameResults DEF CancelDoes, Read, SetsState
  <2>2. CASE l.pc = "c_row"
    <3>1. PICK marked \in Store :
            /\ marked = db \/ SetsRow(db, marked, t, "cancelled",
                                      db.queue[t].worker, db.queue[t].attempts)
            /\ Adds(marked, db', t, {<<"task_cancelled", "client">>})
      BY <2>2 DEF CancelDoes
    <3>2. \A u \in Tasks : marked.result[u] = db.result[u]
      BY <3>1, SameResults DEF SetsRow
    <3> QED BY <3>1, <3>2, SameResults DEF Adds
  <2> QED BY <2>1, <2>2
<1>2. Aside(m)
  BY DEF CancelDoes, Goes, Calls, Same, Ended, Aside, InTransition
<1> QED BY <1>1, <1>2, NoResultStored

LEMMA TimeoutsStore ==
  ASSUME NEW l, NEW m, NEW t, OperateDoes(l, m, t), l.pc \in {"to_list", "to_next"}
  PROVE  StoresVerdict(m)
<1>1. \A u \in Tasks : db'.result[u] = db.result[u]
  BY SameResults DEF OperateDoes, Read, SetsRow
<1>2. Aside(m)
  BY DEF OperateDoes, Goes, Same, Aside, InTransition
<1> QED BY <1>1, <1>2, NoResultStored

LEMMA ResultStores ==
  ASSUME NEW l, NEW m, NEW t \in Tasks, ResultDoes(l, m, t), l.task = t,
         l.pc \in {"r_read", "r_store", "r_commit", "r_file"}, Storing(l, db)
  PROVE  StoresVerdict(m)
<1>1. CASE l.pc = "r_read"
  BY <1>1 DEF ResultDoes, Read, Goes, Calls, Same, Ended, StoresVerdict, Storing,
              InTransition
<1>2. CASE l.pc = "r_store"
  <2>1. /\ Goes(l, m, "r_commit") /\ db'.result[t] = StateOf(db', t)
        /\ \A u \in Tasks : u # t => db'.result[u] = db.result[u]
    BY <1>2 DEF ResultDoes, Storing, Apart, SameRows, SameResult, SameState
  <2> QED BY <2>1 DEF Goes, StoresVerdict, Storing, InTransition
<1>3. CASE l.pc \in {"r_commit", "r_file"}
  BY <1>3 DEF ResultDoes, Read, Goes, StoresVerdict, Storing, InTransition
<1> QED BY <1>1, <1>2, <1>3

\* A step of a thread.
LEMMA ThreadStores ==
  ASSUME Settling, TypeInv, VerdictInv, StoredInv, NEW w \in Threads, Does(w)
  PROVE  StoresVerdict(thread'[w])
<1> DEFINE l == thread[w]
           m == thread'[w]
           t == Task(w)
<1>1. VerdictOK(l, db) /\ Storing(l, db)
  BY DEF VerdictInv, StoredInv
<1>2. l.pc \in PCs /\ l \in Locals /\ ThreadOK(l) /\ l.task = t
  BY DEF TypeInv, TypeOK, Locals, Task
<1>3. CASE l.pc = "return"
  BY <1>3, NoResultStored DEF Does, Read, Ended, Aside, InTransition
<1>4. CASE l.pc = "idle"
  BY <1>4, NoResultStored DEF Does, Read, Starts, Aside, InTransition
<1>5. CASE l.pc \in {"to_list", "to_next"}
  BY <1>5, TimeoutsStore DEF Does
<1>6. CASE l.pc \notin {"return", "idle", "to_list", "to_next"}
  <2>1. t \in Tasks
    BY <1>6, Serving
  <2>2. l.pc \notin {"x_read", "x_idem", "x_result", "x_queue", "x_audit",
                     "x_task", "x_files", "rj_read", "rj_row", "rj_state",
                     "ra_write"}
    BY <1>1 DEF VerdictOK
  <2> QED BY <1>1, <1>2, <1>6, <2>1, <2>2, TransactStores, SubmitStores,
             ProcessStores, DispatchStores, ResultStores, CancelStores
          DEF Does, PCs, InTransition
<1> QED BY <1>3, <1>4, <1>5, <1>6

LEMMA OthersStore ==
  ASSUME TypeInv, VerdictInv, StoredInv, OneByOne, NEW w \in Threads, Does(w),
         NEW v \in Threads, v # w, thread'[v] = thread[v]
  PROVE  Storing(thread'[v], db')
<1> DEFINE k == thread[v]
<1>1. /\ Storing(k, db) /\ VerdictOK(thread[w], db) /\ thread[w].pc \in PCs
      /\ thread'[v] = k
  BY LocalsTyped DEF VerdictInv, StoredInv, Locals
<1>2. CASE At(w, "return")
  BY <1>1, <1>2 DEF Does, Read, At
<1>3. CASE k.pc \in {"idle", "to_list", "to_next", "return"}
  BY <1>1, <1>3 DEF Storing, InTransition
<1>4. CASE ~At(w, "return") /\ k.pc \notin {"idle", "to_list", "to_next", "return"}
  <2>1. k.task \in Tasks /\ k.task # Task(w)
    BY <1>4, TheirTask DEF Task
  <2>2. thread[w].pc \notin {"x_read", "x_idem", "x_result", "x_queue", "x_audit",
                             "x_task", "x_files", "rj_read", "rj_row",
                             "rj_state", "ra_write"}
    BY <1>1 DEF VerdictOK
  <2>3. StateOf(db', k.task) = StateOf(db, k.task)
    BY <1>1, <2>1, <2>2, OtherStates
  <2> HIDE DEF k
  <2> QED BY <1>1, <2>3 DEF Storing
<1> QED BY <1>2, <1>3, <1>4

LEMMA StoredStep ==
  ASSUME Settling, TypeInv, VerdictInv, StoredInv, OneByOne, [Next]_vars
  PROVE  StoredInv'
<1>1. CASE \E w \in Threads :
             Does(w) /\ \A v \in Threads : v # w => thread'[v] = thread[v]
  <2>1. PICK w \in Threads :
               Does(w) /\ \A v \in Threads : v # w => thread'[v] = thread[v]
    BY <1>1
  <2>2. VerdictKept(thread'[w]) /\ StoresVerdict(thread'[w])
    BY <2>1, ThreadVerdict, ThreadStores
  <2>3. ASSUME NEW u \in Tasks, db'.result[u] # NoResult
        PROVE  StateOf(db', u) = db'.result[u]
    <3>1. CASE db'.result[u] = StateOf(db', u)
      BY <3>1
    <3>2. CASE db'.result[u] = db.result[u]
      <4>1. StateOf(db, u) = db.result[u] /\ db.result[u] \in RunStatus
        BY <2>3, <3>2, StoreTyped DEF StoredInv, ResultsMatch, Store
      <4>2. StateOf(db, u) \in Terminal
        BY <4>1, TerminalStates DEF RunStatus
      <4> QED BY <2>2, <3>2, <4>1, <4>2 DEF VerdictKept
    <3> QED BY <2>2, <3>1, <3>2 DEF StoresVerdict
  <2>4. ResultsMatch(db') /\ ResultsMatch(disk')
    BY <2>2, <2>3 DEF VerdictKept, StoredInv, ResultsMatch
  <2>5. \A v \in Threads : Storing(thread'[v], db')
    BY <2>1, <2>2, OthersStore DEF StoresVerdict
  <2> QED BY <2>4, <2>5 DEF StoredInv
<1>2. CASE db' = disk /\ disk' = disk /\ thread' = [w \in Threads |-> Idle]
  BY <1>2 DEF Idle, StoredInv, ResultsMatch, Storing, InTransition
<1>3. CASE UNCHANGED <<db, disk, thread>>
  BY <1>3 DEF StoredInv, ResultsMatch, Storing, StateOf, InTransition
<1> QED BY <1>1, <1>2, <1>3, NextDoes

LEMMA StoredInit ==
  ASSUME Init
  PROVE  StoredInv
BY DEF Init, EmptyStore, Idle, StoredInv, ResultsMatch, Storing, InTransition

\* A stored result is the verdict of its task, at every moment and after every
\* crash, whatever is delivered again, for any number of tasks and threads, while
\* the requests about a task do not overlap (service.py:219-245).
THEOREM StoredResultIsTheVerdictHolds ==
  ASSUME Settling
  PROVE  Spec /\ []OneByOne => []StoredResultIsTheVerdict
<1>1. Init => TypeInv /\ VerdictInv /\ StoredInv
  BY InitType, VerdictInit, StoredInit
<1>2. TypeInv /\ VerdictInv /\ StoredInv /\ OneByOne /\ [Next]_vars
        => (TypeInv /\ VerdictInv /\ StoredInv)'
  BY NextType, VerdictStep, StoredStep
<1>3. StoredInv => StoredResultIsTheVerdict
  BY DEF StoredInv, ResultsMatch, StoredResultIsTheVerdict, StateOf
<1> QED BY <1>1, <1>2, <1>3, PTL DEF Spec
-----------------------------------------------------------------------------
(* Executions.  A queue row counts the attempts that are over; Hermes may    *)
(* have started one execution more while the row is dispatched.  A row whose *)
(* last attempt fails is not queued again.                                   *)

WorkRow(row, n) ==
  /\ n <= MaxAttempts
  /\ row.status = "none" => n = 0
  /\ row.status \in {"queued", "running"}
       => n <= row.attempts /\ row.attempts < MaxAttempts
  /\ row.status = "dispatched"
       => n <= row.attempts + 1 /\ row.attempts < MaxAttempts

\* s is the store and n the number of executions of each task.
WorkOK(l, s, n) ==
  /\ \A t \in Tasks : WorkRow(s.queue[t], n[t])
  /\ l.pc = "d_submit" => n[l.task] <= s.queue[l.task].attempts
  /\ (l.caught /\ l.pc # "return") \/ l.pc \in {"e_dead", "e_state", "e_retry"}
       => l.attempts = s.queue[l.task].attempts
  /\ l.pc \in {"idle", "to_list", "to_next", "c_read"} => ~l.caught
  /\ l.pc \notin {"x_read", "x_idem", "x_result", "x_queue", "x_audit", "x_task",
                  "x_files"}

WorkInv ==
  /\ \A t \in Tasks : WorkRow(db.queue[t], runs[t])
  /\ \A w \in Threads : WorkOK(thread[w], db, runs)

\* Numbers, for the arithmetic.
LEMMA WorkTyped ==
  ASSUME TypeInv, NEW t \in Tasks
  PROVE  db.queue[t].attempts \in Nat /\ runs[t] \in Nat /\ MaxAttempts \in Nat \ {0}
<1>1. db.queue[t] \in QueueRow \cup {NoQueueRow}
  BY StoreTyped DEF Store
<1> QED BY <1>1, StoreAssumption DEF TypeInv, TypeOK, QueueRow, NoQueueRow

SameQueue(s, s2) == \A u \in Tasks : s2.queue[u] = s.queue[u]

LEMMA OneTaskSameQueue ==
  ASSUME NEW s, NEW s2, NEW t, Apart(s, s2, t), SameRow(s, s2, t)
  PROVE  SameQueue(s, s2)
BY DEF Apart, SameRows, SameRow, SameQueue

\* The row of a task is rewritten, if there is one; the others stay.
LEMMA SetsRowWork ==
  ASSUME TypeInv, NEW s2, NEW t \in Tasks, NEW status, NEW worker, NEW attempts,
         SetsRow(db, s2, t, status, worker, attempts),
         \A u \in Tasks : WorkRow(db.queue[u], runs[u]),
         status \in {"queued", "running"}
           => runs[t] <= attempts /\ attempts < MaxAttempts,
         status = "dispatched"
           => runs[t] <= attempts + 1 /\ attempts < MaxAttempts,
         status # "none"
  PROVE  \A u \in Tasks : WorkRow(s2.queue[u], runs[u])
<1>1. \A u \in Tasks : u # t => s2.queue[u] = db.queue[u]
  BY DEF SetsRow, Apart, SameRows, SameRow
<1>2. WorkRow(s2.queue[t], runs[t])
  BY DEF SetsRow, SameRow, StatusOf, WorkRow
<1> QED BY <1>1, <1>2

LEMMA TransactWork ==
  ASSUME NEW l, NEW m, NEW t \in Tasks, NEW actor, l.task = t,
         TransactDoes(l, m, t, actor), InTransition(l), CallOK(l, db),
         WorkOK(l, db, runs), runs' = runs
  PROVE  WorkOK(m, db', runs')
<1>1. SameQueue(db, db')
  BY NothingDone, OneTaskSameQueue
     DEF TransactDoes, InTransition, Read, SameRows, SetsState, Adds
<1>2. CASE l.pc = "t_read"
  BY <1>1, <1>2
     DEF TransactDoes, Goes, Same, Raises, Caught, Ended, WorkOK, SameQueue
<1>3. CASE l.pc = "t_write"
  BY <1>1, <1>3 DEF TransactDoes, Goes, Same, WorkOK, SameQueue
<1>4. CASE l.pc = "t_commit"
  <2>1. l.then \in {"submit_validated", "submit_decided", "enqueue_row", "d_read",
                    "d_running", "r_store", "return"}
    BY <1>4 DEF CallOK, InTransition
  <2> QED BY <1>1, <1>4, <2>1
          DEF TransactDoes, Returns, Goes, Calls, Same, WorkOK, SameQueue
<1> QED BY <1>2, <1>3, <1>4 DEF InTransition

LEMMA SubmitWork ==
  ASSUME TypeInv, NEW l, NEW m, NEW t \in Tasks, l.task = t, SubmitDoes(l, m, t),
         l.pc \in {"submit_lookup", "submit_create", "submit_idem",
                   "enqueue_row"},
         PointOK(l, db), WorkOK(l, db, runs), runs' = runs
  PROVE  WorkOK(m, db', runs')
<1>1. CASE l.pc = "submit_lookup"
  BY <1>1 DEF SubmitDoes, Read, Goes, Same, WorkOK
<1>2. CASE l.pc = "submit_create"
  <2>1. CASE db' = db /\ Ended(m)
    BY <2>1 DEF Ended, WorkOK
  <2>2. CASE Creates(l, m, t)
    <3>1. SameQueue(db, db') /\ ~m.caught /\ m.pc \in {"t_read", "submit_idem"}
      BY <1>2, <2>2, OneTaskSameQueue DEF Creates, PointOK
    <3> QED BY <3>1 DEF WorkOK, SameQueue
  <2> QED BY <1>2, <2>1, <2>2 DEF SubmitDoes
<1>3. CASE l.pc = "submit_idem"
  <2>1. CASE db' = db /\ Ended(m)
    BY <2>1 DEF Ended, WorkOK
  <2>2. CASE /\ Calls(l, m, "validating", "submit_validated")
             /\ Apart(db, db', t) /\ SameRow(db, db', t)
    <3>1. SameQueue(db, db') /\ ~m.caught /\ m.pc = "t_read"
      BY <1>3, <2>2, OneTaskSameQueue DEF Calls, Same, PointOK
    <3> QED BY <3>1 DEF WorkOK, SameQueue
  <2> QED BY <1>3, <2>1, <2>2 DEF SubmitDoes
<1>4. CASE l.pc = "enqueue_row"
  <2>1. PICK row : PutsRow(db, db', t, row) /\ row.status = "queued" /\ row.attempts = 0
    BY <1>4 DEF SubmitDoes
  <2>2. runs[t] = 0 /\ ~l.caught
    BY <1>4 DEF PointOK, WorkOK, WorkRow, StatusOf
  <2>3. \A u \in Tasks : WorkRow(db'.queue[u], runs[u])
    <3>1. WorkRow(db'.queue[t], runs[t])
      BY <2>1, <2>2, WorkTyped DEF PutsRow, WorkRow
    <3>2. \A u \in Tasks : u # t => db'.queue[u] = db.queue[u]
      BY <2>1 DEF PutsRow, Apart, SameRows, SameRow
    <3> QED BY <3>1, <3>2 DEF WorkOK
  <2>4. ~m.caught /\ m.pc \in {"pq_read", "d_ready"}
    BY <1>4, <2>2 DEF SubmitDoes, Goes, Same
  <2> QED BY <2>3, <2>4 DEF WorkOK
<1> QED BY <1>1, <1>2, <1>3, <1>4

LEMMA ProcessWork ==
  ASSUME TypeInv, NEW l, NEW m, NEW t \in Tasks, l.task = t, ProcessDoes(l, m, t),
         ThreadOK(l),
         l.pc \in {"pq_read", "claim_read", "claim_write", "e_dead", "e_state",
                   "e_retry"},
         PointOK(l, db), WorkOK(l, db, runs), runs' = runs
  PROVE  WorkOK(m, db', runs')
<1>0. /\ db.queue[t].attempts \in Nat /\ runs[t] \in Nat
      /\ MaxAttempts \in Nat \ {0}
      /\ \A u \in Tasks : WorkRow(db.queue[u], runs[u])
  BY WorkTyped DEF WorkOK
<1>1. CASE l.pc = "pq_read"
  BY <1>1 DEF ProcessDoes, Read, Ended, Goes, Same, WorkOK, PointOK
<1>2. CASE l.pc = "claim_read"
  BY <1>2 DEF ProcessDoes, Read, Ended, Goes, Same, WorkOK, PointOK
<1>3. CASE l.pc = "claim_write"
  <2>1. SetsRow(db, db', t, StatusOf(db, t), l.worker, db.queue[t].attempts)
    BY <1>3 DEF ProcessDoes
  <2>2. /\ \A u \in Tasks : u # t => db'.queue[u] = db.queue[u]
        /\ db'.queue[t].status = db.queue[t].status
        /\ db'.queue[t].attempts = db.queue[t].attempts
    BY <2>1 DEF SetsRow, Apart, SameRows, SameRow, StatusOf
  <2>3. \A u \in Tasks : WorkRow(db'.queue[u], runs[u])
    BY <1>0, <2>2 DEF WorkRow
  <2> QED BY <1>3, <2>2, <2>3 DEF ProcessDoes, Ended, WorkOK
<1>4. CASE l.pc = "e_dead"
  <2>1. \A u \in Tasks : WorkRow(db'.queue[u], runs[u])
    BY <1>0, <1>4, SetsRowWork DEF ProcessDoes
  <2> QED BY <1>4, <2>1 DEF ProcessDoes, Calls, Same, WorkOK, PointOK
<1>5. CASE l.pc = "e_state"
  <2>1. SameQueue(db, db')
    BY <1>5, OneTaskSameQueue DEF ProcessDoes, SetsState
  <2> QED BY <1>5, <2>1 DEF ProcessDoes, Goes, Same, WorkOK, SameQueue
<1>6. CASE l.pc = "e_retry"
  <2>1. /\ StatusOf(db, t) = "dispatched" /\ l.attempts = db.queue[t].attempts
        /\ l.attempts + 1 < MaxAttempts
    BY <1>6 DEF PointOK, WorkOK, ThreadOK
  <2>2. runs[t] <= l.attempts + 1
    BY <1>0, <2>1 DEF StatusOf, WorkRow
  <2>3. \A u \in Tasks : WorkRow(db'.queue[u], runs[u])
    BY <1>0, <1>6, <2>1, <2>2, SetsRowWork DEF ProcessDoes
  <2> QED BY <1>6, <2>3 DEF ProcessDoes, Goes, WorkOK
<1> QED BY <1>1, <1>2, <1>3, <1>4, <1>5, <1>6

LEMMA DispatchWork ==
  ASSUME TypeInv, NEW l, NEW m, NEW t \in Tasks, l.task = t, DispatchDoes(l, m, t),
         TypeInv',
         l.pc \in {"d_read", "d_ready", "d_running", "d_dispatched", "d_submit",
                   "d_wait"},
         PointOK(l, db), WorkOK(l, db, runs)
  PROVE  WorkOK(m, db', runs')
<1>0. /\ db.queue[t].attempts \in Nat /\ runs[t] \in Nat
      /\ MaxAttempts \in Nat \ {0}
      /\ \A u \in Tasks : WorkRow(db.queue[u], runs[u])
  BY WorkTyped DEF WorkOK
<1>1. CASE l.pc \in {"d_read", "d_ready", "d_wait"}
  BY <1>1 DEF DispatchDoes, Read, Goes, Calls, Same, Raises, Caught, Ended, WorkOK
<1>2. CASE l.pc = "d_running"
  <2>1. /\ StatusOf(db, t) = "queued" /\ runs' = runs
        /\ SetsRow(db, db', t, "running", db.queue[t].worker, db.queue[t].attempts)
    BY <1>2 DEF PointOK, DispatchDoes
  <2>2. \A u \in Tasks : WorkRow(db'.queue[u], runs[u])
    BY <1>0, <2>1, SetsRowWork DEF WorkRow, StatusOf
  <2> QED BY <1>2, <2>1, <2>2 DEF DispatchDoes, SetsRow, Goes, Same, WorkOK
<1>3. CASE l.pc = "d_dispatched"
  <2>1. /\ StatusOf(db, t) = "running" /\ runs' = runs
        /\ SetsRow(db, db', t, "dispatched", db.queue[t].worker,
                   db.queue[t].attempts)
    BY <1>3 DEF PointOK, DispatchDoes
  <2>2. runs[t] <= db.queue[t].attempts /\ db.queue[t].attempts < MaxAttempts
    BY <1>0, <2>1 DEF WorkRow, StatusOf
  <2>3. \A u \in Tasks : WorkRow(db'.queue[u], runs[u])
    BY <1>0, <2>1, <2>2, SetsRowWork
  <2> QED BY <1>3, <2>1, <2>2, <2>3 DEF DispatchDoes, SetsRow, Goes, Same, WorkOK
<1>4. CASE l.pc = "d_submit"
  <2>1. db' = db
    BY <1>4 DEF DispatchDoes, Read
  <2>2. CASE runs' = runs
    BY <1>4, <2>1, <2>2
       DEF DispatchDoes, Goes, Same, Raises, Caught, Ended, WorkOK
  <2>3. CASE /\ Goes(l, m, "d_wait") /\ runs'[t] <= runs[t] + 1
             /\ \A u \in Tasks : u # t => runs'[u] = runs[u]
    <3>1. /\ StatusOf(db, t) = "dispatched" /\ runs[t] <= db.queue[t].attempts
          /\ db.queue[t].attempts < MaxAttempts
      BY <1>0, <1>4 DEF PointOK, WorkOK, WorkRow, StatusOf
    <3>2. runs'[t] \in Nat
      BY DEF TypeInv, TypeOK
    <3>3. WorkRow(db.queue[t], runs'[t])
      BY <1>0, <2>3, <3>1, <3>2 DEF WorkRow, StatusOf
    <3> QED BY <1>0, <1>4, <2>1, <2>3, <3>3 DEF Goes, Same, WorkOK
  <2> QED BY <1>4, <2>2, <2>3 DEF DispatchDoes
<1> QED BY <1>1, <1>2, <1>3, <1>4

LEMMA ResultWork ==
  ASSUME NEW l, NEW m, NEW t \in Tasks, l.task = t, ResultDoes(l, m, t),
         l.pc \in {"r_read", "r_store", "r_commit", "r_file"},
         WorkOK(l, db, runs), runs' = runs
  PROVE  WorkOK(m, db', runs')
<1>1. SameQueue(db, db')
  BY OneTaskSameQueue DEF ResultDoes, Read, SameQueue
<1> QED BY <1>1 DEF ResultDoes, Goes, Calls, Same, Ended, WorkOK, SameQueue

LEMMA CancelWork ==
  ASSUME TypeInv, NEW l, NEW m, NEW t \in Tasks, l.task = t, CancelDoes(l, m, t),
         l.pc \in {"c_read", "c_state", "c_row"},
         WorkOK(l, db, runs), runs' = runs
  PROVE  WorkOK(m, db', runs')
<1>1. CASE l.pc = "c_read"
  BY <1>1 DEF CancelDoes, Read, Goes, Same, Ended, WorkOK
<1>2. CASE l.pc = "c_state"
  <2>1. SameQueue(db, db')
    BY <1>2, OneTaskSameQueue DEF CancelDoes, SetsState
  <2> QED BY <1>2, <2>1 DEF CancelDoes, Goes, Same, WorkOK, SameQueue
<1>3. CASE l.pc = "c_row"
  <2>1. PICK marked \in Store :
          /\ marked = db \/ SetsRow(db, marked, t, "cancelled",
                                    db.queue[t].worker, db.queue[t].attempts)
          /\ Adds(marked, db', t, {<<"task_cancelled", "client">>})
    BY <1>3 DEF CancelDoes
  <2>2. \A u \in Tasks : WorkRow(marked.queue[u], runs[u])
    BY <2>1, SetsRowWork DEF WorkOK
  <2>3. SameQueue(marked, db')
    BY <2>1, OneTaskSameQueue DEF Adds
  <2>4. m.pc = "return"
    BY <1>3 DEF CancelDoes, Goes
  <2> QED BY <2>2, <2>3, <2>4 DEF WorkOK, SameQueue
<1> QED BY <1>1, <1>2, <1>3

LEMMA TimeoutsWork ==
  ASSUME TypeInv, NEW l, NEW m, NEW t, OperateDoes(l, m, t),
         l.pc \in {"to_list", "to_next"}, WorkOK(l, db, runs), runs' = runs
  PROVE  WorkOK(m, db', runs')
<1>1. CASE db' = db
  BY <1>1 DEF OperateDoes, Goes, Same, WorkOK
<1>2. CASE db' # db
  <2>1. /\ m.task \in Tasks /\ m.pc = "t_read" /\ ~m.caught
        /\ SetsRow(db, db', m.task, "timed_out", db.queue[m.task].worker,
                   db.queue[m.task].attempts)
    BY <1>2 DEF OperateDoes, Read, WorkOK
  <2>2. \A u \in Tasks : WorkRow(db'.queue[u], runs[u])
    BY <2>1, SetsRowWork DEF WorkOK
  <2> QED BY <2>1, <2>2 DEF WorkOK
<1> QED BY <1>1, <1>2

LEMMA WorkInit ==
  ASSUME Init
  PROVE  WorkInv
BY StoreAssumption
   DEF Init, EmptyStore, NoQueueRow, Idle, WorkInv, WorkOK, WorkRow

\* A step of a thread.
LEMMA ThreadWorks ==
  ASSUME TypeInv, TypeInv', SerialInv, WorkInv, "delete" \notin Ops,
         NEW w \in Threads, Does(w)
  PROVE  WorkOK(thread'[w], db', runs')
<1> DEFINE l == thread[w]
           m == thread'[w]
           t == Task(w)
<1>1. WorkOK(l, db, runs) /\ PointOK(l, db) /\ CallOK(l, db)
  BY DEF WorkInv, SerialInv, Story
<1>2. l.pc \in PCs /\ l \in Locals /\ ThreadOK(l) /\ l.task = t
  BY DEF TypeInv, TypeOK, Locals, Task
<1>3. l.pc # "d_submit" => runs' = runs
  BY DEF Does, DispatchDoes
<1>4. CASE l.pc = "return"
  BY <1>1, <1>3, <1>4 DEF Does, Read, Ended, WorkOK
<1>5. CASE l.pc = "idle"
  BY <1>1, <1>3, <1>5 DEF Does, Read, Starts, WorkOK
<1>6. CASE l.pc \in {"to_list", "to_next"}
  BY <1>1, <1>3, <1>6, TimeoutsWork DEF Does
<1>7. CASE l.pc \notin {"return", "idle", "to_list", "to_next"}
  <2>1. t \in Tasks
    BY <1>7, Serving
  <2>2. l.pc \notin {"x_read", "x_idem", "x_result", "x_queue", "x_audit",
                     "x_task", "x_files", "rj_read", "rj_row", "rj_state",
                     "ra_write"}
    BY <1>1 DEF WorkOK, PointOK
  <2> QED BY <1>1, <1>2, <1>3, <1>7, <2>1, <2>2, TransactWork, SubmitWork,
             ProcessWork, DispatchWork, ResultWork, CancelWork
          DEF Does, PCs, InTransition
<1> QED BY <1>4, <1>5, <1>6, <1>7

\* The threads that wait: their rows and executions stay.
LEMMA OthersWork ==
  ASSUME TypeInv, WorkInv, OneByOne, NEW w \in Threads, Does(w), Serves(w),
         WorkOK(thread'[w], db', runs'),
         NEW v \in Threads, v # w, thread'[v] = thread[v]
  PROVE  WorkOK(thread'[v], db', runs')
<1> DEFINE k == thread[v]
<1>1. /\ WorkOK(k, db, runs) /\ \A u \in Tasks : WorkRow(db'.queue[u], runs'[u])
      /\ thread'[v] = k
  BY DEF WorkInv, WorkOK
<1>2. CASE k.pc \in {"idle", "to_list", "to_next", "return"}
  BY <1>1, <1>2 DEF WorkOK
<1>3. CASE /\ k.pc \notin {"idle", "to_list", "to_next", "return"}
           /\ At(w, "return")
  <2>1. db' = db /\ runs' = runs
    BY <1>3 DEF Does, DispatchDoes, Read, At
  <2> QED BY <1>1, <2>1
<1>4. CASE /\ k.pc \notin {"idle", "to_list", "to_next", "return"}
           /\ ~At(w, "return")
  <2>1. k.task \in Tasks /\ k.task # Task(w)
    BY <1>4, TheirTask DEF Task
  <2>2. db'.queue[k.task] = db.queue[k.task]
    BY <2>1 DEF Serves, Apart, SameRows, SameRow
  <2>3. runs'[k.task] = runs[k.task]
    BY <2>1 DEF Does, DispatchDoes
  <2> HIDE DEF k
  <2> QED BY <1>1, <2>2, <2>3 DEF WorkOK
<1> QED BY <1>2, <1>3, <1>4

LEMMA WorkStep ==
  ASSUME Serial, "delete" \notin Ops, TypeInv, SerialInv, OneByOne, OneByOne',
         WorkInv, [Next]_vars
  PROVE  WorkInv'
<1>1. CASE \E w \in Threads :
             /\ Request(w) \/ Serve(w)
             /\ Does(w)
             /\ \A v \in Threads : v # w => thread'[v] = thread[v]
  <2>1. PICK w \in Threads :
             /\ Request(w) \/ Serve(w)
             /\ Does(w)
             /\ \A v \in Threads : v # w => thread'[v] = thread[v]
    BY <1>1
  <2>2. TypeInv' /\ Serves(w)
    BY <2>1, NextType, ThreadServes DEF Serial
  <2>3. WorkOK(thread'[w], db', runs')
    BY <2>1, <2>2, ThreadWorks
  <2>4. \A v \in Threads : WorkOK(thread'[v], db', runs')
    BY <2>1, <2>2, <2>3, OthersWork
  <2> QED BY <2>3, <2>4 DEF WorkInv, WorkOK
<1>2. CASE UNCHANGED <<db, disk, thread, runs>>
  BY <1>2 DEF WorkInv, WorkOK, WorkRow
<1>3. ~(crashes < MaxCrashes)
  BY DEF Serial, TypeInv, TypeOK
<1> QED BY <1>1, <1>2, <1>3, NextDoes

\* Hermes executes a task at most queue_max_attempts times, for any number of
\* tasks and workers: a row is queued again only with the attempt counted, and
\* dead-lettered when that was the last one (service.py:169-193).
THEOREM ExecutionsBoundedHolds ==
  ASSUME Serial, "delete" \notin Ops
  PROVE  Spec /\ []OneByOne => []ExecutionsBounded
<1>1. Init => WorkInv
  BY WorkInit
<1>2. TypeInv /\ SerialInv /\ OneByOne /\ OneByOne' /\ WorkInv /\ [Next]_vars
        => WorkInv'
  BY WorkStep
<1>3. WorkInv => ExecutionsBounded
  BY DEF WorkInv, WorkOK, WorkRow, ExecutionsBounded
<1> QED BY <1>1, <1>2, <1>3, Serially, PTL DEF Spec
=============================================================================
