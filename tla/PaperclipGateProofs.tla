------------------------ MODULE PaperclipGateProofs ------------------------
(***************************************************************************)
(* ApprovalGate is an invariant of PaperclipService, for any number of     *)
(* tasks, threads and workers, any interleaving and any crash, as long as  *)
(* no task is deleted: a delete takes the approval of a task away while    *)
(* Hermes executes it.                                                     *)
(*                                                                         *)
(* The argument: approvals are never taken back and survive what a thread  *)
(* does to the task (Keeps), so a thread that once saw a cleared task may  *)
(* rely on it at any later point of the code (Relies).                     *)
(***************************************************************************)
EXTENDS PaperclipProofs

\* The task exists and whoever had to approve it did.
Sound(s, t) == t \in Tasks /\ HasTask(s, t) /\ Cleared(s, t)

\* Tasks stay, keep what their request asked for, and keep their approval.
Keeps(s, s2) ==
  \A t \in Tasks : HasTask(s, t) =>
    /\ HasTask(s2, t)
    /\ s2.task[t].review = s.task[t].review
    /\ t \in s.granted => t \in s2.granted

\* The task has got past its approval in a table.
Past(s, t) == s.task[t].state \in PostApproval \/ HasRow(s, t)

Gate(s) == \A t \in Tasks : Past(s, t) => Sound(s, t)

\* A statement that takes at most task t past its approval.
Touches(s, s2, t) ==
  Keeps(s, s2) /\ \A u \in Tasks : Past(s2, u) => Past(s, u) \/ u = t

\* A statement that takes no task past its approval.
Mild(s, s2) ==
  Keeps(s, s2) /\ \A u \in Tasks : Past(s2, u) => Past(s, u)

\* Points of the code a thread reaches only with a cleared task.
ClearedPCs == {"enqueue_row", "d_running", "d_dispatched", "d_submit",
               "e_dead", "e_state", "rj_row", "rj_state"}

DeletePCs == {"x_read", "x_idem", "x_result", "x_queue", "x_audit", "x_task"}

\* What a thread with locals l relies on, in the tables s and on the disk d.
Relies(l, s, d) ==
  /\ l.pc \in ClearedPCs \/ l.caught => Sound(s, l.task)
  /\ l.pc \in {"d_running", "d_dispatched", "d_submit"} => Sound(d, l.task)
  /\ l.pc = "t_write" /\ l.target \in PostApproval
       => Sound(s, l.task) \/ (l.target = "approved" /\ l.op = "approve")
  /\ l.pc = "t_commit" /\ l.target \in PostApproval => Sound(s, l.task)
  /\ InTransition(l) =>
       /\ HasTask(s, l.task) \/ l.pc = "t_read"
       /\ l.target = "approved" => l.op = "approve" \/ Sound(s, l.task)
       /\ l.then = "enqueue_row" => l.target = "queued"
       /\ l.then = "d_running" => l.target = "running"
       /\ l.then \in {"submit_validated", "submit_decided"} /\ l.goal = "approved"
            => Sound(s, l.task)
       /\ l.then = "to_next" => ~l.caught
  /\ l.pc = "submit_idem" /\ l.goal = "approved" => Sound(s, l.task)
  /\ l.pc \in {"submit_lookup", "to_list", "to_next"} => ~l.caught
  /\ l.pc \notin DeletePCs

\* The inductive invariant.
GateInv ==
  /\ Keeps(disk, db)
  /\ Gate(db)
  /\ Gate(disk)
  /\ \A t \in Tasks : runs[t] > 0 => Sound(disk, t)
  /\ \A w \in Threads : Relies(thread[w], db, disk)

-----------------------------------------------------------------------------
(* Keeping approvals *)

LEMMA KeepsReflexive == ASSUME NEW s PROVE Keeps(s, s)
BY DEF Keeps

LEMMA KeepsTransitive ==
  ASSUME NEW s, NEW s2, NEW s3, Keeps(s, s2), Keeps(s2, s3)
  PROVE  Keeps(s, s3)
<1> SUFFICES ASSUME NEW t \in Tasks, HasTask(s, t)
             PROVE  /\ HasTask(s3, t)
                    /\ s3.task[t].review = s.task[t].review
                    /\ t \in s.granted => t \in s3.granted
  BY DEF Keeps
<1>1. /\ HasTask(s2, t)
      /\ s2.task[t].review = s.task[t].review
      /\ t \in s.granted => t \in s2.granted
  BY DEF Keeps
<1>2. /\ HasTask(s3, t)
      /\ s3.task[t].review = s2.task[t].review
      /\ t \in s2.granted => t \in s3.granted
  BY <1>1 DEF Keeps
<1> QED BY <1>1, <1>2

LEMMA SoundKept ==
  ASSUME NEW s, NEW s2, Keeps(s, s2), NEW t, Sound(s, t)
  PROVE  Sound(s2, t)
BY DEF Keeps, Sound, Cleared

\* What a thread relies on, it may go on relying on.
LEMMA ReliesKept ==
  ASSUME NEW l, ThreadOK(l), NEW s, NEW s2, Keeps(s, s2),
         NEW d, NEW d2, Keeps(d, d2), Relies(l, s, d)
  PROVE  Relies(l, s2, d2)
<1>1. /\ Sound(s, l.task) => Sound(s2, l.task)
      /\ Sound(d, l.task) => Sound(d2, l.task)
  BY SoundKept
<1>2. InTransition(l) /\ HasTask(s, l.task) => HasTask(s2, l.task)
  BY DEF ThreadOK, NamesTask, InTransition, Keeps
<1> HIDE DEF Sound, HasTask, InTransition
<1> QED BY <1>1, <1>2 DEF Relies

LEMMA MildKeepsGate ==
  ASSUME NEW s, NEW s2, Gate(s), Mild(s, s2)
  PROVE  Keeps(s, s2) /\ Gate(s2)
BY SoundKept DEF Gate, Mild

LEMMA TouchesKeepsGate ==
  ASSUME NEW s, NEW s2, NEW t, Gate(s), Touches(s, s2, t), Sound(s2, t)
  PROVE  Keeps(s, s2) /\ Gate(s2)
BY SoundKept DEF Gate, Touches

-----------------------------------------------------------------------------
(* What the statements of PaperclipStore do to approvals *)

\* No UPDATE of task_queue makes a row.
LEMMA UpdateRowMild ==
  ASSUME NEW s \in Store, NEW t \in Tasks, NEW row
  PROVE  Mild(s, UpdateRow(s, t, row))
<1>1. CASE HasRow(s, t)
  <2> DEFINE s2 == UpdateRow(s, t, row)
  <2>1. /\ s2.task = s.task /\ s2.granted = s.granted
        /\ s2.queue = [s.queue EXCEPT ![t] = row]
    BY <1>1 DEF UpdateRow, Store
  <2>2. \A u \in Tasks : u # t => s2.queue[u] = s.queue[u]
    BY <2>1 DEF Store
  <2> HIDE DEF s2
  <2>3. Mild(s, s2)
    BY <1>1, <2>1, <2>2 DEF Mild, Keeps, Past, HasTask, HasRow
  <2> QED BY <2>3 DEF s2
<1>2. CASE ~HasRow(s, t)
  BY <1>2, KeepsReflexive DEF UpdateRow, Mild
<1> QED BY <1>1, <1>2

LEMMA OtherTablesMild ==
  ASSUME NEW s \in Store, NEW t \in Tasks, NEW k \in Keys, NEW status
  PROVE  /\ Mild(s, StoreResult(s, t, status))
         /\ Mild(s, CreateIdempotencyRecord(s, k, t))
BY DEF StoreResult, CreateIdempotencyRecord, Mild, Keeps, Past, HasTask, HasRow,
       Store

LEMMA AddAuditMild ==
  ASSUME NEW s \in Store, NEW t \in Tasks, NEW event, NEW actor
  PROVE  Mild(s, AddAudit(s, t, event, actor))
BY DEF AddAudit, Mild, Keeps, Past, HasTask, HasRow, Store

\* A human's approval is never taken back.
LEMMA GrantMild ==
  ASSUME NEW s \in Store, NEW t \in Tasks
  PROVE  /\ Mild(s, Grant(s, t))
         /\ HasTask(s, t) => t \in Grant(s, t).granted
BY DEF Grant, Mild, Keeps, Past, HasTask, HasRow, Store

\* A write of the state keeps the request and the audit events of the task.
LEMMA StateWrite ==
  ASSUME NEW s \in Store, NEW t \in Tasks, HasTask(s, t), NEW row \in TaskRow,
         row.review = s.task[t].review,
         NEW s2, s2.task = [s.task EXCEPT ![t] = row],
         s2.queue = s.queue, s2.granted = s.granted
  PROVE  /\ Touches(s, s2, t)
         /\ row.state \notin PostApproval => Mild(s, s2)
<1>1. /\ s2.task[t] = row
      /\ \A u \in Tasks : u # t => s2.task[u] = s.task[u]
  BY DEF Store
<1>2. row # NoTaskRow
  BY DEF TaskRow, NoTaskRow, States
<1>3. Keeps(s, s2)
  BY <1>1, <1>2 DEF Keeps, HasTask
<1> QED BY <1>1, <1>3 DEF Touches, Mild, Past, HasRow

LEMMA UpdateTaskStateTouches ==
  ASSUME NEW s \in Store, NEW t \in Tasks, NEW state \in States
  PROVE  /\ Touches(s, UpdateTaskState(s, t, state), t)
         /\ state \notin PostApproval => Mild(s, UpdateTaskState(s, t, state))
<1>1. CASE HasTask(s, t)
  <2> DEFINE row == [s.task[t] EXCEPT !.state = state]
             s2 == UpdateTaskState(s, t, state)
  <2>1. row \in TaskRow /\ row.review = s.task[t].review /\ row.state = state
    BY <1>1, TaskRowType DEF TaskRow
  <2>2. s2 = [s EXCEPT !.task = [@ EXCEPT ![t] = row]]
    BY <1>1 DEF UpdateTaskState
  <2> HIDE DEF row, s2
  <2>3. /\ s2.task = [s.task EXCEPT ![t] = row]
        /\ s2.queue = s.queue /\ s2.granted = s.granted
    BY <2>2 DEF Store
  <2>4. Touches(s, s2, t) /\ (state \notin PostApproval => Mild(s, s2))
    BY <1>1, <2>1, <2>3, StateWrite
  <2> QED BY <2>4 DEF s2
<1>2. CASE ~HasTask(s, t)
  BY <1>2, KeepsReflexive DEF UpdateTaskState, Touches, Mild
<1> QED BY <1>1, <1>2

LEMMA UpdateTaskApprovalTouches ==
  ASSUME NEW s \in Store, NEW t \in Tasks, NEW state \in States,
         NEW approval \in ApprovalStatus
  PROVE  /\ Touches(s, UpdateTaskApproval(s, t, state, approval), t)
         /\ state \notin PostApproval
              => Mild(s, UpdateTaskApproval(s, t, state, approval))
<1>1. CASE HasTask(s, t)
  <2> DEFINE row == [s.task[t] EXCEPT !.state = state, !.approval = approval]
             s2 == UpdateTaskApproval(s, t, state, approval)
  <2>1. row \in TaskRow /\ row.review = s.task[t].review /\ row.state = state
    BY <1>1, TaskRowType DEF TaskRow
  <2>2. s2 = [s EXCEPT !.task = [@ EXCEPT ![t] = row]]
    BY <1>1 DEF UpdateTaskApproval
  <2> HIDE DEF row, s2
  <2>3. /\ s2.task = [s.task EXCEPT ![t] = row]
        /\ s2.queue = s.queue /\ s2.granted = s.granted
    BY <2>2 DEF Store
  <2>4. Touches(s, s2, t) /\ (state \notin PostApproval => Mild(s, s2))
    BY <1>1, <2>1, <2>3, StateWrite
  <2> QED BY <2>4 DEF s2
<1>2. CASE ~HasTask(s, t)
  BY <1>2, KeepsReflexive DEF UpdateTaskApproval, Touches, Mild
<1> QED BY <1>1, <1>2

LEMMA EnqueueRowTouches ==
  ASSUME NEW s \in Store, NEW t \in Tasks, NEW time \in Nat
  PROVE  Touches(s, EnqueueRow(s, t, time), t)
<1> DEFINE s2 == EnqueueRow(s, t, time)
<1>1. s2.task = s.task /\ s2.granted = s.granted
  BY DEF EnqueueRow, Store
<1>2. \A u \in Tasks : u # t => s2.queue[u] = s.queue[u]
  BY DEF EnqueueRow, Store
<1> HIDE DEF s2
<1>3. Touches(s, s2, t)
  BY <1>1, <1>2 DEF Touches, Keeps, Past, HasTask, HasRow
<1> QED BY <1>3 DEF s2

\* A new task: it is cleared at once if nobody asked for its review.
LEMMA CreateTaskMild ==
  ASSUME NEW s \in Store, NEW t \in Tasks, ~HasTask(s, t),
         NEW approval \in ApprovalStatus, NEW review \in BOOLEAN
  PROVE  LET s2 == CreateTask(s, t, approval, review) IN
           /\ Mild(s, s2)
           /\ HasTask(s2, t)
           /\ ~review => Sound(s2, t)
<1> DEFINE row == [state |-> "received", approval |-> approval,
                    review |-> review]
           s2 == CreateTask(s, t, approval, review)
<1>1. /\ s2.granted = s.granted /\ s2.queue = s.queue
      /\ s2.task = [s.task EXCEPT ![t] = row]
  BY DEF CreateTask, Store
<1>2. row # NoTaskRow /\ row.state \notin PostApproval /\ row.review = review
  BY DEF NoTaskRow, PostApproval
<1> HIDE DEF row, s2
<1>3. s2.task[t] = row /\ \A u \in Tasks : u # t => s2.task[u] = s.task[u]
  BY <1>1 DEF Store
<1>4. Mild(s, s2)
  BY <1>1, <1>2, <1>3 DEF Mild, Keeps, Past, HasTask, HasRow
<1>5. HasTask(s2, t) /\ (~review => Sound(s2, t))
  BY <1>2, <1>3 DEF HasTask, Sound, Cleared
<1> QED BY <1>4, <1>5 DEF s2

-----------------------------------------------------------------------------
(* What a thread relies on after each kind of step *)

LEMMA QuietRelies ==
  ASSUME NEW l, NEW s, NEW d, l.caught => Sound(s, l.task),
         l.pc \notin ClearedPCs \cup DeletePCs
                       \cup {"t_read", "t_write", "t_commit", "submit_lookup",
                             "submit_create", "submit_idem", "to_list",
                             "to_next"}
  PROVE  Relies(l, s, d)
BY DEF Relies, InTransition, ClearedPCs, DeletePCs

LEMMA IdleRelies == ASSUME NEW s, NEW d PROVE Relies(Idle, s, d)
BY QuietRelies DEF Idle, ClearedPCs, DeletePCs

\* Points of the code where a thread relies on nothing new.
QuietPCs == (PlainPCs \cup {"rj_read"}) \ (ClearedPCs \cup DeletePCs)

LEMMA GotoRelies ==
  ASSUME NEW l \in Locals, NEW s, NEW d, l.caught => Sound(s, l.task),
         NEW pc \in QuietPCs
  PROVE  Relies([l EXCEPT !.pc = pc], s, d)
<1> DEFINE m == [l EXCEPT !.pc = pc]
<1>1. m.pc = pc /\ m.caught = l.caught /\ m.task = l.task
  BY DEF Locals
<1> HIDE DEF m
<1>2. Relies(m, s, d)
  BY <1>1, QuietRelies DEF QuietPCs, PlainPCs, ClearedPCs, DeletePCs
<1> QED BY <1>2 DEF m

LEMMA RaisedRelies ==
  ASSUME NEW l \in Locals, NEW s, NEW d, l.caught => Sound(s, l.task)
  PROVE  Relies(Raised(l), s, d)
<1>1. CASE l.caught
  <2> DEFINE pc == IF l.attempts + 1 >= MaxAttempts THEN "e_dead" ELSE "e_state"
             m == [l EXCEPT !.caught = FALSE, !.pc = pc]
  <2>1. m.pc \in {"e_dead", "e_state"} /\ ~m.caught /\ m.task = l.task
    BY DEF Locals
  <2>2. Raised(l) = m
    BY <1>1 DEF Raised
  <2> HIDE DEF m
  <2>3. Relies(m, s, d)
    BY <1>1, <2>1 DEF Relies, InTransition, DeletePCs
  <2> QED BY <2>2, <2>3
<1>2. CASE ~l.caught
  BY <1>2, IdleRelies DEF Raised
<1> QED BY <1>1, <1>2

LEMMA TransitionRelies ==
  ASSUME NEW l \in Locals, NEW s, NEW d, l.caught => Sound(s, l.task),
         NEW target, NEW then,
         target = "approved" => l.op = "approve" \/ Sound(s, l.task),
         then = "enqueue_row" => target = "queued",
         then = "d_running" => target = "running",
         then \in {"submit_validated", "submit_decided"} /\ l.goal = "approved"
           => Sound(s, l.task),
         then = "to_next" => ~l.caught
  PROVE  Relies(Transition(l, target, then), s, d)
<1> DEFINE m == Transition(l, target, then)
<1>1. /\ m.pc = "t_read" /\ m.target = target /\ m.then = then
      /\ m.task = l.task /\ m.op = l.op /\ m.goal = l.goal
      /\ m.caught = l.caught
  BY DEF Transition, Locals
<1> HIDE DEF m
<1>2. Relies(m, s, d)
  BY <1>1 DEF Relies, InTransition, ClearedPCs, DeletePCs
<1> QED BY <1>2 DEF m

\* A state past approval is only reached from one, or by an approval.
LEMMA FromPast ==
  ASSUME NEW current, NEW target \in PostApproval \ {"approved"},
         CanTransition(current, target)
  PROVE  current \in PostApproval
BY DEF CanTransition, AllowedTransitions, PostApproval, States

-----------------------------------------------------------------------------
(* The kinds of step keep GateInv *)

LEMMA GateStep ==
  ASSUME TypeInv, GateInv, NEW w \in Threads, NEW l, Become(w, l),
         Keeps(db, db'), Gate(db'), UNCHANGED disk \/ disk' = db',
         Relies(l, db', disk'), UNCHANGED runs
  PROVE  GateInv'
<1>1. Keeps(disk, db') /\ Keeps(disk, disk')
  BY KeepsReflexive, KeepsTransitive DEF GateInv
<1>2. Keeps(disk', db') /\ Gate(disk')
  BY <1>1, KeepsReflexive DEF GateInv
<1>3. \A t \in Tasks : runs'[t] > 0 => Sound(disk', t)
  BY <1>1, SoundKept DEF GateInv
<1>4. ASSUME NEW v \in Threads PROVE Relies(thread'[v], db', disk')
  <2>1. CASE v = w
    BY <2>1 DEF Become, TypeInv, TypeOK
  <2>2. CASE v # w
    <3>1. thread'[v] = thread[v] /\ ThreadOK(thread[v])
      BY <2>2 DEF Become, TypeInv, TypeOK
    <3> QED BY <1>1, <3>1, ReliesKept DEF GateInv
  <2> QED BY <2>1, <2>2
<1> QED BY <1>2, <1>3, <1>4 DEF GateInv

LEMMA GateReads ==
  ASSUME TypeInv, GateInv, NEW w \in Threads, NEW l, Become(w, l), Read,
         Relies(l, db, disk), UNCHANGED runs
  PROVE  GateInv'
<1>1. Keeps(db, db') /\ Gate(db') /\ Relies(l, db', disk')
  BY KeepsReflexive DEF Read, GateInv
<1> QED BY <1>1, GateStep DEF Read

LEMMA GateWrites ==
  ASSUME TypeInv, GateInv, NEW w \in Threads, NEW l, Become(w, l),
         NEW s, Write(s), Keeps(db, s), Gate(s), Relies(l, s, disk),
         UNCHANGED runs
  PROVE  GateInv'
BY GateStep DEF Write

LEMMA GateCommits ==
  ASSUME TypeInv, GateInv, NEW w \in Threads, NEW l, Become(w, l),
         NEW s, Commit(s), Keeps(db, s), Gate(s), Relies(l, s, s),
         UNCHANGED runs
  PROVE  GateInv'
BY GateStep DEF Commit

\* What a serving thread brings along.
LEMMA Relying ==
  ASSUME TypeInv, GateInv, NEW w \in Threads
  PROVE  /\ thread[w] \in Locals
         /\ Relies(thread[w], db, disk)
         /\ thread[w].caught => Sound(db, Task(w))
BY DEF TypeInv, TypeOK, GateInv, Relies, Task

LEMMA GateGoto ==
  ASSUME TypeInv, GateInv, NEW w \in Threads, NEW pc \in QuietPCs, Goto(w, pc),
         Read, UNCHANGED runs
  PROVE  GateInv'
BY Relying, GotoRelies, GateReads DEF Goto, Task

LEMMA GateRaise ==
  ASSUME TypeInv, GateInv, NEW w \in Threads, Raise(w), Read, UNCHANGED runs
  PROVE  GateInv'
BY Relying, RaisedRelies, GateReads DEF Raise, Task

LEMMA GateGiveUp ==
  ASSUME TypeInv, GateInv, NEW w \in Threads, GiveUp(w), Read, UNCHANGED runs
  PROVE  GateInv'
BY IdleRelies, GateReads DEF GiveUp

\* A statement that takes no task past its approval, then a quiet point.
LEMMA GateMild ==
  ASSUME TypeInv, GateInv, NEW w \in Threads, NEW pc \in QuietPCs, Goto(w, pc),
         NEW s, Mild(db, s), Write(s), UNCHANGED runs
  PROVE  GateInv'
<1>1. Keeps(db, s) /\ Gate(s)
  BY MildKeepsGate DEF GateInv
<1>2. thread[w].caught => Sound(s, thread[w].task)
  BY <1>1, Relying, SoundKept DEF Task
<1>3. Relies([thread[w] EXCEPT !.pc = pc], s, disk)
  BY <1>2, Relying, GotoRelies
<1> QED BY <1>1, <1>3, GateWrites DEF Goto

\* A write about a cleared task, then a quiet point.
LEMMA GateTouches ==
  ASSUME TypeInv, GateInv, NEW w \in Threads, NEW pc \in QuietPCs, Goto(w, pc),
         NEW s, Touches(db, s, Task(w)), Sound(db, Task(w)), Write(s),
         UNCHANGED runs
  PROVE  GateInv'
<1>1. Keeps(db, s) /\ Sound(s, Task(w))
  BY SoundKept DEF Touches
<1>2. Gate(s)
  BY <1>1, TouchesKeepsGate DEF GateInv
<1>3. Relies([thread[w] EXCEPT !.pc = pc], s, disk)
  BY <1>1, Relying, GotoRelies DEF Task
<1> QED BY <1>1, <1>2, <1>3, GateWrites DEF Goto

-----------------------------------------------------------------------------
(* GateInv, one lemma per group of actions *)

LEMMA RequestGate ==
  ASSUME TypeInv, GateInv, NEW w \in Threads, Request(w), "delete" \notin Ops
  PROVE  GateInv'
<1>1. ASSUME NEW op, NEW l, Start(w, op, l),
             Relies([l EXCEPT !.op = op], db, disk)
      PROVE  GateInv'
  <2> DEFINE m == [l EXCEPT !.op = op]
  <2>1. Become(w, m) /\ Read /\ UNCHANGED runs /\ Relies(m, db, disk)
    BY <1>1 DEF Start, Outside
  <2> HIDE DEF m
  <2> QED BY <2>1, GateReads
<1>2. ASSUME NEW t \in Tasks, RequestSubmit(w, t)
      PROVE  GateInv'
  <2> DEFINE pc == IF KeyOf[t] = NoKey THEN "submit_create"
                                       ELSE "submit_lookup"
             l == [Idle EXCEPT !.pc = pc, !.task = t]
             m == [l EXCEPT !.op = "submit"]
  <2>1. Start(w, "submit", l)
    BY <1>2 DEF RequestSubmit
  <2>2. m.pc \in {"submit_create", "submit_lookup"} /\ ~m.caught
    BY DEF Idle
  <2> HIDE DEF l
  <2>3. Relies(m, db, disk)
    <3> HIDE DEF m
    <3> QED BY <2>2 DEF Relies, InTransition, ClearedPCs, DeletePCs
  <2> QED BY <1>1, <2>1, <2>3
<1>3. ASSUME NEW t \in Tasks, RequestApprove(w, t) \/ RequestReject(w, t)
      PROVE  GateInv'
  <2>1. ASSUME NEW op \in {"approve", "reject"}, NEW target, NEW then,
               target = "approved" => op = "approve",
               then \in {"d_read", "return"},
               Start(w, op, Transition([Idle EXCEPT !.task = t], target, then))
        PROVE  GateInv'
    <3> DEFINE l == Transition([Idle EXCEPT !.task = t], target, then)
               m == [l EXCEPT !.op = op]
    <3>1. /\ m.pc = "t_read" /\ m.target = target /\ m.then = then
          /\ m.op = op /\ ~m.caught
      BY DEF Transition, Idle
    <3> HIDE DEF m
    <3>2. Relies(m, db, disk)
      BY <2>1, <3>1 DEF Relies, InTransition, ClearedPCs, DeletePCs
    <3>3. Start(w, op, l)
      BY <2>1
    <3> HIDE DEF l
    <3> QED BY <1>1, <3>2, <3>3 DEF m
  <2> QED BY <1>3, <2>1 DEF RequestApprove, RequestReject
<1>4. ASSUME NEW t \in Tasks, NEW op, NEW pc \in QuietPCs,
             Start(w, op, [Idle EXCEPT !.pc = pc, !.task = t])
      PROVE  GateInv'
  <2> DEFINE l == [Idle EXCEPT !.pc = pc, !.task = t]
             m == [l EXCEPT !.op = op]
  <2>1. m.pc = pc /\ ~m.caught
    BY DEF Idle
  <2> HIDE DEF m
  <2>2. Relies(m, db, disk)
    BY <2>1, QuietRelies DEF QuietPCs, PlainPCs, ClearedPCs, DeletePCs
  <2>3. Start(w, op, l)
    BY <1>4
  <2> HIDE DEF l
  <2> QED BY <1>1, <2>2, <2>3 DEF m
<1>5. ASSUME NEW t \in Tasks,
             \/ RequestCancel(w, t) \/ RequestRecoverJob(w, t)
             \/ RequestRecoverApproval(w, t)
      PROVE  GateInv'
  BY <1>4, <1>5 DEF RequestCancel, RequestRecoverJob, RequestRecoverApproval,
                    QuietPCs, PlainPCs, ClearedPCs, DeletePCs
<1>6. ASSUME NEW t \in Tasks, NEW status \in RunStatus, RequestResult(w, t, status)
      PROVE  GateInv'
  <2> DEFINE l == [Idle EXCEPT !.pc = "r_read", !.task = t, !.status = status]
             m == [l EXCEPT !.op = "result"]
  <2>1. m.pc = "r_read" /\ ~m.caught
    BY DEF Idle
  <2> HIDE DEF m
  <2>2. Relies(m, db, disk)
    BY <2>1, QuietRelies DEF ClearedPCs, DeletePCs
  <2>3. Start(w, "result", l)
    BY <1>6 DEF RequestResult
  <2> HIDE DEF l
  <2> QED BY <1>1, <2>2, <2>3 DEF m
<1>7. ASSUME NEW t \in Tasks, NEW worker \in Workers \cup {NoWorker},
             RequestProcess(w, t, worker)
      PROVE  GateInv'
  <2> DEFINE l == [Idle EXCEPT !.pc = "pq_read", !.task = t, !.worker = worker]
             m == [l EXCEPT !.op = "process"]
  <2>1. m.pc = "pq_read" /\ ~m.caught
    BY DEF Idle
  <2> HIDE DEF m
  <2>2. Relies(m, db, disk)
    BY <2>1, QuietRelies DEF ClearedPCs, DeletePCs
  <2>3. Start(w, "process", l)
    BY <1>7 DEF RequestProcess
  <2> HIDE DEF l
  <2> QED BY <1>1, <2>2, <2>3 DEF m
<1>8. CASE RequestTimeouts(w)
  <2> DEFINE l == [Idle EXCEPT !.pc = "to_list"]
             m == [l EXCEPT !.op = "timeouts"]
  <2>1. m.pc = "to_list" /\ ~m.caught
    BY DEF Idle
  <2> HIDE DEF m
  <2>2. Relies(m, db, disk)
    BY <2>1 DEF Relies, InTransition, ClearedPCs, DeletePCs
  <2>3. Start(w, "timeouts", l)
    BY <1>8 DEF RequestTimeouts
  <2> HIDE DEF l
  <2> QED BY <1>1, <2>2, <2>3 DEF m
<1> QED BY <1>2, <1>3, <1>5, <1>6, <1>7, <1>8 DEF Request, RequestDelete, Start

LEMMA TransitionReadGate ==
  ASSUME TypeInv, GateInv, NEW w \in Threads, TransitionRead(w)
  PROVE  GateInv'
<1>1. /\ Task(w) \in Tasks /\ thread[w] \in Locals /\ thread[w].pc = "t_read"
      /\ Read /\ UNCHANGED runs /\ Relies(thread[w], db, disk)
  BY Serving, Relying DEF TransitionRead, At, Outside
<1>2. CASE CanTransition(db.task[Task(w)].state, thread[w].target)
  <2> DEFINE l == [thread[w] EXCEPT !.pc = "t_write"]
  <2>1. Become(w, l)
    BY <1>2 DEF TransitionRead, Goto
  <2>2. HasTask(db, Task(w))
    BY <1>2 DEF CanTransition, HasTask, NoTaskRow, States
  <2>3. thread[w].target \in PostApproval /\ thread[w].target # "approved"
          => Sound(db, Task(w))
    BY <1>1, <1>2, FromPast DEF GateInv, Gate, Past
  <2>4. /\ l.pc = "t_write" /\ l.caught = thread[w].caught
        /\ l.task = Task(w) /\ l.target = thread[w].target
        /\ l.op = thread[w].op /\ l.then = thread[w].then
        /\ l.goal = thread[w].goal
    BY <1>1 DEF Locals, Task
  <2> HIDE DEF l
  <2>5. Relies(l, db, disk)
    <3> HIDE DEF Sound, HasTask
    <3> QED BY <1>1, <2>2, <2>3, <2>4
               DEF Relies, InTransition, ClearedPCs, DeletePCs, Task
  <2> QED BY <1>1, <2>1, <2>5, GateReads
<1>3. CASE Raise(w)
  BY <1>1, <1>3, GateRaise
<1> QED BY <1>2, <1>3 DEF TransitionRead

\* A transition takes a task past its approval only if the task was cleared, or
\* clears it.
LEMMA ApplyTransitionGate ==
  ASSUME NEW s \in Store, NEW t \in Tasks, HasTask(s, t), NEW target \in States,
         NEW actor \in Actors, Gate(s),
         target \in PostApproval
           => Sound(s, t) \/ (target = "approved" /\ actor = "human")
  PROVE  LET s2 == ApplyTransition(s, t, target, actor) IN
           /\ Keeps(s, s2)
           /\ Gate(s2)
           /\ target \in PostApproval => Sound(s2, t)
<1> DEFINE s2 == ApplyTransition(s, t, target, actor)
<1>1. CASE target = "approved"
  <2> DEFINE s1 == UpdateTaskApproval(s, t, "approved", "approved")
             g  == Grant(s1, t)
  <2>1. "approved" \in States /\ "approved" \in ApprovalStatus
    BY DEF States, ApprovalStatus
  <2>2. Touches(s, s1, t) /\ s1 \in Store
    BY <2>1, UpdateTaskApprovalTouches, UpdateTaskApprovalType
  <2>3. HasTask(s1, t)
    BY <2>2 DEF Touches, Keeps
  <2>4. CASE actor = "human"
    <3>1. s2 = g
      BY <1>1, <2>4 DEF ApplyTransition
    <3> HIDE DEF s1, s2
    <3>2. Mild(s1, g) /\ t \in g.granted
      BY <2>2, <2>3, GrantMild
    <3> HIDE DEF g
    <3>3. Touches(s, g, t)
      BY <2>2, <3>2, KeepsTransitive DEF Touches, Mild
    <3>4. Sound(g, t)
      BY <3>2, <3>3 DEF Touches, Keeps, Sound, Cleared
    <3>5. Keeps(s, g) /\ Gate(g)
      BY <3>3, <3>4, TouchesKeepsGate
    <3> QED BY <3>1, <3>4, <3>5 DEF s2
  <2>5. CASE actor # "human"
    <3>1. s2 = s1 /\ Sound(s, t)
      BY <1>1, <2>5 DEF ApplyTransition, PostApproval
    <3> HIDE DEF s1, s2
    <3>2. Sound(s1, t)
      BY <2>2, <3>1, SoundKept DEF Touches
    <3>3. Keeps(s, s1) /\ Gate(s1)
      BY <2>2, <3>2, TouchesKeepsGate
    <3> QED BY <3>1, <3>2, <3>3 DEF s2
  <2> QED BY <2>4, <2>5
<1>2. CASE target = "rejected"
  <2> DEFINE s1 == UpdateTaskApproval(s, t, "rejected", "rejected")
  <2>1. /\ "rejected" \in States /\ "rejected" \in ApprovalStatus
        /\ "rejected" \notin PostApproval
    BY DEF States, ApprovalStatus, PostApproval
  <2>2. Mild(s, s1)
    BY <2>1, UpdateTaskApprovalTouches
  <2> HIDE DEF s1
  <2> QED BY <1>2, <2>1, <2>2, MildKeepsGate DEF ApplyTransition, s1
<1>3. CASE target = "pending_approval"
  <2> DEFINE s1 == UpdateTaskApproval(s, t, "pending_approval", "pending")
  <2>0. /\ "pending_approval" \in States /\ "pending" \in ApprovalStatus
        /\ "pending_approval" \notin PostApproval
    BY DEF States, ApprovalStatus, PostApproval
  <2>1. Mild(s, s1)
    BY <2>0, UpdateTaskApprovalTouches
  <2> HIDE DEF s1
  <2> QED BY <1>3, <2>0, <2>1, MildKeepsGate DEF ApplyTransition, s1
<1>4. CASE target \notin {"approved", "rejected", "pending_approval"}
  <2> DEFINE s1 == UpdateTaskState(s, t, target)
  <2>1. Touches(s, s1, t) /\ (target \notin PostApproval => Mild(s, s1))
    BY UpdateTaskStateTouches
  <2>2. s2 = s1
    BY <1>4 DEF ApplyTransition
  <2> HIDE DEF s1, s2
  <2>3. CASE target \in PostApproval
    <3>1. Sound(s1, t)
      BY <1>4, <2>1, <2>3, SoundKept DEF Touches
    <3>2. Keeps(s, s1) /\ Gate(s1)
      BY <2>1, <3>1, TouchesKeepsGate
    <3> QED BY <2>2, <3>1, <3>2 DEF s2
  <2>4. CASE target \notin PostApproval
    BY <2>1, <2>2, <2>4, MildKeepsGate DEF s2
  <2> QED BY <2>3, <2>4
<1> QED BY <1>1, <1>2, <1>3, <1>4

LEMMA AfterRelies ==
  ASSUME NEW l \in Locals, NEW s, l.pc = "t_commit", Relies(l, s, s)
  PROVE  Relies(After(l), s, s)
<1>0. /\ l.caught => Sound(s, l.task)
      /\ l.then = "enqueue_row" => l.target = "queued"
      /\ l.then = "d_running" => l.target = "running"
      /\ l.then \in {"submit_validated", "submit_decided"} /\ l.goal = "approved"
           => Sound(s, l.task)
      /\ l.then = "to_next" => ~l.caught
      /\ l.target \in PostApproval => Sound(s, l.task)
  BY DEF Relies, InTransition
<1>1. CASE l.then = "submit_validated"
  BY <1>0, <1>1, TransitionRelies DEF After
<1>2. CASE l.then = "submit_decided" /\ l.goal = "approved"
  BY <1>0, <1>2, TransitionRelies DEF After
<1>3. CASE l.then = "submit_decided" /\ l.goal # "approved"
  BY <1>0, <1>3, GotoRelies DEF After, QuietPCs, PlainPCs, ClearedPCs, DeletePCs
<1>4. CASE l.then \notin {"submit_validated", "submit_decided"}
  <2> DEFINE m == [l EXCEPT !.pc = l.then]
  <2>1. After(l) = m
    BY <1>4 DEF After
  <2>2. m.pc = l.then /\ m.caught = l.caught /\ m.task = l.task
    BY DEF Locals
  <2>3. l.then \in {"enqueue_row", "d_read", "d_running", "r_store", "to_next",
                    "return"}
    BY <1>4 DEF Locals, Continuations
  <2>4. l.then \in {"enqueue_row", "d_running"} => Sound(s, l.task)
    BY <1>0 DEF PostApproval
  <2> HIDE DEF m
  <2>5. Relies(m, s, s)
    BY <1>0, <2>2, <2>3, <2>4 DEF Relies, InTransition, ClearedPCs, DeletePCs
  <2> QED BY <2>1, <2>5
<1> QED BY <1>1, <1>2, <1>3, <1>4

LEMMA TransitionWriteGate ==
  ASSUME TypeInv, GateInv, NEW w \in Threads, TransitionWrite(w)
  PROVE  GateInv'
<1> DEFINE l == thread[w]
           m == [thread[w] EXCEPT !.pc = "t_commit"]
           s == ApplyTransition(db, Task(w), l.target, Actor(w))
<1>1. /\ Task(w) \in Tasks /\ ThreadOK(l) /\ l \in Locals /\ l.pc = "t_write"
      /\ Relies(l, db, disk)
  BY Serving, Relying DEF TransitionWrite, At
<1>2. l.target \in States /\ Actor(w) \in Actors
  BY <1>1 DEF ThreadOK, InTransition, Actor, Actors
<1>3. /\ HasTask(db, Task(w))
      /\ l.target \in PostApproval
           => \/ Sound(db, Task(w))
              \/ l.target = "approved" /\ Actor(w) = "human"
  BY <1>1 DEF Relies, InTransition, Actor, Task
<1>4. /\ Keeps(db, s) /\ Gate(s)
      /\ l.target \in PostApproval => Sound(s, Task(w))
  BY <1>1, <1>2, <1>3, StoreTyped, ApplyTransitionGate DEF GateInv
<1>5. Write(s) /\ Become(w, m) /\ UNCHANGED runs
  BY DEF TransitionWrite, Goto, Outside
<1> HIDE DEF s
<1>6. Relies(l, s, disk)
  BY <1>1, <1>4, KeepsReflexive, ReliesKept
<1>7. /\ m.pc = "t_commit" /\ m.caught = l.caught /\ m.task = Task(w)
      /\ m.target = l.target /\ m.op = l.op /\ m.then = l.then
      /\ m.goal = l.goal
  BY <1>1 DEF Locals, Task
<1>8. HasTask(s, Task(w))
  BY <1>1, <1>3, <1>4 DEF Keeps
<1> HIDE DEF l, m
<1>9. Relies(m, s, disk)
  <2>1. l.task = Task(w)
    BY DEF l, Task
  <2> HIDE DEF Sound, HasTask
  <2> QED BY <1>1, <1>4, <1>6, <1>7, <1>8, <2>1
             DEF Relies, InTransition, ClearedPCs, DeletePCs
<1> QED BY <1>4, <1>5, <1>9, GateWrites

\* The end of the transaction takes what the thread relies on to the disk.
LEMMA TransitionCommitGate ==
  ASSUME TypeInv, GateInv, NEW w \in Threads, TransitionCommit(w)
  PROVE  GateInv'
<1> DEFINE l == thread[w]
           s == AuditTransition(db, Task(w), l.target, Actor(w))
<1>1. /\ Task(w) \in Tasks /\ ThreadOK(l) /\ l \in Locals /\ l.pc = "t_commit"
      /\ Relies(l, db, disk)
  BY Serving, Relying DEF TransitionCommit, At
<1>2. Mild(db, s)
  <2>1. Mild(db, db)
    BY KeepsReflexive DEF Mild
  <2> QED BY <1>1, <2>1, StoreTyped, AddAuditMild DEF AuditTransition
<1>3. Keeps(db, s) /\ Gate(s)
  BY <1>2, MildKeepsGate DEF GateInv
<1>4. Commit(s) /\ Become(w, After(l)) /\ UNCHANGED runs
  BY DEF TransitionCommit, Outside
<1> HIDE DEF s
<1>5. Relies(l, s, s)
  <2>1. Keeps(disk, s)
    BY <1>3, KeepsTransitive DEF GateInv
  <2> QED BY <1>1, <1>3, <2>1, ReliesKept
<1>6. Relies(After(l), s, s)
  BY <1>1, <1>5, AfterRelies
<1> HIDE DEF l
<1> QED BY <1>3, <1>4, <1>6, GateCommits

LEMMA SubmitLookupGate ==
  ASSUME TypeInv, GateInv, NEW w \in Threads, SubmitLookup(w)
  PROVE  GateInv'
<1> DEFINE existing == db.idem[Key(w)]
           l == [thread[w] EXCEPT !.pc = "return", !.task = existing]
           m == [thread[w] EXCEPT !.pc = "submit_create"]
<1>1. /\ thread[w] \in Locals /\ thread[w].pc = "submit_lookup"
      /\ ~thread[w].caught /\ Read /\ UNCHANGED runs
  BY Relying DEF SubmitLookup, At, Relies, Outside
<1>2. CASE Become(w, l)
  <2>1. l.pc = "return" /\ ~l.caught
    BY <1>1 DEF Locals
  <2> HIDE DEF l
  <2>2. Relies(l, db, disk)
    BY <2>1, QuietRelies DEF ClearedPCs, DeletePCs
  <2> QED BY <1>1, <1>2, <2>2, GateReads
<1>3. CASE Become(w, m)
  <2>1. m.pc = "submit_create" /\ ~m.caught
    BY <1>1 DEF Locals
  <2> HIDE DEF m
  <2>2. Relies(m, db, disk)
    BY <2>1 DEF Relies, InTransition, ClearedPCs, DeletePCs
  <2> QED BY <1>1, <1>3, <2>2, GateReads
<1> QED BY <1>2, <1>3 DEF SubmitLookup, Goto

LEMMA SubmitCreateGate ==
  ASSUME TypeInv, GateInv, NEW w \in Threads, SubmitCreate(w)
  PROVE  GateInv'
<1>1. /\ Task(w) \in Tasks /\ thread[w] \in Locals /\ ThreadOK(thread[w])
      /\ thread[w].pc = "submit_create" /\ Relies(thread[w], db, disk)
      /\ thread[w].caught => Sound(db, Task(w))
      /\ UNCHANGED runs
  BY Serving, Relying DEF SubmitCreate, At, Outside
<1>2. CASE HasTask(db, Task(w))
  BY <1>1, <1>2, GateGiveUp DEF SubmitCreate
<1>3. CASE ~HasTask(db, Task(w))
  <2>1. PICK required \in BOOLEAN, status \in ApprovalStatus :
               CreatesTask(w, required, status)
    BY <1>3, CreatesSome
  <2> DEFINE review == required /\ status # "approved"
             s == CreateTask(db, Task(w), status, review)
             k == [thread[w] EXCEPT !.goal = NextState(required, status)]
             l == Transition(k, "validating", "submit_validated")
             m == [k EXCEPT !.pc = "submit_idem"]
  <2>2. /\ k \in Locals /\ k.pc = "submit_create" /\ k.caught = thread[w].caught
        /\ k.task = thread[w].task /\ (k.goal = "approved" => ~review)
    BY <1>1 DEF Locals, NextState
  <2>3. Write(s) /\ (Become(w, l) \/ Become(w, m))
    BY <2>1 DEF CreatesTask
  <2> HIDE DEF k
  <2>8. Mild(db, s) /\ (~review => Sound(s, Task(w)))
    BY <1>1, <1>3, StoreTyped, CreateTaskMild
  <2> HIDE DEF s, review
  <2>4. Keeps(db, s) /\ Gate(s)
    BY <2>8, MildKeepsGate DEF GateInv
  <2>5. /\ k.caught => Sound(s, k.task)
        /\ k.goal = "approved" => Sound(s, k.task)
    BY <1>1, <2>2, <2>8, <2>4, SoundKept DEF Relies, Task
  <2>6. Relies(l, s, disk)
    BY <2>2, <2>5, TransitionRelies
  <2>7. Relies(m, s, disk)
    <3>1. /\ m.pc = "submit_idem" /\ m.caught = k.caught
          /\ m.task = k.task /\ m.goal = k.goal
      BY <2>2 DEF Locals
    <3> HIDE DEF m
    <3> QED BY <2>5, <3>1 DEF Relies, InTransition, ClearedPCs, DeletePCs
  <2> HIDE DEF l, m
  <2> QED BY <1>1, <2>3, <2>4, <2>6, <2>7, GateWrites
<1> QED BY <1>2, <1>3

LEMMA SubmitIdempotencyGate ==
  ASSUME TypeInv, GateInv, NEW w \in Threads, SubmitIdempotency(w)
  PROVE  GateInv'
<1>1. /\ Task(w) \in Tasks /\ thread[w] \in Locals /\ ThreadOK(thread[w])
      /\ thread[w].pc = "submit_idem" /\ Relies(thread[w], db, disk)
      /\ UNCHANGED runs
  BY Serving, Relying DEF SubmitIdempotency, At, Outside
<1>2. CASE db.idem[Key(w)] # NoTask
  BY <1>1, <1>2, GateGiveUp DEF SubmitIdempotency
<1>3. CASE db.idem[Key(w)] = NoTask
  <2> DEFINE s == CreateIdempotencyRecord(db, Key(w), Task(w))
             l == Transition(thread[w], "validating", "submit_validated")
  <2>1. Mild(db, s)
    BY <1>1, StoreTyped, OtherTablesMild DEF ThreadOK, Key, Task
  <2>2. Write(s) /\ Become(w, l)
    BY <1>3 DEF SubmitIdempotency
  <2> HIDE DEF s
  <2>3. Keeps(db, s) /\ Gate(s)
    BY <2>1, MildKeepsGate DEF GateInv
  <2>4. /\ thread[w].caught => Sound(s, thread[w].task)
        /\ thread[w].goal = "approved" => Sound(s, thread[w].task)
    BY <1>1, <2>3, SoundKept DEF Relies
  <2>5. Relies(l, s, disk)
    BY <1>1, <2>4, TransitionRelies
  <2> HIDE DEF l
  <2> QED BY <1>1, <2>2, <2>3, <2>5, GateWrites
<1> QED BY <1>2, <1>3

LEMMA EnqueueTaskGate ==
  ASSUME TypeInv, GateInv, NEW w \in Threads, EnqueueTask(w)
  PROVE  GateInv'
<1> DEFINE s  == EnqueueRow(db, Task(w), now)
           pc == IF thread[w].op = "submit" /\ ~thread[w].caught
                 THEN "pq_read" ELSE "d_ready"
<1>1. /\ Task(w) \in Tasks /\ Sound(db, Task(w)) /\ UNCHANGED runs
      /\ Write(s) /\ Goto(w, pc)
  BY Serving, Relying
     DEF EnqueueTask, At, Outside, Relies, ClearedPCs, DeletePCs, Task
<1>2. Touches(db, s, Task(w))
  BY <1>1, StoreTyped, EnqueueRowTouches DEF TypeInv, TypeOK
<1>3. pc \in QuietPCs
  BY DEF QuietPCs, PlainPCs, ClearedPCs, DeletePCs
<1> HIDE DEF s, pc
<1> QED BY <1>1, <1>2, <1>3, GateTouches

LEMMA SubmitGate ==
  ASSUME TypeInv, GateInv, NEW w \in Threads, Submit(w)
  PROVE  GateInv'
BY SubmitLookupGate, SubmitCreateGate, SubmitIdempotencyGate, EnqueueTaskGate
   DEF Submit

LEMMA ProcessReadGate ==
  ASSUME TypeInv, GateInv, NEW w \in Threads, ProcessRead(w)
  PROVE  GateInv'
<1> DEFINE row == db.queue[Task(w)]
           l == [[thread[w] EXCEPT !.at = now, !.attempts = row.attempts]
                   EXCEPT !.pc = "d_read", !.caught = TRUE]
           m == [[thread[w] EXCEPT !.at = now, !.attempts = row.attempts]
                   EXCEPT !.pc = "claim_read"]
<1>1. /\ Task(w) \in Tasks /\ thread[w] \in Locals /\ Read /\ UNCHANGED runs
      /\ thread[w].caught => Sound(db, Task(w))
  BY Serving, Relying DEF ProcessRead, At, Outside
<1>2. CASE ~HasRow(db, Task(w))
  BY <1>1, <1>2, GateGiveUp DEF ProcessRead
<1>3. CASE HasRow(db, Task(w)) /\ (row.status # "queued" \/ row.next > now)
  BY <1>1, <1>3, GateGoto
     DEF ProcessRead, QuietPCs, PlainPCs, ClearedPCs, DeletePCs
<1>4. CASE HasRow(db, Task(w)) /\ ~(row.status # "queued" \/ row.next > now)
  <2>1. Sound(db, Task(w))
    BY <1>1, <1>4 DEF GateInv, Gate, Past
  <2>2. Become(w, l) \/ Become(w, m)
    BY <1>4 DEF ProcessRead
  <2> HIDE DEF row
  <2>3. l.pc = "d_read" /\ l.task = Task(w) /\ m.pc = "claim_read"
        /\ m.task = Task(w)
    BY <1>1 DEF Locals, Task
  <2> HIDE DEF l, m
  <2>4. Relies(l, db, disk) /\ Relies(m, db, disk)
    BY <2>1, <2>3, QuietRelies DEF ClearedPCs, DeletePCs
  <2> QED BY <1>1, <2>2, <2>4, GateReads
<1> QED BY <1>2, <1>3, <1>4

LEMMA ClaimWriteGate ==
  ASSUME TypeInv, GateInv, NEW w \in Threads, ClaimWrite(w)
  PROVE  GateInv'
<1> DEFINE s == ClaimRow(db, Task(w), thread[w].worker,
                         Deadline(thread[w].at, LeaseSeconds))
           attempts == db.queue[Task(w)].attempts
           l == [thread[w] EXCEPT !.pc = "d_read", !.caught = TRUE,
                                  !.attempts = attempts]
<1>1. /\ Task(w) \in Tasks /\ thread[w] \in Locals /\ Write(s) /\ UNCHANGED runs
  BY Serving, Relying DEF ClaimWrite, At, Outside
<1>2. Mild(db, s)
  BY <1>1, StoreTyped, UpdateRowMild DEF ClaimRow
<1> HIDE DEF s
<1>3. Keeps(db, s) /\ Gate(s)
  BY <1>2, MildKeepsGate DEF GateInv
<1>4. CASE HasRow(db, Task(w))
  <2>1. Sound(s, Task(w))
    BY <1>1, <1>3, <1>4, SoundKept DEF GateInv, Gate, Past
  <2>2. Become(w, l)
    BY <1>4 DEF ClaimWrite
  <2> HIDE DEF attempts
  <2>3. l.pc = "d_read" /\ l.task = Task(w)
    BY <1>1 DEF Locals, Task
  <2> HIDE DEF l
  <2>4. Relies(l, s, disk)
    BY <2>1, <2>3, QuietRelies DEF ClearedPCs, DeletePCs
  <2> QED BY <1>1, <1>3, <2>2, <2>4, GateWrites
<1>5. CASE ~HasRow(db, Task(w))
  <2>1. Become(w, Idle)
    BY <1>5 DEF ClaimWrite, GiveUp
  <2> QED BY <1>1, <1>3, <2>1, IdleRelies, GateWrites
<1> QED BY <1>4, <1>5

LEMMA ProcessGate ==
  ASSUME TypeInv, GateInv, NEW w \in Threads, Process(w)
  PROVE  GateInv'
<1>1. /\ thread[w] \in Locals /\ Relies(thread[w], db, disk)
      /\ thread[w].caught => Sound(db, Task(w))
  BY Relying
<1>2. CASE ProcessRead(w)
  BY <1>2, ProcessReadGate
<1>3. CASE ClaimRead(w)
  <2> DEFINE l == [thread[w] EXCEPT !.pc = "claim_write"]
  <2>1. /\ Task(w) \in Tasks /\ Read /\ UNCHANGED runs
    BY <1>3, Serving DEF ClaimRead, At, Outside
  <2>2. CASE Become(w, l)
    <3>1. l.pc = "claim_write" /\ l.caught = thread[w].caught /\ l.task = Task(w)
      BY <1>1 DEF Locals, Task
    <3> HIDE DEF l
    <3>2. Relies(l, db, disk)
      BY <1>1, <3>1, QuietRelies DEF ClearedPCs, DeletePCs
    <3> QED BY <2>1, <2>2, <3>2, GateReads
  <2>3. CASE GiveUp(w)
    BY <2>1, <2>3, GateGiveUp
  <2> QED BY <1>3, <2>2, <2>3 DEF ClaimRead, Goto
<1>4. CASE ClaimWrite(w)
  BY <1>4, ClaimWriteGate
<1>5. CASE DeadLetter(w)
  <2> DEFINE s == MarkDeadLetter(db, Task(w), thread[w].attempts + 1)
             l == Transition(thread[w], "failed", "return")
  <2>1. /\ Task(w) \in Tasks /\ Write(s) /\ Become(w, l) /\ UNCHANGED runs
    BY <1>5, Serving DEF DeadLetter, At, Outside
  <2>2. Mild(db, s)
    BY <2>1, StoreTyped, UpdateRowMild DEF MarkDeadLetter
  <2> HIDE DEF s
  <2>3. Keeps(db, s) /\ Gate(s)
    BY <2>2, MildKeepsGate DEF GateInv
  <2>4. thread[w].caught => Sound(s, thread[w].task)
    BY <1>1, <2>3, SoundKept DEF Task
  <2>5. Relies(l, s, disk)
    BY <1>1, <2>4, TransitionRelies
  <2> HIDE DEF l
  <2> QED BY <2>1, <2>3, <2>5, GateWrites
<1>6. CASE RetryState(w)
  <2> DEFINE s == UpdateTaskState(db, Task(w), "queued")
             l == [thread[w] EXCEPT !.pc = "e_retry"]
  <2>1. /\ Task(w) \in Tasks /\ Write(s) /\ Become(w, l) /\ UNCHANGED runs
        /\ thread[w].pc = "e_state"
    BY <1>6, Serving DEF RetryState, At, Outside, Goto
  <2>2. Touches(db, s, Task(w)) /\ Sound(db, Task(w))
    BY <1>1, <2>1, StoreTyped, UpdateTaskStateTouches
       DEF States, Relies, ClearedPCs, DeletePCs, Task
  <2> HIDE DEF s
  <2>3. Keeps(db, s) /\ Sound(s, Task(w))
    BY <2>2, SoundKept DEF Touches
  <2>4. Gate(s)
    BY <2>2, <2>3, TouchesKeepsGate DEF GateInv
  <2>5. l.pc = "e_retry" /\ l.task = Task(w)
    BY <1>1 DEF Locals, Task
  <2> HIDE DEF l
  <2>6. Relies(l, s, disk)
    BY <2>3, <2>5, QuietRelies DEF ClearedPCs, DeletePCs
  <2> QED BY <2>1, <2>3, <2>4, <2>6, GateWrites
<1>7. CASE RetryRow(w)
  <2>1. PICK s : s = MarkRetry(db, Task(w), thread[w].attempts + 1,
                     Deadline(thread[w].at, Backoff(thread[w].attempts + 1)))
    OBVIOUS
  <2>2. Task(w) \in Tasks /\ Write(s) /\ Goto(w, "return") /\ UNCHANGED runs
    BY <1>7, <2>1, Serving DEF RetryRow, At, Outside
  <2>3. Mild(db, s)
    BY <2>1, <2>2, StoreTyped, UpdateRowMild DEF MarkRetry
  <2> QED BY <2>2, <2>3, GateMild DEF QuietPCs, PlainPCs, ClearedPCs, DeletePCs
<1> QED BY <1>2, <1>3, <1>4, <1>5, <1>6, <1>7 DEF Process

LEMMA ReadyGate ==
  ASSUME TypeInv, GateInv, NEW w \in Threads, Ready(w), Read, UNCHANGED runs
  PROVE  GateInv'
<1>1. CASE Dispatchable(w)
  <2>1. Relies(Transition(thread[w], "running", "d_running"), db, disk)
    BY Relying, TransitionRelies DEF Task
  <2> QED BY <1>1, <2>1, GateReads DEF Ready
<1>2. CASE ~Dispatchable(w)
  BY <1>2, GateRaise DEF Ready
<1> QED BY <1>1, <1>2

\* The two marks before the HTTP call, about a task cleared on disk too.
LEMMA DispatchMarkGate ==
  ASSUME TypeInv, GateInv, NEW w \in Threads, NEW s, Mild(db, s), Write(s),
         NEW pc \in {"d_dispatched", "d_submit"}, Goto(w, pc),
         thread[w].pc \in {"d_running", "d_dispatched"}, UNCHANGED runs
  PROVE  GateInv'
<1> DEFINE l == [thread[w] EXCEPT !.pc = pc]
<1>1. Keeps(db, s) /\ Gate(s)
  BY MildKeepsGate DEF GateInv
<1>2. Sound(s, Task(w)) /\ Sound(disk, Task(w))
  BY <1>1, Relying, SoundKept DEF Relies, ClearedPCs, DeletePCs, Task
<1>3. l.pc = pc /\ l.task = Task(w)
  BY Relying DEF Locals, Task
<1>4. Become(w, l)
  BY DEF Goto
<1> HIDE DEF l
<1>5. Relies(l, s, disk)
  BY <1>2, <1>3 DEF Relies, InTransition, ClearedPCs, DeletePCs
<1> QED BY <1>1, <1>4, <1>5, GateWrites

LEMMA SubmitReceivedGate ==
  ASSUME TypeInv, GateInv, NEW w \in Threads, SubmitReceived(w)
  PROVE  GateInv'
<1> DEFINE l == [thread[w] EXCEPT !.pc = "d_wait"]
<1>1. /\ Task(w) \in Tasks /\ Become(w, l) /\ Read
      /\ thread[w].pc = "d_submit"
      /\ runs' = [runs EXCEPT ![Task(w)] = IF @ < RunCap THEN @ + 1 ELSE @]
  BY Serving DEF SubmitReceived, At, Goto
<1>2. Sound(db, Task(w)) /\ Sound(disk, Task(w)) /\ thread[w] \in Locals
  BY <1>1, Relying DEF Relies, ClearedPCs, DeletePCs, Task
<1>3. Relies(l, db, disk)
  BY <1>2, Relying, GotoRelies
     DEF QuietPCs, PlainPCs, ClearedPCs, DeletePCs, Task
<1>4. \A t \in Tasks : runs'[t] > 0 => Sound(disk, t)
  BY <1>1, <1>2 DEF GateInv, TypeInv, TypeOK
<1> HIDE DEF l
<1>5. \A v \in Threads : Relies(thread'[v], db, disk)
  BY <1>1, <1>3 DEF Become, GateInv, TypeInv, TypeOK
<1> QED BY <1>1, <1>4, <1>5 DEF Read, GateInv

LEMMA DispatchGate ==
  ASSUME TypeInv, GateInv, NEW w \in Threads, Dispatch(w)
  PROVE  GateInv'
<1>1. CASE DispatchRead(w) \/ DispatchReady(w)
  <2>1. Read /\ UNCHANGED runs
    BY <1>1 DEF DispatchRead, DispatchReady, Outside
  <2>2. CASE Ready(w)
    BY <2>1, <2>2, ReadyGate
  <2>3. CASE Become(w, Transition(thread[w], "queued", "enqueue_row"))
    <3>1. Relies(Transition(thread[w], "queued", "enqueue_row"), db, disk)
      BY Relying, TransitionRelies DEF Task
    <3> QED BY <2>1, <2>3, <3>1, GateReads
  <2> QED BY <1>1, <2>2, <2>3 DEF DispatchRead, DispatchReady
<1>2. CASE DispatchRunning(w)
  <2>1. PICK s : s = MarkRunning(db, Task(w), Deadline(now, TimeoutSeconds))
    OBVIOUS
  <2>2. /\ Task(w) \in Tasks /\ Write(s) /\ Goto(w, "d_dispatched")
        /\ thread[w].pc = "d_running" /\ UNCHANGED runs
    BY <1>2, <2>1, Serving DEF DispatchRunning, At, Outside
  <2>3. Mild(db, s)
    BY <2>1, <2>2, StoreTyped, UpdateRowMild DEF MarkRunning
  <2> QED BY <2>2, <2>3, DispatchMarkGate
<1>3. CASE DispatchDispatched(w)
  <2>1. PICK s : s = MarkDispatched(db, Task(w))
    OBVIOUS
  <2>2. /\ Task(w) \in Tasks /\ Write(s) /\ Goto(w, "d_submit")
        /\ thread[w].pc = "d_dispatched" /\ UNCHANGED runs
    BY <1>3, <2>1, Serving DEF DispatchDispatched, At, Outside
  <2>3. Mild(db, s)
    BY <2>1, <2>2, StoreTyped, UpdateRowMild DEF MarkDispatched, MarkStatus
  <2> QED BY <2>2, <2>3, DispatchMarkGate
<1>4. CASE SubmitReceived(w)
  BY <1>4, SubmitReceivedGate
<1>5. CASE SubmitFails(w) \/ SubmitBroken(w)
  BY <1>5, GateRaise DEF SubmitFails, SubmitBroken, Outside
<1>6. CASE SubmitRefused(w) \/ SubmitAnswered(w)
  BY <1>6, GateGoto
     DEF SubmitRefused, SubmitAnswered, Outside, QuietPCs, PlainPCs,
         ClearedPCs, DeletePCs
<1> QED BY <1>1, <1>2, <1>3, <1>4, <1>5, <1>6 DEF Dispatch

LEMMA RecordResultGate ==
  ASSUME TypeInv, GateInv, NEW w \in Threads, RecordResult(w)
  PROVE  GateInv'
<1>1. Task(w) \in Tasks /\ ThreadOK(thread[w]) /\ UNCHANGED runs
  BY Serving DEF RecordResult, ResultRead, ResultStore, ResultCommit,
                 ResultFile, At, Outside
<1>2. CASE ResultRead(w)
  <2>1. thread[w].status # "approved" /\ Read
    BY <1>1, <1>2 DEF ResultRead, At, ThreadOK, RunStatus
  <2>2. CASE GiveUp(w)
    BY <1>1, <2>1, <2>2, GateGiveUp
  <2>3. CASE Goto(w, "return")
    BY <1>1, <2>1, <2>3, GateGoto DEF QuietPCs, PlainPCs, ClearedPCs, DeletePCs
  <2>4. CASE Become(w, Transition(thread[w], thread[w].status, "r_store"))
    <3>1. Relies(Transition(thread[w], thread[w].status, "r_store"), db, disk)
      BY <2>1, Relying, TransitionRelies DEF Task
    <3> QED BY <1>1, <2>1, <2>4, <3>1, GateReads
  <2> QED BY <1>2, <2>2, <2>3, <2>4 DEF ResultRead
<1>3. CASE ResultStore(w)
  <2> DEFINE s == StoreResult(db, Task(w), thread[w].status)
  <2>1. Write(s) /\ Goto(w, "r_commit")
    BY <1>3 DEF ResultStore
  <2>2. Mild(db, s)
    BY <1>1, StoreTyped
       DEF StoreResult, Mild, Keeps, Past, HasTask, HasRow, Store
  <2> HIDE DEF s
  <2> QED BY <1>1, <2>1, <2>2, GateMild
             DEF QuietPCs, PlainPCs, ClearedPCs, DeletePCs
<1>4. CASE ResultCommit(w)
  <2> DEFINE l == [thread[w] EXCEPT !.pc = "r_file"]
  <2>1. Commit(db) /\ Become(w, l)
    BY <1>4 DEF ResultCommit, Goto
  <2>2. Relies(l, db, db)
    BY Relying, GotoRelies DEF Task, QuietPCs, PlainPCs, ClearedPCs, DeletePCs
  <2> HIDE DEF l
  <2> QED BY <1>1, <2>1, <2>2, KeepsReflexive, GateCommits DEF GateInv
<1>5. CASE ResultFile(w)
  BY <1>1, <1>5, GateGoto
     DEF ResultFile, QuietPCs, PlainPCs, ClearedPCs, DeletePCs
<1> QED BY <1>2, <1>3, <1>4, <1>5 DEF RecordResult

LEMMA CancelGate ==
  ASSUME TypeInv, GateInv, NEW w \in Threads, Cancel(w)
  PROVE  GateInv'
<1>1. Task(w) \in Tasks /\ UNCHANGED runs
  BY Serving DEF Cancel, CancelRead, CancelState, CancelRow, At, Outside
<1>2. CASE CancelRead(w)
  <2> DEFINE found == HasRow(db, Task(w))
             l == [thread[w] EXCEPT !.pc = "c_state", !.hasRow = found]
  <2>0. Read /\ (Goto(w, "return") \/ GiveUp(w) \/ Become(w, l))
    BY <1>2 DEF CancelRead
  <2>1. CASE Goto(w, "return") \/ GiveUp(w)
    BY <1>1, <2>0, <2>1, GateGiveUp, GateGoto
       DEF QuietPCs, PlainPCs, ClearedPCs, DeletePCs
  <2>2. CASE Become(w, l)
    <3>1. l.pc = "c_state" /\ l.caught = thread[w].caught /\ l.task = Task(w)
      BY Relying DEF Locals, Task
    <3> HIDE DEF l
    <3>2. Relies(l, db, disk)
      BY <3>1, Relying, QuietRelies DEF ClearedPCs, DeletePCs
    <3> QED BY <1>1, <2>0, <2>2, <3>2, GateReads
  <2> QED BY <2>0, <2>1, <2>2
<1>3. CASE CancelState(w)
  <2> DEFINE s == UpdateTaskState(db, Task(w), "cancelled")
  <2>1. Write(s) /\ Goto(w, "c_row")
    BY <1>3 DEF CancelState
  <2>2. Mild(db, s)
    BY <1>1, StoreTyped, UpdateTaskStateTouches DEF States, PostApproval
  <2> HIDE DEF s
  <2> QED BY <1>1, <2>1, <2>2, GateMild
             DEF QuietPCs, PlainPCs, ClearedPCs, DeletePCs
<1>4. CASE CancelRow(w)
  <2> DEFINE marked == IF thread[w].hasRow
                       THEN MarkCancelled(db, Task(w)) ELSE db
             s == AddAudit(marked, Task(w), "task_cancelled", "client")
  <2>1. Write(s) /\ Goto(w, "return")
    BY <1>4 DEF CancelRow
  <2>2. marked \in Store
    BY <1>1, StoreTyped, MarkStatusType DEF MarkCancelled, RowStatus
  <2>3. Mild(db, marked)
    BY <1>1, StoreTyped, UpdateRowMild, KeepsReflexive
       DEF MarkCancelled, MarkStatus, Mild
  <2> HIDE DEF marked
  <2>4. Mild(marked, s)
    BY <1>1, <2>2, AddAuditMild
  <2> HIDE DEF s
  <2>5. Mild(db, s)
    BY <2>3, <2>4, KeepsTransitive DEF Mild
  <2> QED BY <1>1, <2>1, <2>5, GateMild
             DEF QuietPCs, PlainPCs, ClearedPCs, DeletePCs
<1> QED BY <1>2, <1>3, <1>4 DEF Cancel

LEMMA TimeoutsGate ==
  ASSUME TypeInv, GateInv, NEW w \in Threads, TimeoutsList(w) \/ TimeoutsNext(w)
  PROVE  GateInv'
<1>1. /\ thread[w] \in Locals /\ UNCHANGED runs /\ ~thread[w].caught
  BY Relying DEF TimeoutsList, TimeoutsNext, At, Outside, Relies
<1>2. CASE TimeoutsList(w)
  <2> DEFINE todo == {t \in Tasks : /\ db.queue[t].status = "running"
                                    /\ db.queue[t].timeout # NoTime
                                    /\ db.queue[t].timeout <= now}
             l == [thread[w] EXCEPT !.pc = "to_next", !.at = now, !.todo = todo]
  <2>1. Become(w, l) /\ Read
    BY <1>2 DEF TimeoutsList
  <2> HIDE DEF todo
  <2>2. l.pc = "to_next" /\ ~l.caught
    BY <1>1 DEF Locals
  <2> HIDE DEF l
  <2>3. Relies(l, db, disk)
    BY <2>2 DEF Relies, InTransition, ClearedPCs, DeletePCs
  <2> QED BY <1>1, <2>1, <2>3, GateReads
<1>3. CASE TimeoutsNext(w) /\ thread[w].todo = {}
  BY <1>1, <1>3, GateGoto
     DEF TimeoutsNext, QuietPCs, PlainPCs, ClearedPCs, DeletePCs
<1>4. CASE TimeoutsNext(w) /\ thread[w].todo # {}
  <2>1. PICK t \in thread[w].todo :
          /\ Write(MarkTimedOut(db, t))
          /\ Become(w, Transition([thread[w] EXCEPT !.task = t,
                                                    !.todo = @ \ {t}],
                                  "failed", "to_next"))
    BY <1>4 DEF TimeoutsNext
  <2> DEFINE s == MarkTimedOut(db, t)
             l == [thread[w] EXCEPT !.task = t, !.todo = @ \ {t}]
  <2>2. t \in Tasks
    BY <1>1 DEF Locals
  <2>3. Mild(db, s)
    BY <2>2, StoreTyped, UpdateRowMild DEF MarkTimedOut, MarkStatus
  <2>4. Write(s) /\ Become(w, Transition(l, "failed", "to_next"))
    BY <2>1
  <2>5. l \in Locals /\ ~l.caught
    BY <1>1, <2>2 DEF Locals
  <2> HIDE DEF s, l
  <2>6. Keeps(db, s) /\ Gate(s)
    BY <2>3, MildKeepsGate DEF GateInv
  <2>7. Relies(Transition(l, "failed", "to_next"), s, disk)
    BY <2>5, TransitionRelies
  <2> QED BY <1>1, <2>4, <2>6, <2>7, GateWrites
<1> QED BY <1>2, <1>3, <1>4

LEMMA RecoverGate ==
  ASSUME TypeInv, GateInv, NEW w \in Threads,
         \/ RecoverJobRead(w) \/ RecoverJobRow(w) \/ RecoverJobState(w)
         \/ RecoverApproval(w)
  PROVE  GateInv'
<1>1. Task(w) \in Tasks /\ UNCHANGED runs
  BY Serving DEF RecoverJobRead, RecoverJobRow, RecoverJobState,
                 RecoverApproval, At, Outside
<1>2. /\ thread[w] \in Locals /\ Relies(thread[w], db, disk)
      /\ thread[w].caught => Sound(db, Task(w))
  BY Relying
<1>3. CASE RecoverJobRead(w)
  <2> DEFINE l == [thread[w] EXCEPT !.pc = "rj_row"]
  <2>1. CASE GiveUp(w)
    BY <1>1, <1>3, <2>1, GateGiveUp DEF RecoverJobRead
  <2>2. CASE HasRow(db, Task(w)) /\ Become(w, l)
    <3>1. Sound(db, Task(w))
      BY <1>1, <2>2 DEF GateInv, Gate, Past
    <3>2. l.pc = "rj_row" /\ l.task = Task(w)
      BY <1>2 DEF Locals, Task
    <3> HIDE DEF l
    <3>3. Relies(l, db, disk)
      BY <3>1, <3>2 DEF Relies, InTransition, ClearedPCs, DeletePCs
    <3> QED BY <1>1, <1>3, <2>2, <3>3, GateReads DEF RecoverJobRead
  <2> QED BY <1>3, <2>1, <2>2 DEF RecoverJobRead, Goto
<1>4. CASE RecoverJobRow(w)
  <2> DEFINE s == ResetToQueued(db, Task(w))
             l == [thread[w] EXCEPT !.pc = "rj_state"]
  <2>1. Write(s) /\ Become(w, l) /\ thread[w].pc = "rj_row"
    BY <1>4 DEF RecoverJobRow, Goto, At
  <2>2. Mild(db, s)
    BY <1>1, StoreTyped, UpdateRowMild DEF ResetToQueued
  <2> HIDE DEF s
  <2>3. Keeps(db, s) /\ Gate(s)
    BY <2>2, MildKeepsGate DEF GateInv
  <2>4. Sound(s, Task(w))
    BY <1>2, <2>1, <2>3, SoundKept DEF Relies, ClearedPCs, DeletePCs, Task
  <2>5. l.pc = "rj_state" /\ l.task = Task(w)
    BY <1>2 DEF Locals, Task
  <2> HIDE DEF l
  <2>6. Relies(l, s, disk)
    BY <2>4, <2>5 DEF Relies, InTransition, ClearedPCs, DeletePCs
  <2> QED BY <1>1, <2>1, <2>3, <2>6, GateWrites
<1>5. CASE RecoverJobState(w)
  <2> DEFINE s == UpdateTaskState(db, Task(w), "queued")
  <2>1. Write(s) /\ Goto(w, "return") /\ Sound(db, Task(w))
    BY <1>2, <1>5 DEF RecoverJobState, At, Relies, ClearedPCs, DeletePCs, Task
  <2>2. Touches(db, s, Task(w))
    BY <1>1, StoreTyped, UpdateTaskStateTouches DEF States
  <2> HIDE DEF s
  <2> QED BY <1>1, <2>1, <2>2, GateTouches
             DEF QuietPCs, PlainPCs, ClearedPCs, DeletePCs
<1>6. CASE RecoverApproval(w)
  <2> DEFINE s == UpdateTaskApproval(db, Task(w), "pending_approval", "pending")
  <2>1. Write(s) /\ Goto(w, "return")
    BY <1>6 DEF RecoverApproval
  <2>2. Mild(db, s)
    BY <1>1, StoreTyped, UpdateTaskApprovalTouches
       DEF States, ApprovalStatus, PostApproval
  <2> HIDE DEF s
  <2> QED BY <1>1, <2>1, <2>2, GateMild
             DEF QuietPCs, PlainPCs, ClearedPCs, DeletePCs
<1> QED BY <1>3, <1>4, <1>5, <1>6

LEMMA OperateGate ==
  ASSUME TypeInv, GateInv, NEW w \in Threads, Operate(w)
  PROVE  GateInv'
<1>1. CASE DeleteRead(w) \/ DeleteData(w) \/ DeleteTask(w)
  BY <1>1, Relying
     DEF DeleteRead, DeleteData, DeleteStatement, DeleteTask, At, Relies,
         DeletePCs
<1>2. CASE DeleteFiles(w)
  BY <1>2, GateGoto DEF DeleteFiles, QuietPCs, PlainPCs, ClearedPCs, DeletePCs
<1> QED BY <1>1, <1>2, TimeoutsGate, RecoverGate DEF Operate

-----------------------------------------------------------------------------
(* The theorem *)

LEMMA InitGate == Init => GateInv
<1> SUFFICES ASSUME Init PROVE GateInv
  OBVIOUS
<1>1. Gate(EmptyStore)
  BY DEF Gate, Past, EmptyStore, HasRow, NoTaskRow, PostApproval
<1> QED BY <1>1, KeepsReflexive, IdleRelies DEF Init, GateInv

LEMMA NextGate ==
  ASSUME "delete" \notin Ops, TypeInv, GateInv, [Next]_vars
  PROVE  GateInv'
<1>1. ASSUME NEW w \in Threads, Request(w) PROVE GateInv'
  BY <1>1, RequestGate
<1>2. ASSUME NEW w \in Threads, Return(w) PROVE GateInv'
  BY <1>2, GateGiveUp DEF Return
<1>3. ASSUME NEW w \in Threads, Serve(w) PROVE GateInv'
  BY <1>2, <1>3, TransitionReadGate, TransitionWriteGate, TransitionCommitGate,
     SubmitGate, ProcessGate, DispatchGate, RecordResultGate, CancelGate,
     OperateGate
     DEF Serve, Transact
<1>4. CASE Hermes
  BY <1>4 DEF Hermes, HermesAnswers, GateInv
<1>5. CASE Tick
  BY <1>5 DEF Tick, GateInv
<1>6. CASE Crash
  BY <1>6, KeepsReflexive, IdleRelies DEF Crash, GateInv
<1>7. CASE UNCHANGED vars
  BY <1>7 DEF vars, GateInv
<1> QED BY <1>1, <1>3, <1>4, <1>5, <1>6, <1>7 DEF Next

LEMMA GateImpliesApprovalGate == ASSUME GateInv PROVE ApprovalGate
<1> SUFFICES ASSUME NEW t \in Tasks
             PROVE  /\ \A s \in {db, disk} : Past(s, t) => Cleared(s, t)
                    /\ runs[t] > 0 => HasTask(disk, t) /\ Cleared(disk, t)
  BY DEF ApprovalGate, Past
<1> QED BY DEF GateInv, Gate, Sound

\* Without deletes, whatever the interleaving, the retries, the operators'
\* repairs and the crashes: no task gets past its approval, has a queue row or is
\* executed by Hermes before a human approved it, if its request asks for that.
THEOREM ApprovalGateHolds ==
  ASSUME "delete" \notin Ops
  PROVE  Spec => []ApprovalGate
<1>1. Init => TypeInv /\ GateInv
  BY InitType, InitGate
<1>2. TypeInv /\ GateInv /\ [Next]_vars => (TypeInv /\ GateInv)'
  BY NextType, NextGate
<1>3. TypeInv /\ GateInv => ApprovalGate
  BY GateImpliesApprovalGate
<1> QED BY <1>1, <1>2, <1>3, PTL DEF Spec
-----------------------------------------------------------------------------
(* AcknowledgedSubmitIsDurable.  A submission is answered after its first    *)
(* transition was committed, and from that commit on its task is on disk.    *)

\* A thread whose request has not been committed yet: it is before the end of
\* the transition to validating (submit_task).
Early(l) ==
  \/ l.pc \in {"idle", "submit_lookup", "submit_create", "submit_idem"}
  \/ InTransition(l) /\ l.then = "submit_validated"

\* What is known of a submission: it raises before it is committed, and its task
\* is on disk afterwards.
Kept(l, d) ==
  l.op = "submit" => IF Early(l) THEN ~l.caught ELSE HasTask(d, l.task)

\* The inductive invariant, beside GateInv.
AckInv ==
  /\ AcknowledgedSubmitIsDurable
  /\ \A w \in Threads : Kept(thread[w], disk)

\* A step that does not end the first transition of a submission: the request
\* ends, or goes on about the same task, committed or not as before.
Onward(l, m) ==
  \/ m.op = "none" /\ m.pc = "idle"
  \/ /\ m.op = l.op
     /\ l.op = "submit" =>
          /\ m.task = l.task
          /\ Early(l) <=> Early(m)
          /\ Early(l) => m.caught = l.caught

LEMMA GotoOnward ==
  ASSUME TypeInv, NEW w \in Threads, NEW pc, Goto(w, pc),
         \/ ~Early(thread[w]) /\ pc \notin {"idle", "submit_lookup",
              "submit_create", "submit_idem", "t_read", "t_write", "t_commit"}
         \/ InTransition(thread[w]) /\ pc \in {"t_write", "t_commit"}
  PROVE  Onward(thread[w], thread'[w])
<1> DEFINE m == [thread[w] EXCEPT !.pc = pc]
<1>1. /\ m.pc = pc /\ m.op = thread[w].op /\ m.task = thread[w].task
      /\ m.then = thread[w].then /\ m.caught = thread[w].caught
  BY DEF TypeInv, TypeOK, Locals
<1>2. thread'[w] = m
  BY DEF Goto, Become, TypeInv, TypeOK
<1> HIDE DEF m
<1> QED BY <1>1, <1>2 DEF Onward, Early, InTransition

LEMMA GiveUpOnward ==
  ASSUME TypeInv, NEW w \in Threads, GiveUp(w)
  PROVE  Onward(thread[w], thread'[w])
BY DEF Onward, GiveUp, Become, TypeInv, TypeOK, Idle

LEMMA RaiseOnward ==
  ASSUME TypeInv, NEW w \in Threads, Kept(thread[w], disk), Raise(w)
  PROVE  Onward(thread[w], thread'[w])
<1>1. CASE thread[w].caught
  <2> DEFINE l == thread[w]
             pc == IF l.attempts + 1 >= MaxAttempts THEN "e_dead" ELSE "e_state"
             m == [l EXCEPT !.caught = FALSE, !.pc = pc]
  <2>1. m.op = l.op /\ m.task = l.task /\ m.pc \in {"e_dead", "e_state"}
    BY DEF TypeInv, TypeOK, Locals
  <2>2. thread'[w] = m
    BY <1>1 DEF Raise, Raised, Become, TypeInv, TypeOK
  <2> HIDE DEF m
  <2> QED BY <1>1, <2>1, <2>2 DEF Onward, Kept, Early, InTransition
<1>2. CASE ~thread[w].caught
  BY <1>2 DEF Raise, Raised, Onward, Become, TypeInv, TypeOK, Idle
<1> QED BY <1>1, <1>2

LEMMA CallOnward ==
  ASSUME TypeInv, NEW w \in Threads, NEW target, NEW then,
         Become(w, Transition(thread[w], target, then)),
         then # "submit_validated", ~Early(thread[w])
  PROVE  Onward(thread[w], thread'[w])
<1> DEFINE m == Transition(thread[w], target, then)
<1>1. /\ m.pc = "t_read" /\ m.op = thread[w].op /\ m.task = thread[w].task
      /\ m.then = then
  BY DEF TypeInv, TypeOK, Locals, Transition
<1>2. thread'[w] = m
  BY DEF Become, TypeInv, TypeOK
<1> HIDE DEF m
<1> QED BY <1>1, <1>2 DEF Onward, Early, InTransition

LEMMA TransitionReadOnward ==
  ASSUME TypeInv, NEW w \in Threads, Kept(thread[w], disk), TransitionRead(w)
  PROVE  Onward(thread[w], thread'[w])
BY GotoOnward, RaiseOnward DEF TransitionRead, At, InTransition

LEMMA SubmitOnward ==
  ASSUME TypeInv, NEW w \in Threads, Submit(w),
         \A t \in Tasks : KeyOf[t] = NoKey
  PROVE  Onward(thread[w], thread'[w])
<1>0. Task(w) \in Tasks /\ ThreadOK(thread[w]) /\ thread[w] \in Locals
  BY Serving, ThreadIsTyped
     DEF Submit, SubmitLookup, SubmitCreate, SubmitIdempotency, EnqueueTask, At
<1>1. CASE SubmitLookup(w) \/ SubmitIdempotency(w)
  BY <1>0, <1>1, ServiceAssumption
     DEF SubmitLookup, SubmitIdempotency, At, ThreadOK, Task
<1>2. CASE SubmitCreate(w)
  <2>1. CASE HasTask(db, Task(w))
    BY <1>2, <2>1, GiveUpOnward DEF SubmitCreate
  <2>2. CASE ~HasTask(db, Task(w))
    <3>1. PICK required \in BOOLEAN, status \in ApprovalStatus :
                 CreatesTask(w, required, status)
      BY <1>2, <2>2, CreatesSome
    <3> DEFINE l == [thread[w] EXCEPT !.goal = NextState(required, status)]
               m == Transition(l, "validating", "submit_validated")
    <3>2. thread'[w] = m
      BY <1>0, <3>1 DEF CreatesTask, Key, Become, TypeInv, TypeOK
    <3>3. /\ m.pc = "t_read" /\ m.op = thread[w].op /\ m.task = thread[w].task
          /\ m.then = "submit_validated" /\ m.caught = thread[w].caught
      BY <1>0 DEF Transition, Locals
    <3> HIDE DEF m
    <3> QED BY <1>2, <3>2, <3>3
            DEF SubmitCreate, At, Onward, Early, InTransition
  <2> QED BY <2>1, <2>2
<1>3. CASE EnqueueTask(w)
  BY <1>3, GotoOnward DEF EnqueueTask, At, Early, InTransition
<1> QED BY <1>1, <1>2, <1>3 DEF Submit

LEMMA ProcessOnward ==
  ASSUME TypeInv, NEW w \in Threads, Kept(thread[w], disk), Process(w)
  PROVE  Onward(thread[w], thread'[w])
<1> DEFINE l == thread[w]
<1>0. l \in Locals
  BY DEF TypeInv, TypeOK
<1>1. CASE ProcessRead(w)
  <2> DEFINE row == db.queue[Task(w)]
             p == [l EXCEPT !.at = now, !.attempts = row.attempts]
             m1 == [p EXCEPT !.pc = "d_read", !.caught = TRUE]
             m2 == [p EXCEPT !.pc = "claim_read"]
  <2>1. GiveUp(w) \/ Goto(w, "return") \/ thread'[w] \in {m1, m2}
    BY <1>1 DEF ProcessRead, Become, TypeInv, TypeOK
  <2>2. /\ m1.pc = "d_read" /\ m1.op = l.op /\ m1.task = l.task
        /\ m2.pc = "claim_read" /\ m2.op = l.op /\ m2.task = l.task
    BY <1>0 DEF Locals
  <2> HIDE DEF m1, m2
  <2>3. CASE thread'[w] \in {m1, m2}
    BY <1>1, <2>2, <2>3 DEF ProcessRead, At, Onward, Early, InTransition
  <2> QED BY <1>1, <2>1, <2>3, GiveUpOnward, GotoOnward
          DEF ProcessRead, At, Early, InTransition
<1>2. CASE ClaimRead(w)
  BY <1>2, GiveUpOnward, GotoOnward DEF ClaimRead, At, Early, InTransition
<1>3. CASE ClaimWrite(w)
  <2> DEFINE m == [l EXCEPT !.pc = "d_read", !.caught = TRUE,
                            !.attempts = db.queue[Task(w)].attempts]
  <2>1. GiveUp(w) \/ thread'[w] = m
    BY <1>3 DEF ClaimWrite, Become, TypeInv, TypeOK
  <2>2. m.pc = "d_read" /\ m.op = l.op /\ m.task = l.task
    BY <1>0 DEF Locals
  <2> HIDE DEF m
  <2>3. CASE thread'[w] = m
    BY <1>3, <2>2, <2>3 DEF ClaimWrite, At, Onward, Early, InTransition
  <2> QED BY <2>1, <2>3, GiveUpOnward
<1>4. CASE DeadLetter(w)
  BY <1>4, CallOnward DEF DeadLetter, At, Early, InTransition
<1>5. CASE RetryState(w) \/ RetryRow(w)
  BY <1>5, GotoOnward DEF RetryState, RetryRow, At, Early, InTransition
<1> QED BY <1>1, <1>2, <1>3, <1>4, <1>5 DEF Process

LEMMA DispatchOnward ==
  ASSUME TypeInv, NEW w \in Threads, Kept(thread[w], disk), Dispatch(w)
  PROVE  Onward(thread[w], thread'[w])
<1>1. CASE DispatchRead(w) \/ DispatchReady(w)
  <2>1. \/ Become(w, Transition(thread[w], "queued", "enqueue_row"))
        \/ Become(w, Transition(thread[w], "running", "d_running"))
        \/ Raise(w)
    BY <1>1 DEF DispatchRead, DispatchReady, Ready
  <2>2. ~Early(thread[w])
    BY <1>1 DEF DispatchRead, DispatchReady, At, Early, InTransition
  <2> QED BY <2>1, <2>2, CallOnward, RaiseOnward
<1>2. CASE \/ DispatchRunning(w) \/ DispatchDispatched(w) \/ SubmitReceived(w)
           \/ SubmitRefused(w) \/ SubmitAnswered(w)
  BY <1>2, GotoOnward
     DEF DispatchRunning, DispatchDispatched, SubmitReceived, SubmitRefused,
         SubmitAnswered, At, Early, InTransition
<1>3. CASE SubmitFails(w) \/ SubmitBroken(w)
  BY <1>3, RaiseOnward DEF SubmitFails, SubmitBroken
<1> QED BY <1>1, <1>2, <1>3 DEF Dispatch

LEMMA RecordCancelOnward ==
  ASSUME TypeInv, NEW w \in Threads, RecordResult(w) \/ Cancel(w)
  PROVE  Onward(thread[w], thread'[w])
<1>0. thread[w] \in Locals
  BY DEF TypeInv, TypeOK
<1>1. CASE ResultRead(w)
  <2>1. \/ GiveUp(w) \/ Goto(w, "return")
        \/ Become(w, Transition(thread[w], thread[w].status, "r_store"))
    BY <1>1 DEF ResultRead
  <2>2. ~Early(thread[w])
    BY <1>1 DEF ResultRead, At, Early, InTransition
  <2> QED BY <2>1, <2>2, GiveUpOnward, GotoOnward, CallOnward
<1>2. CASE ResultStore(w) \/ ResultCommit(w) \/ ResultFile(w)
  BY <1>2, GotoOnward DEF ResultStore, ResultCommit, ResultFile, At, Early,
                          InTransition
<1>3. CASE CancelRead(w)
  <2> DEFINE found == HasRow(db, Task(w))
             m == [thread[w] EXCEPT !.pc = "c_state", !.hasRow = found]
  <2>1. GiveUp(w) \/ Goto(w, "return") \/ thread'[w] = m
    BY <1>3 DEF CancelRead, Become, TypeInv, TypeOK
  <2>2. m.pc = "c_state" /\ m.op = thread[w].op /\ m.task = thread[w].task
    BY <1>0 DEF Locals
  <2>3. ~Early(thread[w])
    BY <1>3 DEF CancelRead, At, Early, InTransition
  <2> HIDE DEF m
  <2>4. CASE thread'[w] = m
    BY <2>2, <2>3, <2>4 DEF Onward, Early, InTransition
  <2> QED BY <2>1, <2>3, <2>4, GiveUpOnward, GotoOnward
<1>4. CASE CancelState(w) \/ CancelRow(w)
  BY <1>4, GotoOnward DEF CancelState, CancelRow, At, Early, InTransition
<1> QED BY <1>1, <1>2, <1>3, <1>4 DEF RecordResult, Cancel

LEMMA OperateOnward ==
  ASSUME TypeInv, NEW w \in Threads, Operate(w)
  PROVE  Onward(thread[w], thread'[w])
<1>0. thread[w] \in Locals /\ ThreadOK(thread[w])
  BY DEF TypeInv, TypeOK
<1>1. CASE TimeoutsList(w)
  <2> DEFINE todo == {t \in Tasks : /\ db.queue[t].status = "running"
                                    /\ db.queue[t].timeout # NoTime
                                    /\ db.queue[t].timeout <= now}
             m == [thread[w] EXCEPT !.pc = "to_next", !.at = now, !.todo = todo]
  <2>1. thread'[w] = m
    BY <1>1 DEF TimeoutsList, Become, TypeInv, TypeOK
  <2> HIDE DEF todo
  <2>2. m.op = thread[w].op /\ thread[w].op = "timeouts"
    BY <1>0, <1>1 DEF Locals, ThreadOK, TimeoutsList, At
  <2> HIDE DEF m
  <2> QED BY <2>1, <2>2 DEF Onward
<1>2. CASE TimeoutsNext(w)
  <2>1. CASE Goto(w, "return")
    BY <1>2, <2>1, GotoOnward DEF TimeoutsNext, At, Early, InTransition
  <2>2. CASE thread[w].todo # {}
    <3>1. PICK t \in thread[w].todo :
            Become(w, Transition([thread[w] EXCEPT !.task = t,
                                                   !.todo = @ \ {t}],
                                 "failed", "to_next"))
      BY <1>2, <2>2 DEF TimeoutsNext
    <3> DEFINE m == Transition([thread[w] EXCEPT !.task = t, !.todo = @ \ {t}],
                               "failed", "to_next")
    <3>2. thread'[w] = m
      BY <3>1 DEF Become, TypeInv, TypeOK
    <3>3. m.op = thread[w].op /\ thread[w].op = "timeouts"
      BY <1>0, <1>2 DEF Locals, ThreadOK, TimeoutsNext, At, Transition
    <3> HIDE DEF m
    <3> QED BY <3>2, <3>3 DEF Onward
  <2> QED BY <1>2, <2>1, <2>2 DEF TimeoutsNext
<1>3. CASE RecoverJobRead(w) \/ DeleteRead(w)
  BY <1>3, GiveUpOnward, GotoOnward
     DEF RecoverJobRead, DeleteRead, At, Early, InTransition
<1>4. CASE \/ RecoverJobRow(w) \/ RecoverJobState(w) \/ RecoverApproval(w)
           \/ DeleteData(w) \/ DeleteTask(w) \/ DeleteFiles(w)
  BY <1>4, GotoOnward
     DEF RecoverJobRow, RecoverJobState, RecoverApproval, DeleteData,
         DeleteStatement, DeleteTask, DeleteFiles, At, Early, InTransition
<1> QED BY <1>1, <1>2, <1>3, <1>4 DEF Operate

\* What is on disk stays there: only a delete would take a task away.
LEMMA DiskKept ==
  ASSUME TypeInv, GateInv, NEW w \in Threads, Serve(w), "delete" \notin Ops
  PROVE  Keeps(disk, disk')
<1>1. CASE disk' = disk
  BY <1>1, KeepsReflexive
<1>2. CASE TransitionCommit(w)
  <2> DEFINE s == AuditTransition(db, Task(w), thread[w].target, Actor(w))
  <2>1. Task(w) \in Tasks
    BY <1>2, Serving DEF TransitionCommit, At
  <2>2. Mild(db, db)
    BY KeepsReflexive DEF Mild
  <2>3. Mild(db, s)
    BY <2>1, <2>2, StoreTyped, AddAuditMild DEF AuditTransition
  <2>4. disk' = s
    BY <1>2 DEF TransitionCommit, Commit
  <2> HIDE DEF s
  <2> QED BY <2>3, <2>4, KeepsTransitive DEF Mild, GateInv
<1>3. CASE ResultCommit(w)
  BY <1>3 DEF ResultCommit, Commit, GateInv
<1>4. CASE DeleteTask(w)
  BY <1>4, Relying DEF DeleteTask, At, Relies, DeletePCs
<1>5. \/ disk' = disk \/ TransitionCommit(w) \/ ResultCommit(w) \/ DeleteTask(w)
  <2>1. CASE Return(w) \/ Submit(w)
    BY <2>1 DEF Return, Submit, SubmitLookup, SubmitCreate, SubmitIdempotency,
                EnqueueTask, Read, Write
  <2>2. CASE Process(w) \/ Cancel(w)
    BY <2>2 DEF Process, ProcessRead, ClaimRead, ClaimWrite, DeadLetter,
                RetryState, RetryRow, Cancel, CancelRead, CancelState,
                CancelRow, Read, Write
  <2>3. CASE Dispatch(w)
    BY <2>3 DEF Dispatch, DispatchRead, DispatchReady, DispatchRunning,
                DispatchDispatched, SubmitReceived, SubmitFails, SubmitRefused,
                SubmitAnswered, SubmitBroken, Read, Write
  <2>4. CASE Transact(w) \/ RecordResult(w)
    BY <2>4 DEF Transact, TransitionRead, TransitionWrite, RecordResult,
                ResultRead, ResultStore, ResultFile, Read, Write
  <2>5. CASE Operate(w)
    BY <2>5 DEF Operate, TimeoutsList, TimeoutsNext, RecoverJobRead,
                RecoverJobRow, RecoverJobState, RecoverApproval, DeleteRead,
                DeleteData, DeleteStatement, DeleteFiles, Read, Write
  <2> QED BY <2>1, <2>2, <2>3, <2>4, <2>5 DEF Serve
<1> QED BY <1>1, <1>2, <1>3, <1>4, <1>5

LEMMA OnwardKept ==
  ASSUME NEW l, NEW m, NEW d, NEW d2, ThreadOK(l), Kept(l, d), Keeps(d, d2),
         Onward(l, m)
  PROVE  Kept(m, d2)
<1>1. l.op = "submit" /\ ~Early(l) => l.task \in Tasks
  BY DEF ThreadOK, NamesTask, Early
<1> QED BY <1>1 DEF Kept, Keeps, Onward

\* The commit of a transition, the first one of a submission or a later one.
LEMMA CommitKept ==
  ASSUME TypeInv, GateInv, NEW w \in Threads, Kept(thread[w], disk),
         TransitionCommit(w), Keeps(disk, disk')
  PROVE  Kept(thread'[w], disk')
<1> DEFINE l == thread[w]
           m == thread'[w]
<1>1. /\ Task(w) \in Tasks /\ ThreadOK(l) /\ l \in Locals /\ l.pc = "t_commit"
      /\ Relies(l, db, disk)
  BY Serving, Relying DEF TransitionCommit, At
<1>2. m = After(l)
  BY DEF TransitionCommit, Become, TypeInv, TypeOK
<1>3. m.op = l.op /\ m.task = l.task /\ ~Early(m)
  <2>1. CASE l.then = "submit_validated"
    <3>1. m = Transition(l, l.goal, "submit_decided")
      BY <1>2, <2>1 DEF After
    <3> QED BY <1>1, <3>1 DEF Transition, Locals, Early, InTransition
  <2>2. CASE l.then = "submit_decided" /\ l.goal = "approved"
    <3>1. m = Transition(l, "queued", "enqueue_row")
      BY <1>2, <2>2 DEF After
    <3> QED BY <1>1, <3>1 DEF Transition, Locals, Early, InTransition
  <2>3. CASE l.then = "submit_decided" /\ l.goal # "approved"
    <3>1. m = [l EXCEPT !.pc = "return"]
      BY <1>2, <2>3 DEF After
    <3> QED BY <1>1, <3>1 DEF Locals, Early, InTransition
  <2>4. CASE l.then \notin {"submit_validated", "submit_decided"}
    <3>1. m = [l EXCEPT !.pc = l.then] /\ l.then \in Continuations
      BY <1>1, <1>2, <2>4 DEF After, Locals
    <3> QED BY <1>1, <2>4, <3>1 DEF Locals, Continuations, Early, InTransition
  <2> QED BY <2>1, <2>2, <2>3, <2>4
<1>4. l.op = "submit" => HasTask(disk', l.task)
  <2>1. CASE ~Early(l)
    BY <1>1, <2>1 DEF Kept, Keeps, Task
  <2>2. CASE Early(l)
    <3> DEFINE s == AuditTransition(db, Task(w), l.target, Actor(w))
    <3>1. HasTask(db, l.task)
      BY <1>1 DEF Relies, InTransition
    <3>2. Mild(db, db)
      BY KeepsReflexive DEF Mild
    <3>3. Mild(db, s)
      BY <1>1, <3>2, StoreTyped, AddAuditMild DEF AuditTransition
    <3>4. disk' = s
      BY DEF TransitionCommit, Commit
    <3> HIDE DEF s
    <3> QED BY <1>1, <3>1, <3>3, <3>4 DEF Mild, Keeps, Task
  <2> QED BY <2>1, <2>2
<1> HIDE DEF l, m
<1>5. Kept(m, disk')
  BY <1>3, <1>4 DEF Kept
<1> QED BY <1>5 DEF m

LEMMA ServeAck ==
  ASSUME TypeInv, GateInv, AckInv, NEW w \in Threads, Serve(w),
         "delete" \notin Ops, \A t \in Tasks : KeyOf[t] = NoKey
  PROVE  AckInv'
<1>0. /\ ThreadOK(thread[w]) /\ Kept(thread[w], disk) /\ Keeps(disk, disk')
      /\ \A v \in Threads : v # w => thread'[v] = thread[v]
  <2>1. \A v \in Threads : v # w => thread'[v] = thread[v]
    <3>1. ASSUME NEW l, Become(w, l)
          PROVE  \A v \in Threads : v # w => thread'[v] = thread[v]
      BY <3>1 DEF Become, TypeInv, TypeOK
    <3>2. \E l : Become(w, l)
      <4>1. CASE Return(w) \/ Transact(w) \/ Submit(w)
        BY <4>1 DEF Return, Transact, TransitionRead, TransitionWrite,
             TransitionCommit, Submit, SubmitLookup, SubmitCreate,
             SubmitIdempotency, EnqueueTask, Goto, GiveUp, Raise
      <4>2. CASE Process(w) \/ Dispatch(w)
        BY <4>2 DEF Process, ProcessRead, ClaimRead, ClaimWrite, DeadLetter,
             RetryState, RetryRow, Dispatch, DispatchRead, DispatchReady,
             Ready, DispatchRunning, DispatchDispatched, SubmitReceived,
             SubmitFails, SubmitRefused, SubmitAnswered, SubmitBroken, Goto,
             GiveUp, Raise
      <4>3. CASE RecordResult(w) \/ Cancel(w)
        BY <4>3 DEF RecordResult, ResultRead, ResultStore, ResultCommit,
             ResultFile, Cancel, CancelRead, CancelState, CancelRow, Goto,
             GiveUp
      <4>4. CASE Operate(w)
        BY <4>4 DEF Operate, TimeoutsList, TimeoutsNext, RecoverJobRead,
             RecoverJobRow, RecoverJobState, RecoverApproval, DeleteRead,
             DeleteData, DeleteStatement, DeleteTask, DeleteFiles, Goto, GiveUp
      <4> QED BY <4>1, <4>2, <4>3, <4>4 DEF Serve
    <3> QED BY <3>1, <3>2
  <2> QED BY <2>1, DiskKept DEF TypeInv, AckInv
<1>1. \A v \in Threads : v # w => Kept(thread'[v], disk')
  <2>1. SUFFICES ASSUME NEW v \in Threads, v # w PROVE Kept(thread[v], disk')
    BY <1>0
  <2>2. Onward(thread[v], thread[v]) /\ ThreadOK(thread[v])
    BY DEF Onward, TypeInv
  <2> QED BY <1>0, <2>2, OnwardKept DEF AckInv
<1>2. Kept(thread'[w], disk')
  <2>1. CASE TransitionCommit(w)
    BY <1>0, <2>1, CommitKept
  <2>2. CASE Onward(thread[w], thread'[w])
    BY <1>0, <2>2, OnwardKept
  <2>3. Return(w) => Onward(thread[w], thread'[w])
    BY GiveUpOnward DEF Return
  <2>4. TransitionWrite(w) => Onward(thread[w], thread'[w])
    BY GotoOnward DEF TransitionWrite, At, InTransition
  <2> QED BY <1>0, <2>1, <2>2, <2>3, <2>4, TransitionReadOnward, SubmitOnward,
             ProcessOnward, DispatchOnward, RecordCancelOnward, OperateOnward
          DEF Serve, Transact
<1>3. AcknowledgedSubmitIsDurable'
  <2> SUFFICES ASSUME NEW t \in Tasks, "submit" \in acked'[t]
               PROVE  HasTask(disk', t)
    BY DEF AcknowledgedSubmitIsDurable
  <2>1. CASE "submit" \in acked[t]
    BY <1>0, <2>1 DEF AckInv, AcknowledgedSubmitIsDurable, Keeps
  <2>2. CASE "submit" \notin acked[t]
    <3>1. acked' # acked
      BY <2>2
    <3>2. Return(w)
      <4>1. CASE Transact(w) \/ Submit(w) \/ RecordResult(w) \/ Cancel(w)
        BY <3>1, <4>1 DEF Transact, TransitionRead, TransitionWrite,
             TransitionCommit, Submit, SubmitLookup, SubmitCreate,
             SubmitIdempotency, EnqueueTask, RecordResult, ResultRead,
             ResultStore, ResultCommit, ResultFile, Cancel, CancelRead,
             CancelState, CancelRow, Outside
      <4>2. CASE Process(w) \/ Dispatch(w)
        BY <3>1, <4>2 DEF Process, ProcessRead, ClaimRead, ClaimWrite,
             DeadLetter, RetryState, RetryRow, Dispatch, DispatchRead,
             DispatchReady, DispatchRunning, DispatchDispatched,
             SubmitReceived, SubmitFails, SubmitRefused, SubmitAnswered,
             SubmitBroken, Outside
      <4>3. CASE Operate(w)
        <5>1. ~DeleteTask(w)
          BY Relying DEF DeleteTask, At, Relies, DeletePCs
        <5> QED BY <3>1, <4>3, <5>1 DEF Operate, TimeoutsList, TimeoutsNext,
             RecoverJobRead, RecoverJobRow, RecoverJobState, RecoverApproval,
             DeleteRead, DeleteData, DeleteStatement, DeleteFiles, Outside
      <4> QED BY <4>1, <4>2, <4>3 DEF Serve
    <3>3. thread[w].op = "submit" /\ Task(w) = t /\ thread[w].pc = "return"
      BY <2>2, <3>2 DEF Return, At, TypeInv, TypeOK
    <3> QED BY <1>0, <3>3 DEF Kept, Early, InTransition, Keeps, Task
  <2> QED BY <2>1, <2>2
<1> QED BY <1>1, <1>2, <1>3 DEF AckInv

\* A request is taken up: a submission has nothing on disk and is early.
LEMMA StartAck ==
  ASSUME TypeInv, AckInv, NEW w \in Threads, NEW op, NEW l, Start(w, op, l),
         Kept([l EXCEPT !.op = op], disk)
  PROVE  AckInv'
<1> DEFINE m == [l EXCEPT !.op = op]
<1>1. Become(w, m) /\ UNCHANGED <<disk, acked>> /\ Kept(m, disk)
  BY DEF Start, Read, Outside
<1> HIDE DEF m
<1> QED BY <1>1 DEF Become, AckInv, AcknowledgedSubmitIsDurable, TypeInv, TypeOK

LEMMA RequestAck ==
  ASSUME TypeInv, AckInv, NEW w \in Threads, Request(w)
  PROVE  AckInv'
<1>1. ASSUME NEW t \in Tasks, RequestSubmit(w, t)
      PROVE  AckInv'
  <2> DEFINE l == [Idle EXCEPT !.pc = IF KeyOf[t] = NoKey THEN "submit_create"
                                                          ELSE "submit_lookup",
                               !.task = t]
             m == [l EXCEPT !.op = "submit"]
  <2>1. Start(w, "submit", l)
    BY <1>1 DEF RequestSubmit
  <2>2. m.pc \in {"submit_create", "submit_lookup"} /\ ~m.caught
    BY DEF Idle
  <2>3. Kept(m, disk)
    BY <2>2 DEF Kept, Early
  <2> HIDE DEF l
  <2> QED BY <2>1, <2>3, StartAck
<1>2. ASSUME NEW op, op # "submit", NEW l,
             Start(w, op, l), [l EXCEPT !.op = op].op = op
      PROVE  AckInv'
  BY <1>2, StartAck DEF Kept
<1>3. ASSUME NEW t \in Tasks, RequestApprove(w, t) \/ RequestReject(w, t)
      PROVE  AckInv'
  BY <1>2, <1>3 DEF RequestApprove, RequestReject, Transition, Idle
<1>4. ASSUME NEW t \in Tasks,
             \/ RequestCancel(w, t) \/ RequestRecoverJob(w, t)
             \/ RequestRecoverApproval(w, t) \/ RequestDelete(w, t)
      PROVE  AckInv'
  BY <1>2, <1>4 DEF RequestCancel, RequestRecoverJob, RequestRecoverApproval,
                    RequestDelete, Idle
<1>5. ASSUME NEW t \in Tasks, NEW status \in RunStatus, RequestResult(w, t, status)
      PROVE  AckInv'
  BY <1>2, <1>5 DEF RequestResult, Idle
<1>6. ASSUME NEW t \in Tasks, NEW worker \in Workers \cup {NoWorker},
             RequestProcess(w, t, worker)
      PROVE  AckInv'
  BY <1>2, <1>6 DEF RequestProcess, Idle
<1>7. CASE RequestTimeouts(w)
  BY <1>2, <1>7 DEF RequestTimeouts, Idle
<1> QED BY <1>1, <1>3, <1>4, <1>5, <1>6, <1>7 DEF Request

LEMMA NextAck ==
  ASSUME "delete" \notin Ops, \A t \in Tasks : KeyOf[t] = NoKey,
         TypeInv, GateInv, AckInv, [Next]_vars
  PROVE  AckInv'
<1>1. ASSUME NEW w \in Threads, Request(w) PROVE AckInv'
  BY <1>1, RequestAck
<1>2. ASSUME NEW w \in Threads, Serve(w) PROVE AckInv'
  BY <1>2, ServeAck
<1>3. CASE Hermes \/ Tick \/ UNCHANGED vars
  BY <1>3 DEF Hermes, HermesAnswers, Tick, vars, AckInv,
              AcknowledgedSubmitIsDurable
<1>4. CASE Crash
  <2>1. Kept(Idle, disk)
    BY DEF Kept, Idle
  <2> QED BY <1>4, <2>1 DEF Crash, AckInv, AcknowledgedSubmitIsDurable
<1> QED BY <1>1, <1>2, <1>3, <1>4 DEF Next

\* While nothing is deleted and no submission has an Idempotency-Key: a client
\* that was told 201 finds its task after any crash, however the handlers of
\* other requests interleave with the submission and commit what it wrote
\* (service.py:81-83).  With keys, a submission that arrives while another one
\* with its key is under way is answered before that one has committed.
THEOREM AcknowledgedSubmitIsDurableHolds ==
  ASSUME "delete" \notin Ops, \A t \in Tasks : KeyOf[t] = NoKey
  PROVE  Spec => []AcknowledgedSubmitIsDurable
<1>1. Init => TypeInv /\ GateInv /\ AckInv
  <2> SUFFICES ASSUME Init PROVE AckInv
    BY InitType, InitGate
  <2>1. Kept(Idle, disk)
    BY DEF Kept, Idle
  <2> QED BY <2>1 DEF Init, AckInv, AcknowledgedSubmitIsDurable
<1>2. TypeInv /\ GateInv /\ AckInv /\ [Next]_vars
        => (TypeInv /\ GateInv /\ AckInv)'
  BY NextType, NextGate, NextAck
<1>3. AckInv => AcknowledgedSubmitIsDurable
  BY DEF AckInv
<1> QED BY <1>1, <1>2, <1>3, PTL DEF Spec
=============================================================================
