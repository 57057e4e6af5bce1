------------------------ MODULE PaperclipProperties ------------------------
(***************************************************************************)
(* What must be true of PaperclipService.  Some of it holds whatever the   *)
(* interleaving and the crashes, some only while requests are served one   *)
(* at a time or nothing crashes: README.md says which run checks which.    *)
(***************************************************************************)
EXTENDS PaperclipService

\* The tables, the threads and the environment keep their types.
TypeOK ==
  /\ db \in Store
  /\ disk \in Store
  /\ files \subseteq Tasks
  /\ thread \in [Threads -> Locals]
  /\ now \in Nat
  /\ crashes \in Nat
  /\ runs \in [Tasks -> Nat]
  /\ answers \in [Tasks -> SUBSET RunStatus]
  /\ acked \in [Tasks -> SUBSET {"submit", "cancel"}]

\* No request about the task is being served.
Quiet(t) == \A w \in Threads : thread[w].task # t

-----------------------------------------------------------------------------
(* Properties of every interleaving, with crashes *)

\* A task whose request asks for review was approved by a human.
Cleared(s, t) == s.task[t].review => t \in s.granted

\* Nothing executes without its review: no task gets past approval, has a queue
\* row or is executed by Hermes before a human approved it, and the approval of
\* an executed task is on disk, where a crash cannot lose it (app.py:256-259,
\* service.py:81-86, 207: the transitions that commit before each next step).
ApprovalGate ==
  \A t \in Tasks :
    /\ \A s \in {db, disk} :
         (s.task[t].state \in PostApproval \/ HasRow(s, t)) => Cleared(s, t)
    /\ runs[t] > 0 => HasTask(disk, t) /\ Cleared(disk, t)

\* reconcile_approval_status has nothing to report, at any moment and after any
\* crash: no handler writes a state without the approval status that goes with
\* it (service.py:448-468).
Reconciled(row) ==
  CASE row.state = "pending_approval" -> row.approval = "pending"
    [] row.state = "approved" -> row.approval \in {"approved", "not_required"}
    [] row.state = "rejected" -> row.approval = "rejected"
    [] OTHER -> TRUE

NothingToReconcile ==
  \A t \in Tasks : Reconciled(db.task[t]) /\ Reconciled(disk.task[t])

\* A row that waits for another attempt has attempts left, and a dead letter has
\* used all of them, whoever counted (service.py:169-185).
AttemptsBounded ==
  \A t \in Tasks : \A row \in {db.queue[t], disk.queue[t]} :
    /\ row.status = "queued" => row.attempts < MaxAttempts
    /\ row.status = "dead_letter" => row.attempts >= MaxAttempts

\* A task whose submission was answered with 201 survives a crash
\* (service.py:81-83: the transitions commit the row they did not write).
AcknowledgedSubmitIsDurable ==
  \A t \in Tasks : "submit" \in acked[t] => HasTask(disk, t)

-----------------------------------------------------------------------------
(* Properties of requests served one at a time, without a crash *)

\* Once a task is terminal no request, late result, retry or timeout moves it;
\* it can only be deleted.
TerminalIsFinal ==
  [][\A t \in Tasks : db.task[t].state \in Terminal
                        => db'.task[t].state \in {db.task[t].state, "absent"}]_vars

\* Of several results, equal or not, the first one recorded stays until the task
\* is deleted.
FirstResultWins ==
  [][\A t \in Tasks : db.result[t] # NoResult
                        => db'.result[t] \in {db.result[t], NoResult}]_vars

\* A task that Hermes completed has the state of its result, and a task that
\* succeeded has its result.
ResultMatchesState ==
  \A t \in Tasks : Quiet(t) =>
    /\ db.result[t] # NoResult => db.task[t].state = db.result[t]
    /\ db.task[t].state = "succeeded" => db.result[t] = "succeeded"

\* Between requests the two tables tell the same story about a task.
RowMatchesState ==
  \A t \in Tasks : Quiet(t) =>
    LET row == db.queue[t]  state == db.task[t].state IN
      /\ row.status = "queued" <=> state = "queued"
      /\ row.status = "dispatched"
           => state \in {"running", "succeeded", "failed"}
      /\ row.status \in {"dead_letter", "timed_out"} => state = "failed"
      /\ row.status = "cancelled" => state = "cancelled"
      /\ row.status # "running"

\* Hermes executes a task at most max_attempts times.
ExecutionsBounded == \A t \in Tasks : runs[t] <= MaxAttempts

\* Every step of the service is a step of the lifecycle, or none.
Lifecycle == INSTANCE TaskLifecycle
               WITH state <- [t \in Tasks |-> db.task[t].state]
FollowsLifecycle == Lifecycle!Spec

\* After a delete nothing of the task is left: no row, no key, no result file
\* (service.py:414-420, storage_layout.py).
DeletedIsGone ==
  \A t \in Tasks : Quiet(t) /\ ~HasTask(db, t) =>
    /\ ~HasRow(db, t)
    /\ db.result[t] = NoResult
    /\ \A k \in Keys : db.idem[k] # t
    /\ t \notin files

-----------------------------------------------------------------------------
(* Properties of requests served one at a time, with crashes *)

\* A decision on disk is never without the audit event that says who took it:
\* the two are written together (service.py:102-116, 306).
DecisionsAreAudited ==
  \A t \in Tasks : Quiet(t) =>
    LET state == disk.task[t].state IN
      /\ t \in disk.granted
           => <<"approval_granted", "human">> \in disk.audit[t]
      /\ state = "rejected"
           => <<"approval_rejected", "human">> \in disk.audit[t]
      /\ state = "cancelled"
           => <<"task_cancelled", "client">> \in disk.audit[t]

\* Two submissions with one Idempotency-Key never leave two tasks, whatever is
\* lost in between (service.py:34-39, 50, 75).
OneTaskPerKey ==
  \A t, u \in Tasks :
    /\ t # u
    /\ KeyOf[t] = KeyOf[u]
    /\ KeyOf[t] # NoKey
    => ~(HasTask(db, t) /\ HasTask(db, u))

\* A committed verdict is never taken back: not by a result that is delivered
\* again after a restart, not by a late approval or cancellation.
VerdictIsDurable ==
  [][\A t \in Tasks : disk.task[t].state \in Terminal
                        => disk'.task[t].state = disk.task[t].state]_vars

\* Where a result is stored it is the verdict of its task, in the middle of a
\* request and after a crash at any moment too: of the results that are delivered
\* again, and contradict each other, none is stored beside a state that another
\* one, a retry or a decision gave the task (service.py:219-245).
StoredResultIsTheVerdict ==
  \A t \in Tasks : \A s \in {db, disk} :
    s.result[t] # NoResult => s.task[t].state = s.result[t]

-----------------------------------------------------------------------------
(* Liveness *)

\* Threads run, time passes, and somebody keeps calling process_queue: nothing
\* in the repository does it, an operator's loop must.
FairSpec ==
  /\ Spec
  /\ WF_vars(Tick)
  /\ \A w \in Threads : WF_vars(Serve(w))
  /\ \A w \in Threads, t \in Tasks : SF_vars(RequestProcess(w, t, NoWorker))

\* No task is retried for ever: its row leaves "queued" for good, dispatched or
\* dead-lettered (service.py:169-193).
RetriesEnd == \A t \in Tasks : <>[](db.queue[t].status # "queued")
=============================================================================
