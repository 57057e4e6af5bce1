# Agentopia in TLA+

Agentopia runs tasks for clients.  *Paperclip* (`paperclip/`) is the control
plane: it takes tasks, has them reviewed, queues them and dispatches them.
*Hermes* (`hermes/`) executes a task and reports a result.  This directory holds
models of that program, TLC instances that check them, and TLAPS proofs.

All source paths below are relative to `src/`.

## 1. The system

### Components

| component | state | operations | modelled in |
|---|---|---|---|
| task state machine `paperclip/state_machine.py` | none | `can_transition`, `assert_transition` | `TaskStateMachine`, abstractly `TaskLifecycle` |
| database `paperclip/db.py`, `migrations/` | tables `tasks`, `audit_events`, `task_results`, `task_queue`, `task_idempotency` | one SQL statement each, `run_in_transaction` | `PaperclipStore` |
| service `paperclip/service.py`, `paperclip/dispatch.py` | none of its own | submit, transition, enqueue, claim, process, dispatch, record result, cancel, enforce timeouts, recover, delete | `PaperclipService` |
| HTTP surface `paperclip/app.py` | one thread per request over one service object | `do_GET`, `do_POST` | requests of `PaperclipService`; rate limit and client key of a request in `Gateway` |
| result files `scripts/storage_layout.py` | `var/paperclip/tasks/<id>/` | `persist_result`, `delete_task_storage` | `files` of `PaperclipService` |
| Hermes `hermes/app.py` | one thread per request | `/internal/execute`, memory, issue actions, postbacks | as an environment of `PaperclipService`; its postbacks in `HermesRecords`, its memory routes in `TenantMemory` |
| Hermes executor and workspace `hermes/executor.py`, `file_ops.py`, `repo_ops.py`, `write_boundaries.py`, `execution_limits.py` | files of the workspace | execute, preview, write, revert | `HermesExecutor` |
| Hermes policies `policy.py`, `tool_permissions.py`, `network_policy.py`, `shell_safety.py` | none | decisions on a request | guards of `HermesExecutor`; `EvaluateTaskPolicy` |
| Hermes records `persistence.py`, `postback_store.py`, `callback_store.py`, `scripts/retry_*.py` | one JSON file per run and per postback | record, replay | `HermesExecutor` (runs), `HermesRecords` (postbacks), composed in `IssueFlow` |
| issue actions `issue_actions.py`, `apply_resolution.py`, `revert_resolution.py` | reads recorded runs, executes again | preview, apply, revert | `IssueRequest` of `HermesExecutor` |
| memory `hermes/memory/` | a directory with a configuration and a status file per tenant | configure, mine, reindex, status, search, wake-up, delete | `TenantMemory` |
| adapter `paperclip_adapter/` | none; a remote Paperclip | issue, approval, wake-up | `AdapterSubmission`, composed in `IssueFlow` |
| rate limiter `scripts/rate_limit.py` | a deque of times per caller, shared by threads | `allow` | `RateLimiter` |
| client keys `scripts/api_keys.py`, `manage_client_api_keys.py` | one JSON registry | issue, revoke, rotate, resolve | `KeyRegistry` (functions on the registry), `Gateway` (commands and requests) |
| validation, runners, logging, metrics, migrations, deployment | | | not modelled, see section 7 |

### How they interact

* A client's `POST /tasks` runs `submit_task` in a thread of
  `ThreadingHTTPServer`.  If nobody has to approve the task, the same request
  enqueues and dispatches it.
* A human's `POST /tasks/<id>/approve` transitions the task and calls
  `dispatch_task` itself, past `process_queue`.
* `dispatch_task` marks the row and calls Hermes synchronously; the verdict
  arrives by another request, `POST /internal/tasks/<id>/result`, possibly before
  the call returned, possibly again, possibly never.
* `process_queue`, `enforce_timeouts` and the recovery tools are called by an
  operator's scripts.  The repository has no worker loop.
* Before Paperclip serves a client, the request passes the rate limiter (one deque
  per address, shared by the threads, no lock) and the client keys, whose file an
  operator's command may be rewriting.
* The adapter is another way in: `submit_task` makes an issue, an approval and a
  wake-up in a remote Paperclip by three calls.  The agent that is woken is
  external; it has Hermes execute the task, and Hermes posts a comment and a
  document to the issue and keeps a record of each, which `retry_postbacks.py`, a
  process of an operator, reads and posts again.
* All threads share one sqlite connection (`check_same_thread=False`).  Python
  opens a transaction at the first write and only `run_in_transaction` commits,
  for every thread at once.

### What is hard

Threads interleave between any two statements (the state a transition asserts on
is stale when it writes); a commit of one thread ends another's transaction in the
middle; much is written outside transactions and lives until a crash only;
one operation spans several commits, two tables and a directory; dispatches fail,
are refused, or execute and lose their answer; results are duplicated, late and
contradictory; leases expire under a worker; retries race results, timeouts and
cancellations.  Outside the database nothing has transactions at all: registry,
configuration, status, records and workspace files are read, changed and written
whole, truncated before they are filled, and removed while others write them; remote
calls are made one after another and nothing is undone.  `PROJECT.json` lists each hazard at its line.

### What makes it correct

* *State machine*: a task follows the documented transitions; terminal is final.
* *Review*: nothing executes before the approval it asks for, whatever races or
  crashes; state and approval status agree; decisions have their audit event.
* *Queue*: task and row tell one story; attempts are bounded, and used before a
  dead letter; retries end; one worker owns a row.
* *Results*: the first stays, and the state is its verdict.
* *Submission*: one task per key; what was acknowledged survives.
* *Delete*: nothing is left.
* *Workspace*: what is denied has had no effect, what is reported succeeded is
  there, and repeating a completed task is harmless.
* *Rate limit*: at most `limit` requests of a caller in a window; refusals are
  deserved; racing threads exceed the limit by a known number.
* *Keys*: a key that was reported revoked lets nobody in.
* *Memory*: tenants are apart, configurations whole, a deleted tenant stays deleted.
* *Issues*: no agent is woken before the approval is linked; an issue nobody was
  woken for is the trace of a failure.
* *Postbacks*: what is recorded as posted was posted; it is posted again only
  because of a fault; what failed is recorded.

## 2. Modules

| module | what it is |
|---|---|
| `TaskStateMachine` | `ALLOWED_TRANSITIONS` and its guard |
| `TaskLifecycle` | abstract specification: what a client may rely on of a task's states |
| `PaperclipStore` | the tables as a record of functions; one operator per statement |
| `PaperclipService` | threads, requests, transactions, Hermes, clock, crashes |
| `PaperclipProperties` | the type invariant and the properties that hold |
| `PaperclipPromises` | what the documents promise and the code does not keep |
| `MCPaperclip` | instances for TLC |
| `PaperclipProofs` | statements keep types; every step keeps `TypeInv` |
| `PaperclipGateProofs` | `ApprovalGate`, `AcknowledgedSubmitIsDurable` without keys |
| `PaperclipTableProofs` | `NothingToReconcile`, `AttemptsBounded` |
| `PaperclipSerialProofs` | what holds of requests that do not overlap, and the refinement of `TaskLifecycle` |
| `HermesExecutor` | `HermesExecutor.execute` in threads over one workspace |
| `HermesProperties` | its type invariant and properties; the policy nothing calls |
| `MCHermes` | instances for TLC |
| `HermesProofs` | the properties of `HermesProperties` that hold |
| `RateLimiter` | `allow` statement by statement; its properties |
| `KeyRegistry` | issue, revoke, rotate and resolve as functions on the registry |
| `Gateway` | limiter, registry file, commands of operators, requests of clients |
| `MCGateway`, `GatewayProofs` | its instance for TLC; its theorems |
| `TenantMemory` | the memory service, file operation by file operation; its properties |
| `MCMemory`, `MemoryProofs` | its instances for TLC; its theorems |
| `AdapterSubmission` | `submit_task` of the adapter, call by call |
| `HermesRecords` | postbacks of the execute handler, and their replay |
| `IssueFlow` | the two composed through the agent and the issue |
| `MCIssueFlow`, `IssueFlowProofs` | its instance for TLC; its theorems |

### How the model corresponds to the code

* `db` is what the shared connection reads, `disk` what a crash leaves.
  `Write` is a statement outside a commit, `Commit` the end of a
  `with self.conn`; a transaction is therefore several steps and not atomic
  towards other threads.
* `thread[w]` is a program counter with the locals of the operation: `at` is its
  `now`, `attempts` the `attempt_count` of the row it read, `caught` whether it is
  inside the `try` of `process_queue`, `then` where `transition_task` returns to.
  A step of a thread is one write, or the reads up to the next write, or one end
  of the call to Hermes.  An audit event no property reads is part of the step of
  the write before it.
* An exception is `Raise`: into the except branch of `process_queue` when
  `caught`, else out of the request.
* Data is abstract: a payload is whether it asks for review (`review`) and its
  initial approval status; a result is its verdict; a timestamp is a number, 0 is
  NULL.  Audit events are the three that record a decision, with their actor.
* `granted` (rows a human's approval was written to) and `acked` (answers sent)
  are history variables: no guard reads them.  `runs` counts the executions
  Hermes started and guards only Hermes' own answers.
* Hermes: `SubmitReceived` starts an execution, `SubmitAnswered` and
  `SubmitBroken` end the call, `SubmitFails` never reaches it, `SubmitRefused` is
  an error response with a body.  `HermesAnswers` produces a verdict of any
  execution at any time, and any verdict may be posted any number of times.

In `HermesExecutor`:

* A request is the record of what `execute` branches on.  Its text patterns are
  gone: whether the schema accepts it (`valid`), whether its command is safe or
  uses the network (`command`).  A path is a file of the workspace, one that
  leaves it, or a missing key; the two keys of a change that the boundary check
  and the write helper read differently (`file_path`, `path`) are kept apart.
* `Execute` is everything before a file is opened: validation, tool class,
  memory (which may fail), the handler's own checks.  Then each change is
  `Inspect` (resolve, read, compare), `Open` (`write_text` truncates) and `Fill`
  (it writes and closes) or `FillFails` (the text cannot be encoded, the disk is
  full).  Another thread may come between any two.  Writing at the start of a
  file that somebody else filled meanwhile leaves a mixture (`Garbled`).
* `Inspect` compares text: `ReadText` is what `read_text` makes of a content that
  `write_text` wrote, its line ends translated, and the content where there is no
  "\r" in it.  A file that is no UTF-8, or a directory, is `Unreadable`: reading it
  fails the task, also when it is to be overwritten or reverted.  A mixture, or a part
  of a text, may be either.  The workspace may begin with any files (`Initial`).
* `Limits` looks at time and output when the handler has returned; `Persist`
  writes the run's record, one per task, replaced by every execution.
* `file_revert` writes and then fails on a field its result does not have.
* `author`, `touched` and `meddled` are history variables: whose complete write a
  file holds, which tasks have opened a file for writing, and for each file the
  executions that others have truncated it or written to it after.  An execution that
  is running is named by its thread, one that is recorded as succeeded by its task
  (`Others`); opening the file clears its own name.
* `hermes/app.py` as checked in does not import: `hermes.build_info` is not in the
  repository, and it gives the executor and the records a `str` where they need
  a `Path`.  The model is of the server with a `Path`, as `issue_actions.py` and the
  tests build it.

In `RateLimiter` and `Gateway`:

* `allow` is a loop and two statements: `Trim` looks at the first time of the deque,
  `Pop` takes what is first by then, `Count` and `Refuse` are the check of the
  length, `AppendNow` is the append.  The clock is read once, when the request
  arrives.
* `admitted` is the history of all times appended to a deque, `overlapped` the set
  of callers that had two requests in `allow` at once.  No guard reads them.
* An entry of the registry is its id, its raw key (a number, in the place of its
  hash), its role and its status.  A command loads the file and changes it in one step
  (nothing else is visible in between), and `Truncate` and `Save` are `write_text`.
  `made` numbers the raw keys, `revoked` is the history of what was reported revoked.
* A request carries the token of any key ever made, or `OtherToken`: one of the
  tokens of the environment.  `Accept` and `Deny` are what `_require_client_auth`
  decides with the file as it is at that moment.

In `TenantMemory`:

* `dirs` are the tenants that have a directory, `file` the two files of each; a file
  that was truncated, or filled by two threads, is `Torn`.  A configuration is a
  model value with a mode and a switch, a status is what the operation reported.
* An operation loads the configuration (`Load`), runs the command (`RunCommand`,
  `Search`), makes the directory, opens the file and fills it (`MakeDir`, `Open`,
  `Fill`), one step each.  A deletion lists, unlinks and removes as `rmtree` does, and
  raises where it does.  A file unlinked under a writer takes the writer's text
  with it (`lost`).
* `mempalace` is external: it succeeds, fails, or cannot be started.
* `saved` (what was set for a tenant since its deletion) and `gone` (tenants whose
  deletion was reported with no writer under way) are history variables.

In `AdapterSubmission`, `HermesRecords` and `IssueFlow`:

* The remote Paperclip is `issues` (the task of each), `approvals` and `wakes` (the
  issues that are linked and woken for), `posts` (how often each result was posted).
  A call takes effect and is answered, takes effect and its answer is lost
  (`Broken`, and the second branch of `Post`), or has no effect (`CallFails`,
  `PostFails`).  A caller whose submission failed may submit the task again.
* A record is which execution it is of (`version`) and whether it says success;
  `retryable` is written as the opposite.  It is named after `run_<task_id>`, so
  every execution of a task writes the same two.  `Open` and `Fill` are
  `write_text`; the except branches of handler and replay differ in what they
  write (`WriteFails`).
* `failures` and `faults` count what went wrong, and bound it.
* Between the wake-up and the execution is the agent, outside the repository
  (`AgentExecutes`): it has Hermes execute a task that it was woken for, any number
  of times.  The executor as checked in sets no `paperclip_issue_id`, and without
  one the handler posts nothing; `tests/test_hermes_executor.py:75` and
  `docs/paperclip-hermes-result-contract.md:45` expect it, and the model is of
  the handler with results as that contract has them.

## 3. Runs

Runs named `Paperclip...` and `LateResult` are of `MCPaperclip`, `HermesRaces` and
`PolicyIgnored` and `Rewriting` of `MCHermes`, `Memory` of `MCMemory`, `Gateway` of
`MCGateway`, `IssueFlow` of `MCIssueFlow`.  Bounds of `MCPaperclip`:
`MaxTime` is the horizon of the clock (a deadline beyond it counts as reached there), `MaxCrashes` the crashes, `RunCap`
saturates the count of executions, `AttemptCap` stops `recover_stuck_job`
from feeding a row for ever.  `MaxAttempts = 2` is the least with one retry and
one dead letter.  `HermesExecutor` needs no bound: its state is finite.
Deadlock is checked everywhere: a request can always be made.

| run | instance | what it shows |
|---|---|---|
| `PaperclipSerial` | 1 task with a key, 1 thread, 2 workers, clock to 3, no crash | `ResultMatchesState`, `RowMatchesState`, `DeletedIsGone`, `FirstResultWins`, and `FollowsLifecycle`: the service implements `TaskLifecycle` |
| `PaperclipRaces` | 1 task, 2 threads, 1 crash; submit, approve, reject, process | `ApprovalGate`, `NothingToReconcile`, `AcknowledgedSubmitIsDurable`, `AttemptsBounded` |
| `PaperclipOperators` | 1 task, 1 thread, 1 crash, clock to 2; decisions, recovery tools and timeouts (which find no running row, see below) | `ApprovalGate`, `NothingToReconcile` |
| `PaperclipRestart` | 2 tasks with one key, 1 thread, 1 crash; submit, decisions, cancel, result | `OneTaskPerKey`, `DecisionsAreAudited`, `StoredResultIsTheVerdict`, `VerdictIsDurable` |
| `PaperclipLiveness` | 1 task, 1 thread, clock to 2; submit, process, cancel | `ExecutionsBounded`, `RetriesEnd` |
| `HermesRaces` | 4 tasks that meet in 2 files, 3 workspaces to begin with, 2 threads, any number of executions, failing writes and crashes | `DeniedHasNoEffect`, `SucceededIsComplete`, `OwnWorkIsNoObstacle` |
| `Gateway` | 1 caller, 2 threads, limit 2, window 1, clock to 2, 1 operator, 2 key ids, 2 raw keys | `WindowLimit`, `BurstIsBounded`, `RefusalIsDeserved`, `RevokedStaysOut` |
| `Memory` | 2 tenants, 2 threads, 2 configurations, any number of requests and crashes | `DeletedStaysDeleted`, `ConfigIsOwn` (tenant ids that are plain path components: config.py:41-42 joins them as they are) |
| `IssueFlow` | 2 clients, 1 task, 2 issues, 1 failed call, 2 handlers, 1 replay, 2 executions, 1 fault | `ReviewBeforeWake`, `OrphanNeedsAFailure`, `SuccessIsPosted`, `RepetitionNeedsAFault`, `PostbackIsAccountedFor` |

The four tasks of `HermesRaces` are a change of two files (the first overwritten by
a text with "\r\n", the second only if it has no other text), one whose
second change names its file by the key the write helper does not read, one
whose second change leaves the workspace, and a revert.  The second file is at first
absent, a text, or unreadable.  Two threads are enough for every interleaving of two
writes of a file; executions share nothing else.  `SucceededIsComplete` excuses a
file that another execution truncated or wrote to after the reported one had
opened it, for then the report may be of a file that is gone: the code has no lock.

`enforce_timeouts` is among the requests of `PaperclipSerial` and
`PaperclipOperators`, but with one thread it meets no row that says running (the
dispatch that set it has gone on to dispatched by then) and changes nothing; a crash
does not leave one either, since running and dispatched are committed together.  The
timed-out clause of `RowMatchesState` is therefore not exercised; see
`OverdueIsTimedOut` below.

`Gateway`: two threads race in `allow`; the deque holds up to three times, so the
window passes with a full deque and with one over the limit; two ids and two keys
make an id that is issued again after its revocation, a rotation onto itself and one
onto another id.  Callers share nothing but the clock, and one is enough for what
they do to each other's deque, which is nothing; the theorem is for any number.
`Memory` needs no bound: two tenants are the least with a file that is not one's
own, and two threads the least with a deletion during a write.  `IssueFlow`: two
submissions of one task leave two issues whose executions share their records; two
executions and a replay are three writers of one file; one fault of each kind
separates what a fault explains from what it does not.  The types of each are
checked in the same run (`GatewayTypeOK`, `MemoryTypeOK`, `FlowTypeOK`).

The limits of `MCPaperclip` follow the dependencies of the code: handlers touch
the rows of one task, and tasks meet only in the shared transaction (two threads
on one task already commit each other's writes) and in a shared key
(`PaperclipRestart` has two).  Two threads make every race between two
statements.  Three clock readings are before, at and after a deadline of one
second.  Threads are symmetric in `PaperclipRaces`, whose properties name no
thread.  Workers claim rows in `PaperclipSerial`; in `PaperclipRaces` the calls
carry no worker, which allows more: no owner is compared.

Why some runs have one thread or no crash: the properties of `PaperclipSerial`
and `PaperclipRestart` are what the documents promise, and they do hold there.
With a second thread or with a crash in the wrong place they do not.

### Where the code does not keep its word

Each run checks one formula that states the words of a document and finds an
execution of the code that breaks it.

| run | promise | what happens |
|---|---|---|
| `LateResult` | a late result does not overwrite a cancelled task | the result asserted its transition before the cancellation wrote |
| `PolicyIgnored` | `file_write` needs an approval | `evaluate_task_policy` has no caller |
| `Rewriting` | rewriting the same content is allowed (docs/paperclip-hermes-policy.md:54) | `read_text` translates line ends (file_ops.py:63) and the text is compared with the content asked for: a content with "\r" is refused because of its own completed write |

Five more promises are stated and have no run of their own: the first four in
`PaperclipPromises`, the last in `TenantMemory`.  Each is violated in the instance
named here.

* `AcknowledgedCancelHolds`: `cancel_task` never commits, and a crash takes the
  cancellation back (1 thread, submit and cancel, 1 crash).
* `OverdueIsTimedOut`: the row of an overdue task says `dispatched`, the timeout pass
  lists `running` (1 thread, submit and timeouts).
* `SucceededHasResult`: the verdict commits before the result is stored; after a crash
  in between, the redelivery is refused (1 thread, submit and result, 1 crash).
* `ClaimIsExclusive`: a claim is a read and an unconditional write (2 threads and
  2 workers, submit and process, clock to 3).
* `OffMeansOff`: with mode off, MemPalace is not used for retrieval
  (docs/mempalace-memory-modes.md:15-17), but it is searched whenever `enabled` is set;
  the mode only names the source of the answer (`MCMemory`: 1 tenant, 1 thread,
  `off` among `Config` and `Enabled`).

More executions of this kind are reachable in the models, and are why the passing
runs have the limits they have:

* `process_queue` (service.py:182) queues a task that was cancelled during its
  dispatch, and takes a task from running to queued past `assert_transition`.
* `enqueue_task` (125-127): after a crash a task is queued without a row.
* `record_result` (219): two deliveries pass the check together and the second
  replaces the result; add crashes or a second thread to `PaperclipSerial` and
  `FirstResultWins` fails.
* `approve` (app.py:259) dispatches outside the retry: a failed call strands the
  task in running.
* `process_queue` (172-173): a row is dead-lettered and the transition of its
  task refused.
* `submit_task` (35-75): two simultaneous submissions with one key both create a
  task; add a thread to `PaperclipRestart` and `OneTaskPerKey` fails.
* `delete_task` (418-419): after a crash the result file stays; add a crash to
  `PaperclipSerial` and `DeletedIsGone` fails.
* `run_in_transaction` (db.py:26): another thread's commit makes half of a
  transition durable; add a thread and a second task to `PaperclipRestart` and
  `DecisionsAreAudited` fails.
* `recover_stuck_job` (370) queues terminal tasks, since it asks for the lease only.
* `recover_stuck_approval` (483) leaves the queue row: `process_queue` queues the
  task again without a decision (docs/approval-recovery-tools.md:34).
* `HermesDispatchClient.submit` (dispatch.py:32) returns an error body like an
  answer: a refused submission leaves the task running and never executed
  (docs/retries-backoff.md:22-24).
* `write_workspace_file` (file_ops.py:62-69) reads and then writes: two tasks that
  may not overwrite both find no file and the second replaces the first's work
  (docs/paperclip-hermes-policy.md:55).
* `write_text` truncates first: after a crash or a text that cannot be encoded the
  file is empty, and the repetition of a task that may not overwrite is refused.
* `write_workspace_file` and `revert_workspace_file` (file_ops.py:63, 88) read the file
  as text first: one that is no UTF-8 can be neither overwritten nor reverted.
* `apply_repo_write` (repo_ops.py:59) reads `file_path` only; a change that names
  its file by `path` passes the boundary check and fails after the changes
  before it are written.
* `_handle_file_revert` (executor.py:177) restores the file and then always fails
  (docs/paperclip-hermes-rollback.md:39 describes a successful result).
* `execute_issue_file_revert` and `execute_issue_apply_preview` allow the tool class
  `local_exec` only: the executor always answers `TOOL_PERMISSION_DENIED`.
* `allow` (rate_limit.py:19): two requests of one caller pass the check together;
  and `popleft` of a deque that another thread emptied raises, and the request ends
  without an answer.  `overlapped` excludes these callers from `WindowLimit`.
* Two key commands that overlap lose one's change, a revocation included
  (manage_client_api_keys.py:43; add an operator to `Gateway` and
  `RevokedStaysOut` fails).
* A rotation of an id onto itself leaves two entries with the id, and a later
  revocation of the id revokes the first, which was revoked already: the active one
  stays (manage_client_api_keys.py:43; docs/key-management-path.md:44).
* `save_registry` truncates first: after an interruption the file is no JSON, and every
  client with a key of the file is answered with an error until it is repaired.
* A mine or reindex that is under way when its tenant is deleted makes the
  directory again (memory/service.py:38).  `DeletedStaysDeleted` is of operations
  that begin after the deletion.
* `run_operation` catches `FileNotFoundError` around the command and the write of its
  status (service.py:105): when the tenant was deleted meanwhile, a successful
  command is reported as `mempalace_command_not_found`.
* Two threads that fill one configuration leave a mixture; `load_mempalace_config`
  takes the environment's then, which may enable what the tenant disabled.
* Errors of the command other than these two (no permission, output that is no text)
  are not caught (docs/mempalace-fallback.md:27-31: failures fall back).
* `mempalace search` is given neither the tenant nor the palace path: all tenants
  search one palace, as docs/tenant-scoped-memory-boundaries.md admits.
* A replay writes the record it read before its call: a success of an old execution
  replaces the failure record of a newer one, which nobody posts again
  (retry_postbacks.py:43).  `PostbackIsAccountedFor` is of one execution.
* A record that was truncated by a crash is no JSON and is skipped by every replay
  (docs/paperclip-hermes-postback-recovery.md:35).
* Two replays at once read the same failed record and both post it; add one to
  `IssueFlow` and `RepetitionNeedsAFault` fails.
* `retry_postbacks.py:19` takes its own default for the address of Paperclip and ignores
  `PAPERCLIP_BASE_URL`.
* A submission that is repeated after a lost answer makes a second issue of the same
  task; both are executed under one run id, with one record for both.
* The adapter wakes the agent as soon as the approval is linked, not when it is
  decided; and the approval's payload keeps `PAPERCLIP_ISSUE_ID_PLACEHOLDER`.

## 4. Fairness

`FairSpec` (liveness only): time passes (`WF` of `Tick`); a thread that serves a
request goes on (`WF` of `Serve`: handlers do not block except on Hermes, whose
call is assumed to end one way or another); and somebody calls `process_queue`
without a worker again and again (`SF` of the request: a busy thread disables it
now and then).  The last is an assumption about the operator: nothing in the
repository runs the queue.  `RetriesEnd` is checked without
`recover_stuck_job`, which queues a row for ever if it is called for ever.

## 5. Proofs

For every set of tasks, threads and workers, every key assignment and bound:

* `TypeCorrect`: `Spec => []TypeOK`.  `TypeOK` is not inductive, because a local
  is set at one program counter and used at another.  `TypeInv` adds `ThreadOK`: what
  the locals of a thread are at each program counter (a transition has a
  target, a claim a worker, the branch `e_state` fewer attempts than the maximum).
* `ApprovalGateHolds`: `Spec => []ApprovalGate` when `delete` is not among the
  operations.  Approvals are never taken back (`Keeps`), so what a thread once saw
  cleared stays cleared.  `GateInv` says which program counters rely on it
  (`Relies`), in `db`, and in `disk` from the moment `transition_task` committed,
  and that `db` keeps all that `disk` holds.  With deletes the formula is false for
  the code: a task deleted while it is dispatched is executed without a row.
* `NothingToReconcileHolds`: `Spec => []NothingToReconcile`, all operations.
  Every statement that writes a state writes its approval status, or a state with
  which every status agrees.
* `AttemptsBoundedHolds`: `Spec => []AttemptsBounded` when `recover_job` is not
  among the operations; that tool queues dead letters with their attempts used.
  It rests on `ThreadOK`: the branch taken in `process_queue` bounds the count that
  its write stores, whatever the row has become.
* `AcknowledgedSubmitIsDurableHolds`: `Spec => []AcknowledgedSubmitIsDurable`, any number
  of threads, without `delete` and without Idempotency-Keys.  `AckInv`: a
  submission raises only before its first transition is committed (`Early`), and
  its task is on disk afterwards; it rests on `GateInv` for `db` keeping what
  `disk` holds.  With keys and several threads the formula is false: a submission
  that arrives while another one has recorded its key, and not yet committed it,
  is answered with a task that a crash loses.

Requests that do not overlap.  The service has no lock per task, so these
theorems say under which use of it the property holds; the run `LateResult` shows
that the assumption is needed.  `OneByOne` is the state predicate that no two
threads have requests about one task in hand (`Handles`; a thread that only has to
answer has none in hand); requests about different tasks interleave freely, in any
number of threads.  One thread always satisfies it (lemma `OneThread`), which is
what the runs `PaperclipSerial` and `PaperclipRestart` check.  `Serial`: the tools that
set a task back whatever its state (`recover_job`, `recover_approval`) are not
used, and nothing crashes; `SucceededHasResult` is false after a crash between the two
commits of `record_result`, and so are its neighbours.

* `Spec /\ []OneByOne => ...` under `Serial`, for every set of tasks, threads, workers
  and keys: `ResultMatchesStateHolds`, `RowMatchesStateHolds`, `DeletedIsGoneHolds`,
  `FirstResultWinsHolds`, and `FollowsLifecycleHolds`, the
  refinement of `TaskLifecycle`.  Also the two promises of the documents that the
  code breaks otherwise: `LateResultLeavesCancelledHolds` and
  `SucceededHasResultHolds`.  The inductive invariant `SerialInv` has two parts.  `Rest`
  relates the tables of a task that no thread has written half of.  `Story` says for
  each program counter what its thread has found and written by then, inside
  `transition_task` by where that returns to (`CallOK`); at the points in `Odd` the task
  is ahead of its other rows, and `Story` says by how much.  `Serves` is what a step
  has to show; every handler has a lemma (`...Serves`), and `ServesKeeps` derives
  `SerialInv'` from it: the step is about another task than the other threads are.
  Each property then follows from `Rest`, or from `Served`, which says how one task moves.
* `ExecutionsBoundedHolds`: the same assumptions, and no `delete` (a task that is
  deleted and submitted again keeps its count of executions).  `WorkInv`: a queued row
  has at least as many attempts counted as Hermes has started executions, a
  dispatched row at most one fewer, and what a thread inside `process_queue` read
  is still what the row says.
* `VerdictIsDurableHolds`: `Spec /\ []OneByOne => VerdictIsDurable`, any number of crashes,
  without `process`, `delete` and the recovery tools (`Settling`).  Two are meant to
  set a task back or remove it; `process` is excluded because a crash may
  leave a row queued behind the committed verdict of its task, and `process_queue`
  would pick it up.  `VerdictInv`: a task that is terminal on disk is as
  terminal in `db`, and a thread at a write that asserts nothing has read a state that
  is not terminal.
* `StoredResultIsTheVerdictHolds`: `Spec /\ []OneByOne => []StoredResultIsTheVerdict`, under
  `Settling`, any number of crashes.  `StoredInv`: the results in `db` and on `disk`
  match the states there, and a thread about to store a result has itself brought
  its task to that verdict.  It rests on `VerdictInv`, since a state that moved on
  would leave its result behind.
* `DecisionsAreAuditedHolds`, of one thread, all operations, any number of crashes: a
  transition and its event are two statements of one transaction, so an event is due
  only at the program counters between them (`Due`, `AuditInv`).  Another
  thread's commit may come between the two, so one thread is needed even for
  different tasks.
* `OneTaskPerKeyHolds`, of one thread, all operations, any number of crashes.  `KeyInv`:
  a recorded key names a task that exists and has that key (`Truthful`), and every task with a
  key owns it (`Owned`) but the one being submitted or deleted; then no task
  owns it (`KeyFree`).  Two threads look the same key up and both insert.
* `KeyedSubmitIsDurableHolds`: `AcknowledgedSubmitIsDurable` of one thread, with keys and all
  operations.  `SavedInv`: a key names a task that is on disk or the one being submitted,
  the submission's first transition cannot raise, and a row leaves the tables only with
  the commit of its delete.

The last six share one account of the service: `Does` gives the effect of each step
on locals and tables, by program counter, for every interleaving, operation and
crash (`ThreadDoes`, `NextDoes`).

For every set of tasks, threads and files, and every request of each type:

* `HermesTypeCorrect`, `DeniedHasNoEffectHolds`, `SucceededIsCompleteHolds`,
  `OwnWorkIsNoObstacleHolds`, from one invariant `IInv`.  `PlaceOK`: a thread at a
  change is inside the changes of a request that passed the screening, and opens
  files of the workspace only.  `DenialOK`: who touched the workspace passes, who is
  denied does not; the memory service cannot turn one into the other
  (`ScreenVerdict`).  `ThreadsKept`: of the changes an execution has behind it, the last
  to each file is in the file, or the file was meddled with; a write by anybody
  else adds the execution to `meddled` as it changes the file (`WriteSpares`).
  `TasksKept` says the same of a task recorded as succeeded, which inherits it from its
  thread in `Persist`; `SucceededIsComplete` is its reading.  `Provenance`: what a task
  wrote last is what it asked for, since a mixture is nobody's.  `OwnWorkIsNoObstacle`
  follows step by step: with one change per file, a file whose author is the task
  holds exactly what it is about to write, so it is refused only when `read_text`
  gives back another text.  Nothing is assumed of `ReadText` but its type.

Of the gateway, for every limit, window, set of callers and of threads:

* `GatewayImplementsLimiter`: `GatewaySpec => LimiterSpec`.  What is shown of the limiter
  alone holds with clients, keys and operators around it.
* `WindowLimitHolds`, `RefusalIsDeservedHolds` from `LimiterInv`: for a caller whose
  requests never overlapped, the deque is a suffix of `admitted`, what was dropped
  is older than the window of the request in `allow`, times never decrease, and times
  `Limit` apart are a window apart.
* `BurstIsBoundedHolds`: the deque grows at the append only and a thread becomes
  about to append only below the limit, so the sum of the deque and of the threads
  about to append grows past the limit by the other threads at most.
* `RevokedStaysOutHolds`, of one operator: each raw key belongs to one
  entry, the registry and what a running command will write hold no active entry of a
  key that was reported revoked, nor of the key the command will report (`KeyInv`).
* `GatewayTypeCorrect`, of any number of operators.

Of the memory, for every set of tenants, threads and configurations:
`MemoryTypeCorrect`, `DeletedStaysDeletedHolds`, `ConfigIsOwnHolds`.  The invariant
says where a thread of each operation can be (`Placed`), that a file somebody has
open is in the directory or was unlinked (`OpenOK`), that each configuration in a file or
about to be written was set since the deletion (`SavedOK`), and that for a tenant that
is gone no thread is at a step that writes (`GoneOK`).

Of the issue flow, for every set of clients, tasks, handlers and replays:

* `FlowTypeCorrect`, `ReviewBeforeWakeHolds`, `OrphanNeedsAFailureHolds`,
  `SuccessIsPostedHolds` from `FlowInv`: every caller has an issue of its own that
  nobody was woken for, linked to an approval before the wake-up; an issue
  that is abandoned is paid for by a failure (counted with `Cardinality`); and a thread that
  is about to write a success has posted that version.
* `RepetitionNeedsAFaultHolds`, of one replay: an execution is posted by one handler
  only (`Distinct`), and what is still to be posted, by a handler, by the replay or
  because its record says so, has been posted at most `faults` times (`Counted`).
* `PostbackIsAccountedForHolds`, of one replay.  `AllAccounted` says of each postback of an
  execution without a fault where it is: in the hands of the handler or of the replay,
  before or after its post; waiting for the handler's first postback; or settled in
  its record, which says what was posted.

Assumptions: `ExecutorAssumption` (constants have their types, single-file
requests one change), `StoreAssumption` and `ServiceAssumption` (the constants have their
types, the NULLs are no values, at least one attempt) and `BackoffAssumption` (a
backoff is a natural number; the prover has no exponentiation),
`LimiterAssumption` (limit and window positive, finitely many threads),
`GatewayAssumption` and `MemoryAssumption` (the values that are no keys, texts or tenants),
`AdapterAssumption` (finitely many clients), `RecordsAssumption` (handlers are no
replays), `FlowAssumption` (tasks are runs).  TLC evaluates each in the runs of its
module.

Every property of a passing run is stated by a theorem but `RetriesEnd`, which stays
with TLC: liveness needs fairness and ENABLED, which are out of the prover's reach.
Where a theorem has an assumption (`Serial`, `Settling`, one thread, one replay, no
deletes, no keys), the runs that check its property satisfy it by their constants
(`Ops`, `MaxCrashes`, `Threads`, `Replays`, `Keys`).

## 6. Plan

The core, the executor, the memory, the gateway, the adapter and the postbacks are
done.  What is left, most important first:

1. `PaperclipHermes` — the service composed with the executor: a review gate over
   workspace effects.
2. Proofs: what holds of deletes under interleavings; what a crash leaves of
   `RowMatchesState` (which rows may be behind the state, and what `process_queue` does
   with them); `DecisionsAreAudited` for several threads, with the events another
   thread's commit may leave behind.
3. `ApprovalReview` — the decision functions of the approval listings against a
   reference definition.

## 7. Not modelled

* `find_expired_approvals` and the listings: they change no state that decides
  anything (the former appends audit events).
* Authentication, tenant checks and validation of a request: they refuse it
  before any state is touched.  The client key is modelled (`Gateway`), its tenant goes
  with it.
* The rollback of a failed `with self.conn`: no statement inside a transaction
  fails in the model.  SQLITE_BUSY and disk errors are outside it.
* Operator scripts run in a process with a connection of its own; in the model
  they are threads of the service.
* The callback records: `record_callback_attempt` has no caller, so
  `retry_failed_callbacks.py` has nothing to read; the callback route stores one file
  that nothing decides on.
* The Postgres backend, which docs/transactional-state-updates.md:36 calls partial.  The
  service cannot run on it: `update_task_state` and `add_audit_event` commit
  explicitly (postgres_db.py:80, 87) inside `conn.transaction()`, which psycopg
  refuses, so no transition completes, and `mark_queue_cancelled`, which
  `cancel_task` calls, does not exist.
* Contracts and input validation (`scripts/contracts.py`, `contract_models.py`): checks
  of a payload without state.
* Runners and runtimes (`scripts/task-runner.py`, `runtimes.py`): sequential
  demonstrations over local files.
* Metrics, logs, traces, migrations (which run before the first request), deployment.
