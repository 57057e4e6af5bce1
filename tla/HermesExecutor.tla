--------------------------- MODULE HermesExecutor ---------------------------
(***************************************************************************)
(* HermesExecutor.execute over one workspace, called by the threads of the *)
(* Hermes server: screening of a request, the file changes one by one, the *)
(* limits, the record of the run.                                          *)
(*                                                                         *)
(* A path is a resolved path of the workspace, Outside (one that leaves it *)
(* or that a single-file handler is given empty) or NoPath (the key is     *)
(* missing).  write_text truncates the file and then writes, in two steps. *)
(***************************************************************************)
EXTENDS Naturals, Sequences

CONSTANTS
  Tasks,        \* the task requests Hermes may receive, each any number of times
  Workers,      \* threads of ThreadingHTTPServer
  Paths,        \* files of the workspace
  DefaultPath,  \* output.txt
  NoPath, Outside,
  Contents,     \* what a request may ask to be written
  Empty,        \* the empty text
  Absent,       \* the content of a file that does not exist
  Garbled,      \* a mixture of two contents, or a part of one
  Unreadable,   \* what read_text raises on: bytes that are no UTF-8, a directory
  ReadText,     \* what read_text makes of a content: every line end becomes "\n"
  NoTask,       \* nobody wrote the file / the worker is idle
  Torn,         \* the last write of the file is unfinished, failed or mixed
  Request,      \* the request of each task
  Initial       \* the workspaces that executions may begin with

Writers == {"file_write", "repo_write", "file_revert"}

\* TASK_TOOL_CLASS: the supported task types and the tool class each needs.
ToolClass == [repo_summary |-> "repo_read",     text_generation |-> "local_exec",
              file_write   |-> "file_write",    repo_write      |-> "repo_write",
              file_revert  |-> "file_write",    shell_command   |-> "local_exec"]

\* file_analysis stands for the types of the schema that no handler supports.
TaskTypes == DOMAIN ToolClass \cup {"file_analysis"}

Change == [file_path : Paths \cup {Outside, NoPath}, path : Paths \cup {Outside, NoPath},
           content : Contents, overwrite : BOOLEAN, overwrite_approved : BOOLEAN]

\* memory: memory is allowed and the request names a tenant.  scoped: write_scope
\* is workspace_scoped.  apply, approved, required, overwrite_approved: as sent.
TaskRequest ==
  [type : TaskTypes, valid : BOOLEAN,
   tools : SUBSET {"repo_read", "local_exec", "file_write", "repo_write"},
   memory : BOOLEAN, network : BOOLEAN, command : {"unsafe", "network", "plain"},
   required : BOOLEAN, approved : BOOLEAN, scoped : BOOLEAN, apply : BOOLEAN,
   changes : Seq(Change)]

Denials == {"VALIDATION_FAILED", "TOOL_PERMISSION_DENIED", "SHELL_SAFETY_DENIED",
            "NETWORK_EGRESS_DENIED", "SANDBOX_DENIED", "WRITE_BOUNDARY_DENIED"}
Verdicts == Denials \cup {"succeeded", "EXECUTION_FAILED", "EXECUTION_LIMIT_EXCEEDED"}

ASSUME ExecutorAssumption ==
  /\ DefaultPath \in Paths /\ Empty \in Contents
  /\ Paths \cap {NoPath, Outside} = {} /\ NoPath # Outside
  /\ Contents \cap {Absent, Garbled, Unreadable} = {}
  /\ Absent \notin {Garbled, Unreadable} /\ Garbled # Unreadable
  /\ ReadText \in [Contents -> Contents]
  /\ Tasks \cap {NoTask, Torn} = {} /\ NoTask # Torn /\ Tasks \cap Workers = {}
  /\ Request \in [Tasks -> TaskRequest]
  /\ Initial \subseteq [Paths -> Contents \cup {Absent, Unreadable}]
  /\ \A t \in Tasks : Request[t].type \in {"file_write", "file_revert"}
                        => Len(Request[t].changes) = 1

VARIABLES
  files,    \* the workspace
  runs,     \* var/hermes/runs: the verdict last recorded for a task
  worker,   \* the execution each thread is in
  author,   \* history: the task whose complete write the file holds
  touched,  \* history: the tasks that have changed the workspace
  meddled   \* history: the executions that others have written over, see Others

vars == <<files, runs, worker, author, touched, meddled>>

Idle == [pc |-> "idle", task |-> NoTask, index |-> 0, verdict |-> "none"]

Init ==
  /\ files \in Initial
  /\ runs = [t \in Tasks |-> "none"]
  /\ worker = [w \in Workers |-> Idle]
  /\ author = [p \in Paths |-> NoTask]
  /\ touched = {}
  /\ meddled = [p \in Paths |-> {}]

-----------------------------------------------------------------------------
(* What a request names.                                                   *)

\* The file a write helper is given: repo_write reads file_path only, the
\* single-file handlers fall back on the default.
File(r, c) == IF r.type # "repo_write" /\ c.file_path = NoPath THEN DefaultPath
              ELSE c.file_path

\* The path that validate_repo_changes looks at: file_path, else path.
Screened(r, c) == IF File(r, c) = NoPath THEN c.path ELSE File(r, c)

InBoundary(r) == \A i \in 1..Len(r.changes) : Screened(r, r.changes[i]) \in Paths

\* validate_shell_command raises: shell syntax, or a command not allowed.
Unsafe(r) == r.command = "unsafe"

\* enforce_network_policy raises.
NeedsNetwork(r) == r.command = "network" /\ ~r.network

\* What is left goes to DenyByDefaultRunner.
ShellVerdict(r) == IF Unsafe(r) THEN "SHELL_SAFETY_DENIED"
                   ELSE IF NeedsNetwork(r) THEN "NETWORK_EGRESS_DENIED"
                   ELSE "SANDBOX_DENIED"

\* The verdict reached before any file is opened, "none" to go on.  The memory
\* service is asked between the permission and the handler, and may fail.
Screen(r, memoryFails) ==
  IF ~r.valid \/ r.type \notin DOMAIN ToolClass THEN "VALIDATION_FAILED"
  ELSE IF ToolClass[r.type] \notin r.tools THEN "TOOL_PERMISSION_DENIED"
  ELSE IF memoryFails THEN "EXECUTION_FAILED"
  ELSE IF r.type = "shell_command" THEN ShellVerdict(r)
  ELSE IF r.type \in Writers /\ ~InBoundary(r) THEN "WRITE_BOUNDARY_DENIED"
  ELSE IF r.type \in Writers /\ r.changes = <<>> THEN "EXECUTION_FAILED"
  ELSE "none"

\* Where an execution goes then: the handlers that write begin with the first
\* change, the others have nothing to do.
Entry(r, verdict) == IF verdict # "none" THEN "persist"
                     ELSE IF r.type \in Writers THEN "inspect" ELSE "limits"

\* The request that an issue action (apply or revert) builds.
IssueRequest(type, changes) ==
  [type |-> type, valid |-> TRUE, tools |-> {"local_exec"}, memory |-> FALSE,
   network |-> FALSE, command |-> "plain", required |-> TRUE, approved |-> TRUE,
   scoped |-> TRUE, apply |-> TRUE, changes |-> changes]

-----------------------------------------------------------------------------
(* Steps of an execution.                                                  *)

At(w, pc) == worker[w].pc = pc
Req(w) == Request[worker[w].task]
Current(w) == Req(w).changes[worker[w].index]
Target(w) == File(Req(w), Current(w))
\* A fault: one change short.
IsLastEarly(w) == worker[w].index + 1 >= Len(Req(w).changes)

IsLast(w) == worker[w].index = Len(Req(w).changes)

Finish(w, verdict) ==
  worker' = [worker EXCEPT ![w].pc = "persist", ![w].verdict = verdict]

Execute(w, t) ==
  /\ At(w, "idle")
  /\ \E memoryFails \in BOOLEAN :
       /\ memoryFails => Request[t].memory
       /\ LET verdict == Screen(Request[t], memoryFails)
          IN worker' = [worker EXCEPT ![w] =
               [pc |-> Entry(Request[t], verdict),
                task |-> t, index |-> 1, verdict |-> verdict]]
  /\ UNCHANGED <<files, runs, author, touched, meddled>>

\* What read_text returns for a file that it can read.
Text(p) == IF files[p] \in Contents THEN ReadText[files[p]] ELSE files[p]

\* A fault: the same content is a conflict too.
MayReplaceNothing(r, c) == \/ r.type = "file_revert"
                           \/ c.overwrite
                           \/ files[File(r, c)] = Absent

\* May the content replace the text the file holds?  A revert never asks.
MayReplace(r, c) == \/ r.type = "file_revert"
                    \/ c.overwrite
                    \/ Text(File(r, c)) \in {Absent, c.content}

\* A fault: the write helper reports a path it cannot resolve as a denial.
InspectBoundary(w) ==
  /\ At(w, "inspect")
  /\ IF Target(w) \notin Paths THEN Finish(w, "WRITE_BOUNDARY_DENIED")
     ELSE IF files[Target(w)] # Unreadable /\ MayReplace(Req(w), Current(w))
          THEN worker' = [worker EXCEPT ![w].pc = "open"]
          ELSE Finish(w, "EXECUTION_FAILED")
  /\ UNCHANGED <<files, runs, author, touched, meddled>>

\* The path is resolved, an existing file read, also when it is to be overwritten
\* or reverted, and the write refused or begun.
Inspect(w) ==
  /\ At(w, "inspect")
  /\ IF /\ Target(w) \in Paths
        /\ files[Target(w)] # Unreadable
        /\ MayReplace(Req(w), Current(w))
     THEN worker' = [worker EXCEPT ![w].pc = "open"]
     ELSE Finish(w, "EXECUTION_FAILED")
  /\ UNCHANGED <<files, runs, author, touched, meddled>>

\* The executions that a write by thread w may undo: those the other threads are
\* in, named by the thread, and those recorded succeeded, named by their task.
Others(w) == {t \in Tasks : runs[t] = "succeeded"}
               \cup {v \in Workers \ {w} : ~At(v, "idle")}

\* write_text opens the file and truncates it.
Open(w) ==
  /\ At(w, "open")
  /\ files' = [files EXCEPT ![Target(w)] = Empty]
  /\ author' = [author EXCEPT ![Target(w)] = Torn]
  /\ touched' = touched \cup {worker[w].task}
  /\ meddled' = [meddled EXCEPT ![Target(w)] = Others(w)]
  /\ worker' = [worker EXCEPT ![w].pc = "fill"]
  /\ UNCHANGED runs

\* What writing at the start of the file leaves: the content, or a mixture when
\* another thread has filled the file since it was truncated.
Filled(p, content) ==
  IF content = Empty THEN {files[p]}
  ELSE {content} \cup (IF files[p] \in {Empty, content} THEN {}
                         ELSE {Garbled, Unreadable})

\* write_text writes and closes.  Building the result of a revert reads a field
\* that FileRevertResult does not have: the execution fails when all is done.
Fill(w) ==
  /\ At(w, "fill")
  /\ \E text \in Filled(Target(w), Current(w).content) :
       /\ files' = [files EXCEPT ![Target(w)] = text]
       /\ author' = [author EXCEPT ![Target(w)] =
                       IF text = Current(w).content THEN worker[w].task
                       ELSE IF text \in Contents THEN @ ELSE Torn]
  /\ meddled' = [meddled EXCEPT ![Target(w)] = @ \cup Others(w)]
  /\ IF Req(w).type = "file_revert" THEN Finish(w, "EXECUTION_FAILED")
     ELSE worker' = [worker EXCEPT ![w].pc = IF IsLast(w) THEN "limits" ELSE "inspect",
                                   ![w].index = IF IsLast(w) THEN @ ELSE @ + 1]
  /\ UNCHANGED <<runs, touched>>

\* The text cannot be encoded, or the disk is full: the file stays truncated,
\* or holds a part of the text.
FillFails(w) ==
  /\ At(w, "fill")
  /\ \E text \in {files[Target(w)], Garbled, Unreadable} :
       files' = [files EXCEPT ![Target(w)] = text]
  /\ author' = [author EXCEPT ![Target(w)] = Torn]
  /\ meddled' = [meddled EXCEPT ![Target(w)] = @ \cup Others(w)]
  /\ Finish(w, "EXECUTION_FAILED")
  /\ UNCHANGED <<runs, touched>>

\* Running time and output size are looked at when the handler has returned.
Limits(w) ==
  /\ At(w, "limits")
  /\ \E verdict \in {"succeeded", "EXECUTION_LIMIT_EXCEEDED"} : Finish(w, verdict)
  /\ UNCHANGED <<files, runs, author, touched, meddled>>

\* persist_result: one file per task, replaced by every execution.
Persist(w) ==
  /\ At(w, "persist")
  /\ runs' = [runs EXCEPT ![worker[w].task] = worker[w].verdict]
  /\ meddled' = [p \in Paths |->
                   (meddled[p] \ {w, worker[w].task})
                     \cup {t \in {worker[w].task} : w \in meddled[p]
                                                  /\ worker[w].verdict = "succeeded"}]
  /\ worker' = [worker EXCEPT ![w] = Idle]
  /\ UNCHANGED <<files, author, touched>>

\* The server dies and is started again; the files stay as they are.
Crash ==
  /\ \E w \in Workers : ~At(w, "idle")
  /\ worker' = [w \in Workers |-> Idle]
  /\ meddled' = [p \in Paths |-> meddled[p] \ Workers]
  /\ UNCHANGED <<files, runs, author, touched>>

Step(w) == \/ \E t \in Tasks : Execute(w, t)
           \/ Inspect(w) \/ Open(w) \/ Fill(w) \/ FillFails(w)
           \/ Limits(w) \/ Persist(w)

Next == Crash \/ \E w \in Workers : Step(w)

Spec == Init /\ [][Next]_vars
=============================================================================
