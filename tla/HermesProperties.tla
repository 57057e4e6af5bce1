-------------------------- MODULE HermesProperties --------------------------
(***************************************************************************)
(* What the executor keeps, and what the documents say and it does not.    *)
(***************************************************************************)
EXTENDS HermesExecutor

FileContents == Contents \cup {Absent, Garbled, Unreadable}
ChangesOf(t) == {Request[t].changes[i] : i \in 1..Len(Request[t].changes)}
FilesOf(t) == {File(Request[t], c) : c \in ChangesOf(t)}

\* The contents that a task asks for in file p.
Asked(t, p) == {c.content : c \in {d \in ChangesOf(t) : File(Request[t], d) = p}}

\* No two changes of the task are to one file.
OneChangePerFile(t) ==
  \A i, j \in 1..Len(Request[t].changes) :
    File(Request[t], Request[t].changes[i]) = File(Request[t], Request[t].changes[j]) => i = j

\* Change i of the task is its last to that file: the file is to hold its content.
IsFinal(t, i) ==
  \A j \in i + 1..Len(Request[t].changes) :
    File(Request[t], Request[t].changes[j]) # File(Request[t], Request[t].changes[i])

\* The type of the state.
TypeOK ==
  /\ files \in [Paths -> FileContents]
  /\ runs \in [Tasks -> Verdicts \cup {"none"}]
  /\ author \in [Paths -> Tasks \cup {NoTask, Torn}]
  /\ touched \in SUBSET Tasks
  /\ meddled \in [Paths -> SUBSET (Workers \cup Tasks)]
  /\ worker \in [Workers ->
       [pc : {"idle", "inspect", "open", "fill", "limits", "persist"},
        task : Tasks \cup {NoTask}, index : Nat, verdict : Verdicts \cup {"none"}]]
  /\ \A w \in Workers : ~At(w, "idle") => worker[w].task \in Tasks

\* A task that is reported denied has changed nothing, in this execution or in
\* any other of the same request, wherever in its changes the reason lies
\* (docs/strict-write-boundaries.md:21-25; executor.py:44-68).
DeniedHasNoEffect == \A t \in touched : runs[t] \notin Denials

\* A task that is reported succeeded has left in each file it names what its last
\* change to the file asks for, all of it and nothing else, unless another
\* execution, of its own request or of another, has truncated the file or written
\* to it since the reported one opened it.  Earlier executions, crashes and
\* failed writes make no difference (executor.py:51-62, repo_ops.py:58-60).
SucceededIsComplete ==
  \A t \in Tasks : runs[t] = "succeeded" /\ Request[t].type \in Writers =>
    \A i \in 1..Len(Request[t].changes) : IsFinal(t, i) =>
      LET c == Request[t].changes[i]  p == File(Request[t], c)
      IN p \in Paths /\ (t \in meddled[p] \/ files[p] = c.content)

\* Thread w refuses the change it inspects.
Refuses(w) == At(w, "inspect") /\ worker'[w].verdict = "EXECUTION_FAILED"

\* What it finds there is the completed write of an earlier execution of its task.
MeetsOwnWork(w) ==
  /\ Target(w) \in Paths /\ author[Target(w)] = worker[w].task
  /\ OneChangePerFile(worker[w].task)

\* A task that is executed again is never refused because of its own completed
\* write (docs/paperclip-hermes-policy.md:54 "rewriting the same content is
\* allowed"; file_ops.py:63-66), whatever other tasks, failures and crashes left
\* around it, but for contents that read_text changes.
OwnWorkIsNoObstacle ==
  [][\A w \in Workers : Refuses(w) /\ MeetsOwnWork(w) =>
       ReadText[Current(w).content] # Current(w).content]_vars

-----------------------------------------------------------------------------
(* Words of the documents that the code does not keep.                     *)

\* docs/paperclip-hermes-policy.md:54 "rewriting the same content is allowed and
\* reports `changed = false`", of every content: the text compared is that of
\* read_text, in which "\r\n" and "\r" have become "\n" (file_ops.py:63-66).
RewritingIsAllowed == [][\A w \in Workers : ~(Refuses(w) /\ MeetsOwnWork(w))]_vars

\* evaluate_task_policy (policy.py), which the executor never calls.
Approved(r) == r.required /\ r.approved /\ r.scoped
OverwriteApproved(r) == \A i \in 1..Len(r.changes) :
  r.changes[i].overwrite => r.changes[i].overwrite_approved

EvaluateTaskPolicy(r) ==
  IF r.type \in {"repo_summary", "text_generation", "file_analysis"} THEN "allow"
  ELSE IF r.type \notin Writers \/ ~Approved(r) \/ r.changes = <<>> THEN "deny"
  ELSE IF r.type # "repo_write" /\ r.changes[1].file_path = NoPath THEN "deny"
  ELSE IF r.type = "repo_write" /\ ~r.apply THEN "preview"
  ELSE IF r.type # "file_revert" /\ ~OverwriteApproved(r) THEN "deny"
  ELSE "allow"

\* docs/paperclip-hermes-policy.md:9 "deny write-capable routes unless explicit
\* policy support is added", and 23-29 for what the policy asks: a workspace
\* is changed by requests that the policy denies or would only preview.
PolicyIsEnforced == \A t \in touched : EvaluateTaskPolicy(Request[t]) = "allow"
=============================================================================
