-------------------------- MODULE AdapterSubmission --------------------------
(***************************************************************************)
(* PaperclipAdapterService.submit_task: a task becomes an issue of a       *)
(* remote Paperclip, an approval linked to the issue if the task asks for  *)
(* one, and a wake-up of the agent that executes it.  Three calls, nothing *)
(* undone when one of them fails; callers run beside each other and submit *)
(* again what failed.                                                      *)
(*                                                                         *)
(* The remote server is external: what a call does there is what the       *)
(* client asks for.                                                        *)
(***************************************************************************)
EXTENDS Naturals, Sequences, FiniteSets

CONSTANTS
  Clients,       \* callers of submit_task
  Tasks, NoTask,
  Review,        \* tasks whose policy says approval.required
  MaxIssues,     \* bound: issues ever created
  MaxFailures    \* bound: calls that fail

Placeholder == 0  \* PAPERCLIP_ISSUE_ID_PLACEHOLDER

ASSUME AdapterAssumption ==
  /\ Review \in SUBSET Tasks /\ NoTask \notin Tasks
  /\ MaxIssues \in Nat /\ MaxFailures \in Nat /\ IsFiniteSet(Clients)

VARIABLES
  issues,     \* remote: the task of each issue, in the order of their ids
  approvals,  \* remote: issues that an approval is linked to
  wakes,      \* remote: issues that the agent was woken for
  client,     \* the submission each caller is in
  finished,   \* history: issues that submit_task has returned
  failures    \* history: calls that were not answered as they should

adapterVars == <<issues, approvals, wakes, client, finished, failures>>

NoSubmission == [pc |-> "idle", task |-> NoTask, issue |-> Placeholder]

AdapterInit ==
  /\ issues = <<>>
  /\ approvals = {}
  /\ wakes = {}
  /\ client = [c \in Clients |-> NoSubmission]
  /\ finished = {}
  /\ failures = 0

-----------------------------------------------------------------------------
(* build_plan and the two ids that submit_task puts in the place of the     *)
(* placeholder.                                                             *)

\* A fault: the step is named after the status of the approval.
AfterIssueStatus(t) == IF t \in Review THEN "pending" ELSE "wake"

\* A fault: the approval of the plan is forgotten.
AfterIssueWake(t) == "wake"

\* map_task_to_approval: the plan of some tasks has no approval.
AfterIssue(t) == IF t \in Review THEN "approval" ELSE "wake"

\* A fault: the approval is created as planned.
LinkedAsPlanned(c) == Placeholder

LinkedIssue(c) == client[c].issue

\* A fault: the trigger is sent as planned.
WokenAsPlanned(c) == Placeholder

WokenIssue(c) == client[c].issue

-----------------------------------------------------------------------------
(* submit_task.                                                            *)

Submit(c, t) ==
  /\ client[c].pc = "idle" /\ Len(issues) < MaxIssues
  /\ client' = [client EXCEPT ![c] = [pc |-> "issue", task |-> t, issue |-> Placeholder]]
  /\ UNCHANGED <<issues, approvals, wakes, finished, failures>>

\* The call was answered, and with every field that is read: the next one.  Or
\* it was not: the exception leaves submit_task.
Answered(c, step) == /\ client' = [client EXCEPT ![c] = step]
                     /\ UNCHANGED failures

Broken(c) == /\ failures < MaxFailures
             /\ client' = [client EXCEPT ![c] = NoSubmission]
             /\ failures' = failures + 1

CreateIssue(c) ==
  /\ client[c].pc = "issue" /\ Len(issues) < MaxIssues
  /\ issues' = Append(issues, client[c].task)
  /\ \/ Answered(c, [client[c] EXCEPT !.issue = Len(issues) + 1,
                                      !.pc = AfterIssue(client[c].task)])
     \/ Broken(c)
  /\ UNCHANGED <<approvals, wakes, finished>>

CreateApproval(c) ==
  /\ client[c].pc = "approval"
  /\ approvals' = approvals \cup {LinkedIssue(c)}
  /\ Answered(c, [client[c] EXCEPT !.pc = "wake"]) \/ Broken(c)
  /\ UNCHANGED <<issues, wakes, finished>>

WakeAgent(c) ==
  /\ client[c].pc = "wake"
  /\ wakes' = wakes \cup {WokenIssue(c)}
  /\ \/ Answered(c, NoSubmission) /\ finished' = finished \cup {client[c].issue}
     \/ Broken(c) /\ UNCHANGED finished
  /\ UNCHANGED <<issues, approvals>>

\* The server is not reached or refuses the call.
CallFails(c) ==
  /\ client[c].pc # "idle"
  /\ Broken(c)
  /\ UNCHANGED <<issues, approvals, wakes, finished>>

\* The bound on issues: a caller that would create one more gives up before it.
GiveUp(c) ==
  /\ client[c].pc = "issue" /\ Len(issues) = MaxIssues
  /\ client' = [client EXCEPT ![c] = NoSubmission]
  /\ UNCHANGED <<issues, approvals, wakes, finished, failures>>

ClientStep(c) == \/ CreateIssue(c) \/ CreateApproval(c) \/ WakeAgent(c) \/ CallFails(c)
                 \/ GiveUp(c) \/ \E t \in Tasks : Submit(c, t)

-----------------------------------------------------------------------------
Issues == 1..Len(issues)

\* The type of the state.
AdapterTypeOK ==
  /\ issues \in Seq(Tasks)
  /\ approvals \in SUBSET (Issues \cup {Placeholder})
  /\ wakes \in SUBSET (Issues \cup {Placeholder})
  /\ client \in [Clients -> [pc : {"idle", "issue", "approval", "wake"},
                             task : Tasks \cup {NoTask}, issue : Issues \cup {Placeholder}]]
  /\ finished \in SUBSET Issues
  /\ failures \in 0..MaxFailures

\* An agent is woken for an issue that needs an approval only when one is linked
\* to that very issue, and a submission that has returned has left all three,
\* whatever failed in other submissions of the task (service.py:35-45;
\* docs/paperclip-step2-adapter.md:27-28).
ReviewBeforeWake ==
  /\ \A i \in wakes \cap Issues : issues[i] \in Review => i \in approvals
  /\ finished \subseteq wakes

\* An issue that nobody was woken for, which stays in the backlog for ever, is
\* the trace of one failed call or of a submission that is still running
\* (service.py:35-42).
OrphanNeedsAFailure ==
  Cardinality(Issues \ wakes)
    <= failures + Cardinality({c \in Clients : client[c].issue # Placeholder})
=============================================================================
