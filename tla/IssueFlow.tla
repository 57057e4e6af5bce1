------------------------------ MODULE IssueFlow ------------------------------
(***************************************************************************)
(* The way of a task through a remote Paperclip and back: the adapter      *)
(* creates an issue and has an agent woken for it, the agent has Hermes    *)
(* execute the task, and Hermes posts what became of it to the issue.      *)
(* Between the wake-up and the execution is the agent, which is external:  *)
(* it executes a task that it was woken for, any number of times.          *)
(***************************************************************************)
EXTENDS AdapterSubmission, HermesRecords

\* Tasks and runs go by the same ids.
ASSUME FlowAssumption == Tasks \subseteq Runs

flowVars == <<adapterVars, recordsVars>>

FlowInit == AdapterInit /\ RecordsInit

AgentExecutes(h, i) ==
  /\ i \in wakes \cap Issues
  /\ Execute(h, issues[i], i)
  /\ UNCHANGED adapterVars

FlowNext ==
  \/ \E c \in Clients : ClientStep(c) /\ UNCHANGED recordsVars
  \/ \E h \in Handlers, i \in Issues : AgentExecutes(h, i)
  \/ RecordsStep /\ UNCHANGED adapterVars

FlowSpec == FlowInit /\ [][FlowNext]_flowVars

-----------------------------------------------------------------------------
\* The type of the state.  A result names an issue of its task.
FlowTypeOK ==
  /\ AdapterTypeOK
  /\ RecordsTypeOK
  /\ \A r \in Runs : \A v \in 1..Len(executed[r]) :
       executed[r][v] \in Issues /\ issues[executed[r][v]] = r
=============================================================================
