------------------------------ MODULE MCHermes ------------------------------
(***************************************************************************)
(* Instances of HermesExecutor for TLC: two files, and requests that meet  *)
(* in them.                                                                *)
(***************************************************************************)
EXTENDS HermesProperties, TLC

CONSTANTS f, g, a,
          acr  \* the lines of a, ended by "\r\n"

Put(path, content, overwrite) ==
  [file_path |-> path, path |-> NoPath, content |-> content,
   overwrite |-> overwrite, overwrite_approved |-> FALSE]

Ask(type, changes) ==
  [type |-> type, valid |-> TRUE, tools |-> {"file_write", "repo_write"},
   memory |-> FALSE, network |-> FALSE, command |-> "plain", required |-> TRUE,
   approved |-> TRUE, scoped |-> TRUE, apply |-> TRUE, changes |-> changes]

Requests ==
  [\* two files, the first replaced whatever it holds
   patch  |-> Ask("repo_write", <<Put(f, acr, TRUE), Put(g, a, FALSE)>>),
   \* the second change passes the boundary check by its path and is not found
   half   |-> Ask("repo_write", <<Put(g, acr, TRUE), [Put(NoPath, a, TRUE) EXCEPT !.path = f]>>),
   \* the second change leaves the workspace
   astray |-> Ask("repo_write", <<Put(f, a, TRUE), Put(Outside, a, TRUE)>>),
   \* empties the default file, with the memory of its tenant
   undo   |-> [Ask("file_revert", <<Put(NoPath, Empty, FALSE)>>) EXCEPT !.memory = TRUE],
   \* the button of an issue
   button |-> IssueRequest("file_revert", <<Put(f, Empty, FALSE)>>),
   \* creates a file
   dos    |-> Ask("file_write", <<Put(f, acr, FALSE)>>),
   \* nobody has approved it
   bold   |-> [Ask("file_write", <<Put(f, a, TRUE)>>) EXCEPT !.approved = FALSE]]

Chosen == [t \in Tasks |-> Requests[t]]

\* The second file does not exist, or is a text, or is none.
FirstFiles == {[p \in Paths |-> IF p = g THEN content ELSE Absent] :
                 content \in {Absent, a, Unreadable}}

\* Line ends are translated, and nothing else.
Universal == [text \in Contents |-> IF text = acr THEN a ELSE text]

WorkerSymmetry == Permutations(Workers)
=============================================================================
