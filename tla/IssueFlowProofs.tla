--------------------------- MODULE IssueFlowProofs ---------------------------
(***************************************************************************)
(* The properties of IssueFlow for every set of tasks, callers, handlers   *)
(* and replays, and every bound on executions, failures and faults.        *)
(***************************************************************************)
EXTENDS IssueFlow, FiniteSetTheorems, TLAPS

-----------------------------------------------------------------------------
(* The adapter.                                                            *)

Submissions(n) ==
  [pc : {"idle", "issue", "approval", "wake"}, task : Tasks \cup {NoTask},
   issue : (1..n) \cup {Placeholder}]

\* What the submission of a caller has done so far.
ClientOK(c) ==
  /\ client[c].pc # "idle" => client[c].task \in Tasks
  /\ client[c].pc \in {"idle", "issue"} => client[c].issue = Placeholder
  /\ client[c].pc \in {"approval", "wake"} =>
       /\ client[c].issue \in Issues \ wakes
       /\ issues[client[c].issue] = client[c].task
  /\ client[c].pc = "wake" /\ client[c].task \in Review => client[c].issue \in approvals

\* Every caller has an issue of its own.
OwnIssue == \A c, d \in Clients :
  client[c].issue = client[d].issue /\ client[c].issue # Placeholder => c = d

AdapterInv ==
  /\ AdapterTypeOK /\ ReviewBeforeWake /\ OwnIssue
  /\ wakes \subseteq Issues
  /\ \A c \in Clients : ClientOK(c)

LEMMA AdapterInitInv == AdapterInit => AdapterInv
<1> SUFFICES ASSUME AdapterInit PROVE AdapterInv
  OBVIOUS
<1>1. issues = <<>> /\ Issues = {} /\ wakes = {} /\ finished = {} /\ approvals = {} /\ failures = 0
  BY DEF AdapterInit, Issues
<1>2. NoSubmission \in Submissions(0) /\ NoSubmission.pc = "idle"
      /\ NoSubmission.issue = Placeholder
  BY DEF NoSubmission, Submissions
<1>3. \A c \in Clients : client[c] = NoSubmission
  BY DEF AdapterInit
<1>4. AdapterTypeOK
  BY <1>1, <1>2, AdapterAssumption DEF AdapterTypeOK, AdapterInit, Submissions, Issues
<1> QED
  BY <1>1, <1>2, <1>3, <1>4 DEF AdapterInv, ReviewBeforeWake, OwnIssue, ClientOK

\* The state of the adapter, taken apart.
LEMMA AdapterState ==
  ASSUME AdapterInv, NEW c \in Clients
  PROVE  /\ issues \in Seq(Tasks) /\ Len(issues) \in Nat /\ Issues = 1..Len(issues)
         /\ wakes \subseteq Issues /\ finished \subseteq Issues
         /\ approvals \subseteq Issues \cup {Placeholder} /\ Placeholder \notin Issues
         /\ client \in [Clients -> Submissions(Len(issues))]
         /\ client[c] \in Submissions(Len(issues)) /\ ClientOK(c)
         /\ failures \in 0..MaxFailures
  BY DEF AdapterInv, AdapterTypeOK, Issues, Submissions, Placeholder

\* A step of one caller that creates no issue.
LEMMA CallerStep ==
  ASSUME AdapterInv, NEW c \in Clients, NEW s \in Submissions(Len(issues)), issues' = issues,
         client' = [client EXCEPT ![c] = s], approvals \subseteq approvals',
         approvals' \subseteq Issues \cup {Placeholder},
         wakes' = wakes \/ (wakes' = wakes \cup {client[c].issue} /\ client[c].pc = "wake"),
         finished' \subseteq wakes', finished' \in SUBSET Issues, failures' \in 0..MaxFailures,
         s.issue \in {client[c].issue, Placeholder}, ClientOK(c)'
  PROVE  AdapterInv'
<1>1. /\ issues \in Seq(Tasks) /\ Len(issues) \in Nat /\ Issues = 1..Len(issues)
      /\ wakes \subseteq Issues /\ Placeholder \notin Issues
      /\ client \in [Clients -> Submissions(Len(issues))]
      /\ client[c] \in Submissions(Len(issues)) /\ ClientOK(c)
  BY AdapterState
<1>2. Issues' = Issues
  BY DEF Issues
<1>3. client' \in [Clients -> Submissions(Len(issues))]
      /\ \A d \in Clients : client'[d] = IF d = c THEN s ELSE client[d]
  BY <1>1
<1>4. wakes' \subseteq Issues' /\ wakes \subseteq wakes'
      /\ \A i \in wakes' \ wakes : client[c].pc = "wake" /\ i = client[c].issue
  BY <1>1, <1>2 DEF ClientOK
<1>5. AdapterTypeOK'
  BY <1>1, <1>2, <1>3, <1>4 DEF AdapterTypeOK, Submissions
<1>6. ReviewBeforeWake'
  <2>1. ASSUME NEW i \in wakes' \cap Issues', issues'[i] \in Review PROVE i \in approvals'
    <3>1. CASE i \in wakes
      BY <2>1, <3>1, <1>2 DEF AdapterInv, ReviewBeforeWake
    <3>2. CASE i \notin wakes
      BY <2>1, <3>2, <1>1, <1>4 DEF ClientOK
    <3> QED
      BY <3>1, <3>2
  <2> QED
    BY <2>1 DEF ReviewBeforeWake
<1>7. OwnIssue'
  BY <1>3 DEF OwnIssue, AdapterInv
<1>8. ASSUME NEW d \in Clients, d # c PROVE ClientOK(d)'
  <2>1. client'[d] = client[d] /\ ClientOK(d)
    BY <1>3, <1>8 DEF AdapterInv
  <2>2. client[d].issue = client[c].issue => client[d].issue = Placeholder
    BY <1>8 DEF AdapterInv, OwnIssue
  <2>3. client[d].pc \in {"approval", "wake"} => client[d].issue \in Issues' \ wakes'
    BY <2>1, <2>2, <1>1, <1>2, <1>4 DEF ClientOK
  <2> QED
    BY <2>1, <2>3 DEF ClientOK
<1> QED
  BY <1>4, <1>5, <1>6, <1>7, <1>8 DEF AdapterInv

LEMMA ResetStep ==
  ASSUME AdapterInv, NEW c \in Clients, issues' = issues,
         client' = [client EXCEPT ![c] = NoSubmission], approvals \subseteq approvals',
         approvals' \subseteq Issues \cup {Placeholder},
         wakes' = wakes \/ (wakes' = wakes \cup {client[c].issue} /\ client[c].pc = "wake"),
         finished' \subseteq wakes', finished' \in SUBSET Issues, failures' \in 0..MaxFailures
  PROVE  AdapterInv'
<1>1. client \in [Clients -> Submissions(Len(issues))]
  BY AdapterState
<1>2. NoSubmission \in Submissions(Len(issues)) /\ NoSubmission.pc = "idle"
      /\ NoSubmission.issue = Placeholder
  BY DEF NoSubmission, Submissions
<1>3. ClientOK(c)'
  BY <1>1, <1>2 DEF ClientOK
<1> QED
  BY <1>2, <1>3, CallerStep

\* A step that creates an issue.
LEMMA IssueKeeps ==
  ASSUME AdapterInv, NEW c \in Clients, CreateIssue(c)
  PROVE  AdapterInv'
<1>1. /\ issues \in Seq(Tasks) /\ Len(issues) \in Nat /\ Issues = 1..Len(issues)
      /\ wakes \subseteq Issues /\ finished \subseteq Issues
      /\ approvals \subseteq Issues \cup {Placeholder} /\ Placeholder \notin Issues
      /\ client \in [Clients -> Submissions(Len(issues))]
      /\ client[c] \in Submissions(Len(issues)) /\ ClientOK(c)
      /\ failures \in 0..MaxFailures
  BY AdapterState
<1>. PICK n \in Nat : n = Len(issues) + 1
  BY <1>1
<1>2. PICK t \in Tasks : t = client[c].task
  BY <1>1 DEF CreateIssue, ClientOK
<1>3. issues' \in Seq(Tasks) /\ Len(issues') = n /\ issues'[n] = t
      /\ \A i \in Issues : issues'[i] = issues[i]
  BY <1>1, <1>2 DEF CreateIssue
<1>4. Issues' = 1..n /\ Issues \subseteq Issues' /\ n \notin Issues /\ n \in Issues' /\ n # Placeholder
      /\ Issues' = Issues \cup {n}
  BY <1>1, <1>3 DEF Issues, Placeholder
<1>5. UNCHANGED <<approvals, wakes, finished>> /\ failures' \in 0..MaxFailures
  BY <1>1, AdapterAssumption DEF CreateIssue, Answered, Broken
<1>6. PICK s \in Submissions(n) :
        /\ client' = [client EXCEPT ![c] = s]
        /\ \/ s.pc = "idle" /\ s.issue = Placeholder
           \/ s.pc = AfterIssue(t) /\ s.issue = n /\ s.task = t
  <2>1. CASE Broken(c)
    <3>1. NoSubmission \in Submissions(n) /\ NoSubmission.pc = "idle"
          /\ NoSubmission.issue = Placeholder
      BY DEF NoSubmission, Submissions
    <3> QED
      BY <3>1, <2>1 DEF Broken
  <2>2. CASE ~Broken(c)
    <3> DEFINE s == [client[c] EXCEPT !.issue = n, !.pc = AfterIssue(t)]
    <3>1. s \in Submissions(n) /\ s.pc = AfterIssue(t) /\ s.issue = n /\ s.task = t
      BY <1>1, <1>2, <1>4 DEF Submissions, AfterIssue
    <3>2. client' = [client EXCEPT ![c] = s]
      BY <2>2, <1>2 DEF CreateIssue, Answered
    <3> HIDE DEF s
    <3> QED
      BY <3>1, <3>2
  <2> QED
    BY <2>1, <2>2
<1>7. client' \in [Clients -> Submissions(n)]
      /\ \A d \in Clients : client'[d] = IF d = c THEN s ELSE client[d]
  <2>1. \A d \in Clients : client[d] \in Submissions(n)
    BY <1>1, <1>4 DEF Submissions
  <2> QED
    BY <2>1, <1>1, <1>6
<1>8. AdapterTypeOK'
  BY <1>1, <1>3, <1>4, <1>5, <1>7 DEF AdapterTypeOK, Submissions
<1>9. ReviewBeforeWake' /\ wakes' \subseteq Issues'
  BY <1>1, <1>3, <1>4, <1>5 DEF AdapterInv, ReviewBeforeWake
<1>10. OwnIssue'
  <2>1. \A d \in Clients : client[d].issue # n
    BY <1>1, <1>4 DEF Submissions
  <2> QED
    BY <2>1, <1>6, <1>7 DEF OwnIssue, AdapterInv
<1>11. ASSUME NEW d \in Clients PROVE ClientOK(d)'
  <2>1. CASE d = c
    BY <2>1, <1>1, <1>3, <1>4, <1>5, <1>6, <1>7 DEF ClientOK, AfterIssue
  <2>2. CASE d # c
    <3>1. ClientOK(d) /\ client'[d] = client[d]
      BY <2>2, <1>7 DEF AdapterInv
    <3> QED
      BY <3>1, <1>3, <1>4, <1>5 DEF ClientOK
  <2> QED
    BY <2>1, <2>2
<1> QED
  BY <1>8, <1>9, <1>10, <1>11 DEF AdapterInv

LEMMA ClientStepKeeps ==
  ASSUME AdapterInv, NEW c \in Clients, ClientStep(c)
  PROVE  AdapterInv'
<1>1. /\ Issues = 1..Len(issues) /\ Len(issues) \in Nat
      /\ wakes \subseteq Issues /\ finished \subseteq Issues
      /\ approvals \subseteq Issues \cup {Placeholder} /\ Placeholder \notin Issues
      /\ client \in [Clients -> Submissions(Len(issues))]
      /\ client[c] \in Submissions(Len(issues)) /\ ClientOK(c)
      /\ failures \in 0..MaxFailures /\ finished \subseteq wakes
  BY AdapterState DEF AdapterInv, ReviewBeforeWake
<1>2. Broken(c) => failures' \in 0..MaxFailures /\ client' = [client EXCEPT ![c] = NoSubmission]
  BY <1>1, AdapterAssumption DEF Broken
<1>3. CASE CreateIssue(c)
  BY <1>3, IssueKeeps
<1>4. CASE CreateApproval(c)
  <2>1. client[c].issue \in Issues /\ client[c].task \in Tasks
    BY <1>4, <1>1 DEF CreateApproval, ClientOK
  <2>2. approvals' = approvals \cup {client[c].issue} /\ UNCHANGED <<issues, wakes, finished>>
    BY <1>4 DEF CreateApproval, LinkedIssue
  <2>3. CASE Broken(c)
    BY <2>1, <2>2, <2>3, <1>1, <1>2, ResetStep
  <2>4. CASE ~Broken(c)
    <3> DEFINE s == [client[c] EXCEPT !.pc = "wake"]
    <3>1. s \in Submissions(Len(issues)) /\ s.pc = "wake" /\ s.issue = client[c].issue
          /\ s.task = client[c].task
      BY <1>1 DEF Submissions
    <3>2. client' = [client EXCEPT ![c] = s] /\ failures' = failures
      BY <1>4, <2>4 DEF CreateApproval, Answered
    <3> HIDE DEF s
    <3>3. client'[c] = s
      BY <3>2, <1>1
    <3>4. Issues' = Issues
      BY <2>2 DEF Issues
    <3>5. ClientOK(c)'
      BY <3>1, <3>3, <3>4, <2>1, <2>2, <1>1, <1>4 DEF ClientOK, CreateApproval
    <3> QED
      BY <3>1, <3>2, <3>5, <2>1, <2>2, <1>1, CallerStep
  <2> QED
    BY <2>3, <2>4
<1>5. CASE WakeAgent(c)
  <2>1. client[c].issue \in Issues /\ client[c].pc = "wake"
    BY <1>5, <1>1 DEF WakeAgent, ClientOK
  <2>2. /\ wakes' = wakes \cup {client[c].issue} /\ UNCHANGED <<issues, approvals>>
        /\ client' = [client EXCEPT ![c] = NoSubmission] /\ failures' \in 0..MaxFailures
        /\ finished' \subseteq finished \cup {client[c].issue}
    BY <1>5, <1>1, <1>2 DEF WakeAgent, WokenIssue, Answered
  <2> QED
    BY <2>1, <2>2, <1>1, ResetStep
<1>6. CASE CallFails(c) \/ GiveUp(c)
  <2>1. /\ UNCHANGED <<issues, approvals, wakes, finished>>
        /\ client' = [client EXCEPT ![c] = NoSubmission] /\ failures' \in 0..MaxFailures
    BY <1>6, <1>1, <1>2 DEF CallFails, GiveUp
  <2> QED
    BY <2>1, <1>1, ResetStep
<1>7. ASSUME NEW t \in Tasks, Submit(c, t) PROVE AdapterInv'
  <2> DEFINE s == [pc |-> "issue", task |-> t, issue |-> Placeholder]
  <2>1. s \in Submissions(Len(issues)) /\ s.pc = "issue" /\ s.issue = Placeholder /\ s.task = t
    BY DEF Submissions
  <2>2. client' = [client EXCEPT ![c] = s] /\ UNCHANGED <<issues, approvals, wakes, finished, failures>>
    BY <1>7 DEF Submit
  <2> HIDE DEF s
  <2>3. ClientOK(c)'
    BY <2>1, <2>2, <1>1 DEF ClientOK
  <2> QED
    BY <2>1, <2>2, <2>3, <1>1, CallerStep
<1> QED
  BY <1>3, <1>4, <1>5, <1>6, <1>7 DEF ClientStep

-----------------------------------------------------------------------------
(* The issues that nobody is woken for.                                    *)

Holding == {c \in Clients : client[c].issue # Placeholder}
Orphans == Issues \ wakes

LEMMA OrphanNext ==
  ASSUME AdapterInv, AdapterInv', OrphanNeedsAFailure, NEW c \in Clients, ClientStep(c)
  PROVE  OrphanNeedsAFailure'
<1>1. /\ issues \in Seq(Tasks) /\ Issues = 1..Len(issues) /\ Len(issues) \in Nat
      /\ wakes \subseteq Issues /\ Placeholder \notin Issues
      /\ client \in [Clients -> Submissions(Len(issues))]
      /\ ClientOK(c) /\ failures \in 0..MaxFailures
  BY AdapterState
<1>2. IsFiniteSet(Orphans) /\ IsFiniteSet(Holding)
  <2>1. IsFiniteSet(Issues)
    BY <1>1, FS_Interval
  <2> QED
    BY <2>1, FS_Subset, AdapterAssumption DEF Orphans, Holding
<1>3. PICK o \in Nat, h \in Nat, f \in Nat :
        o = Cardinality(Orphans) /\ h = Cardinality(Holding) /\ f = failures /\ o <= f + h
  <2>1. Cardinality(Orphans) \in Nat /\ Cardinality(Holding) \in Nat /\ failures \in Nat
    BY <1>1, <1>2, FS_CardinalityType
  <2>2. Cardinality(Orphans) <= failures + Cardinality(Holding)
    BY DEF OrphanNeedsAFailure, Orphans, Holding
  <2> QED
    BY <2>1, <2>2
<1>4. \A i : Cardinality(Orphans \ {i}) = IF i \in Orphans THEN o - 1 ELSE o
  BY <1>2, <1>3, FS_RemoveElement
<1>5. Cardinality(Holding \ {c}) = IF c \in Holding THEN h - 1 ELSE h
  BY <1>2, <1>3, FS_RemoveElement
<1>6. \/ c \in Holding /\ client[c].pc \in {"approval", "wake"}
      \/ c \notin Holding /\ client[c].pc \in {"idle", "issue"}
  BY <1>1 DEF Holding, ClientOK, Submissions
<1>7. \A s : client' = [client EXCEPT ![c] = s] =>
        Holding' = IF s.issue # Placeholder THEN Holding \cup {c} ELSE Holding \ {c}
  BY <1>1 DEF Holding
<1>8. NoSubmission.issue = Placeholder
  BY DEF NoSubmission
<1>9. Broken(c) => Holding' = Holding \ {c} /\ failures' = f + 1
  BY <1>3, <1>7, <1>8 DEF Broken
<1>10. (issues' = issues => Issues' = Issues)
       /\ (issues' = issues /\ wakes' = wakes => Orphans' = Orphans)
  BY DEF Issues, Orphans
<1>11. SUFFICES \E p \in Nat, q \in Nat, g \in Nat :
          /\ Cardinality(Orphans') = p /\ Cardinality(Holding') = q /\ failures' = g
          /\ p <= g + q
  BY DEF OrphanNeedsAFailure, Orphans, Holding
<1>12. CASE CreateIssue(c)
  <2>1. PICK n : n = Len(issues) + 1 /\ n \notin Issues /\ n # Placeholder
    BY <1>1 DEF Placeholder
  <2>2. Issues' = Issues \cup {n} /\ wakes' = wakes /\ client[c].task \in Tasks
    BY <1>1, <1>12, <2>1 DEF CreateIssue, ClientOK, Issues
  <2>3. Orphans' = Orphans \cup {n} /\ n \notin Orphans
    BY <1>1, <2>1, <2>2 DEF Orphans
  <2>4. Cardinality(Orphans') = o + 1
    BY <2>3, <1>2, <1>3, FS_AddElement
  <2>5. c \notin Holding
    BY <1>6, <1>12 DEF CreateIssue
  <2>6. CASE Broken(c)
    BY <2>4, <2>5, <2>6, <1>3, <1>5, <1>9
  <2>7. CASE ~Broken(c)
    <3>1. PICK s : client' = [client EXCEPT ![c] = s] /\ s.issue = n /\ failures' = f
      <4>1. client[c] \in Submissions(Len(issues))
        BY <1>1
      <4>2. [client[c] EXCEPT !.issue = n, !.pc = AfterIssue(client[c].task)].issue = n
        BY <4>1 DEF Submissions
      <4> QED
        BY <4>2, <2>1, <2>7, <1>3, <1>12 DEF CreateIssue, Answered
    <3>2. Holding' = Holding \cup {c}
      BY <3>1, <2>1, <1>7
    <3>3. Cardinality(Holding') = h + 1
      BY <3>2, <2>5, <1>2, <1>3, FS_AddElement
    <3> QED
      BY <3>1, <3>3, <2>4, <1>3
  <2> QED
    BY <2>6, <2>7
<1>13. CASE CreateApproval(c)
  <2>1. c \in Holding /\ Orphans' = Orphans
    BY <1>6, <1>10, <1>13 DEF CreateApproval
  <2>2. CASE Broken(c)
    <3>1. h - 1 \in Nat /\ Cardinality(Holding') = h - 1
      BY <2>1, <2>2, <1>2, <1>5, <1>9, FS_RemoveElement, FS_Subset, FS_CardinalityType
    <3> QED
      BY <3>1, <2>1, <2>2, <1>3, <1>9
  <2>3. CASE ~Broken(c)
    <3>1. client[c] \in Submissions(Len(issues))
      BY <1>1
    <3>2. [client[c] EXCEPT !.pc = "wake"].issue = client[c].issue
      BY <3>1 DEF Submissions
    <3>3. Holding' = Holding /\ failures' = f
      BY <3>2, <2>1, <2>3, <1>3, <1>7, <1>13 DEF CreateApproval, Answered, Holding
    <3> QED
      BY <3>3, <2>1, <1>3
  <2> QED
    BY <2>2, <2>3
<1>14. CASE WakeAgent(c)
  <2>1. c \in Holding /\ client[c].issue \in Orphans
    BY <1>1, <1>6, <1>14 DEF WakeAgent, ClientOK, Orphans
  <2>2. Orphans' = Orphans \ {client[c].issue}
    BY <1>10, <1>14 DEF WakeAgent, WokenIssue, Orphans
  <2>3. Holding' = Holding \ {c} /\ failures' \in {f, f + 1}
    BY <1>3, <1>7, <1>8, <1>9, <1>14 DEF WakeAgent, Answered
  <2>4. h - 1 \in Nat /\ o - 1 \in Nat
    <3>1. IsFiniteSet(Holding \ {c}) /\ IsFiniteSet(Orphans \ {client[c].issue})
      BY <1>2, FS_RemoveElement
    <3>2. /\ Cardinality(Holding \ {c}) \in Nat
          /\ Cardinality(Orphans \ {client[c].issue}) \in Nat
      BY <3>1, FS_CardinalityType
    <3> QED
      BY <3>2, <2>1, <1>4, <1>5
  <2>5. Cardinality(Orphans') = o - 1 /\ Cardinality(Holding') = h - 1
    BY <2>1, <2>2, <2>3, <1>4, <1>5
  <2> QED
    BY <2>3, <2>4, <2>5, <1>3
<1>15. CASE CallFails(c)
  <2>1. Orphans' = Orphans /\ Holding' = Holding \ {c} /\ failures' = f + 1
    BY <1>9, <1>10, <1>15 DEF CallFails
  <2>2. PICK q \in Nat : q = Cardinality(Holding') /\ q >= h - 1
    <3>1. IsFiniteSet(Holding \ {c}) /\ Cardinality(Holding \ {c}) \in Nat
      BY <1>2, FS_RemoveElement, FS_Subset, FS_CardinalityType
    <3> QED
      BY <3>1, <2>1, <1>5, <1>3
  <2> QED
    BY <2>1, <2>2, <1>3
<1>16. CASE GiveUp(c) \/ \E t \in Tasks : Submit(c, t)
  <2>1. Orphans' = Orphans /\ failures' = f /\ c \notin Holding
    BY <1>3, <1>6, <1>10, <1>16 DEF GiveUp, Submit
  <2>2. Holding' = Holding \ {c}
    BY <1>7, <1>8, <1>16 DEF GiveUp, Submit
  <2> QED
    BY <2>1, <2>2, <1>3, <1>5
<1> QED
  BY <1>12, <1>13, <1>14, <1>15, <1>16 DEF ClientStep

-----------------------------------------------------------------------------
(* The records.                                                            *)

Texts == Record \cup {NoRecord, Torn}

WriterStates ==
  [pc : {"idle", "next", "post", "open", "fill"}, run : Runs \cup {NoRun},
   kind : Kinds, version : 0..MaxExecutions, success : BOOLEAN,
   todo : SUBSET (Runs \X Kinds)]

PostCounts == [Runs -> [Kinds -> [Versions -> Nat]]]

\* A writer at work has a file and a version, and it has posted what it is about
\* to record as posted.
Sound(s) ==
  s.pc \in {"post", "open", "fill"} =>
    /\ s.run \in Runs /\ s.version \in Versions
    /\ s.pc # "post" /\ s.success => posts[s.run][s.kind][s.version] > 0

\* A text is fit for a file.
Fits(text, r, k) == text \in Record /\ text.success => posts[r][k][text.version] > 0

RecordsInv ==
  /\ RecordsTypeOK
  /\ \A w \in Writers : Sound(writer[w])
  /\ \A r \in Runs, k \in Kinds : Fits(record[r][k], r, k)

LEMMA RestingType == Resting \in WriterStates /\ Resting.pc = "idle" /\ Resting.run = NoRun
  BY RecordsAssumption DEF Resting, WriterStates, Kinds

LEMMA RecordsInitInv == RecordsInit => RecordsInv
<1> SUFFICES ASSUME RecordsInit PROVE RecordsInv
  OBVIOUS
<1>1. \A w \in Writers : writer[w] = Resting
  BY DEF RecordsInit
<1>2. \A r \in Runs, k \in Kinds : record[r][k] = NoRecord
  BY DEF RecordsInit
<1>3. writer \in [Writers -> WriterStates]
  BY RestingType DEF RecordsInit
<1>4. RecordsTypeOK
  BY <1>3, RecordsAssumption DEF RecordsTypeOK, RecordsInit, WriterStates
<1> QED
  BY <1>1, <1>2, <1>4, RestingType, RecordsAssumption DEF RecordsInv, Sound, Fits

LEMMA RecordsState ==
  ASSUME RecordsInv, NEW w \in Writers
  PROVE  /\ writer \in [Writers -> WriterStates] /\ writer[w] \in WriterStates
         /\ Sound(writer[w])
         /\ record \in [Runs -> [Kinds -> Texts]] /\ posts \in PostCounts
         /\ executed \in [Runs -> Seq(Nat)] /\ faults \in 0..MaxFaults
  BY DEF RecordsInv, RecordsTypeOK, WriterStates, Texts, PostCounts

\* A step of one writer that posts nothing.
LEMMA WriterChange ==
  ASSUME RecordsInv, NEW w \in Writers, NEW s \in WriterStates, Sound(s),
         writer' = [writer EXCEPT ![w] = s], posts' = posts,
         executed' \in [Runs -> Seq(Nat)], faults' \in 0..MaxFaults,
         record' \in [Runs -> [Kinds -> Texts]],
         \A r \in Runs, k \in Kinds :
           record'[r][k] = record[r][k] \/ Fits(record'[r][k], r, k)
  PROVE  RecordsInv'
<1>1. writer \in [Writers -> WriterStates] /\ posts \in PostCounts
  BY RecordsState
<1>2. writer' \in [Writers -> WriterStates]
      /\ \A x \in Writers : writer'[x] = IF x = w THEN s ELSE writer[x]
  BY <1>1
<1>3. RecordsTypeOK'
  BY <1>1, <1>2 DEF RecordsTypeOK, WriterStates, Texts, PostCounts
<1>4. \A x \in Writers : Sound(writer'[x])
  BY <1>2 DEF RecordsInv
<1>5. \A r \in Runs, k \in Kinds : Fits(record'[r][k], r, k)
  BY DEF RecordsInv
<1> QED
  BY <1>3, <1>4, <1>5 DEF RecordsInv, Sound, Fits

LEMMA PutType ==
  ASSUME RecordsInv, NEW w \in Writers, NEW text \in Texts, Put(w, text),
         writer[w].pc \in {"open", "fill"},
         Fits(text, writer[w].run, writer[w].kind)
  PROVE  /\ record' \in [Runs -> [Kinds -> Texts]]
         /\ \A r \in Runs, k \in Kinds :
              record'[r][k] = record[r][k] \/ Fits(record'[r][k], r, k)
<1>1. record \in [Runs -> [Kinds -> Texts]] /\ writer[w].run \in Runs /\ writer[w].kind \in Kinds
  BY RecordsState DEF Sound, WriterStates
<1>2. \A r \in Runs, k \in Kinds :
        record'[r][k] = IF r = writer[w].run /\ k = writer[w].kind THEN text ELSE record[r][k]
  BY <1>1 DEF Put
<1> QED
  BY <1>1, <1>2 DEF Put

\* A step that resets a writer.
LEMMA RestKeeps ==
  ASSUME RecordsInv, NEW w \in Writers, writer' = [writer EXCEPT ![w] = Resting],
         UNCHANGED <<executed, record, posts>>, faults' \in 0..MaxFaults
  PROVE  RecordsInv'
<1>1. Sound(Resting)
  BY RestingType DEF Sound
<1> QED
  BY <1>1, RestingType, RecordsState, WriterChange

LEMMA FaultType ==
  ASSUME RecordsInv, Fault
  PROVE  faults' \in 0..MaxFaults
  BY RecordsAssumption DEF RecordsInv, RecordsTypeOK, Fault

LEMMA ExecuteKeeps ==
  ASSUME RecordsInv, NEW h \in Handlers, NEW r \in Runs, NEW i \in Nat, Execute(h, r, i)
  PROVE  RecordsInv'
<1> DEFINE s == [Resting EXCEPT !.pc = "post", !.run = r, !.version = Len(executed[r]) + 1]
<1>1. h \in Writers /\ executed \in [Runs -> Seq(Nat)] /\ Len(executed[r]) \in Nat
      /\ faults \in 0..MaxFaults /\ record \in [Runs -> [Kinds -> Texts]]
  BY RecordsState DEF Writers
<1>2. Len(executed[r]) + 1 \in Versions
  BY <1>1, RecordsAssumption DEF Execute, Versions
<1>3. s \in WriterStates /\ s.pc = "post" /\ s.run = r /\ s.version = Len(executed[r]) + 1
  <2>1. PICK v \in 0..MaxExecutions : v = Len(executed[r]) + 1
    BY <1>2, RecordsAssumption DEF Versions
  <2> QED
    BY <2>1, RestingType DEF WriterStates
<1>4. Sound(s)
  BY <1>2, <1>3 DEF Sound
<1>5. executed' \in [Runs -> Seq(Nat)]
  <2>1. Append(executed[r], i) \in Seq(Nat)
    BY <1>1
  <2> QED
    BY <2>1, <1>1 DEF Execute
<1>6. writer' = [writer EXCEPT ![h] = s] /\ UNCHANGED <<record, posts, faults>>
  BY DEF Execute
<1> HIDE DEF s
<1> QED
  BY <1>1, <1>3, <1>4, <1>5, <1>6, WriterChange

\* What a replay does between two files.
LEMMA ReplayKeeps ==
  ASSUME RecordsInv, NEW p \in Replays, ReplayStep(p)
  PROVE  RecordsInv'
<1>1. /\ p \in Writers /\ writer[p] \in WriterStates /\ executed \in [Runs -> Seq(Nat)]
      /\ faults \in 0..MaxFaults /\ record \in [Runs -> [Kinds -> Texts]]
  BY RecordsState DEF Writers
<1>2. CASE EndReplay(p) \/ Kill(p)
  BY <1>1, <1>2, RestKeeps, FaultType DEF EndReplay, Kill
<1>3. CASE StartReplay(p)
  <2> DEFINE s == [Resting EXCEPT !.pc = "next",
                     !.todo = {f \in Runs \X Kinds : record[f[1]][f[2]] # NoRecord}]
  <2>1. s \in WriterStates /\ s.pc = "next"
    <3>1. PICK todo \in SUBSET (Runs \X Kinds) :
            todo = {f \in Runs \X Kinds : record[f[1]][f[2]] # NoRecord}
      OBVIOUS
    <3> QED
      BY <3>1, RestingType DEF WriterStates
  <2>2. Sound(s)
    BY <2>1 DEF Sound
  <2>3. writer' = [writer EXCEPT ![p] = s] /\ UNCHANGED <<executed, record, posts, faults>>
    BY <1>3 DEF StartReplay
  <2> HIDE DEF s
  <2> QED
    BY <2>1, <2>2, <2>3, <1>1, WriterChange
<1>4. ASSUME NEW r \in Runs, NEW k \in Kinds, ReadNext(p, r, k) PROVE RecordsInv'
  <2> DEFINE rest == writer[p].todo \ {<<r, k>>}
             posting == [pc |-> "post", run |-> r, kind |-> k, version |-> record[r][k].version,
                         success |-> FALSE, todo |-> rest]
             skipping == [writer[p] EXCEPT !.todo = rest]
  <2>1. rest \in SUBSET (Runs \X Kinds)
    BY <1>1 DEF WriterStates
  <2>2. UNCHANGED <<executed, record, posts, faults>>
    BY <1>4 DEF ReadNext
  <2>3. CASE Retryable(record[r][k])
    <3>1. record[r][k].version \in Versions
      BY <2>3 DEF Retryable, Record
    <3>2. record[r][k].version \in 0..MaxExecutions
      BY <3>1, RecordsAssumption DEF Versions
    <3>3. posting \in WriterStates /\ Sound(posting)
      BY <2>1, <3>1, <3>2 DEF WriterStates, Sound
    <3>4. writer' = [writer EXCEPT ![p] = posting]
      BY <1>4, <2>3 DEF ReadNext
    <3> HIDE DEF posting
    <3> QED
      BY <3>3, <3>4, <2>2, <1>1, WriterChange
  <2>4. CASE ~Retryable(record[r][k])
    <3>1. skipping \in WriterStates /\ skipping.pc = writer[p].pc /\ writer[p].pc = "next"
      BY <1>1, <1>4, <2>1 DEF WriterStates, ReadNext, At
    <3>2. Sound(skipping)
      BY <3>1 DEF Sound
    <3>3. writer' = [writer EXCEPT ![p] = skipping]
      BY <1>4, <2>4 DEF ReadNext
    <3> HIDE DEF skipping
    <3> QED
      BY <3>1, <3>2, <3>3, <2>2, <1>1, WriterChange
  <2> QED
    BY <2>3, <2>4
<1> QED
  BY <1>2, <1>3, <1>4 DEF ReplayStep

LEMMA PostKeeps ==
  ASSUME RecordsInv, NEW w \in Writers, Post(w)
  PROVE  RecordsInv'
<1>1. /\ writer \in [Writers -> WriterStates] /\ writer[w] \in WriterStates
      /\ posts \in PostCounts /\ executed \in [Runs -> Seq(Nat)] /\ faults \in 0..MaxFaults
  BY RecordsState
<1>2. PICK r \in Runs, k \in Kinds, v \in Versions :
        r = writer[w].run /\ k = writer[w].kind /\ v = writer[w].version
  BY RecordsState DEF Post, At, Sound, WriterStates
<1>3. /\ posts' \in PostCounts
      /\ \A a \in Runs, b \in Kinds, c \in Versions :
           posts'[a][b][c] = IF a = r /\ b = k /\ c = v THEN posts[a][b][c] + 1
                             ELSE posts[a][b][c]
  <2>1. posts' = [posts EXCEPT ![r][k][v] = @ + 1]
    BY <1>2 DEF Post
  <2> QED
    BY <2>1, <1>1 DEF PostCounts
<1>4. /\ posts'[r][k][v] > 0
      /\ \A a \in Runs, b \in Kinds, c \in Versions : posts[a][b][c] > 0 => posts'[a][b][c] > 0
  <2>1. \A a \in Runs, b \in Kinds, c \in Versions : posts[a][b][c] \in Nat
    BY <1>1 DEF PostCounts
  <2> QED
    BY <2>1, <1>3
<1>5. PICK success \in BOOLEAN :
        writer' = [writer EXCEPT ![w] = [writer[w] EXCEPT !.pc = "open", !.success = success]]
  BY DEF Post, Posted, Excepted
<1> DEFINE s == [writer[w] EXCEPT !.pc = "open", !.success = success]
<1>6. s \in WriterStates /\ s.run = r /\ s.kind = k /\ s.version = v /\ s.pc = "open"
  BY <1>1, <1>2 DEF WriterStates
<1> HIDE DEF s
<1>7. writer' \in [Writers -> WriterStates]
      /\ \A x \in Writers : writer'[x] = IF x = w THEN s ELSE writer[x]
  BY <1>1, <1>5, <1>6 DEF s
<1>8. executed' = executed /\ record' = record /\ faults' \in 0..MaxFaults
  BY <1>1, FaultType DEF Post
<1>9. RecordsTypeOK'
  BY <1>3, <1>7, <1>8 DEF RecordsInv, RecordsTypeOK, WriterStates, PostCounts
<1>10. ASSUME NEW x \in Writers PROVE Sound(writer[x])'
  <2>1. CASE x = w
    BY <2>1, <1>2, <1>4, <1>6, <1>7 DEF Sound
  <2>2. CASE x # w
    <3>1. writer'[x] = writer[x] /\ Sound(writer[x]) /\ writer[x].kind \in Kinds
      BY <2>2, <1>1, <1>7 DEF RecordsInv, WriterStates
    <3> QED
      BY <3>1, <1>4 DEF Sound
  <2> QED
    BY <2>1, <2>2
<1>11. ASSUME NEW a \in Runs, NEW b \in Kinds PROVE Fits(record[a][b], a, b)'
  <2>1. Fits(record[a][b], a, b) /\ record'[a][b] = record[a][b]
    BY <1>8 DEF RecordsInv
  <2>2. record[a][b] \in Record => record[a][b].version \in Versions
    BY DEF Record
  <2> QED
    BY <2>1, <2>2, <1>4 DEF Fits
<1> QED
  BY <1>9, <1>10, <1>11 DEF RecordsInv

\* The other steps of a writer.
LEMMA WriterStepKeeps ==
  ASSUME RecordsInv, NEW w \in Writers, WriterStep(w)
  PROVE  RecordsInv'
<1>1. /\ writer[w] \in WriterStates /\ Sound(writer[w])
      /\ executed \in [Runs -> Seq(Nat)] /\ faults \in 0..MaxFaults
      /\ record \in [Runs -> [Kinds -> Texts]]
  BY RecordsState
<1>2. CASE Post(w)
  BY <1>2, PostKeeps
<1>3. CASE PostFails(w)
  <2> DEFINE s == [writer[w] EXCEPT !.pc = "open", !.success = FALSE]
  <2>1. /\ s \in WriterStates /\ s.run = writer[w].run /\ s.version = writer[w].version
        /\ s.success = FALSE
    BY <1>1 DEF WriterStates
  <2>2. Sound(s)
    BY <2>1, <1>1, <1>3 DEF Sound, PostFails, At
  <2>3. writer' = [writer EXCEPT ![w] = s] /\ UNCHANGED <<executed, record, posts, faults>>
    BY <1>3 DEF PostFails, Posted, Excepted
  <2> HIDE DEF s
  <2> QED
    BY <2>1, <2>2, <2>3, <1>1, WriterChange
<1>4. CASE Open(w)
  <2> DEFINE s == [writer[w] EXCEPT !.pc = "fill"]
  <2>1. /\ s \in WriterStates /\ s.run = writer[w].run /\ s.version = writer[w].version
        /\ s.success = writer[w].success /\ s.kind = writer[w].kind /\ writer[w].pc = "open"
    BY <1>1, <1>4 DEF WriterStates, Open, At
  <2>2. Sound(s)
    BY <2>1, <1>1 DEF Sound
  <2>3. writer' = [writer EXCEPT ![w] = s] /\ UNCHANGED <<executed, posts, faults>>
    BY <1>4 DEF Open
  <2>4. Torn \in Texts /\ Torn \notin Record
    BY RecordsAssumption DEF Texts
  <2>5. /\ record' \in [Runs -> [Kinds -> Texts]]
        /\ \A r \in Runs, k \in Kinds :
             record'[r][k] = record[r][k] \/ Fits(record'[r][k], r, k)
    BY <2>1, <2>4, <1>4, PutType DEF Open, Fits
  <2> HIDE DEF s
  <2> QED
    BY <2>1, <2>2, <2>3, <2>5, <1>1, WriterChange
<1>5. CASE Fill(w)
  <2>1. writer[w].pc = "fill" /\ writer[w].run \in Runs /\ writer[w].version \in Versions
    BY <1>1, <1>5 DEF Fill, At, Sound
  <2>2. After(w) \in WriterStates /\ Sound(After(w))
    <3>1. CASE w \in Replays
      <4> DEFINE s == [Resting EXCEPT !.pc = "next", !.todo = writer[w].todo]
      <4>1. s \in WriterStates /\ s.pc = "next"
        BY <1>1, RestingType DEF WriterStates
      <4>2. After(w) = s
        BY <3>1 DEF After
      <4> HIDE DEF s
      <4> QED
        BY <4>1, <4>2 DEF Sound
    <3>2. CASE w \notin Replays /\ writer[w].kind = "comment"
      <4> DEFINE s == [writer[w] EXCEPT !.pc = "post", !.kind = "dashboard", !.success = FALSE]
      <4>1. s \in WriterStates /\ s.pc = "post" /\ s.run = writer[w].run
            /\ s.version = writer[w].version
        BY <1>1 DEF WriterStates, Kinds
      <4>2. After(w) = s
        BY <3>2 DEF After
      <4> HIDE DEF s
      <4> QED
        BY <4>1, <4>2, <2>1 DEF Sound
    <3>3. CASE w \notin Replays /\ writer[w].kind # "comment"
      BY <3>3, RestingType DEF After, Sound
    <3> QED
      BY <3>1, <3>2, <3>3
  <2>3. PICK s \in WriterStates : s = After(w) /\ Sound(s)
    BY <2>2
  <2>4. writer' = [writer EXCEPT ![w] = s] /\ UNCHANGED <<executed, posts, faults>>
    BY <1>5, <2>3 DEF Fill
  <2> DEFINE text == [version |-> writer[w].version, success |-> writer[w].success]
  <2>5. text \in Record /\ text.version = writer[w].version /\ text.success = writer[w].success
    BY <2>1, <1>1 DEF Record, WriterStates
  <2>6. text \in Texts /\ Fits(text, writer[w].run, writer[w].kind)
    BY <2>5, <2>1, <1>1 DEF Texts, Fits, Sound
  <2>7. Torn \in Texts /\ Fits(Torn, writer[w].run, writer[w].kind)
    BY RecordsAssumption DEF Texts, Fits
  <2>8. Put(w, text) \/ Put(w, Torn)
    BY <1>5 DEF Fill
  <2>9. /\ record' \in [Runs -> [Kinds -> Texts]]
        /\ \A r \in Runs, k \in Kinds :
             record'[r][k] = record[r][k] \/ Fits(record'[r][k], r, k)
    <3>1. PICK t \in Texts : Put(w, t) /\ Fits(t, writer[w].run, writer[w].kind)
      BY <2>6, <2>7, <2>8
    <3> QED
      BY <3>1, <2>1, PutType
  <2> QED
    BY <2>3, <2>4, <2>9, <1>1, WriterChange
<1>6. CASE WriteFails(w)
  <2>1. UNCHANGED <<executed, record, posts>> /\ faults' \in 0..MaxFaults
        /\ writer[w].pc \in {"open", "fill"}
    BY <1>6, FaultType DEF WriteFails, At
  <2>2. CASE writer' = [writer EXCEPT ![w] = Resting]
    BY <2>1, <2>2, RestKeeps
  <2>3. CASE writer' # [writer EXCEPT ![w] = Resting]
    <3> DEFINE s == [writer[w] EXCEPT !.pc = "open", !.success = w \in Replays]
    <3>1. \A b \in BOOLEAN : [writer[w] EXCEPT !.pc = "open", !.success = b] \in WriterStates
      BY <1>1 DEF WriterStates
    <3>2. (w \in Replays) \in BOOLEAN
      OBVIOUS
    <3>3. s \in WriterStates
      BY <3>1, <3>2
    <3>4. /\ s.run = writer[w].run /\ s.version = writer[w].version
          /\ s.kind = writer[w].kind
      BY <1>1 DEF WriterStates
    <3>5. writer' = [writer EXCEPT ![w] = s] /\ writer[w].success
      BY <1>6, <2>3 DEF WriteFails
    <3> HIDE DEF s
    <3>6. Sound(s)
      BY <3>4, <3>5, <2>1, <1>1 DEF Sound
    <3> QED
      BY <3>3, <3>5, <3>6, <2>1, <1>1, WriterChange
  <2> QED
    BY <2>2, <2>3
<1> QED
  BY <1>2, <1>3, <1>4, <1>5, <1>6 DEF WriterStep

LEMMA CrashKeeps ==
  ASSUME RecordsInv, Crash
  PROVE  RecordsInv'
<1>1. writer \in [Writers -> WriterStates]
  BY DEF RecordsInv, RecordsTypeOK, WriterStates
<1>2. \A x \in Writers : writer'[x] \in {writer[x], Resting}
  BY DEF Crash
<1>3. writer' \in [Writers -> WriterStates]
  BY <1>1, RestingType DEF Crash
<1>4. UNCHANGED <<executed, record, posts>> /\ faults' \in 0..MaxFaults
  BY FaultType DEF Crash
<1>5. RecordsTypeOK'
  BY <1>3, <1>4 DEF RecordsInv, RecordsTypeOK, WriterStates
<1>6. \A x \in Writers : Sound(writer'[x])
  BY <1>2, RestingType DEF RecordsInv, Sound
<1> QED
  BY <1>4, <1>5, <1>6 DEF RecordsInv, Sound, Fits

LEMMA RecordsStepKeeps == RecordsInv /\ RecordsStep => RecordsInv'
  BY CrashKeeps, WriterStepKeeps, ReplayKeeps DEF RecordsStep

-----------------------------------------------------------------------------
(* The composition.                                                        *)

\* The issue that a result names is one of its task.
NamesItsTask ==
  \A r \in Runs : \A v \in 1..Len(executed[r]) :
    executed[r][v] \in Issues /\ issues[executed[r][v]] = r

FlowInv == AdapterInv /\ OrphanNeedsAFailure /\ RecordsInv /\ NamesItsTask

\* Issues stay what they are.
LEMMA IssuesStay ==
  ASSUME AdapterInv, NEW c \in Clients, ClientStep(c), NEW i \in Issues
  PROVE  i \in Issues' /\ issues'[i] = issues[i]
<1>1. issues \in Seq(Tasks) /\ Len(issues) \in Nat /\ Issues = 1..Len(issues) /\ ClientOK(c)
  BY AdapterState
<1>2. CASE CreateIssue(c)
  <2>1. client[c].task \in Tasks /\ issues' = Append(issues, client[c].task)
    BY <1>1, <1>2 DEF CreateIssue, ClientOK
  <2>2. Len(issues') = Len(issues) + 1 /\ issues'[i] = issues[i]
    BY <1>1, <2>1
  <2> QED
    BY <2>2, <1>1 DEF Issues
<1>3. CASE issues' = issues
  BY <1>3 DEF Issues
<1> QED
  BY <1>2, <1>3 DEF ClientStep, CreateApproval, WakeAgent, CallFails, GiveUp, Submit

LEMMA FlowInitInv == FlowInit => FlowInv
<1> SUFFICES ASSUME FlowInit PROVE FlowInv
  OBVIOUS
<1>1. AdapterInv /\ RecordsInv
  BY AdapterInitInv, RecordsInitInv DEF FlowInit
<1>2. NamesItsTask
  <2>1. \A r \in Runs : executed[r] = <<>>
    BY DEF FlowInit, RecordsInit
  <2> QED
    BY <2>1 DEF NamesItsTask
<1>3. OrphanNeedsAFailure
  <2>1. Issues \ wakes = {} /\ failures = 0
        /\ {c \in Clients : client[c].issue # Placeholder} = {}
    BY DEF FlowInit, AdapterInit, Issues, NoSubmission
  <2>2. Cardinality(Issues \ wakes) = 0
        /\ Cardinality({c \in Clients : client[c].issue # Placeholder}) = 0
    BY <2>1, FS_EmptySet, Zenon
  <2> QED
    BY <2>1, <2>2 DEF OrphanNeedsAFailure
<1> QED
  BY <1>1, <1>2, <1>3 DEF FlowInv

LEMMA FlowNextInv == FlowInv /\ [FlowNext]_flowVars => FlowInv'
<1> SUFFICES ASSUME FlowInv, [FlowNext]_flowVars PROVE FlowInv'
  OBVIOUS
<1>1. ASSUME UNCHANGED adapterVars PROVE AdapterInv' /\ OrphanNeedsAFailure' /\ Issues' = Issues
  <2>1. Issues' = Issues
    BY <1>1 DEF adapterVars, Issues
  <2> QED
    BY <1>1, <2>1 DEF adapterVars, FlowInv, AdapterInv, AdapterTypeOK, ReviewBeforeWake,
                      OwnIssue, ClientOK, OrphanNeedsAFailure
<1>2. ASSUME UNCHANGED recordsVars PROVE RecordsInv'
  BY <1>2 DEF recordsVars, FlowInv, RecordsInv, RecordsTypeOK, Sound, Fits
<1>3. CASE UNCHANGED flowVars
  BY <1>1, <1>2, <1>3 DEF flowVars, adapterVars, recordsVars, FlowInv, NamesItsTask
<1>4. ASSUME NEW c \in Clients, ClientStep(c), UNCHANGED recordsVars PROVE FlowInv'
  <2>1. AdapterInv' /\ OrphanNeedsAFailure'
    BY <1>4, ClientStepKeeps, OrphanNext DEF FlowInv
  <2>2. NamesItsTask'
    BY <1>4, IssuesStay DEF FlowInv, NamesItsTask, recordsVars
  <2> QED
    BY <1>2, <1>4, <2>1, <2>2 DEF FlowInv
<1>5. ASSUME NEW h \in Handlers, NEW i \in Issues, AgentExecutes(h, i) PROVE FlowInv'
  <2>1. i \in Nat /\ issues[i] \in Runs /\ UNCHANGED adapterVars
    BY <1>5, FlowAssumption DEF AgentExecutes, FlowInv, AdapterInv, AdapterTypeOK, Issues
  <2>2. PICK r \in Runs : r = issues[i] /\ Execute(h, r, i)
    BY <1>5, <2>1 DEF AgentExecutes
  <2>3. RecordsInv'
    BY <2>1, <2>2, ExecuteKeeps DEF FlowInv
  <2>4. NamesItsTask'
    <3>1. executed \in [Runs -> Seq(Nat)]
      BY DEF FlowInv, RecordsInv, RecordsTypeOK
    <3>2. executed' = [executed EXCEPT ![r] = Append(@, i)]
      BY <2>2 DEF Execute
    <3>3. ASSUME NEW q \in Runs, NEW v \in 1..Len(executed'[q])
          PROVE  executed'[q][v] \in Issues /\ issues[executed'[q][v]] = q
      <4>1. CASE q # r
        BY <3>1, <3>2, <3>3, <4>1 DEF FlowInv, NamesItsTask
      <4>2. CASE q = r
        <5>1. PICK e \in Seq(Nat) : e = executed[q] /\ executed'[q] = Append(e, i)
          BY <3>1, <3>2, <4>2
        <5>2. v \in 1..Len(e) \/ v = Len(e) + 1
          BY <5>1, <2>1, <3>3
        <5>3. v \in 1..Len(e) => executed'[q][v] = e[v]
          BY <5>1, <2>1
        <5>4. v = Len(e) + 1 => executed'[q][v] = i
          BY <5>1, <2>1
        <5> QED
          BY <5>1, <5>2, <5>3, <5>4, <2>2, <4>2 DEF FlowInv, NamesItsTask
      <4> QED
        BY <4>1, <4>2
    <3> QED
      BY <3>3, <2>1, <1>1 DEF NamesItsTask, adapterVars
  <2> QED
    BY <2>1, <2>3, <2>4, <1>1 DEF FlowInv
<1>6. CASE RecordsStep /\ UNCHANGED adapterVars
  <2>1. executed' = executed
    BY <1>6 DEF RecordsStep, WriterStep, ReplayStep, Crash, Post, PostFails, Open, Fill,
               WriteFails, StartReplay, EndReplay, Kill, ReadNext
  <2> QED
    BY <2>1, <1>1, <1>6, RecordsStepKeeps DEF FlowInv, NamesItsTask, adapterVars
<1> QED
  BY <1>3, <1>4, <1>5, <1>6 DEF FlowNext

LEMMA FlowInvariance == FlowSpec => []FlowInv
  BY FlowInitInv, FlowNextInv, PTL DEF FlowSpec

\* The state keeps its types, and a result names an issue of its task.
THEOREM FlowTypeCorrect == FlowSpec => []FlowTypeOK
<1>1. FlowInv => FlowTypeOK
  BY DEF FlowInv, FlowTypeOK, AdapterInv, RecordsInv, NamesItsTask
<1> QED
  BY <1>1, FlowInvariance, PTL

\* Nobody is woken for an issue before the approval it asks for is linked to it,
\* however many submissions run and fail (paperclip_adapter/service.py:35-45).
THEOREM ReviewBeforeWakeHolds == FlowSpec => []ReviewBeforeWake
<1>1. FlowInv => ReviewBeforeWake
  BY DEF FlowInv, AdapterInv
<1> QED
  BY <1>1, FlowInvariance, PTL

\* Issues that nobody is woken for are not more than the calls that failed and the
\* submissions that still run (paperclip_adapter/service.py:35-42).
THEOREM OrphanNeedsAFailureHolds == FlowSpec => []OrphanNeedsAFailure
<1>1. FlowInv => OrphanNeedsAFailure
  BY DEF FlowInv
<1> QED
  BY <1>1, FlowInvariance, PTL

\* What a record calls posted was posted (hermes/app.py:213-287,
\* retry_postbacks.py:31-48).
THEOREM SuccessIsPostedHolds == FlowSpec => []SuccessIsPosted
<1>1. FlowInv => SuccessIsPosted
  BY DEF FlowInv, RecordsInv, Fits, SuccessIsPosted
<1> QED
  BY <1>1, FlowInvariance, PTL

-----------------------------------------------------------------------------
(* Repetitions.                                                            *)

Working(s) == s.pc \in {"post", "open", "fill"}

Holds(s, r, k, v) == Working(s) /\ s.run = r /\ s.kind = k /\ s.version = v

\* A handler that is at a postback, or comes to it after the comment.
Coming(s, r, k, v) ==
  Holds(s, r, k, v) \/ (k = "dashboard" /\ Holds(s, r, "comment", v))

HasVersion(r, k, v) == record[r][k] \in Record /\ record[r][k].version = v

\* Executions have versions of their own, and nobody else has what a handler comes
\* to.
Distinct ==
  /\ \A r \in Runs, k \in Kinds, v \in Versions :
       v > Len(executed[r]) => posts[r][k][v] = 0 /\ ~HasVersion(r, k, v)
  /\ \A w \in Writers : Working(writer[w]) => writer[w].version <= Len(executed[writer[w].run])
  /\ \A h, g \in Handlers :
       /\ Working(writer[h]) /\ Working(writer[g])
       /\ writer[h].run = writer[g].run /\ writer[h].version = writer[g].version
       => h = g
  /\ \A h \in Handlers, r \in Runs, k \in Kinds, v \in Versions :
       Coming(writer[h], r, k, v) =>
         ~HasVersion(r, k, v) /\ \A p \in Replays : ~Holds(writer[p], r, k, v)

\* A writer that has still to post.
Owes(w, s, r, k, v) ==
  IF w \in Replays THEN Holds(s, r, k, v) /\ (s.pc = "post" \/ ~s.success)
  ELSE Coming(s, r, k, v) /\ (s.kind = k => s.pc = "post" \/ ~s.success)

\* A replay that has posted and has yet to say so.
Reposted(r, k, v) ==
  \E p \in Replays : Holds(writer[p], r, k, v) /\ writer[p].pc # "post" /\ writer[p].success

Pending(r, k, v) ==
  \/ \E w \in Writers : Owes(w, writer[w], r, k, v)
  \/ HasVersion(r, k, v) /\ ~record[r][k].success /\ ~Reposted(r, k, v)

\* What is still to be posted has been posted for faults only.
Counted ==
  \A r \in Runs, k \in Kinds, v \in Versions :
    /\ posts[r][k][v] <= 1 + faults
    /\ Pending(r, k, v) => posts[r][k][v] <= faults

LEMMA HoldsTyped ==
  ASSUME RecordsInv, NEW w \in Writers, Working(writer[w])
  PROVE  writer[w].run \in Runs /\ writer[w].kind \in Kinds /\ writer[w].version \in Versions
  BY RecordsState DEF Working, Sound, WriterStates

\* A step after which nobody works at anything new.
LEMMA DistinctKept ==
  ASSUME RecordsInv, RecordsInv', Distinct, executed' = executed,
         \A w \in Writers : Working(writer'[w]) =>
           /\ Working(writer[w]) /\ writer'[w].run = writer[w].run
           /\ writer'[w].version = writer[w].version
           /\ \/ writer'[w].kind = writer[w].kind
              \/ w \in Handlers /\ writer[w].kind = "comment" /\ writer'[w].kind = "dashboard",
         \A r \in Runs, k \in Kinds, v \in Versions :
           v > Len(executed[r]) => posts'[r][k][v] = posts[r][k][v],
         \A r \in Runs, k \in Kinds :
           \/ record'[r][k] = record[r][k] \/ record'[r][k] \notin Record
           \/ \E w \in Writers : /\ Holds(writer[w], r, k, record'[r][k].version)
                                 /\ ~Coming(writer'[w], r, k, record'[r][k].version)
  PROVE  Distinct'
<1>1. Handlers \subseteq Writers /\ Replays \subseteq Writers /\ Writers = Handlers \cup Replays
      /\ Handlers \cap Replays = {}
  BY RecordsAssumption DEF Writers
<1>2. \A h \in Handlers : \A r, k, v : Coming(writer'[h], r, k, v) => Coming(writer[h], r, k, v)
  BY <1>1 DEF Coming, Holds
<1>3. \A p \in Replays : \A r, k, v : Holds(writer'[p], r, k, v) => Holds(writer[p], r, k, v)
  BY <1>1 DEF Holds
<1>4. ASSUME NEW r \in Runs, NEW k \in Kinds, NEW v \in Versions, HasVersion(r, k, v)'
      PROVE  \/ HasVersion(r, k, v)
             \/ \E w \in Writers : Holds(writer[w], r, k, v) /\ ~Coming(writer'[w], r, k, v)
  BY <1>4 DEF HasVersion
<1>5. ASSUME NEW r \in Runs, NEW k \in Kinds, NEW v \in Versions, v > Len(executed[r])
      PROVE  posts'[r][k][v] = 0 /\ ~HasVersion(r, k, v)'
  <2>1. posts'[r][k][v] = 0 /\ ~HasVersion(r, k, v)
    BY <1>5 DEF Distinct
  <2>2. \A w \in Writers : ~Holds(writer[w], r, k, v)
    <3>1. Len(executed[r]) \in Nat /\ v \in Nat
      BY RecordsAssumption DEF RecordsInv, RecordsTypeOK, Versions
    <3> QED
      BY <3>1, <1>5 DEF Distinct, Holds
  <2> QED
    BY <2>1, <2>2, <1>4
<1>6. ASSUME NEW h \in Handlers, NEW r \in Runs, NEW k \in Kinds, NEW v \in Versions,
             Coming(writer'[h], r, k, v)
      PROVE  ~HasVersion(r, k, v)' /\ \A p \in Replays : ~Holds(writer'[p], r, k, v)
  <2>1. Coming(writer[h], r, k, v)
    BY <1>2, <1>6
  <2>2. ~HasVersion(r, k, v) /\ \A p \in Replays : ~Holds(writer[p], r, k, v)
    BY <2>1 DEF Distinct
  <2>3. ASSUME NEW w \in Writers, Holds(writer[w], r, k, v) PROVE w = h
    BY <2>1, <2>2, <2>3, <1>1 DEF Distinct, Coming, Holds
  <2> QED
    BY <2>2, <2>3, <1>3, <1>4, <1>6
<1>7. \A w \in Writers : Working(writer'[w]) => writer'[w].version <= Len(executed[writer'[w].run])
  BY DEF Distinct
<1>8. \A h, g \in Handlers :
       /\ Working(writer'[h]) /\ Working(writer'[g])
       /\ writer'[h].run = writer'[g].run /\ writer'[h].version = writer'[g].version
       => h = g
  BY <1>1 DEF Distinct
<1> QED
  BY <1>5, <1>6, <1>7, <1>8 DEF Distinct, Working, Coming, Holds

LEMMA CountedQuiet ==
  ASSUME Counted, posts' = posts, faults' = faults,
         \A r \in Runs, k \in Kinds, v \in Versions :
           Pending(r, k, v)' => Pending(r, k, v) \/ posts[r][k][v] <= faults
  PROVE  Counted'
  BY DEF Counted

LEMMA CountedFault ==
  ASSUME RecordsInv, Counted, posts' = posts, faults' = faults + 1
  PROVE  Counted'
<1>1. \A r \in Runs, k \in Kinds, v \in Versions : posts[r][k][v] \in Nat
  BY DEF RecordsInv, RecordsTypeOK
<1>2. faults \in Nat
  BY RecordsAssumption DEF RecordsInv, RecordsTypeOK
<1> QED
  BY <1>1, <1>2 DEF Counted

Once == Distinct /\ Counted

\* Who works after a step of one writer.
LEMMA OneWriter ==
  ASSUME RecordsInv, NEW w \in Writers, NEW s, writer' = [writer EXCEPT ![w] = s]
  PROVE  \A x \in Writers : writer'[x] = IF x = w THEN s ELSE writer[x]
  BY RecordsState

\* A step that takes a writer to rest, from rest.
LEMMA RestingOnce ==
  ASSUME RecordsInv, RecordsInv', Once, NEW w \in Writers, NEW s,
         writer' = [writer EXCEPT ![w] = s], ~Working(s), ~Working(writer[w]),
         UNCHANGED <<executed, record, posts, faults>>
  PROVE  Once'
<1>1. \A x \in Writers : writer'[x] = IF x = w THEN s ELSE writer[x]
  BY OneWriter
<1>2. Distinct'
  BY <1>1, DistinctKept DEF Once
<1>3. Replays \subseteq Writers
  BY DEF Writers
<1>4. \A r, k, v : Reposted(r, k, v)' <=> Reposted(r, k, v)
  BY <1>1, <1>3 DEF Reposted, Holds
<1>5. \A x \in Writers : \A r, k, v : Owes(x, writer'[x], r, k, v) => Owes(x, writer[x], r, k, v)
  BY <1>1 DEF Owes, Coming, Holds
<1>6. \A r \in Runs, k \in Kinds, v \in Versions : Pending(r, k, v)' => Pending(r, k, v)
  BY <1>4, <1>5 DEF Pending, HasVersion, Owes, Coming, Holds, Working
<1> QED
  BY <1>2, <1>6, CountedQuiet DEF Once

\* A fault: a writer drops what it does, or begins again to write.
LEMMA FaultOnce ==
  ASSUME RecordsInv, RecordsInv', Once, faults' = faults + 1,
         UNCHANGED <<executed, record, posts>>,
         \A w \in Writers : Working(writer'[w]) =>
           /\ Working(writer[w]) /\ writer'[w].run = writer[w].run
           /\ writer'[w].version = writer[w].version /\ writer'[w].kind = writer[w].kind
  PROVE  Once'
<1>1. Distinct'
  BY DistinctKept DEF Once
<1> QED
  BY <1>1, CountedFault DEF Once

\* The only replay takes on what nobody else has.
LEMMA ReadOnce ==
  ASSUME RecordsInv, RecordsInv', Once, \A p, q \in Replays : p = q,
         NEW p \in Replays, NEW r \in Runs, NEW k \in Kinds, ReadNext(p, r, k)
  PROVE  Once'
<1>1. p \in Writers /\ writer[p] \in WriterStates /\ writer[p].pc = "next"
  BY RecordsState DEF Writers, ReadNext, At
<1>2. UNCHANGED <<executed, record, posts, faults>> /\ ~Working(writer[p])
  BY <1>1 DEF ReadNext, Working
<1>3. CASE ~Retryable(record[r][k])
  <2> DEFINE s == [writer[p] EXCEPT !.todo = @ \ {<<r, k>>}]
  <2>1. writer' = [writer EXCEPT ![p] = s]
    BY <1>3 DEF ReadNext
  <2>2. s.pc = "next"
    BY <1>1 DEF WriterStates
  <2> HIDE DEF s
  <2> QED
    BY <2>1, <2>2, <1>1, <1>2, RestingOnce DEF Working
<1>4. CASE Retryable(record[r][k])
  <2>1. PICK v \in Versions : v = record[r][k].version /\ HasVersion(r, k, v)
                              /\ ~record[r][k].success
    BY <1>4 DEF Retryable, Record, HasVersion
  <2> DEFINE s == [pc |-> "post", run |-> r, kind |-> k, version |-> record[r][k].version,
                   success |-> FALSE, todo |-> writer[p].todo \ {<<r, k>>}]
  <2>2. s.pc = "post" /\ s.run = r /\ s.kind = k /\ s.version = v
    BY <2>1
  <2>3. writer' = [writer EXCEPT ![p] = s]
    BY <1>4 DEF ReadNext
  <2> HIDE DEF s
  <2>4. \A x \in Writers : writer'[x] = IF x = p THEN s ELSE writer[x]
    BY <2>3, <1>1, OneWriter
  <2>5. /\ Handlers \subseteq Writers /\ Replays = {p} /\ p \notin Handlers
        /\ Writers = Handlers \cup {p}
    BY RecordsAssumption DEF Writers
  <2>6. v <= Len(executed[r])
    <3>1. v \in Nat /\ Len(executed[r]) \in Nat
      BY RecordsAssumption DEF RecordsInv, RecordsTypeOK, Versions
    <3> QED
      BY <3>1, <2>1 DEF Once, Distinct
  <2>7. Distinct'
    <3>1. \A x \in Writers : Working(writer'[x]) => writer'[x].version <= Len(executed[writer'[x].run])
      BY <2>2, <2>4, <2>6 DEF Once, Distinct
    <3>2. ASSUME NEW h \in Handlers, NEW a \in Runs, NEW b \in Kinds, NEW c \in Versions,
                 Coming(writer[h], a, b, c)
          PROVE  ~HasVersion(a, b, c) /\ ~Holds(s, a, b, c)
      BY <2>1, <2>2, <3>2 DEF Once, Distinct, Holds
    <3> QED
      BY <3>1, <3>2, <2>4, <2>5, <1>2 DEF Once, Distinct, HasVersion, Coming, Holds, Working
  <2>8. \A a, b, c : ~Reposted(a, b, c) /\ ~Reposted(a, b, c)'
    BY <2>2, <2>4, <2>5, <1>1, <1>2 DEF Reposted, Holds
  <2>9. ASSUME NEW a \in Runs, NEW b \in Kinds, NEW c \in Versions, Pending(a, b, c)'
        PROVE  Pending(a, b, c)
    <3>1. CASE HasVersion(a, b, c)' /\ ~record'[a][b].success
      BY <3>1, <2>8, <1>2 DEF Pending, HasVersion
    <3>2. CASE \E x \in Writers : Owes(x, writer[x], a, b, c)'
      <4>1. PICK x \in Writers : Owes(x, writer'[x], a, b, c)
        BY <3>2 DEF Owes, Coming, Holds, Working
      <4>2. CASE x = p
        BY <4>1, <4>2, <2>1, <2>2, <2>4, <2>8 DEF Owes, Holds, Pending
      <4>3. CASE x # p
        BY <4>1, <4>3, <2>4 DEF Pending
      <4> QED
        BY <4>2, <4>3
    <3> QED
      BY <3>1, <3>2, <2>9 DEF Pending
  <2> QED
    BY <2>7, <2>9, <1>2, CountedQuiet DEF Once
<1> QED
  BY <1>3, <1>4

\* A new execution has been posted by nobody.
LEMMA ExecuteOnce ==
  ASSUME RecordsInv, RecordsInv', Once, NEW h \in Handlers, NEW r \in Runs, NEW i \in Nat,
         Execute(h, r, i)
  PROVE  Once'
<1>1. h \in Writers /\ executed \in [Runs -> Seq(Nat)] /\ faults \in Nat
      /\ Handlers \subseteq Writers /\ Replays \subseteq Writers /\ Writers = Handlers \cup Replays
      /\ Handlers \cap Replays = {}
  BY RecordsAssumption DEF Writers, RecordsInv, RecordsTypeOK
<1>2. UNCHANGED <<record, posts, faults>> /\ ~Working(writer[h])
  BY DEF Execute, At, Working
<1>3. PICK v \in Versions : v = Len(executed[r]) + 1
  BY <1>1, RecordsAssumption DEF Execute, Versions
<1> DEFINE s == [Resting EXCEPT !.pc = "post", !.run = r, !.version = Len(executed[r]) + 1]
<1>4. s.pc = "post" /\ s.run = r /\ s.version = v
  BY <1>3 DEF Resting
<1>5. writer' = [writer EXCEPT ![h] = s]
  BY DEF Execute
<1> HIDE DEF s
<1>6. \A x \in Writers : writer'[x] = IF x = h THEN s ELSE writer[x]
  <2>1. writer \in [Writers -> WriterStates]
    BY <1>1, RecordsState
  <2> QED
    BY <2>1, <1>5
<1>7. /\ \A a \in Runs : Len(executed[a]) \in Nat
      /\ \A a \in Runs : Len(executed'[a]) = IF a = r THEN v ELSE Len(executed[a])
  <2>1. Len(Append(executed[r], i)) = v
    BY <1>1, <1>3
  <2> QED
    BY <2>1, <1>1 DEF Execute
<1>8. ASSUME NEW x \in Writers, Working(writer[x]) PROVE ~(writer[x].run = r /\ writer[x].version = v)
  <2>1. writer[x].run \in Runs /\ writer[x].version \in Nat
    BY <1>8, HoldsTyped DEF Versions
  <2> QED
    BY <2>1, <1>3, <1>7, <1>8 DEF Once, Distinct
<1>9. \A k \in Kinds : posts[r][k][v] = 0 /\ ~HasVersion(r, k, v)
  BY <1>3, <1>7 DEF Once, Distinct
<1>10. \A a \in Runs, c \in Versions : c > Len(executed'[a]) => c > Len(executed[a])
  BY <1>3, <1>7 DEF Versions
<1>11. Distinct'
  <2>1. \A a \in Runs, k \in Kinds, c \in Versions :
          c > Len(executed'[a]) => posts[a][k][c] = 0 /\ ~HasVersion(a, k, c)
    BY <1>10 DEF Once, Distinct
  <2>2. ASSUME NEW x \in Writers, Working(writer'[x])
        PROVE  writer'[x].version <= Len(executed'[writer'[x].run])
    <3>1. CASE x = h
      BY <3>1, <1>3, <1>4, <1>6, <1>7 DEF Versions
    <3>2. CASE x # h
      <4>1. writer'[x] = writer[x] /\ writer[x].run \in Runs /\ writer[x].version \in Nat
        BY <3>2, <2>2, <1>6, HoldsTyped DEF Versions
      <4>2. writer[x].version <= Len(executed[writer[x].run])
        BY <4>1, <2>2 DEF Once, Distinct
      <4> QED
        BY <4>1, <4>2, <1>3, <1>7
    <3> QED
      BY <3>1, <3>2
  <2>3. ASSUME NEW g \in Handlers, NEW f \in Handlers, Working(writer'[g]), Working(writer'[f]),
               writer'[g].run = writer'[f].run, writer'[g].version = writer'[f].version
        PROVE  g = f
    BY <2>3, <1>1, <1>4, <1>6, <1>8 DEF Once, Distinct
  <2>4. ASSUME NEW g \in Handlers, NEW a \in Runs, NEW k \in Kinds, NEW c \in Versions,
               Coming(writer'[g], a, k, c)
        PROVE  ~HasVersion(a, k, c) /\ \A p \in Replays : ~Holds(writer[p], a, k, c)
    <3>1. CASE g = h
      <4>1. a = r /\ c = v
        BY <3>1, <2>4, <1>1, <1>4, <1>6 DEF Coming, Holds
      <4> QED
        BY <4>1, <1>1, <1>8, <1>9 DEF Holds
    <3>2. CASE g # h
      BY <3>2, <2>4, <1>1, <1>6 DEF Once, Distinct
    <3> QED
      BY <3>1, <3>2
  <2>5. \A p \in Replays : writer'[p] = writer[p]
    BY <1>1, <1>6
  <2> QED
    BY <2>1, <2>2, <2>3, <2>4, <2>5, <1>2 DEF Distinct, HasVersion, Coming, Holds, Working
<1>12. ASSUME NEW a \in Runs, NEW k \in Kinds, NEW c \in Versions, Pending(a, k, c)'
       PROVE  Pending(a, k, c) \/ posts[a][k][c] <= faults
  <2>1. \A x, y, z : Reposted(x, y, z)' <=> Reposted(x, y, z)
    BY <1>1, <1>6 DEF Reposted, Holds
  <2>2. CASE HasVersion(a, k, c)' /\ ~record'[a][k].success /\ ~Reposted(a, k, c)'
    BY <2>1, <2>2, <1>2 DEF Pending, HasVersion
  <2>3. CASE \E x \in Writers : Owes(x, writer[x], a, k, c)'
    <3>1. PICK x \in Writers : Owes(x, writer'[x], a, k, c)
      BY <2>3 DEF Owes, Coming, Holds, Working
    <3>2. CASE x = h
      <4>1. a = r /\ c = v
        BY <3>1, <3>2, <1>1, <1>4, <1>6 DEF Owes, Coming, Holds
      <4> QED
        BY <4>1, <1>1, <1>9
    <3>3. CASE x # h
      BY <3>1, <3>3, <1>6 DEF Pending
    <3> QED
      BY <3>2, <3>3
  <2> QED
    BY <2>2, <2>3, <1>12 DEF Pending
<1> QED
  BY <1>2, <1>11, <1>12, CountedQuiet DEF Once

LEMMA PostOnce ==
  ASSUME RecordsInv, RecordsInv', Once, \A p, q \in Replays : p = q,
         NEW w \in Writers, Post(w)
  PROVE  Once'
<1>1. /\ writer[w] \in WriterStates /\ writer[w].pc = "post" /\ Working(writer[w])
      /\ executed' = executed /\ record' = record /\ posts \in PostCounts
      /\ Writers = Handlers \cup Replays /\ Handlers \cap Replays = {} /\ faults \in Nat
  BY RecordsState, RecordsAssumption DEF Post, At, Working, Writers
<1>2. PICK r \in Runs, k \in Kinds, v \in Versions :
        r = writer[w].run /\ k = writer[w].kind /\ v = writer[w].version
  BY <1>1, HoldsTyped
<1>3. \A a \in Runs, b \in Kinds, c \in Versions :
        posts'[a][b][c] = IF a = r /\ b = k /\ c = v THEN posts[a][b][c] + 1 ELSE posts[a][b][c]
  <2>1. posts' = [posts EXCEPT ![r][k][v] = @ + 1]
    BY <1>2 DEF Post
  <2> QED
    BY <2>1, <1>1 DEF PostCounts
<1>4. \A a \in Runs, b \in Kinds, c \in Versions : posts[a][b][c] \in Nat
  BY <1>1 DEF PostCounts
<1>5. PICK success \in BOOLEAN :
        /\ writer' = [writer EXCEPT ![w] = [writer[w] EXCEPT !.pc = "open", !.success = success]]
        /\ faults' = IF success THEN faults ELSE faults + 1
  <2>1. CASE Posted(w, TRUE) /\ UNCHANGED faults
    <3>1. writer' = [writer EXCEPT ![w] = [writer[w] EXCEPT !.pc = "open", !.success = TRUE]]
      BY <2>1 DEF Posted
    <3> QED
      BY <3>1, <2>1
  <2>2. CASE Posted(w, FALSE) /\ Fault
    <3>1. writer' = [writer EXCEPT ![w] = [writer[w] EXCEPT !.pc = "open", !.success = FALSE]]
      BY <2>2 DEF Posted
    <3> QED
      BY <3>1, <2>2 DEF Fault
  <2> QED
    BY <2>1, <2>2 DEF Post, Excepted
<1> DEFINE s == [writer[w] EXCEPT !.pc = "open", !.success = success]
<1>6. s.pc = "open" /\ s.run = r /\ s.kind = k /\ s.version = v /\ s.success = success
  BY <1>1, <1>2 DEF WriterStates
<1>7. writer' = [writer EXCEPT ![w] = s]
  BY <1>5
<1> HIDE DEF s
<1>8. \A x \in Writers : writer'[x] = IF x = w THEN s ELSE writer[x]
  BY <1>7, RecordsState
<1>9. Distinct'
  <2>1. v <= Len(executed[r])
    BY <1>1, <1>2 DEF Once, Distinct
  <2>2. \A a \in Runs : Len(executed[a]) \in Nat
    BY DEF RecordsInv, RecordsTypeOK
  <2>3. \A a \in Runs, b \in Kinds, c \in Versions :
          c > Len(executed[a]) => posts'[a][b][c] = posts[a][b][c]
    BY <2>1, <2>2, <1>3 DEF Versions
  <2> QED
    BY <2>3, <1>1, <1>2, <1>6, <1>8, DistinctKept DEF Once
<1>10. Holds(writer[w], r, k, v) /\ Owes(w, writer[w], r, k, v)
  BY <1>1, <1>2 DEF Holds, Owes, Coming
<1>11. posts[r][k][v] <= faults
  BY <1>10 DEF Once, Counted, Pending
<1>12. CASE ~success
  BY <1>1, <1>3, <1>4, <1>5, <1>9, <1>11, <1>12 DEF Once, Counted
<1>13. CASE success
  \* Nobody else has this postback, and the writer no longer owes it.
  <2>1. ~Pending(r, k, v)'
    <3>1. ASSUME NEW x \in Writers PROVE ~Owes(x, writer'[x], r, k, v)
      <4>1. CASE x = w
        BY <4>1, <1>6, <1>8, <1>13 DEF Owes, Holds
      <4>2. CASE x # w
        BY <4>2, <1>1, <1>2, <1>8, <1>10 DEF Owes, Coming, Holds, Once, Distinct
      <4> QED
        BY <4>1, <4>2
    <3>2. ~(HasVersion(r, k, v)' /\ ~Reposted(r, k, v)')
      <4>1. CASE w \in Handlers
        BY <4>1, <1>1, <1>10 DEF Once, Distinct, Coming, HasVersion
      <4>2. CASE w \in Replays
        <5>1. Holds(s, r, k, v) /\ s.pc # "post" /\ s.success /\ writer'[w] = s
          BY <1>1, <1>6, <1>8, <1>13 DEF Holds, Working
        <5> QED
          BY <5>1, <4>2 DEF Reposted, Holds, Working
      <4> QED
        BY <4>1, <4>2, <1>1
    <3> QED
      BY <3>1, <3>2 DEF Pending, Owes, Coming, Holds, Working
  <2>2. ASSUME NEW a \in Runs, NEW b \in Kinds, NEW c \in Versions, ~(a = r /\ b = k /\ c = v),
               Pending(a, b, c)'
        PROVE  Pending(a, b, c)
    <3>1. CASE \E x \in Writers : Owes(x, writer[x], a, b, c)'
      <4>1. PICK x \in Writers : Owes(x, writer'[x], a, b, c)
        BY <3>1 DEF Owes, Coming, Holds, Working
      <4>2. Owes(x, writer[x], a, b, c)
        BY <4>1, <2>2, <1>1, <1>2, <1>6, <1>8 DEF Owes, Coming, Holds, Working
      <4> QED
        BY <4>2 DEF Pending
    <3>2. CASE HasVersion(a, b, c)' /\ ~record'[a][b].success /\ ~Reposted(a, b, c)'
      <4>1. Reposted(a, b, c) => Reposted(a, b, c)'
        <5> SUFFICES ASSUME NEW p \in Replays, Holds(writer[p], a, b, c), writer[p].pc # "post",
                            writer[p].success
                     PROVE  Reposted(a, b, c)'
          BY DEF Reposted
        <5>1. writer'[p] = writer[p]
          BY <1>1, <1>8
        <5> QED
          BY <5>1 DEF Reposted, Holds, Working
      <4> QED
        BY <4>1, <3>2, <1>1 DEF Pending, HasVersion
    <3> QED
      BY <3>1, <3>2, <2>2 DEF Pending
  <2>3. Counted'
    BY <2>1, <2>2, <1>1, <1>3, <1>4, <1>5, <1>11, <1>13 DEF Once, Counted
  <2> QED
    BY <2>3, <1>9 DEF Once
<1> QED
  BY <1>12, <1>13

\* A step of a writer at a postback that leaves what it owes as it is, and its
\* record none of what others owe.
LEMMA WriteOnce ==
  ASSUME RecordsInv, RecordsInv', Once, \A p, q \in Replays : p = q,
         NEW w \in Writers, PostFails(w) \/ Open(w)
  PROVE  Once'
<1>1. /\ writer[w] \in WriterStates /\ Working(writer[w])
      /\ UNCHANGED <<executed, posts, faults>>
      /\ Writers = Handlers \cup Replays /\ Handlers \cap Replays = {}
  BY RecordsState, RecordsAssumption DEF PostFails, Open, At, Working, Writers
<1>2. PICK s :
        /\ writer' = [writer EXCEPT ![w] = s]
        /\ Working(s) /\ s.run = writer[w].run /\ s.kind = writer[w].kind
        /\ s.version = writer[w].version /\ s.pc # "post"
        /\ writer[w].pc = "post" => ~s.success
        /\ writer[w].pc # "post" => s.success = writer[w].success
  <2>1. CASE PostFails(w)
    <3> DEFINE s == [writer[w] EXCEPT !.pc = "open", !.success = FALSE]
    <3>1. /\ s.run = writer[w].run /\ s.kind = writer[w].kind /\ s.version = writer[w].version
          /\ s.pc = "open" /\ s.success = FALSE
      BY <1>1 DEF WriterStates
    <3>2. writer' = [writer EXCEPT ![w] = s] /\ writer[w].pc = "post"
      BY <2>1 DEF PostFails, Posted, Excepted, At
    <3> HIDE DEF s
    <3> QED
      BY <3>1, <3>2 DEF Working
  <2>2. CASE Open(w)
    <3> DEFINE s == [writer[w] EXCEPT !.pc = "fill"]
    <3>1. /\ s.run = writer[w].run /\ s.kind = writer[w].kind /\ s.version = writer[w].version
          /\ s.pc = "fill" /\ s.success = writer[w].success
      BY <1>1 DEF WriterStates
    <3>2. writer' = [writer EXCEPT ![w] = s] /\ writer[w].pc = "open"
      BY <2>2 DEF Open, At
    <3> HIDE DEF s
    <3> QED
      BY <3>1, <3>2 DEF Working
  <2> QED
    BY <2>1, <2>2
<1>3. \A x \in Writers : writer'[x] = IF x = w THEN s ELSE writer[x]
  BY <1>2, RecordsState
<1>4. \A a \in Runs, b \in Kinds : record'[a][b] = record[a][b] \/ record'[a][b] \notin Record
  <2>1. CASE PostFails(w)
    BY <2>1 DEF PostFails
  <2>2. CASE Open(w)
    BY <2>2, RecordsAssumption, HoldsTyped, <1>1 DEF Open, Put, RecordsInv, RecordsTypeOK
  <2> QED
    BY <2>1, <2>2
<1>5. Distinct'
  BY <1>1, <1>2, <1>3, <1>4, DistinctKept DEF Once
<1>6. ASSUME NEW a \in Runs, NEW b \in Kinds, NEW c \in Versions, Pending(a, b, c)'
      PROVE  Pending(a, b, c)
  <2>1. CASE \E x \in Writers : Owes(x, writer[x], a, b, c)'
    <3>1. PICK x \in Writers : Owes(x, writer'[x], a, b, c)
      BY <2>1 DEF Owes, Coming, Holds, Working
    <3>2. Owes(x, writer[x], a, b, c)
      BY <3>1, <1>1, <1>2, <1>3 DEF Owes, Coming, Holds, Working
    <3> QED
      BY <3>2 DEF Pending
  <2>2. CASE HasVersion(a, b, c)' /\ ~record'[a][b].success /\ ~Reposted(a, b, c)'
    <3>1. HasVersion(a, b, c) /\ ~record[a][b].success
      BY <2>2, <1>4 DEF HasVersion
    <3>2. Reposted(a, b, c) => Reposted(a, b, c)'
      <4> SUFFICES ASSUME NEW p \in Replays, Holds(writer[p], a, b, c), writer[p].pc # "post",
                          writer[p].success
                   PROVE  Reposted(a, b, c)'
        BY DEF Reposted
      <4>1. Holds(writer'[p], a, b, c) /\ writer'[p].pc # "post" /\ writer'[p].success
        BY <1>1, <1>2, <1>3 DEF Holds
      <4> QED
        BY <4>1 DEF Reposted, Holds, Working
    <3> QED
      BY <3>1, <3>2, <2>2 DEF Pending
  <2> QED
    BY <2>1, <2>2, <1>6 DEF Pending
<1> QED
  BY <1>1, <1>5, <1>6, CountedQuiet DEF Once

\* The record takes over what its writer owes.
LEMMA FillOnce ==
  ASSUME RecordsInv, RecordsInv', Once, \A p, q \in Replays : p = q,
         NEW w \in Writers, Fill(w)
  PROVE  Once'
<1>1. /\ writer[w] \in WriterStates /\ Working(writer[w]) /\ writer[w].pc = "fill"
      /\ UNCHANGED <<executed, posts, faults>>
      /\ Writers = Handlers \cup Replays /\ Handlers \cap Replays = {}
      /\ record \in [Runs -> [Kinds -> Texts]]
  BY RecordsState, RecordsAssumption DEF Fill, At, Working, Writers
<1>2. PICK r \in Runs, k \in Kinds, v \in Versions :
        r = writer[w].run /\ k = writer[w].kind /\ v = writer[w].version
  BY <1>1, HoldsTyped
<1>3. PICK s :
        /\ writer' = [writer EXCEPT ![w] = s]
        /\ \/ ~Working(s)
           \/ /\ w \in Handlers /\ k = "comment" /\ s.pc = "post" /\ s.run = r
              /\ s.kind = "dashboard" /\ s.version = v
  <2>1. CASE w \in Handlers /\ k = "comment"
    <3> DEFINE s == [writer[w] EXCEPT !.pc = "post", !.kind = "dashboard", !.success = FALSE]
    <3>1. s.pc = "post" /\ s.run = r /\ s.kind = "dashboard" /\ s.version = v
      BY <1>1, <1>2 DEF WriterStates
    <3>2. writer' = [writer EXCEPT ![w] = s]
      BY <2>1, <1>1, <1>2 DEF Fill, After
    <3> HIDE DEF s
    <3> QED
      BY <3>1, <3>2, <2>1
  <2>2. CASE ~(w \in Handlers /\ k = "comment")
    <3>1. After(w).pc \in {"next", "idle"}
      <4>1. Resting.pc = "idle"
        BY RestingType
      <4>2. [Resting EXCEPT !.pc = "next", !.todo = writer[w].todo].pc = "next"
        BY DEF Resting
      <4> QED
        BY <4>1, <4>2, <2>2, <1>1, <1>2 DEF After
    <3> QED
      BY <3>1 DEF Fill, Working
  <2> QED
    BY <2>1, <2>2
<1>4. \A x \in Writers : writer'[x] = IF x = w THEN s ELSE writer[x]
  BY <1>3, RecordsState
<1> DEFINE text == [version |-> v, success |-> writer[w].success]
<1>5. /\ \A a \in Runs, b \in Kinds :
           ~(a = r /\ b = k) => record'[a][b] = record[a][b]
      /\ record'[r][k] = text \/ record'[r][k] \notin Record
  <2>1. Put(w, text) \/ Put(w, Torn)
    BY <1>2 DEF Fill
  <2>2. Torn \notin Record
    BY RecordsAssumption
  <2> HIDE DEF text
  <2> QED
    BY <2>1, <2>2, <1>1, <1>2 DEF Put
<1>6. text.version = v /\ text.success = writer[w].success
  OBVIOUS
<1> HIDE DEF text
<1>7. Holds(writer[w], r, k, v) /\ ~Coming(s, r, k, v)
  BY <1>1, <1>2, <1>3 DEF Holds, Coming, Working
<1>8. Distinct'
  <2>1. \A x \in Writers : Working(writer'[x]) =>
           /\ Working(writer[x]) /\ writer'[x].run = writer[x].run
           /\ writer'[x].version = writer[x].version
           /\ \/ writer'[x].kind = writer[x].kind
              \/ x \in Handlers /\ writer[x].kind = "comment" /\ writer'[x].kind = "dashboard"
    BY <1>1, <1>2, <1>3, <1>4
  <2>2. \A a \in Runs, b \in Kinds :
           \/ record'[a][b] = record[a][b] \/ record'[a][b] \notin Record
           \/ \E x \in Writers : /\ Holds(writer[x], a, b, record'[a][b].version)
                                 /\ ~Coming(writer'[x], a, b, record'[a][b].version)
    BY <1>4, <1>5, <1>6, <1>7
  <2> QED
    BY <2>1, <2>2, <1>1, DistinctKept DEF Once
<1>9. ASSUME NEW a \in Runs, NEW b \in Kinds, NEW c \in Versions, Pending(a, b, c)'
      PROVE  Pending(a, b, c)
  <2>1. CASE \E x \in Writers : Owes(x, writer[x], a, b, c)'
    <3>1. PICK x \in Writers : Owes(x, writer'[x], a, b, c)
      BY <2>1 DEF Owes, Coming, Holds, Working
    <3>2. CASE x # w
      BY <3>1, <3>2, <1>4 DEF Pending
    <3>3. CASE x = w
      <4>1. w \in Handlers /\ a = r /\ k = "comment" /\ b = "dashboard" /\ c = v
        BY <3>1, <3>3, <1>1, <1>3, <1>4 DEF Owes, Coming, Holds
      <4>2. Owes(w, writer[w], a, b, c)
        BY <4>1, <1>1, <1>2, <1>7 DEF Owes, Coming
      <4> QED
        BY <4>2 DEF Pending
    <3> QED
      BY <3>2, <3>3
  <2>2. CASE HasVersion(a, b, c)' /\ ~record'[a][b].success /\ ~Reposted(a, b, c)'
    <3>1. CASE a = r /\ b = k
      <4>1. c = v /\ ~writer[w].success
        BY <2>2, <3>1, <1>5, <1>6 DEF HasVersion
      <4>2. Owes(w, writer[w], a, b, c)
        BY <4>1, <3>1, <1>7 DEF Owes, Coming
      <4> QED
        BY <4>2 DEF Pending
    <3>2. CASE ~(a = r /\ b = k)
      <4>1. HasVersion(a, b, c) /\ ~record[a][b].success
        BY <2>2, <3>2, <1>5 DEF HasVersion
      <4>2. Reposted(a, b, c) => Reposted(a, b, c)'
        <5> SUFFICES ASSUME NEW p \in Replays, Holds(writer[p], a, b, c), writer[p].pc # "post",
                            writer[p].success
                     PROVE  Reposted(a, b, c)'
          BY DEF Reposted
        <5>1. p # w
          BY <3>2, <1>2 DEF Holds
        <5>2. writer'[p] = writer[p]
          BY <5>1, <1>1, <1>4
        <5> QED
          BY <5>2 DEF Reposted, Holds, Working
      <4> QED
        BY <4>1, <4>2, <2>2 DEF Pending
    <3> QED
      BY <3>1, <3>2
  <2> QED
    BY <2>1, <2>2, <1>9 DEF Pending
<1> QED
  BY <1>1, <1>8, <1>9, CountedQuiet DEF Once

LEMMA RecordsStepOnce ==
  ASSUME RecordsInv, RecordsInv', Once, \A p, q \in Replays : p = q, RecordsStep
  PROVE  Once'
<1>1. Resting.pc = "idle" /\ ~Working(Resting)
  BY RestingType DEF Working
<1>2. ASSUME NEW w \in Writers, WriterStep(w) PROVE Once'
  <2>1. CASE WriteFails(w)
    <3>1. writer[w] \in WriterStates /\ Working(writer[w])
      BY <2>1, RecordsState DEF WriteFails, At, Working
    <3>2. PICK s :
            /\ writer' = [writer EXCEPT ![w] = s]
            /\ Working(s) => /\ s.run = writer[w].run /\ s.version = writer[w].version
                             /\ s.kind = writer[w].kind
      <4>1. CASE writer' = [writer EXCEPT ![w] = Resting]
        BY <4>1, <1>1
      <4>2. CASE writer' # [writer EXCEPT ![w] = Resting]
        <5> DEFINE s == [writer[w] EXCEPT !.pc = "open", !.success = w \in Replays]
        <5>1. /\ s.run = writer[w].run /\ s.version = writer[w].version
              /\ s.kind = writer[w].kind
          BY <3>1 DEF WriterStates
        <5>2. writer' = [writer EXCEPT ![w] = s]
          BY <2>1, <4>2 DEF WriteFails
        <5> HIDE DEF s
        <5> QED
          BY <5>1, <5>2
      <4> QED
        BY <4>1, <4>2
    <3>3. \A x \in Writers : writer'[x] = IF x = w THEN s ELSE writer[x]
      BY <3>2, RecordsState
    <3> QED
      BY <2>1, <3>1, <3>2, <3>3, FaultOnce DEF WriteFails, Fault
  <2>2. CASE ~WriteFails(w)
    BY <1>2, <2>2, PostOnce, WriteOnce, FillOnce DEF WriterStep
  <2> QED
    BY <2>1, <2>2
<1>3. ASSUME NEW p \in Replays, ReplayStep(p) PROVE Once'
  <2>1. p \in Writers /\ writer[p] \in WriterStates /\ writer \in [Writers -> WriterStates]
    BY RecordsState DEF Writers
  <2>2. CASE StartReplay(p)
    <3> DEFINE s == [Resting EXCEPT !.pc = "next",
                       !.todo = {f \in Runs \X Kinds : record[f[1]][f[2]] # NoRecord}]
    <3>1. s.pc = "next"
      BY DEF Resting
    <3>2. writer' = [writer EXCEPT ![p] = s] /\ writer[p].pc = "idle"
          /\ UNCHANGED <<executed, record, posts, faults>>
      BY <2>2 DEF StartReplay, At
    <3> HIDE DEF s
    <3> QED
      BY <3>1, <3>2, <2>1, RestingOnce DEF Working
  <2>3. CASE EndReplay(p)
    BY <2>1, <2>3, <1>1, RestingOnce DEF EndReplay, At, Working
  <2>4. CASE Kill(p)
    <3>1. \A x \in Writers : writer'[x] = IF x = p THEN Resting ELSE writer[x]
      BY <2>1, <2>4 DEF Kill
    <3> QED
      BY <3>1, <2>4, <1>1, FaultOnce DEF Kill, Fault
  <2>5. ASSUME NEW r \in Runs, NEW k \in Kinds, ReadNext(p, r, k) PROVE Once'
    BY <2>5, ReadOnce
  <2> QED
    BY <1>3, <2>2, <2>3, <2>4, <2>5 DEF ReplayStep
<1>4. CASE Crash
  <2>1. \A x \in Writers : writer'[x] \in {writer[x], Resting}
    BY <1>4 DEF Crash
  <2> QED
    BY <2>1, <1>1, <1>4, FaultOnce DEF Crash, Fault
<1> QED
  BY <1>2, <1>3, <1>4 DEF RecordsStep

LEMMA TheAgent ==
  ASSUME FlowInv, NEW h \in Handlers, NEW i \in Issues, AgentExecutes(h, i)
  PROVE  \E r \in Runs : i \in Nat /\ Execute(h, r, i)
<1>1. i \in Nat /\ issues[i] \in Runs
  BY FlowAssumption DEF AgentExecutes, FlowInv, AdapterInv, AdapterTypeOK, Issues
<1> QED
  BY <1>1 DEF AgentExecutes

LEMMA OnceInvariance ==
  ASSUME \A p, q \in Replays : p = q
  PROVE  FlowSpec => []Once
<1>1. FlowInit => Once
  <2> SUFFICES ASSUME FlowInit PROVE Once
    OBVIOUS
  <2>1. \A w \in Writers : ~Working(writer[w])
    BY RestingType DEF FlowInit, RecordsInit, Working
  <2>2. \A r \in Runs, k \in Kinds, v \in Versions : posts[r][k][v] = 0 /\ ~HasVersion(r, k, v)
    BY RecordsAssumption DEF FlowInit, RecordsInit, HasVersion
  <2>3. faults = 0
    BY DEF FlowInit, RecordsInit
  <2>4. Distinct
    BY <2>1, <2>2 DEF Distinct, Coming, Holds, Writers
  <2>5. Counted
    BY <2>2, <2>3 DEF Counted
  <2> QED
    BY <2>4, <2>5 DEF Once
<1>2. FlowInv /\ FlowInv' /\ Once /\ [FlowNext]_flowVars => Once'
  <2> SUFFICES ASSUME FlowInv, FlowInv', Once, [FlowNext]_flowVars PROVE Once'
    OBVIOUS
  <2>1. RecordsInv /\ RecordsInv'
    BY DEF FlowInv
  <2>2. CASE UNCHANGED recordsVars
    BY <2>2 DEF recordsVars, Once, Distinct, Counted, Pending, Reposted, HasVersion, Owes, Coming,
               Holds, Working
  <2>3. ASSUME NEW h \in Handlers, NEW i \in Issues, AgentExecutes(h, i) PROVE Once'
    BY <2>1, <2>3, TheAgent, ExecuteOnce
  <2>4. CASE RecordsStep
    BY <2>1, <2>4, RecordsStepOnce
  <2> QED
    BY <2>2, <2>3, <2>4 DEF FlowNext, flowVars
<1> QED
  BY <1>1, <1>2, FlowInvariance, PTL DEF FlowSpec

\* While one replay runs at a time nothing is posted more than once, but for faults
\* (retry_postbacks.py:26, 38-43).
THEOREM RepetitionNeedsAFaultHolds ==
  ASSUME \A p, q \in Replays : p = q
  PROVE  FlowSpec => []RepetitionNeedsAFault
<1>1. Once => RepetitionNeedsAFault
  BY DEF Once, Counted, RepetitionNeedsAFault
<1> QED
  BY <1>1, OnceInvariance, PTL

-----------------------------------------------------------------------------
(* A task that is executed once.                                           *)

Delivered(s) == IF s.pc # "post" /\ s.success THEN 1 ELSE 0

\* The one writer at a postback knows whether it has arrived, and finds the file as
\* it left it.
Attended(r, k) == \E w \in Writers :
  /\ Holds(writer[w], r, k, 1)
  /\ posts[r][k][1] = Delivered(writer[w])
  /\ writer[w].pc = "fill" => record[r][k] = Torn

\* The handler is still at the comment.
Awaited(r, k) == /\ k = "dashboard" /\ posts[r][k][1] = 0
                 /\ \E h \in Handlers : Holds(writer[h], r, "comment", 1)

\* Nobody is at a postback, and its record tells whether it has arrived.
Settled(r, k) == /\ record[r][k] \in Record
                 /\ posts[r][k][1] = (IF record[r][k].success THEN 1 ELSE 0)
                 /\ \A w \in Writers : ~Holds(writer[w], r, k, 1)

Accounted(r, k) == Attended(r, k) \/ Awaited(r, k) \/ Settled(r, k)

AllAccounted == \A r \in Runs, k \in Kinds :
  faults = 0 /\ Len(executed[r]) = 1 => Accounted(r, k)

\* A task that is executed once has one version.
LEMMA OneVersion ==
  ASSUME RecordsInv, Once, NEW r \in Runs, Len(executed[r]) = 1
  PROVE  /\ \A w \in Writers : \A k, v : Holds(writer[w], r, k, v) => v = 1 /\ 1 \in Versions
         /\ \A k \in Kinds : record[r][k] \in Record => HasVersion(r, k, 1) /\ 1 \in Versions
<1>1. \A n \in Versions : n \in Nat /\ n >= 1
  BY RecordsAssumption DEF Versions
<1>2. ASSUME NEW w \in Writers, NEW k, NEW v, Holds(writer[w], r, k, v)
      PROVE  v = 1 /\ 1 \in Versions
  <2>1. v \in Versions /\ writer[w].version = v /\ writer[w].run = r /\ Working(writer[w])
    BY <1>2, HoldsTyped DEF Holds
  <2>2. v <= 1
    BY <2>1 DEF Once, Distinct
  <2> QED
    BY <2>1, <2>2, <1>1
<1>3. ASSUME NEW k \in Kinds, record[r][k] \in Record
      PROVE  HasVersion(r, k, 1) /\ 1 \in Versions
  <2>1. PICK v \in Versions : record[r][k].version = v
    BY <1>3 DEF Record
  <2>2. HasVersion(r, k, v)
    BY <2>1, <1>3 DEF HasVersion
  <2>3. ~(v > 1)
    BY <2>2 DEF Once, Distinct
  <2>4. v = 1
    BY <2>3, <2>1, <1>1
  <2> QED
    BY <2>1, <2>2, <2>4
<1> QED
  BY <1>2, <1>3

\* Who is at a postback is alone with it, and alone to come to it.
LEMMA SoleWriter ==
  ASSUME RecordsInv, Once, \A p, q \in Replays : p = q, NEW r \in Runs, NEW k \in Kinds,
         Len(executed[r]) = 1, NEW w \in Writers, Holds(writer[w], r, k, 1)
  PROVE  /\ \A x \in Writers : Holds(writer[x], r, k, 1) => x = w
         /\ ~Awaited(r, k)
         /\ Accounted(r, k) => /\ posts[r][k][1] = Delivered(writer[w])
                               /\ writer[w].pc = "fill" => record[r][k] = Torn
<1>1. /\ 1 \in Versions /\ Writers = Handlers \cup Replays /\ Handlers \cap Replays = {}
      /\ "dashboard" \in Kinds /\ "comment" # "dashboard"
  BY OneVersion, RecordsAssumption DEF Writers, Kinds
<1>2. ASSUME NEW x \in Writers, Holds(writer[x], r, k, 1) PROVE x = w
  BY <1>1, <1>2 DEF Once, Distinct, Coming, Holds
<1>3. ASSUME Awaited(r, k) PROVE FALSE
  BY <1>1, <1>3 DEF Awaited, Once, Distinct, Coming, Holds
<1> QED
  BY <1>2, <1>3 DEF Accounted, Attended, Settled

\* Steps of a writer elsewhere.
LEMMA AccountedApart ==
  ASSUME NEW r \in Runs, NEW k \in Kinds, Accounted(r, k), NEW w \in Writers, NEW s,
         \A x \in Writers : writer'[x] = IF x = w THEN s ELSE writer[x],
         record'[r][k] = record[r][k], posts'[r][k][1] = posts[r][k][1],
         ~Holds(writer[w], r, k, 1), ~Holds(s, r, k, 1),
         k = "dashboard" /\ w \in Handlers /\ Holds(writer[w], r, "comment", 1)
           => Holds(s, r, "comment", 1)
  PROVE  Accounted(r, k)'
<1>1. Handlers \subseteq Writers
  BY DEF Writers
<1>2. Attended(r, k) => Attended(r, k)'
  BY DEF Attended, Holds, Delivered, Working
<1>3. Awaited(r, k) => Awaited(r, k)'
  BY <1>1 DEF Awaited, Holds, Working
<1>4. Settled(r, k) => Settled(r, k)'
  BY DEF Settled, Holds, Working
<1> QED
  BY <1>2, <1>3, <1>4 DEF Accounted
\* A writer that posts, or opens its file.
LEMMA AccountedWrite ==
  ASSUME RecordsInv, Once, \A p, q \in Replays : p = q, NEW r \in Runs, NEW k \in Kinds,
         Len(executed[r]) = 1, Accounted(r, k), faults' = 0, faults \in Nat,
         NEW w \in Writers, Post(w) \/ PostFails(w) \/ Open(w)
  PROVE  Accounted(r, k)'
<1>1. /\ writer[w] \in WriterStates /\ Working(writer[w]) /\ posts \in PostCounts
      /\ record \in [Runs -> [Kinds -> Texts]]
      /\ writer[w].run \in Runs /\ writer[w].kind \in Kinds /\ writer[w].version \in Versions
  BY RecordsState, HoldsTyped DEF Post, PostFails, Open, At, Working
<1>2. PICK s :
        /\ writer' = [writer EXCEPT ![w] = s]
        /\ Working(s) /\ s.run = writer[w].run /\ s.kind = writer[w].kind
        /\ s.version = writer[w].version
        /\ Post(w) => s.pc = "open" /\ s.success
        /\ PostFails(w) => s.pc = "open" /\ ~s.success
        /\ Open(w) => s.pc = "fill" /\ s.success = writer[w].success
  <2>1. ASSUME NEW pc \in {"open", "fill"}, NEW b \in BOOLEAN
        PROVE  LET s == [writer[w] EXCEPT !.pc = pc, !.success = b] IN
                 /\ Working(s) /\ s.run = writer[w].run /\ s.kind = writer[w].kind
                 /\ s.version = writer[w].version /\ s.pc = pc /\ s.success = b
    BY <1>1 DEF WriterStates, Working
  <2>2. CASE Post(w)
    <3>1. ~Fault
      BY DEF Fault
    <3>2. Posted(w, TRUE)
      BY <2>2, <3>1 DEF Post
    <3>3. writer' = [writer EXCEPT ![w] = [writer[w] EXCEPT !.pc = "open", !.success = TRUE]]
      BY <3>2 DEF Posted
    <3>4. posts' # posts /\ writer[w].pc = "post"
      <4>1. posts[writer[w].run][writer[w].kind][writer[w].version] \in Nat
        BY <1>1 DEF PostCounts
      <4> QED
        BY <4>1, <2>2, <1>1 DEF Post, At, PostCounts
    <3>5. ~PostFails(w) /\ ~Open(w)
      BY <3>4 DEF PostFails, Open, At
    <3> QED
      BY <3>3, <3>5, <2>1
  <2>3. CASE PostFails(w)
    <3>1. writer' = [writer EXCEPT ![w] = [writer[w] EXCEPT !.pc = "open", !.success = FALSE]]
      BY <2>3 DEF PostFails, Posted, Excepted
    <3>2. ~Post(w) /\ ~Open(w)
      <4>1. posts' = posts /\ writer[w].pc = "post"
        BY <2>3 DEF PostFails, At
      <4>2. ~Open(w)
        BY <4>1 DEF Open, At
      <4>3. ~Post(w)
        <5>1. posts[writer[w].run][writer[w].kind][writer[w].version] \in Nat
          BY <1>1 DEF PostCounts
        <5>2. posts # [posts EXCEPT ![writer[w].run][writer[w].kind][writer[w].version] = @ + 1]
          BY <5>1, <1>1 DEF PostCounts
        <5> QED
          BY <4>1, <5>2 DEF Post
      <4> QED
        BY <4>2, <4>3
    <3> QED
      BY <3>1, <3>2, <2>1
  <2>4. CASE Open(w)
    <3>1. writer' = [writer EXCEPT ![w] = [writer[w] EXCEPT !.pc = "fill", !.success = writer[w].success]]
      BY <2>4, <1>1 DEF Open, WriterStates
    <3> QED
      BY <3>1, <2>1, <2>4, <1>1 DEF Open, Post, PostFails, At, WriterStates
  <2> QED
    BY <2>2, <2>3, <2>4
<1>3. \A x \in Writers : writer'[x] = IF x = w THEN s ELSE writer[x]
  BY <1>2, RecordsState
<1>4. CASE Holds(writer[w], r, k, 1)
  <2>1. posts[r][k][1] = Delivered(writer[w]) /\ 1 \in Versions
    BY <1>4, SoleWriter, OneVersion
  <2>2. Holds(s, r, k, 1)
    BY <1>2, <1>4 DEF Holds
  <2>3. posts'[r][k][1] = Delivered(s) /\ (s.pc = "fill" => record'[r][k] = Torn)
    <3>1. CASE Post(w)
      <4>1. posts[r][k][1] = 0 /\ posts' = [posts EXCEPT ![r][k][1] = @ + 1]
        BY <3>1, <2>1, <1>4 DEF Post, At, Delivered, Holds
      <4> QED
        BY <4>1, <3>1, <2>1, <1>1, <1>2 DEF PostCounts, Delivered
    <3>2. CASE PostFails(w)
      BY <3>2, <2>1, <1>2 DEF PostFails, At, Delivered
    <3>3. CASE Open(w)
      <4>1. record'[r][k] = Torn
        BY <3>3, <1>1, <1>4 DEF Open, Put, Holds
      <4> QED
        BY <4>1, <3>3, <2>1, <1>2 DEF Open, At, Delivered
    <3> QED
      BY <3>1, <3>2, <3>3
  <2>4. Attended(r, k)'
    BY <2>2, <2>3, <1>3 DEF Attended, Holds, Working, Delivered
  <2> QED
    BY <2>4 DEF Accounted
<1>5. CASE ~Holds(writer[w], r, k, 1)
  <2>1. ~(writer[w].run = r /\ writer[w].kind = k)
    BY <1>1, <1>5, OneVersion DEF Holds
  <2>2. record'[r][k] = record[r][k] /\ posts'[r][k][1] = posts[r][k][1]
    <3>1. record' = record \/ Put(w, Torn)
      BY DEF Post, PostFails, Open
    <3>2. \/ posts' = posts
          \/ posts' = [posts EXCEPT ![writer[w].run][writer[w].kind][writer[w].version] = @ + 1]
      BY DEF Post, PostFails, Open
    <3> QED
      BY <3>1, <3>2, <2>1, <1>1 DEF Put, PostCounts
  <2>3. ~Holds(s, r, k, 1) /\ (Holds(writer[w], r, "comment", 1) => Holds(s, r, "comment", 1))
    BY <2>1, <1>2 DEF Holds
  <2> QED
    BY <2>2, <2>3, <1>3, <1>5, AccountedApart
<1> QED
  BY <1>4, <1>5

\* A writer that fills its file is done with it.
LEMMA AccountedFill ==
  ASSUME RecordsInv, Once, \A p, q \in Replays : p = q, NEW r \in Runs, NEW k \in Kinds,
         Len(executed[r]) = 1, Accounted(r, k), NEW w \in Writers, Fill(w)
  PROVE  Accounted(r, k)'
<1>1. /\ writer[w] \in WriterStates /\ Working(writer[w]) /\ writer[w].pc = "fill"
      /\ record \in [Runs -> [Kinds -> Texts]] /\ posts' = posts
      /\ writer[w].run \in Runs /\ writer[w].kind \in Kinds /\ writer[w].version \in Versions
  BY RecordsState, HoldsTyped DEF Fill, At, Working
<1>2. PICK s :
        /\ writer' = [writer EXCEPT ![w] = s]
        /\ IF w \in Handlers /\ writer[w].kind = "comment"
           THEN /\ s.pc = "post" /\ s.run = writer[w].run /\ s.kind = "dashboard"
                /\ s.version = writer[w].version
           ELSE ~Working(s)
  <2>1. CASE w \in Handlers /\ writer[w].kind = "comment"
    <3> DEFINE s == [writer[w] EXCEPT !.pc = "post", !.kind = "dashboard", !.success = FALSE]
    <3>1. /\ s.pc = "post" /\ s.run = writer[w].run /\ s.kind = "dashboard"
          /\ s.version = writer[w].version
      BY <1>1 DEF WriterStates
    <3>2. writer' = [writer EXCEPT ![w] = s]
      BY <2>1, RecordsAssumption DEF Fill, After
    <3> HIDE DEF s
    <3> QED
      BY <3>1, <3>2, <2>1
  <2>2. CASE ~(w \in Handlers /\ writer[w].kind = "comment")
    <3>1. After(w).pc \in {"next", "idle"}
      <4>1. Resting.pc = "idle"
        BY RestingType
      <4>2. [Resting EXCEPT !.pc = "next", !.todo = writer[w].todo].pc = "next"
        BY DEF Resting
      <4>3. w \in Replays \/ writer[w].kind # "comment"
        BY <2>2 DEF Writers
      <4> QED
        BY <4>1, <4>2, <4>3 DEF After
    <3> QED
      BY <3>1, <2>2 DEF Fill, Working
  <2> QED
    BY <2>1, <2>2
<1>3. \A x \in Writers : writer'[x] = IF x = w THEN s ELSE writer[x]
  BY <1>2, RecordsState
<1> DEFINE text == [version |-> writer[w].version, success |-> writer[w].success]
<1>4. CASE Holds(writer[w], r, k, 1)
  <2>1. record[r][k] = Torn /\ posts[r][k][1] = Delivered(writer[w])
    BY <1>1, <1>4, SoleWriter
  <2>2. record'[r][k] = text
    BY <2>1, <1>1, <1>4 DEF Fill, FileOf, Put, Holds
  <2>3. text \in Record /\ text.success = writer[w].success
    BY <1>1 DEF Record, WriterStates
  <2> HIDE DEF text
  <2>4. posts'[r][k][1] = IF record'[r][k].success THEN 1 ELSE 0
    BY <2>1, <2>2, <2>3, <1>1 DEF Delivered
  <2>5. ~Holds(s, r, k, 1)
    BY <1>2, <1>4 DEF Holds
  <2>6. \A x \in Writers : ~Holds(writer'[x], r, k, 1)
    BY <2>5, <1>3, <1>4, SoleWriter
  <2>7. Settled(r, k)'
    BY <2>2, <2>3, <2>4, <2>6 DEF Settled, Holds, Working
  <2> QED
    BY <2>7 DEF Accounted
<1>5. CASE ~Holds(writer[w], r, k, 1)
  <2>1. ~(writer[w].run = r /\ writer[w].kind = k)
    BY <1>1, <1>5, OneVersion DEF Holds
  <2>2. record'[r][k] = record[r][k] /\ posts'[r][k][1] = posts[r][k][1]
    <3>1. Put(w, text) \/ Put(w, Torn)
      BY DEF Fill
    <3> HIDE DEF text
    <3> QED
      BY <3>1, <2>1, <1>1 DEF Put
  <2>3. CASE w \in Handlers /\ writer[w].run = r
    <3>1. writer[w].kind = "comment" => Holds(writer[w], r, "comment", 1)
      BY <2>3, <1>1, OneVersion DEF Holds
    <3>2. CASE k = "dashboard"
      <4>1. Holds(writer[w], r, "comment", 1) /\ writer[w].version = 1
        BY <3>1, <3>2, <2>1, <2>3, <1>1 DEF Kinds, Holds
      <4>2. posts[r][k][1] = 0
        <5>1. 1 \in Versions /\ Coming(writer[w], r, k, 1) /\ Writers = Handlers \cup Replays
          BY <4>1, <3>2, OneVersion DEF Coming, Writers
        <5>2. ~HasVersion(r, k, 1) /\ \A p \in Replays : ~Holds(writer[p], r, k, 1)
          BY <5>1, <2>3 DEF Once, Distinct
        <5>3. \A h \in Handlers : ~Holds(writer[h], r, k, 1)
          BY <5>1, <4>1, <2>3, <1>5 DEF Once, Distinct, Holds
        <5> QED
          BY <5>1, <5>2, <5>3, OneVersion DEF Accounted, Attended, Awaited, Settled
      <4>3. Holds(s, r, k, 1) /\ Delivered(s) = 0 /\ s.pc # "fill"
        BY <4>1, <3>2, <2>3, <1>2 DEF Holds, Working, Delivered
      <4>4. Attended(r, k)'
        BY <4>2, <4>3, <2>2, <1>3 DEF Attended, Holds, Working, Delivered
      <4> QED
        BY <4>4 DEF Accounted
    <3>3. CASE k # "dashboard"
      <4>1. ~Holds(s, r, k, 1)
        BY <3>3, <1>2 DEF Holds
      <4> QED
        BY <4>1, <3>3, <2>2, <1>3, <1>5, AccountedApart
    <3> QED
      BY <3>2, <3>3
  <2>4. CASE ~(w \in Handlers /\ writer[w].run = r)
    <3>1. ~Holds(s, r, k, 1) /\ ~(w \in Handlers /\ Holds(writer[w], r, "comment", 1))
      BY <2>4, <1>2 DEF Holds
    <3> QED
      BY <3>1, <2>2, <1>3, <1>5, AccountedApart
  <2> QED
    BY <2>3, <2>4
<1> QED
  BY <1>4, <1>5

\* A replay reads what nobody is at.
LEMMA AccountedRead ==
  ASSUME RecordsInv, Once, \A p, q \in Replays : p = q, NEW r \in Runs, NEW k \in Kinds,
         Len(executed[r]) = 1, Accounted(r, k), NEW p \in Replays,
         NEW a \in Runs, NEW b \in Kinds, ReadNext(p, a, b)
  PROVE  Accounted(r, k)'
<1>1. /\ p \in Writers /\ writer[p] \in WriterStates /\ ~Working(writer[p])
      /\ UNCHANGED <<record, posts>> /\ Writers = Handlers \cup Replays
  BY RecordsState DEF Writers, ReadNext, At, Working
<1>2. PICK s :
        /\ writer' = [writer EXCEPT ![p] = s]
        /\ \/ ~Working(s)
           \/ /\ Retryable(record[a][b]) /\ s.pc = "post"
              /\ s.run = a /\ s.kind = b /\ s.version = record[a][b].version
  <2>1. CASE Retryable(record[a][b])
    <3> DEFINE s == [pc |-> "post", run |-> a, kind |-> b, version |-> record[a][b].version,
                     success |-> FALSE, todo |-> writer[p].todo \ {<<a, b>>}]
    <3>1. s.pc = "post" /\ s.run = a /\ s.kind = b /\ s.version = record[a][b].version
      OBVIOUS
    <3>2. writer' = [writer EXCEPT ![p] = s]
      BY <2>1 DEF ReadNext
    <3> HIDE DEF s
    <3> QED
      BY <3>1, <3>2, <2>1
  <2>2. CASE ~Retryable(record[a][b])
    <3> DEFINE s == [writer[p] EXCEPT !.todo = @ \ {<<a, b>>}]
    <3>1. s.pc = writer[p].pc
      BY <1>1 DEF WriterStates
    <3>2. writer' = [writer EXCEPT ![p] = s]
      BY <2>2 DEF ReadNext
    <3> HIDE DEF s
    <3> QED
      BY <3>1, <3>2, <1>1 DEF Working
  <2> QED
    BY <2>1, <2>2
<1>3. \A x \in Writers : writer'[x] = IF x = p THEN s ELSE writer[x]
  BY <1>1, <1>2, RecordsState
<1>4. CASE Holds(s, r, k, 1)
  <2>1. a = r /\ b = k /\ Retryable(record[r][k]) /\ s.pc = "post"
    BY <1>2, <1>4 DEF Holds
  <2>2. HasVersion(r, k, 1) /\ 1 \in Versions /\ ~record[r][k].success
    BY <2>1, OneVersion DEF Retryable
  <2>3. \A h \in Handlers : ~Coming(writer[h], r, k, 1)
    BY <2>2 DEF Once, Distinct
  <2>4. \A q \in Replays : ~Holds(writer[q], r, k, 1)
    BY <1>1 DEF Holds
  <2>5. posts[r][k][1] = 0
    BY <2>2, <2>3, <2>4, <1>1 DEF Accounted, Attended, Awaited, Settled, Coming
  <2>6. posts'[r][k][1] = Delivered(s) /\ s.pc # "fill"
    BY <2>1, <2>5, <1>1 DEF Delivered
  <2>7. Attended(r, k)'
    BY <2>6, <1>1, <1>3, <1>4 DEF Attended, Holds, Working, Delivered
  <2> QED
    BY <2>7 DEF Accounted
<1>5. CASE ~Holds(s, r, k, 1)
  BY <1>1, <1>3, <1>5, AccountedApart DEF Holds
<1> QED
  BY <1>4, <1>5

\* The first execution of a task finds nothing of it.
LEMMA AccountedExecute ==
  ASSUME RecordsInv, Once, \A p, q \in Replays : p = q, NEW r \in Runs, NEW k \in Kinds,
         Len(executed'[r]) = 1, Len(executed[r]) = 1 => Accounted(r, k),
         NEW h \in Handlers, NEW a \in Runs, NEW i \in Nat, Execute(h, a, i)
  PROVE  Accounted(r, k)'
<1>1. /\ h \in Writers /\ executed \in [Runs -> Seq(Nat)] /\ ~Working(writer[h])
      /\ UNCHANGED <<record, posts>> /\ Len(executed[a]) \in Nat
  BY RecordsState DEF Writers, Execute, At, Working
<1> DEFINE s == [Resting EXCEPT !.pc = "post", !.run = a, !.version = Len(executed[a]) + 1]
<1>2. s.pc = "post" /\ s.run = a /\ s.version = Len(executed[a]) + 1 /\ s.kind = "comment"
  BY DEF Resting
<1>3. writer' = [writer EXCEPT ![h] = s]
  BY DEF Execute
<1> HIDE DEF s
<1>4. \A x \in Writers : writer'[x] = IF x = h THEN s ELSE writer[x]
  BY <1>3, RecordsState
<1>5. CASE a = r
  <2>1. Len(executed[r]) = 0 /\ 1 \in Versions
    <3>1. Len(executed'[r]) = Len(executed[r]) + 1
      BY <1>1, <1>5 DEF Execute
    <3> QED
      BY <3>1, <1>1, <1>5, RecordsAssumption DEF Execute, Versions
  <2>2. posts[r][k][1] = 0
    BY <2>1 DEF Once, Distinct
  <2>3. Holds(s, r, "comment", 1) /\ Delivered(s) = 0 /\ s.pc # "fill"
    BY <2>1, <1>2, <1>5 DEF Holds, Working, Delivered
  <2>4. CASE k = "comment"
    <3>1. Attended(r, k)'
      BY <2>2, <2>3, <2>4, <1>1, <1>4 DEF Attended, Holds, Working, Delivered
    <3> QED
      BY <3>1 DEF Accounted
  <2>5. CASE k = "dashboard"
    <3>1. Awaited(r, k)'
      BY <2>2, <2>3, <2>5, <1>1, <1>4 DEF Awaited, Holds, Working
    <3> QED
      BY <3>1 DEF Accounted
  <2> QED
    BY <2>4, <2>5 DEF Kinds
<1>6. CASE a # r
  <2>1. Accounted(r, k)
    BY <1>1, <1>6 DEF Execute
  <2>2. ~Holds(s, r, k, 1) /\ ~Holds(writer[h], r, k, 1) /\ ~Holds(writer[h], r, "comment", 1)
    BY <1>1, <1>2, <1>6 DEF Holds
  <2> QED
    BY <2>1, <2>2, <1>1, <1>4, AccountedApart
<1> QED
  BY <1>5, <1>6

\* A replay that starts or ends.
LEMMA AccountedRest ==
  ASSUME RecordsInv, NEW r \in Runs, NEW k \in Kinds, Accounted(r, k), NEW p \in Replays,
         StartReplay(p) \/ EndReplay(p)
  PROVE  Accounted(r, k)'
<1>1. p \in Writers /\ ~Working(writer[p]) /\ UNCHANGED <<record, posts>>
  BY DEF Writers, StartReplay, EndReplay, At, Working
<1>2. PICK s : writer' = [writer EXCEPT ![p] = s] /\ ~Working(s)
  <2>1. ~Working(Resting)
    BY RestingType DEF Working
  <2>2. ~Working([Resting EXCEPT !.pc = "next",
                    !.todo = {f \in Runs \X Kinds : record[f[1]][f[2]] # NoRecord}])
    BY DEF Resting, Working
  <2> QED
    BY <2>1, <2>2 DEF StartReplay, EndReplay
<1>3. \A x \in Writers : writer'[x] = IF x = p THEN s ELSE writer[x]
  BY <1>1, <1>2, RecordsState
<1> QED
  BY <1>1, <1>2, <1>3, AccountedApart DEF Holds

LEMMA AccountedStep ==
  ASSUME FlowInv, Once, \A p, q \in Replays : p = q, AllAccounted, [FlowNext]_flowVars
  PROVE  AllAccounted'
<1>1. RecordsInv /\ faults \in Nat
  BY RecordsAssumption DEF FlowInv, RecordsInv, RecordsTypeOK
<1> SUFFICES ASSUME NEW r \in Runs, NEW k \in Kinds, faults' = 0, Len(executed'[r]) = 1
             PROVE  Accounted(r, k)'
  BY DEF AllAccounted, Accounted, Attended, Awaited, Settled, Holds, Working, Delivered
<1>2. ~Fault
  BY <1>1 DEF Fault
<1>3. ASSUME NEW h \in Handlers, NEW i \in Issues, AgentExecutes(h, i) PROVE Accounted(r, k)'
  <2>1. PICK a \in Runs : i \in Nat /\ Execute(h, a, i)
    BY <1>3, TheAgent
  <2>2. Len(executed[r]) = 1 => Accounted(r, k)
    BY <2>1 DEF Execute, AllAccounted
  <2> QED
    BY <2>1, <2>2, <1>1, AccountedExecute
<1>4. ASSUME executed' = executed, faults' = faults PROVE Accounted(r, k) /\ Len(executed[r]) = 1
  BY <1>4 DEF AllAccounted
<1>5. CASE RecordsStep
  <2>1. executed' = executed /\ faults' = faults
    BY <1>2, <1>5 DEF RecordsStep, WriterStep, ReplayStep, Crash, Post, PostFails, Open, Fill,
                      WriteFails, StartReplay, EndReplay, Kill, ReadNext
  <2>2. Accounted(r, k) /\ Len(executed[r]) = 1
    BY <2>1, <1>4
  <2>3. ASSUME NEW w \in Writers, WriterStep(w) PROVE Accounted(r, k)'
    <3>1. ~WriteFails(w)
      BY <1>2 DEF WriteFails
    <3> QED
      BY <3>1, <2>2, <2>3, <1>1, AccountedWrite, AccountedFill DEF WriterStep
  <2>4. ASSUME NEW p \in Replays, ReplayStep(p) PROVE Accounted(r, k)'
    <3>1. ~Kill(p)
      BY <1>2 DEF Kill
    <3> QED
      BY <3>1, <2>2, <2>4, <1>1, AccountedRead, AccountedRest DEF ReplayStep
  <2>5. ~Crash
    BY <1>2 DEF Crash
  <2> QED
    BY <2>3, <2>4, <2>5, <1>5 DEF RecordsStep
<1>6. CASE UNCHANGED recordsVars
  <2>1. Accounted(r, k)
    BY <1>4, <1>6 DEF recordsVars
  <2> QED
    BY <2>1, <1>6 DEF recordsVars, Accounted, Attended, Awaited, Settled, Holds, Working, Delivered
<1> QED
  BY <1>3, <1>5, <1>6 DEF FlowNext, flowVars

\* Of a task that was executed once, and with no fault so far, each postback has
\* arrived and is recorded so, or is recorded to be posted again, with a replay at
\* any moment (hermes/app.py:213-287, retry_postbacks.py:24-52).
THEOREM PostbackIsAccountedForHolds ==
  ASSUME \A p, q \in Replays : p = q
  PROVE  FlowSpec => []PostbackIsAccountedFor
<1>1. FlowInit => AllAccounted
  BY DEF FlowInit, RecordsInit, AllAccounted
<1>2. FlowInv /\ Once /\ AllAccounted /\ [FlowNext]_flowVars => AllAccounted'
  BY AccountedStep
<1>3. AllAccounted => PostbackIsAccountedFor
  <2> SUFFICES ASSUME AllAccounted, NEW r \in Runs, NEW k \in Kinds,
                      faults = 0, Len(executed[r]) = 1, ~Busy(r)
               PROVE  /\ record[r][k] \in Record
                      /\ posts[r][k][1] = (IF record[r][k].success THEN 1 ELSE 0)
    BY DEF PostbackIsAccountedFor
  <2>1. \A w \in Writers : \A b, v : ~Holds(writer[w], r, b, v)
    BY DEF Busy, Holds
  <2>2. Handlers \subseteq Writers
    BY DEF Writers
  <2> QED
    BY <2>1, <2>2 DEF AllAccounted, Accounted, Attended, Awaited, Settled
<1> QED
  BY <1>1, <1>2, <1>3, FlowInvariance, OnceInvariance, PTL DEF FlowSpec
=============================================================================
