---------------------------- MODULE HermesProofs ----------------------------
(***************************************************************************)
(* The properties of HermesProperties that hold, for every set of tasks,   *)
(* threads and files and every request.                                    *)
(***************************************************************************)
EXTENDS HermesProperties, TLAPS

Writing == {"inspect", "open", "fill"}

\* The request t gets past the screening when the memory service answers.
Passes(t) == Screen(Request[t], FALSE) = "none"

\* A thread is inside the changes of a request that passed, and writes to a
\* file of the workspace.
PlaceOK == \A w \in Workers :
  /\ worker[w].pc \in Writing =>
       /\ Passes(worker[w].task)
       /\ Req(w).type \in Writers
       /\ worker[w].index \in 1..Len(Req(w).changes)
       /\ worker[w].verdict = "none"
  /\ worker[w].pc \in {"open", "fill"} => Target(w) \in Paths

\* Who has touched the workspace passes, who is denied does not.
DenialOK ==
  /\ \A t \in touched : Passes(t)
  /\ \A t \in Tasks : runs[t] \in Denials => ~Passes(t)
  /\ \A w \in Workers : worker[w].pc # "idle" /\ worker[w].verdict \in Denials
                          => ~Passes(worker[w].task)

\* The file that change i of task t names, and what it is to hold.
FileOf(t, i) == File(Request[t], Request[t].changes[i])
ContentOf(t, i) == Request[t].changes[i].content

\* The first n changes of t, made by the execution x, are in their files, but for
\* those that a later one has replaced, that another has written over, and those
\* in the files of Q.
Kept(x, t, n, Q) == \A i \in 1..n :
  (\A j \in i + 1..n : FileOf(t, j) # FileOf(t, i)) =>
    /\ FileOf(t, i) \in Paths
    /\ \/ FileOf(t, i) \in Q
       \/ x \in meddled[FileOf(t, i)]
       \/ files[FileOf(t, i)] = ContentOf(t, i)

AllKept(x, t) == Request[t].type \in Writers => Kept(x, t, Len(Request[t].changes), {})

\* What thread w has kept when its state is s: the changes before the current one;
\* a file that it has truncated is empty; whoever is about to report success has
\* made all changes.
ThreadKept(w, s) ==
  /\ s.pc \in {"inspect", "open"} => Kept(w, s.task, s.index - 1, {})
  /\ s.pc = "fill" => LET p == FileOf(s.task, s.index)
                     IN /\ p \in Paths /\ Kept(w, s.task, s.index - 1, {p})
                        /\ w \in meddled[p] \/ files[p] = Empty
  /\ s.pc = "limits" \/ (s.pc # "idle" /\ s.verdict = "succeeded") => AllKept(w, s.task)

ThreadsKept == \A w \in Workers : ThreadKept(w, worker[w])
TasksKept == \A t \in Tasks : runs[t] = "succeeded" => AllKept(t, t)

\* What the task t wrote last is what it asked for.
Provenance ==
  \A p \in Paths : author[p] \in Tasks => files[p] \in Asked(author[p], p)

IInv == TypeOK /\ PlaceOK /\ DenialOK /\ ThreadsKept /\ TasksKept /\ Provenance

\* Screening does not depend on the memory service, except that it may fail the
\* execution.
LEMMA ScreenVerdict ==
  ASSUME NEW r \in TaskRequest, NEW m \in BOOLEAN
  PROVE  /\ Screen(r, m) \in Verdicts \cup {"none"}
         /\ Screen(r, m) # "succeeded"
         /\ Screen(r, m) = "none" => Screen(r, FALSE) = "none"
         /\ Screen(r, m) \in Denials => Screen(r, FALSE) # "none"
  BY DEF Screen, ShellVerdict, Unsafe, NeedsNetwork, Verdicts, Denials, Writers

\* A request that passes and writes has changes, all inside the workspace.
LEMMA PassesInBoundary ==
  ASSUME NEW t \in Tasks, Passes(t), Request[t].type \in Writers
  PROVE  InBoundary(Request[t]) /\ Len(Request[t].changes) \in Nat \ {0}
<1>1. Request[t] \in TaskRequest
  BY ExecutorAssumption
<1>2. InBoundary(Request[t]) /\ Request[t].changes # <<>>
  BY DEF Passes, Screen, ShellVerdict, Unsafe, NeedsNetwork, Writers
<1>3. Request[t].changes \in Seq(Change)
  BY <1>1 DEF TaskRequest
<1> QED
  BY <1>2, <1>3

\* The change a thread is at, and the file it names.
LEMMA CurrentChange ==
  ASSUME TypeOK, PlaceOK, NEW w \in Workers, worker[w].pc \in Writing
  PROVE  /\ worker[w].task \in Tasks
         /\ Current(w) \in Change
         /\ Current(w) = Request[worker[w].task].changes[worker[w].index]
         /\ Target(w) = File(Request[worker[w].task], Request[worker[w].task].changes[worker[w].index])
         /\ Target(w) \in Paths \cup {NoPath}
<1>1. worker[w].task \in Tasks
  BY DEF TypeOK, At, Writing
<1>2. Request[worker[w].task] \in TaskRequest
  BY <1>1, ExecutorAssumption
<1>3. Req(w).changes \in Seq(Change) /\ worker[w].index \in 1..Len(Req(w).changes)
  BY <1>2 DEF PlaceOK, Req, TaskRequest
<1>4. Current(w) \in Change
  BY <1>3 DEF Current
<1>5. InBoundary(Req(w))
  BY <1>1, PassesInBoundary DEF PlaceOK, Req
<1>6. Screened(Req(w), Current(w)) \in Paths
  BY <1>5, <1>3 DEF InBoundary, Current
<1> QED
  BY <1>1, <1>4, <1>6 DEF Screened, Target, Current, Req

-----------------------------------------------------------------------------
(* What is kept is not lost by the steps of others.                        *)

\* A step leaves execution x every file as it was, or counts it as written over.
Spared(x) == \A p \in Paths :
  \/ x \in meddled'[p]
  \/ x \notin meddled[p] /\ files'[p] = files[p]

LEMMA KeptStays ==
  ASSUME NEW x, NEW t, NEW n, NEW Q, Kept(x, t, n, Q), Spared(x)
  PROVE  Kept(x, t, n, Q)'
  BY DEF Kept, Spared

LEMMA AllKeptStays ==
  ASSUME NEW x, NEW t, AllKept(x, t), Spared(x)
  PROVE  AllKept(x, t)'
  BY KeptStays DEF AllKept

LEMMA ThreadStays ==
  ASSUME NEW w, NEW s, ThreadKept(w, s), Spared(w)
  PROVE  ThreadKept(w, s)'
<1>1. s.pc \in {"inspect", "open"} => Kept(w, s.task, s.index - 1, {})'
  BY KeptStays DEF ThreadKept
<1>2. ASSUME s.pc = "fill"
      PROVE  LET p == FileOf(s.task, s.index)
             IN /\ p \in Paths /\ Kept(w, s.task, s.index - 1, {p})'
                /\ w \in meddled'[p] \/ files'[p] = Empty
  <2> DEFINE p == FileOf(s.task, s.index)
  <2>1. p \in Paths /\ Kept(w, s.task, s.index - 1, {p}) /\ (w \in meddled[p] \/ files[p] = Empty)
    BY <1>2 DEF ThreadKept
  <2>2. Kept(w, s.task, s.index - 1, {p})'
    BY <2>1, KeptStays
  <2>3. w \in meddled'[p] \/ files'[p] = Empty
    BY <2>1 DEF Spared
  <2> QED
    BY <2>1, <2>2, <2>3
<1>3. s.pc = "limits" \/ (s.pc # "idle" /\ s.verdict = "succeeded") => AllKept(w, s.task)'
  BY AllKeptStays DEF ThreadKept
<1> QED
  BY <1>1, <1>2, <1>3 DEF ThreadKept

\* The other threads keep what they have when it is spared them.
LEMMA OthersStay ==
  ASSUME ThreadsKept, NEW w \in Workers,
         \A v \in Workers : v # w => worker'[v] = worker[v],
         \A v \in Workers \ {w} : ~At(v, "idle") => Spared(v),
         ThreadKept(w, worker[w])'
  PROVE  ThreadsKept'
<1>1. ASSUME NEW v \in Workers, v # w PROVE ThreadKept(v, worker[v])'
  <2>1. PICK s : s = worker[v]
    OBVIOUS
  <2>2. CASE s.pc = "idle"
    BY <1>1, <2>1, <2>2 DEF ThreadKept
  <2>3. CASE s.pc # "idle"
    <3>1. ThreadKept(v, s)'
      BY <1>1, <2>1, <2>3, ThreadStays DEF ThreadsKept, At
    <3> QED
      BY <1>1, <2>1, <3>1
  <2> QED
    BY <2>2, <2>3
<1> QED
  BY <1>1 DEF ThreadsKept

LEMMA TasksStay ==
  ASSUME TasksKept, UNCHANGED runs, \A t \in Tasks : runs[t] = "succeeded" => Spared(t)
  PROVE  TasksKept'
  BY AllKeptStays DEF TasksKept

\* A step that leaves the files alone spares everybody.
LEMMA UnchangedSpares ==
  ASSUME UNCHANGED <<files, meddled>>, NEW x
  PROVE  Spared(x)
  BY DEF Spared

\* A write counts all others as written over.
LEMMA WriteSpares ==
  ASSUME NEW w \in Workers, NEW q \in Paths,
         \A p \in Paths : p # q => files'[p] = files[p] /\ meddled'[p] = meddled[p],
         Others(w) \subseteq meddled'[q]
  PROVE  /\ \A v \in Workers \ {w} : ~At(v, "idle") => Spared(v)
         /\ \A t \in Tasks : runs[t] = "succeeded" => Spared(t)
  BY DEF Others, Spared

-----------------------------------------------------------------------------
(* One lemma per step.                                                     *)

LEMMA InitInv == Init => IInv
<1> SUFFICES ASSUME Init PROVE IInv
  OBVIOUS
<1>1. TypeOK
  BY ExecutorAssumption DEF Init, TypeOK, FileContents, Idle, At
<1>2. PlaceOK /\ DenialOK /\ ThreadsKept /\ TasksKept
  BY DEF Init, PlaceOK, DenialOK, ThreadsKept, ThreadKept, TasksKept, Idle, Writing, Denials
<1>3. Provenance
  BY ExecutorAssumption DEF Init, Provenance
<1> QED
  BY <1>1, <1>2, <1>3 DEF IInv

LEMMA ExecuteKeeps ==
  ASSUME IInv, NEW w \in Workers, NEW t \in Tasks, Execute(w, t)
  PROVE  IInv'
<1> USE DEF IInv
<1>1. PICK m \in BOOLEAN :
        /\ m => Request[t].memory
        /\ worker' = [worker EXCEPT ![w] =
               [pc |-> IF Screen(Request[t], m) # "none" THEN "persist"
                       ELSE IF Request[t].type \in Writers THEN "inspect" ELSE "limits",
                task |-> t, index |-> 1, verdict |-> Screen(Request[t], m)]]
  BY DEF Execute, Entry
<1>2. UNCHANGED <<files, runs, author, touched, meddled>>
  BY DEF Execute
<1>3. Request[t] \in TaskRequest
  BY ExecutorAssumption
<1>4. /\ Screen(Request[t], m) \in Verdicts \cup {"none"}
      /\ Screen(Request[t], m) # "succeeded"
      /\ Screen(Request[t], m) = "none" => Passes(t)
      /\ Screen(Request[t], m) \in Denials => ~Passes(t)
  BY <1>3, ScreenVerdict DEF Passes
<1>5. Passes(t) /\ Request[t].type \in Writers => Len(Request[t].changes) \in Nat \ {0}
  BY PassesInBoundary
<1>6. \A v \in Workers : v # w => worker'[v] = worker[v]
  BY <1>1 DEF TypeOK
<1>7. worker'[w] = [pc |-> IF Screen(Request[t], m) # "none" THEN "persist"
                       ELSE IF Request[t].type \in Writers THEN "inspect" ELSE "limits",
                    task |-> t, index |-> 1, verdict |-> Screen(Request[t], m)]
  BY <1>1 DEF TypeOK
<1>8. TypeOK'
  <2>1. [pc |-> IF Screen(Request[t], m) # "none" THEN "persist"
                ELSE IF Request[t].type \in Writers THEN "inspect" ELSE "limits",
         task |-> t, index |-> 1, verdict |-> Screen(Request[t], m)]
        \in [pc : {"idle", "inspect", "open", "fill", "limits", "persist"},
             task : Tasks \cup {NoTask}, index : Nat, verdict : Verdicts \cup {"none"}]
    BY <1>4
  <2> QED
    BY <2>1, <1>1, <1>2, <1>6, <1>7 DEF TypeOK, At
<1>9. PlaceOK'
  BY <1>2, <1>4, <1>5, <1>6, <1>7 DEF PlaceOK, Writing, Req, Target, Current
<1>10. DenialOK'
  BY <1>2, <1>4, <1>6, <1>7 DEF DenialOK
<1>11. ThreadsKept' /\ TasksKept'
  <2>1. \A x : Spared(x)
    BY <1>2, UnchangedSpares
  <2>2. /\ worker'[w].pc \in {"inspect", "persist", "limits"} /\ worker'[w].verdict # "succeeded"
        /\ worker'[w].task = t /\ worker'[w].index = 1
        /\ worker'[w].pc = "limits" => Request[t].type \notin Writers
    BY <1>4, <1>7
  <2>3. ThreadKept(w, worker[w])'
    BY <2>2 DEF ThreadKept, AllKept, Kept
  <2> QED
    BY <1>2, <1>6, <2>1, <2>3, OthersStay, TasksStay
<1>12. Provenance'
  BY <1>2 DEF Provenance
<1> QED
  BY <1>8, <1>9, <1>10, <1>11, <1>12 DEF IInv

LEMMA InspectKeeps ==
  ASSUME IInv, NEW w \in Workers, Inspect(w)
  PROVE  IInv'
<1> USE DEF IInv
<1>1. /\ At(w, "inspect") /\ UNCHANGED <<files, runs, author, touched, meddled>>
      /\ \/ Target(w) \in Paths /\ worker' = [worker EXCEPT ![w].pc = "open"]
         \/ worker' = [worker EXCEPT ![w].pc = "persist", ![w].verdict = "EXECUTION_FAILED"]
  BY DEF Inspect, Finish
<1>2. worker[w].task \in Tasks
  BY <1>1, CurrentChange DEF At, Writing
<1>3. TypeOK'
  BY <1>1, <1>2 DEF TypeOK, At, Verdicts
<1>4. /\ \A v \in Workers : v # w => worker'[v] = worker[v]
      /\ worker'[w].task = worker[w].task /\ worker'[w].index = worker[w].index
      /\ \/ worker'[w].pc = "open" /\ worker'[w].verdict = worker[w].verdict /\ Target(w) \in Paths
         \/ worker'[w].pc = "persist" /\ worker'[w].verdict = "EXECUTION_FAILED"
  BY <1>1 DEF TypeOK
<1>5. PlaceOK'
  BY <1>1, <1>4 DEF PlaceOK, Writing, Req, Target, Current, At
<1>6. DenialOK'
  BY <1>1, <1>4 DEF DenialOK, Denials, At
<1>7. ThreadsKept' /\ TasksKept'
  <2>1. \A x : Spared(x)
    BY <1>1, UnchangedSpares
  <2>2. PICK s : s = worker[w]
    OBVIOUS
  <2>3. ThreadKept(w, s)'
    BY <2>1, <2>2, ThreadStays DEF ThreadsKept
  <2>4. /\ s.pc = "inspect" /\ worker'[w].task = s.task /\ worker'[w].index = s.index
        /\ worker'[w].pc = "open" \/ (worker'[w].pc = "persist" /\ worker'[w].verdict # "succeeded")
    BY <1>1, <1>4, <2>2 DEF At
  <2>5. Kept(w, s.task, s.index - 1, {})'
    BY <2>3, <2>4 DEF ThreadKept
  <2>6. ThreadKept(w, worker[w])'
    <3>1. CASE worker'[w].pc = "persist"
      BY <2>4, <3>1 DEF ThreadKept
    <3>2. CASE worker'[w].pc = "open"
      <4>1. Kept(w, worker[w].task, worker[w].index - 1, {})'
        BY <2>4, <2>5
      <4>2. worker'[w].verdict # "succeeded"
        BY <1>1, <1>4, <3>2 DEF PlaceOK, At, Writing
      <4> QED
        BY <3>2, <4>1, <4>2 DEF ThreadKept
    <3> QED
      BY <2>4, <3>1, <3>2
  <2> QED
    BY <1>1, <1>4, <2>1, <2>6, OthersStay, TasksStay
<1>8. Provenance'
  BY <1>1 DEF Provenance
<1> QED
  BY <1>3, <1>5, <1>6, <1>7, <1>8

LEMMA OpenKeeps ==
  ASSUME IInv, NEW w \in Workers, Open(w)
  PROVE  IInv'
<1> USE DEF IInv
<1>1. /\ At(w, "open") /\ UNCHANGED runs
      /\ files' = [files EXCEPT ![Target(w)] = Empty]
      /\ author' = [author EXCEPT ![Target(w)] = Torn]
      /\ touched' = touched \cup {worker[w].task}
      /\ meddled' = [meddled EXCEPT ![Target(w)] = Others(w)]
      /\ worker' = [worker EXCEPT ![w].pc = "fill"]
  BY DEF Open
<1>2. worker[w].task \in Tasks /\ Target(w) \in Paths /\ Torn \notin Tasks /\ Torn # NoTask
  BY <1>1, CurrentChange, ExecutorAssumption DEF At, Writing, PlaceOK
<1>3. TypeOK'
  BY <1>1, <1>2, ExecutorAssumption DEF TypeOK, At, FileContents, Others
<1>4. /\ \A v \in Workers : v # w => worker'[v] = worker[v]
      /\ worker'[w].task = worker[w].task /\ worker'[w].index = worker[w].index
      /\ worker'[w].pc = "fill" /\ worker'[w].verdict = worker[w].verdict
  BY <1>1 DEF TypeOK
<1>5. Passes(worker[w].task)
  BY <1>1 DEF PlaceOK, At, Writing
<1>6. PlaceOK'
  BY <1>1, <1>4 DEF PlaceOK, Writing, Req, Target, Current, At
<1>7. DenialOK'
  BY <1>1, <1>4, <1>5 DEF DenialOK, At
<1>8. PICK s : s = worker[w]
  OBVIOUS
<1>9. ThreadsKept' /\ TasksKept'
  <2> DEFINE q == FileOf(s.task, s.index)
  <2>1. q = Target(w) /\ q \in Paths /\ s.pc = "open"
    BY <1>1, <1>2, <1>8 DEF FileOf, Target, Current, Req, At
  <2>2. /\ files'[q] = Empty /\ meddled'[q] = Others(w)
        /\ \A p \in Paths : p # q => files'[p] = files[p] /\ meddled'[p] = meddled[p]
    BY <1>1, <2>1 DEF TypeOK
  <2>3. /\ \A v \in Workers \ {w} : ~At(v, "idle") => Spared(v)
        /\ \A t \in Tasks : runs[t] = "succeeded" => Spared(t)
    BY <2>1, <2>2, WriteSpares
  <2>4. Kept(w, s.task, s.index - 1, {})
    BY <1>8, <2>1 DEF ThreadsKept, ThreadKept
  <2>5. Kept(w, s.task, s.index - 1, {q})'
    BY <2>2, <2>4 DEF Kept
  <2>6. worker'[w].task = s.task /\ worker'[w].index = s.index /\ worker'[w].pc = "fill"
        /\ worker'[w].verdict # "succeeded"
    BY <1>1, <1>4, <1>8 DEF PlaceOK, At, Writing
  <2>7. ThreadKept(w, worker[w])'
    BY <2>1, <2>2, <2>5, <2>6 DEF ThreadKept
  <2> QED
    BY <1>1, <1>4, <2>3, <2>7, OthersStay, TasksStay
<1>10. Provenance'
  BY <1>1, <1>2 DEF Provenance, TypeOK
<1> QED
  BY <1>3, <1>6, <1>7, <1>9, <1>10

\* What a task writes is what it asks for.
LEMMA CurrentIsAsked ==
  ASSUME IInv, NEW w \in Workers, worker[w].pc \in Writing
  PROVE  Current(w).content \in Asked(worker[w].task, Target(w))
<1>1. Current(w) \in ChangesOf(worker[w].task)
  BY DEF IInv, PlaceOK, ChangesOf, Current, Req
<1> QED
  BY <1>1, CurrentChange DEF IInv, Asked, Target, Req

LEMMA FillKeeps ==
  ASSUME IInv, NEW w \in Workers, Fill(w)
  PROVE  IInv'
<1> USE DEF IInv
<1>1. At(w, "fill") /\ UNCHANGED <<runs, touched>>
  BY DEF Fill
<1>2. PICK text \in Filled(Target(w), Current(w).content) :
        /\ files' = [files EXCEPT ![Target(w)] = text]
        /\ author' = [author EXCEPT ![Target(w)] =
                        IF text = Current(w).content THEN worker[w].task
                        ELSE IF text \in Contents THEN @ ELSE Torn]
        /\ meddled' = [meddled EXCEPT ![Target(w)] = @ \cup Others(w)]
  BY DEF Fill
<1>3. \/ worker' = [worker EXCEPT ![w].pc = "persist", ![w].verdict = "EXECUTION_FAILED"]
      \/ ~IsLast(w) /\ worker' = [worker EXCEPT ![w].pc = "inspect", ![w].index = @ + 1]
      \/ IsLast(w) /\ worker' = [worker EXCEPT ![w].pc = "limits"]
  <2>1. \/ worker' = [worker EXCEPT ![w].pc = "persist", ![w].verdict = "EXECUTION_FAILED"]
        \/ worker' = [worker EXCEPT ![w].pc = IF IsLast(w) THEN "limits" ELSE "inspect",
                                    ![w].index = IF IsLast(w) THEN @ ELSE @ + 1]
    BY DEF Fill, Finish
  <2> QED
    BY <2>1 DEF TypeOK
<1>4. /\ worker[w].task \in Tasks /\ Target(w) \in Paths
      /\ Current(w).content \in Contents
      /\ worker[w].index \in 1..Len(Req(w).changes)
      /\ Len(Req(w).changes) \in Nat
  <2>1. worker[w].pc \in Writing
    BY <1>1 DEF At, Writing
  <2>2. Current(w) \in Change /\ worker[w].task \in Tasks
    BY <2>1, CurrentChange
  <2>3. Req(w).changes \in Seq(Change)
    BY <2>2, ExecutorAssumption DEF Req, TaskRequest
  <2> QED
    BY <1>1, <2>1, <2>2, <2>3 DEF PlaceOK, At, Change
<1>4a. PICK t \in Tasks : t = worker[w].task
  BY <1>4
<1>4b. PICK k \in Nat : k = worker[w].index /\ k \in 1..Len(Request[t].changes)
  BY <1>4, <1>4a DEF Req
<1>5. /\ \A v \in Workers : v # w => worker'[v] = worker[v]
      /\ worker'[w].task = worker[w].task
      /\ \/ worker'[w].pc = "persist" /\ worker'[w].verdict = "EXECUTION_FAILED"
         \/ /\ ~IsLast(w) /\ worker'[w].pc = "inspect" /\ worker'[w].verdict = "none"
            /\ worker'[w].index = worker[w].index + 1
         \/ IsLast(w) /\ worker'[w].pc = "limits" /\ worker'[w].verdict = "none"
  BY <1>1, <1>3 DEF TypeOK, PlaceOK, At, Writing
<1>6. TypeOK'
  <2>1. text \in FileContents
    BY <1>2, <1>4 DEF Filled, FileContents, TypeOK
  <2>2. files' \in [Paths -> FileContents] /\ author' \in [Paths -> Tasks \cup {NoTask, Torn}]
        /\ meddled' \in [Paths -> SUBSET (Workers \cup Tasks)]
    BY <1>2, <1>4, <2>1 DEF TypeOK, Others
  <2>3. worker' \in [Workers ->
          [pc : {"idle", "inspect", "open", "fill", "limits", "persist"},
           task : Tasks \cup {NoTask}, index : Nat, verdict : Verdicts \cup {"none"}]]
    BY <1>3 DEF TypeOK, Verdicts
  <2> QED
    BY <1>1, <1>4, <1>5, <2>2, <2>3 DEF TypeOK, At
<1>7. Passes(worker[w].task) /\ Req(w).type \in Writers
  BY <1>1 DEF PlaceOK, At, Writing
<1>8. PlaceOK'
  <2>1. ~IsLast(w) => k + 1 \in 1..Len(Request[t].changes)
    BY <1>4, <1>4b, <1>4a DEF IsLast, Req
  <2>2. worker'[w].pc \in Writing =>
          worker'[w].index = k + 1 /\ worker'[w].task = t /\ worker'[w].verdict = "none" /\ ~IsLast(w)
    BY <1>5, <1>4b, <1>4a DEF Writing
  <2> QED
    BY <1>1, <1>5, <1>7, <1>4a, <2>1, <2>2 DEF PlaceOK, Writing, Req, Target, Current
<1>9. DenialOK'
  BY <1>1, <1>5 DEF DenialOK, Denials, At
<1>10. Kept(w, t, k, {})'
  <2> DEFINE q == FileOf(t, k)
  <2>1. q = Target(w) /\ q \in Paths /\ ContentOf(t, k) = Current(w).content
    BY <1>4, <1>4a, <1>4b DEF FileOf, ContentOf, Target, Current, Req
  <2>2. Kept(w, t, k - 1, {q}) /\ (w \in meddled[q] \/ files[q] = Empty)
    BY <1>1, <1>4a, <1>4b DEF ThreadsKept, ThreadKept, At
  <2>3. w \in meddled'[q] \/ files'[q] = ContentOf(t, k)
    <3>1. text = ContentOf(t, k) \/ w \in meddled[q]
      BY <2>1, <2>2 DEF Filled
    <3>2. files'[q] = text /\ meddled'[q] = meddled[q] \cup Others(w)
      BY <1>2, <2>1 DEF TypeOK
    <3> QED
      BY <3>1, <3>2
  <2>4. \A p \in Paths : p # q => files'[p] = files[p] /\ meddled'[p] = meddled[p]
    BY <1>2, <2>1 DEF TypeOK
  <2>5. ASSUME NEW i \in 1..k, \A j \in i + 1..k : FileOf(t, j) # FileOf(t, i)
        PROVE  /\ FileOf(t, i) \in Paths
               /\ w \in meddled'[FileOf(t, i)] \/ files'[FileOf(t, i)] = ContentOf(t, i)
    <3>1. CASE i = k
      BY <2>1, <2>3, <3>1
    <3>2. CASE i # k
      <4>1. i \in 1..k - 1 /\ k \in i + 1..k
        BY <3>2
      <4>2. FileOf(t, i) # q
        BY <2>5, <4>1
      <4>3. \A j \in i + 1..k - 1 : FileOf(t, j) # FileOf(t, i)
        BY <2>5
      <4>4. /\ FileOf(t, i) \in Paths
            /\ w \in meddled[FileOf(t, i)] \/ files[FileOf(t, i)] = ContentOf(t, i)
        BY <2>2, <4>1, <4>2, <4>3 DEF Kept
      <4> QED
        BY <2>4, <4>2, <4>4
    <3> QED
      BY <3>1, <3>2
  <2> QED
    BY <2>5 DEF Kept
<1>11. ThreadsKept' /\ TasksKept'
  <2>1. IsLast(w) => AllKept(w, t)'
    BY <1>4a, <1>4b, <1>10 DEF AllKept, IsLast, Req
  <2>2. worker'[w].task = t /\ (worker'[w].pc = "inspect" => worker'[w].index - 1 = k)
    BY <1>4a, <1>4b, <1>5
  <2>3. ThreadKept(w, worker[w])'
    BY <1>5, <1>10, <2>1, <2>2 DEF ThreadKept
  <2>4. /\ \A p \in Paths : p # Target(w) => files'[p] = files[p] /\ meddled'[p] = meddled[p]
        /\ Others(w) \subseteq meddled'[Target(w)]
    BY <1>2, <1>4 DEF TypeOK
  <2>5. /\ \A v \in Workers \ {w} : ~At(v, "idle") => Spared(v)
        /\ \A u \in Tasks : runs[u] = "succeeded" => Spared(u)
    BY <1>4, <2>4, WriteSpares
  <2> QED
    BY <1>1, <1>5, <2>3, <2>5, OthersStay, TasksStay
<1>12. Provenance'
  BY <1>1, <1>2, <1>4, CurrentIsAsked, ExecutorAssumption DEF Provenance, TypeOK, Filled, At, Writing
<1> QED
  BY <1>6, <1>8, <1>9, <1>11, <1>12

LEMMA FillFailsKeeps ==
  ASSUME IInv, NEW w \in Workers, FillFails(w)
  PROVE  IInv'
<1> USE DEF IInv
<1>1. /\ At(w, "fill") /\ UNCHANGED <<runs, touched>>
      /\ author' = [author EXCEPT ![Target(w)] = Torn]
      /\ meddled' = [meddled EXCEPT ![Target(w)] = @ \cup Others(w)]
      /\ worker' = [worker EXCEPT ![w].pc = "persist", ![w].verdict = "EXECUTION_FAILED"]
  BY DEF FillFails, Finish
<1>2. PICK text \in {files[Target(w)], Garbled, Unreadable} : files' = [files EXCEPT ![Target(w)] = text]
  BY DEF FillFails
<1>3. worker[w].task \in Tasks /\ Target(w) \in Paths /\ Torn \notin Tasks /\ Torn # NoTask
  BY <1>1, CurrentChange, ExecutorAssumption DEF At, Writing, PlaceOK
<1>4. TypeOK'
  BY <1>1, <1>2, <1>3 DEF TypeOK, At, FileContents, Verdicts, Others
<1>5. /\ \A v \in Workers : v # w => worker'[v] = worker[v]
      /\ worker'[w].task = worker[w].task
      /\ worker'[w].pc = "persist" /\ worker'[w].verdict = "EXECUTION_FAILED"
  BY <1>1 DEF TypeOK
<1>6. PlaceOK'
  BY <1>1, <1>5 DEF PlaceOK, Writing, Req, Target, Current
<1>7. DenialOK'
  BY <1>1, <1>5 DEF DenialOK, Denials
<1>9. ThreadsKept' /\ TasksKept'
  <2>1. /\ \A p \in Paths : p # Target(w) => files'[p] = files[p] /\ meddled'[p] = meddled[p]
        /\ Others(w) \subseteq meddled'[Target(w)]
    BY <1>1, <1>2, <1>3 DEF TypeOK
  <2>2. /\ \A v \in Workers \ {w} : ~At(v, "idle") => Spared(v)
        /\ \A t \in Tasks : runs[t] = "succeeded" => Spared(t)
    BY <1>3, <2>1, WriteSpares
  <2>3. ThreadKept(w, worker[w])'
    BY <1>5 DEF ThreadKept
  <2> QED
    BY <1>1, <1>5, <2>2, <2>3, OthersStay, TasksStay
<1>10. Provenance'
  BY <1>1, <1>2, <1>3 DEF Provenance, TypeOK
<1> QED
  BY <1>4, <1>6, <1>7, <1>9, <1>10

LEMMA LimitsKeeps ==
  ASSUME IInv, NEW w \in Workers, Limits(w)
  PROVE  IInv'
<1> USE DEF IInv
<1>1. At(w, "limits") /\ UNCHANGED <<files, runs, author, touched, meddled>>
  BY DEF Limits
<1>2. PICK verdict \in {"succeeded", "EXECUTION_LIMIT_EXCEEDED"} :
        worker' = [worker EXCEPT ![w].pc = "persist", ![w].verdict = verdict]
  BY DEF Limits, Finish
<1>3. TypeOK'
  BY <1>1, <1>2 DEF TypeOK, At, Verdicts
<1>4. /\ \A v \in Workers : v # w => worker'[v] = worker[v]
      /\ worker'[w].task = worker[w].task
      /\ worker'[w].pc = "persist" /\ worker'[w].verdict = verdict
  BY <1>2 DEF TypeOK
<1>5. PlaceOK'
  BY <1>1, <1>4 DEF PlaceOK, Writing, Req, Target, Current
<1>6. DenialOK'
  BY <1>1, <1>4 DEF DenialOK, Denials
<1>7. ThreadsKept' /\ TasksKept'
  <2>1. \A x : Spared(x)
    BY <1>1, UnchangedSpares
  <2>2. PICK s : s = worker[w]
    OBVIOUS
  <2>3. AllKept(w, s.task)'
    BY <1>1, <2>1, <2>2, AllKeptStays DEF ThreadsKept, ThreadKept, At
  <2>4. ThreadKept(w, worker[w])'
    BY <1>4, <2>2, <2>3 DEF ThreadKept
  <2> QED
    BY <1>1, <1>4, <2>1, <2>4, OthersStay, TasksStay
<1>8. Provenance'
  BY <1>1 DEF Provenance
<1> QED
  BY <1>3, <1>5, <1>6, <1>7, <1>8

LEMMA PersistKeeps ==
  ASSUME IInv, NEW w \in Workers, Persist(w)
  PROVE  IInv'
<1> USE DEF IInv
<1>1. /\ At(w, "persist") /\ UNCHANGED <<files, author, touched>>
      /\ runs' = [runs EXCEPT ![worker[w].task] = worker[w].verdict]
      /\ worker' = [worker EXCEPT ![w] = Idle]
      /\ meddled' = [p \in Paths |->
           (meddled[p] \ {w, worker[w].task})
             \cup {t \in {worker[w].task} : w \in meddled[p] /\ worker[w].verdict = "succeeded"}]
  BY DEF Persist
<1>2. worker[w].task \in Tasks
  BY <1>1 DEF TypeOK, At
<1>3. TypeOK'
  BY <1>1, <1>2 DEF TypeOK, At, Idle
<1>4. /\ \A v \in Workers : v # w => worker'[v] = worker[v]
      /\ worker'[w] = Idle
  BY <1>1 DEF TypeOK
<1>5. PlaceOK'
  BY <1>1, <1>4 DEF PlaceOK, Writing, Req, Target, Current, Idle
<1>6. DenialOK'
  BY <1>1, <1>2, <1>4 DEF DenialOK, Denials, Idle, TypeOK, At
<1>6a. PICK t \in Tasks : t = worker[w].task
  BY <1>2
<1>7. ThreadsKept' /\ TasksKept'
  <2>1. \A x \in Workers \cup Tasks : x \notin {w, t} => Spared(x)
    BY <1>1, <1>6a DEF Spared
  <2>2. Tasks \cap Workers = {}
    BY ExecutorAssumption
  <2>3. ThreadKept(w, worker[w])'
    BY <1>4 DEF ThreadKept, Idle
  <2>4. ThreadsKept'
    <3>1. \A v \in Workers \ {w} : Spared(v)
      BY <2>1, <2>2
    <3> QED
      BY <1>4, <2>3, <3>1, OthersStay
  <2>5. ASSUME NEW u \in Tasks, runs'[u] = "succeeded" PROVE AllKept(u, u)'
    <3>1. CASE u = t
      <4>1. worker[w].verdict = "succeeded"
        BY <1>1, <1>6a, <2>5, <3>1 DEF TypeOK
      <4>2. AllKept(w, t)
        BY <1>1, <1>6a, <4>1 DEF ThreadsKept, ThreadKept, At
      <4>3. \A p \in Paths : files'[p] = files[p] /\ (w \in meddled[p] => t \in meddled'[p])
        BY <1>1, <1>6a, <4>1
      <4> QED
        BY <3>1, <4>2, <4>3 DEF AllKept, Kept
    <3>2. CASE u # t
      <4>1. runs[u] = "succeeded"
        BY <1>1, <1>6a, <2>5, <3>2 DEF TypeOK
      <4>2. Spared(u)
        BY <2>1, <2>2, <3>2
      <4> QED
        BY <4>1, <4>2, AllKeptStays DEF TasksKept
    <3> QED
      BY <3>1, <3>2
  <2> QED
    BY <2>4, <2>5 DEF TasksKept
<1>8. Provenance'
  BY <1>1 DEF Provenance
<1> QED
  BY <1>3, <1>5, <1>6, <1>7, <1>8

LEMMA CrashKeeps == IInv /\ Crash => IInv'
<1> SUFFICES ASSUME IInv, Crash PROVE IInv'
  OBVIOUS
<1> USE DEF IInv
<1>1. /\ worker' = [w \in Workers |-> Idle] /\ UNCHANGED <<files, runs, author, touched>>
      /\ meddled' = [p \in Paths |-> meddled[p] \ Workers]
  BY DEF Crash
<1>2. TypeOK'
  BY <1>1 DEF TypeOK, Idle, At
<1>3. PlaceOK' /\ DenialOK'
  BY <1>1 DEF PlaceOK, DenialOK, Idle, Writing
<1>4. ThreadsKept' /\ Provenance'
  BY <1>1 DEF ThreadsKept, ThreadKept, Provenance, Idle
<1>5. TasksKept'
  <2>1. \A t \in Tasks : Spared(t)
    BY <1>1, ExecutorAssumption DEF Spared
  <2> QED
    BY <1>1, <2>1, TasksStay
<1> QED
  BY <1>2, <1>3, <1>4, <1>5

LEMMA StutterKeeps == IInv /\ UNCHANGED vars => IInv'
  BY DEF IInv, vars, TypeOK, At, PlaceOK, DenialOK, ThreadsKept, ThreadKept, TasksKept,
         AllKept, Kept, Provenance, Req, Target, Current

LEMMA StepKeeps == IInv /\ [Next]_vars => IInv'
<1> SUFFICES ASSUME IInv, [Next]_vars PROVE IInv'
  OBVIOUS
<1>1. CASE Crash
  BY <1>1, CrashKeeps
<1>2. ASSUME NEW w \in Workers, Step(w) PROVE IInv'
  <2>1. ASSUME NEW t \in Tasks, Execute(w, t) PROVE IInv'
    BY <2>1, ExecuteKeeps
  <2> QED
    BY <1>2, <2>1, InspectKeeps, OpenKeeps, FillKeeps, FillFailsKeeps, LimitsKeeps,
       PersistKeeps DEF Step
<1>3. CASE UNCHANGED vars
  BY <1>3, StutterKeeps
<1> QED
  BY <1>1, <1>2, <1>3 DEF Next

LEMMA Invariance == Spec => []IInv
<1>1. Init => IInv
  BY InitInv
<1>2. IInv /\ [Next]_vars => IInv'
  BY StepKeeps
<1> QED
  BY <1>1, <1>2, PTL DEF Spec

-----------------------------------------------------------------------------
(* The theorems.                                                           *)

\* The state keeps its type.
THEOREM HermesTypeCorrect == Spec => []TypeOK
<1>1. IInv => TypeOK
  BY DEF IInv
<1> QED
  BY <1>1, Invariance, PTL

\* A denied task has changed nothing (executor.py:44-68,
\* write_boundaries.py:19-24).
THEOREM DeniedHasNoEffectHolds == Spec => []DeniedHasNoEffect
<1>1. IInv => DeniedHasNoEffect
  BY DEF IInv, TypeOK, DenialOK, DeniedHasNoEffect
<1> QED
  BY <1>1, Invariance, PTL

\* A task reported succeeded has left in each file what its last change to it
\* asks for, or another execution has written there since (executor.py:51-62,
\* repo_ops.py:58-60).
THEOREM SucceededIsCompleteHolds == Spec => []SucceededIsComplete
<1>1. ASSUME IInv, NEW t \in Tasks, runs[t] = "succeeded", Request[t].type \in Writers,
             NEW i \in 1..Len(Request[t].changes), IsFinal(t, i)
      PROVE  /\ FileOf(t, i) \in Paths
             /\ t \in meddled[FileOf(t, i)] \/ files[FileOf(t, i)] = ContentOf(t, i)
  <2>1. Kept(t, t, Len(Request[t].changes), {})
    BY <1>1 DEF IInv, TasksKept, AllKept
  <2>2. \A j \in i + 1..Len(Request[t].changes) : FileOf(t, j) # FileOf(t, i)
    BY <1>1 DEF IsFinal, FileOf
  <2> QED
    BY <2>1, <2>2 DEF Kept
<1>2. IInv => SucceededIsComplete
  BY <1>1 DEF SucceededIsComplete, FileOf, ContentOf
<1> QED
  BY <1>2, Invariance, PTL

\* An execution is never refused because of its task's own completed write of a
\* content that read_text returns as it is (file_ops.py:63-66).
THEOREM OwnWorkIsNoObstacleHolds == Spec => OwnWorkIsNoObstacle
<1>1. ASSUME IInv, [Next]_vars, NEW w \in Workers, Refuses(w), MeetsOwnWork(w),
             ReadText[Current(w).content] = Current(w).content
      PROVE  FALSE
  <2>1. worker[w].pc \in Writing /\ worker[w].pc = "inspect"
    BY <1>1 DEF Refuses, At, Writing
  <2>2. /\ worker[w].task \in Tasks /\ Target(w) \in Paths /\ Current(w).content \in Contents
        /\ worker[w].verdict = "none" /\ worker[w].index \in 1..Len(Req(w).changes)
    BY <1>1, <2>1, CurrentChange DEF IInv, PlaceOK, MeetsOwnWork, Change
  <2>3. \A text \in Asked(worker[w].task, Target(w)) : text = Current(w).content
    <3>1. PICK t, k : t = worker[w].task /\ k = worker[w].index
      OBVIOUS
    <3>2. /\ k \in 1..Len(Request[t].changes) /\ OneChangePerFile(t)
          /\ Current(w) = Request[t].changes[k] /\ Target(w) = FileOf(t, k)
      BY <1>1, <2>2, <3>1 DEF MeetsOwnWork, Current, Target, Req, FileOf
    <3>3. \A i \in 1..Len(Request[t].changes) :
            FileOf(t, i) = FileOf(t, k) => Request[t].changes[i] = Request[t].changes[k]
      BY <3>2 DEF OneChangePerFile, FileOf
    <3> QED
      BY <3>1, <3>2, <3>3 DEF Asked, ChangesOf, FileOf
  <2>4. files[Target(w)] = Current(w).content /\ files[Target(w)] # Unreadable
    BY <1>1, <2>2, <2>3, ExecutorAssumption DEF IInv, Provenance, MeetsOwnWork
  <2>5. MayReplace(Req(w), Current(w))
    BY <1>1, <2>2, <2>4 DEF MayReplace, Target, Text
  <2>6. ~Inspect(w)
    BY <1>1, <2>2, <2>4, <2>5 DEF Inspect, Refuses, IInv, TypeOK
  <2>7. worker'[w] = worker[w] \/ worker'[w] = Idle
    BY <1>1, <2>1, <2>6 DEF IInv, TypeOK, Next, Step, Crash, vars, Execute, Entry, Inspect, Open,
       Fill, FillFails, Limits, Persist, Finish, At
  <2> QED
    BY <1>1, <2>2, <2>7 DEF Refuses, Idle
<1>2. IInv /\ [Next]_vars => [\A w \in Workers : Refuses(w) /\ MeetsOwnWork(w) =>
         ReadText[Current(w).content] # Current(w).content]_vars
  BY <1>1
<1> QED
  BY <1>2, Invariance, PTL DEF Spec, OwnWorkIsNoObstacle
=============================================================================
