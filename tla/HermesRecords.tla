---------------------------- MODULE HermesRecords ----------------------------
(***************************************************************************)
(* What the execute handler of Hermes does with a result that names an     *)
(* issue of Paperclip: it posts a comment and upserts a document there and *)
(* keeps a record of each, and retry_postbacks.py, a process of an         *)
(* operator, posts again what the records call failed.                     *)
(*                                                                         *)
(* Record files are named after the run, run_<task_id>, so all executions  *)
(* of a task share them.  write_text truncates a file and then fills it.   *)
(***************************************************************************)
EXTENDS Naturals, Sequences, FiniteSets

CONSTANTS
  Runs, NoRun,      \* tasks, by their run ids
  Handlers,         \* threads of the Hermes server
  Replays,          \* processes of retry_postbacks.py that may run at once
  NoRecord, Torn,   \* no file; a file that is empty or a mixture: no JSON
  MaxExecutions,    \* bound: executions of one task
  MaxFaults         \* bound: crashes, kills, failed writes, lost answers

Kinds == {"comment", "dashboard"}
Writers == Handlers \cup Replays
Versions == 1..MaxExecutions
Record == [version : Versions, success : BOOLEAN]

ASSUME RecordsAssumption ==
  /\ NoRun \notin Runs /\ Handlers \cap Replays = {}
  /\ {NoRecord, Torn} \cap Record = {} /\ NoRecord # Torn
  /\ MaxExecutions \in Nat /\ MaxFaults \in Nat

VARIABLES
  executed,  \* the issue that each execution of a task names
  record,    \* postbacks/<run_id>__<type>.json
  writer,    \* what each thread and process is at
  posts,     \* remote: how often a result was posted
  faults

recordsVars == <<executed, record, writer, posts, faults>>

Resting == [pc |-> "idle", run |-> NoRun, kind |-> "comment", version |-> 0,
            success |-> FALSE, todo |-> {}]

RecordsInit ==
  /\ executed = [r \in Runs |-> <<>>]
  /\ record = [r \in Runs |-> [k \in Kinds |-> NoRecord]]
  /\ writer = [w \in Writers |-> Resting]
  /\ posts = [r \in Runs |-> [k \in Kinds |-> [v \in Versions |-> 0]]]
  /\ faults = 0

-----------------------------------------------------------------------------
At(w, pc) == writer[w].pc = pc
FileOf(w) == record[writer[w].run][writer[w].kind]
Put(w, text) == record' = [record EXCEPT ![writer[w].run][writer[w].kind] = text]
Fault == faults < MaxFaults /\ faults' = faults + 1

\* EXECUTOR.execute and persist_result of HermesExecutor are behind: the handler
\* has a result that names an issue.
Execute(h, r, issue) ==
  /\ At(h, "idle") /\ Len(executed[r]) < MaxExecutions
  /\ executed' = [executed EXCEPT ![r] = Append(@, issue)]
  /\ writer' = [writer EXCEPT ![h] = [Resting EXCEPT !.pc = "post", !.run = r,
                                                     !.version = Len(executed[r]) + 1]]
  /\ UNCHANGED <<record, posts, faults>>

\* A replay lists the files there are.
StartReplay(p) ==
  /\ At(p, "idle")
  /\ writer' = [writer EXCEPT ![p] = [Resting EXCEPT !.pc = "next",
       !.todo = {f \in Runs \X Kinds : record[f[1]][f[2]] # NoRecord}]]
  /\ UNCHANGED <<executed, record, posts, faults>>

\* A fault: what has succeeded is retried.
RetryableAny(text) == text \in Record

\* retryable is written as the opposite of success, here and in the replay.
Retryable(text) == text \in Record /\ ~text.success

\* It reads the next of them: one that is no JSON or not retryable is skipped.
ReadNext(p, r, k) ==
  /\ At(p, "next") /\ <<r, k>> \in writer[p].todo
  /\ LET rest == writer[p].todo \ {<<r, k>>}
         text == record[r][k]
     IN writer' = [writer EXCEPT ![p] =
          IF Retryable(text)
          THEN [pc |-> "post", run |-> r, kind |-> k, version |-> text.version,
                success |-> FALSE, todo |-> rest]
          ELSE [@ EXCEPT !.todo = rest]]
  /\ UNCHANGED <<executed, record, posts, faults>>

EndReplay(p) ==
  /\ At(p, "next") /\ writer[p].todo = {}
  /\ writer' = [writer EXCEPT ![p] = Resting]
  /\ UNCHANGED <<executed, record, posts, faults>>

-----------------------------------------------------------------------------
(* Posting: create_issue_comment, upsert_issue_document.                   *)

Posted(w, success) == writer' = [writer EXCEPT ![w].pc = "open", ![w].success = success]

\* A fault: the except branch leaves a successful one.
ExceptedAsPosted == TRUE

\* What the except branch leaves: a failed postback.
Excepted == FALSE

\* Paperclip has it; the answer may be lost.
Post(w) ==
  /\ At(w, "post")
  /\ posts' = [posts EXCEPT ![writer[w].run][writer[w].kind][writer[w].version] = @ + 1]
  /\ \/ Posted(w, TRUE) /\ UNCHANGED faults
     \/ Posted(w, Excepted) /\ Fault
  /\ UNCHANGED <<executed, record>>

\* Paperclip is not reached or refuses it.
PostFails(w) ==
  /\ At(w, "post")
  /\ Posted(w, Excepted)
  /\ UNCHANGED <<executed, record, posts, faults>>

-----------------------------------------------------------------------------
(* Recording: HermesPostbackStore.record, path.write_text.                 *)

Open(w) ==
  /\ At(w, "open")
  /\ Put(w, Torn)
  /\ writer' = [writer EXCEPT ![w].pc = "fill"]
  /\ UNCHANGED <<executed, posts, faults>>

\* A fault: a handler whose comment has failed is done.
AfterSuccess(w) ==
  IF w \in Replays THEN [Resting EXCEPT !.pc = "next", !.todo = writer[w].todo]
  ELSE IF writer[w].kind = "comment" /\ writer[w].success
       THEN [writer[w] EXCEPT !.pc = "post", !.kind = "dashboard", !.success = FALSE]
       ELSE Resting

\* After the comment a handler goes on to the dashboard, a replay to the next file.
After(w) ==
  IF w \in Replays THEN [Resting EXCEPT !.pc = "next", !.todo = writer[w].todo]
  ELSE IF writer[w].kind = "comment"
       THEN [writer[w] EXCEPT !.pc = "post", !.kind = "dashboard", !.success = FALSE]
       ELSE Resting

\* The text, or a mixture with that of somebody who filled the file meanwhile.
Fill(w) ==
  /\ At(w, "fill")
  /\ LET text == [version |-> writer[w].version, success |-> writer[w].success]
     IN Put(w, text) \/ (FileOf(w) \notin {Torn, text} /\ Put(w, Torn))
  /\ writer' = [writer EXCEPT ![w] = After(w)]
  /\ UNCHANGED <<executed, posts, faults>>

\* The file cannot be opened or filled.  In the try, after a success: the except
\* branch writes again, a handler a failure, a replay the data it has already
\* changed, so of a replay success does not tell which branch it is in.  In the
\* except branch: the request or the process ends.
WriteFails(w) ==
  /\ At(w, "open") \/ At(w, "fill")
  /\ Fault
  /\ \/ /\ writer[w].success
        /\ writer' = [writer EXCEPT ![w].pc = "open", ![w].success = w \in Replays]
     \/ /\ ~writer[w].success \/ w \in Replays
        /\ writer' = [writer EXCEPT ![w] = Resting]
  /\ UNCHANGED <<executed, record, posts>>

-----------------------------------------------------------------------------
\* The Hermes server dies and is started again.
Crash ==
  /\ \E h \in Handlers : ~At(h, "idle")
  /\ Fault
  /\ writer' = [w \in Writers |-> IF w \in Handlers THEN Resting ELSE writer[w]]
  /\ UNCHANGED <<executed, record, posts>>

Kill(p) ==
  /\ ~At(p, "idle")
  /\ Fault
  /\ writer' = [writer EXCEPT ![p] = Resting]
  /\ UNCHANGED <<executed, record, posts>>

WriterStep(w) == Post(w) \/ PostFails(w) \/ Open(w) \/ Fill(w) \/ WriteFails(w)

ReplayStep(p) == \/ StartReplay(p) \/ EndReplay(p) \/ Kill(p)
                 \/ \E r \in Runs, k \in Kinds : ReadNext(p, r, k)

RecordsStep == \/ Crash \/ \E w \in Writers : WriterStep(w) \/ \E p \in Replays : ReplayStep(p)

-----------------------------------------------------------------------------
\* The type of the state.
RecordsTypeOK ==
  /\ executed \in [Runs -> Seq(Nat)]
  /\ record \in [Runs -> [Kinds -> Record \cup {NoRecord, Torn}]]
  /\ writer \in [Writers ->
       [pc : {"idle", "next", "post", "open", "fill"}, run : Runs \cup {NoRun},
        kind : Kinds, version : 0..MaxExecutions, success : BOOLEAN,
        todo : SUBSET (Runs \X Kinds)]]
  /\ posts \in [Runs -> [Kinds -> [Versions -> Nat]]]
  /\ faults \in 0..MaxFaults

\* A record that says success is of a result that was posted, whichever
\* executions, replays, lost answers and crashes met in the file
\* (app.py:213-287, retry_postbacks.py:31-48).
SuccessIsPosted ==
  \A r \in Runs, k \in Kinds :
    record[r][k] \in Record /\ record[r][k].success => posts[r][k][record[r][k].version] > 0

\* While one replay runs at a time, a result is posted once, and once more for
\* every lost answer, failed write, kill or crash (retry_postbacks.py:26, 38-43).
\* Two replays read the same failed record and both post it.
RepetitionNeedsAFault ==
  \A r \in Runs, k \in Kinds, v \in Versions : posts[r][k][v] <= 1 + faults

Busy(r) == \E w \in Writers : writer[w].run = r

\* Of a task that was executed once, without a fault: each postback has arrived
\* and says so, or is recorded to be posted again, with a replay at any moment
\* (docs/paperclip-hermes-postback-recovery.md:35-38).  A second execution shares
\* the records of the first, and one of the two may be forgotten.
PostbackIsAccountedFor ==
  \A r \in Runs, k \in Kinds :
    faults = 0 /\ Len(executed[r]) = 1 /\ ~Busy(r)
      => /\ record[r][k] \in Record
         /\ posts[r][k][1] = (IF record[r][k].success THEN 1 ELSE 0)
=============================================================================
