---------------------------- MODULE TenantMemory ----------------------------
(***************************************************************************)
(* MemPalaceService: each tenant has a directory with a configuration and  *)
(* a status file, threads of the Hermes server read and write them, and    *)
(* the mempalace command, a program of its own, is run in between.         *)
(*                                                                         *)
(* write_text opens a file (truncating it) and fills it; rmtree lists the  *)
(* directory, unlinks what it listed and removes the directory.  Other     *)
(* threads come in between.                                                *)
(***************************************************************************)
EXTENDS Naturals

CONSTANTS
  Tenants,
  Threads,
  Config,      \* configurations; of each, is it enabled, and its memory_mode
  Enabled, ModeOf,
  EnvConfig,   \* what the environment says: the configuration without a file
  NoTenant, NoConfig, NoFile,
  Torn         \* a file that is empty, or a mixture of two texts: no JSON

Modes == {"off", "augment", "prefer_mempalace"}

\* What run_operation reports and keeps in the status file: a command that is
\* missing is one that failed.
Reports == {"ok", "disabled", "failed"}

Names == {"config", "status"}

ASSUME MemoryAssumption ==
  /\ Enabled \in SUBSET Config /\ ModeOf \in [Config -> Modes] /\ EnvConfig \in Config
  /\ Config \cap Reports = {}
  /\ NoTenant \notin Tenants
  /\ {NoConfig, NoFile, Torn} \cap (Config \cup Reports) = {} /\ NoFile # Torn

VARIABLES
  dirs,     \* tenants that have a directory
  file,     \* the two files of each tenant
  thread,   \* the operation each thread is in
  saved,    \* history: configurations set for a tenant since it was deleted
  gone      \* history: tenants deleted, with nothing that writes since

memoryVars == <<dirs, file, thread, saved, gone>>

NoContext == [mode |-> "off", source |-> "none", hits |-> FALSE, fallback |-> "none"]

Idle == [pc |-> "idle", op |-> "none", tenant |-> NoTenant, config |-> NoConfig,
         name |-> "config", text |-> NoFile, lost |-> FALSE, left |-> {},
         context |-> NoContext]

MemoryInit ==
  /\ dirs = {}
  /\ file = [n \in Tenants |-> [f \in Names |-> NoFile]]
  /\ thread = [h \in Threads |-> Idle]
  /\ saved = [n \in Tenants |-> {}]
  /\ gone = {}

-----------------------------------------------------------------------------
At(h, pc) == thread[h].pc = pc
Tenant(h) == thread[h].tenant
Goto(h, pc) == thread' = [thread EXCEPT ![h].pc = pc]
End(h) == thread' = [thread EXCEPT ![h] = Idle]

\* A request ends: with its answer, or with an error of the file system.
Fail(h) == End(h) /\ UNCHANGED <<dirs, file, saved, gone>>

Begin(h, op, n, pc) ==
  thread' = [thread EXCEPT ![h] = [Idle EXCEPT !.op = op, !.tenant = n, !.pc = pc]]

\* Writing operations bring a deleted tenant back.
SetConfig(h, n, c) ==
  /\ At(h, "idle")
  /\ thread' = [thread EXCEPT ![h] =
       [Idle EXCEPT !.op = "set_config", !.tenant = n, !.pc = "mkdir", !.text = c]]
  /\ saved' = [saved EXCEPT ![n] = @ \cup {c}]
  /\ gone' = gone \ {n}
  /\ UNCHANGED <<dirs, file>>

RunOperation(h, n) ==
  /\ At(h, "idle")
  /\ Begin(h, "run", n, "load")
  /\ gone' = gone \ {n}
  /\ UNCHANGED <<dirs, file, saved>>

\* get_config, status, search, wakeup.
Look(h, n, op) ==
  /\ At(h, "idle")
  /\ Begin(h, op, n, "load")
  /\ UNCHANGED <<dirs, file, saved, gone>>

-----------------------------------------------------------------------------
(* Reading the configuration and running the command.                      *)

\* A fault: one configuration file for all tenants.
LoadedOfAnyTenant(n) ==
  LET files == {file[m]["config"] : m \in Tenants} \cap Config
  IN IF files = {} THEN EnvConfig ELSE CHOOSE c \in files : TRUE

\* load_mempalace_config: no file, or one that is no JSON, is the environment.
Loaded(n) == IF file[n]["config"] \in Config THEN file[n]["config"] ELSE EnvConfig

\* The operation s goes on with the configuration c.
WithConfig(s, c) ==
  LET runs == s.op = "run"
  IN [s EXCEPT !.config = c, !.name = "status",
               !.text = IF runs /\ c \notin Enabled THEN "disabled" ELSE @,
               !.pc = CASE runs -> IF c \in Enabled THEN "run" ELSE "mkdir"
                        [] s.op = "search" -> "search"
                        [] s.op = "look" -> "answered"]

Load(h) ==
  /\ At(h, "load")
  /\ thread' = [thread EXCEPT ![h] = WithConfig(thread[h], Loaded(Tenant(h)))]
  /\ UNCHANGED <<dirs, file, saved, gone>>

\* A fault: a report that nobody knows.
CommandReportsMissing == {"ok", "missing"}

\* mempalace mine, mempalace reindex: returncode 0 or not, or no such program.
CommandReports == {"ok", "failed"}

RunCommand(h) ==
  /\ At(h, "run")
  /\ \E report \in CommandReports :
       thread' = [thread EXCEPT ![h].pc = "mkdir", ![h].text = report]
  /\ UNCHANGED <<dirs, file, saved, gone>>

\* wakeup: where the hits come from, by the mode of the same configuration.
Context(c, ok, hits) ==
  [mode |-> ModeOf[c], hits |-> hits,
   source |-> IF ok /\ ModeOf[c] \in {"augment", "prefer_mempalace"} THEN "mempalace"
              ELSE "native_only",
   fallback |-> IF ok THEN "none" ELSE IF c \in Enabled THEN "failed" ELSE "disabled"]

\* mempalace search: hits of whatever the program keeps; or it is missing, fails
\* or prints no JSON.
Search(h) ==
  /\ At(h, "search")
  /\ \E ok, hits \in BOOLEAN :
       /\ ok => thread[h].config \in Enabled
       /\ hits => ok
       /\ thread' = [thread EXCEPT ![h].pc = "answered",
                                   ![h].context = Context(thread[h].config, ok, hits)]
  /\ UNCHANGED <<dirs, file, saved, gone>>

\* The command cannot be started for another reason, or prints what is no text.
CommandRaises(h) == (At(h, "run") \/ At(h, "search")) /\ thread[h].config \in Enabled /\ Fail(h)

Answer(h) == At(h, "answered") /\ Fail(h)

-----------------------------------------------------------------------------
(* Writing a file.                                                         *)

MakeDir(h) ==
  /\ At(h, "mkdir")
  /\ dirs' = dirs \cup {Tenant(h)}
  /\ Goto(h, "open")
  /\ UNCHANGED <<file, saved, gone>>

\* The directory is there, and the file is truncated.
Open(h) ==
  /\ At(h, "open") /\ Tenant(h) \in dirs
  /\ file' = [file EXCEPT ![Tenant(h)][thread[h].name] = Torn]
  /\ Goto(h, "fill")
  /\ UNCHANGED <<dirs, saved, gone>>

\* The directory was deleted.  In the try of run_operation that looks like a
\* missing command, and a second status is written.
OpenFails(h) ==
  /\ At(h, "open") /\ Tenant(h) \notin dirs
  /\ IF thread[h].text = "ok"
     THEN thread' = [thread EXCEPT ![h].pc = "mkdir", ![h].text = "failed"]
     ELSE End(h)
  /\ UNCHANGED <<dirs, file, saved, gone>>

\* The text, or a mixture with that of a thread that filled the file meanwhile;
\* nothing if the file was unlinked since it was opened.
Fill(h) ==
  /\ At(h, "fill")
  /\ LET n == Tenant(h)
         f == thread[h].name
     IN \/ thread[h].lost /\ UNCHANGED file
        \/ ~thread[h].lost /\ file' = [file EXCEPT ![n][f] = thread[h].text]
        \/ /\ ~thread[h].lost /\ file[n][f] \notin {Torn, thread[h].text}
           /\ file' = [file EXCEPT ![n][f] = Torn]
  /\ End(h)
  /\ UNCHANGED <<dirs, saved, gone>>

-----------------------------------------------------------------------------
(* delete_tenant_memory.                                                   *)

\* Another thread is at an operation that writes for the tenant.
Writing(n) == \E h \in Threads : Tenant(h) = n /\ thread[h].op \in {"set_config", "run"}

\* The deletion is reported.
Deleted(n) ==
  /\ gone' = IF Writing(n) THEN gone ELSE gone \cup {n}
  /\ saved' = [saved EXCEPT ![n] = IF Writing(n) THEN @ ELSE {}]

\* The directory does not exist.
DeleteAbsent(h, n) ==
  /\ At(h, "idle") /\ n \notin dirs
  /\ Deleted(n)
  /\ UNCHANGED <<dirs, file, thread>>

Delete(h, n) ==
  /\ At(h, "idle") /\ n \in dirs
  /\ Begin(h, "delete", n, "list")
  /\ UNCHANGED <<dirs, file, saved, gone>>

List(h) ==
  /\ At(h, "list") /\ Tenant(h) \in dirs
  /\ thread' = [thread EXCEPT ![h].pc = "unlink",
                              ![h].left = {f \in Names : file[Tenant(h)][f] # NoFile}]
  /\ UNCHANGED <<dirs, file, saved, gone>>

\* What a thread has open stays open and is lost to the directory.
Unlink(h, f) ==
  /\ At(h, "unlink") /\ f \in thread[h].left /\ file[Tenant(h)][f] # NoFile
  /\ file' = [file EXCEPT ![Tenant(h)][f] = NoFile]
  /\ thread' = [g \in Threads |->
       IF g = h THEN [thread[g] EXCEPT !.left = @ \ {f}]
       ELSE IF At(g, "fill") /\ Tenant(g) = Tenant(h) /\ thread[g].name = f
            THEN [thread[g] EXCEPT !.lost = TRUE]
       ELSE thread[g]]
  /\ UNCHANGED <<dirs, saved, gone>>

IsEmpty(n) == \A f \in Names : file[n][f] = NoFile

\* A fault: errors of rmtree are ignored.
MayRemoveAny(h) == TRUE

MayRemove(h) == Tenant(h) \in dirs /\ IsEmpty(Tenant(h))

RemoveDir(h) ==
  /\ At(h, "unlink") /\ thread[h].left = {} /\ MayRemove(h)
  /\ dirs' = IF IsEmpty(Tenant(h)) THEN dirs \ {Tenant(h)} ELSE dirs
  /\ End(h)
  /\ Deleted(Tenant(h))
  /\ UNCHANGED file

\* rmtree raises: another deletion was faster, or something was written.
DeleteFails(h) ==
  /\ \/ At(h, "list") /\ Tenant(h) \notin dirs
     \/ /\ At(h, "unlink")
        /\ IF thread[h].left = {} THEN ~MayRemove(h)
           ELSE \E f \in thread[h].left : file[Tenant(h)][f] = NoFile
  /\ Fail(h)

-----------------------------------------------------------------------------
\* The server dies and is started again.
Crash ==
  /\ \E h \in Threads : ~At(h, "idle")
  /\ thread' = [h \in Threads |-> Idle]
  /\ UNCHANGED <<dirs, file, saved, gone>>

Request(h) == \E n \in Tenants :
  \/ \E c \in Config : SetConfig(h, n, c)
  \/ RunOperation(h, n) \/ Delete(h, n) \/ DeleteAbsent(h, n)
  \/ \E op \in {"look", "search"} : Look(h, n, op)

Step(h) == \/ Load(h) \/ RunCommand(h) \/ Search(h) \/ CommandRaises(h) \/ Answer(h)
           \/ MakeDir(h) \/ Open(h) \/ OpenFails(h) \/ Fill(h)
           \/ List(h) \/ RemoveDir(h) \/ DeleteFails(h) \/ \E f \in Names : Unlink(h, f)

MemoryNext == Crash \/ \E h \in Threads : Request(h) \/ Step(h)

MemorySpec == MemoryInit /\ [][MemoryNext]_memoryVars

-----------------------------------------------------------------------------
Contexts == [mode : Modes, source : {"none", "mempalace", "native_only"},
             hits : BOOLEAN, fallback : {"none", "failed", "disabled"}]

\* The type of the state.  A file is in a directory.
MemoryTypeOK ==
  /\ dirs \in SUBSET Tenants
  /\ file \in [Tenants -> [Names -> Config \cup Reports \cup {NoFile, Torn}]]
  /\ thread \in [Threads ->
       [pc : {"idle", "load", "run", "search", "answered", "mkdir", "open", "fill",
              "list", "unlink"},
        op : {"none", "set_config", "run", "look", "search", "delete"},
        tenant : Tenants \cup {NoTenant}, config : Config \cup {NoConfig},
        name : Names, text : Config \cup Reports \cup {NoFile}, lost : BOOLEAN,
        left : SUBSET Names, context : Contexts]]
  /\ \A n \in Tenants \ dirs : IsEmpty(n)
  /\ saved \in [Tenants -> SUBSET Config]
  /\ gone \in SUBSET Tenants

\* What was deleted stays deleted until a request writes for the tenant again,
\* whatever reads and deletions run beside it (config.py:99-108;
\* docs/memory-deletion-workflows.md:9, 41-43).  An operation that is under way
\* when the deletion is reported does bring the directory back.
DeletedStaysDeleted ==
  \A n \in gone : n \notin dirs /\ \A f \in Names : file[n][f] = NoFile

\* An operation works with a configuration that was set for its tenant since the
\* tenant was deleted, whole, or with that of the environment: not with a part of
\* a file, another tenant's, or one that was deleted (config.py:62-75).
ConfigIsOwn ==
  [][\A h \in Threads : Load(h) =>
       thread'[h].config \in saved[Tenant(h)] \cup {EnvConfig}]_memoryVars

\* docs/mempalace-memory-modes.md:15-17 "off: MemPalace is not used for
\* retrieval, native platform records remain the only context source".
OffMeansOff ==
  \A h \in Threads : At(h, "answered") /\ thread[h].context.mode = "off"
                        => ~thread[h].context.hits
=============================================================================
