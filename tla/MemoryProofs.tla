---------------------------- MODULE MemoryProofs ----------------------------
(***************************************************************************)
(* The properties of TenantMemory that hold, for every set of tenants,     *)
(* threads and configurations.                                             *)
(***************************************************************************)
EXTENDS TenantMemory, TLAPS

ThreadStates ==
  [pc : {"idle", "load", "run", "search", "answered", "mkdir", "open", "fill",
         "list", "unlink"},
   op : {"none", "set_config", "run", "look", "search", "delete"},
   tenant : Tenants \cup {NoTenant}, config : Config \cup {NoConfig},
   name : Names, text : Config \cup Reports \cup {NoFile}, lost : BOOLEAN,
   left : SUBSET Names, context : Contexts]

\* What a thread is at, with its locals: an operation that writes has a text, the
\* configuration it was given or the report of a command.
Placed(s) ==
  /\ s.pc # "idle" => s.tenant \in Tenants
  /\ s.pc = "load" => s.op \in {"run", "look", "search"}
  /\ s.pc = "run" => s.op = "run"
  /\ s.pc \in {"search", "answered"} => s.op \in {"look", "search"}
  /\ s.pc \in {"list", "unlink"} => s.op = "delete"
  /\ s.pc \in {"run", "search"} => s.config \in Config
  /\ s.pc \in {"mkdir", "open", "fill"} =>
       \/ s.op = "set_config" /\ s.name = "config" /\ s.text \in Config
       \/ s.op = "run" /\ s.name = "status" /\ s.text \in Reports
  /\ s.op = "run" => s.name = "status" \/ s.pc = "load"
  /\ s.op = "set_config" => s.pc \in {"mkdir", "open", "fill"}

\* A file that is open and was not unlinked is in the directory; a configuration
\* in the directory, or on its way there, was set since the last deletion.
OpenOK == \A h \in Threads :
  At(h, "fill") /\ ~thread[h].lost => file[Tenant(h)][thread[h].name] # NoFile
SavedOK ==
  /\ \A n \in Tenants : file[n]["config"] \in Config => file[n]["config"] \in saved[n]
  /\ \A h \in Threads : thread[h].op = "set_config" => thread[h].text \in saved[Tenant(h)]

\* Of a tenant that is gone nothing is there, and nobody writes for it.
GoneOK == \A n \in gone : n \notin dirs /\ ~Writing(n)

IInv ==
  /\ MemoryTypeOK
  /\ \A h \in Threads : Placed(thread[h])
  /\ OpenOK /\ SavedOK /\ GoneOK

\* The empty thread is one.
LEMMA IdleTyped == Idle \in ThreadStates /\ Placed(Idle)
  BY DEF Idle, ThreadStates, Placed, NoContext, Contexts, Modes, Names, Reports

LEMMA InitInv == MemoryInit => IInv
<1> SUFFICES ASSUME MemoryInit PROVE IInv
  OBVIOUS
<1>1. \A h \in Threads : thread[h] = Idle
  BY DEF MemoryInit
<1>2. MemoryTypeOK
  <2>1. thread \in [Threads -> ThreadStates]
    BY IdleTyped DEF MemoryInit
  <2> QED
    BY <2>1 DEF MemoryInit, MemoryTypeOK, ThreadStates, IsEmpty
<1>3. OpenOK /\ SavedOK /\ GoneOK
  BY <1>1, MemoryAssumption DEF OpenOK, SavedOK, GoneOK, MemoryInit, At, Idle, Names
<1> QED
  BY <1>1, <1>2, <1>3, IdleTyped DEF IInv

-----------------------------------------------------------------------------
(* A step that changes nothing but where a thread is.                      *)

LEMMA ThreadStep ==
  ASSUME IInv, NEW h \in Threads, NEW s \in ThreadStates, Placed(s),
         thread' = [thread EXCEPT ![h] = s],
         UNCHANGED <<dirs, file, saved>>,
         gone' \in SUBSET gone,
         s.op \in {"set_config", "run"} => s.tenant \notin gone',
         s.op = "set_config" => s.text \in saved[s.tenant],
         s.pc = "fill" /\ ~s.lost => file[s.tenant][s.name] # NoFile
  PROVE  IInv'
<1> USE DEF IInv
<1>1. \A g \in Threads : thread'[g] = IF g = h THEN s ELSE thread[g]
  BY DEF MemoryTypeOK
<1>2. MemoryTypeOK'
  <2>1. thread' \in [Threads -> ThreadStates]
    BY DEF MemoryTypeOK, ThreadStates
  <2>2. gone' \in SUBSET Tenants
    BY DEF MemoryTypeOK
  <2> QED
    BY <2>1, <2>2 DEF MemoryTypeOK, ThreadStates, IsEmpty
<1>3. (\A g \in Threads : Placed(thread[g]))'
  BY <1>1 DEF Placed
<1>4. OpenOK'
  BY <1>1 DEF OpenOK, At, Tenant
<1>5. SavedOK'
  BY <1>1 DEF SavedOK, Tenant
<1>6. GoneOK'
  BY <1>1 DEF GoneOK, Writing, Tenant
<1> QED
  BY <1>2, <1>3, <1>4, <1>5, <1>6

LEMMA CurrentThread ==
  ASSUME IInv, NEW h \in Threads
  PROVE  thread[h] \in ThreadStates /\ Placed(thread[h])
  BY DEF IInv, MemoryTypeOK, ThreadStates

\* A request or a step that ends.
LEMMA EndKeeps ==
  ASSUME IInv, NEW h \in Threads, Fail(h)
  PROVE  IInv'
<1>1. Idle.op = "none" /\ Idle.pc = "idle"
  BY DEF Idle
<1> QED
  BY <1>1, IdleTyped, ThreadStep DEF Fail, End

LEMMA LookKeeps ==
  ASSUME IInv, NEW h \in Threads, NEW n \in Tenants,
         RunOperation(h, n) \/ (\E op \in {"look", "search"} : Look(h, n, op)) \/ Delete(h, n)
  PROVE  IInv'
<1>1. PICK op \in {"run", "look", "search", "delete"}, pc \in {"load", "list"} :
        /\ thread' = [thread EXCEPT ![h] = [Idle EXCEPT !.op = op, !.tenant = n, !.pc = pc]]
        /\ UNCHANGED <<dirs, file, saved>>
        /\ gone' = IF op = "run" THEN gone \ {n} ELSE gone
        /\ op = "delete" <=> pc = "list"
  BY DEF RunOperation, Look, Delete, Begin
<1> DEFINE s == [Idle EXCEPT !.op = op, !.tenant = n, !.pc = pc]
<1>2. s \in ThreadStates /\ Placed(s) /\ s.op = op /\ s.pc = pc /\ s.tenant = n
  BY <1>1 DEF Idle, ThreadStates, Placed, NoContext, Contexts, Modes, Names
<1>3. gone' \in SUBSET gone /\ (s.op \in {"set_config", "run"} => s.tenant \notin gone')
  BY <1>1, <1>2
<1> HIDE DEF s
<1>4. thread' = [thread EXCEPT ![h] = s]
  BY <1>1 DEF s
<1> QED
  BY <1>1, <1>2, <1>3, <1>4, ThreadStep

LEMMA LoadKeeps ==
  ASSUME IInv, NEW h \in Threads, Load(h)
  PROVE  IInv'
<1> DEFINE c == Loaded(Tenant(h))
           s == WithConfig(thread[h], c)
<1>1. thread' = [thread EXCEPT ![h] = s] /\ UNCHANGED <<dirs, file, saved, gone>>
  BY DEF Load
<1>2. thread[h] \in ThreadStates /\ Placed(thread[h]) /\ At(h, "load")
  BY CurrentThread DEF Load
<1>3. c \in Config
  BY MemoryAssumption DEF Loaded
<1>4. s \in ThreadStates /\ Placed(s)
  BY <1>2, <1>3 DEF ThreadStates, Placed, Names, Reports, At, WithConfig
<1>5. s.op = thread[h].op /\ s.tenant = thread[h].tenant /\ s.op # "set_config" /\ s.pc # "fill"
  BY <1>2 DEF ThreadStates, Placed, At, WithConfig
<1>6. s.op \in {"set_config", "run"} => s.tenant \notin gone
  BY <1>5 DEF IInv, GoneOK, Writing, Tenant
<1> HIDE DEF s
<1> QED
  BY <1>1, <1>4, <1>5, <1>6, ThreadStep

LEMMA CommandKeeps ==
  ASSUME IInv, NEW h \in Threads, RunCommand(h) \/ Search(h)
  PROVE  IInv'
<1>1. thread[h] \in ThreadStates /\ Placed(thread[h])
  BY CurrentThread
<1>2. CASE RunCommand(h)
  <2>1. PICK report \in {"ok", "failed"} :
          thread' = [thread EXCEPT ![h] = [@ EXCEPT !.pc = "mkdir", !.text = report]]
    BY <1>2 DEF RunCommand, CommandReports
  <2> DEFINE s == [thread[h] EXCEPT !.pc = "mkdir", !.text = report]
  <2>2. s \in ThreadStates /\ Placed(s)
    BY <1>1, <1>2 DEF ThreadStates, Placed, Reports, At, RunCommand
  <2>3. s.op = "run" /\ thread[h].op = "run" /\ s.tenant = thread[h].tenant /\ s.pc = "mkdir"
    BY <1>1, <1>2 DEF ThreadStates, Placed, RunCommand, At
  <2>4. s.tenant \notin gone
    BY <2>3 DEF IInv, GoneOK, Writing, Tenant
  <2>5. thread' = [thread EXCEPT ![h] = s] /\ UNCHANGED <<dirs, file, saved, gone>>
    BY <1>2, <2>1 DEF RunCommand
  <2> HIDE DEF s
  <2> QED
    BY <2>2, <2>3, <2>4, <2>5, ThreadStep
<1>3. CASE Search(h)
  <2>1. PICK x : x \in Contexts /\ thread' = [thread EXCEPT ![h] = [@ EXCEPT !.pc = "answered", !.context = x]]
    <3>1. thread[h].config \in Config
      BY <1>1, <1>3 DEF Search, Placed, At
    <3>2. \A ok, hits \in BOOLEAN : Context(thread[h].config, ok, hits) \in Contexts
      BY <3>1, MemoryAssumption DEF Context, Contexts
    <3> QED
      BY <3>2, <1>3 DEF Search
  <2> DEFINE s == [thread[h] EXCEPT !.pc = "answered", !.context = x]
  <2>2. s \in ThreadStates /\ Placed(s)
    BY <1>1, <1>3, <2>1 DEF ThreadStates, Placed, At, Search
  <2>3. s.op \notin {"set_config", "run"} /\ s.pc = "answered"
    BY <1>1, <1>3 DEF ThreadStates, Placed, Search, At
  <2>5. thread' = [thread EXCEPT ![h] = s] /\ UNCHANGED <<dirs, file, saved, gone>>
    BY <1>3, <2>1 DEF Search
  <2> HIDE DEF s
  <2> QED
    BY <2>2, <2>3, <2>5, ThreadStep
<1> QED
  BY <1>2, <1>3

LEMMA OpenFailsKeeps ==
  ASSUME IInv, NEW h \in Threads, OpenFails(h)
  PROVE  IInv'
<1>1. thread[h] \in ThreadStates /\ Placed(thread[h])
  BY CurrentThread
<1>2. CASE thread[h].text # "ok"
  BY <1>2, EndKeeps DEF OpenFails, Fail
<1>3. CASE thread[h].text = "ok"
  <2> DEFINE s == [thread[h] EXCEPT !.pc = "mkdir", !.text = "failed"]
  <2>1. thread[h].op = "run"
    BY <1>1, <1>3, MemoryAssumption DEF OpenFails, Placed, At, Reports
  <2>2. s \in ThreadStates /\ Placed(s)
    BY <1>1, <2>1 DEF ThreadStates, Placed, At, OpenFails, Reports
  <2>3. s.op = "run" /\ s.tenant = thread[h].tenant /\ s.pc = "mkdir"
    BY <1>1, <2>1 DEF ThreadStates
  <2>4. s.tenant \notin gone
    BY <2>1, <2>3 DEF IInv, GoneOK, Writing, Tenant
  <2>5. thread' = [thread EXCEPT ![h] = s] /\ UNCHANGED <<dirs, file, saved, gone>>
    BY <1>3 DEF OpenFails
  <2> HIDE DEF s
  <2> QED
    BY <2>2, <2>3, <2>4, <2>5, ThreadStep
<1> QED
  BY <1>2, <1>3

LEMMA ListKeeps ==
  ASSUME IInv, NEW h \in Threads, List(h)
  PROVE  IInv'
<1> DEFINE s == [thread[h] EXCEPT !.pc = "unlink",
                                  !.left = {f \in Names : file[Tenant(h)][f] # NoFile}]
<1>1. thread[h] \in ThreadStates /\ Placed(thread[h])
  BY CurrentThread
<1>2. s \in ThreadStates /\ Placed(s)
  BY <1>1 DEF ThreadStates, Placed, At, List
<1>3. s.op = "delete" /\ s.pc = "unlink"
  BY <1>1 DEF ThreadStates, Placed, At, List
<1>4. thread' = [thread EXCEPT ![h] = s] /\ UNCHANGED <<dirs, file, saved, gone>>
  BY DEF List
<1> HIDE DEF s
<1> QED
  BY <1>2, <1>3, <1>4, ThreadStep

-----------------------------------------------------------------------------
(* Steps that change files, directories or the history.                    *)

\* A configuration is set: the tenant is not gone any more.
LEMMA SetConfigKeeps ==
  ASSUME IInv, NEW h \in Threads, NEW n \in Tenants, NEW c \in Config, SetConfig(h, n, c)
  PROVE  IInv'
<1> USE DEF IInv
<1> DEFINE s == [Idle EXCEPT !.op = "set_config", !.tenant = n, !.pc = "mkdir", !.text = c]
<1>1. s \in ThreadStates /\ Placed(s)
  BY DEF Idle, ThreadStates, Placed, NoContext, Contexts, Modes, Names
<1>2. s.op = "set_config" /\ s.pc = "mkdir" /\ s.tenant = n /\ s.text = c
  BY DEF Idle
<1>3. thread' = [thread EXCEPT ![h] = s]
  BY DEF SetConfig
<1> HIDE DEF s
<1>4. \A g \in Threads : thread'[g] = IF g = h THEN s ELSE thread[g]
  BY <1>3 DEF MemoryTypeOK
<1>5. MemoryTypeOK'
  <2>1. thread' \in [Threads -> ThreadStates]
    BY <1>1, <1>3 DEF MemoryTypeOK, ThreadStates
  <2> QED
    BY <2>1 DEF MemoryTypeOK, ThreadStates, IsEmpty, SetConfig
<1>6. (\A g \in Threads : Placed(thread[g]))'
  BY <1>1, <1>4 DEF Placed
<1>7. OpenOK'
  BY <1>2, <1>4 DEF OpenOK, At, Tenant, SetConfig
<1>8. SavedOK'
  <2>1. \A m \in Tenants : saved'[m] = IF m = n THEN saved[m] \cup {c} ELSE saved[m]
    BY DEF SetConfig, MemoryTypeOK
  <2>2. \A g \in Threads : thread[g].op = "set_config" => Tenant(g) \in Tenants
    BY DEF Placed, Tenant
  <2>3. (\A m \in Tenants : file[m]["config"] \in Config => file[m]["config"] \in saved[m])'
    BY <2>1 DEF SavedOK, SetConfig
  <2>4. (\A g \in Threads : thread[g].op = "set_config" => thread[g].text \in saved[Tenant(g)])'
    <3> SUFFICES ASSUME NEW g \in Threads, thread'[g].op = "set_config"
                 PROVE  thread'[g].text \in saved'[thread'[g].tenant]
      BY DEF Tenant
    <3>1. CASE g = h
      <4>1. thread'[g].text = c /\ thread'[g].tenant = n
        BY <3>1, <1>2, <1>4
      <4> QED
        BY <4>1, <2>1
    <3>2. CASE g # h
      <4>1. thread'[g] = thread[g]
        BY <3>2, <1>4
      <4>2. Tenant(g) \in Tenants /\ thread[g].text \in saved[Tenant(g)]
        BY <4>1, <2>2 DEF SavedOK
      <4> QED
        BY <4>1, <4>2, <2>1 DEF Tenant
    <3> QED
      BY <3>1, <3>2
  <2> QED
    BY <2>3, <2>4 DEF SavedOK
<1>9. GoneOK'
  BY <1>2, <1>4 DEF GoneOK, Writing, Tenant, SetConfig
<1> QED
  BY <1>5, <1>6, <1>7, <1>8, <1>9

\* A thread at a step that writes is one that writes for its tenant.
LEMMA WriterWrites ==
  ASSUME IInv, NEW h \in Threads, thread[h].pc \in {"mkdir", "open", "fill"}
  PROVE  Tenant(h) \in Tenants /\ Writing(Tenant(h)) /\ Tenant(h) \notin gone
  BY DEF IInv, Placed, Writing, GoneOK, Tenant

LEMMA MakeDirKeeps ==
  ASSUME IInv, NEW h \in Threads, MakeDir(h)
  PROVE  IInv'
<1> USE DEF IInv
<1> DEFINE s == [thread[h] EXCEPT !.pc = "open"]
<1>1. thread[h] \in ThreadStates /\ Placed(thread[h]) /\ thread[h].pc = "mkdir"
  BY CurrentThread DEF MakeDir, At
<1>2. s \in ThreadStates /\ Placed(s) /\ s.op = thread[h].op /\ s.tenant = Tenant(h)
      /\ s.pc = "open" /\ s.text = thread[h].text
  BY <1>1 DEF ThreadStates, Placed, Tenant
<1>3. thread' = [thread EXCEPT ![h] = s]
  BY DEF MakeDir, Goto
<1> HIDE DEF s
<1>4. \A g \in Threads : thread'[g] = IF g = h THEN s ELSE thread[g]
  BY <1>3 DEF MemoryTypeOK
<1>5. Tenant(h) \in Tenants /\ Tenant(h) \notin gone
  BY <1>1, WriterWrites
<1>6. MemoryTypeOK'
  <2>1. thread' \in [Threads -> ThreadStates]
    BY <1>2, <1>3 DEF MemoryTypeOK, ThreadStates
  <2> QED
    BY <2>1, <1>5 DEF MemoryTypeOK, ThreadStates, IsEmpty, MakeDir
<1>7. (\A g \in Threads : Placed(thread[g]))'
  BY <1>2, <1>4 DEF Placed
<1>8. OpenOK'
  BY <1>2, <1>4 DEF OpenOK, At, Tenant, MakeDir
<1>9. SavedOK'
  BY <1>2, <1>4 DEF SavedOK, Tenant, MakeDir
<1>10. GoneOK'
  BY <1>2, <1>4, <1>5 DEF GoneOK, Writing, Tenant, MakeDir
<1> QED
  BY <1>6, <1>7, <1>8, <1>9, <1>10

LEMMA OpenKeeps ==
  ASSUME IInv, NEW h \in Threads, Open(h)
  PROVE  IInv'
<1> USE DEF IInv
<1> DEFINE s == [thread[h] EXCEPT !.pc = "fill"]
           n == Tenant(h)
           f == thread[h].name
<1>1. thread[h] \in ThreadStates /\ Placed(thread[h]) /\ thread[h].pc = "open"
  BY CurrentThread DEF Open, At
<1>2. s \in ThreadStates /\ Placed(s) /\ s.op = thread[h].op /\ s.tenant = n
      /\ s.pc = "fill" /\ s.text = thread[h].text /\ s.name = f
  BY <1>1 DEF ThreadStates, Placed, Tenant
<1>3. thread' = [thread EXCEPT ![h] = s]
  BY DEF Open, Goto
<1> HIDE DEF s
<1>4. \A g \in Threads : thread'[g] = IF g = h THEN s ELSE thread[g]
  BY <1>3 DEF MemoryTypeOK
<1>5. n \in Tenants /\ n \notin gone /\ f \in Names /\ n \in dirs
  BY <1>1, WriterWrites DEF ThreadStates, Open
<1>6. \A m \in Tenants, e \in Names :
        file'[m][e] = IF m = n /\ e = f THEN Torn ELSE file[m][e]
  BY <1>5 DEF Open, MemoryTypeOK
<1>7. MemoryTypeOK'
  <2>1. thread' \in [Threads -> ThreadStates]
    BY <1>2, <1>3 DEF MemoryTypeOK, ThreadStates
  <2>2. file' \in [Tenants -> [Names -> Config \cup Reports \cup {NoFile, Torn}]]
    BY <1>5 DEF Open, MemoryTypeOK
  <2>3. (\A m \in Tenants \ dirs : IsEmpty(m))'
    BY <1>5, <1>6 DEF MemoryTypeOK, IsEmpty, Open
  <2> QED
    BY <2>1, <2>2, <2>3 DEF MemoryTypeOK, ThreadStates, Open
<1>8. (\A g \in Threads : Placed(thread[g]))'
  BY <1>2, <1>4 DEF Placed
<1>9. OpenOK'
  <2>1. \A g \in Threads : thread[g].pc = "fill" => Tenant(g) \in Tenants /\ thread[g].name \in Names
    BY WriterWrites, CurrentThread DEF ThreadStates
  <2> QED
    BY <2>1, <1>2, <1>4, <1>5, <1>6, MemoryAssumption DEF OpenOK, At, Tenant
<1>10. SavedOK'
  BY <1>2, <1>4, <1>5, <1>6, MemoryAssumption DEF SavedOK, Tenant, Open, Names
<1>11. GoneOK'
  BY <1>2, <1>4, <1>5 DEF GoneOK, Writing, Tenant, Open
<1> QED
  BY <1>7, <1>8, <1>9, <1>10, <1>11

LEMMA FillKeeps ==
  ASSUME IInv, NEW h \in Threads, Fill(h)
  PROVE  IInv'
<1> USE DEF IInv
<1> DEFINE n == Tenant(h)
           f == thread[h].name
           text == thread[h].text
<1>1. thread[h] \in ThreadStates /\ Placed(thread[h]) /\ thread[h].pc = "fill"
  BY CurrentThread DEF Fill, At
<1>2. thread' = [thread EXCEPT ![h] = Idle]
  BY DEF Fill, End
<1>3. \A g \in Threads : thread'[g] = IF g = h THEN Idle ELSE thread[g]
  BY <1>2 DEF MemoryTypeOK
<1>4. n \in Tenants /\ n \notin gone /\ f \in Names /\ text \in Config \cup Reports
  BY <1>1, WriterWrites DEF ThreadStates, Placed
<1>5. PICK x \in Config \cup Reports \cup {NoFile, Torn} :
        /\ file' = [file EXCEPT ![n][f] = x]
        /\ x = file[n][f] \/ (~thread[h].lost /\ (x = text \/ x = Torn))
  <2>1. file = [file EXCEPT ![n][f] = file[n][f]] /\ file[n][f] \in Config \cup Reports \cup {NoFile, Torn}
    BY <1>4 DEF MemoryTypeOK
  <2> QED
    BY <2>1, <1>4 DEF Fill
<1>6. \A m \in Tenants, e \in Names :
        file'[m][e] = IF m = n /\ e = f THEN x ELSE file[m][e]
  BY <1>4, <1>5 DEF MemoryTypeOK
<1>7. file[n][f] = NoFile => x = NoFile
  BY <1>1, <1>5 DEF OpenOK, At
<1>8. file[n][f] # NoFile => x # NoFile
  BY <1>4, <1>5, MemoryAssumption
<1>9. MemoryTypeOK'
  <2>1. thread' \in [Threads -> ThreadStates]
    BY <1>2, IdleTyped DEF MemoryTypeOK, ThreadStates
  <2>2. file' \in [Tenants -> [Names -> Config \cup Reports \cup {NoFile, Torn}]]
    BY <1>4, <1>5 DEF MemoryTypeOK
  <2>3. (\A m \in Tenants \ dirs : IsEmpty(m))'
    BY <1>4, <1>6, <1>7 DEF MemoryTypeOK, IsEmpty, Fill
  <2> QED
    BY <2>1, <2>2, <2>3 DEF MemoryTypeOK, ThreadStates, Fill
<1>10. (\A g \in Threads : Placed(thread[g]))'
  BY <1>3, IdleTyped DEF Placed
<1>11. OpenOK'
  <2>1. \A g \in Threads : thread[g].pc = "fill" => Tenant(g) \in Tenants /\ thread[g].name \in Names
    BY WriterWrites, CurrentThread DEF ThreadStates
  <2> QED
    BY <2>1, <1>3, <1>4, <1>6, <1>8 DEF OpenOK, At, Tenant, Idle
<1>12. SavedOK'
  <2>1. x \in Config /\ f = "config" => x \in saved[n]
    BY <1>1, <1>4, <1>5, MemoryAssumption DEF SavedOK, Placed, Tenant
  <2>2. \A m \in Tenants : file'[m]["config"] \in Config => file'[m]["config"] \in saved[m]
    BY <2>1, <1>4, <1>6 DEF SavedOK, Names
  <2> QED
    BY <2>2, <1>3 DEF SavedOK, Tenant, Fill, Idle
<1>13. GoneOK'
  BY <1>3 DEF GoneOK, Writing, Tenant, Fill, Idle
<1> QED
  BY <1>9, <1>10, <1>11, <1>12, <1>13

\* What a reported deletion does to the history.
LEMMA DeletedHistory ==
  ASSUME IInv, NEW n \in Tenants, Deleted(n)
  PROVE  /\ saved' \in [Tenants -> SUBSET Config] /\ gone' \in SUBSET Tenants
         /\ \A m \in Tenants : m # n \/ Writing(n) => saved'[m] = saved[m]
         /\ gone' \subseteq gone \cup {n}
         /\ n \in gone' => ~Writing(n)
  BY DEF IInv, MemoryTypeOK, Deleted, GoneOK

LEMMA DeleteAbsentKeeps ==
  ASSUME IInv, NEW h \in Threads, NEW n \in Tenants, DeleteAbsent(h, n)
  PROVE  IInv'
<1> USE DEF IInv
<1>1. /\ saved' \in [Tenants -> SUBSET Config] /\ gone' \in SUBSET Tenants
      /\ \A m \in Tenants : m # n \/ Writing(n) => saved'[m] = saved[m]
      /\ gone' \subseteq gone \cup {n}
      /\ n \in gone' => ~Writing(n)
  BY DeletedHistory DEF DeleteAbsent
<1>2. UNCHANGED <<dirs, file, thread>> /\ n \notin dirs
  BY DEF DeleteAbsent
<1>3. MemoryTypeOK'
  BY <1>1, <1>2 DEF MemoryTypeOK, IsEmpty
<1>4. (\A g \in Threads : Placed(thread[g]))' /\ OpenOK'
  BY <1>2 DEF Placed, OpenOK, At, Tenant
<1>5. SavedOK'
  <2>1. file[n]["config"] \notin Config
    BY <1>2, MemoryAssumption DEF MemoryTypeOK, IsEmpty, Names
  <2>2. \A g \in Threads : thread[g].op = "set_config" => Tenant(g) \in Tenants /\ Writing(Tenant(g))
    BY DEF Placed, Writing, Tenant
  <2>3. (\A m \in Tenants : file[m]["config"] \in Config => file[m]["config"] \in saved[m])'
    BY <1>1, <1>2, <2>1 DEF SavedOK
  <2>4. (\A g \in Threads : thread[g].op = "set_config" => thread[g].text \in saved[Tenant(g)])'
    BY <1>1, <1>2, <2>2 DEF SavedOK, Tenant
  <2> QED
    BY <2>3, <2>4 DEF SavedOK
<1>6. GoneOK'
  BY <1>1, <1>2 DEF GoneOK, Writing, Tenant
<1> QED
  BY <1>3, <1>4, <1>5, <1>6

LEMMA UnlinkKeeps ==
  ASSUME IInv, NEW h \in Threads, NEW f \in Names, Unlink(h, f)
  PROVE  IInv'
<1> USE DEF IInv
<1> DEFINE n == Tenant(h)
<1>1. thread[h] \in ThreadStates /\ Placed(thread[h]) /\ thread[h].pc = "unlink" /\ n \in Tenants
  BY CurrentThread DEF Unlink, At, Placed, Tenant
<1>2. \A m \in Tenants, e \in Names :
        file'[m][e] = IF m = n /\ e = f THEN NoFile ELSE file[m][e]
  BY <1>1 DEF Unlink, MemoryTypeOK
<1>3. \A g \in Threads :
        /\ thread'[g] \in ThreadStates /\ Placed(thread'[g])
        /\ thread'[g].op = thread[g].op /\ thread'[g].tenant = thread[g].tenant
        /\ thread'[g].text = thread[g].text /\ thread'[g].name = thread[g].name
        /\ thread'[g].pc = thread[g].pc
        /\ thread'[g].lost \/ ~(At(g, "fill") /\ Tenant(g) = n /\ thread[g].name = f)
        /\ thread[g].lost => thread'[g].lost
  <2> SUFFICES ASSUME NEW g \in Threads
               PROVE  /\ thread'[g] \in ThreadStates /\ Placed(thread'[g])
                      /\ thread'[g].op = thread[g].op /\ thread'[g].tenant = thread[g].tenant
                      /\ thread'[g].text = thread[g].text /\ thread'[g].name = thread[g].name
                      /\ thread'[g].pc = thread[g].pc
                      /\ thread'[g].lost \/ ~(At(g, "fill") /\ Tenant(g) = n /\ thread[g].name = f)
                      /\ thread[g].lost => thread'[g].lost
    OBVIOUS
  <2>1. thread[g] \in ThreadStates /\ Placed(thread[g])
    BY CurrentThread
  <2>2. thread'[g] \in {thread[g], [thread[g] EXCEPT !.left = @ \ {f}], [thread[g] EXCEPT !.lost = TRUE]}
    BY DEF Unlink
  <2>3. g # h /\ At(g, "fill") /\ Tenant(g) = n /\ thread[g].name = f
          => thread'[g] = [thread[g] EXCEPT !.lost = TRUE]
    BY DEF Unlink
  <2>4. ~At(h, "fill")
    BY <1>1 DEF At
  <2>5. \A r \in {thread[g], [thread[g] EXCEPT !.left = @ \ {f}], [thread[g] EXCEPT !.lost = TRUE]} :
          /\ r \in ThreadStates
          /\ r.op = thread[g].op /\ r.tenant = thread[g].tenant /\ r.text = thread[g].text
          /\ r.name = thread[g].name /\ r.pc = thread[g].pc /\ r.config = thread[g].config
          /\ thread[g].lost => r.lost
    BY <2>1 DEF ThreadStates
  <2>6. Placed(thread'[g])
    BY <2>1, <2>2, <2>5 DEF Placed
  <2>7. thread'[g].lost \/ ~(At(g, "fill") /\ Tenant(g) = n /\ thread[g].name = f)
    BY <2>1, <2>3, <2>4 DEF ThreadStates
  <2> QED
    BY <2>2, <2>5, <2>6, <2>7
<1>4. MemoryTypeOK'
  <2>1. thread' \in [Threads -> ThreadStates]
    BY <1>3 DEF Unlink
  <2>2. file' \in [Tenants -> [Names -> Config \cup Reports \cup {NoFile, Torn}]]
    BY <1>1 DEF Unlink, MemoryTypeOK
  <2>3. (\A m \in Tenants \ dirs : IsEmpty(m))'
    BY <1>2 DEF MemoryTypeOK, IsEmpty, Unlink
  <2> QED
    BY <2>1, <2>2, <2>3 DEF MemoryTypeOK, ThreadStates, Unlink
<1>5. (\A g \in Threads : Placed(thread[g]))'
  BY <1>3
<1>6. OpenOK'
  <2>1. \A g \in Threads : thread[g].pc = "fill" => Tenant(g) \in Tenants /\ thread[g].name \in Names
    BY WriterWrites, CurrentThread DEF ThreadStates
  <2> QED
    BY <2>1, <1>2, <1>3 DEF OpenOK, At, Tenant
<1>7. SavedOK'
  <2>1. (\A m \in Tenants : file[m]["config"] \in Config => file[m]["config"] \in saved[m])'
    BY <1>2, MemoryAssumption DEF SavedOK, Unlink, Names
  <2>2. (\A g \in Threads : thread[g].op = "set_config" => thread[g].text \in saved[Tenant(g)])'
    BY <1>3 DEF SavedOK, Unlink, Tenant
  <2> QED
    BY <2>1, <2>2 DEF SavedOK
<1>8. GoneOK'
  BY <1>3 DEF GoneOK, Writing, Tenant, Unlink
<1> QED
  BY <1>4, <1>5, <1>6, <1>7, <1>8

LEMMA RemoveDirKeeps ==
  ASSUME IInv, NEW h \in Threads, RemoveDir(h)
  PROVE  IInv'
<1> USE DEF IInv
<1> DEFINE n == Tenant(h)
<1>1. thread[h] \in ThreadStates /\ Placed(thread[h]) /\ thread[h].op = "delete" /\ n \in Tenants
  BY CurrentThread DEF RemoveDir, At, Placed, Tenant
<1>2. IsEmpty(n) /\ dirs' = dirs \ {n} /\ thread' = [thread EXCEPT ![h] = Idle] /\ UNCHANGED file
  BY DEF RemoveDir, MayRemove, End
<1>3. \A g \in Threads : thread'[g] = IF g = h THEN Idle ELSE thread[g]
  BY <1>2 DEF MemoryTypeOK
<1>4. /\ saved' \in [Tenants -> SUBSET Config] /\ gone' \in SUBSET Tenants
      /\ \A m \in Tenants : m # n \/ Writing(n) => saved'[m] = saved[m]
      /\ gone' \subseteq gone \cup {n}
      /\ n \in gone' => ~Writing(n)
  BY <1>1, DeletedHistory DEF RemoveDir
<1>5. MemoryTypeOK'
  <2>1. thread' \in [Threads -> ThreadStates]
    BY <1>2, IdleTyped DEF MemoryTypeOK, ThreadStates
  <2> QED
    BY <2>1, <1>2, <1>4 DEF MemoryTypeOK, ThreadStates, IsEmpty
<1>6. (\A g \in Threads : Placed(thread[g]))' /\ OpenOK'
  BY <1>2, <1>3, IdleTyped DEF Placed, OpenOK, At, Tenant, Idle
<1>7. SavedOK'
  <2>1. file[n]["config"] \notin Config
    BY <1>2, MemoryAssumption DEF IsEmpty, Names
  <2>2. \A g \in Threads : thread[g].op = "set_config" => Tenant(g) \in Tenants /\ Writing(Tenant(g))
    BY DEF Placed, Writing, Tenant
  <2>3. (\A m \in Tenants : file[m]["config"] \in Config => file[m]["config"] \in saved[m])'
    BY <1>2, <1>4, <2>1 DEF SavedOK
  <2>4. (\A g \in Threads : thread[g].op = "set_config" => thread[g].text \in saved[Tenant(g)])'
    BY <1>3, <1>4, <2>2 DEF SavedOK, Tenant, Idle
  <2> QED
    BY <2>3, <2>4 DEF SavedOK
<1>8. GoneOK'
  BY <1>2, <1>3, <1>4 DEF GoneOK, Writing, Tenant, Idle
<1> QED
  BY <1>5, <1>6, <1>7, <1>8

LEMMA CrashKeeps ==
  ASSUME IInv, Crash
  PROVE  IInv'
<1> USE DEF IInv
<1>1. \A g \in Threads : thread'[g] = Idle
  BY DEF Crash
<1>2. thread' \in [Threads -> ThreadStates]
  BY IdleTyped DEF Crash
<1>3. MemoryTypeOK'
  BY <1>2 DEF MemoryTypeOK, ThreadStates, IsEmpty, Crash
<1>4. (\A g \in Threads : Placed(thread[g]))' /\ OpenOK'
  BY <1>1, IdleTyped DEF OpenOK, At, Idle
<1>5. SavedOK' /\ GoneOK'
  BY <1>1 DEF SavedOK, GoneOK, Writing, Crash, Idle
<1> QED
  BY <1>3, <1>4, <1>5

-----------------------------------------------------------------------------
LEMMA NextKeeps == IInv /\ [MemoryNext]_memoryVars => IInv'
<1> SUFFICES ASSUME IInv, [MemoryNext]_memoryVars PROVE IInv'
  OBVIOUS
<1>1. CASE UNCHANGED memoryVars
  BY <1>1 DEF memoryVars, IInv, MemoryTypeOK, IsEmpty, Placed, OpenOK, SavedOK, GoneOK,
              Writing, At, Tenant
<1>2. CASE Crash
  BY <1>2, CrashKeeps
<1>3. ASSUME NEW h \in Threads, Request(h) PROVE IInv'
  BY <1>3, SetConfigKeeps, LookKeeps, DeleteAbsentKeeps DEF Request
<1>4. ASSUME NEW h \in Threads, Step(h) PROVE IInv'
  <2>1. CommandRaises(h) \/ Answer(h) \/ DeleteFails(h) => Fail(h)
    BY DEF CommandRaises, Answer, DeleteFails
  <2> QED
    BY <1>4, <2>1, EndKeeps, LoadKeeps, CommandKeeps, MakeDirKeeps, OpenKeeps, OpenFailsKeeps,
       FillKeeps, ListKeeps, RemoveDirKeeps, UnlinkKeeps DEF Step
<1> QED
  BY <1>1, <1>2, <1>3, <1>4 DEF MemoryNext

LEMMA Invariance == MemorySpec => []IInv
<1> QED
  BY InitInv, NextKeeps, PTL DEF MemorySpec

\* The state has its type, and files are in directories.
THEOREM MemoryTypeCorrect == MemorySpec => []MemoryTypeOK
<1>1. IInv => MemoryTypeOK
  BY DEF IInv
<1> QED
  BY <1>1, Invariance, PTL

\* Whatever deletions, reads, failures and crashes run beside each other, what a
\* reported deletion removed is not there until a request writes for the tenant
\* (config.py:99-108).
THEOREM DeletedStaysDeletedHolds == MemorySpec => []DeletedStaysDeleted
<1>1. IInv => DeletedStaysDeleted
  BY DEF IInv, GoneOK, MemoryTypeOK, IsEmpty, DeletedStaysDeleted
<1> QED
  BY <1>1, Invariance, PTL

\* No operation works with a configuration of another tenant, a deleted one, or a
\* part of one (config.py:62-75).
THEOREM ConfigIsOwnHolds == MemorySpec => ConfigIsOwn
<1> DEFINE A == \A h \in Threads : Load(h) =>
                  thread'[h].config \in saved[Tenant(h)] \cup {EnvConfig}
<1>1. IInv /\ [MemoryNext]_memoryVars => [A]_memoryVars
  <2> SUFFICES ASSUME IInv, NEW h \in Threads, Load(h)
               PROVE  thread'[h].config \in saved[Tenant(h)] \cup {EnvConfig}
    OBVIOUS
  <2>1. thread[h] \in ThreadStates /\ Placed(thread[h]) /\ Tenant(h) \in Tenants
    BY CurrentThread DEF Load, At, Placed, Tenant
  <2>2. thread'[h] = WithConfig(thread[h], Loaded(Tenant(h)))
    BY DEF Load, IInv, MemoryTypeOK
  <2>3. thread'[h].config = Loaded(Tenant(h))
    BY <2>1, <2>2 DEF WithConfig, ThreadStates
  <2> QED
    BY <2>1, <2>3 DEF Loaded, IInv, SavedOK
<1> QED
  BY <1>1, Invariance, PTL DEF ConfigIsOwn, MemorySpec
=============================================================================
