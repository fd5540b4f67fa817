------------------------------- MODULE Stores -------------------------------
(***************************************************************************)
(* The two implementations of store.Store, driven by the same calls: the   *)
(* maps of pkg/store/memory/store.go and the tables of                     *)
(* pkg/store/sql/store.go with the schema of migrations/001_initial.sql.   *)
(*                                                                         *)
(* The memory store keeps the caller's record, so what the caller changes  *)
(* in it is stored at once; it never fails and checks nothing.  The SQL    *)
(* store copies, writes some columns only, checks keys and references, and *)
(* may fail.  Calls are made as the program makes them: a record read,     *)
(* changed and written back, or built anew and written.                    *)
(*                                                                         *)
(* The program names a job after its case (internal/queue/worker.go,       *)
(* Enqueue): the id of the case stands for that of its job.  Times, titles,*)
(* users, pins, payloads and durations are left out.                       *)
(***************************************************************************)
EXTENDS Naturals, FiniteSets

CONSTANTS
  Processes, Versions,    \* ids and definitions of processes
  Instances, Variables,   \* ids of instances and values of their variables
  Flows, Threads, Letters, Entries,         \* ids, thread indices
  Callers,                \* goroutines that hold a record
  Openings,               \* what both stores hold at first
  Mixes,                  \* bound: the tables the calls of one behaviour change
  Limit,                  \* the limit of GetPendingJobs and ListDeadLetters
  MaxCalls, MaxLost,      \* bounds: calls, failed SQL writes
  None

ASSUME StoresAssumption ==
  /\ MaxCalls \in Nat /\ MaxLost \in Nat /\ Limit \in Nat \ {0}

VARIABLES
  mem,     \* the memory store
  sql,     \* the SQL store
  held,    \* by caller: the record it holds, or None
  lost,    \* history: rows with a change that did not reach the SQL store
  raced,   \* history: rows two callers held at once, jobs created twice
  mix,     \* the tables of this behaviour
  count    \* calls so far

vars == <<mem, sql, held, lost, raced, mix, count>>

EmptyStore ==
  [processes |-> <<>>, instances |-> <<>>, flows |-> <<>>, threads |-> <<>>,
   jobs |-> <<>>, letters |-> <<>>, log |-> <<>>]

\* The statuses of a record, whether or not the calls below write them.
InstanceStatus ==
  {"CREATED", "IN_PROGRESS", "WAITING", "SUSPENDED", "COMPLETED", "ERROR", "TERMINATED"}
FlowStatus == {"PENDING", "ACTIVE", "COMPLETED", "SKIPPED", "ERROR"}
JobStatus == {"PENDING", "RUNNING", "COMPLETED", "FAILED", "DEAD"}

\* The keys of a table and what its columns hold.
KeyType(table) ==
  CASE table = "processes" -> Processes
    [] table = "instances" -> Instances
    [] table = "flows"     -> Flows
    [] table = "threads"   -> Instances \X Threads
    [] table = "jobs"      -> Instances
    [] table = "letters"   -> Letters
    [] table = "log"       -> Entries

RowType(table) ==
  CASE table = "processes" -> Versions
    [] table = "instances" ->
         [process : Processes, status : InstanceStatus, variables : Variables]
    [] table = "flows"     -> [instance : Instances, thread : Threads, status : FlowStatus]
    [] table = "threads"   ->
         [parent : Threads \cup {None}, flow : Flows, status : {"ACTIVE", "CLOSED"}]
    [] table = "jobs"      ->
         [flow : Flows, due : BOOLEAN, scheduled : Nat, status : JobStatus]
    [] table = "letters"   -> [instance : Instances, created : Nat]
    [] table = "log"       -> [instance : Instances]

StoreType(db) ==
  /\ DOMAIN db = DOMAIN EmptyStore
  /\ \A table \in DOMAIN EmptyStore :
       /\ IsFiniteSet(DOMAIN db[table]) /\ DOMAIN db[table] \subseteq KeyType(table)
       /\ \A key \in DOMAIN db[table] : db[table][key] \in RowType(table)

\* What a caller has in hand: where it is from, the row as the caller sees it,
\* whether the memory store keeps that very record, whether it was changed.
Record ==
  [table : {"instances", "flows"}, key : Instances \cup Flows,
   row : RowType("instances") \cup RowType("flows"), alias : BOOLEAN, dirty : BOOLEAN]

ASSUME NoneAssumption == None \notin Record

\* What the stores hold at first: rows of these types, and no job of an unknown
\* instance (a foreign key of the schema).
ASSUME OpeningsAssumption ==
  \A db \in Openings :
    /\ StoreType(db)
    /\ DOMAIN db.jobs \subseteq DOMAIN db.instances

\* A store with a row put under a key, whatever was there.
Put(db, table, key, row) ==
  [db EXCEPT ![table] = [k \in DOMAIN @ \cup {key} |-> IF k = key THEN row ELSE @[k]]]

Has(db, table, key) == key \in DOMAIN db[table]

----------------------------------------------------------------------------
(* The memory store: every create and every update puts the record.        *)

MemSaveProcess(db, p, version) == Put(db, "processes", p, version)
MemCreateInstance(db, i, row) == Put(db, "instances", i, row)
MemUpdateInstance(db, i, row) == Put(db, "instances", i, row)
MemCreateFlow(db, f, row) == Put(db, "flows", f, row)
MemUpdateFlow(db, f, row) == Put(db, "flows", f, row)

MemCreateThread(db, t, row) == Put(db, "threads", t, row)
MemCreateJob(db, i, row) == Put(db, "jobs", i, row)
MemUpdateJob(db, i, row) == Put(db, "jobs", i, row)
MemCreateDeadLetter(db, l, row) == Put(db, "letters", l, row)
MemLogExecution(db, e, row) == Put(db, "log", e, row)

\* Only for an instance that has threads.
MemUpdateThread(db, t, row) ==
  IF \E u \in DOMAIN db.threads : u[1] = t[1] THEN Put(db, "threads", t, row) ELSE db

MemCloseThread(db, t) ==
  IF Has(db, "threads", t)
  THEN [db EXCEPT !.threads[t].status = "CLOSED"] ELSE db

\* A query with a limit stops at any of the rows, in map order.
AnyOf(rows) == {some \in SUBSET rows : Cardinality(some) = IF Cardinality(rows) < Limit
                                                           THEN Cardinality(rows) ELSE Limit}

MemListInstances(status) ==
  {i \in DOMAIN mem.instances : status \in {"", mem.instances[i].status}}
MemGetFlowsByInstance(i) == {f \in DOMAIN mem.flows : mem.flows[f].instance = i}
MemGetActiveFlowsByThread(i, n) ==
  {f \in MemGetFlowsByInstance(i) : mem.flows[f].thread = n /\ mem.flows[f].status = "ACTIVE"}
MemGetThreadsByInstance(i) == {t \in DOMAIN mem.threads : t[1] = i}
MemGetPendingJobs ==
  AnyOf({j \in DOMAIN mem.jobs : mem.jobs[j].status = "PENDING" /\ mem.jobs[j].due})
MemGetDeadLetters(i) == {l \in DOMAIN mem.letters : mem.letters[l].instance = i}
MemListDeadLetters == AnyOf(DOMAIN mem.letters)
MemGetExecutionLog(i) == {e \in DOMAIN mem.log : mem.log[e].instance = i}

----------------------------------------------------------------------------
(* The SQL store.  A statement that is refused changes nothing.            *)

\* INSERT of a row whose key is new and whose reference exists.
Insert(db, table, key, row, referenced) ==
  IF referenced /\ ~Has(db, table, key) THEN Put(db, table, key, row) ELSE db

\* UPDATE of the row with the key, if there is one, but for the columns kept.
Update(db, table, key, row, kept) ==
  IF ~Has(db, table, key) THEN db
  ELSE Put(db, table, key,
           [col \in DOMAIN row |-> IF col \in kept THEN db[table][key][col] ELSE row[col]])

SqlSaveProcess(db, p, version) == Put(db, "processes", p, version)
SqlCreateInstance(db, i, row) ==
  Insert(db, "instances", i, row, Has(db, "processes", row.process))

\* A slip: the variables are not among the columns.
SqlUpdateInstanceStatusOnly(db, i, row) == Update(db, "instances", i, row, {"process", "variables"})

SqlUpdateInstance(db, i, row) == Update(db, "instances", i, row, {"process"})
SqlCreateFlow(db, f, row) ==
  Insert(db, "flows", f, row, Has(db, "instances", row.instance))
SqlUpdateFlow(db, f, row) == Update(db, "flows", f, row, {"instance"})

\* ON CONFLICT keeps the parent.
SqlCreateThread(db, t, row) ==
  IF Has(db, "threads", t) THEN Update(db, "threads", t, row, {"parent"})
  ELSE Insert(db, "threads", t, row, Has(db, "instances", t[1]))
SqlUpdateThread(db, t, row) == Update(db, "threads", t, row, {"parent"})
SqlCloseThread(db, t) ==
  IF Has(db, "threads", t)
  THEN [db EXCEPT !.threads[t].status = "CLOSED"] ELSE db

SqlCreateJob(db, i, row) == Insert(db, "jobs", i, row, Has(db, "instances", i))
SqlUpdateJob(db, i, row) == Update(db, "jobs", i, row, {"flow"})
SqlCreateDeadLetter(db, l, row) ==
  Insert(db, "letters", l, row, Has(db, "instances", row.instance))
SqlLogExecution(db, e, row) ==
  Insert(db, "log", e, row, Has(db, "instances", row.instance))

\* A query with a limit takes the rows that are first in a column.
FirstOf(rows, At(_)) ==
  {some \in AnyOf(rows) : \A r \in some, s \in rows \ some : At(r) <= At(s)}

SqlListInstances(status) ==
  {i \in DOMAIN sql.instances : status \in {"", sql.instances[i].status}}
SqlGetFlowsByInstance(i) == {f \in DOMAIN sql.flows : sql.flows[f].instance = i}
SqlGetActiveFlowsByThread(i, n) ==
  {f \in SqlGetFlowsByInstance(i) : sql.flows[f].thread = n /\ sql.flows[f].status = "ACTIVE"}
SqlGetThreadsByInstance(i) == {t \in DOMAIN sql.threads : t[1] = i}

\* A slip: jobs that are not due yet are among them.
SqlGetPendingJobsEarly ==
  FirstOf({j \in DOMAIN sql.jobs : sql.jobs[j].status = "PENDING"},
          LAMBDA j : sql.jobs[j].scheduled)

SqlGetPendingJobs ==
  FirstOf({j \in DOMAIN sql.jobs : sql.jobs[j].status = "PENDING" /\ sql.jobs[j].due},
          LAMBDA j : sql.jobs[j].scheduled)
SqlGetDeadLetters(i) == {l \in DOMAIN sql.letters : sql.letters[l].instance = i}
SqlListDeadLetters == FirstOf(DOMAIN sql.letters, LAMBDA l : sql.letters[l].created)
SqlGetExecutionLog(i) == {e \in DOMAIN sql.log : sql.log[e].instance = i}

----------------------------------------------------------------------------
(* The calls.                                                              *)

Init ==
  /\ mem \in Openings /\ sql = mem
  /\ held = [c \in Callers |-> None]
  /\ lost = {} /\ raced = {}
  /\ mix \in Mixes
  /\ count = 0

\* A call that is about a table.
Call(table) ==
  /\ table \in mix /\ UNCHANGED mix
  /\ count < MaxCalls /\ count' = count + 1

\* Both stores are asked to write the row of a table; the SQL store may fail.
Write(row, memory, database) ==
  /\ mem' = memory
  /\ \/ sql' = database /\ UNCHANGED lost
     \/ Cardinality(lost) < MaxLost /\ lost' = lost \cup {row} /\ UNCHANGED sql

\* What the program knows of: rows both stores accepted.
Known(table) == DOMAIN mem[table] \cap DOMAIN sql[table]
Fresh(table, ids) == ids \ (DOMAIN mem[table] \cup DOMAIN sql[table])

\* The rows of instances that are running, known to both stores.
Started(i) == i \in Known("instances")

SaveProcess(p, version) ==
  /\ Call("processes")
  /\ Write(<<"processes", p>>, MemSaveProcess(mem, p, version), SqlSaveProcess(sql, p, version))
  /\ UNCHANGED <<held, raced>>

\* Caller c holds a row; a second holder makes it a raced one.
Hold(c, table, key, row, alias) ==
  /\ held[c] = None
  /\ held' = [held EXCEPT ![c] = [table |-> table, key |-> key, row |-> row,
                                  alias |-> alias, dirty |-> FALSE]]
  /\ raced' = IF \E d \in Callers : held[d] # None /\ held[d].table = table /\ held[d].key = key
              THEN raced \cup {<<table, key>>} ELSE raced

Release(c) == held' = [held EXCEPT ![c] = None]

\* createCase: the record shares its variables with the instance that will run.
CreateInstance(c, i, p, v) ==
  /\ Call("instances") /\ i \in Fresh("instances", Instances) /\ p \in Known("processes")
  /\ LET row == [process |-> p, status |-> "CREATED", variables |-> v] IN
     /\ Write(<<"instances", i>>, MemCreateInstance(mem, i, row), SqlCreateInstance(sql, i, row))
     /\ IF i \in DOMAIN sql'.instances THEN Hold(c, "instances", i, row, TRUE)
        ELSE UNCHANGED <<held, raced>>   \* the caller returns the error

\* Continue: an instance is made anew from the record, with a copy of its variables.
GetInstance(c, i) ==
  /\ Call("instances") /\ Started(i)
  /\ Hold(c, "instances", i, sql.instances[i], FALSE)
  /\ UNCHANGED <<mem, sql, lost>>

\* The run changes its variables and its status.
RunChanges(c, status, v) ==
  /\ Call("instances") /\ held[c] # None /\ held[c].table = "instances"
  /\ held' = [held EXCEPT ![c].row.status = status, ![c].row.variables = v, ![c].dirty = TRUE]
  /\ mem' = IF held[c].alias
            THEN [mem EXCEPT !.instances[held[c].key].variables = v] ELSE mem
  /\ UNCHANGED <<sql, lost, raced>>

\* finalizeInstance: a record made anew.
UpdateInstance(c) ==
  /\ Call("instances") /\ held[c] # None /\ held[c].table = "instances"
  /\ LET i == held[c].key IN
     Write(<<"instances", i>>, MemUpdateInstance(mem, i, held[c].row),
           SqlUpdateInstance(sql, i, held[c].row))
  /\ Release(c) /\ UNCHANGED raced

CreateFlow(f, i, n) ==
  /\ Call("flows") /\ f \in Fresh("flows", Flows) /\ Started(i)
  /\ LET row == [instance |-> i, thread |-> n, status |-> "ACTIVE"] IN
     Write(<<"flows", f>>, MemCreateFlow(mem, f, row), SqlCreateFlow(sql, f, row))
  /\ UNCHANGED <<held, raced>>

GetFlow(c, f) ==
  /\ Call("flows") /\ f \in Known("flows")
  /\ Hold(c, "flows", f, sql.flows[f], TRUE)
  /\ UNCHANGED <<mem, sql, lost>>

\* A handler, or executeElement, sets the status of the record it holds.
SetStatus(c, status) ==
  /\ Call("flows") /\ held[c] # None /\ held[c].table = "flows"
  /\ held' = [held EXCEPT ![c].row.status = status, ![c].dirty = TRUE]
  /\ mem' = [mem EXCEPT !.flows[held[c].key].status = status]
  /\ UNCHANGED <<sql, lost, raced>>

UpdateFlow(c) ==
  /\ Call("flows") /\ held[c] # None /\ held[c].table = "flows"
  /\ LET f == held[c].key IN
     Write(<<"flows", f>>, MemUpdateFlow(mem, f, mem.flows[f]),   \* its own record
           SqlUpdateFlow(sql, f, held[c].row))
  /\ Release(c) /\ UNCHANGED raced

\* The caller returns without writing: an error in between, or executeElement,
\* which never updates the flow it executed.
Leave(c) ==
  /\ held[c] # None
  /\ lost' = IF held[c].dirty THEN lost \cup {<<held[c].table, held[c].key>>} ELSE lost
  /\ held[c].dirty => Cardinality(lost) < MaxLost
  /\ Release(c) /\ UNCHANGED <<mem, sql, raced, mix, count>>

CreateThread(i, n, parent, f) ==
  /\ Call("threads") /\ Started(i)
  /\ LET row == [parent |-> parent, flow |-> f, status |-> "ACTIVE"] IN
     Write(<<"threads", <<i, n>>>>, MemCreateThread(mem, <<i, n>>, row),
           SqlCreateThread(sql, <<i, n>>, row))
  /\ UNCHANGED <<held, raced>>

UpdateThread(t, f) ==
  /\ Call("threads") /\ t \in Known("threads")
  /\ LET row == [mem.threads[t] EXCEPT !.flow = f, !.status = "ACTIVE"] IN
     Write(<<"threads", t>>, MemUpdateThread(mem, t, row), SqlUpdateThread(sql, t, row))
  /\ UNCHANGED <<held, raced>>

CloseThread(t) ==
  /\ Call("threads") /\ t \in Known("threads")
  /\ Write(<<"threads", t>>, MemCloseThread(mem, t), SqlCloseThread(sql, t))
  /\ UNCHANGED <<held, raced>>

\* A job is scheduled now, or for later.  Where the case has one already the memory
\* store puts the new one in its place, and the SQL store refuses it.
CreateJob(i, f, due) ==
  /\ Call("jobs") /\ Started(i)
  /\ LET row == [flow |-> f, status |-> "PENDING", due |-> due,
                 scheduled |-> IF due THEN count ELSE MaxCalls + 1]
     IN  Write(<<"jobs", i>>, MemCreateJob(mem, i, row), SqlCreateJob(sql, i, row))
  /\ raced' = IF Has(mem, "jobs", i) \/ Has(sql, "jobs", i)
              THEN raced \cup {<<"jobs", i>>} ELSE raced
  /\ UNCHANGED held

\* The worker pool writes a copy of the job it got from its store.
UpdateJob(i, status) ==
  /\ Call("jobs") /\ i \in Known("jobs")
  /\ Write(<<"jobs", i>>, MemUpdateJob(mem, i, [mem.jobs[i] EXCEPT !.status = status]),
           SqlUpdateJob(sql, i, [sql.jobs[i] EXCEPT !.status = status]))
  /\ UNCHANGED <<held, raced>>

CreateDeadLetter(l, i) ==
  /\ Call("letters") /\ l \in Fresh("letters", Letters) /\ i \in Known("jobs")
  /\ LET row == [instance |-> i, created |-> count] IN
     Write(<<"letters", l>>, MemCreateDeadLetter(mem, l, row), SqlCreateDeadLetter(sql, l, row))
  /\ UNCHANGED <<held, raced>>

LogExecution(e, i) ==
  /\ Call("log") /\ e \in Fresh("log", Entries) /\ Started(i)
  /\ Write(<<"log", e>>, MemLogExecution(mem, e, [instance |-> i]),
           SqlLogExecution(sql, e, [instance |-> i]))
  /\ UNCHANGED <<held, raced>>

InstanceCall(c) ==
  \/ \E i \in Instances, p \in Processes, v \in Variables : CreateInstance(c, i, p, v)
  \/ \E i \in Instances : GetInstance(c, i)
  \/ \E s \in {"IN_PROGRESS", "COMPLETED"}, v \in Variables : RunChanges(c, s, v)
  \/ UpdateInstance(c)

FlowCall(c) ==
  \/ \E f \in Flows : GetFlow(c, f)
  \/ \E s \in {"COMPLETED", "SKIPPED"} : SetStatus(c, s)
  \/ UpdateFlow(c)

ThreadCall ==
  \/ \E i \in Instances, n \in Threads, parent \in Threads \cup {None}, f \in Flows :
       CreateThread(i, n, parent, f)
  \/ \E t \in Known("threads"), f \in Flows : UpdateThread(t, f)
  \/ \E t \in Known("threads") : CloseThread(t)

JobCall ==
  \/ \E i \in Instances, f \in Flows, due \in BOOLEAN : CreateJob(i, f, due)
  \/ \E i \in Instances, s \in {"RUNNING", "PENDING", "COMPLETED", "DEAD"} : UpdateJob(i, s)
  \/ \E l \in Letters, i \in Instances : CreateDeadLetter(l, i)

Next ==
  \/ \E p \in Processes, version \in Versions : SaveProcess(p, version)
  \/ \E c \in Callers : InstanceCall(c) \/ FlowCall(c) \/ Leave(c)
  \/ \E f \in Flows, i \in Instances, n \in Threads : CreateFlow(f, i, n)
  \/ ThreadCall \/ JobCall
  \/ \E e \in Entries, i \in Instances : LogExecution(e, i)

Spec == Init /\ [][Next]_vars

----------------------------------------------------------------------------
(* Properties.                                                             *)

Holds(c, table, key) == held[c] # None /\ held[c].table = table /\ held[c].key = key

TypeOK ==
  /\ StoreType(mem) /\ StoreType(sql)
  /\ DOMAIN held = Callers
  /\ \A c \in Callers : held[c] # None =>
       /\ held[c] \in Record
       /\ held[c].key \in KeyType(held[c].table) /\ held[c].row \in RowType(held[c].table)
  /\ IsFiniteSet(lost) /\ Cardinality(lost) <= MaxLost /\ mix \in Mixes
  /\ count \in 0..MaxCalls

\* The row is the same for whoever asks: no write of it was lost, no two callers
\* had it at once, it is no job created twice, and no caller holds it with a change.
Settled(table, key) ==
  /\ <<table, key>> \notin lost \cup raced
  /\ \A c \in Callers : Holds(c, table, key) => ~held[c].dirty

\* The columns of a row that the program reads.
Read(table, row) ==
  CASE table = "threads" -> [flow |-> row.flow, status |-> row.status]
    [] table = "jobs"    -> [flow |-> row.flow, status |-> row.status, due |-> row.due]
    [] OTHER -> row

\* A program that writes back what it changes, and has one job for a case at a time,
\* sees the same rows over either store: a settled row is in both or in neither, and
\* reads the same.
RowsAgree ==
  \A table \in DOMAIN EmptyStore :
    \A key \in DOMAIN mem[table] \cup DOMAIN sql[table] :
      Settled(table, key) =>
        /\ Has(mem, table, key) /\ Has(sql, table, key)
        /\ Read(table, mem[table][key]) = Read(table, sql[table][key])

TableSettled(table) ==
  \A key \in DOMAIN mem[table] \cup DOMAIN sql[table] : Settled(table, key)

\* Once a table is settled both stores give the same answers to every query of it,
\* whatever became of the others; one with a limit answers over SQL what the map
\* order may answer.  A second job of a case unsettles the jobs: over SQL the first
\* is still answered, and over memory the second.
AnswersAgree ==
  /\ TableSettled("instances") =>
       \A s \in {""} \cup InstanceStatus : MemListInstances(s) = SqlListInstances(s)
  /\ TableSettled("flows") => \A i \in Instances :
       /\ MemGetFlowsByInstance(i) = SqlGetFlowsByInstance(i)
       /\ \A n \in Threads : MemGetActiveFlowsByThread(i, n) = SqlGetActiveFlowsByThread(i, n)
  /\ TableSettled("threads") => \A i \in Instances :
       MemGetThreadsByInstance(i) = SqlGetThreadsByInstance(i)
  /\ TableSettled("jobs") =>
       SqlGetPendingJobs # {} /\ SqlGetPendingJobs \subseteq MemGetPendingJobs
  /\ TableSettled("letters") =>
       /\ \A i \in Instances : MemGetDeadLetters(i) = SqlGetDeadLetters(i)
       /\ SqlListDeadLetters # {} /\ SqlListDeadLetters \subseteq MemListDeadLetters
  /\ TableSettled("log") => \A i \in Instances :
       MemGetExecutionLog(i) = SqlGetExecutionLog(i)
=============================================================================
