---------------------------- MODULE StoresProofs ----------------------------
(***************************************************************************)
(* The two stores of Stores give the program the same rows and the same    *)
(* answers, proved for every process, any number of callers and any first  *)
(* contents.                                                               *)
(*                                                                         *)
(* Most calls write one row of both stores.  Touches says that nothing but *)
(* that row changes, so what is left to show of a call is its own row.     *)
(***************************************************************************)
EXTENDS Stores, FiniteSetTheorems, WellFoundedInduction, TLAPS

Tables == {"processes", "instances", "flows", "threads", "jobs", "letters", "log"}

LEMMA TableNames == DOMAIN EmptyStore = Tables
BY DEF EmptyStore, Tables

\* A store in which nothing but one row may have changed; none was removed.
Touches(db, new, table, key) ==
  /\ DOMAIN new = DOMAIN db
  /\ \A t \in DOMAIN db \ {table} : new[t] = db[t]
  /\ DOMAIN db[table] \subseteq DOMAIN new[table]
  /\ DOMAIN new[table] \subseteq DOMAIN db[table] \cup {key}
  /\ \A k \in DOMAIN db[table] \ {key} : new[table][k] = db[table][k]

\* The same, and the row is of the type of the table.
Changes(db, new, table, key) == Touches(db, new, table, key) /\ StoreType(new)

LEMMA SameStore ==
  ASSUME NEW db, StoreType(db), NEW table \in Tables, NEW key
  PROVE  Changes(db, db, table, key)
BY DEF Changes, Touches

LEMMA PutRow ==
  ASSUME NEW db, StoreType(db), NEW table \in Tables, NEW key \in KeyType(table),
         NEW row \in RowType(table)
  PROVE  LET new == Put(db, table, key, row) IN
         Changes(db, new, table, key) /\ Has(new, table, key) /\ new[table][key] = row
<1> DEFINE new == Put(db, table, key, row)
<1>1. DOMAIN db = Tables
  BY TableNames DEF StoreType
<1>2. DOMAIN new = DOMAIN db
  BY <1>1 DEF Put
<1>3. \A t \in DOMAIN db : t # table => new[t] = db[t]
  BY <1>1 DEF Put
<1>4. new[table] = [k \in DOMAIN db[table] \cup {key} |-> IF k = key THEN row ELSE db[table][k]]
  BY <1>1 DEF Put
<1> HIDE DEF new
<1>5. Touches(db, new, table, key)
  BY <1>1, <1>2, <1>3, <1>4 DEF Touches
<1>6. key \in DOMAIN new[table] /\ new[table][key] = row
  BY <1>4
<1>7. StoreType(new)
  <2> SUFFICES ASSUME NEW t \in Tables
               PROVE  /\ IsFiniteSet(DOMAIN new[t]) /\ DOMAIN new[t] \subseteq KeyType(t)
                      /\ \A k \in DOMAIN new[t] : new[t][k] \in RowType(t)
    BY <1>1, <1>2, TableNames DEF StoreType
  <2>1. /\ IsFiniteSet(DOMAIN db[t]) /\ DOMAIN db[t] \subseteq KeyType(t)
        /\ \A k \in DOMAIN db[t] : db[t][k] \in RowType(t)
    BY TableNames DEF StoreType
  <2>2. CASE t = table
    <3>1. IsFiniteSet(DOMAIN db[t] \cup {key})
      BY <2>1, FS_AddElement
    <3> QED
      BY <1>4, <2>1, <2>2, <3>1
  <2>3. CASE t # table
    BY <1>1, <1>3, <2>1, <2>3
  <2> QED
    BY <2>2, <2>3
<1> QED
  BY <1>5, <1>6, <1>7 DEF Changes, Has, new

\* The tables the SQL store updates by column.
Updated == {"instances", "flows", "threads", "jobs"}

\* Some columns of one row, the others of another.
Mixed(row, old, kept) == [col \in DOMAIN row |-> IF col \in kept THEN old[col] ELSE row[col]]

LEMMA MixedType ==
  ASSUME NEW table \in Updated, NEW row \in RowType(table), NEW old \in RowType(table), NEW kept
  PROVE  Mixed(row, old, kept) \in RowType(table)
<1>1. CASE table = "instances"
  BY <1>1 DEF Mixed, RowType
<1>2. CASE table = "flows"
  BY <1>2 DEF Mixed, RowType
<1>3. CASE table = "threads"
  BY <1>3 DEF Mixed, RowType
<1>4. CASE table = "jobs"
  BY <1>4 DEF Mixed, RowType
<1> QED
  BY <1>1, <1>2, <1>3, <1>4 DEF Updated

LEMMA UpdateRow ==
  ASSUME NEW db, StoreType(db), NEW table \in Updated, NEW key, NEW row \in RowType(table),
         NEW kept, Has(db, table, key)
  PROVE  LET new == Update(db, table, key, row, kept) IN
         /\ Changes(db, new, table, key) /\ Has(new, table, key)
         /\ new[table][key] = Mixed(row, db[table][key], kept)
<1>1. table \in Tables
  BY DEF Updated, Tables
<1>2. db[table][key] \in RowType(table) /\ key \in KeyType(table)
  BY <1>1, TableNames DEF StoreType, Has
<1>3. Update(db, table, key, row, kept) = Put(db, table, key, Mixed(row, db[table][key], kept))
  BY DEF Update, Mixed
<1> QED
  BY <1>1, <1>2, <1>3, MixedType, PutRow

----------------------------------------------------------------------------
(* The invariant.                                                          *)

\* No write of the row was lost, no two callers had it at once, and it is no job
\* created twice.
Clean(table, key) == <<table, key>> \notin lost \cup raced

\* A caller holds the row with a change.
Changed(table, key) == \E c \in Callers : Holds(c, table, key) /\ held[c].dirty

Agree(table, key) ==
  Clean(table, key) =>
    /\ Has(mem, table, key) <=> Has(sql, table, key)
    /\ Has(mem, table, key) /\ ~Changed(table, key) =>
         Read(table, mem[table][key]) = Read(table, sql[table][key])

AgreeInv == \A table \in Tables : \A key : Agree(table, key)

\* A record that is held is in both stores, and who holds it besides is on record.
\* Its reference never changes; the memory store has the very record of a flow.
HeldOf(c) ==
  LET table == held[c].table
      key == held[c].key
      row == held[c].row
  IN
  /\ Has(mem, table, key) /\ Has(sql, table, key)
  /\ \A d \in Callers \ {c} : Holds(d, table, key) => <<table, key>> \in raced
  /\ table = "instances" => sql.instances[key].process = row.process
  /\ table = "flows" => /\ sql.flows[key].instance = row.instance
                        /\ Clean(table, key) => mem.flows[key] = row

HeldInv == \A c \in Callers : held[c] # None => HeldOf(c)

\* A dead letter may refer to the case of any job.
JobInv == DOMAIN mem.jobs \subseteq DOMAIN sql.instances

SInv == TypeOK /\ AgreeInv /\ HeldInv /\ JobInv

----------------------------------------------------------------------------
(* A call that writes a row nobody holds.                                  *)

\* The row is in both stores and reads the same.
SameRow(one, other, table, key) ==
  /\ Has(one, table, key) /\ Has(other, table, key)
  /\ Read(table, one[table][key]) = Read(table, other[table][key])

LEMMA WriteType ==
  ASSUME TypeOK, NEW table \in Tables, NEW key, NEW memory, NEW database,
         Changes(mem, memory, table, key), Changes(sql, database, table, key),
         Call(table), Write(<<table, key>>, memory, database)
  PROVE  /\ Changes(mem, mem', table, key) /\ Changes(sql, sql', table, key)
         /\ lost \subseteq lost' /\ IsFiniteSet(lost') /\ Cardinality(lost') <= MaxLost
         /\ mix' \in Mixes /\ count' \in 0..MaxCalls
         /\ sql' = database \/ <<table, key>> \in lost'
<1>1. mix' \in Mixes /\ count' \in 0..MaxCalls
  BY StoresAssumption DEF Call, TypeOK
<1>2. IsFiniteSet(lost') /\ Cardinality(lost') <= MaxLost
  <2>1. CASE lost' = lost \cup {<<table, key>>} /\ Cardinality(lost) < MaxLost
    <3>1. Cardinality(lost) \in Nat
      BY FS_CardinalityType DEF TypeOK
    <3>2. IsFiniteSet(lost') /\ Cardinality(lost') \in {Cardinality(lost), Cardinality(lost) + 1}
      BY <2>1, FS_AddElement DEF TypeOK
    <3> QED
      BY <2>1, <3>1, <3>2, StoresAssumption
  <2>2. CASE UNCHANGED lost
    BY <2>2 DEF TypeOK
  <2> QED
    BY <2>1, <2>2 DEF Write
<1>3. Changes(sql, sql', table, key)
  BY SameStore DEF Write, TypeOK
<1> QED
  BY <1>1, <1>2, <1>3 DEF Write

\* Whatever else happens, a row that is not written agrees as before.
LEMMA AgreeElsewhere ==
  ASSUME TypeOK, AgreeInv, NEW table \in Tables, NEW key,
         Touches(mem, mem', table, key), Touches(sql, sql', table, key),
         lost \subseteq lost', raced \subseteq raced',
         NEW t \in Tables, NEW k, t # table \/ k # key,
         Changed(t, k) => Changed(t, k)' \/ ~Clean(t, k)'
  PROVE  Agree(t, k)'
<1>1. DOMAIN mem = Tables /\ DOMAIN sql = Tables
  BY TableNames DEF TypeOK, StoreType
<1>2. Has(mem, t, k) <=> Has(mem, t, k)'
  BY <1>1 DEF Touches, Has
<1>3. Has(sql, t, k) <=> Has(sql, t, k)'
  BY <1>1 DEF Touches, Has
<1>4. Has(mem, t, k) => mem'[t][k] = mem[t][k]
  BY <1>1 DEF Touches, Has
<1>5. Has(sql, t, k) => sql'[t][k] = sql[t][k]
  BY <1>1 DEF Touches, Has
<1>6. Clean(t, k)' => Clean(t, k)
  BY DEF Clean
<1>7. Agree(t, k)
  BY DEF AgreeInv
<1> QED
  BY <1>2, <1>3, <1>4, <1>5, <1>6, <1>7 DEF Agree

\* A row may be put on record as created twice.
LEMMA RowWrite ==
  ASSUME SInv, NEW table \in Tables, NEW key, NEW memory, NEW database,
         Changes(mem, memory, table, key), Changes(sql, database, table, key),
         Call(table), Write(<<table, key>>, memory, database), UNCHANGED held,
         raced \subseteq raced',
         \A c \in Callers : ~Holds(c, table, key),
         <<table, key>> \notin lost \cup raced' => SameRow(memory, database, table, key),
         table = "jobs" => key \in DOMAIN sql.instances
  PROVE  SInv'
<1> USE DEF SInv
<1>1. /\ Changes(mem, mem', table, key) /\ Changes(sql, sql', table, key)
      /\ lost \subseteq lost' /\ IsFiniteSet(lost') /\ Cardinality(lost') <= MaxLost
      /\ mix' \in Mixes /\ count' \in 0..MaxCalls
      /\ sql' = database \/ <<table, key>> \in lost'
  BY WriteType
<1>2. TypeOK'
  BY <1>1 DEF TypeOK, Changes
<1>3. AgreeInv'
  <2> SUFFICES ASSUME NEW t \in Tables, NEW k PROVE Agree(t, k)'
    BY DEF AgreeInv
  <2>1. CASE t # table \/ k # key
    <3>1. Changed(t, k) => Changed(t, k)'
      BY DEF Changed, Holds
    <3> QED
      BY <1>1, <2>1, <3>1, AgreeElsewhere DEF Changes
  <2>2. CASE t = table /\ k = key
    <3>1. Clean(t, k)' => sql' = database /\ <<table, key>> \notin lost \cup raced'
      BY <1>1, <2>2 DEF Clean
    <3>2. mem' = memory
      BY DEF Write
    <3> QED
      BY <2>2, <3>1, <3>2 DEF Agree, SameRow, Has
  <2> QED
    BY <2>1, <2>2
<1>4. DOMAIN mem = Tables /\ DOMAIN sql = Tables
  BY TableNames DEF TypeOK, StoreType
<1>5. HeldInv'
  <2> SUFFICES ASSUME NEW c \in Callers, held[c] # None PROVE HeldOf(c)'
    BY DEF HeldInv
  <2>1. HeldOf(c) /\ held[c].table \in {"instances", "flows"} /\ UNCHANGED held
    BY DEF HeldInv, TypeOK, Record
  <2>2. held[c].table # table \/ held[c].key # key
    BY DEF Holds
  <2>3. held[c].table \in DOMAIN mem /\ held[c].table \in DOMAIN sql
    BY <1>4, <2>1 DEF Tables
  <2>4. /\ Has(mem, held[c].table, held[c].key)' /\ Has(sql, held[c].table, held[c].key)'
        /\ mem'[held[c].table][held[c].key] = mem[held[c].table][held[c].key]
        /\ sql'[held[c].table][held[c].key] = sql[held[c].table][held[c].key]
    BY <1>1, <2>1, <2>2, <2>3 DEF HeldOf, Has, Changes, Touches
  <2>5. \A d \in Callers \ {c} :
          Holds(d, held[c].table, held[c].key)' => <<held[c].table, held[c].key>> \in raced'
    BY <2>1 DEF HeldOf, Holds
  <2>6. Clean(held[c].table, held[c].key)' => Clean(held[c].table, held[c].key)
    BY <1>1 DEF Clean
  <2> QED
    BY <2>1, <2>4, <2>5, <2>6 DEF HeldOf
<1>6. JobInv'
  <2> SUFFICES ASSUME NEW j \in DOMAIN mem'.jobs
               PROVE  j \in DOMAIN sql'.instances
    BY DEF JobInv
  <2>1. DOMAIN sql.instances \subseteq DOMAIN sql'.instances
    BY <1>1, <1>4 DEF Changes, Touches, Tables
  <2>2. CASE table = "jobs" /\ j = key
    BY <2>1, <2>2
  <2>3. CASE table # "jobs" \/ j # key
    <3>1. j \in DOMAIN mem.jobs
      BY <1>1, <1>4, <2>3 DEF Changes, Touches, Tables
    <3> QED
      BY <2>1, <3>1 DEF JobInv
  <2> QED
    BY <2>2, <2>3
<1> QED
  BY <1>2, <1>3, <1>5, <1>6

LEMMA PlainWrite ==
  ASSUME SInv, NEW table \in Tables, NEW key, NEW memory, NEW database,
         Changes(mem, memory, table, key), Changes(sql, database, table, key),
         Call(table), Write(<<table, key>>, memory, database), UNCHANGED <<held, raced>>,
         \A c \in Callers : ~Holds(c, table, key),
         Clean(table, key) => SameRow(memory, database, table, key),
         table = "jobs" => key \in DOMAIN sql.instances
  PROVE  SInv'
<1>1. UNCHANGED held /\ raced \subseteq raced'
  OBVIOUS
<1>2. <<table, key>> \notin lost \cup raced' => SameRow(memory, database, table, key)
  BY DEF Clean
<1> QED
  BY <1>1, <1>2, RowWrite

\* Nobody holds a row that no store has, or one of another table.
LEMMA NotHeld ==
  ASSUME SInv, NEW table \in Tables, NEW key,
         ~Has(mem, table, key) \/ table \notin {"instances", "flows"}
  PROVE  \A c \in Callers : ~Holds(c, table, key)
BY DEF SInv, HeldInv, HeldOf, Holds, TypeOK, Record

LEMMA SaveProcessInv ==
  ASSUME SInv, NEW p \in Processes, NEW version \in Versions, SaveProcess(p, version)
  PROVE  SInv'
<1> DEFINE memory == MemSaveProcess(mem, p, version)
           database == SqlSaveProcess(sql, p, version)
<1>1. "processes" \in Tables /\ p \in KeyType("processes") /\ version \in RowType("processes")
  BY DEF Tables, KeyType, RowType
<1>2. /\ Changes(mem, memory, "processes", p) /\ Changes(sql, database, "processes", p)
      /\ SameRow(memory, database, "processes", p)
  BY <1>1, PutRow DEF MemSaveProcess, SqlSaveProcess, SameRow, SInv, TypeOK
<1>3. \A c \in Callers : ~Holds(c, "processes", p)
  BY <1>1, NotHeld
<1> HIDE DEF memory, database
<1>4. /\ Call("processes") /\ Write(<<"processes", p>>, memory, database)
      /\ UNCHANGED <<held, raced>>
  BY DEF SaveProcess, memory, database
<1> QED
  BY <1>1, <1>2, <1>3, <1>4, PlainWrite

LEMMA FreshRow ==
  ASSUME SInv, NEW table \in Tables, NEW key \in KeyType(table), NEW row \in RowType(table),
         NEW ids, key \in Fresh(table, ids), NEW referenced, referenced
  PROVE  LET memory == Put(mem, table, key, row)
             database == Insert(sql, table, key, row, referenced)
         IN
         /\ Changes(mem, memory, table, key) /\ Changes(sql, database, table, key)
         /\ SameRow(memory, database, table, key)
         /\ memory[table][key] = row /\ database[table][key] = row
         /\ \A c \in Callers : ~Holds(c, table, key)
<1>1. ~Has(mem, table, key) /\ ~Has(sql, table, key)
  BY DEF Fresh, Has
<1>2. StoreType(mem) /\ StoreType(sql)
  BY DEF SInv, TypeOK
<1>3. \A c \in Callers : ~Holds(c, table, key)
  BY <1>1, NotHeld
<1> DEFINE memory == Put(mem, table, key, row)
           database == Insert(sql, table, key, row, referenced)
<1>4. Changes(mem, memory, table, key) /\ Has(memory, table, key) /\ memory[table][key] = row
  BY <1>2, PutRow
<1>5. database = Put(sql, table, key, row)
  BY <1>1 DEF Insert
<1> HIDE DEF memory, database
<1>7. Changes(sql, database, table, key) /\ Has(database, table, key) /\ database[table][key] = row
  BY <1>2, <1>5, PutRow
<1>6. SameRow(memory, database, table, key)
  BY <1>4, <1>7 DEF SameRow
<1> QED
  BY <1>3, <1>4, <1>6, <1>7 DEF memory, database

LEMMA CreateFlowInv ==
  ASSUME SInv, NEW f \in Flows, NEW i \in Instances, NEW n \in Threads, CreateFlow(f, i, n)
  PROVE  SInv'
<1> DEFINE row == [instance |-> i, thread |-> n, status |-> "ACTIVE"]
           memory == MemCreateFlow(mem, f, row)
           database == SqlCreateFlow(sql, f, row)
<1>1. "flows" \in Tables /\ f \in KeyType("flows") /\ row \in RowType("flows")
  BY DEF Tables, KeyType, RowType, FlowStatus
<1>2. f \in Fresh("flows", Flows) /\ Has(sql, "instances", row.instance)
  BY DEF CreateFlow, Started, Known, Has
<1> HIDE DEF row
<1>3. /\ Changes(mem, memory, "flows", f) /\ Changes(sql, database, "flows", f)
      /\ SameRow(memory, database, "flows", f) /\ \A c \in Callers : ~Holds(c, "flows", f)
  BY <1>1, <1>2, FreshRow DEF MemCreateFlow, SqlCreateFlow
<1>4. /\ Call("flows") /\ Write(<<"flows", f>>, memory, database)
      /\ UNCHANGED <<held, raced>>
  BY DEF CreateFlow, row
<1> HIDE DEF memory, database
<1> QED
  BY <1>1, <1>3, <1>4, PlainWrite

LEMMA LogExecutionInv ==
  ASSUME SInv, NEW e \in Entries, NEW i \in Instances, LogExecution(e, i)
  PROVE  SInv'
<1> DEFINE row == [instance |-> i]
           memory == MemLogExecution(mem, e, row)
           database == SqlLogExecution(sql, e, row)
<1>1. "log" \in Tables /\ e \in KeyType("log") /\ row \in RowType("log")
  BY DEF Tables, KeyType, RowType
<1>2. e \in Fresh("log", Entries) /\ Has(sql, "instances", row.instance)
  BY DEF LogExecution, Started, Known, Has
<1>3. /\ Call("log") /\ Write(<<"log", e>>, memory, database)
      /\ UNCHANGED <<held, raced>>
  BY DEF LogExecution
<1> HIDE DEF row
<1>4. /\ Changes(mem, memory, "log", e) /\ Changes(sql, database, "log", e)
      /\ SameRow(memory, database, "log", e) /\ \A c \in Callers : ~Holds(c, "log", e)
  BY <1>1, <1>2, FreshRow DEF MemLogExecution, SqlLogExecution
<1> HIDE DEF memory, database
<1> QED
  BY <1>1, <1>3, <1>4, PlainWrite

LEMMA CreateJobInv ==
  ASSUME SInv, NEW i \in Instances, NEW f \in Flows, NEW due \in BOOLEAN,
         CreateJob(i, f, due)
  PROVE  SInv'
<1> DEFINE row == [flow |-> f, status |-> "PENDING", due |-> due,
                   scheduled |-> IF due THEN count ELSE MaxCalls + 1]
           memory == MemCreateJob(mem, i, row)
           database == SqlCreateJob(sql, i, row)
<1>1. "jobs" \in Tables /\ i \in KeyType("jobs") /\ row \in RowType("jobs")
  <2>1. count \in Nat /\ MaxCalls + 1 \in Nat
    BY StoresAssumption DEF SInv, TypeOK
  <2> QED
    BY <2>1 DEF Tables, KeyType, RowType, JobStatus
<1>2. Has(sql, "instances", i) /\ i \in DOMAIN sql.instances
  BY DEF CreateJob, Started, Known, Has
<1>3. /\ Call("jobs") /\ Write(<<"jobs", i>>, memory, database)
      /\ UNCHANGED held /\ raced \subseteq raced'
      /\ Has(mem, "jobs", i) \/ Has(sql, "jobs", i) => <<"jobs", i>> \in raced'
  BY DEF CreateJob
<1>4. \A c \in Callers : ~Holds(c, "jobs", i)
  BY <1>1, NotHeld
<1> HIDE DEF row
<1>5. CASE Has(sql, "jobs", i)
  <2>1. database = sql
    BY <1>5 DEF SqlCreateJob, Insert
  <2>2. Changes(sql, sql, "jobs", i)
    BY <1>1, SameStore DEF SInv, TypeOK
  <2>3. Changes(mem, memory, "jobs", i)
    BY <1>1, PutRow DEF MemCreateJob, SInv, TypeOK
  <2> HIDE DEF memory, database
  <2> QED
    BY <1>1, <1>2, <1>3, <1>4, <1>5, <2>1, <2>2, <2>3, RowWrite
<1>6. CASE ~Has(sql, "jobs", i)
  <2>1. database = Put(sql, "jobs", i, row)
    BY <1>2, <1>6 DEF SqlCreateJob, Insert
  <2>2. /\ Changes(mem, memory, "jobs", i) /\ Changes(sql, database, "jobs", i)
        /\ SameRow(memory, database, "jobs", i)
    BY <1>1, <2>1, PutRow DEF MemCreateJob, SameRow, SInv, TypeOK
  <2> HIDE DEF memory, database
  <2> QED
    BY <1>1, <1>2, <1>3, <1>4, <2>2, RowWrite
<1> QED
  BY <1>5, <1>6

LEMMA CreateDeadLetterInv ==
  ASSUME SInv, NEW l \in Letters, NEW i \in Instances, CreateDeadLetter(l, i)
  PROVE  SInv'
<1> DEFINE row == [instance |-> i, created |-> count]
           memory == MemCreateDeadLetter(mem, l, row)
           database == SqlCreateDeadLetter(sql, l, row)
<1>1. "letters" \in Tables /\ l \in KeyType("letters") /\ row \in RowType("letters")
  <2>1. count \in Nat
    BY StoresAssumption DEF SInv, TypeOK
  <2> QED
    BY <2>1 DEF Tables, KeyType, RowType
<1>2. l \in Fresh("letters", Letters) /\ Has(sql, "instances", row.instance)
  BY DEF CreateDeadLetter, Known, Has, SInv, JobInv
<1>3. /\ Call("letters") /\ Write(<<"letters", l>>, memory, database)
      /\ UNCHANGED <<held, raced>>
  BY DEF CreateDeadLetter
<1> HIDE DEF row
<1>4. /\ Changes(mem, memory, "letters", l) /\ Changes(sql, database, "letters", l)
      /\ SameRow(memory, database, "letters", l) /\ \A c \in Callers : ~Holds(c, "letters", l)
  BY <1>1, <1>2, FreshRow DEF MemCreateDeadLetter, SqlCreateDeadLetter
<1> HIDE DEF memory, database
<1> QED
  BY <1>1, <1>3, <1>4, PlainWrite

\* A row the SQL store updates in all but some columns: those the program does not
\* read, or those that are as in the row.
LEMMA UpdatedRow ==
  ASSUME SInv, NEW table \in Updated, NEW key \in KeyType(table), NEW row \in RowType(table),
         NEW kept, Has(sql, table, key),
         Clean(table, key) => Read(table, Mixed(row, sql[table][key], kept)) = Read(table, row)
  PROVE  LET memory == Put(mem, table, key, row)
             database == Update(sql, table, key, row, kept)
         IN
         /\ Changes(mem, memory, table, key) /\ Changes(sql, database, table, key)
         /\ memory[table][key] = row
         /\ database[table][key] = Mixed(row, sql[table][key], kept)
         /\ Has(memory, table, key) /\ Has(database, table, key)
         /\ Clean(table, key) => SameRow(memory, database, table, key)
<1>1. StoreType(mem) /\ StoreType(sql) /\ table \in Tables
  BY DEF SInv, TypeOK, Updated, Tables
<1> DEFINE memory == Put(mem, table, key, row)
           database == Update(sql, table, key, row, kept)
<1>2. Changes(mem, memory, table, key) /\ Has(memory, table, key) /\ memory[table][key] = row
  BY <1>1, PutRow
<1>3. /\ Changes(sql, database, table, key) /\ Has(database, table, key)
      /\ database[table][key] = Mixed(row, sql[table][key], kept)
  BY <1>1, UpdateRow
<1> HIDE DEF memory, database
<1>4. Clean(table, key) => SameRow(memory, database, table, key)
  BY <1>2, <1>3 DEF SameRow
<1> QED
  BY <1>2, <1>3, <1>4 DEF memory, database

\* Each store gets the row it gave, with a new status.
LEMMA UpdateJobInv ==
  ASSUME SInv, NEW i \in Instances, NEW s \in {"RUNNING", "PENDING", "COMPLETED", "DEAD"},
         UpdateJob(i, s)
  PROVE  SInv'
<1> DEFINE row == [mem.jobs[i] EXCEPT !.status = s]
           copy == [sql.jobs[i] EXCEPT !.status = s]
           memory == MemUpdateJob(mem, i, row)
           database == SqlUpdateJob(sql, i, copy)
<1>1. /\ i \in DOMAIN mem.jobs /\ i \in DOMAIN sql.jobs
      /\ mem.jobs[i] \in RowType("jobs") /\ sql.jobs[i] \in RowType("jobs")
  BY TableNames DEF UpdateJob, Known, SInv, TypeOK, StoreType, Tables
<1>2. /\ row \in RowType("jobs") /\ copy \in RowType("jobs")
      /\ i \in KeyType("jobs") /\ "jobs" \in Updated /\ "jobs" \in Tables
  BY <1>1 DEF RowType, JobStatus, KeyType, Updated, Tables
<1>3. \A c \in Callers : ~Holds(c, "jobs", i)
  BY <1>2, NotHeld
<1>4. Clean("jobs", i) => Read("jobs", mem.jobs[i]) = Read("jobs", sql.jobs[i])
  <2>1. Agree("jobs", i)
    BY <1>2 DEF SInv, AgreeInv
  <2> QED
    BY <1>1, <1>3, <2>1 DEF Agree, Changed, Has
<1>5. Mixed(copy, sql["jobs"][i], {"flow"}) = copy
  BY <1>1 DEF Mixed, RowType
<1>6. Clean("jobs", i) => Read("jobs", copy) = Read("jobs", row)
  BY <1>1, <1>4 DEF Read, RowType
<1>7. /\ Call("jobs") /\ Write(<<"jobs", i>>, memory, database)
      /\ UNCHANGED <<held, raced>>
  BY DEF UpdateJob
<1>8. i \in DOMAIN sql.instances
  BY <1>1 DEF SInv, JobInv
<1> HIDE DEF row, copy
<1>9. Changes(mem, memory, "jobs", i) /\ Has(memory, "jobs", i) /\ memory["jobs"][i] = row
  BY <1>2, PutRow DEF MemUpdateJob, SInv, TypeOK
<1>10. /\ Changes(sql, database, "jobs", i) /\ Has(database, "jobs", i)
       /\ database["jobs"][i] = copy
  <2>1. StoreType(sql) /\ Has(sql, "jobs", i) /\ "jobs" \in Updated
    BY <1>1, <1>2 DEF SInv, TypeOK, Has
  <2>2. LET new == Update(sql, "jobs", i, copy, {"flow"}) IN
        /\ Changes(sql, new, "jobs", i) /\ Has(new, "jobs", i)
        /\ new["jobs"][i] = Mixed(copy, sql["jobs"][i], {"flow"})
    BY <1>2, <2>1, UpdateRow
  <2> QED
    BY <1>5, <2>2 DEF SqlUpdateJob
<1> HIDE DEF memory, database
<1>11. Clean("jobs", i) => SameRow(memory, database, "jobs", i)
  BY <1>6, <1>9, <1>10 DEF SameRow
<1> QED
  BY <1>2, <1>3, <1>7, <1>8, <1>9, <1>10, <1>11, PlainWrite

LEMMA CreateThreadInv ==
  ASSUME SInv, NEW i \in Instances, NEW n \in Threads, NEW parent \in Threads \cup {None},
         NEW f \in Flows, CreateThread(i, n, parent, f)
  PROVE  SInv'
<1> DEFINE t == <<i, n>>
           row == [parent |-> parent, flow |-> f, status |-> "ACTIVE"]
           memory == MemCreateThread(mem, t, row)
           database == SqlCreateThread(sql, t, row)
           kept == {"parent"}
<1>1. /\ t \in KeyType("threads") /\ row \in RowType("threads")
      /\ "threads" \in Updated /\ "threads" \in Tables
  BY DEF RowType, KeyType, Updated, Tables
<1>2. \A c \in Callers : ~Holds(c, "threads", t)
  BY <1>1, NotHeld
<1>3. Has(sql, "instances", t[1])
  BY DEF CreateThread, Started, Known, Has
<1>4. /\ Call("threads") /\ Write(<<"threads", t>>, memory, database)
      /\ UNCHANGED <<held, raced>>
  BY DEF CreateThread
<1>5. Read("threads", Mixed(row, sql["threads"][t], kept)) = Read("threads", row)
  BY DEF Read, Mixed
<1> HIDE DEF row, t
<1>6. /\ Changes(mem, memory, "threads", t) /\ Changes(sql, database, "threads", t)
      /\ Clean("threads", t) => SameRow(memory, database, "threads", t)
  <2>1. CASE Has(sql, "threads", t)
    <3>1. database = Update(sql, "threads", t, row, kept)
      BY <2>1 DEF SqlCreateThread
    <3> QED
      BY <1>1, <1>5, <2>1, <3>1, UpdatedRow DEF MemCreateThread
  <2>2. CASE ~Has(sql, "threads", t)
    <3>1. database = Put(sql, "threads", t, row)
      BY <1>3, <2>2 DEF SqlCreateThread, Insert
    <3>2. StoreType(mem) /\ StoreType(sql)
      BY DEF SInv, TypeOK
    <3> QED
      BY <1>1, <3>1, <3>2, PutRow DEF MemCreateThread, SameRow
  <2> QED
    BY <2>1, <2>2
<1> HIDE DEF memory, database
<1> QED
  BY <1>1, <1>2, <1>4, <1>6, PlainWrite

LEMMA ThreadFacts ==
  ASSUME SInv, NEW t \in Known("threads")
  PROVE  /\ Has(mem, "threads", t) /\ Has(sql, "threads", t)
         /\ mem.threads[t] \in RowType("threads") /\ sql.threads[t] \in RowType("threads")
         /\ t \in KeyType("threads") /\ "threads" \in Updated /\ "threads" \in Tables
         /\ \A c \in Callers : ~Holds(c, "threads", t)
         /\ Clean("threads", t) => mem.threads[t].flow = sql.threads[t].flow
<1>1. "threads" \in Updated /\ "threads" \in Tables
  BY DEF Updated, Tables
<1>2. /\ t \in DOMAIN mem.threads /\ t \in DOMAIN sql.threads
      /\ mem.threads[t] \in RowType("threads") /\ sql.threads[t] \in RowType("threads")
      /\ t \in KeyType("threads")
  BY <1>1, TableNames DEF Known, SInv, TypeOK, StoreType
<1>3. \A c \in Callers : ~Holds(c, "threads", t)
  BY <1>1, NotHeld
<1>4. Clean("threads", t) => Read("threads", mem.threads[t]) = Read("threads", sql.threads[t])
  BY <1>1, <1>2, <1>3 DEF SInv, AgreeInv, Agree, Changed, Has
<1>5. Clean("threads", t) => mem.threads[t].flow = sql.threads[t].flow
  BY <1>4 DEF Read
<1> QED
  BY <1>1, <1>2, <1>3, <1>5 DEF Has

LEMMA UpdateThreadInv ==
  ASSUME SInv, NEW t \in Known("threads"), NEW f \in Flows, UpdateThread(t, f)
  PROVE  SInv'
<1> DEFINE row == [mem.threads[t] EXCEPT !.flow = f, !.status = "ACTIVE"]
           memory == MemUpdateThread(mem, t, row)
           database == SqlUpdateThread(sql, t, row)
           kept == {"parent"}
<1>1. row \in RowType("threads")
  BY ThreadFacts DEF RowType
<1>2. Read("threads", Mixed(row, sql["threads"][t], kept)) = Read("threads", row)
  BY <1>1 DEF Read, Mixed, RowType
<1>3. /\ Call("threads") /\ Write(<<"threads", t>>, memory, database)
      /\ UNCHANGED <<held, raced>>
  BY DEF UpdateThread
<1> HIDE DEF row
<1>4. memory = Put(mem, "threads", t, row)
  BY ThreadFacts DEF MemUpdateThread, Has
<1>5. /\ Changes(mem, memory, "threads", t) /\ Changes(sql, database, "threads", t)
      /\ Clean("threads", t) => SameRow(memory, database, "threads", t)
  BY <1>1, <1>2, <1>4, ThreadFacts, UpdatedRow DEF SqlUpdateThread
<1> HIDE DEF memory, database
<1> QED
  BY <1>3, <1>5, ThreadFacts, PlainWrite

\* Closing a thread is putting its row with another status.
LEMMA CloseRow ==
  ASSUME NEW db, StoreType(db), NEW t, Has(db, "threads", t)
  PROVE  LET new == [db EXCEPT !.threads[t].status = "CLOSED"] IN
         /\ Changes(db, new, "threads", t) /\ Has(new, "threads", t)
         /\ new.threads[t] = [db.threads[t] EXCEPT !.status = "CLOSED"]
<1> DEFINE row == [db.threads[t] EXCEPT !.status = "CLOSED"]
           new == [db EXCEPT !.threads[t].status = "CLOSED"]
<1>1. "threads" \in Tables /\ DOMAIN db = Tables
  BY TableNames DEF StoreType, Tables
<1>2. t \in DOMAIN db.threads /\ db.threads[t] \in RowType("threads") /\ t \in KeyType("threads")
  BY <1>1, TableNames DEF StoreType, Has
<1>3. row \in RowType("threads")
  BY <1>2 DEF RowType
<1>4. Changes(db, Put(db, "threads", t, row), "threads", t)
  BY <1>1, <1>2, <1>3, PutRow
<1>5. /\ DOMAIN new = DOMAIN db /\ \A table \in DOMAIN db \ {"threads"} : new[table] = db[table]
      /\ new["threads"] = [db.threads EXCEPT ![t] = row]
  BY <1>1, <1>2
<1> HIDE DEF new, row
<1>6. /\ DOMAIN new["threads"] = DOMAIN db["threads"] /\ new["threads"][t] = row
      /\ \A k \in DOMAIN db["threads"] \ {t} : new["threads"][k] = db["threads"][k]
  BY <1>2, <1>5
<1>7. Touches(db, new, "threads", t)
  BY <1>5, <1>6 DEF Touches
<1>8. StoreType(new)
  <2> SUFFICES ASSUME NEW table \in Tables
               PROVE  /\ IsFiniteSet(DOMAIN new[table]) /\ DOMAIN new[table] \subseteq KeyType(table)
                      /\ \A k \in DOMAIN new[table] : new[table][k] \in RowType(table)
    BY <1>1, <1>5, TableNames DEF StoreType
  <2>1. /\ IsFiniteSet(DOMAIN db[table]) /\ DOMAIN db[table] \subseteq KeyType(table)
        /\ \A k \in DOMAIN db[table] : db[table][k] \in RowType(table)
    BY TableNames DEF StoreType
  <2> QED
    BY <1>1, <1>3, <1>5, <1>6, <2>1
<1> QED
  BY <1>2, <1>6, <1>7, <1>8 DEF Changes, Has, new, row

LEMMA CloseThreadInv ==
  ASSUME SInv, NEW t \in Known("threads"), CloseThread(t)
  PROVE  SInv'
<1> DEFINE memory == MemCloseThread(mem, t)
           database == SqlCloseThread(sql, t)
<1>1. StoreType(mem) /\ StoreType(sql)
  BY DEF SInv, TypeOK
<1>2. /\ Changes(mem, memory, "threads", t) /\ Has(memory, "threads", t)
      /\ memory.threads[t] = [mem.threads[t] EXCEPT !.status = "CLOSED"]
  BY <1>1, ThreadFacts, CloseRow DEF MemCloseThread
<1>3. /\ Changes(sql, database, "threads", t) /\ Has(database, "threads", t)
      /\ database.threads[t] = [sql.threads[t] EXCEPT !.status = "CLOSED"]
  BY <1>1, ThreadFacts, CloseRow DEF SqlCloseThread
<1>4. /\ Call("threads") /\ Write(<<"threads", t>>, memory, database)
      /\ UNCHANGED <<held, raced>>
  BY DEF CloseThread
<1> HIDE DEF memory, database
<1>5. memory.threads[t].status = "CLOSED" /\ memory.threads[t].flow = mem.threads[t].flow
  BY <1>2, ThreadFacts DEF RowType
<1>6. database.threads[t].status = "CLOSED" /\ database.threads[t].flow = sql.threads[t].flow
  BY <1>3, ThreadFacts DEF RowType
<1>7. Clean("threads", t) => SameRow(memory, database, "threads", t)
  BY <1>2, <1>3, <1>5, <1>6, ThreadFacts DEF SameRow, Read
<1> QED
  BY <1>2, <1>3, <1>4, <1>7, ThreadFacts, PlainWrite

----------------------------------------------------------------------------
(* A call of a caller that holds a record.                                 *)

\* What holds for who held a record before, of a row that is not written or whose
\* reference is kept.
LEMMA StillHeld ==
  ASSUME SInv, NEW c \in Callers, held[c] # None, held'[c] = held[c],
         NEW table \in Tables, NEW key,
         Touches(mem, mem', table, key), Touches(sql, sql', table, key),
         lost \subseteq lost', raced \subseteq raced',
         \A d \in Callers \ {c} :
           Holds(d, held[c].table, held[c].key)' =>
             \/ Holds(d, held[c].table, held[c].key)
             \/ <<held[c].table, held[c].key>> \in raced',
         \/ held[c].table # table \/ held[c].key # key
         \/ /\ table = "instances" => sql'.instances[key].process = sql.instances[key].process
            /\ table = "flows" => sql'.flows[key].instance = sql.flows[key].instance
            /\ <<table, key>> \in raced
  PROVE  HeldOf(c)'
<1> DEFINE t == held[c].table
           k == held[c].key
<1>1. DOMAIN mem = Tables /\ DOMAIN sql = Tables
  BY TableNames DEF SInv, TypeOK, StoreType
<1>2. t \in {"instances", "flows"} /\ t \in Tables /\ HeldOf(c)
  BY DEF SInv, HeldInv, TypeOK, Record, Tables
<1>3. Has(mem, t, k)' /\ Has(sql, t, k)'
  BY <1>1, <1>2 DEF HeldOf, Has, Touches
<1>4. \A d \in Callers \ {c} : Holds(d, t, k)' => <<t, k>> \in raced'
  BY <1>2 DEF HeldOf
<1>5. Clean(t, k)' => Clean(t, k) /\ <<t, k>> \notin raced
  BY DEF Clean
<1>6. CASE t # table \/ k # key
  <2>1. mem'[t][k] = mem[t][k] /\ sql'[t][k] = sql[t][k]
    BY <1>1, <1>2, <1>6 DEF Touches, HeldOf, Has
  <2> QED
    BY <1>2, <1>3, <1>4, <1>5, <2>1 DEF HeldOf
<1>7. CASE t = table /\ k = key
  BY <1>2, <1>3, <1>4, <1>5, <1>7 DEF HeldOf
<1> QED
  BY <1>6, <1>7

\* A caller gets a record that both stores have.
LEMMA HoldInv ==
  ASSUME SInv, NEW c \in Callers, NEW table \in {"instances", "flows"}, NEW key,
         NEW row \in RowType(table), NEW alias \in BOOLEAN, Hold(c, table, key, row, alias),
         Changes(mem, mem', table, key), Changes(sql, sql', table, key),
         key \in KeyType(table), Has(mem, table, key)', Has(sql, table, key)',
         sql'[table][key] = row,
         SameRow(mem', sql', table, key) \/ (Agree(table, key) /\ UNCHANGED <<mem, sql, lost>>),
         (\E d \in Callers : Holds(d, table, key)) => UNCHANGED <<mem, sql>>,
         lost \subseteq lost', IsFiniteSet(lost'), Cardinality(lost') <= MaxLost,
         mix' \in Mixes, count' \in 0..MaxCalls
  PROVE  SInv'
<1> DEFINE rec == [table |-> table, key |-> key, row |-> row, alias |-> alias, dirty |-> FALSE]
<1>1. /\ held[c] = None /\ held' = [held EXCEPT ![c] = rec]
      /\ raced \subseteq raced'
      /\ (\E d \in Callers : Holds(d, table, key)) => <<table, key>> \in raced'
  BY DEF Hold, Holds
<1>2. DOMAIN held = Callers /\ DOMAIN held' = Callers /\ held'[c] = rec
      /\ \A d \in Callers \ {c} : held'[d] = held[d]
  BY <1>1 DEF SInv, TypeOK
<1>3. table \in Tables
  BY DEF Tables
<1>4. TypeOK'
  <2>1. /\ rec \in Record
        /\ rec.key \in KeyType(rec.table) /\ rec.row \in RowType(rec.table)
    BY DEF KeyType, Record
  <2> HIDE DEF rec
  <2>2. \A d \in Callers : held'[d] # None =>
          /\ held'[d] \in Record
          /\ held'[d].key \in KeyType(held'[d].table) /\ held'[d].row \in RowType(held'[d].table)
    BY <1>2, <2>1 DEF SInv, TypeOK
  <2> QED
    BY <1>2, <2>2 DEF TypeOK, Changes
<1>5. rec.table = table /\ rec.key = key /\ rec.row = row /\ ~rec.dirty
  OBVIOUS
<1> HIDE DEF rec
<1>6. \A t, k : Changed(t, k) <=> Changed(t, k)'
  BY <1>1, <1>2, <1>5 DEF Changed, Holds
<1>7. AgreeInv'
  <2> SUFFICES ASSUME NEW t \in Tables, NEW k PROVE Agree(t, k)'
    BY DEF AgreeInv
  <2>1. CASE t # table \/ k # key
    BY <1>1, <1>3, <1>6, <2>1, AgreeElsewhere DEF SInv, Changes
  <2>2. CASE t = table /\ k = key /\ SameRow(mem', sql', table, key)
    BY <2>2 DEF Agree, SameRow, Has
  <2>3. CASE t = table /\ k = key /\ Agree(table, key) /\ UNCHANGED <<mem, sql, lost>>
    BY <1>1, <1>6, <2>3 DEF Agree, Has, Clean
  <2> QED
    BY <2>1, <2>2, <2>3
<1>8. ASSUME NEW d \in Callers, held'[d] # None PROVE HeldOf(d)'
  <2>1. CASE d = c
    <3>1. Clean(table, key)' => mem'[table][key] = row \/ table # "flows"
      <4> SUFFICES ASSUME Clean(table, key)', table = "flows" PROVE mem'[table][key] = row
        OBVIOUS
      <4>1. CASE SameRow(mem', sql', table, key)
        BY <4>1 DEF SameRow, Read
      <4>2. CASE Agree(table, key) /\ UNCHANGED <<mem, sql, lost>>
        <5>1. ~Changed(table, key) /\ Clean(table, key)
          BY <1>1 DEF Clean, Changed
        <5> QED
          BY <4>2, <5>1 DEF Agree, Has, Read
      <4> QED
        BY <4>1, <4>2
    <3>2. \A e \in Callers \ {c} : Holds(e, table, key)' => <<table, key>> \in raced'
      BY <1>1, <1>2 DEF Holds
    <3> QED
      BY <1>2, <1>5, <2>1, <3>1, <3>2 DEF HeldOf
  <2>2. CASE d # c
    <3>1. held'[d] = held[d] /\ held[d] # None
      BY <1>2, <1>8, <2>2
    <3>2. \A e \in Callers \ {d} : Holds(e, held[d].table, held[d].key)' =>
             \/ Holds(e, held[d].table, held[d].key)
             \/ <<held[d].table, held[d].key>> \in raced'
      BY <1>1, <1>2, <1>5, <3>1 DEF Holds
    <3>3. CASE held[d].table # table \/ held[d].key # key
      BY <1>1, <1>3, <3>1, <3>2, <3>3, StillHeld DEF Changes
    <3>4. CASE held[d].table = table /\ held[d].key = key
      <4>1. UNCHANGED <<mem, sql>>
        BY <3>1, <3>4 DEF Holds
      <4>2. Clean(table, key)' => FALSE
        BY <1>1, <3>1, <3>4 DEF Clean, Holds
      <4>3. HeldOf(d)
        BY <3>1 DEF SInv, HeldInv
      <4>4. \A e \in Callers \ {d} : Holds(e, table, key)' => <<table, key>> \in raced'
        BY <1>1, <3>1, <3>4 DEF Holds
      <4> QED
        BY <3>1, <3>4, <4>1, <4>2, <4>3, <4>4 DEF HeldOf, Has
    <3> QED
      BY <3>3, <3>4
  <2> QED
    BY <2>1, <2>2
<1>9. JobInv'
  <2>1. DOMAIN mem = Tables /\ DOMAIN sql = Tables
    BY TableNames DEF SInv, TypeOK, StoreType
  <2>2. mem'.jobs = mem.jobs /\ DOMAIN sql.instances \subseteq DOMAIN sql'.instances
    BY <2>1 DEF Changes, Touches, Tables
  <2> QED
    BY <2>2 DEF SInv, JobInv
<1> QED
  BY <1>4, <1>7, <1>8, <1>9 DEF SInv, HeldInv

LEMMA CreateInstanceInv ==
  ASSUME SInv, NEW c \in Callers, NEW i \in Instances, NEW p \in Processes, NEW v \in Variables,
         CreateInstance(c, i, p, v)
  PROVE  SInv'
<1> DEFINE row == [process |-> p, status |-> "CREATED", variables |-> v]
           memory == MemCreateInstance(mem, i, row)
           database == SqlCreateInstance(sql, i, row)
<1>1. "instances" \in Tables /\ i \in KeyType("instances") /\ row \in RowType("instances")
  BY DEF Tables, KeyType, RowType, InstanceStatus
<1>2. i \in Fresh("instances", Instances) /\ Has(sql, "processes", row.process)
  BY DEF CreateInstance, Known, Has
<1>3. /\ Call("instances") /\ Write(<<"instances", i>>, memory, database)
      /\ IF i \in DOMAIN sql'.instances THEN Hold(c, "instances", i, row, TRUE)
         ELSE UNCHANGED <<held, raced>>
  BY DEF CreateInstance
<1> HIDE DEF row
<1>4. /\ Changes(mem, memory, "instances", i) /\ Changes(sql, database, "instances", i)
      /\ SameRow(memory, database, "instances", i)
      /\ database["instances"][i] = row
      /\ \A d \in Callers : ~Holds(d, "instances", i)
  BY <1>1, <1>2, FreshRow DEF MemCreateInstance, SqlCreateInstance
<1> HIDE DEF memory, database
<1>5. CASE i \in DOMAIN sql'.instances
  <2>1. sql' = database /\ mem' = memory
    BY <1>2, <1>3, <1>5 DEF Write, Fresh
  <2>2. /\ lost \subseteq lost' /\ IsFiniteSet(lost') /\ Cardinality(lost') <= MaxLost
        /\ mix' \in Mixes /\ count' \in 0..MaxCalls
    BY <1>1, <1>3, <1>4, WriteType DEF SInv
  <2> QED
    BY <1>1, <1>3, <1>4, <1>5, <2>1, <2>2, HoldInv DEF SameRow
<1>6. CASE i \notin DOMAIN sql'.instances
  BY <1>1, <1>3, <1>4, <1>6, PlainWrite
<1> QED
  BY <1>5, <1>6

\* Reading a record both stores have.
LEMMA GetInv ==
  ASSUME SInv, NEW c \in Callers, NEW table \in {"instances", "flows"}, NEW key \in Known(table),
         NEW alias \in BOOLEAN, Hold(c, table, key, sql[table][key], alias), Call(table),
         UNCHANGED <<mem, sql, lost>>
  PROVE  SInv'
<1>1. table \in Tables /\ Has(mem, table, key) /\ Has(sql, table, key)
  BY DEF Tables, Known, Has
<1>2. /\ StoreType(mem) /\ StoreType(sql) /\ key \in KeyType(table)
      /\ sql[table][key] \in RowType(table)
  BY <1>1, TableNames DEF SInv, TypeOK, StoreType, Has
<1>3. Changes(mem, mem', table, key) /\ Changes(sql, sql', table, key)
  BY <1>1, <1>2, SameStore
<1>4. Agree(table, key)
  BY <1>1 DEF SInv, AgreeInv
<1>5. mix' \in Mixes /\ count' \in 0..MaxCalls
  BY StoresAssumption DEF Call, SInv, TypeOK
<1>6. Has(mem, table, key)' /\ Has(sql, table, key)'
  BY <1>1 DEF Has
<1>7. IsFiniteSet(lost') /\ Cardinality(lost') <= MaxLost
  BY DEF SInv, TypeOK
<1> QED
  BY <1>2, <1>3, <1>4, <1>5, <1>6, <1>7, HoldInv

\* What a caller that holds a record knows.
LEMMA HolderFacts ==
  ASSUME SInv, NEW c \in Callers, held[c] # None
  PROVE  LET table == held[c].table
             key == held[c].key
         IN
         /\ table \in Tables /\ table \in {"instances", "flows"} /\ key \in KeyType(table)
         /\ held[c].row \in RowType(table)
         /\ Has(mem, table, key) /\ Has(sql, table, key)
         /\ mem[table][key] \in RowType(table) /\ sql[table][key] \in RowType(table)
         /\ HeldOf(c)
<1>1. /\ held[c].table \in {"instances", "flows"} /\ held[c].table \in Tables
      /\ held[c].key \in KeyType(held[c].table) /\ held[c].row \in RowType(held[c].table)
  BY DEF SInv, TypeOK, Record, Tables
<1>2. HeldOf(c)
  BY DEF SInv, HeldInv
<1> QED
  BY <1>1, <1>2, TableNames DEF HeldOf, Has, SInv, TypeOK, StoreType

\* A caller changes its record, and with it the record of the memory store.
LEMMA ChangeInv ==
  ASSUME SInv, NEW c \in Callers, held[c] # None, NEW rec, DOMAIN held' = Callers,
         held'[c] = rec, \A d \in Callers \ {c} : held'[d] = held[d],
         rec \in Record, rec.table = held[c].table, rec.key = held[c].key,
         rec.row \in RowType(held[c].table), rec.dirty,
         held[c].table = "instances" => rec.row.process = held[c].row.process,
         held[c].table = "flows" => /\ rec.row.instance = held[c].row.instance
                                    /\ Clean("flows", held[c].key)
                                         => mem'["flows"][held[c].key] = rec.row,
         Changes(mem, mem', held[c].table, held[c].key),
         Call(held[c].table), UNCHANGED <<sql, lost, raced>>
  PROVE  SInv'
<1> DEFINE table == held[c].table
           key == held[c].key
<1>1. /\ table \in Tables /\ table \in {"instances", "flows"} /\ key \in KeyType(table)
      /\ Has(mem, table, key) /\ Has(sql, table, key) /\ HeldOf(c)
  BY HolderFacts
<1>2. rec # None
  BY NoneAssumption
<1>3. DOMAIN mem = Tables /\ DOMAIN sql = Tables
  BY TableNames DEF SInv, TypeOK, StoreType
<1>4. mix' \in Mixes /\ count' \in 0..MaxCalls
  BY StoresAssumption DEF Call, SInv, TypeOK
<1>5. Touches(sql, sql', table, key)
  BY <1>1, SameStore DEF SInv, TypeOK, Changes
<1>6. TypeOK'
  <2>2. \A d \in Callers : held'[d] # None =>
          /\ held'[d] \in Record
          /\ held'[d].key \in KeyType(held'[d].table) /\ held'[d].row \in RowType(held'[d].table)
    BY <1>1, <1>2 DEF SInv, TypeOK
  <2> QED
    BY <1>4, <2>2 DEF SInv, TypeOK, Changes
<1>7. AgreeInv'
  <2> SUFFICES ASSUME NEW t \in Tables, NEW k PROVE Agree(t, k)'
    BY DEF AgreeInv
  <2>1. CASE t # table \/ k # key
    <3>1. Changed(t, k) => Changed(t, k)'
      <4> SUFFICES ASSUME NEW d \in Callers, Holds(d, t, k), held[d].dirty
                   PROVE  Changed(t, k)'
        BY DEF Changed
      <4>1. d # c
        BY <2>1 DEF Holds
      <4> QED
        BY <4>1 DEF Changed, Holds
    <3> QED
      BY <1>1, <1>5, <2>1, <3>1, AgreeElsewhere DEF SInv, Changes
  <2>2. CASE t = table /\ k = key
    <3>1. Has(mem, table, key)' /\ Has(sql, table, key)'
      BY <1>1, <1>3 DEF Changes, Touches, Has
    <3>2. Changed(table, key)'
      BY <1>2 DEF Changed, Holds
    <3> QED
      BY <2>2, <3>1, <3>2 DEF Agree
  <2> QED
    BY <2>1, <2>2
<1>8. ASSUME NEW d \in Callers, held'[d] # None PROVE HeldOf(d)'
  <2>1. CASE d = c
    <3>1. Has(mem, table, key)' /\ Has(sql, table, key)'
      BY <1>1, <1>3 DEF Changes, Touches, Has
    <3>2. \A e \in Callers \ {c} : Holds(e, table, key)' => <<table, key>> \in raced'
      BY <1>1 DEF HeldOf, Holds
    <3>3. Clean(table, key)' => Clean(table, key)
      BY DEF Clean
    <3> QED
      BY <1>1, <2>1, <3>1, <3>2, <3>3 DEF HeldOf
  <2>2. CASE d # c
    <3>1. held'[d] = held[d] /\ held[d] # None
      BY <1>8, <2>2
    <3>2. \A e \in Callers \ {d} : Holds(e, held[d].table, held[d].key)' =>
             Holds(e, held[d].table, held[d].key)
      BY DEF Holds
    <3>3. held[d].table = table /\ held[d].key = key => <<table, key>> \in raced
      BY <1>1, <2>2, <3>1 DEF HeldOf, Holds
    <3> QED
      BY <1>1, <1>5, <3>1, <3>2, <3>3, StillHeld DEF Changes
  <2> QED
    BY <2>1, <2>2
<1>9. JobInv'
  <2>1. mem'.jobs = mem.jobs
    BY <1>1, <1>3 DEF Changes, Touches, Tables
  <2> QED
    BY <2>1 DEF SInv, JobInv
<1> QED
  BY <1>6, <1>7, <1>8, <1>9 DEF SInv, HeldInv

\* The row of a table with another value.
LEMMA ExceptRow ==
  ASSUME NEW db, StoreType(db), NEW table \in Tables, NEW key, Has(db, table, key),
         NEW row \in RowType(table), NEW new,
         DOMAIN new = DOMAIN db, \A t \in DOMAIN db \ {table} : new[t] = db[t],
         new[table] = [db[table] EXCEPT ![key] = row]
  PROVE  Changes(db, new, table, key) /\ Has(new, table, key) /\ new[table][key] = row
<1>1. DOMAIN db = Tables
  BY TableNames DEF StoreType
<1>2. /\ DOMAIN new[table] = DOMAIN db[table] /\ new[table][key] = row
      /\ \A k \in DOMAIN db[table] \ {key} : new[table][k] = db[table][k]
  BY DEF Has
<1>3. Touches(db, new, table, key)
  BY <1>2 DEF Touches
<1>4. StoreType(new)
  <2> SUFFICES ASSUME NEW t \in Tables
               PROVE  /\ IsFiniteSet(DOMAIN new[t]) /\ DOMAIN new[t] \subseteq KeyType(t)
                      /\ \A k \in DOMAIN new[t] : new[t][k] \in RowType(t)
    BY <1>1, TableNames DEF StoreType
  <2>1. /\ IsFiniteSet(DOMAIN db[t]) /\ DOMAIN db[t] \subseteq KeyType(t)
        /\ \A k \in DOMAIN db[t] : db[t][k] \in RowType(t)
    BY TableNames DEF StoreType
  <2> QED
    BY <1>1, <1>2, <2>1
<1> QED
  BY <1>2, <1>3, <1>4 DEF Changes, Has

LEMMA GetInstanceInv ==
  ASSUME SInv, NEW c \in Callers, NEW i \in Instances, GetInstance(c, i)
  PROVE  SInv'
BY GetInv DEF GetInstance, Started

LEMMA GetFlowInv ==
  ASSUME SInv, NEW c \in Callers, NEW f \in Flows, GetFlow(c, f)
  PROVE  SInv'
BY GetInv DEF GetFlow

LEMMA RunChangesInv ==
  ASSUME SInv, NEW c \in Callers, NEW status \in {"IN_PROGRESS", "COMPLETED"},
         NEW v \in Variables, RunChanges(c, status, v)
  PROVE  SInv'
<1> DEFINE key == held[c].key
           row == [held[c].row EXCEPT !.status = status, !.variables = v]
           rec == [held[c] EXCEPT !.row = row, !.dirty = TRUE]
<1>1. /\ held[c] # None /\ held[c].table = "instances" /\ Call("instances")
      /\ UNCHANGED <<sql, lost, raced>>
  BY DEF RunChanges
<1>2. /\ held[c].row \in RowType("instances") /\ mem.instances[key] \in RowType("instances")
      /\ Has(mem, "instances", key)
  BY <1>1, HolderFacts
<1>3. row \in RowType("instances") /\ row.process = held[c].row.process
  BY <1>2 DEF RowType, InstanceStatus
<1>4. DOMAIN held = Callers /\ held[c] \in Record
  BY <1>1 DEF SInv, TypeOK
<1>5. held' = [held EXCEPT ![c] = rec]
  BY <1>4 DEF RunChanges, Record
<1>6. DOMAIN held' = Callers /\ held'[c] = rec /\ \A d \in Callers \ {c} : held'[d] = held[d]
  BY <1>4, <1>5
<1>7. /\ rec \in Record /\ rec.table = held[c].table /\ rec.key = key /\ rec.row = row
      /\ rec.dirty
  BY <1>3, <1>4 DEF Record
<1>8. Changes(mem, mem', "instances", key)
  <2>1. StoreType(mem) /\ "instances" \in Tables /\ DOMAIN mem = Tables
    BY TableNames DEF SInv, TypeOK, StoreType, Tables
  <2>2. CASE held[c].alias
    <3> DEFINE stored == [mem.instances[key] EXCEPT !.variables = v]
    <3>1. stored \in RowType("instances")
      BY <1>2 DEF RowType
    <3>2. mem' = [mem EXCEPT !.instances[key].variables = v]
      BY <2>2 DEF RunChanges
    <3>3. /\ DOMAIN mem' = DOMAIN mem /\ \A t \in DOMAIN mem \ {"instances"} : mem'[t] = mem[t]
          /\ mem'["instances"] = [mem["instances"] EXCEPT ![key] = stored]
      BY <2>1, <3>2
    <3> HIDE DEF stored
    <3> QED
      BY <1>2, <2>1, <3>1, <3>3, ExceptRow
  <2>3. CASE ~held[c].alias
    BY <2>1, <2>3, SameStore DEF RunChanges
  <2> QED
    BY <2>2, <2>3
<1> HIDE DEF rec, row
<1> QED
  BY <1>1, <1>3, <1>6, <1>7, <1>8, ChangeInv

LEMMA SetStatusInv ==
  ASSUME SInv, NEW c \in Callers, NEW status \in {"COMPLETED", "SKIPPED"}, SetStatus(c, status)
  PROVE  SInv'
<1> DEFINE key == held[c].key
           row == [held[c].row EXCEPT !.status = status]
           rec == [held[c] EXCEPT !.row = row, !.dirty = TRUE]
           stored == [mem.flows[key] EXCEPT !.status = status]
<1>1. /\ held[c] # None /\ held[c].table = "flows" /\ Call("flows")
      /\ UNCHANGED <<sql, lost, raced>>
      /\ mem' = [mem EXCEPT !.flows[key].status = status]
  BY DEF SetStatus
<1>2. /\ held[c].row \in RowType("flows") /\ mem.flows[key] \in RowType("flows")
      /\ Has(mem, "flows", key) /\ HeldOf(c)
  BY <1>1, HolderFacts
<1>3. row \in RowType("flows") /\ row.instance = held[c].row.instance
  BY <1>2 DEF RowType, FlowStatus
<1>4. DOMAIN held = Callers /\ held[c] \in Record
  BY <1>1 DEF SInv, TypeOK
<1>5. held' = [held EXCEPT ![c] = rec]
  BY <1>4 DEF SetStatus, Record
<1>6. DOMAIN held' = Callers /\ held'[c] = rec /\ \A d \in Callers \ {c} : held'[d] = held[d]
  BY <1>4, <1>5
<1>7. /\ rec \in Record /\ rec.table = held[c].table /\ rec.key = key /\ rec.row = row
      /\ rec.dirty
  BY <1>3, <1>4 DEF Record
<1>8. Changes(mem, mem', "flows", key) /\ mem'["flows"][key] = stored
  <2>1. StoreType(mem) /\ "flows" \in Tables /\ DOMAIN mem = Tables
    BY TableNames DEF SInv, TypeOK, StoreType, Tables
  <2>2. stored \in RowType("flows")
    BY <1>2 DEF RowType, FlowStatus
  <2>3. /\ DOMAIN mem' = DOMAIN mem /\ \A t \in DOMAIN mem \ {"flows"} : mem'[t] = mem[t]
        /\ mem'["flows"] = [mem["flows"] EXCEPT ![key] = stored]
    BY <1>1, <2>1
  <2> HIDE DEF stored
  <2> QED
    BY <1>2, <2>1, <2>2, <2>3, ExceptRow
<1>9. Clean("flows", key) => stored = row
  BY <1>1, <1>2 DEF HeldOf
<1> HIDE DEF rec, row, stored
<1> QED
  BY <1>1, <1>3, <1>6, <1>7, <1>8, <1>9, ChangeInv

\* A caller writes its record back and lets go of it.
LEMMA WriteBackInv ==
  ASSUME SInv, NEW c \in Callers, held[c] # None, NEW table, NEW key,
         table = held[c].table, key = held[c].key, NEW memory, NEW database,
         Changes(mem, memory, table, key), Changes(sql, database, table, key),
         Clean(table, key) => SameRow(memory, database, table, key),
         table = "instances" => database.instances[key].process = sql.instances[key].process,
         table = "flows" => database.flows[key].instance = sql.flows[key].instance,
         Call(table), Write(<<table, key>>, memory, database), Release(c), UNCHANGED raced
  PROVE  SInv'
<1>1. /\ table \in Tables /\ table \in {"instances", "flows"} /\ HeldOf(c)
  BY HolderFacts
<1>2. /\ Changes(mem, mem', table, key) /\ Changes(sql, sql', table, key)
      /\ lost \subseteq lost' /\ IsFiniteSet(lost') /\ Cardinality(lost') <= MaxLost
      /\ mix' \in Mixes /\ count' \in 0..MaxCalls
      /\ sql' = database \/ <<table, key>> \in lost'
  BY <1>1, WriteType DEF SInv
<1>3. /\ DOMAIN held' = Callers /\ held'[c] = None
      /\ \A d \in Callers \ {c} : held'[d] = held[d]
  BY DEF Release, SInv, TypeOK
<1>4. TypeOK'
  BY <1>2, <1>3 DEF SInv, TypeOK, Changes
<1>5. AgreeInv'
  <2> SUFFICES ASSUME NEW t \in Tables, NEW k PROVE Agree(t, k)'
    BY DEF AgreeInv
  <2>1. CASE t # table \/ k # key
    <3>1. Changed(t, k) => Changed(t, k)'
      <4> SUFFICES ASSUME NEW d \in Callers, Holds(d, t, k), held[d].dirty
                   PROVE  Changed(t, k)'
        BY DEF Changed
      <4>1. d # c
        BY <2>1 DEF Holds
      <4> QED
        BY <1>3, <4>1 DEF Changed, Holds
    <3> QED
      BY <1>1, <1>2, <2>1, <3>1, AgreeElsewhere DEF SInv, Changes
  <2>2. CASE t = table /\ k = key
    <3>1. Clean(t, k)' => sql' = database /\ Clean(table, key)
      BY <1>2, <2>2 DEF Clean
    <3>2. mem' = memory
      BY DEF Write
    <3> QED
      BY <2>2, <3>1, <3>2 DEF Agree, SameRow, Has
  <2> QED
    BY <2>1, <2>2
<1>6. ASSUME NEW d \in Callers, held'[d] # None PROVE HeldOf(d)'
  <2>1. d # c /\ held'[d] = held[d] /\ held[d] # None
    BY <1>3, <1>6
  <2>2. \A e \in Callers \ {d} : Holds(e, held[d].table, held[d].key)' =>
           Holds(e, held[d].table, held[d].key)
    BY <1>3, <2>1 DEF Holds
  <2>3. held[d].table = table /\ held[d].key = key => <<table, key>> \in raced
    BY <1>1, <2>1 DEF HeldOf, Holds
  <2>4. /\ table = "instances" => sql'.instances[key].process = sql.instances[key].process
        /\ table = "flows" => sql'.flows[key].instance = sql.flows[key].instance
    BY DEF Write
  <2> QED
    BY <1>1, <1>2, <2>1, <2>2, <2>3, <2>4, StillHeld DEF Changes
<1>7. JobInv'
  <2>1. DOMAIN mem = Tables /\ DOMAIN sql = Tables
    BY TableNames DEF SInv, TypeOK, StoreType
  <2>2. mem'.jobs = mem.jobs /\ DOMAIN sql.instances \subseteq DOMAIN sql'.instances
    BY <1>1, <1>2, <2>1 DEF Changes, Touches, Tables
  <2> QED
    BY <2>2 DEF SInv, JobInv
<1> QED
  BY <1>4, <1>5, <1>6, <1>7 DEF SInv, HeldInv

LEMMA UpdateInstanceInv ==
  ASSUME SInv, NEW c \in Callers, UpdateInstance(c)
  PROVE  SInv'
<1> DEFINE i == held[c].key
           row == held[c].row
           memory == MemUpdateInstance(mem, i, row)
           database == SqlUpdateInstance(sql, i, row)
<1>1. /\ held[c] # None /\ held[c].table = "instances"
      /\ Call("instances") /\ Write(<<"instances", i>>, memory, database)
      /\ Release(c) /\ UNCHANGED raced
  BY DEF UpdateInstance
<1>2. /\ "instances" \in Tables /\ "instances" \in Updated /\ i \in KeyType("instances")
      /\ row \in RowType("instances") /\ Has(sql, "instances", i)
      /\ sql.instances[i] \in RowType("instances")
      /\ sql.instances[i].process = row.process
      /\ StoreType(mem) /\ StoreType(sql)
  BY <1>1, HolderFacts DEF HeldOf, Updated, SInv, TypeOK
<1>3. Mixed(row, sql.instances[i], {"process"}) = row
  BY <1>2 DEF Mixed, RowType
<1>4. Changes(mem, memory, "instances", i) /\ Has(memory, "instances", i)
      /\ memory["instances"][i] = row
  BY <1>2, PutRow DEF MemUpdateInstance
<1>5. Changes(sql, database, "instances", i) /\ Has(database, "instances", i)
      /\ database["instances"][i] = row
  BY <1>2, <1>3, UpdateRow DEF SqlUpdateInstance
<1> HIDE DEF memory, database
<1> QED
  BY <1>1, <1>2, <1>4, <1>5, WriteBackInv DEF SameRow

LEMMA UpdateFlowInv ==
  ASSUME SInv, NEW c \in Callers, UpdateFlow(c)
  PROVE  SInv'
<1> DEFINE f == held[c].key
           row == held[c].row
           memory == MemUpdateFlow(mem, f, mem.flows[f])
           database == SqlUpdateFlow(sql, f, row)
<1>1. /\ held[c] # None /\ held[c].table = "flows"
      /\ Call("flows") /\ Write(<<"flows", f>>, memory, database)
      /\ Release(c) /\ UNCHANGED raced
  BY DEF UpdateFlow
<1>2. /\ "flows" \in Tables /\ "flows" \in Updated /\ f \in KeyType("flows")
      /\ row \in RowType("flows") /\ Has(sql, "flows", f)
      /\ mem.flows[f] \in RowType("flows") /\ sql.flows[f] \in RowType("flows")
      /\ sql.flows[f].instance = row.instance
      /\ Clean("flows", f) => mem.flows[f] = row
      /\ StoreType(mem) /\ StoreType(sql)
  BY <1>1, HolderFacts DEF HeldOf, Updated, SInv, TypeOK
<1>3. Mixed(row, sql.flows[f], {"instance"}) = row
  BY <1>2 DEF Mixed, RowType
<1>4. Changes(mem, memory, "flows", f) /\ Has(memory, "flows", f)
      /\ memory["flows"][f] = mem.flows[f]
  BY <1>2, PutRow DEF MemUpdateFlow
<1>5. Changes(sql, database, "flows", f) /\ Has(database, "flows", f)
      /\ database["flows"][f] = row
  BY <1>2, <1>3, UpdateRow DEF SqlUpdateFlow
<1> HIDE DEF memory, database
<1> QED
  BY <1>1, <1>2, <1>4, <1>5, WriteBackInv DEF SameRow

LEMMA LeaveInv ==
  ASSUME SInv, NEW c \in Callers, Leave(c)
  PROVE  SInv'
<1> DEFINE table == held[c].table
           key == held[c].key
<1>1. /\ held[c] # None /\ Release(c) /\ UNCHANGED <<mem, sql, raced, mix, count>>
      /\ lost' = IF held[c].dirty THEN lost \cup {<<table, key>>} ELSE lost
      /\ held[c].dirty => Cardinality(lost) < MaxLost
  BY DEF Leave
<1>2. table \in Tables /\ HeldOf(c)
  BY <1>1, HolderFacts
<1>3. /\ DOMAIN held' = Callers /\ held'[c] = None
      /\ \A d \in Callers \ {c} : held'[d] = held[d]
  BY <1>1 DEF Release, SInv, TypeOK
<1>4. lost \subseteq lost' /\ IsFiniteSet(lost') /\ Cardinality(lost') <= MaxLost
  <2>1. Cardinality(lost) \in Nat /\ IsFiniteSet(lost)
    BY FS_CardinalityType DEF SInv, TypeOK
  <2>2. CASE held[c].dirty
    <3>1. IsFiniteSet(lost') /\ Cardinality(lost') \in {Cardinality(lost), Cardinality(lost) + 1}
      BY <1>1, <2>1, <2>2, FS_AddElement
    <3> QED
      BY <1>1, <2>1, <2>2, <3>1, StoresAssumption
  <2>3. CASE ~held[c].dirty
    BY <1>1, <2>3 DEF SInv, TypeOK
  <2> QED
    BY <2>2, <2>3
<1>5. TypeOK'
  BY <1>1, <1>3, <1>4 DEF SInv, TypeOK
<1>6. AgreeInv'
  <2> SUFFICES ASSUME NEW t \in Tables, NEW k PROVE Agree(t, k)'
    BY DEF AgreeInv
  <2>1. Changed(t, k) => Changed(t, k)' \/ ~Clean(t, k)'
    <3> SUFFICES ASSUME NEW d \in Callers, Holds(d, t, k), held[d].dirty
                 PROVE  Changed(t, k)' \/ ~Clean(t, k)'
      BY DEF Changed
    <3>1. CASE d = c
      BY <1>1, <3>1 DEF Clean, Holds
    <3>2. CASE d # c
      BY <1>3, <3>2 DEF Changed, Holds
    <3> QED
      BY <3>1, <3>2
  <2>2. Clean(t, k)' => Clean(t, k)
    BY <1>1, <1>4 DEF Clean
  <2> QED
    BY <1>1, <2>1, <2>2 DEF SInv, AgreeInv, Agree, Has
<1>7. ASSUME NEW d \in Callers, held'[d] # None PROVE HeldOf(d)'
  <2>1. d # c /\ held'[d] = held[d] /\ HeldOf(d)
    BY <1>3, <1>7 DEF SInv, HeldInv
  <2>2. \A e \in Callers \ {d} : Holds(e, held[d].table, held[d].key)' =>
           Holds(e, held[d].table, held[d].key)
    BY <1>3, <2>1 DEF Holds
  <2>3. Clean(held[d].table, held[d].key)' => Clean(held[d].table, held[d].key)
    BY <1>1, <1>4, <2>1 DEF Clean
  <2> QED
    BY <1>1, <2>1, <2>2, <2>3 DEF HeldOf, Has
<1>8. JobInv'
  BY <1>1 DEF SInv, JobInv
<1> QED
  BY <1>5, <1>6, <1>7, <1>8 DEF SInv, HeldInv

----------------------------------------------------------------------------
(* Both stores keep the same rows.                                         *)

LEMMA InitInv ==
  ASSUME Init
  PROVE  SInv
<1>1. /\ mem \in Openings /\ sql = mem /\ held = [c \in Callers |-> None]
      /\ lost = {} /\ raced = {} /\ mix \in Mixes /\ count = 0
  BY DEF Init
<1>2. \A c \in Callers : held[c] = None
  BY <1>1
<1>3. IsFiniteSet(lost) /\ Cardinality(lost) = 0
  BY <1>1, FS_EmptySet
<1>4. TypeOK
  BY <1>1, <1>2, <1>3, OpeningsAssumption, StoresAssumption DEF TypeOK
<1>5. AgreeInv
  BY <1>1 DEF AgreeInv, Agree
<1>6. HeldInv
  BY <1>2 DEF HeldInv
<1>7. JobInv
  BY <1>1, OpeningsAssumption DEF JobInv
<1> QED
  BY <1>4, <1>5, <1>6, <1>7 DEF SInv

LEMMA StutterInv ==
  ASSUME SInv, UNCHANGED vars
  PROVE  SInv'
<1>1. UNCHANGED <<mem, sql, held, lost, raced, mix, count>>
  BY DEF vars
<1>2. TypeOK'
  BY <1>1 DEF SInv, TypeOK
<1>3. AgreeInv'
  BY <1>1 DEF SInv, AgreeInv, Agree, Clean, Changed, Holds, Has
<1>4. HeldInv'
  BY <1>1 DEF SInv, HeldInv, HeldOf, Clean, Holds, Has
<1>5. JobInv'
  BY <1>1 DEF SInv, JobInv
<1> QED
  BY <1>2, <1>3, <1>4, <1>5 DEF SInv

LEMMA CallerInv ==
  ASSUME SInv, NEW c \in Callers, InstanceCall(c) \/ FlowCall(c) \/ Leave(c)
  PROVE  SInv'
<1>1. CASE InstanceCall(c)
  BY <1>1, CreateInstanceInv, GetInstanceInv, RunChangesInv, UpdateInstanceInv DEF InstanceCall
<1>2. CASE FlowCall(c)
  BY <1>2, GetFlowInv, SetStatusInv, UpdateFlowInv DEF FlowCall
<1>3. CASE Leave(c)
  BY <1>3, LeaveInv
<1> QED
  BY <1>1, <1>2, <1>3

LEMMA NextInv ==
  ASSUME SInv, Next
  PROVE  SInv'
<1>1. CASE \E p \in Processes, version \in Versions : SaveProcess(p, version)
  BY <1>1, SaveProcessInv
<1>2. CASE \E c \in Callers : InstanceCall(c) \/ FlowCall(c) \/ Leave(c)
  BY <1>2, CallerInv
<1>3. CASE \E f \in Flows, i \in Instances, n \in Threads : CreateFlow(f, i, n)
  BY <1>3, CreateFlowInv
<1>4. CASE ThreadCall
  BY <1>4, CreateThreadInv, UpdateThreadInv, CloseThreadInv DEF ThreadCall
<1>5. CASE JobCall
  BY <1>5, CreateJobInv, UpdateJobInv, CreateDeadLetterInv DEF JobCall
<1>6. CASE \E e \in Entries, i \in Instances : LogExecution(e, i)
  BY <1>6, LogExecutionInv
<1> QED
  BY <1>1, <1>2, <1>3, <1>4, <1>5, <1>6 DEF Next

LEMMA SInvariance == Spec => []SInv
<1>1. Init => SInv
  BY InitInv
<1>2. SInv /\ [Next]_vars => SInv'
  BY NextInv, StutterInv
<1> QED
  BY <1>1, <1>2, PTL DEF Spec

\* Every table of both stores holds rows of its columns only, under keys of its
\* own (the records of pkg/store/store.go, the schema of 001_initial.sql).
THEOREM TypeCorrect == Spec => []TypeOK
<1>1. SInv => TypeOK
  BY DEF SInv
<1> QED
  BY <1>1, SInvariance, PTL

\* What AgreeInv says of the settled rows.
LEMMA SettledAgree ==
  ASSUME SInv
  PROVE  RowsAgree
<1> SUFFICES ASSUME NEW table \in Tables, NEW key \in DOMAIN mem[table] \cup DOMAIN sql[table],
                    Settled(table, key)
             PROVE  /\ Has(mem, table, key) /\ Has(sql, table, key)
                    /\ Read(table, mem[table][key]) = Read(table, sql[table][key])
  BY TableNames DEF RowsAgree
<1>1. Clean(table, key) /\ ~Changed(table, key)
  BY DEF Settled, Clean, Changed
<1>2. Has(mem, table, key) \/ Has(sql, table, key)
  BY DEF Has
<1> QED
  BY <1>1, <1>2 DEF SInv, AgreeInv, Agree

\* Whatever the calls, the callers and the contents at first: a row no write of
\* which was lost, that two callers did not have at once, that is no job created
\* twice for its case and that nobody holds changed, is in both stores or in none,
\* and reads the same over either.
THEOREM RowsAlwaysAgree == Spec => []RowsAgree
<1>1. SInv => RowsAgree
  BY SettledAgree
<1> QED
  BY <1>1, SInvariance, PTL

----------------------------------------------------------------------------
(* Both stores give the same answers.                                      *)

LEMMA LeastNumber ==
  ASSUME NEW T, T \subseteq Nat, T # {}
  PROVE  \E n \in T : \A m \in T : n <= m
<1>1. PICK n \in T : \A m \in T : ~(<<m, n>> \in OpToRel(<, Nat))
  BY NatLessThanWellFounded, WFMin
<1>2. \A m \in T : ~(m < n)
  BY <1>1 DEF OpToRel
<1> QED
  BY <1>2

\* A number of rows, none of which comes after one that is left out.
Leading(rows, at, size) ==
  {some \in SUBSET rows :
     Cardinality(some) = size /\ \A r \in some, s \in rows \ some : at[r] <= at[s]}

\* However many are asked for, there are that many to take first.
LEMMA LeadingRows ==
  ASSUME NEW rows, IsFiniteSet(rows), NEW at \in [rows -> Nat],
         NEW size \in 0..Cardinality(rows)
  PROVE  Leading(rows, at, size) # {}
<1> DEFINE Bad == {n \in 0..Cardinality(rows) : Leading(rows, at, n) = {}}
<1>1. Cardinality(rows) \in Nat
  BY FS_CardinalityType
<1> SUFFICES ASSUME Bad # {} PROVE FALSE
  BY DEF Leading
<1>2. PICK n \in Bad : \A m \in Bad : n <= m
  <2>1. Bad \subseteq Nat
    BY <1>1
  <2> HIDE DEF Bad
  <2> QED
    BY <2>1, LeastNumber
<1>3. n \in Nat /\ n <= Cardinality(rows) /\ Leading(rows, at, n) = {}
  BY <1>1, <1>2
<1>4. n # 0
  <2>1. {} \in Leading(rows, at, 0)
    BY FS_EmptySet DEF Leading
  <2> QED
    BY <1>3, <2>1
<1>5. n - 1 \in 0..Cardinality(rows) /\ n - 1 \notin Bad
  BY <1>1, <1>2, <1>3, <1>4
<1>6. PICK some \in SUBSET rows :
        Cardinality(some) = n - 1 /\ \A r \in some, s \in rows \ some : at[r] <= at[s]
  BY <1>5 DEF Leading
<1>7. rows \ some # {}
  BY <1>1, <1>3, <1>6
<1>8. PICK next \in rows \ some : \A s \in rows \ some : at[next] <= at[s]
  <2> DEFINE T == {at[s] : s \in rows \ some}
  <2>1. T \subseteq Nat /\ T # {}
    BY <1>7
  <2>2. PICK least \in T : \A m \in T : least <= m
    BY <2>1, LeastNumber
  <2> QED
    BY <2>2
<1>9. Cardinality(some \cup {next}) = n
  <2>1. IsFiniteSet(some)
    BY FS_Subset
  <2>2. Cardinality(some \cup {next}) = Cardinality(some) + 1
    BY <1>8, <2>1, FS_AddElement
  <2> QED
    BY <1>3, <1>6, <2>2
<1>10. some \cup {next} \in Leading(rows, at, n)
  BY <1>6, <1>8, <1>9 DEF Leading
<1> QED
  BY <1>3, <1>10

\* Of rows that have a time each, the first ones may be asked for.
LEMMA FirstRows ==
  ASSUME NEW rows, IsFiniteSet(rows), NEW at \in [rows -> Nat]
  PROVE  \E some \in AnyOf(rows) : \A r \in some, s \in rows \ some : at[r] <= at[s]
<1> DEFINE size == IF Cardinality(rows) < Limit THEN Cardinality(rows) ELSE Limit
<1>1. size \in 0..Cardinality(rows)
  BY FS_CardinalityType, StoresAssumption
<1> HIDE DEF size
<1>2. Leading(rows, at, size) # {}
  BY <1>1, LeadingRows
<1> QED
  BY <1>2 DEF Leading, AnyOf, size

\* A table that is settled: the rows of both stores, as they are read.
LEMMA TableAgrees ==
  ASSUME SInv, NEW table \in Tables, TableSettled(table)
  PROVE  /\ DOMAIN mem[table] = DOMAIN sql[table]
         /\ \A key \in DOMAIN sql[table] :
              Read(table, mem[table][key]) = Read(table, sql[table][key])
<1>1. \A key \in DOMAIN mem[table] \cup DOMAIN sql[table] :
        /\ Has(mem, table, key) /\ Has(sql, table, key)
        /\ Read(table, mem[table][key]) = Read(table, sql[table][key])
  BY SettledAgree, TableNames DEF RowsAgree, TableSettled
<1> QED
  BY <1>1 DEF Has

LEMMA PendingAnswers ==
  ASSUME SInv, TableSettled("jobs")
  PROVE  SqlGetPendingJobs # {} /\ SqlGetPendingJobs \subseteq MemGetPendingJobs
<1> DEFINE rows == {j \in DOMAIN sql.jobs : sql.jobs[j].status = "PENDING" /\ sql.jobs[j].due}
<1>1. "jobs" \in Tables
  BY DEF Tables
<1>2. DOMAIN mem.jobs = DOMAIN sql.jobs
  BY <1>1, TableAgrees
<1>3. \A j \in DOMAIN sql.jobs :
        mem.jobs[j].status = sql.jobs[j].status /\ mem.jobs[j].due = sql.jobs[j].due
  BY <1>1, TableAgrees DEF Read
<1>4. rows = {j \in DOMAIN mem.jobs : mem.jobs[j].status = "PENDING" /\ mem.jobs[j].due}
  BY <1>2, <1>3
<1>5. IsFiniteSet(DOMAIN sql.jobs) /\ \A j \in DOMAIN sql.jobs : sql.jobs[j].scheduled \in Nat
  BY <1>1, TableNames DEF SInv, TypeOK, StoreType, RowType
<1>6. IsFiniteSet(rows) /\ [j \in rows |-> sql.jobs[j].scheduled] \in [rows -> Nat]
  BY <1>5, FS_Subset
<1>7. \E some \in AnyOf(rows) : \A r \in some, s \in rows \ some :
        sql.jobs[r].scheduled <= sql.jobs[s].scheduled
  <2> DEFINE at == [j \in rows |-> sql.jobs[j].scheduled]
  <2>1. PICK some \in AnyOf(rows) : \A r \in some, s \in rows \ some : at[r] <= at[s]
    BY <1>6, FirstRows
  <2>2. some \subseteq rows
    BY DEF AnyOf
  <2> QED
    BY <2>1, <2>2
<1>8. MemGetPendingJobs = AnyOf(rows)
  BY <1>4 DEF MemGetPendingJobs
<1>9. SqlGetPendingJobs = {some \in AnyOf(rows) : \A r \in some, s \in rows \ some :
                             sql.jobs[r].scheduled <= sql.jobs[s].scheduled}
  BY DEF SqlGetPendingJobs, FirstOf
<1> HIDE DEF rows
<1> QED
  BY <1>7, <1>8, <1>9

LEMMA LetterAnswers ==
  ASSUME SInv, TableSettled("letters")
  PROVE  SqlListDeadLetters # {} /\ SqlListDeadLetters \subseteq MemListDeadLetters
<1> DEFINE rows == DOMAIN sql.letters
           at == [l \in rows |-> sql.letters[l].created]
<1>1. "letters" \in Tables
  BY DEF Tables
<1>2. DOMAIN mem.letters = rows
  BY <1>1, TableAgrees
<1>3. IsFiniteSet(rows) /\ at \in [rows -> Nat]
  BY <1>1, TableNames DEF SInv, TypeOK, StoreType, RowType
<1>4. PICK some \in AnyOf(rows) : \A r \in some, s \in rows \ some : at[r] <= at[s]
  <2> HIDE DEF rows, at
  <2> QED
    BY <1>3, FirstRows
<1>5. some \subseteq rows
  BY DEF AnyOf
<1>6. \A r \in some, s \in rows \ some : sql.letters[r].created <= sql.letters[s].created
  BY <1>4, <1>5
<1>7. SqlListDeadLetters = {many \in AnyOf(rows) : \A r \in many, s \in rows \ many :
                              sql.letters[r].created <= sql.letters[s].created}
  BY DEF SqlListDeadLetters, FirstOf
<1>8. MemListDeadLetters = AnyOf(rows)
  BY <1>2 DEF MemListDeadLetters
<1> HIDE DEF rows
<1> QED
  BY <1>6, <1>7, <1>8

LEMMA SettledAnswers ==
  ASSUME SInv
  PROVE  AnswersAgree
<1>1. {"instances", "flows", "threads", "letters", "log"} \subseteq Tables
  BY DEF Tables
<1>2. \A table \in {"instances", "flows", "threads", "letters", "log"} :
        TableSettled(table) => DOMAIN mem[table] = DOMAIN sql[table]
  BY <1>1, TableAgrees
<1>3. \A table \in {"instances", "flows", "letters", "log"} :
        TableSettled(table) => \A key \in DOMAIN sql[table] : mem[table][key] = sql[table][key]
  BY <1>1, TableAgrees DEF Read
<1>4. ASSUME TableSettled("instances"), NEW s
      PROVE  MemListInstances(s) = SqlListInstances(s)
  BY <1>2, <1>3, <1>4 DEF MemListInstances, SqlListInstances
<1>5. ASSUME TableSettled("flows"), NEW i
      PROVE  MemGetFlowsByInstance(i) = SqlGetFlowsByInstance(i)
  BY <1>2, <1>3, <1>5 DEF MemGetFlowsByInstance, SqlGetFlowsByInstance
<1>6. ASSUME TableSettled("flows"), NEW i, NEW n
      PROVE  MemGetActiveFlowsByThread(i, n) = SqlGetActiveFlowsByThread(i, n)
  <2>1. \A f \in SqlGetFlowsByInstance(i) : mem.flows[f] = sql.flows[f]
    BY <1>3, <1>6 DEF SqlGetFlowsByInstance
  <2> QED
    BY <1>5, <1>6, <2>1 DEF MemGetActiveFlowsByThread, SqlGetActiveFlowsByThread
<1>7. ASSUME TableSettled("threads"), NEW i
      PROVE  MemGetThreadsByInstance(i) = SqlGetThreadsByInstance(i)
  BY <1>2, <1>7 DEF MemGetThreadsByInstance, SqlGetThreadsByInstance
<1>8. ASSUME TableSettled("letters"), NEW i
      PROVE  MemGetDeadLetters(i) = SqlGetDeadLetters(i)
  BY <1>2, <1>3, <1>8 DEF MemGetDeadLetters, SqlGetDeadLetters
<1>9. ASSUME TableSettled("log"), NEW i
      PROVE  MemGetExecutionLog(i) = SqlGetExecutionLog(i)
  BY <1>2, <1>3, <1>9 DEF MemGetExecutionLog, SqlGetExecutionLog
<1> QED
  BY <1>4, <1>5, <1>6, <1>7, <1>8, <1>9, PendingAnswers, LetterAnswers DEF AnswersAgree

\* Once every row of a table is settled, each query of it gives the same rows over
\* either store, whatever became of the other tables; the queries with a limit, which the SQL store answers in the order
\* of a column, give what the map order of the memory store may give, and there is
\* always such an answer.
THEOREM AnswersAlwaysAgree == Spec => []AnswersAgree
<1>1. SInv => AnswersAgree
  BY SettledAnswers
<1> QED
  BY <1>1, SInvariance, PTL
=============================================================================
