---------------------------- MODULE Migration ----------------------------
(***************************************************************************)
(* Importing a Nyanpass panel (internal/migrate/router.go, transform.go,   *)
(* app/service_migrate.go): a runner reads the names and the identifiers   *)
(* the target already uses, converts the whole source in memory, then      *)
(* writes it table by table, each chunk of rows together with its          *)
(* migrate_id_map entries in one transaction, verifies and closes the      *)
(* batch.  A process may die between any two of those steps; the next run  *)
(* continues a batch left "running"; a rollback deletes what the id map    *)
(* names.  The panel is not stopped meanwhile and creates rows of its own. *)
(*                                                                         *)
(* A row is its identifier, its name, whether it is enabled and what it    *)
(* refers to; every other column is left out.  References are kept as the  *)
(* set of <<table, id>> the row holds: a reference mapped to 0 (scalar) or *)
(* filtered out (list) is one the row does not hold.                       *)
(***************************************************************************)
EXTENDS Naturals, Sequences, FiniteSets, SequencesExt

CONSTANTS
  Source,      \* [Table -> Seq(SourceRow)]: the panel being imported
  SourceUsage, \* identifiers of source rules that have traffic rows
  Existing,    \* [Table -> SUBSET Row]: what the target holds at the start
  Runners,     \* processes or requests that migrate or roll back
  Policies,    \* rename policies a run may be given
  ChunkSize,   \* rows written per transaction (batchSize)
  MaxSuffix,   \* last suffix tried for a name (999)
  Creatable,   \* tables in which the panel creates rows meanwhile
  MaxRuns,     \* bound: migrations started
  MaxCreates,  \* bound: rows the panel creates meanwhile
  MaxAccidents    \* bound: database errors and interrupted requests

\* The order of writeAllTables: parents before children.
Order == <<"user_groups", "users", "node_groups", "nodes", "rule_groups",
           "device_groups", "forward_rules">>
Table == Range(Order)


\* The order of rollbackBatch: children before parents.
UndoOrder == <<"forward_rules", "device_groups", "nodes", "node_groups",
               "users", "user_groups">>

\* Four tables share one set of used names.
Namespace(t) ==
  IF t \in {"user_groups", "node_groups", "rule_groups", "device_groups"}
  THEN "groups" ELSE t
Namespaces == {Namespace(t) : t \in Table}

\* What the rows of a table may refer to.  Only user groups refer to a table
\* written after their own.
Parents(t) ==
  CASE t = "user_groups"   -> {"rule_groups"}
    [] t = "users"         -> {"user_groups"}
    [] t = "nodes"         -> {"node_groups"}
    [] t = "device_groups" -> {"nodes"}
    [] t = "forward_rules" -> {"users", "rule_groups", "device_groups", "forward_rules"}
    [] OTHER               -> {}

\* A name is a base and a suffix; 1 stands for no suffix.
Plain(base) == <<base, 1>>
DefaultGroup == Plain("default")

ASSUME SourceAssumption ==
  /\ DOMAIN Source = Table
  /\ \A t \in Table : Source[t] \in Seq(Range(Source[t]))
  /\ \A t \in Table : \A i \in DOMAIN Source[t] :
       /\ DOMAIN Source[t][i] = {"id", "name", "on", "refs", "needs"}
       /\ Source[t][i].id \in Nat \ {0}
       /\ \A j \in DOMAIN Source[t] : Source[t][j].id = Source[t][i].id => j = i
       /\ \A ref \in Source[t][i].refs : ref[1] \in Parents(t)
\* The target holds rows of its own.
ASSUME ExistingAssumption ==
  /\ Existing = [t \in Table |-> Existing[t]]
  /\ \A t \in Table :
       /\ IsFiniteSet(Existing[t])
       /\ \A row \in Existing[t] : row.id \in Nat \ {0}
ASSUME BoundAssumption ==
  /\ Creatable \subseteq Table
  /\ Policies \subseteq {"fail", "suffix", "skip"}
  /\ ChunkSize \in Nat \ {0}
  /\ {MaxSuffix, MaxRuns, MaxCreates, MaxAccidents} \subseteq Nat

VARIABLES
  target,   \* the seven tables of the target database
  sequence,   \* largest identifier each table ever held (AUTOINCREMENT)
  usage,    \* identifiers of rules with rows in traffic_logs
  idmap,    \* migrate_id_map
  batches,  \* migrate_batches: sequence of [status, passed]
  runner,   \* what each process is doing
  runs, creates, accidents, \* bounds
  native,   \* history: rows the panel itself created
  clash,    \* history: two writers at work at the same time, or a migration
            \*   planned over what a rollback cut short left of the id map
  resumed,  \* history: batches left behind that have been continued
  again     \* history: those that have been continued more than once

db == <<target, sequence, usage, idmap, batches>>
bounds == <<runs, creates, accidents>>
observed == <<native, clash, resumed, again>>
migrationVars == <<target, sequence, usage, idmap, batches, runner, runs, creates, accidents,
          native, clash, resumed, again>>

Ids(t) == {row.id : row \in target[t]}
NamesIn(t) == {row.name : row \in target[t]}
Unoccupied == [pc |-> "idle"]
AtWork(r) == runner[r].pc # "idle"
Alone(r) == \A q \in Runners \ {r} : ~AtWork(q)
Become(r, state) == runner' = [runner EXCEPT ![r] = state]

---------------------------------------------------------------------------
\* The plan: pure functions of the source and of what the runner has read.

\* resolveName: <<name, kept, error>>.
resolveName(policy, name, used) ==
  LET free == {k \in 2..MaxSuffix : <<name[1], k>> \notin used} IN
  IF name \notin used THEN [name |-> name, keep |-> TRUE, error |-> FALSE]
  ELSE IF policy = "suffix" /\ free # {}
       THEN [name |-> <<name[1], CHOOSE k \in free : \A j \in free : k <= j>>,
             keep |-> TRUE, error |-> FALSE]
       ELSE [name |-> name, keep |-> FALSE, error |-> policy # "skip"]

\* Mutant: the source identifier whatever the target holds.
take_Preferred(preferred, used) ==
  IF preferred > 0 THEN preferred ELSE 1 + Max(used \cup {0})

\* idAllocator.take: the source identifier if free, else one past the largest.
take(preferred, used) ==
  IF preferred > 0 /\ preferred \notin used THEN preferred
  ELSE 1 + Max(used \cup {0})

\* detectMissingRefs: a rule whose inbound group, outbound group or parent
\* does not exist in the source is not migrated.
Missing(row) ==
  \E ref \in row.needs : \A i \in DOMAIN Source[ref[1]] : Source[ref[1]][i].id # ref[2]

\* References are mapped with the identifiers given so far, except the rule
\* groups of a user group, whose list is copied as it stands.
MapRefs(t, row, map) ==
  IF t = "user_groups" THEN row.refs
  ELSE {<<ref[1], map[ref[1]][ref[2]]>> :
          ref \in {x \in row.refs : x[2] \in DOMAIN map[x[1]]}}

PlanRow(policy, t, acc, row) ==
  LET named == resolveName(policy, row.name, acc.names[Namespace(t)])
      id    == take(row.id, acc.ids[t]) IN
  IF acc.error \/ Missing(row) THEN acc
  ELSE IF ~named.keep THEN [acc EXCEPT !.error = named.error]
  ELSE [acc EXCEPT
         !.names[Namespace(t)] = @ \cup {named.name},
         !.ids[t]  = @ \cup {id},
         !.map[t]  = [source \in DOMAIN @ \cup {row.id} |->
                        IF source = row.id THEN id ELSE acc.map[t][source]],
         !.rows[t] = Append(@, [source |-> row.id, id |-> id, name |-> named.name,
                                on |-> row.on, refs |-> MapRefs(t, row, acc.map)])]

\* A target without a user group gets the default one, whatever its name.
AddDefaultGroup(acc) ==
  IF acc.rows["user_groups"] # <<>> THEN acc
  ELSE LET id == take(0, acc.ids["user_groups"]) IN
       [acc EXCEPT !.ids["user_groups"] = @ \cup {id},
                   !.rows["user_groups"] =
                     <<[source |-> 0, id |-> id, name |-> DefaultGroup, on |-> TRUE,
                       refs |-> {}]>>]

PlanTable(policy, acc, t) ==
  LET after[i \in 0..Len(Source[t])] ==
        IF i = 0 THEN acc ELSE PlanRow(policy, t, after[i - 1], Source[t][i])
      done == after[Len(Source[t])]
  IN  IF t = "user_groups" /\ ~done.error THEN AddDefaultGroup(done) ELSE done

\* buildNyanpassPlan.
buildNyanpassPlan(policy, names, ids) ==
  LET empty == [names |-> names, ids |-> ids, error |-> FALSE,
                map |-> [t \in Table |-> <<>>], rows |-> [t \in Table |-> <<>>]]
      through[k \in 0..Len(Order)] ==
        IF k = 0 THEN empty ELSE PlanTable(policy, through[k - 1], Order[k])
  IN  through[Len(Order)]

\* Traffic of a rule that was not migrated is dropped.
PlannedUsage(plan) ==
  {plan.map["forward_rules"][u] :
     u \in SourceUsage \cap DOMAIN plan.map["forward_rules"]}

---------------------------------------------------------------------------
InitMigration ==
  /\ target = Existing
  /\ sequence = [t \in Table |-> Max({row.id : row \in Existing[t]} \cup {0})]
  /\ usage = {}
  /\ idmap = {}
  /\ batches = <<>>
  /\ runner = [r \in Runners |-> Unoccupied]
  /\ runs = 0 /\ creates = 0 /\ accidents = 0
  /\ native = UNION {{<<t, row.id>> : row \in Existing[t]} : t \in Table}
  /\ clash = FALSE
  /\ resumed = {} /\ again = {}

\* StageConnect: connect, probe, and read the names the target uses.
StageConnect(r, policy) ==
  /\ ~AtWork(r)
  /\ runs < MaxRuns
  /\ runs' = runs + 1
  /\ Become(r, [pc |-> "plan", policy |-> policy,
                names |-> [n \in Namespaces |->
                  UNION {NamesIn(t) : t \in {x \in Table : Namespace(x) = n}}]])
  /\ clash' = (clash \/ ~Alone(r))
  /\ UNCHANGED <<db, creates, accidents, native, resumed, again>>

\* StageScan, StageConflict and StageDryRun: reserve the identifiers in use
\* and convert the source in memory; a name conflict ends the run.
StageDryRun(r) ==
  LET plan == buildNyanpassPlan(runner[r].policy, runner[r].names,
                                [t \in Table |-> Ids(t)]) IN
  /\ runner[r].pc = "plan"
  /\ Become(r, IF plan.error THEN Unoccupied
               ELSE [pc |-> "recover", plan |-> [map |-> plan.map, rows |-> plan.rows]])
  /\ clash' = (clash \/ \E m \in idmap : m.id \notin Ids(m.table))
  /\ UNCHANGED <<db, bounds, native, resumed, again>>

\* handleUnfinishedBatches: no caller passes a choice, so every batch still
\* running is continued; the loop ends on the oldest of the five newest.
Unfinished == {b \in DOMAIN batches : batches[b].status = "running"}
Recovered ==
  CHOOSE b \in Unfinished :
    LET newer == {c \in Unfinished : c > b}
    IN  Cardinality(newer) < 5
        /\ (Cardinality(newer) = 4 \/ \A c \in Unfinished : b <= c)

handleUnfinishedBatches(r) ==
  /\ runner[r].pc = "recover"
  /\ LET left == IF Unfinished = {} THEN {} ELSE {Recovered} IN
     /\ Become(r, [pc |-> "open", plan |-> runner[r].plan,
                   batch |-> IF left = {} THEN 0 ELSE Recovered])
     /\ resumed' = resumed \cup left
     /\ again' = again \cup (left \cap resumed)
  /\ UNCHANGED <<db, bounds, native, clash>>

\* ensureBatch and loadMigratedSet: the checksum of a migrated row is stored
\* but never compared.
ensureBatch(r) ==
  LET fresh == runner[r].batch = 0
      b     == IF fresh THEN Len(batches) + 1 ELSE runner[r].batch IN
  /\ runner[r].pc = "open"
  /\ batches' = IF fresh THEN Append(batches, [status |-> "running", passed |-> FALSE])
                ELSE batches
  /\ Become(r, [pc |-> "write", plan |-> runner[r].plan, batch |-> b, at |-> 1, start |-> 1,
                done |-> {<<m.table, m.source>> : m \in {x \in idmap : x.batch = b}}])
  /\ UNCHANGED <<target, sequence, usage, idmap, bounds, observed>>

\* One transaction of writeTable: the rows of the chunk that are not done yet
\* and their id map entries.  A name taken by another row refuses the chunk.
Chunk(r) ==
  LET rows == runner[r].plan.rows[Order[runner[r].at]]
      last == runner[r].start + ChunkSize - 1
  IN  SubSeq(rows, runner[r].start, IF last < Len(rows) THEN last ELSE Len(rows))
Pending(r) ==
  {row \in Range(Chunk(r)) : <<Order[runner[r].at], row.source>> \notin runner[r].done}
\* A zero in a column with a default is stored as the default, and written
\* back into the plan: a disabled user or rule is stored enabled.
StoredOn(t, on) == on \/ t \in {"users", "forward_rules"}
AsStored(t, row) ==
  [id |-> row.id, name |-> row.name, on |-> StoredOn(t, row.on), refs |-> row.refs]
\* Names are unique in every table but that of the rules.
NameTaken(t, rows) ==
  t # "forward_rules" /\
  \E row \in rows : \E old \in target[t] : old.id # row.id /\ old.name = row.name
Upserted(t, rows) ==
  {old \in target[t] : \A row \in rows : old.id # row.id} \cup {AsStored(t, row) : row \in rows}
NextRow(r) ==
  LET rows == runner[r].plan.rows[Order[runner[r].at]]
      next == runner[r].start + ChunkSize IN
  IF next <= Len(rows) THEN [runner[r] EXCEPT !.start = next]
  ELSE IF runner[r].at < Len(Order) THEN [runner[r] EXCEPT !.at = @ + 1, !.start = 1]
  ELSE [runner[r] EXCEPT !.pc = "traffic"]


writeTable(r) ==
  LET t == Order[runner[r].at] IN
  /\ runner[r].pc = "write"
  /\ ~NameTaken(t, Pending(r))
  /\ target' = [target EXCEPT ![t] = Upserted(t, Pending(r))]
  /\ sequence' = [sequence EXCEPT ![t] = Max({row.id : row \in Pending(r)} \cup {@})]
  /\ idmap' = idmap \cup {[batch |-> runner[r].batch, table |-> t,
                           source |-> row.source, id |-> row.id] : row \in Pending(r)}
  /\ Become(r, NextRow(r))
  /\ UNCHANGED <<usage, batches, bounds, observed>>

\* writeTraffic: one row per key, an existing key is left alone.
writeTraffic(r) ==
  /\ runner[r].pc = "traffic"
  /\ usage' = usage \cup PlannedUsage(runner[r].plan)
  /\ Become(r, [runner[r] EXCEPT !.pc = "verify"])
  /\ UNCHANGED <<target, sequence, idmap, batches, bounds, observed>>

\* StageVerify.  Row counts look the planned identifiers up in the target,
\* the samples compare names and the status of users with the plan, which the
\* writes have changed, and a reference counts as resolved when it is planned
\* or found.
Counted(plan) ==
  \A t \in Table : \A row \in Range(plan.rows[t]) : row.id \in Ids(t)
Expected(t, row, done) == IF <<t, row.source>> \in done THEN row.on ELSE StoredOn(t, row.on)
Sampled(plan, done) ==
  \A t \in {"users", "nodes", "forward_rules", "device_groups"} :
    \A row \in Range(plan.rows[t]) :
      \E old \in target[t] :
        /\ old.id = row.id /\ old.name = row.name
        /\ t = "users" => old.on = Expected(t, row, done)
Referenced(plan) ==
  \A row \in Range(plan.rows["forward_rules"]) : \A ref \in row.refs :
    ref[1] \in {"device_groups", "users"} =>
      \/ \E p \in Range(plan.rows[ref[1]]) : p.id = ref[2]
      \/ ref[2] \in Ids(ref[1])
Verified(plan, done) == Counted(plan) /\ Sampled(plan, done) /\ Referenced(plan)
StageVerify(r) ==
  /\ runner[r].pc = "verify"
  /\ batches' = [batches EXCEPT ![runner[r].batch] =
                   [status |-> "finished", passed |-> Verified(runner[r].plan, runner[r].done)]]
  /\ Become(r, Unoccupied)
  /\ UNCHANGED <<target, sequence, usage, idmap, bounds, observed>>

\* A chunk is refused, by a taken name or by the database: failBatch.
failBatch(r) ==
  /\ runner[r].pc \in {"write", "traffic"}
  /\ IF runner[r].pc = "write" /\ NameTaken(Order[runner[r].at], Pending(r))
     THEN accidents' = accidents
     ELSE accidents < MaxAccidents /\ accidents' = accidents + 1
  /\ batches' = [batches EXCEPT ![runner[r].batch].status = "failed"]
  /\ Become(r, Unoccupied)
  /\ UNCHANGED <<target, sequence, usage, idmap, runs, creates, observed>>

\* The process dies, or the request is cancelled and with it the context
\* failBatch would write with: the batch stays as it is.
Interrupt(r) ==
  /\ AtWork(r)
  /\ accidents < MaxAccidents
  /\ accidents' = accidents + 1
  /\ Become(r, Unoccupied)
  /\ UNCHANGED <<db, runs, creates, observed>>

\* MigrateService.Rollback: a fresh runner, so an empty plan and no traffic.
StageRollback(r, b) ==
  /\ ~AtWork(r)
  /\ batches[b].status # "rolled_back"
  /\ Become(r, [pc |-> "undo", batch |-> b, at |-> 1])
  /\ clash' = (clash \/ ~Alone(r))
  /\ UNCHANGED <<db, bounds, native, resumed, again>>

rollbackTable(r) ==
  LET t == UndoOrder[runner[r].at]
      written == {m.id : m \in {x \in idmap : x.batch = runner[r].batch /\ x.table = t}} IN
  /\ runner[r].pc = "undo"
  /\ target' = [target EXCEPT ![t] = {row \in @ : row.id \notin written}]
  /\ Become(r, IF runner[r].at < Len(UndoOrder) THEN [runner[r] EXCEPT !.at = @ + 1]
               ELSE [runner[r] EXCEPT !.pc = "clear"])
  /\ UNCHANGED <<sequence, usage, idmap, batches, bounds, observed>>

\* The map entries go and the batch is closed in one transaction.
closeRollback(r) ==
  /\ runner[r].pc = "clear"
  /\ idmap' = {m \in idmap : m.batch # runner[r].batch}
  /\ batches' = [batches EXCEPT ![runner[r].batch].status = "rolled_back"]
  /\ Become(r, Unoccupied)
  /\ UNCHANGED <<target, sequence, usage, bounds, observed>>

\* The panel creates a row while all this goes on.
PanelCreate(t) ==
  LET row == [id |-> sequence[t] + 1, name |-> Plain("new"), on |-> TRUE, refs |-> {}] IN
  /\ creates < MaxCreates
  /\ row.name \notin NamesIn(t)
  /\ creates' = creates + 1
  /\ target' = [target EXCEPT ![t] = @ \cup {row}]
  /\ sequence' = [sequence EXCEPT ![t] = row.id]
  /\ native' = native \cup {<<t, row.id>>}
  /\ clash' = (clash \/ \E r \in Runners : AtWork(r))
  /\ UNCHANGED <<usage, idmap, batches, runner, runs, accidents, resumed, again>>

Step(r) ==
  \/ StageDryRun(r) \/ handleUnfinishedBatches(r) \/ ensureBatch(r)
  \/ writeTable(r) \/ writeTraffic(r) \/ StageVerify(r) \/ failBatch(r)
  \/ rollbackTable(r) \/ closeRollback(r)

NextMigration ==
  \/ \E r \in Runners :
       \/ Step(r)
       \/ Interrupt(r)
       \/ \E p \in Policies : StageConnect(r, p)
       \/ \E b \in DOMAIN batches : StageRollback(r, b)
  \/ \E t \in Creatable : PanelCreate(t)
MigrationSpec == InitMigration /\ [][NextMigration]_migrationVars

---------------------------------------------------------------------------
Mapped(t, id) == \E m \in idmap : m.table = t /\ m.id = id

\* Whatever instant the process dies at, a row that the panel did not create
\* itself is one a rollback will find, and once a rollback has closed its
\* batch none is left; except for rule groups, which no rollback deletes.
Undoable ==
  ~clash => \A t \in Table \ {"rule_groups"} : \A row \in target[t] :
              <<t, row.id>> \in native \/ Mapped(t, row.id)

\* A migration or a rollback never changes or removes a row of the panel's
\* own, unless the row was created while the migration was under way.
Untouched ==
  [][~clash' => \A t \in Table : \A row \in target[t] :
       <<t, row.id>> \in native => row \in target'[t]]_migrationVars

Resolved(row) == \A ref \in row.refs : ref[2] \in Ids(ref[1])
PassedBatch(b) == batches[b] = [status |-> "finished", passed |-> TRUE]

\* At every instant, also half way through a migration or a rollback that
\* died, a row that was imported refers only to rows that are there, unless
\* the batch it came with has been continued.  User groups keep the rule
\* groups of the source.
ParentsFirst ==
  ~clash =>
    \A t \in Table \ {"user_groups"} : \A row \in target[t] :
      \/ <<t, row.id>> \in native
      \/ Resolved(row)
      \/ \E m \in idmap : m.table = t /\ m.id = row.id /\ m.batch \in resumed

\* A batch reported as passed is intact, continued once or not: none of the
\* rows it wrote refers to a row that is missing.  One continued twice need not
\* be, whatever its report says (report.go:296): the second attempt gives rows
\* that are written already new identifiers and skips them, the third leaves out
\* the rules that refer to those, and only rules of the last plan are looked at.
PassedMeansIntact ==
  ~clash => \A m \in idmap :
    PassedBatch(m.batch) /\ m.batch \notin again =>
      \A row \in target[m.table] :
        row.id = m.id /\ m.table # "user_groups" => Resolved(row)

\* Within a batch a source row is written once, however often it is continued.
OncePerBatch ==
  ~clash => \A m, n \in idmap :
    m.batch = n.batch /\ m.table = n.table /\ m.source = n.source => m.id = n.id

\* A migration that dies can be continued or undone, and never harms what was
\* there before it.
MigrationSafe ==
  [](Undoable /\ ParentsFirst /\ PassedMeansIntact /\ OncePerBatch) /\ Untouched
===========================================================================
