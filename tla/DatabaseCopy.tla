---------------------------- MODULE DatabaseCopy ----------------------------
(***************************************************************************)
(* Copying one panel's database over another's (-copy-database,            *)
(* migrate/copy.go): table by table in copyOrder the target is emptied,    *)
(* the source is scanned and written in batches, rows and checksums are    *)
(* compared, and the first table that differs ends the copy.  Panels may   *)
(* be running on both databases.                                           *)
(*                                                                         *)
(* A row is <<identifier, value>>; a value in Invalid is one the target's  *)
(* column types refuse (JSON that is none).  Checksums are compared as the *)
(* rows themselves; time, boolean and number formats, which are brought to *)
(* one form on both sides, are left out.                                   *)
(***************************************************************************)
EXTENDS Naturals, Sequences, FiniteSets

CONSTANTS
  SourceRows, TargetRows, \* [AllModels -> rows] at the start
  Invalid,    \* values convertRow refuses
  Edited,     \* rows a running panel may write
  CopyBatch,  \* rows written at once (copyBatchSize)
  MaxChanges,   \* bound: rows written or removed meanwhile
  MaxBreaks   \* bound: database errors

copyOrder == <<"users", "user_groups", "node_groups", "nodes", "rule_groups",
               "device_groups", "forward_rules", "traffic_logs", "sessions",
               "probe_metrics", "system_settings", "audit_logs", "api_tokens",
               "config_snapshots", "alert_rules", "alert_histories">>

AllModels == {copyOrder[t] : t \in DOMAIN copyOrder} \cup
  {"node_tasks", "node_report_batches", "node_traffic_policies", "node_rule_syncs",
   "config_revisions", "migrate_batches", "migrate_id_map", "backups",
   "schema_version", "idempotency_records", "login_attempts"}

ASSUME CopyAssumption ==
  /\ \A rows \in {SourceRows, TargetRows} :
       /\ rows \in [AllModels -> SUBSET (Nat \X STRING)]
       /\ \A t \in AllModels : IsFiniteSet(rows[t])
  /\ Edited \subseteq Nat \X STRING
  /\ CopyBatch \in Nat \ {0} /\ MaxChanges \in Nat /\ MaxBreaks \in Nat

VARIABLES
  from, to,  \* the two databases
  copier,    \* where the copy is: [pc, table, ...]
  skips,     \* skipped rows of each table the copy is through with
  matched,   \* history: <<rows scanned, rows found in the target>> of each
             \*   of these tables
  changes, breaks \* bounds

copyVars == <<from, to, copier, skips, matched, changes, breaks>>

Valid(rows) == {row \in rows : row[2] \notin Invalid}
Identifiers(rows) == {row[1] : row \in rows}

InitCopy ==
  /\ from = SourceRows /\ to = TargetRows
  /\ copier = [pc |-> "idle"] /\ skips = <<>> /\ matched = <<>>
  /\ changes = 0 /\ breaks = 0

CopyTable == copyOrder[copier.table]

\* CopyDatabase, once confirmed.
StartCopy ==
  /\ copier.pc = "idle"
  /\ copier' = [pc |-> "clear", table |-> 1]
  /\ UNCHANGED <<from, to, skips, matched, changes, breaks>>

\* The target table is emptied; the scan sees the source as it is when it
\* begins.
ClearTable ==
  /\ copier.pc = "clear"
  /\ to' = [to EXCEPT ![CopyTable] = {}]
  /\ copier' = [pc |-> "copy", table |-> copier.table, scanned |-> from[CopyTable],
                rest |-> from[CopyTable], skipped |-> 0]
  /\ UNCHANGED <<from, skips, matched, changes, breaks>>

\* flush: a batch without the rows that cannot be converted; a row whose
\* identifier a running panel has used meanwhile makes it fail.
WriteBatch(batch) ==
  IF Identifiers(Valid(batch)) \cap Identifiers(to[CopyTable]) # {}
  THEN to' = to /\ copier' = [pc |-> "failed"]
  ELSE /\ to' = [to EXCEPT ![CopyTable] = @ \cup Valid(batch)]
       /\ copier' = [copier EXCEPT !.rest = @ \ batch,
                                   !.skipped = @ + Cardinality(batch \ Valid(batch))]
\* The scan reads the rows in whatever order the database has them.
BatchSize == IF Cardinality(copier.rest) < CopyBatch THEN Cardinality(copier.rest) ELSE CopyBatch
flush ==
  /\ copier.pc = "copy" /\ copier.rest # {}
  /\ \E batch \in SUBSET copier.rest : Cardinality(batch) = BatchSize /\ WriteBatch(batch)
  /\ UNCHANGED <<from, skips, matched, changes, breaks>>

CountTarget ==
  /\ copier.pc = "copy" /\ copier.rest = {}
  /\ copier' = [pc |-> "count", table |-> copier.table, scanned |-> copier.scanned,
                skipped |-> copier.skipped, count |-> Cardinality(to[CopyTable])]
  /\ UNCHANGED <<from, to, skips, matched, changes, breaks>>

\* Mutant: the rows are only counted.
Passed_Count(scanned, skipped, count, found) == count = Cardinality(scanned) - skipped
\* With rows skipped only their number is compared.
Passed(scanned, skipped, count, found) ==
  IF skipped > 0 THEN count = Cardinality(scanned) - skipped
  ELSE count = Cardinality(scanned) /\ found = scanned

VerifyTable ==
  LET found == to[CopyTable] IN
  /\ copier.pc = "count"
  /\ IF Passed(copier.scanned, copier.skipped, copier.count, found)
     THEN /\ copier' = IF copier.table = Len(copyOrder) THEN [pc |-> "passed"]
                       ELSE [pc |-> "clear", table |-> copier.table + 1]
          /\ skips' = Append(skips, copier.skipped)
          /\ matched' = Append(matched, <<copier.scanned, found>>)
     ELSE copier' = [pc |-> "failed"] /\ UNCHANGED <<skips, matched>>
  /\ UNCHANGED <<from, to, changes, breaks>>

\* A statement fails, and the copy ends where it is.
CopyBreaks ==
  /\ copier.pc \in {"clear", "copy"} /\ breaks < MaxBreaks
  /\ breaks' = breaks + 1 /\ copier' = [pc |-> "failed"]
  /\ UNCHANGED <<from, to, skips, matched, changes>>

\* A panel running on either database writes or removes a row.
Upsert(rows, row) == {r \in rows : r[1] # row[1]} \cup {row}
PanelEdits(t) ==
  /\ changes < MaxChanges /\ changes' = changes + 1
  /\ \E row \in Edited :
       \/ from' = [from EXCEPT ![t] = Upsert(@, row)] /\ to' = to
       \/ to' = [to EXCEPT ![t] = Upsert(@, row)] /\ from' = from
       \/ to' = [to EXCEPT ![t] = {r \in @ : r[1] # row[1]}] /\ from' = from
  /\ UNCHANGED <<copier, skips, matched, breaks>>

NextCopy ==
  \/ StartCopy \/ ClearTable \/ flush \/ CountTarget \/ VerifyTable \/ CopyBreaks
  \/ \E t \in {"users", "forward_rules"} : PanelEdits(t)

CopySpec == InitCopy /\ [][NextCopy]_copyVars
---------------------------------------------------------------------------
\* Properties

\* A table that passed held, when it was compared, exactly the rows that were
\* scanned, whatever panels wrote on either side; with rows skipped, as many
\* as there should be if no panel wrote.
CopyExact ==
  \A t \in DOMAIN matched :
    IF skips[t] = 0 THEN matched[t][2] = matched[t][1]
    ELSE changes = 0 => matched[t][2] = Valid(matched[t][1])

=============================================================================
