-------------------------- MODULE SourceReading --------------------------
(***************************************************************************)
(* How the migration reads a Nyanpass database (migrate/source_openroute,  *)
(* probeNyanpass): releases have named tables and columns differently, so  *)
(* every field is looked for under all its names, and the traffic is added *)
(* up by its key while it is read, in whatever order the rows come.        *)
(***************************************************************************)
EXTENDS Naturals, Sequences, FiniteSets, FiniteSetsExt, TLC
CONSTANTS
  Nil,        \* a column a row does not have, or NULL
  Sources,    \* databases: what is stored in them, and how their release names it
  MaxUnreadable   \* bound: queries of columns that fail
ASSUME SourceBounds ==
  /\ MaxUnreadable \in Nat
  /\ Nil \notin Nat \cup BOOLEAN
  /\ Nil \notin {"admin", "user", "0", "1", "inbound", "outbound", "both"}

VARIABLES
  source,     \* the database read
  unreadable, \* kinds of record whose columns could not be read
  records,     \* kind of record -> what was read of it, or Nil
  unread,     \* rows of traffic not read yet
  agg, total, \* the traffic read so far: by key, and altogether
  verdict     \* of the probe
readingVars == <<source, unreadable, records, unread, agg, total, verdict>>

RecordKinds == {"users", "groups", "nodes", "rules"}
pickColumn(cols, names) ==
  LET hits == { i \in DOMAIN names : names[i] \in cols }
  IN IF hits = {} THEN "" ELSE names[Min(hits)]
rowGet(row, names) ==
  LET hits == { i \in DOMAIN names : names[i] \in DOMAIN row /\ row[names[i]] # Nil }
  IN IF hits = {} THEN Nil ELSE row[names[Min(hits)]]
Number(v) == IF v = Nil THEN 0 ELSE v
List(v) == IF v = Nil THEN {} ELSE v
Flag(v) == v \notin {Nil, FALSE}
aliasPort == <<"listen_port", "ssh_port", "port">>
aliasNodeIDs == <<"node_ids", "node_list", "server_ids", "nodes">>
aliasGroupIDs == <<"group_ids", "server_group_ids", "node_group_ids">>
\* Limits below 100000 are taken for KB/s.
speedBytes(n) == IF n < 100000 THEN n * 1024 ELSE n
---------------------------------------------------------------------------
\* One row of each kind of record, given the columns of its table.
loadUsers(cols, row) ==
  [role |-> IF rowGet(row, <<"role", "is_admin">>) \in {"admin", "1", "true"}
            THEN "admin" ELSE "user",
   speed |-> speedBytes(Number(rowGet(row, <<"speed_limit", "speed", "rate">>)))]
loadDeviceGroups(cols, row) ==
  LET named == rowGet(row, <<"type", "group_type", "kind">>)
      nodes == List(rowGet(row, <<pickColumn(cols, aliasNodeIDs)>>))
  IN [type |-> IF named \in {"inbound", "outbound"} THEN named
               ELSE IF Flag(rowGet(row, <<"inbound", "is_inbound">>))
                    THEN "inbound" ELSE "outbound",
      nodes |-> IF nodes # {} THEN nodes
                ELSE List(rowGet(row, <<"node_list", "node_ids", "nodes">>))]
loadNodes(cols, row) ==
  LET direct == Number(rowGet(row, <<"direct_port">>))
      groups == List(rowGet(row, <<pickColumn(cols, aliasGroupIDs)>>))
      role == rowGet(row, <<"role", "node_type", "type">>)
  IN [port |-> IF direct # 0 THEN direct
               ELSE Number(rowGet(row, <<pickColumn(cols, aliasPort)>>)),
      groups |-> IF groups # {} THEN groups
                 ELSE {Number(rowGet(row, <<"group_id", "node_group_id">>))} \ {0},
      role |-> IF role \in {"inbound", "outbound"} THEN role ELSE "both"]
\* group_id is the rule group where there is no column inbound_group_id, and
\* the inbound group of a rule without one.  Rules are on unless they say not.
loadRules(cols, row) ==
  LET own == Number(rowGet(row, <<"rule_group_id", "rule_group">>))
      inbound == Number(rowGet(row, <<"inbound_group_id", "listen_group_id">>))
      either == Number(rowGet(row, <<"group_id">>))
      enable == rowGet(row, <<"enable", "enabled", "status">>)
  IN [group |-> IF own = 0 /\ "inbound_group_id" \notin cols THEN either ELSE own,
      inbound |-> IF inbound = 0 THEN either ELSE inbound,
      port |-> Number(rowGet(row, <<pickColumn(cols, aliasPort)>>)),
      enable |-> enable = Nil \/ Flag(enable)]
\* A table has one of two names.  The older is tried when the columns of the
\* newer cannot be had: it does not exist, or the query failed.
tableNames == [users |-> <<"users">>, groups |-> <<"device_groups", "groups">>,
           nodes |-> <<"nodes", "servers">>, rules |-> <<"rules", "forward_rules">>]
TableOf(kind, cols) ==
  IF cols = {} /\ Len(tableNames[kind]) = 2 /\ tableNames[kind][2] \in DOMAIN source.tables
  THEN tableNames[kind][2] ELSE tableNames[kind][1]
Columns(name, failed) ==
  IF failed \/ name \notin DOMAIN source.tables THEN {}
  ELSE UNION { DOMAIN row : row \in source.tables[name] }
RowsIn(name) == IF name \in DOMAIN source.tables THEN source.tables[name] ELSE {}
LoadedBy(kind, cols, row) ==
  CASE kind = "users" -> loadUsers(cols, row)
    [] kind = "groups" -> loadDeviceGroups(cols, row)
    [] kind = "nodes" -> loadNodes(cols, row)
    [] kind = "rules" -> loadRules(cols, row)
---------------------------------------------------------------------------
\* What a release stores a record in, under its own names: the columns the code
\* looks for, one release after the other.
UserRow(u, rel) ==
  IF rel = "new" THEN [role |-> u.role, speed_limit |-> u.speed]
  ELSE [is_admin |-> IF u.role = "admin" THEN "1" ELSE "0", rate |-> u.speed \div 1024]
GroupRow(g, rel) ==
  IF rel = "new" THEN [type |-> g.type, node_ids |-> g.nodes]
  ELSE [is_inbound |-> g.type = "inbound", node_list |-> g.nodes]
NodeRow(n, rel) ==
  IF rel = "new" THEN [direct_port |-> n.port, group_ids |-> n.groups, role |-> n.role]
  ELSE [ssh_port |-> n.port, group_id |-> IF n.groups = {} THEN 0 ELSE CHOOSE g \in n.groups : TRUE]
RuleRow(r, rel) ==
  CASE rel = "new" -> [rule_group_id |-> r.group, inbound_group_id |-> r.inbound, listen_port |-> r.port, enable |-> r.enable]
    [] rel = "old" -> [rule_group_id |-> r.group, group_id |-> r.inbound, port |-> r.port, status |-> r.enable]
    [] rel = "oldest" -> [group_id |-> r.group, listen_group_id |-> r.inbound, port |-> r.port]
AsRow(kind, r, rel) ==
  CASE kind = "users" -> UserRow(r, rel) [] kind = "groups" -> GroupRow(r, rel)
    [] kind = "nodes" -> NodeRow(r, rel) [] kind = "rules" -> RuleRow(r, rel)
TableName(kind, rel) ==
  IF rel = "new" \/ kind = "users" THEN tableNames[kind][1] ELSE tableNames[kind][2]
Database(meant, rel, of, traffic) ==
  [meant |-> meant, traffic |-> traffic,
   tables |-> [name \in { TableName(kind, rel) : kind \in of } |->
     LET kind == CHOOSE k \in RecordKinds : TableName(k, rel) = name
     IN { AsRow(kind, r, rel) : r \in meant[kind] }]]
\* What a record can mean, and a release has a column for.  Bytes below 100000 and
\* KB/s from there on are left out: the code cannot tell them apart (speedBytes).
NotNull(S) == { v \in S : v # Nil }
MeantUser(rel) ==
  { u \in [role : {"admin", "user"}, speed : Nat] :
      IF rel = "new" THEN u.speed = 0 \/ u.speed >= 100000
      ELSE u.speed % 1024 = 0 /\ u.speed \div 1024 < 100000 }
MeantGroup == [type : {"inbound", "outbound"}, nodes : NotNull(SUBSET Nat)]
MeantNode(rel) ==
  { n \in [port : Nat, groups : NotNull(SUBSET (Nat \ {0})), role : {"inbound", "outbound", "both"}] :
      rel # "new" => n.role = "both" /\ \A g, h \in n.groups : g = h }
MeantRule(rel) ==
  { r \in [group : Nat, inbound : Nat, port : Nat, enable : BOOLEAN] :
      rel = "oldest" => r.inbound # 0 /\ r.enable }
\* Either column of bytes stands for the other.
Bytes(row) ==
  LET bytes == Number(rowGet(row, <<"bytes", "traffic">>))
  IN IF bytes = 0 THEN Number(rowGet(row, <<"raw_bytes", "raw">>)) ELSE bytes
CanMean(kind, r, rel) ==
  CASE kind = "users" -> r \in MeantUser(rel) [] kind = "groups" -> r \in MeantGroup
    [] kind = "nodes" -> r \in MeantNode(rel) [] kind = "rules" -> r \in MeantRule(rel)
\* The databases read are those of a release, whole or in part.
ASSUME SourcesOfReleases ==
  \A s \in Sources :
    /\ IsFiniteSet(s.traffic) /\ \A row \in s.traffic : Bytes(row) \in Nat
    /\ \E rel \in {"new", "old", "oldest"}, of \in SUBSET RecordKinds :
         /\ s = Database(s.meant, rel, of, s.traffic)
         /\ \A kind \in RecordKinds : \A r \in s.meant[kind] : kind \in of /\ CanMean(kind, r, rel)
---------------------------------------------------------------------------
InitReading ==
  /\ source \in Sources /\ unread = source.traffic /\ unreadable = {}
  /\ records = [kind \in RecordKinds |-> Nil] /\ agg = <<>> /\ total = 0 /\ verdict = "none"
\* probeNyanpass: what has to be there, and whether anything is.
probeNyanpass ==
  /\ verdict = "none"
  /\ LET there == DOMAIN source.tables
     IN verdict' = IF \/ "users" \notin there \/ {"device_groups", "groups"} \cap there = {}
                      \/ pickColumn(Columns("users", FALSE), <<"role", "is_admin">>) = ""
                   THEN "too old"
                   ELSE IF \A name \in {"users", "nodes", "rules", "device_groups"} :
                             RowsIn(name) = {}
                   THEN "empty" ELSE "ready"
  /\ UNCHANGED <<source, unreadable, records, unread, agg, total>>
LoadAll(kind) ==
  /\ verdict = "ready" /\ records[kind] = Nil
  /\ \E failed \in BOOLEAN :
       /\ failed => Cardinality(unreadable) < MaxUnreadable
       /\ unreadable' = IF failed THEN unreadable \cup {kind} ELSE unreadable
       /\ LET name == TableOf(kind, Columns(tableNames[kind][1], failed))
              cols == Columns(name, failed)
          IN records' = [records EXCEPT ![kind] =
               { LoadedBy(kind, cols, row) : row \in RowsIn(name) }]
  /\ UNCHANGED <<source, unread, agg, total, verdict>>
normalizeHour(h) == IF h > 23 THEN "day" ELSE ToString(h)
normalizeDirection(d) ==
  IF d \in {Nil, "in", "up", "1"} THEN "in" ELSE "out"
Key(row) == <<rowGet(row, <<"date", "day", "dt">>), normalizeHour(Number(rowGet(row, <<"hour", "h">>))),
              normalizeDirection(rowGet(row, <<"direction", "flow_type", "type">>))>>
Added_Overwrites(old, row) == Bytes(row)
Added(old, row) == old + Bytes(row)
\* A row without a date or without bytes is dropped.
loadTrafficRows(row) ==
  /\ verdict = "ready" /\ unread' = unread \ {row}
  /\ IF Key(row)[1] = Nil \/ Bytes(row) = 0 THEN UNCHANGED <<agg, total>>
     ELSE /\ total' = total + Bytes(row)
          /\ agg' = [k \in DOMAIN agg \cup {Key(row)} |->
               IF k # Key(row) THEN agg[k]
               ELSE Added(IF k \in DOMAIN agg THEN agg[k] ELSE 0, row)]
  /\ UNCHANGED <<source, unreadable, records, verdict>>
NextReading ==
  \/ probeNyanpass \/ \E kind \in RecordKinds : LoadAll(kind)
  \/ \E row \in unread : loadTrafficRows(row)
ReadingSpec == InitReading /\ [][NextReading]_readingVars
---------------------------------------------------------------------------
\* What is read of a kind of record is what the database means, whichever of
\* their names the tables and columns have, unless the query of the columns
\* failed.  (Where group_id is the inbound group, a rule without a rule group
\* gets one of that number.)
Grouped(r) == IF r.group = 0 THEN [r EXCEPT !.group = r.inbound] ELSE r
ReadAsMeant ==
  \A kind \in RecordKinds \ unreadable : records[kind] # Nil =>
    \/ records[kind] = source.meant[kind]
    \/ kind = "rules" /\ records[kind] = { Grouped(r) : r \in source.meant[kind] }
\* The traffic of every key is that of all its rows, in whatever order they are
\* read and however they spell it, and the total the verification compares with
\* is that of all keys: no row is counted in one and not in the other.
Altogether(bytes) == Cardinality(UNION { {k} \X (1 .. bytes[k]) : k \in DOMAIN bytes })
TrafficAddedUp ==
  LET taken == { row \in source.traffic \ unread : Key(row)[1] # Nil }
  IN /\ total = Altogether([row \in taken |-> Bytes(row)])
     /\ \A k \in DOMAIN agg : agg[k] = Altogether([row \in { row \in taken : Key(row) = k } |-> Bytes(row)])
     /\ total = Altogether(agg)

\* What is migrated is what the source says, records and traffic.
SourceRead == ReadAsMeant /\ TrafficAddedUp
=============================================================================
