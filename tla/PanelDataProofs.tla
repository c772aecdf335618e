--------------------------- MODULE PanelDataProofs ---------------------------
(***************************************************************************)
(* What the panel keeps of other data, for any sizes.                      *)
(*                                                                         *)
(* A row read from the database of another panel is what that panel meant, *)
(* whatever columns its release has (SourceReading); the days of the       *)
(* traffic history are the sums of its minutes (TrafficHistory); and a     *)
(* migration that dies at any instant can be continued or undone and never *)
(* harms what was there before it (Migration).                             *)
(*                                                                         *)
(* What is found by recursion over the rows of a source exists and has its *)
(* properties because there is no least step at which it would not: the    *)
(* lemmas on least elements are used for that where an induction would be. *)
(***************************************************************************)
EXTENDS SourceReading, TrafficHistory, Migration, FiniteSetTheorems, SequenceTheorems,
        WellFoundedInduction, TLAPS

---------------------------------------------------------------------------
\* SourceReading.

\* The column a list of names is looked for under is the first that is there.
LEMMA Picks ==
  ASSUME NEW cols, NEW names, DOMAIN names \subseteq Nat, NEW i \in DOMAIN names, names[i] \in cols,
         \A j \in DOMAIN names : names[j] \in cols => i <= j
  PROVE  pickColumn(cols, names) = names[i]
<1>1. PICK hits : hits = { j \in DOMAIN names : names[j] \in cols }
  OBVIOUS
<1>2. hits # {} /\ Min(hits) = i
  BY <1>1 DEF Min
<1> QED BY <1>1, <1>2 DEF pickColumn

\* None of the names is there.
LEMMA PicksNothing ==
  ASSUME NEW cols, NEW names, \A j \in DOMAIN names : names[j] \notin cols
  PROVE  pickColumn(cols, names) = ""
<1>1. { j \in DOMAIN names : names[j] \in cols } = {}
  OBVIOUS
<1> QED BY <1>1 DEF pickColumn

\* A field is the first of its columns that is there and not NULL.
LEMMA Gets ==
  ASSUME NEW row, NEW names, DOMAIN names \subseteq Nat, NEW i \in DOMAIN names,
         names[i] \in DOMAIN row, row[names[i]] # Nil,
         \A j \in DOMAIN names : names[j] \in DOMAIN row => i <= j
  PROVE  rowGet(row, names) = row[names[i]]
<1>1. PICK hits : hits = { j \in DOMAIN names : names[j] \in DOMAIN row /\ row[names[j]] # Nil }
  OBVIOUS
<1>2. hits # {} /\ Min(hits) = i
  BY <1>1 DEF Min
<1> QED BY <1>1, <1>2 DEF rowGet

\* None of its columns is there.
LEMMA GetsNothing ==
  ASSUME NEW row, NEW names, \A j \in DOMAIN names : names[j] \notin DOMAIN row
  PROVE  rowGet(row, names) = Nil
<1>1. { j \in DOMAIN names : names[j] \in DOMAIN row /\ row[names[j]] # Nil } = {}
  OBVIOUS
<1> QED BY <1>1 DEF rowGet

\* The users of each release are read as they are meant.
LEMMA UsersRead ==
  ASSUME NEW rel \in {"new", "old", "oldest"}, NEW u \in MeantUser(rel), NEW cols
  PROVE  loadUsers(cols, UserRow(u, rel)) = u
<1>1. /\ u = [role |-> u.role, speed |-> u.speed]
      /\ u.role \in {"admin", "user"} /\ u.speed \in Nat /\ u.role # Nil /\ u.speed # Nil
  BY SourceBounds DEF MeantUser
<1>2. PICK row : row = UserRow(u, rel)
  OBVIOUS
<1>3. CASE rel = "new"
  <2>1. row = [role |-> u.role, speed_limit |-> u.speed]
    BY <1>2, <1>3 DEF UserRow
  <2>2. rowGet(row, <<"role", "is_admin">>) = u.role
    BY <1>1, <2>1, Gets, 1 \in DOMAIN <<"role", "is_admin">>
  <2>3. rowGet(row, <<"speed_limit", "speed", "rate">>) = u.speed
    BY <1>1, <2>1, Gets, 1 \in DOMAIN <<"speed_limit", "speed", "rate">>
  <2>4. speedBytes(Number(u.speed)) = u.speed
    BY <1>1, <1>3 DEF MeantUser, speedBytes, Number
  <2>5. (IF u.role \in {"admin", "1", "true"} THEN "admin" ELSE "user") = u.role
    BY <1>1
  <2> QED BY <1>1, <1>2, <2>2, <2>3, <2>4, <2>5 DEF loadUsers
<1>4. CASE rel # "new"
  <2>0. PICK boss \in {"0", "1"} : boss = IF u.role = "admin" THEN "1" ELSE "0"
    OBVIOUS
  <2>1. row = [is_admin |-> boss, rate |-> u.speed \div 1024] /\ boss # Nil /\ u.speed \div 1024 \in Nat
    BY <1>1, <1>2, <1>4, <2>0, SourceBounds DEF UserRow
  <2>2. rowGet(row, <<"role", "is_admin">>) = boss
    BY <1>1, <2>1, Gets, 2 \in DOMAIN <<"role", "is_admin">>
  <2>3. rowGet(row, <<"speed_limit", "speed", "rate">>) = u.speed \div 1024
    BY <1>1, <2>1, Gets, 3 \in DOMAIN <<"speed_limit", "speed", "rate">>, SourceBounds
  <2>4. speedBytes(Number(u.speed \div 1024)) = u.speed
    <3>1. Number(u.speed \div 1024) = u.speed \div 1024
      BY <2>1, SourceBounds DEF Number
    <3>2. u.speed % 1024 = 0 /\ u.speed \div 1024 < 100000
      BY <1>4 DEF MeantUser
    <3>3. (u.speed \div 1024) * 1024 = u.speed
      BY <1>1, <3>2
    <3> QED BY <3>1, <3>2, <3>3 DEF speedBytes
  <2>5. (IF boss \in {"admin", "1", "true"} THEN "admin" ELSE "user") = u.role
    BY <1>1, <2>0
  <2> QED BY <1>1, <1>2, <2>2, <2>3, <2>4, <2>5 DEF loadUsers
<1> QED BY <1>3, <1>4

\* So are the groups.
LEMMA GroupsRead ==
  ASSUME NEW rel \in {"new", "old", "oldest"}, NEW g \in MeantGroup, NEW cols,
         cols = DOMAIN GroupRow(g, rel)
  PROVE  loadDeviceGroups(cols, GroupRow(g, rel)) = g
<1>1. /\ g = [type |-> g.type, nodes |-> g.nodes]
      /\ g.type \in {"inbound", "outbound"} /\ g.nodes # Nil /\ g.type # Nil
  BY SourceBounds DEF MeantGroup, NotNull
<1>2. PICK row : row = GroupRow(g, rel)
  OBVIOUS
<1>3. CASE rel = "new"
  <2>1. row = [type |-> g.type, node_ids |-> g.nodes] /\ cols = {"type", "node_ids"}
    BY <1>2, <1>3 DEF GroupRow
  <2>2. rowGet(row, <<"type", "group_type", "kind">>) = g.type
    BY <1>1, <2>1, Gets, 1 \in DOMAIN <<"type", "group_type", "kind">>
  <2>3. pickColumn(cols, aliasNodeIDs) = "node_ids"
    BY <2>1, Picks, 1 \in DOMAIN aliasNodeIDs DEF aliasNodeIDs
  <2>4. rowGet(row, <<"node_ids">>) = g.nodes
    BY <1>1, <2>1, Gets, 1 \in DOMAIN <<"node_ids">>
  <2>5. rowGet(row, <<"node_list", "node_ids", "nodes">>) = g.nodes
    BY <1>1, <2>1, Gets, 2 \in DOMAIN <<"node_list", "node_ids", "nodes">>
  <2>6. List(g.nodes) = g.nodes
    BY <1>1 DEF List
  <2>7. loadDeviceGroups(cols, row).type = g.type /\ loadDeviceGroups(cols, row).nodes = g.nodes
    BY <1>1, <2>2, <2>3, <2>4, <2>5, <2>6 DEF loadDeviceGroups
  <2> QED BY <1>1, <1>2, <2>7 DEF loadDeviceGroups
<1>4. CASE rel # "new"
  <2>0. PICK in \in BOOLEAN : in = (g.type = "inbound")
    OBVIOUS
  <2>1. row = [is_inbound |-> in, node_list |-> g.nodes] /\ cols = {"is_inbound", "node_list"} /\ in # Nil
    BY <1>2, <1>4, <2>0, SourceBounds DEF GroupRow
  <2>2. rowGet(row, <<"type", "group_type", "kind">>) = Nil
    BY <2>1, GetsNothing
  <2>3. rowGet(row, <<"inbound", "is_inbound">>) = in
    BY <2>1, Gets, 2 \in DOMAIN <<"inbound", "is_inbound">>
  <2>4. pickColumn(cols, aliasNodeIDs) = "node_list"
    BY <2>1, Picks, 2 \in DOMAIN aliasNodeIDs DEF aliasNodeIDs
  <2>5. rowGet(row, <<"node_list">>) = g.nodes
    BY <1>1, <2>1, Gets, 1 \in DOMAIN <<"node_list">>
  <2>6. rowGet(row, <<"node_list", "node_ids", "nodes">>) = g.nodes
    BY <1>1, <2>1, Gets, 1 \in DOMAIN <<"node_list", "node_ids", "nodes">>
  <2>7. List(g.nodes) = g.nodes
    BY <1>1 DEF List
  <2>8. Nil \notin {"inbound", "outbound"} /\ (IF Flag(in) THEN "inbound" ELSE "outbound") = g.type
    BY <1>1, <2>0, <2>1, SourceBounds DEF Flag
  <2>9. loadDeviceGroups(cols, row).type = g.type /\ loadDeviceGroups(cols, row).nodes = g.nodes
    BY <2>2, <2>3, <2>4, <2>5, <2>6, <2>7, <2>8 DEF loadDeviceGroups
  <2> QED BY <1>1, <1>2, <2>9 DEF loadDeviceGroups
<1> QED BY <1>3, <1>4

\* So are the nodes, of which an old release knows one group.
LEMMA NodesRead ==
  ASSUME NEW rel \in {"new", "old", "oldest"}, NEW n \in MeantNode(rel), NEW cols,
         cols = DOMAIN NodeRow(n, rel)
  PROVE  loadNodes(cols, NodeRow(n, rel)) = n
<1>1. /\ n = [port |-> n.port, groups |-> n.groups, role |-> n.role]
      /\ n.port \in Nat /\ n.port # Nil /\ n.groups \subseteq Nat \ {0} /\ n.groups # Nil
      /\ n.role \in {"inbound", "outbound", "both"} /\ n.role # Nil
  BY SourceBounds DEF MeantNode, NotNull
<1>2. PICK row : row = NodeRow(n, rel)
  OBVIOUS
<1>3. Number(Nil) = 0 /\ Number(n.port) = n.port /\ List(Nil) = {} /\ List(n.groups) = n.groups
  BY <1>1 DEF Number, List
<1>4. CASE rel = "new"
  <2>1. /\ row = [direct_port |-> n.port, group_ids |-> n.groups, role |-> n.role]
        /\ cols = {"direct_port", "group_ids", "role"}
    BY <1>2, <1>4 DEF NodeRow
  <2>2. rowGet(row, <<"direct_port">>) = n.port
    BY <1>1, <2>1, Gets, 1 \in DOMAIN <<"direct_port">>
  <2>3. pickColumn(cols, aliasPort) = "" /\ rowGet(row, <<"">>) = Nil
    <3>1. \A j \in DOMAIN aliasPort : aliasPort[j] \notin cols
      BY <2>1 DEF aliasPort
    <3>2. ASSUME NEW j \in DOMAIN <<"">> PROVE <<"">>[j] \notin DOMAIN row
      <4>1. <<"">>[j] = ""
        <5>1. j = 1
          OBVIOUS
        <5>2. <<"">>[1] = ""
          OBVIOUS
        <5> QED BY <5>1, <5>2, Zenon
      <4>2. "" \notin DOMAIN row
        BY <2>1
      <4> QED BY <4>1, <4>2
    <3> QED BY <3>1, <3>2, PicksNothing, GetsNothing
  <2>4. pickColumn(cols, aliasGroupIDs) = "group_ids"
    BY <2>1, Picks, 1 \in DOMAIN aliasGroupIDs DEF aliasGroupIDs
  <2>5. rowGet(row, <<"group_ids">>) = n.groups
    BY <1>1, <2>1, Gets, 1 \in DOMAIN <<"group_ids">>
  <2>6. rowGet(row, <<"group_id", "node_group_id">>) = Nil
    BY <2>1, GetsNothing
  <2>7. rowGet(row, <<"role", "node_type", "type">>) = n.role
    BY <1>1, <2>1, Gets, 1 \in DOMAIN <<"role", "node_type", "type">>
  <2>8. /\ loadNodes(cols, row).port = n.port /\ loadNodes(cols, row).groups = n.groups
        /\ loadNodes(cols, row).role = n.role
    BY <1>1, <1>3, <2>2, <2>3, <2>4, <2>5, <2>6, <2>7 DEF loadNodes
  <2> QED BY <1>1, <1>2, <2>8 DEF loadNodes
<1>5. CASE rel # "new"
  <2>0. PICK of : of = IF n.groups = {} THEN 0 ELSE CHOOSE g \in n.groups : TRUE
    OBVIOUS
  <2>1. row = [ssh_port |-> n.port, group_id |-> of] /\ cols = {"ssh_port", "group_id"}
    BY <1>2, <1>5, <2>0 DEF NodeRow
  <2>2. of \in Nat /\ {of} \ {0} = n.groups /\ n.role = "both" /\ of # Nil
    BY <1>1, <1>5, <2>0, SourceBounds DEF MeantNode
  <2>3. rowGet(row, <<"direct_port">>) = Nil
    BY <2>1, GetsNothing
  <2>4. pickColumn(cols, aliasPort) = "ssh_port"
    BY <2>1, Picks, 2 \in DOMAIN aliasPort DEF aliasPort
  <2>5. rowGet(row, <<"ssh_port">>) = n.port
    BY <1>1, <2>1, Gets, 1 \in DOMAIN <<"ssh_port">>
  <2>6. pickColumn(cols, aliasGroupIDs) = "" /\ rowGet(row, <<"">>) = Nil
    <3>1. \A j \in DOMAIN aliasGroupIDs : aliasGroupIDs[j] \notin cols
      BY <2>1 DEF aliasGroupIDs
    <3>2. ASSUME NEW j \in DOMAIN <<"">> PROVE <<"">>[j] \notin DOMAIN row
      <4>1. <<"">>[j] = ""
        <5>1. j = 1
          OBVIOUS
        <5>2. <<"">>[1] = ""
          OBVIOUS
        <5> QED BY <5>1, <5>2, Zenon
      <4>2. "" \notin DOMAIN row
        BY <2>1
      <4> QED BY <4>1, <4>2
    <3> QED BY <3>1, <3>2, PicksNothing, GetsNothing
  <2>7. rowGet(row, <<"group_id", "node_group_id">>) = of
    BY <2>1, <2>2, Gets, 1 \in DOMAIN <<"group_id", "node_group_id">>
  <2>8. rowGet(row, <<"role", "node_type", "type">>) = Nil
    BY <2>1, GetsNothing
  <2>9. Number(of) = of /\ Nil \notin {"inbound", "outbound"}
    BY <2>2, SourceBounds DEF Number
  <2>10. /\ loadNodes(cols, row).port = n.port /\ loadNodes(cols, row).groups = n.groups
         /\ loadNodes(cols, row).role = n.role
    BY <1>3, <2>2, <2>3, <2>4, <2>5, <2>6, <2>7, <2>8, <2>9 DEF loadNodes
  <2> QED BY <1>1, <1>2, <2>10 DEF loadNodes
<1> QED BY <1>4, <1>5

\* So are the rules.
LEMMA RulesRead ==
  ASSUME NEW rel \in {"new", "old", "oldest"}, NEW r \in MeantRule(rel), NEW cols,
         cols = DOMAIN RuleRow(r, rel)
  PROVE  loadRules(cols, RuleRow(r, rel)) = IF rel = "old" THEN Grouped(r) ELSE r
<1>1. /\ r = [group |-> r.group, inbound |-> r.inbound, port |-> r.port, enable |-> r.enable]
      /\ r.group \in Nat /\ r.inbound \in Nat /\ r.port \in Nat /\ r.enable \in BOOLEAN
      /\ r.group # Nil /\ r.inbound # Nil /\ r.port # Nil /\ r.enable # Nil
  BY SourceBounds DEF MeantRule
<1>2. PICK row : row = RuleRow(r, rel)
  OBVIOUS
<1>3. /\ Number(Nil) = 0 /\ Number(r.port) = r.port
      /\ Number(r.group) = r.group /\ Number(r.inbound) = r.inbound
  BY <1>1 DEF Number
<1>4. r.enable = Nil \/ Flag(r.enable) <=> r.enable
  BY <1>1, SourceBounds DEF Flag
<1> DEFINE load == loadRules(cols, row)
<1>5. CASE rel = "new"
  <2>1. /\ row = [rule_group_id |-> r.group, inbound_group_id |-> r.inbound, listen_port |-> r.port, enable |-> r.enable]
        /\ cols = {"rule_group_id", "inbound_group_id", "listen_port", "enable"}
    BY <1>2, <1>5 DEF RuleRow
  <2>2. rowGet(row, <<"rule_group_id", "rule_group">>) = r.group
    BY <1>1, <2>1, Gets, 1 \in DOMAIN <<"rule_group_id", "rule_group">>
  <2>3. rowGet(row, <<"inbound_group_id", "listen_group_id">>) = r.inbound
    BY <1>1, <2>1, Gets, 1 \in DOMAIN <<"inbound_group_id", "listen_group_id">>
  <2>4. rowGet(row, <<"group_id">>) = Nil
    BY <2>1, GetsNothing
  <2>5. rowGet(row, <<"enable", "enabled", "status">>) = r.enable
    BY <1>1, <2>1, Gets, 1 \in DOMAIN <<"enable", "enabled", "status">>
  <2>6. pickColumn(cols, aliasPort) = "listen_port"
    BY <2>1, Picks, 1 \in DOMAIN aliasPort DEF aliasPort
  <2>7. rowGet(row, <<"listen_port">>) = r.port
    BY <1>1, <2>1, Gets, 1 \in DOMAIN <<"listen_port">>
  <2>8. load.group = r.group /\ load.inbound = r.inbound /\ load.port = r.port
    BY <1>1, <1>3, <2>1, <2>2, <2>3, <2>4, <2>6, <2>7 DEF loadRules
  <2>9. load.enable = r.enable
    BY <1>1, <1>4, <2>5 DEF loadRules
  <2> QED BY <1>1, <1>2, <1>5, <2>8, <2>9 DEF loadRules
<1>6. CASE rel = "old"
  <2>1. /\ row = [rule_group_id |-> r.group, group_id |-> r.inbound, port |-> r.port, status |-> r.enable]
        /\ cols = {"rule_group_id", "group_id", "port", "status"}
    BY <1>2, <1>6 DEF RuleRow
  <2>2. rowGet(row, <<"rule_group_id", "rule_group">>) = r.group
    BY <1>1, <2>1, Gets, 1 \in DOMAIN <<"rule_group_id", "rule_group">>
  <2>3. rowGet(row, <<"inbound_group_id", "listen_group_id">>) = Nil
    BY <2>1, GetsNothing
  <2>4. rowGet(row, <<"group_id">>) = r.inbound
    BY <1>1, <2>1, Gets, 1 \in DOMAIN <<"group_id">>
  <2>5. rowGet(row, <<"enable", "enabled", "status">>) = r.enable
    BY <1>1, <2>1, Gets, 3 \in DOMAIN <<"enable", "enabled", "status">>
  <2>6. pickColumn(cols, aliasPort) = "port"
    BY <2>1, Picks, 3 \in DOMAIN aliasPort DEF aliasPort
  <2>7. rowGet(row, <<"port">>) = r.port
    BY <1>1, <2>1, Gets, 1 \in DOMAIN <<"port">>
  <2>8. /\ load.group = (IF r.group = 0 THEN r.inbound ELSE r.group)
        /\ load.inbound = r.inbound /\ load.port = r.port
    BY <1>1, <1>3, <2>1, <2>2, <2>3, <2>4, <2>6, <2>7 DEF loadRules
  <2>9. load.enable = r.enable
    BY <1>1, <1>4, <2>5 DEF loadRules
  <2>10. Grouped(r) = [group |-> IF r.group = 0 THEN r.inbound ELSE r.group,
                       inbound |-> r.inbound, port |-> r.port, enable |-> r.enable]
    BY <1>1 DEF Grouped
  <2> QED BY <1>1, <1>2, <1>6, <2>8, <2>9, <2>10 DEF loadRules
<1>7. CASE rel = "oldest"
  <2>1. /\ row = [group_id |-> r.group, listen_group_id |-> r.inbound, port |-> r.port]
        /\ cols = {"group_id", "listen_group_id", "port"} /\ r.inbound # 0 /\ r.enable
    BY <1>2, <1>7 DEF RuleRow, MeantRule
  <2>2. rowGet(row, <<"rule_group_id", "rule_group">>) = Nil
    BY <2>1, GetsNothing
  <2>3. rowGet(row, <<"inbound_group_id", "listen_group_id">>) = r.inbound
    BY <1>1, <2>1, Gets, 2 \in DOMAIN <<"inbound_group_id", "listen_group_id">>
  <2>4. rowGet(row, <<"group_id">>) = r.group
    BY <1>1, <2>1, Gets, 1 \in DOMAIN <<"group_id">>
  <2>5. rowGet(row, <<"enable", "enabled", "status">>) = Nil
    BY <2>1, GetsNothing
  <2>6. pickColumn(cols, aliasPort) = "port"
    BY <2>1, Picks, 3 \in DOMAIN aliasPort DEF aliasPort
  <2>7. rowGet(row, <<"port">>) = r.port
    BY <1>1, <2>1, Gets, 1 \in DOMAIN <<"port">>
  <2>8. load.group = r.group /\ load.inbound = r.inbound /\ load.port = r.port
    BY <1>1, <1>3, <2>1, <2>2, <2>3, <2>4, <2>6, <2>7 DEF loadRules
  <2>9. load.enable = r.enable
    BY <1>1, <2>1, <2>5 DEF loadRules
  <2> QED BY <1>1, <1>2, <1>7, <2>8, <2>9 DEF loadRules
<1> QED BY <1>5, <1>6, <1>7

\* The rows of a kind of record, and what is read of one.
RowsMeant(meant, kind, rel) == { AsRow(kind, r, rel) : r \in meant[kind] }
AsMeant(kind, r, rel) == IF kind = "rules" /\ rel = "old" THEN Grouped(r) ELSE r

\* Whatever a record is stored as, it is read as it is meant.
LEMMA RecordsRead ==
  ASSUME NEW rel \in {"new", "old", "oldest"}, NEW kind \in RecordKinds, NEW r, CanMean(kind, r, rel),
         NEW cols, cols = DOMAIN AsRow(kind, r, rel)
  PROVE  LoadedBy(kind, cols, AsRow(kind, r, rel)) = AsMeant(kind, r, rel)
<1>1. CASE kind = "users"
  <2>1. r \in MeantUser(rel) /\ AsRow(kind, r, rel) = UserRow(r, rel)
    BY <1>1 DEF CanMean, AsRow
  <2> QED BY <1>1, <2>1, UsersRead DEF LoadedBy, AsMeant
<1>2. CASE kind = "groups"
  <2>1. r \in MeantGroup /\ AsRow(kind, r, rel) = GroupRow(r, rel)
    BY <1>2 DEF CanMean, AsRow
  <2> QED BY <1>2, <2>1, GroupsRead DEF LoadedBy, AsMeant
<1>3. CASE kind = "nodes"
  <2>1. r \in MeantNode(rel) /\ AsRow(kind, r, rel) = NodeRow(r, rel)
    BY <1>3 DEF CanMean, AsRow
  <2> QED BY <1>3, <2>1, NodesRead DEF LoadedBy, AsMeant
<1>4. CASE kind = "rules"
  <2>1. r \in MeantRule(rel) /\ AsRow(kind, r, rel) = RuleRow(r, rel)
    BY <1>4 DEF CanMean, AsRow
  <2> QED BY <1>4, <2>1, RulesRead DEF LoadedBy, AsMeant
<1> QED BY <1>1, <1>2, <1>3, <1>4 DEF RecordKinds

\* The columns of a kind are the same in all its rows, and there are some.
LEMMA RowsAlike ==
  ASSUME NEW rel \in {"new", "old", "oldest"}, NEW kind \in RecordKinds
  PROVE  \E cols : cols # {} /\ \A r : DOMAIN AsRow(kind, r, rel) = cols
<1>1. CASE kind = "users"
  <2>1. CASE rel = "new"
    <3>1. \A r : DOMAIN AsRow(kind, r, rel) = {"role", "speed_limit"}
      BY <1>1, <2>1 DEF AsRow, UserRow
    <3> QED BY <3>1
  <2>2. CASE rel # "new"
    <3>1. \A r : DOMAIN AsRow(kind, r, rel) = {"is_admin", "rate"}
      BY <1>1, <2>2 DEF AsRow, UserRow
    <3> QED BY <3>1
  <2> QED BY <2>1, <2>2
<1>2. CASE kind = "groups"
  <2>1. CASE rel = "new"
    <3>1. \A r : DOMAIN AsRow(kind, r, rel) = {"type", "node_ids"}
      BY <1>2, <2>1 DEF AsRow, GroupRow
    <3> QED BY <3>1
  <2>2. CASE rel # "new"
    <3>1. \A r : DOMAIN AsRow(kind, r, rel) = {"is_inbound", "node_list"}
      BY <1>2, <2>2 DEF AsRow, GroupRow
    <3> QED BY <3>1
  <2> QED BY <2>1, <2>2
<1>3. CASE kind = "nodes"
  <2>1. CASE rel = "new"
    <3>1. \A r : DOMAIN AsRow(kind, r, rel) = {"direct_port", "group_ids", "role"}
      BY <1>3, <2>1 DEF AsRow, NodeRow
    <3> QED BY <3>1
  <2>2. CASE rel # "new"
    <3>1. \A r : DOMAIN AsRow(kind, r, rel) = {"ssh_port", "group_id"}
      BY <1>3, <2>2 DEF AsRow, NodeRow
    <3> QED BY <3>1
  <2> QED BY <2>1, <2>2
<1>4. CASE kind = "rules"
  <2>1. CASE rel = "new"
    <3>1. \A r : DOMAIN AsRow(kind, r, rel) = {"rule_group_id", "inbound_group_id", "listen_port", "enable"}
      BY <1>4, <2>1 DEF AsRow, RuleRow
    <3> QED BY <3>1
  <2>2. CASE rel = "old"
    <3>1. \A r : DOMAIN AsRow(kind, r, rel) = {"rule_group_id", "group_id", "port", "status"}
      BY <1>4, <2>2 DEF AsRow, RuleRow
    <3> QED BY <3>1
  <2>3. CASE rel = "oldest"
    <3>1. \A r : DOMAIN AsRow(kind, r, rel) = {"group_id", "listen_group_id", "port"}
      BY <1>4, <2>3 DEF AsRow, RuleRow
    <3> QED BY <3>1
  <2> QED BY <2>1, <2>2, <2>3
<1> QED BY <1>1, <1>2, <1>3, <1>4 DEF RecordKinds

\* The names of the tables, all of them different.
LEMMA Names ==
  /\ tableNames["users"] = <<"users">> /\ tableNames["groups"] = <<"device_groups", "groups">>
  /\ tableNames["nodes"] = <<"nodes", "servers">> /\ tableNames["rules"] = <<"rules", "forward_rules">>
BY DEF tableNames

\* Where a kind of record is looked for when its columns could be had is where
\* the release has it, if it has it at all.
LEMMA TableFound ==
  ASSUME NEW rel \in {"new", "old", "oldest"}, NEW of \in SUBSET RecordKinds, NEW meant, NEW traffic,
         source = Database(meant, rel, of, traffic),
         NEW kind \in RecordKinds, kind \notin of => meant[kind] = {},
         NEW name, name = TableOf(kind, Columns(tableNames[kind][1], FALSE))
  PROVE  RowsIn(name) = RowsMeant(meant, kind, rel)
<1>1. PICK tables : tables = source.tables
  OBVIOUS
<1>2. DOMAIN tables = { TableName(k, rel) : k \in of }
  BY <1>1 DEF Database
<1>3. \A k, l \in RecordKinds : TableName(k, rel) = TableName(l, rel) => k = l
  BY Names DEF TableName, RecordKinds
<1>4. \A k \in of : tables[TableName(k, rel)] = RowsMeant(meant, k, rel)
  <2> TAKE k \in of
  <2>1. (CHOOSE l \in RecordKinds : TableName(l, rel) = TableName(k, rel)) = k
    BY <1>3
  <2> QED BY <1>1, <2>1 DEF Database, RowsMeant
<1>5. PICK first, second : first = tableNames[kind][1] /\ second = tableNames[kind][2]
  OBVIOUS
<1>6. PICK cols : cols = Columns(first, FALSE)
  OBVIOUS
<1>7. CASE rel = "new" \/ kind = "users"
  <2>1. TableName(kind, rel) = first
    BY <1>5, <1>7 DEF TableName
  <2>2. Len(tableNames[kind]) = 2 => second \notin DOMAIN tables
    <3> SUFFICES ASSUME Len(tableNames[kind]) = 2, NEW k \in of, second = TableName(k, rel)
                 PROVE  FALSE
      BY <1>2
    <3>1. kind # "users" /\ rel = "new"
      BY <1>7, Names
    <3>2. second = tableNames[k][1]
      BY <3>1 DEF TableName
    <3>3. k \in RecordKinds
      OBVIOUS
    <3>4. tableNames[kind][2] = tableNames[k][1] /\ kind # "users"
      BY <1>5, <3>1, <3>2
    <3>5. /\ tableNames[kind][2] \in {"groups", "servers", "forward_rules"}
          /\ tableNames[k][1] \in {"users", "device_groups", "nodes", "rules"}
      BY <3>1, <3>3, Names DEF RecordKinds
    <3> QED BY <3>4, <3>5
  <2>3. name = first
    BY <1>1, <1>5, <1>6, <2>2 DEF TableOf
  <2>4. CASE kind \in of
    BY <1>1, <1>2, <1>4, <2>1, <2>3, <2>4 DEF RowsIn
  <2>5. CASE kind \notin of
    <3>1. name \notin DOMAIN tables
      BY <1>2, <1>3, <2>1, <2>3, <2>5
    <3> QED BY <1>1, <2>5, <3>1 DEF RowsIn, RowsMeant
  <2> QED BY <2>4, <2>5
<1>8. CASE ~(rel = "new" \/ kind = "users")
  <2>1. TableName(kind, rel) = second /\ Len(tableNames[kind]) = 2
    BY <1>5, <1>8, Names DEF TableName, RecordKinds
  <2>2. first \notin DOMAIN tables
    BY <1>2, <1>5, <1>8, Names DEF TableName, RecordKinds
  <2>3. Columns(first, FALSE) = {}
    BY <1>1, <2>2 DEF Columns
  <2>4. CASE kind \in of
    <3>1. second \in DOMAIN tables
      BY <1>2, <2>1, <2>4
    <3>2. name = second
      BY <1>1, <1>5, <2>1, <2>3, <3>1 DEF TableOf
    <3> QED BY <1>1, <1>4, <2>1, <2>4, <3>1, <3>2 DEF RowsIn
  <2>5. CASE kind \notin of
    <3>1. second \notin DOMAIN tables
      BY <1>2, <1>3, <2>1, <2>5
    <3>2. name = first
      BY <1>1, <1>5, <2>3, <3>1 DEF TableOf
    <3> QED BY <1>1, <2>2, <2>5, <3>2 DEF RowsIn, RowsMeant
  <2> QED BY <2>4, <2>5
<1> QED BY <1>7, <1>8

\* A sum with one more summand.
LEMMA OneMore ==
  ASSUME NEW f, IsFiniteSet(DOMAIN f), \A k \in DOMAIN f : f[k] \in Nat,
         NEW x, x \notin DOMAIN f, NEW n \in Nat,
         NEW g, DOMAIN g = DOMAIN f \cup {x}, \A k \in DOMAIN f : g[k] = f[k], g[x] = n
  PROVE  Altogether(g) = Altogether(f) + n /\ Altogether(f) \in Nat /\ Altogether(g) \in Nat
<1>1. PICK ones : ones = [k \in DOMAIN g |-> {k} \X (1 .. g[k])]
  OBVIOUS
<1>2. PICK A : A = UNION { ones[k] : k \in DOMAIN f }
  OBVIOUS
<1>3. Altogether(f) = Cardinality(A)
  <2>1. { {k} \X (1 .. f[k]) : k \in DOMAIN f } = { ones[k] : k \in DOMAIN f }
    BY <1>1
  <2> QED BY <1>2, <2>1 DEF Altogether
<1>4. Altogether(g) = Cardinality(A \cup ones[x])
  <2>1. { {k} \X (1 .. g[k]) : k \in DOMAIN g } = { ones[k] : k \in DOMAIN f } \cup { ones[x] }
    BY <1>1
  <2>2. UNION { {k} \X (1 .. g[k]) : k \in DOMAIN g } = A \cup ones[x]
    BY <1>2, <2>1
  <2> QED BY <2>2 DEF Altogether
<1>5. \A k \in DOMAIN g : g[k] \in Nat
  OBVIOUS
<1>6. \A k \in DOMAIN g : IsFiniteSet(ones[k]) /\ Cardinality(ones[k]) = g[k]
  <2> TAKE k \in DOMAIN g
  <2>1. PICK m \in Nat : m = g[k]
    BY <1>5
  <2>2. IsFiniteSet({k}) /\ Cardinality({k}) = 1
    BY FS_Singleton
  <2>3. IsFiniteSet(1 .. m) /\ Cardinality(1 .. m) = m
    <3>1. 1 \in Int /\ m \in Int
      OBVIOUS
    <3>2. IsFiniteSet(1 .. m) /\ Cardinality(1 .. m) = IF 1 > m THEN 0 ELSE m - 1 + 1
      BY <3>1, FS_Interval
    <3> QED BY <3>2
  <2>4. PICK one, upto : one = {k} /\ upto = 1 .. m
    OBVIOUS
  <2>5. IsFiniteSet(one) /\ IsFiniteSet(upto) /\ Cardinality(one) = 1 /\ Cardinality(upto) = m
    BY <2>2, <2>3, <2>4
  <2>6. IsFiniteSet(one \X upto) /\ Cardinality(one \X upto) = Cardinality(one) * Cardinality(upto)
    BY <2>5, FS_Product
  <2>7. ones[k] = one \X upto
    BY <1>1, <2>1, <2>4
  <2> QED BY <2>1, <2>5, <2>6, <2>7
<1>7. IsFiniteSet(A)
  <2>1. PICK R : R = {ones[k] : k \in DOMAIN f}
    OBVIOUS
  <2>2. PICK h : h = [k \in DOMAIN f |-> ones[k]]
    OBVIOUS
  <2>3. h \in Surjection(DOMAIN f, R)
    BY <2>1, <2>2 DEF Surjection
  <2>4. IsFiniteSet(R)
    BY <2>3, FS_Surjection
  <2>5. \A T \in R : IsFiniteSet(T)
    BY <1>6, <2>1
  <2> QED BY <1>2, <2>1, <2>4, <2>5, FS_UNION
<1>8. A \cap ones[x] = {}
  BY <1>1, <1>2
<1>9. PICK B : B = ones[x]
  OBVIOUS
<1>10. IsFiniteSet(B) /\ Cardinality(B) = n /\ A \cap B = {}
  BY <1>6, <1>8, <1>9
<1>11. Cardinality(A) \in Nat
  BY <1>7, FS_CardinalityType
<1>12. Cardinality(A \cup B) = Cardinality(A) + n
  <2>1. Cardinality(A \cup B) = Cardinality(A) + Cardinality(B) - Cardinality(A \cap B)
    BY <1>7, <1>10, FS_Union
  <2>2. Cardinality(A \cap B) = 0
    BY <1>10, FS_EmptySet
  <2>3. Cardinality(B) = n
    BY <1>10
  <2> QED BY <1>11, <2>1, <2>2, <2>3
<1> QED BY <1>3, <1>4, <1>9, <1>11, <1>12

\* A sum one of whose summands grows.
LEMMA OneGrows ==
  ASSUME NEW f, IsFiniteSet(DOMAIN f), \A k \in DOMAIN f : f[k] \in Nat,
         NEW x \in DOMAIN f, NEW n \in Nat,
         NEW g, DOMAIN g = DOMAIN f, \A k \in DOMAIN f \ {x} : g[k] = f[k], g[x] = f[x] + n
  PROVE  Altogether(g) = Altogether(f) + n
<1>1. PICK h : h = [k \in DOMAIN f \ {x} |-> f[k]]
  OBVIOUS
<1>2. IsFiniteSet(DOMAIN h) /\ (\A k \in DOMAIN h : h[k] \in Nat) /\ x \notin DOMAIN h
  BY <1>1, FS_Subset
<1>3. PICK m \in Nat : m = f[x]
  OBVIOUS
<1>4. DOMAIN f = DOMAIN h \cup {x} /\ \A k \in DOMAIN h : f[k] = h[k] /\ g[k] = h[k]
  BY <1>1
<1>5. Altogether(f) = Altogether(h) + m /\ Altogether(h) \in Nat
  <2>1. DOMAIN f = DOMAIN h \cup {x} /\ f[x] = m
    BY <1>3, <1>4
  <2>2. \A k \in DOMAIN h : f[k] = h[k]
    BY <1>4
  <2>3. \A k \in DOMAIN h : h[k] \in Nat
    BY <1>2
  <2>4. IsFiniteSet(DOMAIN h) /\ x \notin DOMAIN h
    BY <1>2
  <2> QED BY <2>1, <2>2, <2>3, <2>4, OneMore
<1>6. Altogether(g) = Altogether(h) + (m + n)
  <2>1. m + n \in Nat /\ g[x] = m + n
    BY <1>3
  <2> QED BY <1>2, <1>4, <2>1, OneMore
<1> QED BY <1>3, <1>5, <1>6

\* Nothing is nothing.
LEMMA OfNothing ==
  ASSUME NEW f, DOMAIN f = {}
  PROVE  Altogether(f) = 0
<1>1. UNION { {k} \X (1 .. f[k]) : k \in DOMAIN f } = {}
  OBVIOUS
<1> QED BY <1>1, FS_EmptySet DEF Altogether

\* The rows with a date that have been read, and the bytes of those of a key.
RowsTaken == { row \in source.traffic \ unread : Key(row)[1] # Nil }
BytesOf(rows) == [row \in rows |-> Bytes(row)]
TakenOf(k) == { row \in RowsTaken : Key(row) = k }

ReadingInv ==
  /\ source \in Sources /\ unread \subseteq source.traffic /\ DOMAIN records = RecordKinds
  /\ IsFiniteSet(DOMAIN agg) /\ \A k \in DOMAIN agg : agg[k] \in Nat
  /\ total = Altogether(BytesOf(RowsTaken))
  /\ \A k \in DOMAIN agg : agg[k] = Altogether(BytesOf(TakenOf(k)))
  /\ \A k : k \notin DOMAIN agg => Altogether(BytesOf(TakenOf(k))) = 0
  /\ total = Altogether(agg)
  /\ ReadAsMeant

\* The invariant says what it should of the traffic.
LEMMA ReadingInvImplies == ReadingInv => SourceRead
BY DEF ReadingInv, SourceRead, TrafficAddedUp, RowsTaken, BytesOf, TakenOf

\* A row more of finitely many rows.
LEMMA RowMore ==
  ASSUME NEW rows, IsFiniteSet(rows), \A r \in rows : Bytes(r) \in Nat,
         NEW row, row \notin rows, Bytes(row) \in Nat
  PROVE  /\ Altogether(BytesOf(rows \cup {row})) = Altogether(BytesOf(rows)) + Bytes(row)
         /\ Altogether(BytesOf(rows)) \in Nat
<1>1. PICK f : f = BytesOf(rows)
  OBVIOUS
<1>2. PICK g : g = BytesOf(rows \cup {row})
  OBVIOUS
<1>3. DOMAIN f = rows /\ \A k \in DOMAIN f : f[k] = Bytes(k)
  BY <1>1 DEF BytesOf
<1>4. DOMAIN g = rows \cup {row} /\ (\A k \in rows : g[k] = Bytes(k)) /\ g[row] = Bytes(row)
  BY <1>2 DEF BytesOf
<1>5. PICK n \in Nat : n = Bytes(row)
  OBVIOUS
<1>6. Altogether(g) = Altogether(f) + n /\ Altogether(f) \in Nat
  BY <1>3, <1>4, <1>5, OneMore
<1> QED BY <1>1, <1>2, <1>5, <1>6

\* A database is read as it should be before anything is read.
LEMMA ReadingInit == InitReading => ReadingInv
<1> SUFFICES ASSUME InitReading PROVE ReadingInv
  OBVIOUS
<1>1. RowsTaken = {} /\ \A k : TakenOf(k) = {}
  BY DEF InitReading, RowsTaken, TakenOf
<1>2. Altogether(BytesOf({})) = 0
  <2>1. DOMAIN BytesOf({}) = {}
    BY DEF BytesOf
  <2> QED BY <2>1, OfNothing
<1>3. DOMAIN agg = {}
  BY DEF InitReading
<1>4. Altogether(agg) = 0 /\ IsFiniteSet(DOMAIN agg)
  BY <1>3, OfNothing, FS_EmptySet
<1>5. total = 0 /\ source \in Sources /\ unread \subseteq source.traffic /\ DOMAIN records = RecordKinds
  BY DEF InitReading
<1>6. ReadAsMeant
  BY DEF InitReading, ReadAsMeant
<1> QED BY <1>1, <1>2, <1>3, <1>4, <1>5, <1>6 DEF ReadingInv

\* A kind of record is read.
LEMMA LoadStep ==
  ASSUME ReadingInv, NEW kind \in RecordKinds, LoadAll(kind)
  PROVE  ReadingInv'
<1>1. UNCHANGED <<source, unread, agg, total>> /\ records[kind] = Nil
  BY DEF LoadAll
<1>2. PICK failed \in BOOLEAN :
        /\ unreadable' = IF failed THEN unreadable \cup {kind} ELSE unreadable
        /\ LET name == TableOf(kind, Columns(tableNames[kind][1], failed))
               cols == Columns(name, failed)
           IN records' = [records EXCEPT ![kind] = { LoadedBy(kind, cols, row) : row \in RowsIn(name) }]
  BY DEF LoadAll
<1>3. DOMAIN records' = RecordKinds /\ \A k \in RecordKinds \ {kind} : records'[k] = records[k]
  BY <1>2 DEF ReadingInv
<1>4. ASSUME ~failed
      PROVE  \/ records'[kind] = source.meant[kind]
             \/ kind = "rules" /\ records'[kind] = { Grouped(r) : r \in source.meant[kind] }
  <2>0. source \in Sources
    BY DEF ReadingInv
  <2>1. PICK rel \in {"new", "old", "oldest"}, of \in SUBSET RecordKinds :
          /\ source = Database(source.meant, rel, of, source.traffic)
          /\ \A k \in RecordKinds : \A r \in source.meant[k] : k \in of /\ CanMean(k, r, rel)
    BY <2>0, SourcesOfReleases
  <2>2. PICK meant, traffic : meant = source.meant /\ traffic = source.traffic
    OBVIOUS
  <2>3. /\ source = Database(meant, rel, of, traffic) /\ (kind \notin of => meant[kind] = {})
        /\ \A r \in meant[kind] : CanMean(kind, r, rel)
    BY <2>1, <2>2
  <2>4. PICK name : name = TableOf(kind, Columns(tableNames[kind][1], FALSE))
    OBVIOUS
  <2>5. RowsIn(name) = RowsMeant(meant, kind, rel)
    <3>1. source = Database(meant, rel, of, traffic)
      BY <2>3
    <3>2. kind \notin of => meant[kind] = {}
      BY <2>3
    <3> QED BY <2>4, <3>1, <3>2, TableFound
  <2>6. PICK cols : cols = Columns(name, FALSE)
    OBVIOUS
  <2>7. records'[kind] = { LoadedBy(kind, cols, row) : row \in RowsIn(name) }
    BY <1>2, <1>4, <2>4, <2>6 DEF ReadingInv
  <2>8. ASSUME NEW r \in meant[kind] PROVE LoadedBy(kind, cols, AsRow(kind, r, rel)) = AsMeant(kind, r, rel)
    <3>1. PICK all : all # {} /\ \A x : DOMAIN AsRow(kind, x, rel) = all
      BY RowsAlike
    <3>2. name \in DOMAIN source.tables /\ source.tables[name] = RowsIn(name)
      BY <2>5 DEF RowsIn, RowsMeant
    <3>3. cols = UNION { DOMAIN row : row \in RowsIn(name) }
      BY <2>6, <3>2 DEF Columns
    <3>4. cols = all
      BY <2>5, <3>1, <3>3 DEF RowsMeant
    <3> QED BY <2>3, <3>1, <3>4, RecordsRead
  <2>9. records'[kind] = { AsMeant(kind, r, rel) : r \in meant[kind] }
    BY <2>5, <2>7, <2>8 DEF RowsMeant
  <2>10. CASE kind = "rules" /\ rel = "old"
    BY <2>2, <2>9, <2>10 DEF AsMeant
  <2>11. CASE ~(kind = "rules" /\ rel = "old")
    BY <2>2, <2>9, <2>11 DEF AsMeant
  <2> QED BY <2>10, <2>11
<1>5. ReadAsMeant'
  BY <1>1, <1>2, <1>3, <1>4 DEF ReadingInv, ReadAsMeant
<1> QED BY <1>1, <1>3, <1>5 DEF ReadingInv, RowsTaken, TakenOf, BytesOf

\* A row of traffic is read.
LEMMA TrafficStep ==
  ASSUME ReadingInv, NEW row \in unread, loadTrafficRows(row)
  PROVE  ReadingInv'
<1>1. UNCHANGED <<source, unreadable, records>> /\ unread' = unread \ {row}
  BY DEF loadTrafficRows
<1>2. ReadAsMeant' /\ unread' \subseteq source'.traffic /\ source' \in Sources /\ DOMAIN records' = RecordKinds
  BY <1>1 DEF ReadAsMeant, ReadingInv
<1>3. PICK K, n : K = Key(row) /\ n = Bytes(row)
  OBVIOUS
<1>4. IsFiniteSet(source.traffic) /\ (\A r \in source.traffic : Bytes(r) \in Nat) /\ row \in source.traffic /\ n \in Nat
  <2>1. source \in Sources /\ row \in source.traffic
    BY DEF ReadingInv
  <2>2. IsFiniteSet(source.traffic) /\ (\A r \in source.traffic : Bytes(r) \in Nat)
    BY <2>1, SourcesOfReleases
  <2> QED BY <1>3, <2>1, <2>2
<1>5. CASE K[1] = Nil
  <2>1. RowsTaken' = RowsTaken
    BY <1>1, <1>3, <1>5 DEF RowsTaken
  <2>2. UNCHANGED <<agg, total>>
    BY <1>3, <1>5 DEF loadTrafficRows
  <2>3. \A k : TakenOf(k)' = TakenOf(k)
    BY <2>1 DEF TakenOf
  <2> QED BY <1>2, <2>1, <2>2, <2>3 DEF ReadingInv
<1>6. CASE K[1] # Nil
  <2>1. RowsTaken' = RowsTaken \cup {row} /\ row \notin RowsTaken /\ RowsTaken \subseteq source.traffic
    BY <1>1, <1>3, <1>4, <1>6 DEF RowsTaken
  <2>2. /\ TakenOf(K)' = TakenOf(K) \cup {row} /\ row \notin TakenOf(K) /\ TakenOf(K) \subseteq source.traffic
        /\ \A k : k # K => TakenOf(k)' = TakenOf(k)
    BY <1>3, <2>1 DEF TakenOf
  <2>3. /\ Altogether(BytesOf(RowsTaken')) = Altogether(BytesOf(RowsTaken)) + n
        /\ Altogether(BytesOf(RowsTaken)) \in Nat
    <3>1. IsFiniteSet(RowsTaken) /\ \A r \in RowsTaken : Bytes(r) \in Nat
      BY <1>4, <2>1, FS_Subset
    <3> QED BY <1>3, <1>4, <2>1, <3>1, RowMore
  <2>4. Altogether(BytesOf(TakenOf(K)')) = Altogether(BytesOf(TakenOf(K))) + n
    <3>1. IsFiniteSet(TakenOf(K)) /\ \A r \in TakenOf(K) : Bytes(r) \in Nat
      BY <1>4, <2>2, FS_Subset
    <3> QED BY <1>3, <1>4, <2>2, <3>1, RowMore
  <2>5. CASE n = 0
    <3>1. UNCHANGED <<agg, total>>
      BY <1>3, <1>6, <2>5 DEF loadTrafficRows
    <3>2. Altogether(BytesOf(RowsTaken')) = Altogether(BytesOf(RowsTaken))
      BY <2>3, <2>5
    <3>3. K \in DOMAIN agg => agg[K] \in Nat /\ agg[K] = Altogether(BytesOf(TakenOf(K)))
      BY DEF ReadingInv
    <3>4. K \notin DOMAIN agg => Altogether(BytesOf(TakenOf(K))) = 0
      BY DEF ReadingInv
    <3>5. \A k : Altogether(BytesOf(TakenOf(k)')) = Altogether(BytesOf(TakenOf(k)))
      BY <2>2, <2>4, <2>5, <3>3, <3>4
    <3> QED BY <1>2, <3>1, <3>2, <3>5 DEF ReadingInv, BytesOf
  <2>6. CASE n # 0
    <3>1. /\ total' = total + n
          /\ agg' = [k \in DOMAIN agg \cup {K} |->
                      IF k # K THEN agg[k] ELSE (IF k \in DOMAIN agg THEN agg[k] ELSE 0) + n]
      BY <1>3, <1>6, <2>6 DEF loadTrafficRows, Added
    <3>2. /\ DOMAIN agg' = DOMAIN agg \cup {K}
          /\ \A k \in DOMAIN agg \ {K} : agg'[k] = agg[k]
          /\ agg'[K] = (IF K \in DOMAIN agg THEN agg[K] ELSE 0) + n
      BY <3>1
    <3>3. IsFiniteSet(DOMAIN agg) /\ \A k \in DOMAIN agg : agg[k] \in Nat
      BY DEF ReadingInv
    <3>4. IsFiniteSet(DOMAIN agg')
      <4>1. IsFiniteSet({K})
        BY FS_Singleton
      <4> QED BY <3>2, <3>3, <4>1, FS_Union
    <3>5. total' = Altogether(agg')
      <4>1. total = Altogether(agg)
        BY DEF ReadingInv
      <4>2. CASE K \in DOMAIN agg
        <5>1. DOMAIN agg' = DOMAIN agg /\ agg'[K] = agg[K] + n
          BY <3>2, <4>2
        <5>2. Altogether(agg') = Altogether(agg) + n
          BY <1>4, <3>2, <3>3, <4>2, <5>1, OneGrows
        <5> QED BY <3>1, <4>1, <5>2
      <4>3. CASE K \notin DOMAIN agg
        <5>1. agg'[K] = n /\ \A k \in DOMAIN agg : agg'[k] = agg[k]
          BY <1>4, <3>2, <4>3
        <5>2. Altogether(agg') = Altogether(agg) + n
          BY <1>4, <3>2, <3>3, <4>3, <5>1, OneMore
        <5> QED BY <3>1, <4>1, <5>2
      <4> QED BY <4>2, <4>3
    <3>6. total' = Altogether(BytesOf(RowsTaken'))
      BY <2>3, <3>1 DEF ReadingInv
    <3>7. agg'[K] = Altogether(BytesOf(TakenOf(K)')) /\ agg'[K] \in Nat
      <4>1. (IF K \in DOMAIN agg THEN agg[K] ELSE 0) = Altogether(BytesOf(TakenOf(K)))
        BY DEF ReadingInv
      <4>2. (IF K \in DOMAIN agg THEN agg[K] ELSE 0) \in Nat
        BY <3>3
      <4> QED BY <1>4, <2>4, <3>2, <4>1, <4>2
    <3>8. \A k \in DOMAIN agg' : agg'[k] = Altogether(BytesOf(TakenOf(k)')) /\ agg'[k] \in Nat
      <4> TAKE k \in DOMAIN agg'
      <4>1. CASE k = K
        BY <3>7, <4>1
      <4>2. CASE k # K
        BY <2>2, <3>2, <3>3, <4>2 DEF ReadingInv
      <4> QED BY <4>1, <4>2
    <3>9. \A k : k \notin DOMAIN agg' => Altogether(BytesOf(TakenOf(k)')) = 0
      <4> TAKE k
      <4>1. CASE k \in DOMAIN agg'
        BY <4>1
      <4>2. CASE k \notin DOMAIN agg'
        BY <2>2, <3>2, <4>2 DEF ReadingInv
      <4> QED BY <4>1, <4>2
    <3> QED BY <1>2, <3>4, <3>5, <3>6, <3>8, <3>9 DEF ReadingInv, BytesOf
  <2> QED BY <2>5, <2>6
<1> QED BY <1>5, <1>6

\* A migration reads what the source says: the records of every release as they
\* are meant, whatever its tables and columns are called, and the traffic of every
\* key added up in whatever order its rows come (loadUsers, loadDeviceGroups,
\* loadNodes, loadRules, loadTrafficRows).
THEOREM SourceIsRead == ReadingSpec => []SourceRead
<1>1. InitReading => ReadingInv
  BY ReadingInit
<1>2. ReadingInv /\ [NextReading]_readingVars => ReadingInv'
  <2> SUFFICES ASSUME ReadingInv, [NextReading]_readingVars PROVE ReadingInv'
    OBVIOUS
  <2>1. CASE probeNyanpass
    <3>1. UNCHANGED <<source, unreadable, records, unread, agg, total>>
      BY <2>1 DEF probeNyanpass
    <3> QED BY <3>1 DEF ReadingInv, ReadAsMeant, RowsTaken, TakenOf, BytesOf
  <2>2. ASSUME NEW kind \in RecordKinds, LoadAll(kind) PROVE ReadingInv'
    BY <2>2, LoadStep
  <2>3. ASSUME NEW row \in unread, loadTrafficRows(row) PROVE ReadingInv'
    BY <2>3, TrafficStep
  <2>4. CASE UNCHANGED readingVars
    BY <2>4 DEF readingVars, ReadingInv, ReadAsMeant, RowsTaken, TakenOf, BytesOf
  <2> QED BY <2>1, <2>2, <2>3, <2>4 DEF NextReading
<1>3. ReadingInv => SourceRead
  BY ReadingInvImplies
<1> QED BY <1>1, <1>2, <1>3, PTL DEF ReadingSpec

---------------------------------------------------------------------------
\* TrafficHistory.

\* A sum of finitely many numbers is a number, and none of its parts is more.
LEMMA SumPart ==
  ASSUME NEW g, IsFiniteSet(DOMAIN g), \A k \in DOMAIN g : g[k] \in Nat,
         NEW f, DOMAIN f \subseteq DOMAIN g, \A k \in DOMAIN f : f[k] = g[k]
  PROVE  SumOf(f) \in Nat /\ SumOf(g) \in Nat /\ SumOf(f) <= SumOf(g)
<1>1. PICK ones : ones = [k \in DOMAIN g |-> {k} \X (1 .. g[k])]
  OBVIOUS
<1>2. PICK A : A = UNION { ones[k] : k \in DOMAIN f }
  OBVIOUS
<1>3. PICK B : B = UNION { ones[k] : k \in DOMAIN g }
  OBVIOUS
<1>4. SumOf(f) = Cardinality(A)
  <2>1. { {k} \X (1 .. f[k]) : k \in DOMAIN f } = { ones[k] : k \in DOMAIN f }
    BY <1>1
  <2> QED BY <1>2, <2>1 DEF SumOf
<1>5. SumOf(g) = Cardinality(B)
  <2>1. { {k} \X (1 .. g[k]) : k \in DOMAIN g } = { ones[k] : k \in DOMAIN g }
    BY <1>1
  <2> QED BY <1>3, <2>1 DEF SumOf
<1>6. \A k \in DOMAIN g : IsFiniteSet(ones[k])
  <2> TAKE k \in DOMAIN g
  <2>1. PICK m \in Nat : m = g[k]
    OBVIOUS
  <2>2. 1 \in Int /\ m \in Int
    BY <2>1
  <2>3. IsFiniteSet({k}) /\ IsFiniteSet(1 .. m)
    BY <2>2, FS_Singleton, FS_Interval
  <2> QED BY <1>1, <2>1, <2>3, FS_Product
<1>7. IsFiniteSet(B)
  <2>1. PICK R : R = {ones[k] : k \in DOMAIN g}
    OBVIOUS
  <2>2. ones \in Surjection(DOMAIN g, R)
    BY <1>1, <2>1 DEF Surjection
  <2>3. IsFiniteSet(R)
    BY <2>2, FS_Surjection
  <2>4. \A T \in R : IsFiniteSet(T)
    BY <1>6, <2>1
  <2> QED BY <1>3, <2>1, <2>3, <2>4, FS_UNION
<1>8. A \subseteq B
  BY <1>2, <1>3
<1>9. IsFiniteSet(A) /\ Cardinality(A) <= Cardinality(B)
  BY <1>7, <1>8, FS_Subset
<1> QED BY <1>4, <1>5, <1>7, <1>9, FS_CardinalityType

\* The two sums are the same.
LEMMA SumIsAltogether ==
  ASSUME NEW f
  PROVE  SumOf(f) = Altogether(f)
BY DEF SumOf, Altogether

HourSum(rows, x) == SumOf([r \in RowsOf(rows, x) |-> rows[r]])
BytesRecorded(x) == IF x \in DOMAIN recorded THEN recorded[x] ELSE 0

HistoryTypes ==
  /\ today \in Nat /\ today <= MaxDay
  /\ hourRows \in [DOMAIN hourRows -> Nat] /\ IsFiniteSet(DOMAIN hourRows)
  /\ DOMAIN hourRows \subseteq Days \X Hours \X Keys
  /\ dayRows \in [DOMAIN dayRows -> Nat] /\ recorded \in [DOMAIN recorded -> Nat]
ChosenExpired ==
  /\ chosen \subseteq DOMAIN hourRows /\ folding \subseteq chosen
  /\ \A r \in chosen : r[1] < today - KeepDays
HistoryInv == HistoryTypes /\ ChosenExpired /\ NothingLost

\* The hours of a day after a row of one of its hours grew by n.
LEMMA HourGrows ==
  ASSUME NEW rows, rows \in [DOMAIN rows -> Nat], IsFiniteSet(DOMAIN rows),
         NEW row, NEW n \in Nat, NEW old \in Nat, old = (IF row \in DOMAIN rows THEN rows[row] ELSE 0),
         NEW after, DOMAIN after = DOMAIN rows \cup {row},
         \A r \in DOMAIN rows \ {row} : after[r] = rows[r], after[row] = old + n
  PROVE  /\ HourSum(after, DayOf(row)) = HourSum(rows, DayOf(row)) + n
         /\ \A x : x # DayOf(row) => HourSum(after, x) = HourSum(rows, x)
<1>1. PICK day : day = DayOf(row)
  OBVIOUS
<1>2. ASSUME NEW x, x # day PROVE HourSum(after, x) = HourSum(rows, x)
  <2>1. RowsOf(after, x) = RowsOf(rows, x) /\ \A r \in RowsOf(rows, x) : after[r] = rows[r]
    BY <1>1, <1>2 DEF RowsOf
  <2>2. [r \in RowsOf(after, x) |-> after[r]] = [r \in RowsOf(rows, x) |-> rows[r]]
    BY <2>1
  <2> QED BY <2>2 DEF HourSum
<1>3. PICK f : f = [r \in RowsOf(rows, day) |-> rows[r]]
  OBVIOUS
<1>4. PICK g : g = [r \in RowsOf(after, day) |-> after[r]]
  OBVIOUS
<1>5. DOMAIN f \subseteq DOMAIN rows /\ DOMAIN g = DOMAIN f \cup {row}
  BY <1>1, <1>3, <1>4 DEF RowsOf
<1>6. IsFiniteSet(DOMAIN f)
  BY <1>5, FS_Subset
<1>7. \A k \in DOMAIN f : f[k] \in Nat
  BY <1>3, <1>5
<1>8. \A k \in DOMAIN f \ {row} : g[k] = f[k]
  BY <1>3, <1>4, <1>5
<1>9. g[row] = old + n
  BY <1>4, <1>5
<1>10. Altogether(g) = Altogether(f) + n
  <2>1. CASE row \in DOMAIN rows
    <3>1. row \in DOMAIN f /\ DOMAIN g = DOMAIN f /\ g[row] = f[row] + n
      BY <1>1, <1>3, <1>5, <1>9, <2>1 DEF RowsOf
    <3> QED BY <1>6, <1>7, <1>8, <3>1, OneGrows
  <2>2. CASE row \notin DOMAIN rows
    <3>1. row \notin DOMAIN f /\ g[row] = n
      BY <1>5, <1>9, <2>2
    <3>2. \A k \in DOMAIN f : g[k] = f[k]
      BY <1>8, <3>1
    <3>3. DOMAIN g = DOMAIN f \cup {row}
      BY <1>5
    <3> QED BY <1>6, <1>7, <3>1, <3>2, <3>3, OneMore
  <2> QED BY <2>1, <2>2
<1>11. HourSum(after, day) = HourSum(rows, day) + n
  BY <1>3, <1>4, <1>10, SumIsAltogether DEF HourSum
<1> QED BY <1>1, <1>2, <1>11

\* Whatever is written of a row of a table, the row has grown by it.
LEMMA UpsertAdds ==
  ASSUME NEW rows, rows \in [DOMAIN rows -> Nat], NEW added, added \in [DOMAIN added -> Nat],
         NEW after, after = UpsertTraffic(rows, added)
  PROVE  /\ after \in [DOMAIN after -> Nat] /\ DOMAIN after = DOMAIN rows \cup DOMAIN added
         /\ \A x \in DOMAIN rows : after[x] >= rows[x]
         /\ \A x \in DOMAIN added : after[x] = (IF x \in DOMAIN rows THEN rows[x] ELSE 0) + added[x]
         /\ \A x \in DOMAIN rows \ DOMAIN added : after[x] = rows[x]
<1>1. after = [x \in DOMAIN rows \cup DOMAIN added |->
        (IF x \in DOMAIN rows THEN rows[x] ELSE 0) + (IF x \in DOMAIN added THEN added[x] ELSE 0)]
  BY DEF UpsertTraffic
<1>2. ASSUME NEW x \in DOMAIN rows \cup DOMAIN added
      PROVE  /\ after[x] = (IF x \in DOMAIN rows THEN rows[x] ELSE 0) + (IF x \in DOMAIN added THEN added[x] ELSE 0)
             /\ after[x] \in Nat
  BY <1>1
<1> QED BY <1>1, <1>2

Grew(rows, after, x, n) ==
  /\ after \in [DOMAIN after -> Nat] /\ DOMAIN after = DOMAIN rows \cup {x}
  /\ after[x] = (IF x \in DOMAIN rows THEN rows[x] ELSE 0) + n
  /\ \A y \in DOMAIN rows \ {x} : after[y] = rows[y]

\* Of a row that is given one number.
LEMMA UpsertedOne ==
  ASSUME NEW rows, rows \in [DOMAIN rows -> Nat], NEW x, NEW n \in Nat,
         NEW after, after = UpsertTraffic(rows, One(x, n))
  PROVE  Grew(rows, after, x, n)
<1>1. after = [y \in DOMAIN rows \cup {x} |->
        (IF y \in DOMAIN rows THEN rows[y] ELSE 0) + (IF y \in {x} THEN n ELSE 0)]
  BY DEF UpsertTraffic, One
<1>2. DOMAIN after = DOMAIN rows \cup {x}
  BY <1>1
<1>3. after[x] = (IF x \in DOMAIN rows THEN rows[x] ELSE 0) + n /\ after[x] \in Nat
  BY <1>1
<1>4. ASSUME NEW y \in DOMAIN rows \ {x} PROVE after[y] = rows[y] /\ after[y] \in Nat
  BY <1>1
<1>5. after \in [DOMAIN after -> Nat]
  BY <1>1, <1>2, <1>3, <1>4
<1> QED BY <1>2, <1>3, <1>4, <1>5 DEF Grew

\* Nothing is written.
LEMMA UpsertedNone ==
  ASSUME NEW rows, rows \in [DOMAIN rows -> Nat]
  PROVE  UpsertTraffic(rows, None) = rows
<1>1. DOMAIN None = {}
  BY DEF None
<1>2. \A x \in DOMAIN rows : rows[x] + 0 = rows[x]
  OBVIOUS
<1>3. UpsertTraffic(rows, None) = [x \in DOMAIN rows |-> rows[x] + 0]
  BY <1>1 DEF UpsertTraffic
<1> QED BY <1>2, <1>3

\* A sample is recorded, of an hour or of a day.
LEMMA RecordStep ==
  ASSUME HistoryInv, Record
  PROVE  HistoryInv'
<1>1. PICK hour \in Hours \cup {-1}, key \in Keys, bytes \in 1 .. MaxBytes :
        /\ recordTraffic(hour, key, bytes)
        /\ recorded' = UpsertTraffic(recorded, One(<<today, key>>, bytes))
        /\ UNCHANGED <<today, folding, chosen>>
  BY DEF Record
<1>2. bytes \in Nat
  BY HistoryBounds
<1>3. PICK day : day = <<today, key>>
  OBVIOUS
<1>4. dayRows' = UpsertTraffic(dayRows, One(day, bytes))
  BY <1>1, <1>3 DEF recordTraffic
<1>5. recorded' = UpsertTraffic(recorded, One(day, bytes))
  BY <1>1, <1>3
<1>7. dayRows \in [DOMAIN dayRows -> Nat] /\ recorded \in [DOMAIN recorded -> Nat]
  BY DEF HistoryInv, HistoryTypes
<1>8. /\ dayRows' \in [DOMAIN dayRows' -> Nat] /\ DOMAIN dayRows' = DOMAIN dayRows \cup {day}
      /\ dayRows'[day] = (IF day \in DOMAIN dayRows THEN dayRows[day] ELSE 0) + bytes
      /\ \A x \in DOMAIN dayRows \ {day} : dayRows'[x] = dayRows[x]
  <2>1. Grew(dayRows, dayRows', day, bytes)
    BY <1>2, <1>4, <1>7, UpsertedOne
  <2> QED BY <2>1 DEF Grew
<1>9. /\ recorded' \in [DOMAIN recorded' -> Nat] /\ DOMAIN recorded' = DOMAIN recorded \cup {day}
      /\ recorded'[day] = (IF day \in DOMAIN recorded THEN recorded[day] ELSE 0) + bytes
      /\ \A x \in DOMAIN recorded \ {day} : recorded'[x] = recorded[x]
  <2>1. Grew(recorded, recorded', day, bytes)
    BY <1>2, <1>5, <1>7, UpsertedOne
  <2> QED BY <2>1 DEF Grew
<1>10. \A x \in DOMAIN recorded' : Shown(x)' >= recorded'[x]
  <2> TAKE x \in DOMAIN recorded'
  <2>1. CASE x = day
    <3>1. day \in DOMAIN recorded => Shown(day) >= recorded[day]
      BY DEF HistoryInv, NothingLost
    <3>2. (IF day \in DOMAIN dayRows THEN dayRows[day] ELSE 0) >= (IF day \in DOMAIN recorded THEN recorded[day] ELSE 0)
      BY <1>7, <3>1 DEF Shown
    <3>3. Shown(day)' = (IF day \in DOMAIN dayRows THEN dayRows[day] ELSE 0) + bytes
      BY <1>8 DEF Shown
    <3>4. (IF day \in DOMAIN dayRows THEN dayRows[day] ELSE 0) \in Nat /\ (IF day \in DOMAIN recorded THEN recorded[day] ELSE 0) \in Nat
      BY <1>7
    <3> QED BY <1>2, <1>9, <2>1, <3>2, <3>3, <3>4
  <2>2. CASE x # day
    <3>1. x \in DOMAIN recorded /\ recorded'[x] = recorded[x]
      BY <1>9, <2>2
    <3>2. Shown(x)' = Shown(x)
      BY <1>8, <2>2 DEF Shown
    <3> QED BY <3>1, <3>2 DEF HistoryInv, NothingLost
  <2> QED BY <2>1, <2>2
<1>11. hourRows \in [DOMAIN hourRows -> Nat] /\ IsFiniteSet(DOMAIN hourRows)
  BY DEF HistoryInv, HistoryTypes
<1>12. \A x \in Days \X Keys : HourSum(hourRows, x) <= BytesRecorded(x)
  BY DEF HistoryInv, NothingLost, HourSum, BytesRecorded
<1>13. /\ BytesRecorded(day)' = BytesRecorded(day) + bytes /\ BytesRecorded(day) \in Nat
       /\ \A x : x # day => BytesRecorded(x)' = BytesRecorded(x)
  BY <1>7, <1>9 DEF BytesRecorded
<1>14. ASSUME NEW x \in Days \X Keys PROVE HourSum(hourRows, x) \in Nat
  <2>1. PICK f : f = [r \in RowsOf(hourRows, x) |-> hourRows[r]]
    OBVIOUS
  <2>2. DOMAIN f \subseteq DOMAIN hourRows /\ \A k \in DOMAIN f : f[k] = hourRows[k]
    BY <2>1 DEF RowsOf
  <2>3. \A k \in DOMAIN hourRows : hourRows[k] \in Nat
    BY <1>11
  <2> QED BY <1>11, <2>1, <2>2, <2>3, SumPart DEF HourSum
<1>15. /\ hourRows' \in [DOMAIN hourRows' -> Nat] /\ IsFiniteSet(DOMAIN hourRows')
       /\ DOMAIN hourRows' \subseteq Days \X Hours \X Keys /\ DOMAIN hourRows \subseteq DOMAIN hourRows'
       /\ \A x \in Days \X Keys : HourSum(hourRows', x) <= BytesRecorded(x)'
  <2>1. CASE hour \in Hours
    <3>1. PICK row : row = <<today, hour, key>>
      OBVIOUS
    <3>2. DayOf(row) = day /\ row \in Days \X Hours \X Keys
      BY <1>3, <2>1, <3>1 DEF DayOf, HistoryInv, HistoryTypes, Days
    <3>3. hourRows' = UpsertTraffic(hourRows, One(row, bytes))
      BY <1>1, <2>1, <3>1 DEF recordTraffic, mkRow
    <3>6. PICK old \in Nat : old = (IF row \in DOMAIN hourRows THEN hourRows[row] ELSE 0)
      BY <1>11
    <3>7. /\ hourRows' \in [DOMAIN hourRows' -> Nat] /\ DOMAIN hourRows' = DOMAIN hourRows \cup {row}
          /\ hourRows'[row] = old + bytes
          /\ \A r \in DOMAIN hourRows \ {row} : hourRows'[r] = hourRows[r]
      <4>1. Grew(hourRows, hourRows', row, bytes)
        BY <1>2, <1>11, <3>3, UpsertedOne
      <4> QED BY <3>6, <4>1 DEF Grew
    <3>8. IsFiniteSet(DOMAIN hourRows')
      <4>1. IsFiniteSet({row})
        BY FS_Singleton
      <4> QED BY <1>11, <3>7, <4>1, FS_Union
    <3>9. DOMAIN hourRows' \subseteq Days \X Hours \X Keys
      BY <3>2, <3>7 DEF HistoryInv, HistoryTypes
    <3>10. /\ HourSum(hourRows', DayOf(row)) = HourSum(hourRows, DayOf(row)) + bytes
           /\ \A x : x # DayOf(row) => HourSum(hourRows', x) = HourSum(hourRows, x)
      BY <1>2, <1>11, <3>6, <3>7, HourGrows
    <3>11. ASSUME NEW x \in Days \X Keys PROVE HourSum(hourRows', x) <= BytesRecorded(x)'
      <4>1. CASE x = day
        BY <1>2, <1>12, <1>13, <1>14, <3>2, <3>10, <4>1
      <4>2. CASE x # day
        BY <1>12, <1>13, <3>2, <3>10, <4>2
      <4> QED BY <4>1, <4>2
    <3> QED BY <3>7, <3>8, <3>9, <3>11
  <2>2. CASE hour \notin Hours
    <3>2. hourRows' = UpsertTraffic(hourRows, None)
      BY <1>1, <2>2 DEF recordTraffic, mkRow
    <3>4. hourRows' = hourRows
      BY <1>11, <3>2, UpsertedNone
    <3>5. ASSUME NEW x \in Days \X Keys PROVE HourSum(hourRows', x) <= BytesRecorded(x)'
      <4>1. CASE x = day
        BY <1>2, <1>12, <1>13, <1>14, <3>4, <4>1
      <4>2. CASE x # day
        BY <1>12, <1>13, <3>4, <4>2
      <4> QED BY <4>1, <4>2
    <3> QED BY <1>11, <3>4, <3>5 DEF HistoryInv, HistoryTypes
  <2> QED BY <2>1, <2>2
<1>16. NothingLost'
  BY <1>10, <1>15 DEF NothingLost, HourSum, BytesRecorded
<1>17. HistoryTypes'
  BY <1>1, <1>8, <1>9, <1>15 DEF HistoryInv, HistoryTypes
<1>18. ChosenExpired'
  BY <1>1, <1>15 DEF HistoryInv, ChosenExpired
<1> QED BY <1>16, <1>17, <1>18 DEF HistoryInv

\* Rows are chosen.
LEMMA SelectStep ==
  ASSUME HistoryInv, Select
  PROVE  HistoryInv'
<1>1. UNCHANGED <<today, hourRows, dayRows, recorded, folding>> /\ chosen = {}
  BY DEF Select
<1>2. chosen' \subseteq Expired
  BY DEF Select, kSubset
<1>3. ChosenExpired'
  BY <1>1, <1>2 DEF ChosenExpired, Expired, HistoryInv
<1> QED BY <1>1, <1>3 DEF HistoryInv, HistoryTypes, NothingLost, Shown, RowsOf

\* They are added to their days.
LEMMA FoldStep ==
  ASSUME HistoryInv, Fold
  PROVE  HistoryInv'
<1>1. UNCHANGED <<today, hourRows, recorded, chosen>> /\ folding' = chosen /\ dayRows' = UpsertTraffic(dayRows, merged(chosen))
  BY DEF Fold, upsertDailyTraffic
<1>2. PICK added : added = merged(chosen)
  OBVIOUS
<1>3. added \in [DOMAIN added -> Nat]
  <2>1. ASSUME NEW x \in DOMAIN added PROVE added[x] \in Nat
    <3>1. PICK f : f = [r \in { y \in chosen : DayOf(y) = x } |-> hourRows[r]]
      OBVIOUS
    <3>2. DOMAIN f \subseteq DOMAIN hourRows /\ \A k \in DOMAIN f : f[k] = hourRows[k]
      BY <3>1 DEF HistoryInv, ChosenExpired
    <3>3. IsFiniteSet(DOMAIN hourRows) /\ \A k \in DOMAIN hourRows : hourRows[k] \in Nat
      BY DEF HistoryInv, HistoryTypes
    <3>4. SumOf(f) \in Nat
      BY <3>2, <3>3, SumPart
    <3> QED BY <1>2, <2>1, <3>1, <3>4 DEF merged
  <2>2. added = [x \in DOMAIN added |-> added[x]]
    BY <1>2 DEF merged
  <2> QED BY <2>1, <2>2
<1>4. /\ dayRows' \in [DOMAIN dayRows' -> Nat] /\ DOMAIN dayRows \subseteq DOMAIN dayRows'
      /\ \A x \in DOMAIN dayRows : dayRows'[x] >= dayRows[x]
  <2>1. dayRows \in [DOMAIN dayRows -> Nat] /\ dayRows' = UpsertTraffic(dayRows, added)
    BY <1>1, <1>2 DEF HistoryInv, HistoryTypes
  <2>2. /\ dayRows' \in [DOMAIN dayRows' -> Nat] /\ DOMAIN dayRows' = DOMAIN dayRows \cup DOMAIN added
        /\ \A x \in DOMAIN dayRows : dayRows'[x] >= dayRows[x]
    BY <1>3, <2>1, UpsertAdds
  <2> QED BY <2>2
<1>5. \A x \in DOMAIN recorded' : Shown(x)' >= recorded'[x]
  <2> TAKE x \in DOMAIN recorded'
  <2>1. Shown(x) >= recorded[x] /\ recorded[x] \in Nat /\ recorded' = recorded
    BY <1>1 DEF HistoryInv, NothingLost, HistoryTypes
  <2>2. CASE x \in DOMAIN dayRows
    <3>1. dayRows'[x] >= dayRows[x] /\ dayRows[x] \in Nat /\ dayRows'[x] \in Nat /\ x \in DOMAIN dayRows'
      BY <1>4, <2>2 DEF HistoryInv, HistoryTypes
    <3> QED BY <2>1, <2>2, <3>1 DEF Shown
  <2>3. CASE x \notin DOMAIN dayRows
    <3>1. x \in DOMAIN dayRows' => dayRows'[x] \in Nat
      BY <1>4
    <3> QED BY <2>1, <2>3, <3>1 DEF Shown
  <2> QED BY <2>2, <2>3
<1>6. NothingLost'
  BY <1>1, <1>5 DEF HistoryInv, NothingLost, RowsOf
<1> QED BY <1>1, <1>4, <1>6 DEF HistoryInv, HistoryTypes, ChosenExpired

\* Their hours are deleted.
LEMMA DeleteStep ==
  ASSUME HistoryInv, Delete
  PROVE  HistoryInv'
<1>1. /\ UNCHANGED <<today, dayRows, recorded>> /\ chosen' = {} /\ folding' = {}
      /\ hourRows' = [r \in DOMAIN hourRows \ folding |-> hourRows[r]]
  BY DEF Delete, Restrict
<1>2. IsFiniteSet(DOMAIN hourRows) /\ \A k \in DOMAIN hourRows : hourRows[k] \in Nat
  BY DEF HistoryInv, HistoryTypes
<1>3. IsFiniteSet(DOMAIN hourRows')
  BY <1>1, <1>2, FS_Subset
<1>4. ASSUME NEW x \in Days \X Keys
      PROVE  HourSum(hourRows', x) <= HourSum(hourRows, x) /\ HourSum(hourRows', x) \in Nat /\ HourSum(hourRows, x) \in Nat
  <2>1. PICK g : g = [r \in RowsOf(hourRows, x) |-> hourRows[r]]
    OBVIOUS
  <2>2. PICK f : f = [r \in RowsOf(hourRows', x) |-> hourRows'[r]]
    OBVIOUS
  <2>3. DOMAIN g \subseteq DOMAIN hourRows /\ DOMAIN f \subseteq DOMAIN g /\ \A k \in DOMAIN f : f[k] = g[k]
    BY <1>1, <2>1, <2>2 DEF RowsOf
  <2>4. \A k \in DOMAIN g : g[k] \in Nat
    BY <1>2, <2>1, <2>3
  <2>5. IsFiniteSet(DOMAIN g)
    BY <1>2, <2>3, FS_Subset
  <2> QED BY <2>1, <2>2, <2>3, <2>4, <2>5, SumPart DEF HourSum
<1>5. \A x \in Days \X Keys : HourSum(hourRows, x) <= BytesRecorded(x) /\ BytesRecorded(x) \in Nat
  BY DEF HistoryInv, NothingLost, HourSum, BytesRecorded, HistoryTypes
<1>6. \A x \in Days \X Keys : HourSum(hourRows', x) <= BytesRecorded(x)'
  BY <1>1, <1>4, <1>5 DEF BytesRecorded
<1>7. NothingLost'
  BY <1>1, <1>6 DEF HistoryInv, NothingLost, HourSum, BytesRecorded, Shown
<1>8. HistoryTypes'
  BY <1>1, <1>2, <1>3 DEF HistoryInv, HistoryTypes
<1> QED BY <1>1, <1>7, <1>8 DEF HistoryInv, ChosenExpired

\* A day passes, or a round fails.
LEMMA PassingStep ==
  ASSUME HistoryInv, Midnight \/ Fault
  PROVE  HistoryInv'
<1>1. UNCHANGED <<hourRows, dayRows, recorded>>
  BY DEF Midnight, Fault
<1>2. NothingLost'
  BY <1>1 DEF HistoryInv, NothingLost, Shown, RowsOf
<1>3. today' \in Nat /\ today' <= MaxDay /\ today' >= today
  BY HistoryBounds DEF Midnight, Fault, HistoryInv, HistoryTypes
<1>4. HistoryTypes'
  BY <1>1, <1>3 DEF HistoryInv, HistoryTypes
<1>5. ChosenExpired'
  <2>1. CASE Midnight
    <3>1. \A r \in chosen : r[1] \in Nat
      BY DEF HistoryInv, HistoryTypes, ChosenExpired, Days
    <3>2. UNCHANGED <<folding, chosen>>
      BY <2>1 DEF Midnight
    <3>3. \A r \in chosen : r[1] < today' - KeepDays
      BY <1>3, <3>1, HistoryBounds DEF HistoryInv, HistoryTypes, ChosenExpired
    <3> QED BY <1>1, <3>2, <3>3 DEF HistoryInv, ChosenExpired
  <2>2. CASE Fault
    BY <2>2 DEF Fault, ChosenExpired
  <2> QED BY <2>1, <2>2
<1> QED BY <1>2, <1>4, <1>5 DEF HistoryInv

\* Hours go only by a round that added them to their days.
LEMMA DeletesFolded ==
  ASSUME HistoryInv, [NextHistory]_historyVars
  PROVE  \A r \in DOMAIN hourRows \ DOMAIN hourRows' : r[1] < today - KeepDays /\ r \in folding
<1>1. CASE Record
  <2>1. PICK hour \in Hours \cup {-1}, key \in Keys, bytes \in 1 .. MaxBytes :
          hourRows' = UpsertTraffic(hourRows, mkRow(hour, key, bytes))
    BY <1>1 DEF Record, recordTraffic
  <2>2. DOMAIN hourRows \subseteq DOMAIN hourRows'
    BY <2>1 DEF UpsertTraffic
  <2> QED BY <2>2
<1>2. CASE Delete
  <2>1. DOMAIN hourRows \ DOMAIN hourRows' \subseteq folding
    BY <1>2 DEF Delete, Restrict
  <2> QED BY <2>1 DEF HistoryInv, ChosenExpired
<1>3. CASE UNCHANGED hourRows
  BY <1>3
<1> QED BY <1>1, <1>2, <1>3 DEF NextHistory, Midnight, Select, Fold, Fault, historyVars

\* The history of traffic is complete at every instant of a fold: no day ever says
\* less than was reported of it, and no hour goes before its day has it
\* (recordTraffic, CollectTraffic).
THEOREM HistoryIsComplete == HistorySpec => HistoryComplete
<1>1. InitHistory => HistoryInv
  <2> SUFFICES ASSUME InitHistory PROVE HistoryInv
    OBVIOUS
  <2>1. today = 0 /\ hourRows = None /\ dayRows = None /\ recorded = None /\ folding = {} /\ chosen = {}
    BY DEF InitHistory
  <2>2. None \in [DOMAIN None -> Nat] /\ DOMAIN None = {} /\ IsFiniteSet({})
    BY FS_EmptySet DEF None
  <2>3. \A x : HourSum(None, x) = 0
    <3> TAKE x
    <3>1. PICK f : f = [r \in RowsOf(None, x) |-> None[r]]
      OBVIOUS
    <3>2. DOMAIN f = {}
      BY <2>2, <3>1 DEF RowsOf
    <3>3. Altogether(f) = 0
      BY <3>2, OfNothing
    <3> QED BY <3>1, <3>3, SumIsAltogether DEF HourSum
  <2>4. NothingLost
    BY <2>1, <2>2, <2>3 DEF NothingLost, HourSum
  <2>5. HistoryTypes /\ ChosenExpired
    BY <2>1, <2>2, HistoryBounds DEF HistoryTypes, ChosenExpired
  <2> QED BY <2>4, <2>5 DEF HistoryInv
<1>2. HistoryInv /\ [NextHistory]_historyVars => HistoryInv'
  <2> SUFFICES ASSUME HistoryInv, [NextHistory]_historyVars PROVE HistoryInv'
    OBVIOUS
  <2>1. CASE UNCHANGED historyVars
    BY <2>1 DEF historyVars, HistoryInv, HistoryTypes, ChosenExpired, NothingLost, Shown, RowsOf
  <2> QED BY <2>1, RecordStep, SelectStep, FoldStep, DeleteStep, PassingStep DEF NextHistory
<1>3. HistoryInv => NothingLost
  BY DEF HistoryInv
<1>4. HistoryInv /\ [NextHistory]_historyVars
        => [\A r \in DOMAIN hourRows \ DOMAIN hourRows' : r[1] < today - KeepDays /\ r \in folding]_historyVars
  BY DeletesFolded
<1> QED BY <1>1, <1>2, <1>3, <1>4, PTL DEF HistorySpec, HistoryComplete, DetailKept

---------------------------------------------------------------------------
\* Migration: numbers and tables.

\* A set of numbers that is not empty has a least one.
LEMMA Least ==
  ASSUME NEW S \in SUBSET Nat, S # {}
  PROVE  \E x \in S : \A y \in S : x <= y
<1>1. PICK x \in S : \A y \in S : ~(<<y, x>> \in OpToRel(<, Nat))
  BY NatLessThanWellFounded, WFMin
<1>2. \A y \in S : x \in Nat /\ y \in Nat /\ ~(y < x)
  BY <1>1 DEF OpToRel
<1> QED BY <1>2

\* Finitely many numbers have a bound.
LEMMA Bounded ==
  ASSUME NEW f, NEW n \in Nat, \A i \in 1..n : f[i] \in Nat
  PROVE  \E b \in Nat : \A i \in 1..n : f[i] <= b
<1> DEFINE S == {m \in 0..n : ~\E b \in Nat : \A i \in 1..m : f[i] <= b}
<1>1. CASE S = {}
  <2>1. n \in 0..n
    OBVIOUS
  <2>2. n \notin S
    BY <1>1, Zenon
  <2> QED BY <2>1, <2>2
<1>2. CASE S # {}
  <2>0. S \in SUBSET Nat
    OBVIOUS
  <2>1. PICK m \in S : \A y \in S : m <= y
    BY <1>2, <2>0, Least, Zenon
  <2>2. m \in 0..n /\ m # 0
    BY <2>1
  <2>3. m - 1 \in 0..n /\ m - 1 \notin S
    <3>1. m - 1 \in 0..n /\ m - 1 \in Nat /\ ~(m <= m - 1)
      BY <2>2
    <3> HIDE DEF S
    <3> QED BY <2>1, <3>1
  <2>4. PICK b \in Nat : \A i \in 1..(m - 1) : f[i] <= b
    BY <2>3
  <2>5. PICK c \in Nat : c >= b /\ c >= f[m]
    <3>1. f[m] \in Nat
      BY <2>2
    <3>2. b >= f[m] \/ f[m] >= b
      BY <3>1
    <3> QED BY <3>1, <3>2
  <2>6. \A i \in 1..m : f[i] <= c
    <3> SUFFICES ASSUME NEW i \in 1..m PROVE f[i] <= c
      OBVIOUS
    <3>1. f[i] \in Nat
      BY <2>1
    <3>2. CASE i = m
      BY <2>5, <3>2
    <3>3. CASE i # m
      <4>1. i \in 1..(m - 1)
        BY <2>1, <3>3
      <4> QED BY <2>4, <2>5, <3>1, <4>1
    <3> QED BY <3>2, <3>3
  <2> QED BY <2>1, <2>6
<1> QED BY <1>1, <1>2

\* A finite set of numbers has a bound.
LEMMA FiniteBounded ==
  ASSUME NEW S \in SUBSET Nat, IsFiniteSet(S)
  PROVE  \E b \in Nat : \A x \in S : x <= b
<1>1. PICK n \in Nat : \E f : f \in Bijection(1..n, S)
  BY FS_CardinalityType DEF ExistsBijection
<1>2. PICK f : f \in Bijection(1..n, S)
  BY <1>1
<1>3. f \in [1..n -> S] /\ \A x \in S : \E i \in 1..n : f[i] = x
  BY <1>2 DEF Bijection, Injection, Surjection
<1>4. \A i \in 1..n : f[i] \in Nat
  BY <1>3
<1>5. PICK b \in Nat : \A i \in 1..n : f[i] <= b
  BY <1>4, Bounded
<1> QED BY <1>3, <1>5

\* A bounded set of numbers has a greatest one.
LEMMA MaxOf ==
  ASSUME NEW S \in SUBSET Nat, S # {}, NEW b \in Nat, \A x \in S : x <= b
  PROVE  Max(S) \in S /\ \A x \in S : x <= Max(S)
<1> DEFINE Above == {c \in Nat : \A x \in S : x <= c}
<1>1. PICK c \in Above : \A y \in Above : c <= y
  BY Least
<1>2. c \in S
  <2> SUFFICES ASSUME c \notin S PROVE FALSE
    OBVIOUS
  <2>1. \A x \in S : x <= c - 1
    BY <1>1
  <2>2. c - 1 \in Nat
    <3>1. PICK x \in S : x \in Nat /\ x <= c - 1
      BY <2>1
    <3> QED BY <1>1, <3>1
  <2> QED BY <1>1, <2>1, <2>2
<1>3. \E x \in S : \A y \in S : x >= y
  BY <1>1, <1>2
<1>4. Max(S) \in S /\ \A y \in S : Max(S) >= y
  BY <1>3, Zenon DEF Max
<1> QED BY <1>4

\* An identifier that is given out was not in use.
LEMMA Taken ==
  ASSUME NEW used \in SUBSET Nat, NEW b \in Nat, \A x \in used : x <= b, NEW preferred \in Nat
  PROVE  /\ take(preferred, used) \in Nat \ {0} /\ take(preferred, used) \notin used
         /\ \E c \in Nat : \A x \in used \cup {take(preferred, used)} : x <= c
<1>1. CASE preferred > 0 /\ preferred \notin used
  <2>1. take(preferred, used) = preferred
    BY <1>1 DEF take
  <2>2. PICK c \in Nat : c >= b /\ c >= preferred
    OBVIOUS
  <2>3. \A x \in used \cup {preferred} : x <= c
    BY <2>2
  <2> QED BY <1>1, <2>1, <2>3
<1>2. CASE ~(preferred > 0 /\ preferred \notin used)
  <2>1. PICK S : S = used \cup {0}
    OBVIOUS
  <2>2. Max(S) \in S /\ \A x \in S : x <= Max(S)
    <3>1. S \in SUBSET Nat /\ S # {} /\ \A x \in S : x <= b
      BY <2>1
    <3> QED BY <3>1, MaxOf
  <2>3. PICK m \in Nat : m = Max(S)
    BY <2>1, <2>2
  <2>4. take(preferred, used) = 1 + m
    BY <1>2, <2>1, <2>3 DEF take
  <2>5. \A x \in used : x <= m
    BY <2>1, <2>2, <2>3
  <2>6. \A x \in used \cup {1 + m} : x <= 1 + m
    BY <2>5
  <2> QED BY <2>4, <2>5, <2>6
<1> QED BY <1>1, <1>2

\* The tables, where they come in the order of the writes, and what may refer
\* to what.
LEMMA Tables ==
  /\ Table = {"user_groups", "users", "node_groups", "nodes", "rule_groups", "device_groups",
              "forward_rules"}
  /\ Len(Order) = 7 /\ \A k \in 1..7 : Order[k] \in Table
  /\ \A j, k \in 1..7 : Order[j] = Order[k] => j = k
  /\ \A t \in Table : \E k \in 1..7 : Order[k] = t
<1>1. Table = {Order[k] : k \in 1..7} /\ Len(Order) = 7
  BY DEF Table, Order, Range
<1>2. /\ Order[1] = "user_groups" /\ Order[2] = "users" /\ Order[3] = "node_groups"
      /\ Order[4] = "nodes" /\ Order[5] = "rule_groups" /\ Order[6] = "device_groups"
      /\ Order[7] = "forward_rules"
  BY DEF Order
<1>3. 1..7 = {1, 2, 3, 4, 5, 6, 7}
  OBVIOUS
<1> QED BY <1>1, <1>2, <1>3

\* A row refers to rows of tables that are written before its own, or of its own.
LEMMA Referring ==
  ASSUME NEW t \in Table, NEW p \in Parents(t)
  PROVE  /\ p \in Table
         /\ t # "user_groups" /\ p # t =>
              \E j, k \in 1..7 : Order[j] = p /\ Order[k] = t /\ j < k
         /\ t # "rule_groups"
<1>1. /\ Order[1] = "user_groups" /\ Order[2] = "users" /\ Order[3] = "node_groups"
      /\ Order[4] = "nodes" /\ Order[5] = "rule_groups" /\ Order[6] = "device_groups"
      /\ Order[7] = "forward_rules"
  BY DEF Order
<1> QED BY <1>1, Tables DEF Parents

---------------------------------------------------------------------------
\* The plan

\* A sequence whose elements are whatever they are.
IsSeq(s) == s \in Seq(Range(s))

\* What appending to a sequence changes.
LEMMA Appended ==
  ASSUME NEW s, IsSeq(s), NEW e
  PROVE  /\ IsSeq(Append(s, e)) /\ Len(s) \in Nat /\ DOMAIN s = 1..Len(s)
         /\ DOMAIN Append(s, e) = 1..(Len(s) + 1)
         /\ \A i \in 1..Len(s) : Append(s, e)[i] = s[i]
         /\ Append(s, e)[Len(s) + 1] = e
<1>1. PICK S : S = Range(s) \cup {e}
  OBVIOUS
<1>2. s \in Seq(S) /\ e \in S
  BY <1>1 DEF IsSeq
<1>3. /\ Append(s, e) \in Seq(S) /\ Len(Append(s, e)) = Len(s) + 1 /\ Len(s) \in Nat
      /\ \A i \in 1..Len(s) : Append(s, e)[i] = s[i]
      /\ Append(s, e)[Len(s) + 1] = e
      /\ DOMAIN s = 1..Len(s) /\ DOMAIN Append(s, e) = 1..(Len(s) + 1)
  BY <1>2
<1>4. PICK a : a = Append(s, e)
  OBVIOUS
<1>5. a \in Seq(Range(a))
  <2>1. a \in Seq(S) /\ \A i \in DOMAIN a : a[i] \in Range(a)
    BY <1>3, <1>4 DEF Range
  <2> QED BY <2>1
<1> QED BY <1>3, <1>4, <1>5 DEF IsSeq

\* What a row of a plan is: it has an identifier, a source row is planned with
\* one identifier only, and it refers to rows planned before it.
RowPlanned(rows, t, i) ==
  /\ rows[t][i].id \in Nat \ {0} /\ rows[t][i].source \in Nat
  /\ t # "user_groups" => \A ref \in rows[t][i].refs :
       /\ ref[1] \in Parents(t)
       /\ \E j \in DOMAIN rows[ref[1]] :
            rows[ref[1]][j].id = ref[2] /\ (ref[1] = t => j < i)
PlanRows(rows) ==
  /\ \A t \in Table : IsSeq(rows[t])
  /\ \A t \in Table : \A i \in DOMAIN rows[t] :
       /\ RowPlanned(rows, t, i)
       /\ \A j \in DOMAIN rows[t] :
            rows[t][j].source = rows[t][i].source => rows[t][j].id = rows[t][i].id

\* A plan in the making: the identifiers that are taken, the identifiers given
\* to source rows, and the rows.
Parts(taken, map, rows, ids) ==
  /\ taken = [t \in Table |-> taken[t]]
  /\ map = [t \in Table |-> map[t]]
  /\ rows = [t \in Table |-> rows[t]]
  /\ \A t \in Table :
       /\ ids[t] \subseteq taken[t] /\ taken[t] \subseteq Nat
       /\ \E b \in Nat : \A x \in taken[t] : x <= b
       /\ IsSeq(rows[t])
       /\ \A i \in DOMAIN rows[t] :
            /\ RowPlanned(rows, t, i) /\ rows[t][i].id \notin ids[t]
            /\ \/ rows[t][i].source \in DOMAIN map[t] /\ map[t][rows[t][i].source] = rows[t][i].id
               \/ DOMAIN rows[t] = {i}
       /\ \A src \in DOMAIN map[t] :
            \E i \in DOMAIN rows[t] : rows[t][i].id = map[t][src]
Making(acc, ids) ==
  /\ acc = [names |-> acc.names, ids |-> acc.ids, error |-> acc.error,
            map |-> acc.map, rows |-> acc.rows]
  /\ Parts(acc.ids, acc.map, acc.rows, ids)
\* The source rows of t that have been looked at are those up to n.
Upto(acc, t, n) ==
  /\ DOMAIN acc.map[t] \subseteq {Source[t][k].id : k \in 1..n}
  /\ \A i \in DOMAIN acc.rows[t] :
       /\ acc.rows[t][i].source \in DOMAIN acc.map[t]
       /\ acc.map[t][acc.rows[t][i].source] = acc.rows[t][i].id
SameElsewhere(acc, old, t) ==
  \A u \in Table \ {t} : acc.map[u] = old.map[u] /\ acc.rows[u] = old.rows[u]

\* A plan in the making is a plan, and its identifiers are free in the target.
LEMMA MakingPlan ==
  ASSUME NEW acc, NEW ids, Making(acc, ids)
  PROVE  PlanRows(acc.rows) /\ \A t \in Table : \A i \in DOMAIN acc.rows[t] : acc.rows[t][i].id \notin ids[t]
<1> SUFFICES ASSUME NEW t \in Table, NEW i \in DOMAIN acc.rows[t], NEW j \in DOMAIN acc.rows[t],
                    acc.rows[t][j].source = acc.rows[t][i].source
             PROVE  acc.rows[t][j].id = acc.rows[t][i].id
  BY DEF Making, Parts, PlanRows
<1>1. PICK rows : rows = acc.rows[t]
  OBVIOUS
<1>2. PICK map : map = acc.map[t]
  OBVIOUS
<1>3. \A k \in DOMAIN rows :
        \/ rows[k].source \in DOMAIN map /\ map[rows[k].source] = rows[k].id
        \/ DOMAIN rows = {k}
  BY <1>1, <1>2 DEF Making, Parts
<1> QED BY <1>1, <1>3

\* One more row is planned, refused or left out.
LEMMA RowStep ==
  ASSUME NEW acc, NEW ids, NEW t \in Table, NEW n \in Nat, n + 1 \in DOMAIN Source[t],
         Making(acc, ids), Upto(acc, t, n), NEW policy,
         NEW next, next = PlanRow(policy, t, acc, Source[t][n + 1])
  PROVE  Making(next, ids) /\ Upto(next, t, n + 1) /\ SameElsewhere(next, acc, t)
<1>1. PICK row : row = Source[t][n + 1]
  OBVIOUS
<1>2. /\ row.id \in Nat \ {0} /\ \A ref \in row.refs : ref[1] \in Parents(t)
      /\ \A k \in 1..n : Source[t][k].id # row.id
  <2>1. Source[t] \in Seq(Range(Source[t]))
    BY SourceAssumption
  <2>2. 1..n \subseteq DOMAIN Source[t] /\ \A k \in 1..n : k # n + 1
    <3>1. DOMAIN Source[t] = 1..Len(Source[t]) /\ Len(Source[t]) \in Nat
      BY <2>1
    <3> QED BY <3>1
  <2> QED BY <1>1, <2>2, SourceAssumption
<1>3. PICK named : named = resolveName(policy, row.name, acc.names[Namespace(t)])
  OBVIOUS
<1>4. PICK id : id = take(row.id, acc.ids[t])
  OBVIOUS
<1>5. /\ id \in Nat \ {0} /\ id \notin acc.ids[t]
      /\ \E c \in Nat : \A x \in acc.ids[t] \cup {id} : x <= c
  <2>1. acc.ids[t] \in SUBSET Nat
    BY DEF Making, Parts
  <2>2. PICK b \in Nat : \A x \in acc.ids[t] : x <= b
    BY DEF Making, Parts
  <2> QED BY <1>2, <1>4, <2>1, <2>2, Taken
<1>6. Upto(acc, t, n + 1) /\ SameElsewhere(acc, acc, t)
  BY DEF Upto, SameElsewhere
<1>10. \A u \in Table : \A src \in DOMAIN acc.map[u] :
         \E i \in DOMAIN acc.rows[u] : acc.rows[u][i].id = acc.map[u][src]
  BY DEF Making, Parts
<1>11. \A u \in Table : \A i \in DOMAIN acc.rows[u] :
         acc.rows[u][i].id \notin ids[u] /\ RowPlanned(acc.rows, u, i)
  BY DEF Making, Parts
<1>12. /\ DOMAIN acc.map[t] \subseteq {Source[t][k].id : k \in 1..n}
       /\ \A i \in DOMAIN acc.rows[t] :
            /\ acc.rows[t][i].source \in DOMAIN acc.map[t]
            /\ acc.map[t][acc.rows[t][i].source] = acc.rows[t][i].id
  BY DEF Upto
<1>7. CASE acc.error \/ Missing(row)
  <2>1. next = acc
    BY <1>1, <1>7 DEF PlanRow
  <2> QED BY <1>6, <2>1
<1>8. CASE ~(acc.error \/ Missing(row)) /\ ~named.keep
  <2>1. next = [acc EXCEPT !.error = named.error]
    BY <1>1, <1>3, <1>8 DEF PlanRow
  <2>2. /\ next = [names |-> acc.names, ids |-> acc.ids, error |-> named.error,
                   map |-> acc.map, rows |-> acc.rows]
    BY <2>1 DEF Making, Parts
  <2>3. /\ next.ids = acc.ids /\ next.map = acc.map /\ next.rows = acc.rows
        /\ next = [names |-> next.names, ids |-> next.ids, error |-> next.error,
                   map |-> next.map, rows |-> next.rows]
    BY <2>2
  <2>4. Making(next, ids)
    <3>1. Parts(next.ids, next.map, next.rows, ids)
      BY <2>3 DEF Making
    <3> QED BY <2>3, <3>1 DEF Making
  <2>5. Upto(next, t, n + 1) /\ SameElsewhere(next, acc, t)
    BY <1>6, <2>3, Zenon DEF Upto, SameElsewhere
  <2> QED BY <2>4, <2>5
<1>9. CASE ~(acc.error \/ Missing(row)) /\ named.keep
  <2>1. PICK new : new = [source |-> row.id, id |-> id, name |-> named.name,
                          on |-> row.on, refs |-> MapRefs(t, row, acc.map)]
    OBVIOUS
  <2>2. PICK map : map = [src \in DOMAIN acc.map[t] \cup {row.id} |->
                            IF src = row.id THEN id ELSE acc.map[t][src]]
    OBVIOUS
  <2>3. next = [acc EXCEPT !.names[Namespace(t)] = @ \cup {named.name},
                           !.ids[t] = @ \cup {id},
                           !.map[t] = [src \in DOMAIN @ \cup {row.id} |->
                              IF src = row.id THEN id ELSE acc.map[t][src]],
                           !.rows[t] = Append(@, [source |-> row.id, id |-> id, name |-> named.name,
                                                  on |-> row.on, refs |-> MapRefs(t, row, acc.map)])]
    BY <1>1, <1>3, <1>4, <1>9, Zenon DEF PlanRow
  <2>4. next = [names |-> [acc.names EXCEPT ![Namespace(t)] = @ \cup {named.name}],
                ids |-> [acc.ids EXCEPT ![t] = @ \cup {id}], error |-> acc.error,
                map |-> [acc.map EXCEPT ![t] = map],
                rows |-> [acc.rows EXCEPT ![t] = Append(@, new)]]
    BY <2>1, <2>2, <2>3 DEF Making, Parts
  <2>5. /\ next.ids = [acc.ids EXCEPT ![t] = @ \cup {id}]
        /\ next.map = [acc.map EXCEPT ![t] = map]
        /\ next.rows = [acc.rows EXCEPT ![t] = Append(@, new)]
        /\ next = [names |-> next.names, ids |-> next.ids, error |-> next.error,
                   map |-> next.map, rows |-> next.rows]
    BY <2>4
  <2>6. /\ DOMAIN acc.ids = Table /\ DOMAIN acc.map = Table /\ DOMAIN acc.rows = Table
    BY DEF Making, Parts
  <2>7. /\ next.ids = [u \in Table |-> next.ids[u]]
        /\ next.map = [u \in Table |-> next.map[u]]
        /\ next.rows = [u \in Table |-> next.rows[u]]
    BY <2>5, <2>6
  <2>8. /\ next.ids[t] = acc.ids[t] \cup {id} /\ next.map[t] = map
        /\ next.rows[t] = Append(acc.rows[t], new)
        /\ \A u \in Table \ {t} : /\ next.ids[u] = acc.ids[u] /\ next.map[u] = acc.map[u]
                                  /\ next.rows[u] = acc.rows[u]
    BY <2>5, <2>6
  <2>9. IsSeq(acc.rows[t])
    BY DEF Making, Parts
  <2>10. PICK m \in Nat : m = Len(acc.rows[t])
    BY <2>9, Appended
  <2>11. /\ IsSeq(next.rows[t]) /\ DOMAIN acc.rows[t] = 1..m /\ DOMAIN next.rows[t] = 1..(m + 1)
         /\ \A i \in 1..m : next.rows[t][i] = acc.rows[t][i]
         /\ next.rows[t][m + 1] = new
    BY <2>8, <2>9, <2>10, Appended
  \* Rows that were planned stay where they are.
  <2>12. \A u \in Table : /\ DOMAIN acc.rows[u] \subseteq DOMAIN next.rows[u]
                           /\ \A i \in DOMAIN acc.rows[u] : next.rows[u][i] = acc.rows[u][i]
    BY SMTT(30), <2>8, <2>11
  <2>13. \A u \in Table : \A i \in DOMAIN acc.rows[u] : RowPlanned(next.rows, u, i)
    <3> SUFFICES ASSUME NEW u \in Table, NEW i \in DOMAIN acc.rows[u]
                 PROVE  RowPlanned(next.rows, u, i)
      OBVIOUS
    <3>1. RowPlanned(acc.rows, u, i)
      BY <1>11
    <3>2. next.rows[u][i] = acc.rows[u][i]
      BY <2>12
    <3>3. ASSUME u # "user_groups", NEW ref \in next.rows[u][i].refs
          PROVE  /\ ref[1] \in Parents(u)
                 /\ \E j \in DOMAIN next.rows[ref[1]] :
                      next.rows[ref[1]][j].id = ref[2] /\ (ref[1] = u => j < i)
      <4>1. /\ ref[1] \in Parents(u)
            /\ \E j \in DOMAIN acc.rows[ref[1]] :
                 acc.rows[ref[1]][j].id = ref[2] /\ (ref[1] = u => j < i)
        BY <3>1, <3>2, <3>3 DEF RowPlanned
      <4>2. ref[1] \in Table
        BY <4>1, Referring
      <4> QED BY <2>12, <4>1, <4>2
    <3> QED BY <3>1, <3>2, <3>3 DEF RowPlanned
  <2>14. RowPlanned(next.rows, t, m + 1)
    <3>1. new.id = id /\ new.source = row.id /\ new.refs = MapRefs(t, row, acc.map)
      BY <2>1
    <3>2. ASSUME t # "user_groups", NEW ref \in new.refs
          PROVE  /\ ref[1] \in Parents(t)
                 /\ \E j \in DOMAIN next.rows[ref[1]] :
                      next.rows[ref[1]][j].id = ref[2] /\ (ref[1] = t => j < m + 1)
      <4>1. PICK x \in row.refs : /\ ref = <<x[1], acc.map[x[1]][x[2]]>>
                                  /\ x[2] \in DOMAIN acc.map[x[1]]
        BY <3>1, <3>2 DEF MapRefs
      <4>2. ref[1] = x[1] /\ ref[2] = acc.map[x[1]][x[2]] /\ x[1] \in Parents(t)
        BY <1>2, <4>1
      <4>3. x[1] \in Table
        BY <4>2, Referring
      <4>4. PICK j \in DOMAIN acc.rows[x[1]] : acc.rows[x[1]][j].id = acc.map[x[1]][x[2]]
        BY <1>10, <4>1, <4>3
      <4>5. j \in DOMAIN next.rows[x[1]] /\ next.rows[x[1]][j].id = ref[2]
        BY <2>12, <4>2, <4>3, <4>4
      <4>6. x[1] = t => j < m + 1
        BY <2>11, <4>4
      <4> QED BY <4>2, <4>5, <4>6
    <3> QED BY <1>2, <1>5, <2>11, <3>1, <3>2 DEF RowPlanned
  <2>15. /\ DOMAIN map = DOMAIN acc.map[t] \cup {row.id} /\ map[row.id] = id
         /\ row.id \notin DOMAIN acc.map[t]
         /\ \A src \in DOMAIN acc.map[t] : map[src] = acc.map[t][src]
    <3>1. row.id \notin DOMAIN acc.map[t]
      BY <1>2, <1>12
    <3> QED BY <2>2, <3>1
  <2>24. next.map[t] = map /\ new.id = id /\ new.source = row.id /\ next.rows[t][m + 1] = new
    BY <2>1, <2>8, <2>11
  <2>25. m + 1 \in DOMAIN next.rows[t]
    BY <2>11
  <2>16. \A u \in Table : \A i \in DOMAIN next.rows[u] :
           \/ /\ next.rows[u][i].source \in DOMAIN next.map[u]
              /\ next.map[u][next.rows[u][i].source] = next.rows[u][i].id
           \/ DOMAIN next.rows[u] = {i}
    <3> SUFFICES ASSUME NEW u \in Table, NEW i \in DOMAIN next.rows[u]
                 PROVE  \/ /\ next.rows[u][i].source \in DOMAIN next.map[u]
                           /\ next.map[u][next.rows[u][i].source] = next.rows[u][i].id
                        \/ DOMAIN next.rows[u] = {i}
      OBVIOUS
    <3>1. CASE u # t
      <4>1. next.rows[u] = acc.rows[u] /\ next.map[u] = acc.map[u]
        BY <2>8, <3>1
      <4>2. \/ /\ acc.rows[u][i].source \in DOMAIN acc.map[u]
               /\ acc.map[u][acc.rows[u][i].source] = acc.rows[u][i].id
            \/ DOMAIN acc.rows[u] = {i}
        BY <4>1 DEF Making, Parts
      <4> QED BY <4>1, <4>2
    <3>2. CASE u = t /\ i = m + 1
      <4>1. next.rows[u][i] = new /\ next.map[u] = map /\ new.id = id /\ new.source = row.id
        BY <2>24, <3>2
      <4>2. row.id \in DOMAIN map /\ map[row.id] = id
        BY <2>15
      <4> QED BY <4>1, <4>2
    <3>3. CASE u = t /\ i # m + 1
      <4>1. i \in DOMAIN acc.rows[t] /\ next.rows[t][i] = acc.rows[t][i]
        BY <2>11, <3>3
      <4>2. /\ acc.rows[t][i].source \in DOMAIN acc.map[t]
            /\ acc.map[t][acc.rows[t][i].source] = acc.rows[t][i].id
        BY <1>12, <4>1
      <4>3. /\ acc.rows[t][i].source \in DOMAIN map
            /\ map[acc.rows[t][i].source] = acc.map[t][acc.rows[t][i].source]
        BY <2>15, <4>2
      <4> QED BY <2>24, <3>3, <4>1, <4>2, <4>3
    <3> QED BY <3>1, <3>2, <3>3
  <2>17. \A u \in Table :
           /\ ids[u] \subseteq next.ids[u] /\ next.ids[u] \subseteq Nat
           /\ \E b \in Nat : \A x \in next.ids[u] : x <= b
           /\ IsSeq(next.rows[u])
    <3> SUFFICES ASSUME NEW u \in Table
                 PROVE  /\ ids[u] \subseteq next.ids[u] /\ next.ids[u] \subseteq Nat
                        /\ \E b \in Nat : \A x \in next.ids[u] : x <= b
                        /\ IsSeq(next.rows[u])
      OBVIOUS
    <3>1. /\ ids[u] \subseteq acc.ids[u] /\ acc.ids[u] \subseteq Nat
          /\ \E b \in Nat : \A x \in acc.ids[u] : x <= b
          /\ IsSeq(acc.rows[u])
      BY DEF Making, Parts
    <3>2. CASE u # t
      BY <2>8, <3>1, <3>2
    <3>3. CASE u = t
      BY <1>5, <2>8, <2>11, <3>1, <3>3
    <3> QED BY <3>2, <3>3
  <2>18. \A u \in Table : \A i \in DOMAIN next.rows[u] :
           RowPlanned(next.rows, u, i) /\ next.rows[u][i].id \notin ids[u]
    <3> SUFFICES ASSUME NEW u \in Table, NEW i \in DOMAIN next.rows[u]
                 PROVE  RowPlanned(next.rows, u, i) /\ next.rows[u][i].id \notin ids[u]
      OBVIOUS
    <3>1. CASE u = t /\ i = m + 1
      <4>1. next.rows[u][i].id = id
        BY <2>1, <2>11, <3>1
      <4>2. ids[t] \subseteq acc.ids[t]
        BY DEF Making, Parts
      <4> QED BY <1>5, <2>14, <3>1, <4>1, <4>2
    <3>2. CASE ~(u = t /\ i = m + 1)
      <4>1. i \in DOMAIN acc.rows[u] /\ next.rows[u][i] = acc.rows[u][i]
        BY SMTT(30), <2>8, <2>11, <3>2
      <4>2. acc.rows[u][i].id \notin ids[u]
        BY <1>11, <4>1
      <4> QED BY <2>13, <4>1, <4>2
    <3> QED BY <3>1, <3>2
  <2>19. \A u \in Table : \A src \in DOMAIN next.map[u] :
           \E i \in DOMAIN next.rows[u] : next.rows[u][i].id = next.map[u][src]
    <3> SUFFICES ASSUME NEW u \in Table, NEW src \in DOMAIN next.map[u]
                 PROVE  \E i \in DOMAIN next.rows[u] : next.rows[u][i].id = next.map[u][src]
      OBVIOUS
    <3>1. CASE u = t /\ src = row.id
      <4>1. map[row.id] = id
        BY <2>15
      <4> QED BY <2>24, <2>25, <3>1, <4>1
    <3>2. CASE ~(u = t /\ src = row.id)
      <4>1. src \in DOMAIN acc.map[u] /\ next.map[u][src] = acc.map[u][src]
        <5>1. CASE u # t
          BY <2>8, <5>1
        <5>2. CASE u = t
          BY <2>15, <2>24, <3>2, <5>2
        <5> QED BY <5>1, <5>2
      <4>2. PICK i \in DOMAIN acc.rows[u] : acc.rows[u][i].id = acc.map[u][src]
        BY <1>10, <4>1
      <4> QED BY <2>12, <4>1, <4>2
    <3> QED BY <3>1, <3>2
  <2>20. Making(next, ids)
    BY <2>5, <2>7, <2>16, <2>17, <2>18, <2>19, ZenonT(30) DEF Making, Parts
  <2>21. Upto(next, t, n + 1)
    <3>1. DOMAIN next.map[t] \subseteq {Source[t][k].id : k \in 1..(n + 1)}
      <4>1. DOMAIN next.map[t] = DOMAIN acc.map[t] \cup {Source[t][n + 1].id}
        BY <1>1, <2>15, <2>24
      <4>2. 1..n \subseteq 1..(n + 1) /\ n + 1 \in 1..(n + 1)
        OBVIOUS
      <4>3. ASSUME NEW src \in DOMAIN acc.map[t]
            PROVE  \E k \in 1..(n + 1) : src = Source[t][k].id
        <5>1. PICK k \in 1..n : src = Source[t][k].id
          BY <1>12, <4>3, Zenon
        <5> QED BY <4>2, <5>1
      <4> QED BY <4>1, <4>2, <4>3, Zenon
    <3>2. ASSUME NEW i \in DOMAIN next.rows[t]
          PROVE  /\ next.rows[t][i].source \in DOMAIN next.map[t]
                 /\ next.map[t][next.rows[t][i].source] = next.rows[t][i].id
      <4>1. CASE i = m + 1
        <5>1. row.id \in DOMAIN map /\ map[row.id] = id
          BY <2>15
        <5> QED BY <2>24, <4>1, <5>1
      <4>2. CASE i # m + 1
        <5>1. i \in DOMAIN acc.rows[t] /\ next.rows[t][i] = acc.rows[t][i]
          BY <2>11, <4>2
        <5>2. /\ acc.rows[t][i].source \in DOMAIN acc.map[t]
              /\ acc.map[t][acc.rows[t][i].source] = acc.rows[t][i].id
          BY <1>12, <5>1
        <5>3. /\ acc.rows[t][i].source \in DOMAIN map
              /\ map[acc.rows[t][i].source] = acc.map[t][acc.rows[t][i].source]
          BY <2>15, <5>2
        <5> QED BY <2>24, <5>1, <5>2, <5>3
      <4> QED BY <4>1, <4>2
    <3> QED BY <3>1, <3>2 DEF Upto
  <2>22. SameElsewhere(next, acc, t)
    BY <2>8 DEF SameElsewhere
  <2> QED BY <2>20, <2>21, <2>22
<1> QED BY <1>7, <1>8, <1>9

\* The default group is there alone.
LEMMA DefaultStep ==
  ASSUME NEW acc, NEW ids, Making(acc, ids), NEW next, next = AddDefaultGroup(acc)
  PROVE  Making(next, ids) /\ SameElsewhere(next, acc, "user_groups")
<1> DEFINE t == "user_groups"
<1>1. t \in Table
  BY Tables
<1>2. CASE acc.rows[t] # <<>>
  BY <1>2 DEF AddDefaultGroup, SameElsewhere
<1>3. CASE acc.rows[t] = <<>>
  <2>1. PICK id : id = take(0, acc.ids[t])
    OBVIOUS
  <2>2. /\ id \in Nat \ {0} /\ id \notin acc.ids[t]
        /\ \E c \in Nat : \A x \in acc.ids[t] \cup {id} : x <= c
    <3>1. acc.ids[t] \in SUBSET Nat
      BY <1>1 DEF Making, Parts
    <3>2. PICK b \in Nat : \A x \in acc.ids[t] : x <= b
      BY <1>1 DEF Making, Parts
    <3>3. 0 \in Nat
      OBVIOUS
    <3> QED BY <2>1, <3>1, <3>2, <3>3, Taken
  <2>3. PICK new : new = [source |-> 0, id |-> id, name |-> DefaultGroup, on |-> TRUE, refs |-> {}]
    OBVIOUS
  <2>4. next = [acc EXCEPT !.ids[t] = @ \cup {id}, !.rows[t] = <<new>>]
    BY <1>3, <2>1, <2>3, Zenon DEF AddDefaultGroup
  <2>5. next = [names |-> acc.names, ids |-> [acc.ids EXCEPT ![t] = @ \cup {id}],
                error |-> acc.error, map |-> acc.map, rows |-> [acc.rows EXCEPT ![t] = <<new>>]]
    BY <2>4 DEF Making
  <2>6. /\ next.ids = [acc.ids EXCEPT ![t] = @ \cup {id}]
        /\ next.map = acc.map /\ next.rows = [acc.rows EXCEPT ![t] = <<new>>]
        /\ next = [names |-> next.names, ids |-> next.ids, error |-> next.error,
                   map |-> next.map, rows |-> next.rows]
    BY <2>5
  <2>7. DOMAIN acc.ids = Table /\ DOMAIN acc.map = Table /\ DOMAIN acc.rows = Table
    BY DEF Making, Parts
  <2>8. /\ next.ids = [u \in Table |-> next.ids[u]] /\ next.map = [u \in Table |-> next.map[u]]
        /\ next.rows = [u \in Table |-> next.rows[u]]
        /\ next.ids[t] = acc.ids[t] \cup {id} /\ next.rows[t] = <<new>>
        /\ \A u \in Table \ {t} : next.ids[u] = acc.ids[u] /\ next.rows[u] = acc.rows[u]
    <3>1. acc.map = [u \in Table |-> acc.map[u]]
      BY DEF Making, Parts
    <3> QED BY <1>1, <2>6, <2>7, <3>1
  <2>9. IsSeq(next.rows[t]) /\ DOMAIN next.rows[t] = {1} /\ next.rows[t][1] = new
    <3>1. <<new>> \in Seq({new}) /\ DOMAIN <<new>> = {1} /\ <<new>>[1] = new
      OBVIOUS
    <3>2. Range(<<new>>) = {new}
      BY <3>1 DEF Range
    <3> QED BY <2>8, <3>1, <3>2 DEF IsSeq
  <2>10. DOMAIN acc.map[t] = {}
    <3>1. \A src \in DOMAIN acc.map[t] :
            \E i \in DOMAIN acc.rows[t] : acc.rows[t][i].id = acc.map[t][src]
      BY <1>1 DEF Making, Parts
    <3> QED BY <1>3, <3>1
  <2>11. \A u \in Table : /\ DOMAIN acc.rows[u] \subseteq DOMAIN next.rows[u]
                           /\ \A i \in DOMAIN acc.rows[u] : next.rows[u][i] = acc.rows[u][i]
    BY <1>3, <2>8
  <2>12. \A u \in Table : \A i \in DOMAIN next.rows[u] :
           RowPlanned(next.rows, u, i) /\ next.rows[u][i].id \notin ids[u]
    <3> SUFFICES ASSUME NEW u \in Table, NEW i \in DOMAIN next.rows[u]
                 PROVE  RowPlanned(next.rows, u, i) /\ next.rows[u][i].id \notin ids[u]
      OBVIOUS
    <3>1. CASE u = t
      <4>1. ids[t] \subseteq acc.ids[t]
        BY <1>1 DEF Making, Parts
      <4> QED BY <2>2, <2>3, <2>9, <3>1, <4>1 DEF RowPlanned
    <3>2. CASE u # t
      <4>1. /\ i \in DOMAIN acc.rows[u] /\ next.rows[u][i] = acc.rows[u][i]
        BY <2>8, <3>2
      <4>2. RowPlanned(acc.rows, u, i) /\ acc.rows[u][i].id \notin ids[u]
        BY <4>1 DEF Making, Parts
      <4>3. ASSUME NEW ref \in next.rows[u][i].refs
            PROVE  /\ ref[1] \in Parents(u)
                   /\ \E j \in DOMAIN next.rows[ref[1]] :
                        next.rows[ref[1]][j].id = ref[2] /\ (ref[1] = u => j < i)
        <5>1. /\ ref[1] \in Parents(u)
              /\ \E j \in DOMAIN acc.rows[ref[1]] :
                   acc.rows[ref[1]][j].id = ref[2] /\ (ref[1] = u => j < i)
          BY <3>2, <4>1, <4>2, <4>3 DEF RowPlanned
        <5>2. ref[1] \in Table
          BY <5>1, Referring
        <5> QED BY <2>11, <5>1, <5>2
      <4> QED BY <4>1, <4>2, <4>3 DEF RowPlanned
    <3> QED BY <3>1, <3>2
  <2>13. \A u \in Table :
           /\ ids[u] \subseteq next.ids[u] /\ next.ids[u] \subseteq Nat
           /\ \E b \in Nat : \A x \in next.ids[u] : x <= b
           /\ IsSeq(next.rows[u])
           /\ \A i \in DOMAIN next.rows[u] :
                \/ /\ next.rows[u][i].source \in DOMAIN next.map[u]
                   /\ next.map[u][next.rows[u][i].source] = next.rows[u][i].id
                \/ DOMAIN next.rows[u] = {i}
           /\ \A src \in DOMAIN next.map[u] :
                \E i \in DOMAIN next.rows[u] : next.rows[u][i].id = next.map[u][src]
    <3> SUFFICES ASSUME NEW u \in Table
                 PROVE  /\ ids[u] \subseteq next.ids[u] /\ next.ids[u] \subseteq Nat
                        /\ \E b \in Nat : \A x \in next.ids[u] : x <= b
                        /\ IsSeq(next.rows[u])
                        /\ \A i \in DOMAIN next.rows[u] :
                             \/ /\ next.rows[u][i].source \in DOMAIN next.map[u]
                                /\ next.map[u][next.rows[u][i].source] = next.rows[u][i].id
                             \/ DOMAIN next.rows[u] = {i}
                        /\ \A src \in DOMAIN next.map[u] :
                             \E i \in DOMAIN next.rows[u] : next.rows[u][i].id = next.map[u][src]
      OBVIOUS
    <3>1. CASE u = t
      <4>1. ids[t] \subseteq acc.ids[t] /\ acc.ids[t] \subseteq Nat
        BY <1>1 DEF Making, Parts
      <4> QED BY <2>2, <2>6, <2>8, <2>9, <2>10, <3>1, <4>1
    <3>2. CASE u # t
      <4>1. next.ids[u] = acc.ids[u] /\ next.rows[u] = acc.rows[u] /\ next.map[u] = acc.map[u]
        BY <2>6, <2>8, <3>2
      <4>2. /\ ids[u] \subseteq acc.ids[u] /\ acc.ids[u] \subseteq Nat
            /\ \E b \in Nat : \A x \in acc.ids[u] : x <= b
            /\ IsSeq(acc.rows[u])
            /\ \A src \in DOMAIN acc.map[u] :
                 \E i \in DOMAIN acc.rows[u] : acc.rows[u][i].id = acc.map[u][src]
        BY DEF Making, Parts
      <4>3. \A i \in DOMAIN acc.rows[u] :
              \/ /\ acc.rows[u][i].source \in DOMAIN acc.map[u]
                 /\ acc.map[u][acc.rows[u][i].source] = acc.rows[u][i].id
              \/ DOMAIN acc.rows[u] = {i}
        BY DEF Making, Parts
      <4> QED BY <4>1, <4>2, <4>3
    <3> QED BY <3>1, <3>2
  <2>14. Parts(next.ids, next.map, next.rows, ids)
    BY <2>8, <2>12, <2>13, Zenon DEF Parts
  <2> QED BY <2>6, <2>8, <2>14 DEF Making, SameElsewhere
<1> QED BY <1>2, <1>3

\* The rows of a table are planned one after the other.
RowsAfter(policy, t, acc, n) ==
  CHOOSE f : f = [i \in 0..n |-> IF i = 0 THEN acc ELSE PlanRow(policy, t, f[i - 1], Source[t][i])]

RowsTurn(policy, t, acc, n, f) ==
  f = [i \in 0..n |-> IF i = 0 THEN acc ELSE PlanRow(policy, t, f[i - 1], Source[t][i])]

\* The plans made row after row exist: there is no first row at which they would not.
LEMMA RowsInTurn ==
  ASSUME NEW policy, NEW t, NEW acc, NEW n \in Nat
  PROVE  \E f : RowsTurn(policy, t, acc, n, f)
<1> USE DEF RowsTurn
<1> DEFINE Rec(f, m) == f = [i \in 0..m |-> IF i = 0 THEN acc ELSE PlanRow(policy, t, f[i - 1], Source[t][i])]
           S == {m \in Nat : ~\E f : Rec(f, m)}
<1>1. CASE S = {}
  <2>1. n \notin S
    BY <1>1
  <2>2. \E f : Rec(f, n)
    BY <2>1
  <2> QED BY <2>2
<1>2. CASE S # {}
  <2>1. S \in SUBSET Nat
    OBVIOUS
  <2>2. PICK m \in S : \A y \in S : m <= y
    <3> HIDE DEF S
    <3> QED BY <1>2, <2>1, Least
  <2>3. m \in Nat /\ ~\E f : Rec(f, m)
    BY <2>2
  <2>4. CASE m = 0
    <3>1. PICK f : f = [i \in 0..0 |-> acc]
      OBVIOUS
    <3>2. Rec(f, 0)
      BY <3>1
    <3> QED BY <2>3, <2>4, <3>2
  <2>5. CASE m # 0
    <3>1. m - 1 \in Nat /\ ~(m <= m - 1)
      BY <2>3, <2>5
    <3>2. m - 1 \notin S
      <4> HIDE DEF S
      <4> QED BY <2>2, <3>1
    <3>3. PICK f : Rec(f, m - 1)
      BY <3>1, <3>2
    <3>4. PICK g : g = [i \in 0..m |-> IF i = m THEN PlanRow(policy, t, f[m - 1], Source[t][m]) ELSE f[i]]
      OBVIOUS
    <3>5. \A i \in 0..(m - 1) : g[i] = f[i]
      BY <2>3, <3>4
    <3>6. \A i \in 0..m : g[i] = IF i = 0 THEN acc ELSE PlanRow(policy, t, g[i - 1], Source[t][i])
      <4> SUFFICES ASSUME NEW i \in 0..m
                   PROVE  g[i] = IF i = 0 THEN acc ELSE PlanRow(policy, t, g[i - 1], Source[t][i])
        OBVIOUS
      <4>1. CASE i = m
        <5>1. m - 1 \in 0..(m - 1)
          BY <3>1
        <5> QED BY <2>5, <3>4, <3>5, <4>1, <5>1
      <4>2. CASE i = 0
        <5>1. 0 \in 0..(m - 1)
          BY <3>1
        <5>2. f[0] = acc
          BY <3>3, <5>1
        <5> QED BY <3>5, <4>2, <5>1, <5>2
      <4>3. CASE i # m /\ i # 0
        <5>1. i \in 0..(m - 1) /\ i - 1 \in 0..(m - 1)
          BY <2>3, <4>3
        <5>2. f[i] = PlanRow(policy, t, f[i - 1], Source[t][i])
          BY <3>3, <4>3, <5>1
        <5> QED BY <3>5, <4>3, <5>1, <5>2
      <4> QED BY <4>1, <4>2, <4>3
    <3>7. Rec(g, m)
      BY <3>4, <3>6
    <3> QED BY <2>3, <3>7
  <2> QED BY <2>4, <2>5
<1> QED BY <1>1, <1>2

\* The recursive function of the rows of a table is these plans.
LEMMA RowsFollow ==
  ASSUME NEW policy, NEW t, NEW acc, NEW n \in Nat,
         NEW f, f = RowsAfter(policy, t, acc, n)
  PROVE  f = [i \in 0..n |-> IF i = 0 THEN acc ELSE PlanRow(policy, t, f[i - 1], Source[t][i])]
<1>1. \E g : g = [i \in 0..n |-> IF i = 0 THEN acc ELSE PlanRow(policy, t, g[i - 1], Source[t][i])]
  <2>1. PICK g : RowsTurn(policy, t, acc, n, g)
    BY RowsInTurn
  <2> QED BY <2>1, Zenon DEF RowsTurn
<1> QED BY <1>1, Zenon DEF RowsAfter

\* A table that is planned leaves a plan in the making, and the other tables alone.
LEMMA TableStep ==
  ASSUME NEW acc, NEW ids, NEW t \in Table, Making(acc, ids), DOMAIN acc.map[t] = {},
         DOMAIN acc.rows[t] = {}, NEW policy, NEW next, next = PlanTable(policy, acc, t)
  PROVE  Making(next, ids) /\ SameElsewhere(next, acc, t)
<1> DEFINE n == Len(Source[t])
           f == RowsAfter(policy, t, acc, n)
<1>1. n \in Nat /\ DOMAIN Source[t] = 1..n
  <2>1. Source[t] \in Seq(Range(Source[t]))
    BY SourceAssumption
  <2> QED BY <2>1
<1>2. f = [i \in 0..n |-> IF i = 0 THEN acc ELSE PlanRow(policy, t, f[i - 1], Source[t][i])]
  BY SMTT(30), <1>1, RowsFollow
<1>3. next = IF t = "user_groups" /\ ~f[n].error THEN AddDefaultGroup(f[n]) ELSE f[n]
  BY Zenon DEF PlanTable, RowsAfter
<1> HIDE DEF f, n
<1> DEFINE Good(i) == Making(f[i], ids) /\ Upto(f[i], t, i) /\ SameElsewhere(f[i], acc, t)
           Bad == {i \in 0..n : ~Good(i)}
<1>4. Bad = {}
  <2> SUFFICES ASSUME Bad # {} PROVE FALSE
    OBVIOUS
  <2>1. Bad \in SUBSET Nat
    OBVIOUS
  <2>2. PICK m \in Bad : \A y \in Bad : m <= y
    <3> HIDE DEF Bad
    <3> QED BY <2>1, Least
  <2>3. m \in 0..n /\ ~Good(m)
    BY <2>2
  <2>4. CASE m = 0
    <3>1. f[0] = acc
      BY <1>1, <1>2
    <3>2. Upto(acc, t, 0) /\ SameElsewhere(acc, acc, t)
      BY DEF Upto, SameElsewhere
    <3> QED BY <2>3, <2>4, <3>1, <3>2
  <2>5. CASE m # 0
    <3>1. m - 1 \in 0..n /\ ~(m <= m - 1) /\ m - 1 \in Nat /\ (m - 1) + 1 = m /\ m \in DOMAIN Source[t]
      BY <1>1, <2>3, <2>5
    <3>2. m - 1 \notin Bad
      <4> HIDE DEF Bad
      <4> QED BY <2>2, <3>1
    <3>3. Good(m - 1)
      BY <3>1, <3>2
    <3>4. f[m] = PlanRow(policy, t, f[m - 1], Source[t][m])
      BY <1>2, <2>3, <2>5
    <3>5. /\ Making(f[m], ids) /\ Upto(f[m], t, m) /\ SameElsewhere(f[m], f[m - 1], t)
      <4>1. PICK k \in Nat : k = m - 1
        BY <3>1
      <4>2. Making(f[k], ids) /\ Upto(f[k], t, k) /\ k + 1 \in DOMAIN Source[t] /\ k + 1 = m
        BY <3>1, <3>3, <4>1
      <4>3. f[m] = PlanRow(policy, t, f[k], Source[t][k + 1])
        BY <3>4, <4>1, <4>2
      <4>4. Making(f[m], ids) /\ Upto(f[m], t, k + 1) /\ SameElsewhere(f[m], f[k], t)
        BY <4>2, <4>3, RowStep
      <4> QED BY <4>1, <4>2, <4>4
    <3>6. SameElsewhere(f[m], acc, t)
      BY <3>3, <3>5 DEF SameElsewhere
    <3> QED BY <2>3, <3>5, <3>6
  <2> QED BY <2>4, <2>5
<1>5. Good(n)
  <2>1. n \in 0..n /\ n \notin Bad
    BY <1>1, <1>4
  <2> QED BY <2>1
<1>6. CASE t = "user_groups" /\ ~f[n].error
  <2>1. Making(next, ids) /\ SameElsewhere(next, f[n], t)
    BY <1>3, <1>5, <1>6, DefaultStep
  <2> QED BY <1>5, <2>1 DEF SameElsewhere
<1>7. CASE ~(t = "user_groups" /\ ~f[n].error)
  BY <1>3, <1>5, <1>7
<1> QED BY <1>6, <1>7

\* The tables are planned one after the other.
Empty(names, ids) ==
  [names |-> names, ids |-> ids, error |-> FALSE,
   map |-> [t \in Table |-> <<>>], rows |-> [t \in Table |-> <<>>]]
TablesAfter(policy, names, ids, n) ==
  CHOOSE f : f = [k \in 0..n |-> IF k = 0 THEN Empty(names, ids) ELSE PlanTable(policy, f[k - 1], Order[k])]

TablesTurn(policy, acc, n, f) ==
  f = [i \in 0..n |-> IF i = 0 THEN acc ELSE PlanTable(policy, f[i - 1], Order[i])]

\* The plans made table after table exist.
LEMMA TablesInTurn ==
  ASSUME NEW policy, NEW acc, NEW n \in Nat
  PROVE  \E f : TablesTurn(policy, acc, n, f)
<1> USE DEF TablesTurn
<1> DEFINE Rec(f, m) == f = [i \in 0..m |-> IF i = 0 THEN acc ELSE PlanTable(policy, f[i - 1], Order[i])]
           S == {m \in Nat : ~\E f : Rec(f, m)}
<1>1. CASE S = {}
  <2>1. n \notin S
    BY <1>1
  <2>2. \E f : Rec(f, n)
    BY <2>1
  <2> QED BY <2>2
<1>2. CASE S # {}
  <2>1. S \in SUBSET Nat
    OBVIOUS
  <2>2. PICK m \in S : \A y \in S : m <= y
    <3> HIDE DEF S
    <3> QED BY <1>2, <2>1, Least
  <2>3. m \in Nat /\ ~\E f : Rec(f, m)
    BY <2>2
  <2>4. CASE m = 0
    <3>1. PICK f : f = [i \in 0..0 |-> acc]
      OBVIOUS
    <3>2. Rec(f, 0)
      BY <3>1
    <3> QED BY <2>3, <2>4, <3>2
  <2>5. CASE m # 0
    <3>1. m - 1 \in Nat /\ ~(m <= m - 1)
      BY <2>3, <2>5
    <3>2. m - 1 \notin S
      <4> HIDE DEF S
      <4> QED BY <2>2, <3>1
    <3>3. PICK f : Rec(f, m - 1)
      BY <3>1, <3>2
    <3>4. PICK g : g = [i \in 0..m |-> IF i = m THEN PlanTable(policy, f[m - 1], Order[m]) ELSE f[i]]
      OBVIOUS
    <3>5. \A i \in 0..(m - 1) : g[i] = f[i]
      BY <2>3, <3>4
    <3>6. \A i \in 0..m : g[i] = IF i = 0 THEN acc ELSE PlanTable(policy, g[i - 1], Order[i])
      <4> SUFFICES ASSUME NEW i \in 0..m
                   PROVE  g[i] = IF i = 0 THEN acc ELSE PlanTable(policy, g[i - 1], Order[i])
        OBVIOUS
      <4>1. CASE i = m
        <5>1. m - 1 \in 0..(m - 1)
          BY <3>1
        <5> QED BY <2>5, <3>4, <3>5, <4>1, <5>1
      <4>2. CASE i = 0
        <5>1. 0 \in 0..(m - 1)
          BY <3>1
        <5>2. f[0] = acc
          BY <3>3, <5>1
        <5> QED BY <3>5, <4>2, <5>1, <5>2
      <4>3. CASE i # m /\ i # 0
        <5>1. i \in 0..(m - 1) /\ i - 1 \in 0..(m - 1)
          BY <2>3, <4>3
        <5>2. f[i] = PlanTable(policy, f[i - 1], Order[i])
          BY <3>3, <4>3, <5>1
        <5> QED BY <3>5, <4>3, <5>1, <5>2
      <4> QED BY <4>1, <4>2, <4>3
    <3>7. Rec(g, m)
      BY <3>4, <3>6
    <3> QED BY <2>3, <3>7
  <2> QED BY <2>4, <2>5
<1> QED BY <1>1, <1>2

\* The recursive function of the tables is these plans.
LEMMA TablesFollow ==
  ASSUME NEW policy, NEW names, NEW ids, NEW n \in Nat,
         NEW f, f = TablesAfter(policy, names, ids, n)
  PROVE  TablesTurn(policy, Empty(names, ids), n, f)
<1>1. PICK g : TablesTurn(policy, Empty(names, ids), n, g)
  BY TablesInTurn
<1> QED BY <1>1, Zenon DEF TablesAfter, TablesTurn

\* The tables from the k-th on have not been planned.
Blank(acc, k) ==
  \A j \in 1..7 : j > k => DOMAIN acc.map[Order[j]] = {} /\ DOMAIN acc.rows[Order[j]] = {}

\* A plan without rows, where none is to be found.
LEMMA EmptyMade ==
  ASSUME NEW names, NEW ids, ids = [t \in Table |-> ids[t]],
         \A t \in Table : ids[t] \subseteq Nat /\ \E b \in Nat : \A x \in ids[t] : x <= b
  PROVE  Making(Empty(names, ids), ids) /\ Blank(Empty(names, ids), 0)
<1>1. \A t \in Table : <<>> \in Seq(Range(<<>>)) /\ DOMAIN <<>> = {}
  OBVIOUS
<1>2. Making(Empty(names, ids), ids)
  BY <1>1 DEF Empty, Making, Parts, IsSeq
<1>3. Blank(Empty(names, ids), 0)
  BY Tables DEF Empty, Blank
<1> QED BY <1>2, <1>3

\* Planning the m-th table leaves the later ones unplanned.
LEMMA TablePlanned ==
  ASSUME NEW policy, NEW acc, NEW ids, NEW m \in 1..7, Making(acc, ids), Blank(acc, m - 1),
         NEW next, next = PlanTable(policy, acc, Order[m])
  PROVE  Making(next, ids) /\ Blank(next, m)
<1>1. Order[m] \in Table /\ DOMAIN acc.map[Order[m]] = {} /\ DOMAIN acc.rows[Order[m]] = {}
  BY Tables DEF Blank
<1>2. Making(next, ids) /\ SameElsewhere(next, acc, Order[m])
  BY <1>1, TableStep
<1>3. ASSUME NEW j \in 1..7, j > m
      PROVE  DOMAIN next.map[Order[j]] = {} /\ DOMAIN next.rows[Order[j]] = {}
  <2>1. Order[j] \in Table /\ Order[j] # Order[m] /\ j > m - 1
    BY <1>3, Tables
  <2>2. DOMAIN acc.map[Order[j]] = {} /\ DOMAIN acc.rows[Order[j]] = {}
    BY <2>1 DEF Blank
  <2> QED BY <1>2, <2>1, <2>2 DEF SameElsewhere
<1> QED BY <1>2, <1>3 DEF Blank

\* What the migration plans can be written: references point to rows of the plan that
\* are written earlier, and no identifier of the plan is taken in the target.
LEMMA PlanFine ==
  ASSUME NEW policy, NEW names, NEW ids, DOMAIN ids = Table,
         ids = [t \in Table |-> ids[t]],
         \A t \in Table : ids[t] \subseteq Nat /\ \E b \in Nat : \A x \in ids[t] : x <= b,
         NEW plan, plan = buildNyanpassPlan(policy, names, ids)
  PROVE  /\ PlanRows(plan.rows)
         /\ \A t \in Table : \A i \in DOMAIN plan.rows[t] : plan.rows[t][i].id \notin ids[t]
<1> DEFINE f == TablesAfter(policy, names, ids, Len(Order))
<1>1. f = [k \in 0..7 |-> IF k = 0 THEN Empty(names, ids) ELSE PlanTable(policy, f[k - 1], Order[k])]
  <2>1. Len(Order) = 7 /\ Len(Order) \in Nat
    BY Tables
  <2>2. f = [k \in 0..Len(Order) |->
               IF k = 0 THEN Empty(names, ids) ELSE PlanTable(policy, f[k - 1], Order[k])]
    <3>1. PICK g : g = f
      OBVIOUS
    <3>2. g = TablesAfter(policy, names, ids, Len(Order))
      BY <3>1
    <3>3. g = [k \in 0..Len(Order) |->
                 IF k = 0 THEN Empty(names, ids) ELSE PlanTable(policy, g[k - 1], Order[k])]
      <4>1. TablesTurn(policy, Empty(names, ids), Len(Order), g)
        BY <2>1, <3>2, TablesFollow
      <4> QED BY <4>1, Zenon DEF TablesTurn
    <3> QED BY <3>1, <3>3
  <2> HIDE DEF f
  <2> QED BY <2>1, <2>2
<1>2. plan = f[7]
  <2>1. plan = f[Len(Order)]
    BY Zenon DEF buildNyanpassPlan, TablesAfter, Empty
  <2> QED BY <2>1, Tables
<1> HIDE DEF f
<1> DEFINE Good(k) == Making(f[k], ids) /\ Blank(f[k], k)
           Bad == {k \in 0..7 : ~Good(k)}
<1>5. f[0] = Empty(names, ids)
  <2>1. 0 \in 0..7
    OBVIOUS
  <2> QED BY <1>1, <2>1, Zenon
<1>6. Good(0)
  <2>1. Making(Empty(names, ids), ids) /\ Blank(Empty(names, ids), 0)
    BY EmptyMade
  <2> QED BY <1>5, <2>1, Zenon
<1>7. ASSUME NEW m \in 1..7, Good(m - 1) PROVE Good(m)
  <2>1. m \in 0..7 /\ m # 0
    OBVIOUS
  <2>2. f[m] = PlanTable(policy, f[m - 1], Order[m])
    BY <1>1, <2>1, Zenon
  <2> QED BY <1>7, <2>2, TablePlanned
<1>3. Bad = {}
  <2> SUFFICES ASSUME Bad # {} PROVE FALSE
    OBVIOUS
  <2> HIDE DEF Good
  <2>1. Bad \in SUBSET Nat
    OBVIOUS
  <2>2. PICK m \in Bad : \A y \in Bad : m <= y
    <3> HIDE DEF Bad
    <3> QED BY <2>1, Least
  <2>3. m \in 0..7 /\ ~Good(m)
    BY <2>2
  <2>4. m # 0
    BY <1>6, <2>3
  <2> HIDE DEF Bad
  <2>5. m \in 1..7 /\ m - 1 \in 0..7 /\ ~(m <= m - 1)
    BY <2>3, <2>4
  <2>6. m - 1 \notin Bad
    BY <2>2, <2>5
  <2>7. Good(m - 1)
    <3> USE DEF Bad
    <3> QED BY <2>5, <2>6, Zenon
  <2> QED BY <1>7, <2>3, <2>5, <2>7
<1>4. Good(7)
  <2>1. 7 \in 0..7
    OBVIOUS
  <2> QED BY <1>3, <2>1, Zenon
<1> QED BY <1>2, <1>4, MakingPlan

---------------------------------------------------------------------------
\* The invariant

Planning == {"recover", "open"}
Writing == {"write", "traffic", "verify"}
Undoing == {"undo", "clear"}
HasPlan(r) == runner[r].pc \in Planning \cup Writing
MappedIn(b, t, id) == \E m \in idmap : m.batch = b /\ m.table = t /\ m.id = id
\* A batch whose rows refer to each other only: it was never continued, or it
\* was continued once and passed.
Sound(b) == b \notin resumed \/ (b \notin again /\ PassedBatch(b))
PlannedId(r, t, id) == \E j \in DOMAIN runner[r].plan.rows[t] : runner[r].plan.rows[t][j].id = id
\* A row of the plan that the loop over tables and chunks has been past.
Behind(r, t, i) ==
  \E k \in 1..runner[r].at : Order[k] = t /\ (k = runner[r].at => i < runner[r].start)

\* What a runner may be, and the batches that were opened.
RunnerIs(s, opened) ==
  \/ s = Unoccupied
  \/ s.pc = "plan" /\ s = [pc |-> "plan", policy |-> s.policy, names |-> s.names]
  \/ s.pc = "recover" /\ s = [pc |-> "recover", plan |-> s.plan] /\ PlanRows(s.plan.rows)
  \/ /\ s.pc = "open" /\ s = [pc |-> "open", plan |-> s.plan, batch |-> s.batch]
     /\ PlanRows(s.plan.rows) /\ s.batch \in {0} \cup opened
  \/ /\ s.pc \in Writing
     /\ s = [pc |-> s.pc, plan |-> s.plan, batch |-> s.batch, at |-> s.at, start |-> s.start,
             done |-> s.done]
     /\ PlanRows(s.plan.rows) /\ s.batch \in opened /\ s.at \in 1..7
     /\ s.start \in 1..(Len(s.plan.rows[Order[s.at]]) + 1)
  \/ /\ s.pc \in Undoing /\ s = [pc |-> s.pc, batch |-> s.batch, at |-> s.at]
     /\ s.batch \in opened /\ s.at \in 1..6

\* Identifiers were all given out by their table's sequence.
TargetShape(tables, last) ==
  /\ tables = [t \in Table |-> tables[t]] /\ last \in [Table -> Nat]
  /\ \A t \in Table : \A row \in tables[t] : row.id \in 1..last[t]
MapShape(map, opened, last) ==
  /\ map \subseteq [batch : opened, table : Table, source : Nat, id : Nat]
  /\ \A m \in map : m.id \in 1..last[m.table]
BatchShape(opened) ==
  opened \in Seq([status : {"running", "failed", "finished", "rolled_back"}, passed : BOOLEAN])
RunnersShape(all, opened) ==
  all = [r \in Runners |-> all[r]] /\ \A r \in Runners : RunnerIs(all[r], opened)
Shape ==
  /\ TargetShape(target, sequence) /\ BatchShape(batches)
  /\ MapShape(idmap, DOMAIN batches, sequence)
  /\ again \subseteq resumed /\ resumed \subseteq DOMAIN batches /\ clash \in BOOLEAN
  /\ RunnersShape(runner, DOMAIN batches)

OneAtWork == \A r, q \in Runners : AtWork(r) /\ AtWork(q) => r = q
\* The panel's own rows are there and no batch has them.
NativeKept == \A t \in Table, id \in Nat : <<t, id>> \in native => id \in Ids(t) /\ ~Mapped(t, id)
\* Every other row is one of a batch, except for rule groups, which refer to
\* nothing.
Accounted ==
  \A t \in Table \ {"rule_groups"} : \A row \in target[t] :
    <<t, row.id>> \in native \/ Mapped(t, row.id)
RuleGroupsAlone ==
  \A row \in target["rule_groups"] : <<"rule_groups", row.id>> \in native \/ row.refs = {}
OneBatch == \A m, n \in idmap : m.table = n.table /\ m.id = n.id => m.batch = n.batch
Once ==
  \A m, n \in idmap :
    m.batch = n.batch /\ m.table = n.table /\ m.source = n.source => m.id = n.id
\* A row of a sound batch refers to rows of that batch, and they are there.
References ==
  \A m \in idmap : \A row \in target[m.table] :
    row.id = m.id /\ m.table # "user_groups" => \A ref \in row.refs :
      /\ ref[1] \in Parents(m.table)
      /\ Sound(m.batch) => MappedIn(m.batch, ref[1], ref[2]) /\ ref[2] \in Ids(ref[1])
Data == NativeKept /\ Accounted /\ RuleGroupsAlone /\ OneBatch /\ Once /\ References

\* What is mapped is there, and the identifiers of a plan are free until its
\* run writes them.
AllThere == \A m \in idmap : m.id \in Ids(m.table)
PlanFree(r) ==
  /\ AllThere
  /\ \A t \in Table : \A i \in DOMAIN runner[r].plan.rows[t] :
       /\ <<t, runner[r].plan.rows[t][i].id>> \notin native
       /\ runner[r].plan.rows[t][i].id \in Ids(t) =>
            runner[r].pc \in Writing /\ MappedIn(runner[r].batch, t, runner[r].plan.rows[t][i].id)
\* What a row of the batch at work refers to is in the batch, or planned.
Foreseen(r) ==
  runner[r].batch \notin again =>
    \A m \in idmap : \A row \in target[m.table] :
      m.batch = runner[r].batch /\ row.id = m.id /\ m.table # "user_groups" => \A ref \in row.refs :
        MappedIn(m.batch, ref[1], ref[2]) \/ PlannedId(r, ref[1], ref[2])
Continued(r) ==
  runner[r].batch # 0 =>
    /\ batches[runner[r].batch].status = "running" /\ runner[r].batch \in resumed
    /\ Foreseen(r)
\* What the batch has of a source row was there when it was opened or is what
\* the plan says; a batch that is not continued started from nothing; the rows
\* behind are written.
Sourced(r) ==
  \A m \in idmap : m.batch = runner[r].batch =>
    \/ <<m.table, m.source>> \in runner[r].done
    \/ \E i \in DOMAIN runner[r].plan.rows[m.table] :
         /\ runner[r].plan.rows[m.table][i].source = m.source
         /\ runner[r].plan.rows[m.table][i].id = m.id
Passed(r) ==
  \A t \in Table : \A i \in DOMAIN runner[r].plan.rows[t] :
    Behind(r, t, i) =>
      \/ <<t, runner[r].plan.rows[t][i].source>> \in runner[r].done
      \/ MappedIn(runner[r].batch, t, runner[r].plan.rows[t][i].id)
InBatch(r) ==
  /\ batches[runner[r].batch].status = "running"
  /\ runner[r].batch \notin resumed => runner[r].done = {}
  /\ Sourced(r)
  /\ runner[r].pc = "write" => Passed(r)
  /\ Foreseen(r)
\* Tables the rollback has been through hold no row of its batch.
Undone(r) ==
  \A m \in idmap : \A j \in 1..6 :
    /\ m.batch = runner[r].batch /\ m.table = UndoOrder[j]
    /\ runner[r].pc = "clear" \/ j < runner[r].at
    => m.id \notin Ids(m.table)
RunnerInv(r) ==
  /\ HasPlan(r) => PlanFree(r)
  /\ runner[r].pc = "open" => Continued(r)
  /\ runner[r].pc \in Writing => InBatch(r)
  /\ runner[r].pc \in Undoing => Undone(r)
Kept == OneAtWork /\ Data /\ \A r \in Runners : RunnerInv(r)
MigrationInv == Shape /\ (~clash => Kept)

---------------------------------------------------------------------------
\* The beginning

\* The sequence of a table is at or above what the table held at the start.
LEMMA FirstSequence ==
  ASSUME NEW t \in Table
  PROVE  /\ Max({row.id : row \in Existing[t]} \cup {0}) \in Nat
         /\ \A row \in Existing[t] : row.id \in 1..Max({row2.id : row2 \in Existing[t]} \cup {0})
<1>1. PICK E : E = {row.id : row \in Existing[t]}
  OBVIOUS
<1>2. E \in SUBSET Nat /\ \A row \in Existing[t] : row.id \in Nat \ {0} /\ row.id \in E
  BY <1>1, ExistingAssumption
<1>3. IsFiniteSet(E)
  <2>1. IsFiniteSet(Existing[t])
    BY ExistingAssumption
  <2>2. PICK f : f = [row \in Existing[t] |-> row.id]
    OBVIOUS
  <2>3. f \in Surjection(Existing[t], E)
    BY <1>1, <2>2 DEF Surjection
  <2> QED BY <2>1, <2>3, FS_Surjection
<1>4. PICK b \in Nat : \A x \in E : x <= b
  BY <1>2, <1>3, FiniteBounded
<1>5. PICK S : S = E \cup {0}
  OBVIOUS
<1>6. Max(S) \in S /\ \A x \in S : x <= Max(S)
  <2>1. S \in SUBSET Nat /\ S # {} /\ \A x \in S : x <= b
    BY <1>2, <1>4, <1>5
  <2> QED BY <2>1, MaxOf
<1>7. PICK m : m = Max(S)
  OBVIOUS
<1>8. m \in Nat /\ \A row \in Existing[t] : row.id \in 1..m
  <2>1. m \in S /\ \A x \in S : x <= m
    BY <1>6, <1>7
  <2>2. m \in Nat
    BY <1>2, <1>5, <2>1
  <2>3. ASSUME NEW row \in Existing[t] PROVE row.id \in 1..m
    <3>1. row.id \in Nat \ {0} /\ row.id \in S
      BY <1>2, <1>5
    <3> QED BY <2>1, <2>2, <3>1
  <2> QED BY <2>2, <2>3
<1>9. m = Max({row.id : row \in Existing[t]} \cup {0})
  BY <1>1, <1>5, <1>7
<1> QED BY <1>8, <1>9

\* The invariant holds at the start.
LEMMA MigrationInit ==
  ASSUME InitMigration PROVE MigrationInv
<1>1. TargetShape(target, sequence)
  <2>1. \A t \in Table : sequence[t] = Max({row.id : row \in Existing[t]} \cup {0})
    BY DEF InitMigration
  <2>2. \A t \in Table : sequence[t] \in Nat /\ \A row \in Existing[t] : row.id \in 1..sequence[t]
    BY <2>1, FirstSequence
  <2>3. sequence = [t \in Table |-> sequence[t]]
    BY DEF InitMigration
  <2>4. target = Existing
    BY DEF InitMigration
  <2>5. target = [t \in Table |-> target[t]]
    BY <2>4, ExistingAssumption
  <2> QED BY <2>2, <2>3, <2>4, <2>5 DEF TargetShape
<1>2. Shape
  <2>1. runner = [r \in Runners |-> runner[r]] /\ \A r \in Runners : runner[r] = Unoccupied
    BY DEF InitMigration
  <2>2. RunnersShape(runner, DOMAIN batches)
    BY <2>1, Zenon DEF RunnersShape, RunnerIs
  <2>3. BatchShape(batches) /\ MapShape(idmap, DOMAIN batches, sequence)
    BY DEF InitMigration, BatchShape, MapShape
  <2> QED BY <1>1, <2>2, <2>3 DEF InitMigration, Shape
<1>3. Kept
  <2>1. \A r \in Runners : runner[r].pc = "idle"
    BY DEF InitMigration, Unoccupied
  <2>2. OneAtWork /\ \A r \in Runners : RunnerInv(r)
    BY <2>1 DEF OneAtWork, AtWork, RunnerInv, HasPlan, Planning, Writing, Undoing
  <2>3. Accounted /\ RuleGroupsAlone
    <3>1. ASSUME NEW t \in Table, NEW row \in target[t] PROVE <<t, row.id>> \in native
      BY DEF InitMigration
    <3> QED BY <3>1, Tables DEF Accounted, RuleGroupsAlone
  <2>4. NativeKept
    BY DEF InitMigration, NativeKept, Ids, Mapped
  <2>5. OneBatch /\ Once /\ References
    BY DEF InitMigration, OneBatch, Once, References
  <2> QED BY <2>2, <2>3, <2>4, <2>5 DEF Kept, Data
<1> QED BY <1>2, <1>3 DEF MigrationInv

---------------------------------------------------------------------------
\* What the steps have in common

\* A runner goes on to a state it may be in, and the tables stay.
LEMMA Becomes ==
  ASSUME Shape, NEW r \in Runners, NEW s, Become(r, s), RunnerIs(s, DOMAIN batches),
         UNCHANGED <<target, sequence, idmap, batches>>,
         again' \subseteq resumed', resumed' \subseteq DOMAIN batches, clash' \in BOOLEAN
  PROVE  Shape' /\ runner'[r] = s
<1>1. runner' = [runner EXCEPT ![r] = s] /\ runner = [q \in Runners |-> runner[q]]
  BY DEF Become, Shape, RunnersShape
<1>2. /\ runner' = [q \in Runners |-> runner'[q]]
      /\ \A q \in Runners : runner'[q] = IF q = r THEN s ELSE runner[q]
  BY <1>1
<1>3. RunnersShape(runner', DOMAIN batches)
  <2>1. \A q \in Runners : RunnerIs(runner[q], DOMAIN batches)
    BY DEF Shape, RunnersShape
  <2>2. \A q \in Runners : RunnerIs(runner'[q], DOMAIN batches)
    BY <1>2, <2>1
  <2> QED BY <1>2, <2>2 DEF RunnersShape
<1>4. /\ TargetShape(target, sequence) /\ BatchShape(batches)
      /\ MapShape(idmap, DOMAIN batches, sequence)
  BY DEF Shape
<1> QED BY <1>2, <1>3, <1>4 DEF Shape

\* The tables and the histories stay.
LEMMA DataStays ==
  ASSUME Data, UNCHANGED <<target, idmap, native>>,
         \A m \in idmap : Sound(m.batch)' => Sound(m.batch)
  PROVE  Data'
<1>1. \A t : Ids(t)' = Ids(t)
  BY DEF Ids
<1>2. \A t, id : Mapped(t, id)' = Mapped(t, id)
  BY DEF Mapped
<1>3. \A b, t, id : MappedIn(b, t, id)' = MappedIn(b, t, id)
  BY DEF MappedIn
<1>4. NativeKept' /\ Accounted' /\ RuleGroupsAlone' /\ OneBatch' /\ Once'
  <2>1. NativeKept'
    BY <1>1, <1>2 DEF Data, NativeKept
  <2>2. Accounted'
    BY <1>2 DEF Data, Accounted
  <2> QED BY <2>1, <2>2 DEF Data, RuleGroupsAlone, OneBatch, Once
<1>5. References'
  BY <1>1, <1>3 DEF Data, References
<1> QED BY <1>4, <1>5 DEF Data

\* One runner takes a turn while the others rest: what has to be shown is what
\* holds of that runner.
LEMMA Turn ==
  ASSUME Shape, NEW r \in Runners, NEW s, Become(r, s), \A q \in Runners \ {r} : ~AtWork(q),
         RunnerInv(r)', Data'
  PROVE  Kept'
<1>1. runner' = [runner EXCEPT ![r] = s] /\ runner = [q \in Runners |-> runner[q]]
  BY DEF Become, Shape, RunnersShape
<1>2. \A q \in Runners \ {r} : runner'[q].pc = "idle"
  BY <1>1 DEF AtWork
<1>3. OneAtWork'
  BY <1>2 DEF OneAtWork, AtWork
<1>4. \A q \in Runners \ {r} : RunnerInv(q)'
  BY <1>2 DEF RunnerInv, HasPlan, Planning, Writing, Undoing
<1> QED BY <1>3, <1>4 DEF Kept

\* While a runner is at work the others rest.
LEMMA OthersRest ==
  ASSUME Kept, NEW r \in Runners, AtWork(r)
  PROVE  \A q \in Runners \ {r} : ~AtWork(q)
BY DEF Kept, OneAtWork

\* A runner that rests has nothing to keep.
LEMMA Resting ==
  ASSUME NEW r, runner'[r] = Unoccupied
  PROVE  RunnerInv(r)'
BY DEF RunnerInv, HasPlan, Planning, Writing, Undoing, Unoccupied

---------------------------------------------------------------------------
\* Steps that do not write a row

\* A run begins.
LEMMA InvConnect ==
  ASSUME MigrationInv, NEW r \in Runners, NEW p, StageConnect(r, p)
  PROVE  MigrationInv'
<1> DEFINE s == [pc |-> "plan", policy |-> p,
                 names |-> [n \in Namespaces |->
                   UNION {NamesIn(t) : t \in {x \in Table : Namespace(x) = n}}]]
<1>1. Become(r, s) /\ UNCHANGED <<target, sequence, idmap, batches, native, resumed, again>>
  BY DEF StageConnect, db
<1>2. clash' = (clash \/ ~Alone(r))
  BY DEF StageConnect
<1>3. s.pc = "plan" /\ s = [pc |-> "plan", policy |-> s.policy, names |-> s.names]
  OBVIOUS
<1> HIDE DEF s
<1>4. Shape' /\ runner'[r] = s
  <2>1. RunnerIs(s, DOMAIN batches)
    BY <1>3, Zenon DEF RunnerIs
  <2>2. /\ Shape /\ again' \subseteq resumed' /\ resumed' \subseteq DOMAIN batches
        /\ clash' \in BOOLEAN
    BY <1>1, <1>2 DEF MigrationInv, Shape
  <2> QED BY <1>1, <2>1, <2>2, Becomes
<1>5. ASSUME ~clash' PROVE Kept'
  <2>1. Kept /\ \A q \in Runners \ {r} : ~AtWork(q)
    BY <1>2, <1>5 DEF MigrationInv, Alone
  <2>2. RunnerInv(r)'
    BY <1>3, <1>4 DEF RunnerInv, HasPlan, Planning, Writing, Undoing
  <2>3. Data'
    <3>1. Data /\ \A m \in idmap : Sound(m.batch)' => Sound(m.batch)
      BY <1>1, <2>1 DEF Kept, Sound, PassedBatch
    <3> QED BY <1>1, <3>1, DataStays
  <2>4. Shape
    BY DEF MigrationInv
  <2> QED BY <1>1, <2>1, <2>2, <2>3, <2>4, Turn
<1> QED BY <1>4, <1>5 DEF MigrationInv

\* The source is converted: no identifier of the plan is in use.
LEMMA InvDryRun ==
  ASSUME MigrationInv, NEW r \in Runners, StageDryRun(r)
  PROVE  MigrationInv'
<1> DEFINE read == [t \in Table |-> Ids(t)]
<1>1. PICK plan : plan = buildNyanpassPlan(runner[r].policy, runner[r].names, read)
  OBVIOUS
<1> DEFINE planned == [pc |-> "recover", plan |-> [map |-> plan.map, rows |-> plan.rows]]
           s == IF plan.error THEN Unoccupied ELSE planned
<1>2. /\ runner[r].pc = "plan" /\ Become(r, s)
      /\ UNCHANGED <<target, sequence, idmap, batches, native, resumed, again>>
      /\ clash' = (clash \/ \E m \in idmap : m.id \notin Ids(m.table))
  BY <1>1 DEF StageDryRun, db
<1>3. /\ PlanRows(plan.rows)
      /\ \A t \in Table : \A i \in DOMAIN plan.rows[t] : plan.rows[t][i].id \notin Ids(t)
  <2>1. \A t \in Table : read[t] = Ids(t)
    OBVIOUS
  <2>2. \A t \in Table : Ids(t) \subseteq Nat /\ \E b \in Nat : \A x \in Ids(t) : x <= b
    <3> SUFFICES ASSUME NEW t \in Table
                 PROVE  Ids(t) \subseteq Nat /\ \E b \in Nat : \A x \in Ids(t) : x <= b
      OBVIOUS
    <3>1. sequence[t] \in Nat /\ \A row \in target[t] : row.id \in 1..sequence[t]
      BY DEF MigrationInv, Shape, TargetShape
    <3>2. \A x \in Ids(t) : x \in 1..sequence[t]
      BY <3>1 DEF Ids
    <3> QED BY <3>1, <3>2
  <2>3. DOMAIN read = Table /\ read = [t \in Table |-> read[t]]
    OBVIOUS
  <2> HIDE DEF read
  <2>4. \A t \in Table : read[t] \subseteq Nat /\ \E b \in Nat : \A x \in read[t] : x <= b
    BY <2>1, <2>2
  <2>5. /\ PlanRows(plan.rows)
        /\ \A t \in Table : \A i \in DOMAIN plan.rows[t] : plan.rows[t][i].id \notin read[t]
    BY <1>1, <2>3, <2>4, PlanFine
  <2> QED BY <2>1, <2>5
<1>4. s = Unoccupied \/ s = planned
  OBVIOUS
<1>5. /\ planned.pc = "recover" /\ planned.plan.rows = plan.rows
      /\ planned = [pc |-> "recover", plan |-> planned.plan]
  OBVIOUS
<1> HIDE DEF s, planned, read
<1>6. Shape' /\ runner'[r] = s
  <2>1. RunnerIs(s, DOMAIN batches)
    <3>1. CASE s = Unoccupied
      BY <3>1 DEF RunnerIs
    <3>2. CASE s = planned
      BY <1>3, <1>5, <3>2, Zenon DEF RunnerIs
    <3> QED BY <1>4, <3>1, <3>2
  <2>2. /\ Shape /\ again' \subseteq resumed' /\ resumed' \subseteq DOMAIN batches
        /\ clash' \in BOOLEAN
    BY <1>2 DEF MigrationInv, Shape
  <2> QED BY <1>2, <2>1, <2>2, Becomes
<1>7. ASSUME ~clash' PROVE Kept'
  <2>1. Kept /\ Shape
    BY <1>2, <1>7 DEF MigrationInv
  <2>2. \A q \in Runners \ {r} : ~AtWork(q)
    <3>1. AtWork(r)
      BY <1>2 DEF AtWork
    <3> QED BY <2>1, <3>1, OthersRest
  <2>3. Data'
    <3>1. Data /\ \A m \in idmap : Sound(m.batch)' => Sound(m.batch)
      BY <1>2, <2>1 DEF Kept, Sound, PassedBatch
    <3> QED BY <1>2, <3>1, DataStays
  <2>4. RunnerInv(r)'
    <3>1. CASE s = Unoccupied
      BY <1>6, <3>1, Resting
    <3>2. CASE s = planned
      <4>1. /\ runner'[r].pc = "recover" /\ runner'[r].plan.rows = plan.rows
            /\ runner'[r].pc \notin Writing
        BY <1>5, <1>6, <3>2 DEF Writing
      <4>2. AllThere'
        BY <1>2, <1>7 DEF AllThere, Ids
      <4>3. ASSUME NEW t \in Table, NEW i \in DOMAIN plan.rows[t]
            PROVE  <<t, plan.rows[t][i].id>> \notin native' /\ plan.rows[t][i].id \notin Ids(t)'
        <5>1. plan.rows[t][i].id \notin Ids(t) /\ plan.rows[t][i].id \in Nat
          BY <1>3 DEF PlanRows, RowPlanned
        <5>2. NativeKept
          BY <2>1 DEF Kept, Data
        <5>3. <<t, plan.rows[t][i].id>> \notin native
          BY <5>1, <5>2 DEF NativeKept
        <5> QED BY <1>2, <5>1, <5>3 DEF Ids
      <4>4. PlanFree(r)'
        BY <4>1, <4>2, <4>3 DEF PlanFree
      <4> QED BY <4>1, <4>4 DEF RunnerInv, Writing, Undoing
    <3> QED BY <1>4, <3>1, <3>2
  <2> QED BY <1>2, <2>1, <2>2, <2>3, <2>4, Turn
<1> QED BY <1>6, <1>7 DEF MigrationInv

\* What a runner is, by what it does.
LEMMA WriterIs ==
  ASSUME Shape, NEW r \in Runners, runner[r].pc \in Writing
  PROVE  /\ runner[r] = [pc |-> runner[r].pc, plan |-> runner[r].plan, batch |-> runner[r].batch,
                         at |-> runner[r].at, start |-> runner[r].start, done |-> runner[r].done]
         /\ PlanRows(runner[r].plan.rows) /\ runner[r].batch \in DOMAIN batches
         /\ runner[r].at \in 1..7
         /\ runner[r].start \in 1..(Len(runner[r].plan.rows[Order[runner[r].at]]) + 1)
<1>1. RunnerIs(runner[r], DOMAIN batches)
  BY DEF Shape, RunnersShape
<1>2. runner[r].pc \notin {"plan", "recover", "open"} \cup Undoing /\ runner[r] # Unoccupied
  BY DEF Writing, Undoing, Unoccupied
<1> QED BY <1>1, <1>2, Zenon DEF RunnerIs

\* What a runner is before it writes.
LEMMA PlannerIs ==
  ASSUME Shape, NEW r \in Runners
  PROVE  /\ runner[r].pc = "recover" =>
              runner[r] = [pc |-> "recover", plan |-> runner[r].plan] /\ PlanRows(runner[r].plan.rows)
         /\ runner[r].pc = "open" =>
              /\ runner[r] = [pc |-> "open", plan |-> runner[r].plan, batch |-> runner[r].batch]
              /\ PlanRows(runner[r].plan.rows) /\ runner[r].batch \in {0} \cup DOMAIN batches
         /\ runner[r].pc \in Undoing =>
              /\ runner[r] = [pc |-> runner[r].pc, batch |-> runner[r].batch, at |-> runner[r].at]
              /\ runner[r].batch \in DOMAIN batches /\ runner[r].at \in 1..6
<1>1. RunnerIs(runner[r], DOMAIN batches)
  BY DEF Shape, RunnersShape
<1>2. runner[r].pc = "recover" => runner[r].pc \notin {"plan", "open"} \cup Writing \cup Undoing /\ runner[r] # Unoccupied
  BY DEF Writing, Undoing, Unoccupied
<1>3. runner[r].pc = "open" => runner[r].pc \notin {"plan", "recover"} \cup Writing \cup Undoing /\ runner[r] # Unoccupied
  BY DEF Writing, Undoing, Unoccupied
<1>4. runner[r].pc \in Undoing => runner[r].pc \notin {"plan", "recover", "open"} \cup Writing /\ runner[r] # Unoccupied
  BY DEF Writing, Undoing, Unoccupied
<1>5. runner[r].pc = "recover" =>
        runner[r] = [pc |-> "recover", plan |-> runner[r].plan] /\ PlanRows(runner[r].plan.rows)
  BY <1>1, <1>2, Zenon DEF RunnerIs
<1>6. runner[r].pc = "open" =>
        /\ runner[r] = [pc |-> "open", plan |-> runner[r].plan, batch |-> runner[r].batch]
        /\ PlanRows(runner[r].plan.rows) /\ runner[r].batch \in {0} \cup DOMAIN batches
  BY <1>1, <1>3, Zenon DEF RunnerIs
<1>7. runner[r].pc \in Undoing =>
        /\ runner[r] = [pc |-> runner[r].pc, batch |-> runner[r].batch, at |-> runner[r].at]
        /\ runner[r].batch \in DOMAIN batches /\ runner[r].at \in 1..6
  BY <1>1, <1>4, Zenon DEF RunnerIs
<1> QED BY <1>5, <1>6, <1>7

\* If a batch was left running, one is continued: the least of those that have
\* fewer than five newer ones.
LEMMA Continuable ==
  ASSUME Shape, Unfinished # {}
  PROVE  Recovered \in Unfinished
<1>0. /\ DOMAIN batches = 1..Len(batches) /\ Len(batches) \in Nat
      /\ Unfinished \in SUBSET (1..Len(batches)) /\ Unfinished \in SUBSET Nat
  BY DEF Shape, BatchShape, Unfinished
<1>1. PICK U : U = Unfinished /\ U \in SUBSET Nat /\ U # {}
  BY <1>0
<1> DEFINE Newer(b) == {c \in U : c > b}
           G == {b \in U : Cardinality(Newer(b)) < 5}
<1>2. IsFiniteSet(U) /\ \A b : IsFiniteSet(Newer(b)) /\ Cardinality(Newer(b)) \in Nat
  <2>1. IsFiniteSet(1..Len(batches))
    BY <1>0, FS_Interval
  <2>2. IsFiniteSet(U)
    BY <1>0, <1>1, <2>1, FS_Subset
  <2>3. \A b : Newer(b) \in SUBSET U
    OBVIOUS
  <2>4. \A b : IsFiniteSet(Newer(b))
    <3> HIDE DEF Newer
    <3> QED BY <2>2, <2>3, FS_Subset
  <2> QED BY <2>2, <2>4, FS_CardinalityType
<1>3. G # {} /\ G \in SUBSET Nat
  <2>1. PICK b \in Nat : \A x \in U : x <= b
    BY <1>1, <1>2, FiniteBounded
  <2>2. PICK m \in U : \A x \in U : x <= m
    BY <1>1, <2>1, MaxOf
  <2>3. \A c \in U : ~(c > m)
    <3>1. m \in Nat /\ \A c \in U : c \in Nat /\ c <= m
      BY <1>1, <2>2
    <3> QED BY <3>1
  <2>4. Newer(m) = {}
    BY <2>3
  <2>5. Cardinality(Newer(m)) = 0
    <3> HIDE DEF Newer
    <3> QED BY <2>4, FS_EmptySet
  <2>6. m \in G
    <3> HIDE DEF Newer
    <3>1. 0 < 5
      OBVIOUS
    <3> QED BY <2>2, <2>5, <3>1
  <2> QED BY <1>1, <2>6
<1>4. PICK b \in G : \A y \in G : b <= y
  <2> HIDE DEF G
  <2> QED BY <1>3, Least
<1>5. b \in U /\ b \in Nat /\ Cardinality(Newer(b)) < 5
  BY <1>1, <1>4
<1>6. ASSUME \E c \in U : ~(b <= c) PROVE Cardinality(Newer(b)) = 4
  <2> DEFINE Older == {c \in U : c < b}
  <2>1. Older # {} /\ Older \in SUBSET Nat /\ \A x \in Older : x <= b
    <3>1. PICK c \in U : ~(b <= c)
      BY <1>6
    <3>2. c \in Nat /\ c < b
      BY <1>1, <1>5, <3>1
    <3>3. Older \in SUBSET Nat
      BY <1>1
    <3>4. \A x \in Older : x \in Nat /\ x < b
      BY <1>1
    <3> QED BY <1>5, <3>1, <3>2, <3>3, <3>4
  <2>2. PICK p \in Older : \A x \in Older : x <= p
    <3> HIDE DEF Older
    <3> QED BY <1>5, <2>1, MaxOf
  <2>3. p \in U /\ p \in Nat /\ p < b /\ p \notin G
    BY <1>1, <1>4, <1>5, <2>2
  <2>4. Newer(p) = Newer(b) \cup {b} /\ b \notin Newer(b)
    <3>1. ASSUME NEW x \in U, x > p PROVE x \in Newer(b) \/ x = b
      <4>1. x \in Nat /\ x \notin Older
        BY <1>1, <2>2, <2>3, <3>1
      <4> QED BY <1>5, <3>1, <4>1
    <3>2. \A x \in Newer(b) : x > p
      BY <1>1, <1>5, <2>3
    <3> QED BY <1>5, <2>3, <3>1, <3>2
  <2>5. Cardinality(Newer(p)) = Cardinality(Newer(b)) + 1
    <3> HIDE DEF Newer
    <3> QED BY <1>2, <2>4, FS_AddElement
  <2>6. ~(Cardinality(Newer(p)) < 5)
    BY <2>3
  <2>7. \A x, y \in Nat : y = x + 1 /\ x < 5 /\ ~(y < 5) => x = 4
    OBVIOUS
  <2> HIDE DEF Newer, G, Older
  <2> QED BY <1>2, <1>5, <2>5, <2>6, <2>7
<1>7. /\ Cardinality({c \in Unfinished : c > b}) < 5
      /\ Cardinality({c \in Unfinished : c > b}) = 4 \/ \A c \in Unfinished : b <= c
  BY <1>1, <1>5, <1>6
<1>8. b \in Unfinished
  BY <1>1, <1>5
<1>9. \E x \in Unfinished :
        LET newer == {c \in Unfinished : c > x}
        IN  Cardinality(newer) < 5 /\ (Cardinality(newer) = 4 \/ \A c \in Unfinished : x <= c)
  BY <1>7, <1>8, Zenon
<1> QED BY <1>9, Zenon DEF Recovered

\* A batch left running is continued: what its rows refer to is in the batch,
\* unless it has been continued before.
LEMMA InvRecover ==
  ASSUME MigrationInv, NEW r \in Runners, handleUnfinishedBatches(r)
  PROVE  MigrationInv'
<1>1. PICK left : left = IF Unfinished = {} THEN {} ELSE {Recovered}
  OBVIOUS
<1>2. PICK b : b = IF left = {} THEN 0 ELSE Recovered
  OBVIOUS
<1>3. PICK s : s = [pc |-> "open", plan |-> runner[r].plan, batch |-> b]
  OBVIOUS
<1>4. /\ runner[r].pc = "recover" /\ Become(r, s)
      /\ UNCHANGED <<target, sequence, idmap, batches, native, clash>>
      /\ resumed' = resumed \cup left /\ again' = again \cup (left \cap resumed)
  BY <1>1, <1>2, <1>3 DEF handleUnfinishedBatches, db
<1>5. \/ left = {} /\ b = 0
      \/ left = {b} /\ b \in DOMAIN batches /\ batches[b].status = "running"
  <2>1. CASE Unfinished = {}
    BY <1>1, <1>2, <2>1
  <2>2. CASE Unfinished # {}
    <3>1. Recovered \in Unfinished
      BY <2>2, Continuable DEF MigrationInv
    <3>2. left = {Recovered} /\ b = Recovered
      BY <1>1, <1>2, <2>2
    <3> QED BY <3>1, <3>2 DEF Unfinished
  <2> QED BY <2>1, <2>2
<1>6. PlanRows(runner[r].plan.rows)
  BY <1>4, PlannerIs DEF MigrationInv
<1>7. s.pc = "open" /\ s.plan = runner[r].plan /\ s.batch = b
  BY <1>3
<1>8. Shape' /\ runner'[r] = s
  <2>1. RunnerIs(s, DOMAIN batches)
    BY <1>3, <1>5, <1>6, <1>7 DEF RunnerIs
  <2>2. /\ Shape /\ again' \subseteq resumed' /\ resumed' \subseteq DOMAIN batches
        /\ clash' \in BOOLEAN
    BY <1>4, <1>5 DEF MigrationInv, Shape
  <2> QED BY <1>4, <2>1, <2>2, Becomes
<1>9. ASSUME ~clash' PROVE Kept'
  <2>1. Kept /\ Shape
    BY <1>4, <1>9 DEF MigrationInv
  <2>2. \A q \in Runners \ {r} : ~AtWork(q)
    <3>1. AtWork(r)
      BY <1>4 DEF AtWork
    <3> QED BY <2>1, <3>1, OthersRest
  <2>3. Data'
    <3>1. Data /\ \A m \in idmap : Sound(m.batch)' => Sound(m.batch)
      BY <1>4, <2>1 DEF Kept, Sound, PassedBatch
    <3> QED BY <1>4, <3>1, DataStays
  <2>4. RunnerInv(r)'
    <3>1. runner'[r].pc = "open" /\ runner'[r].plan = runner[r].plan /\ runner'[r].batch = b
      BY <1>7, <1>8
    <3>2. PlanFree(r)'
      <4>1. PlanFree(r) /\ runner[r].pc \notin Writing
        BY <1>4, <2>1 DEF Kept, RunnerInv, HasPlan, Planning, Writing
      <4>2. AllThere'
        BY <1>4, <4>1 DEF PlanFree, AllThere, Ids
      <4> QED BY <1>4, <3>1, <4>1, <4>2 DEF PlanFree, Ids
    <3>3. Continued(r)'
      <4>1. CASE b = 0
        BY <3>1, <4>1 DEF Continued
      <4>2. CASE b # 0
        <5>1. left = {b} /\ batches[b].status = "running"
          BY <1>5, <4>2
        <5>2. batches'[b].status = "running" /\ b \in resumed'
          BY <1>4, <5>1
        <5>3. Foreseen(r)'
          <6> SUFFICES ASSUME b \notin again', NEW m \in idmap, NEW row \in target[m.table],
                              m.batch = b, row.id = m.id, m.table # "user_groups",
                              NEW ref \in row.refs
                       PROVE  MappedIn(b, ref[1], ref[2])
            BY <1>4, <3>1 DEF Foreseen, MappedIn
          <6>1. Sound(b)
            BY <1>4, <5>1 DEF Sound
          <6> QED BY <2>1, <6>1 DEF Kept, Data, References
        <5> QED BY <3>1, <5>2, <5>3 DEF Continued
      <4> QED BY <4>1, <4>2
    <3> QED BY <3>1, <3>2, <3>3 DEF RunnerInv, Writing, Undoing
  <2> QED BY <1>4, <2>1, <2>2, <2>3, <2>4, Turn
<1> QED BY <1>8, <1>9 DEF MigrationInv

\* The same when rows are written or a batch is opened or closed.
LEMMA BecomesWith ==
  ASSUME Shape, NEW r \in Runners, NEW s, Become(r, s), BatchShape(batches'),
         DOMAIN batches \subseteq DOMAIN batches', RunnerIs(s, DOMAIN batches'),
         TargetShape(target', sequence'), MapShape(idmap', DOMAIN batches', sequence'),
         UNCHANGED <<again, resumed, clash>>
  PROVE  Shape' /\ runner'[r] = s
<1>1. runner' = [runner EXCEPT ![r] = s] /\ runner = [q \in Runners |-> runner[q]]
  BY DEF Become, Shape, RunnersShape
<1>2. /\ runner' = [q \in Runners |-> runner'[q]]
      /\ \A q \in Runners : runner'[q] = IF q = r THEN s ELSE runner[q]
  BY <1>1
<1>3. RunnersShape(runner', DOMAIN batches')
  <2>1. ASSUME NEW q \in Runners, q # r PROVE RunnerIs(runner'[q], DOMAIN batches')
    <3>1. RunnerIs(runner[q], DOMAIN batches) /\ runner'[q] = runner[q]
      BY <1>2, <2>1 DEF Shape, RunnersShape
    <3> QED BY <3>1 DEF RunnerIs
  <2> QED BY <1>2, <2>1 DEF RunnersShape
<1>4. again' \subseteq resumed' /\ resumed' \subseteq DOMAIN batches' /\ clash' \in BOOLEAN
  BY DEF Shape
<1> QED BY <1>2, <1>3, <1>4 DEF Shape

\* The status of one batch changes.
LEMMA OneChanged ==
  ASSUME Shape, NEW b \in DOMAIN batches, NEW new,
         new \in [status : {"running", "failed", "finished", "rolled_back"}, passed : BOOLEAN],
         batches' = [batches EXCEPT ![b] = new]
  PROVE  /\ BatchShape(batches') /\ DOMAIN batches' = DOMAIN batches
         /\ batches'[b] = new /\ \A c \in DOMAIN batches : c # b => batches'[c] = batches[c]
<1>1. PICK S : S = [status : {"running", "failed", "finished", "rolled_back"}, passed : BOOLEAN]
  OBVIOUS
<1>2. batches \in Seq(S) /\ new \in S
  BY <1>1 DEF Shape, BatchShape
<1>3. batches' \in Seq(S)
  BY <1>2
<1> QED BY <1>1, <1>2, <1>3 DEF BatchShape

\* A batch is opened, or the one that was left is written on.
LEMMA InvOpen ==
  ASSUME MigrationInv, NEW r \in Runners, ensureBatch(r)
  PROVE  MigrationInv'
<1>1. PICK b : b = IF runner[r].batch = 0 THEN Len(batches) + 1 ELSE runner[r].batch
  OBVIOUS
<1>2. PICK s : s = [pc |-> "write", plan |-> runner[r].plan, batch |-> b, at |-> 1, start |-> 1,
                    done |-> {<<m.table, m.source>> : m \in {x \in idmap : x.batch = b}}]
  OBVIOUS
<1>3. /\ runner[r].pc = "open" /\ Become(r, s)
      /\ UNCHANGED <<target, sequence, idmap, native, clash, resumed, again>>
  BY <1>1, <1>2 DEF ensureBatch, observed
<1>4. batches' = IF runner[r].batch = 0
                 THEN Append(batches, [status |-> "running", passed |-> FALSE]) ELSE batches
  BY DEF ensureBatch
<1>5. /\ PlanRows(runner[r].plan.rows) /\ runner[r].batch \in {0} \cup DOMAIN batches
      /\ Shape
  BY <1>3, PlannerIs DEF MigrationInv
<1>6. /\ BatchShape(batches') /\ DOMAIN batches \subseteq DOMAIN batches' /\ b \in DOMAIN batches'
      /\ \A c \in DOMAIN batches : batches'[c] = batches[c]
      /\ runner[r].batch = 0 => b \notin DOMAIN batches /\ batches'[b].status = "running"
  <2>1. PICK S : S = [status : {"running", "failed", "finished", "rolled_back"}, passed : BOOLEAN]
    OBVIOUS
  <2>2. batches \in Seq(S) /\ [status |-> "running", passed |-> FALSE] \in S
    BY <1>5, <2>1 DEF Shape, BatchShape
  <2>3. CASE runner[r].batch = 0
    <3>1. /\ batches' \in Seq(S) /\ Len(batches') = Len(batches) + 1
          /\ \A i \in 1..Len(batches) : batches'[i] = batches[i]
          /\ batches'[Len(batches) + 1] = [status |-> "running", passed |-> FALSE]
          /\ Len(batches) \in Nat /\ DOMAIN batches = 1..Len(batches)
          /\ DOMAIN batches' = 1..(Len(batches) + 1)
      BY <1>4, <2>2, <2>3
    <3> QED BY <1>1, <2>1, <2>3, <3>1 DEF BatchShape
  <2>4. CASE runner[r].batch # 0
    BY <1>1, <1>4, <1>5, <2>4 DEF Shape
  <2> QED BY <2>3, <2>4
<1>7. /\ s.pc = "write" /\ s.plan = runner[r].plan /\ s.batch = b /\ s.at = 1 /\ s.start = 1
      /\ s.done = {<<m.table, m.source>> : m \in {x \in idmap : x.batch = b}}
  BY <1>2
<1>8. Shape' /\ runner'[r] = s
  <2>1. RunnerIs(s, DOMAIN batches')
    <3>1. IsSeq(runner[r].plan.rows[Order[1]])
      <4>1. Order[1] \in Table
        BY Tables
      <4> QED BY <1>5, <4>1 DEF PlanRows
    <3>2. 1 \in 1..(Len(runner[r].plan.rows[Order[1]]) + 1)
      BY SMTT(30), <3>1, Appended
    <3>3. /\ s.pc \in Writing
          /\ s = [pc |-> s.pc, plan |-> s.plan, batch |-> s.batch, at |-> s.at, start |-> s.start,
                  done |-> s.done]
          /\ PlanRows(s.plan.rows) /\ s.batch \in DOMAIN batches' /\ s.at \in 1..7
      BY <1>2, <1>5, <1>6, <1>7 DEF Writing
    <3>4. s.start \in 1..(Len(s.plan.rows[Order[s.at]]) + 1)
      BY <1>7, <3>2
    <3> QED BY <3>3, <3>4, Zenon DEF RunnerIs
  <2>2. MapShape(idmap', DOMAIN batches', sequence') /\ TargetShape(target', sequence')
    BY <1>3, <1>5, <1>6 DEF Shape, MapShape
  <2>3. UNCHANGED <<again, resumed, clash>>
    BY <1>3
  <2> QED BY <1>3, <1>5, <1>6, <2>1, <2>2, <2>3, BecomesWith
<1>9. ASSUME ~clash' PROVE Kept'
  <2>1. Kept
    BY <1>3, <1>9 DEF MigrationInv
  <2>2. \A q \in Runners \ {r} : ~AtWork(q)
    <3>1. AtWork(r)
      BY <1>3 DEF AtWork
    <3> QED BY <2>1, <3>1, OthersRest
  <2>3. \A m \in idmap : m.batch \in DOMAIN batches
    BY <1>5 DEF Shape, MapShape
  <2>4. Data'
    <3>1. Data /\ \A m \in idmap : Sound(m.batch)' => Sound(m.batch)
      BY <1>3, <1>6, <2>1, <2>3 DEF Kept, Sound, PassedBatch
    <3> QED BY <1>3, <3>1, DataStays
  <2>5. RunnerInv(r)'
    <3>1. /\ runner'[r].pc = "write" /\ runner'[r].plan = runner[r].plan /\ runner'[r].batch = b
          /\ runner'[r].at = 1 /\ runner'[r].start = 1
          /\ runner'[r].done = {<<m.table, m.source>> : m \in {x \in idmap : x.batch = b}}
      BY <1>7, <1>8
    <3>2. PlanFree(r)'
      <4>1. PlanFree(r) /\ runner[r].pc \notin Writing
        BY <1>3, <2>1 DEF Kept, RunnerInv, HasPlan, Planning, Writing
      <4>2. AllThere'
        BY <1>3, <4>1 DEF PlanFree, AllThere, Ids
      <4> QED BY <1>3, <3>1, <4>1, <4>2 DEF PlanFree, Ids
    <3>3. Sourced(r)'
      BY <1>3, <3>1 DEF Sourced
    <3>4. Passed(r)'
      <4> SUFFICES ASSUME NEW t \in Table, NEW i \in DOMAIN runner'[r].plan.rows[t], Behind(r, t, i)'
                   PROVE  FALSE
        BY DEF Passed
      <4>1. i < 1
        BY <3>1 DEF Behind
      <4>2. i \in Nat \ {0}
        <5>1. IsSeq(runner[r].plan.rows[t])
          BY <1>5 DEF PlanRows
        <5> QED BY <3>1, <5>1, Appended
      <4> QED BY <4>1, <4>2
    <3>5. /\ batches'[b].status = "running" /\ Foreseen(r)'
          /\ b \notin resumed => runner'[r].done = {}
      <4>1. CASE runner[r].batch = 0
        <5>1. \A m \in idmap : m.batch # b
          BY <1>6, <2>3, <4>1
        <5>2. b \notin resumed /\ runner'[r].done = {}
          BY <1>5, <1>6, <3>1, <4>1, <5>1 DEF Shape
        <5> QED BY <1>3, <1>6, <3>1, <4>1, <5>1, <5>2 DEF Foreseen
      <4>2. CASE runner[r].batch # 0
        <5>1. b = runner[r].batch /\ b \in DOMAIN batches
          BY <1>1, <1>5, <4>2
        <5>2. batches[b].status = "running" /\ b \in resumed /\ Foreseen(r)
          BY <1>3, <2>1, <4>2, <5>1 DEF Kept, RunnerInv, Continued
        <5>3. Foreseen(r)'
          BY <1>3, <3>1, <5>1, <5>2 DEF Foreseen, MappedIn, PlannedId
        <5> QED BY <1>6, <5>1, <5>2, <5>3
      <4> QED BY <4>1, <4>2
    <3>6. InBatch(r)'
      <4>1. resumed' = resumed
        BY <1>3
      <4>2. batches'[runner'[r].batch].status = "running"
        BY <3>1, <3>5
      <4>3. runner'[r].batch \notin resumed' => runner'[r].done = {}
        BY <3>1, <3>5, <4>1
      <4> QED BY <3>3, <3>4, <3>5, <4>2, <4>3 DEF InBatch
    <3> QED BY <3>1, <3>2, <3>6 DEF RunnerInv, Undoing
  <2> QED BY <1>3, <1>5, <2>1, <2>2, <2>4, <2>5, Turn
<1> QED BY <1>8, <1>9 DEF MigrationInv

\* While neither the target nor the plan changes, the batch keeps what it has.
LEMMA SameWork ==
  ASSUME NEW r, UNCHANGED <<target, idmap, native, again>>,
         runner'[r].plan = runner[r].plan, runner'[r].batch = runner[r].batch,
         runner'[r].done = runner[r].done, runner[r].pc \in Writing => runner'[r].pc \in Writing
  PROVE  /\ PlanFree(r) => PlanFree(r)'
         /\ Foreseen(r) => Foreseen(r)'
         /\ Sourced(r) => Sourced(r)'
<1>1. \A b, t, id : MappedIn(b, t, id)' <=> MappedIn(b, t, id)
  BY DEF MappedIn
<1>2. \A t, id : PlannedId(r, t, id)' <=> PlannedId(r, t, id)
  BY DEF PlannedId
<1>3. \A t : Ids(t)' = Ids(t)
  BY DEF Ids
<1>4. ASSUME PlanFree(r) PROVE PlanFree(r)'
  <2>1. AllThere'
    BY <1>3, <1>4 DEF PlanFree, AllThere
  <2>2. ASSUME NEW t \in Table, NEW i \in DOMAIN runner[r].plan.rows[t],
               runner[r].plan.rows[t][i].id \in Ids(t)
        PROVE  runner'[r].pc \in Writing /\ MappedIn(runner[r].batch, t, runner[r].plan.rows[t][i].id)'
    BY <1>1, <1>4, <2>2 DEF PlanFree
  <2>3. \A t \in Table : \A i \in DOMAIN runner[r].plan.rows[t] :
          <<t, runner[r].plan.rows[t][i].id>> \notin native'
    BY <1>4 DEF PlanFree
  <2> QED BY <1>3, <2>1, <2>2, <2>3 DEF PlanFree
<1>5. ASSUME Foreseen(r) PROVE Foreseen(r)'
  BY <1>1, <1>2, <1>5 DEF Foreseen
<1>6. ASSUME Sourced(r) PROVE Sourced(r)'
  <2>1. ASSUME NEW m \in idmap, m.batch = runner[r].batch
        PROVE  \/ <<m.table, m.source>> \in runner'[r].done
               \/ \E i \in DOMAIN runner'[r].plan.rows[m.table] :
                    /\ runner'[r].plan.rows[m.table][i].source = m.source
                    /\ runner'[r].plan.rows[m.table][i].id = m.id
    <3>1. \/ <<m.table, m.source>> \in runner[r].done
          \/ \E i \in DOMAIN runner[r].plan.rows[m.table] :
               /\ runner[r].plan.rows[m.table][i].source = m.source
               /\ runner[r].plan.rows[m.table][i].id = m.id
      BY <1>6, <2>1, Zenon DEF Sourced
    <3> QED BY <3>1
  <2> QED BY <2>1, Zenon DEF Sourced
<1> QED BY <1>4, <1>5, <1>6

\* The traffic is written.
LEMMA InvTraffic ==
  ASSUME MigrationInv, NEW r \in Runners, writeTraffic(r)
  PROVE  MigrationInv'
<1>1. PICK s : s = [runner[r] EXCEPT !.pc = "verify"]
  OBVIOUS
<1>2. /\ runner[r].pc = "traffic" /\ runner[r].pc \in Writing /\ Become(r, s)
      /\ UNCHANGED <<target, sequence, idmap, batches, native, clash, resumed, again>>
  BY <1>1 DEF writeTraffic, observed, Writing
<1>3. /\ runner[r] = [pc |-> runner[r].pc, plan |-> runner[r].plan, batch |-> runner[r].batch,
                      at |-> runner[r].at, start |-> runner[r].start, done |-> runner[r].done]
      /\ PlanRows(runner[r].plan.rows) /\ runner[r].batch \in DOMAIN batches
      /\ runner[r].at \in 1..7
      /\ runner[r].start \in 1..(Len(runner[r].plan.rows[Order[runner[r].at]]) + 1)
  BY <1>2, WriterIs DEF MigrationInv
<1>4. s = [pc |-> "verify", plan |-> runner[r].plan, batch |-> runner[r].batch,
           at |-> runner[r].at, start |-> runner[r].start, done |-> runner[r].done]
  BY <1>1, <1>3
<1>5. /\ s.pc = "verify" /\ s.plan = runner[r].plan /\ s.batch = runner[r].batch
      /\ s.at = runner[r].at /\ s.start = runner[r].start /\ s.done = runner[r].done
  BY <1>4
<1>6. Shape' /\ runner'[r] = s
  <2>1. RunnerIs(s, DOMAIN batches)
    <3>1. s.pc \in Writing
      BY <1>5 DEF Writing
    <3> QED BY <1>3, <1>4, <1>5, <3>1, Zenon DEF RunnerIs
  <2>2. /\ Shape /\ again' \subseteq resumed' /\ resumed' \subseteq DOMAIN batches
        /\ clash' \in BOOLEAN
    BY <1>2 DEF MigrationInv, Shape
  <2> QED BY <1>2, <2>1, <2>2, Becomes
<1>7. ASSUME ~clash' PROVE Kept'
  <2>1. Kept /\ Shape
    BY <1>2, <1>7 DEF MigrationInv
  <2>2. \A q \in Runners \ {r} : ~AtWork(q)
    <3>1. AtWork(r)
      BY <1>2 DEF AtWork
    <3> QED BY <2>1, <3>1, OthersRest
  <2>3. Data'
    <3>1. Data /\ \A m \in idmap : Sound(m.batch)' => Sound(m.batch)
      BY <1>2, <2>1 DEF Kept, Sound, PassedBatch
    <3> QED BY <1>2, <3>1, DataStays
  <2>4. RunnerInv(r)'
    <3>1. /\ runner'[r].pc = "verify" /\ runner'[r].plan = runner[r].plan
          /\ runner'[r].batch = runner[r].batch /\ runner'[r].done = runner[r].done
      BY <1>5, <1>6
    <3>2. PlanFree(r) /\ InBatch(r)
      BY <1>2, <2>1 DEF Kept, RunnerInv, HasPlan
    <3>5. runner'[r].pc \in Writing
      BY <3>1 DEF Writing
    <3>6. Sourced(r) /\ Foreseen(r)
      BY <3>2 DEF InBatch
    <3>3. PlanFree(r)' /\ Sourced(r)' /\ Foreseen(r)'
      BY <1>2, <3>1, <3>2, <3>5, <3>6, SameWork
    <3>4. InBatch(r)'
      BY <1>2, <3>1, <3>2, <3>3 DEF InBatch
    <3> QED BY <3>1, <3>3, <3>4 DEF RunnerInv, Undoing
  <2> QED BY <1>2, <2>1, <2>2, <2>3, <2>4, Turn
<1> QED BY <1>6, <1>7 DEF MigrationInv

\* The batch is closed: if it passed, what its rows refer to is there.
LEMMA InvVerify ==
  ASSUME MigrationInv, NEW r \in Runners, StageVerify(r)
  PROVE  MigrationInv'
<1>1. PICK b : b = runner[r].batch
  OBVIOUS
<1>2. PICK new : new = [status |-> "finished",
                        passed |-> Verified(runner[r].plan, runner[r].done)]
  OBVIOUS
<1>3. /\ runner[r].pc = "verify" /\ runner[r].pc \in Writing /\ Become(r, Unoccupied)
      /\ batches' = [batches EXCEPT ![b] = new]
      /\ UNCHANGED <<target, sequence, idmap, native, clash, resumed, again>>
  BY <1>1, <1>2 DEF StageVerify, observed, Writing
<1>4. b \in DOMAIN batches /\ Shape
  BY <1>1, <1>3, WriterIs DEF MigrationInv
<1>5. new.passed = Verified(runner[r].plan, runner[r].done) /\ new.passed \in BOOLEAN
  <2>1. Verified(runner[r].plan, runner[r].done) \in BOOLEAN
    BY Zenon DEF Verified
  <2> QED BY <1>2, <2>1
<1>6. new \in [status : {"running", "failed", "finished", "rolled_back"}, passed : BOOLEAN]
  BY <1>2, <1>5
<1>7. /\ BatchShape(batches') /\ DOMAIN batches' = DOMAIN batches
      /\ batches'[b] = new /\ \A c \in DOMAIN batches : c # b => batches'[c] = batches[c]
  BY <1>3, <1>4, <1>6, OneChanged
<1>8. Shape' /\ runner'[r] = Unoccupied
  <2>1. RunnerIs(Unoccupied, DOMAIN batches') /\ UNCHANGED <<again, resumed, clash>>
    BY <1>3 DEF RunnerIs
  <2>2. MapShape(idmap', DOMAIN batches', sequence') /\ TargetShape(target', sequence')
    BY <1>3, <1>4, <1>7 DEF Shape
  <2> QED BY <1>3, <1>4, <1>7, <2>1, <2>2, BecomesWith
<1>9. ASSUME ~clash' PROVE Kept'
  <2>1. Kept
    BY <1>3, <1>9 DEF MigrationInv
  <2>2. \A q \in Runners \ {r} : ~AtWork(q)
    <3>1. AtWork(r)
      BY <1>3 DEF AtWork
    <3> QED BY <2>1, <3>1, OthersRest
  <2>3. \A m \in idmap : m.batch \in DOMAIN batches
    BY <1>4 DEF Shape, MapShape
  <2>4. PlanFree(r) /\ InBatch(r)
    BY <1>3, <2>1 DEF Kept, RunnerInv, HasPlan
  <2>5. References'
    <3>1. References
      BY <2>1 DEF Kept, Data
    <3> SUFFICES ASSUME NEW m \in idmap, NEW row \in target[m.table], row.id = m.id,
                        m.table # "user_groups", NEW ref \in row.refs, Sound(m.batch)'
                 PROVE  MappedIn(m.batch, ref[1], ref[2]) /\ ref[2] \in Ids(ref[1])
      BY <1>3, <3>1 DEF References, MappedIn, Ids
    <3>2. CASE Sound(m.batch)
      BY <3>1, <3>2 DEF References
    <3>3. CASE ~Sound(m.batch)
      <4>1. m.batch = b /\ b \notin again /\ new.passed
        BY <1>3, <1>7, <2>3, <3>3 DEF Sound, PassedBatch
      <4>2. \A t \in Table : \A p \in Range(runner[r].plan.rows[t]) : p.id \in Ids(t)
        BY <1>5, <4>1 DEF Verified, Counted
      <4>3. ref[1] \in Table
        BY <2>3, <3>1, Referring, <1>4 DEF References, Shape, MapShape
      <4>4. MappedIn(b, ref[1], ref[2]) \/ PlannedId(r, ref[1], ref[2])
        BY <1>1, <2>4, <4>1 DEF InBatch, Foreseen
      <4>5. CASE MappedIn(b, ref[1], ref[2])
        BY <2>4, <4>1, <4>5 DEF PlanFree, AllThere, MappedIn
      <4>6. CASE PlannedId(r, ref[1], ref[2])
        <5>1. PICK j \in DOMAIN runner[r].plan.rows[ref[1]] :
                runner[r].plan.rows[ref[1]][j].id = ref[2]
          BY <4>6 DEF PlannedId
        <5>2. ref[2] \in Ids(ref[1])
          BY <4>2, <4>3, <5>1 DEF Range
        <5>3. MappedIn(b, ref[1], ref[2])
          BY <1>1, <2>4, <4>3, <5>1, <5>2 DEF PlanFree
        <5> QED BY <4>1, <5>2, <5>3
      <4> QED BY <4>4, <4>5, <4>6
    <3> QED BY <3>2, <3>3
  <2>6. Data'
    <3>1. NativeKept' /\ Accounted' /\ RuleGroupsAlone' /\ OneBatch' /\ Once'
      BY <1>3, <2>1 DEF Kept, Data, NativeKept, Accounted, RuleGroupsAlone, OneBatch, Once, Ids, Mapped
    <3> QED BY <2>5, <3>1 DEF Data
  <2>7. RunnerInv(r)'
    BY <1>8, Resting
  <2> QED BY <1>3, <1>4, <2>1, <2>2, <2>6, <2>7, Turn
<1> QED BY <1>8, <1>9 DEF MigrationInv

\* A chunk was refused: the batch has failed.
LEMMA InvFail ==
  ASSUME MigrationInv, NEW r \in Runners, failBatch(r)
  PROVE  MigrationInv'
<1>1. PICK b : b = runner[r].batch
  OBVIOUS
<1>2. /\ runner[r].pc \in Writing /\ AtWork(r) /\ Become(r, Unoccupied)
      /\ batches' = [batches EXCEPT ![b].status = "failed"]
      /\ UNCHANGED <<target, sequence, idmap, native, clash, resumed, again>>
  BY <1>1 DEF failBatch, observed, Writing, AtWork
<1>3. b \in DOMAIN batches /\ Shape
  BY <1>1, <1>2, WriterIs DEF MigrationInv
<1>4. PICK new : new = [batches[b] EXCEPT !.status = "failed"]
  OBVIOUS
<1>5. /\ new \in [status : {"running", "failed", "finished", "rolled_back"}, passed : BOOLEAN]
      /\ new.status = "failed"
  <2>1. batches[b] \in [status : {"running", "failed", "finished", "rolled_back"}, passed : BOOLEAN]
    <3>1. PICK S : S = [status : {"running", "failed", "finished", "rolled_back"}, passed : BOOLEAN]
      OBVIOUS
    <3>2. batches \in Seq(S)
      BY <1>3, <3>1 DEF Shape, BatchShape
    <3>3. batches[b] \in S
      BY <1>3, <3>2
    <3> QED BY <3>1, <3>3
  <2> QED BY <1>4, <2>1
<1>6. batches' = [batches EXCEPT ![b] = new]
  BY <1>2, <1>4
<1>7. /\ BatchShape(batches') /\ DOMAIN batches' = DOMAIN batches
      /\ batches'[b] = new /\ \A c \in DOMAIN batches : c # b => batches'[c] = batches[c]
  BY <1>3, <1>5, <1>6, OneChanged
<1>8. Shape' /\ runner'[r] = Unoccupied
  <2>1. RunnerIs(Unoccupied, DOMAIN batches') /\ UNCHANGED <<again, resumed, clash>>
    BY <1>2 DEF RunnerIs
  <2>2. MapShape(idmap', DOMAIN batches', sequence') /\ TargetShape(target', sequence')
    BY <1>2, <1>3, <1>7 DEF Shape
  <2> QED BY <1>2, <1>3, <1>7, <2>1, <2>2, BecomesWith
<1>9. ASSUME ~clash' PROVE Kept'
  <2>1. Kept
    BY <1>2, <1>9 DEF MigrationInv
  <2>2. \A q \in Runners \ {r} : ~AtWork(q)
    BY <1>2, <2>1, OthersRest
  <2>3. \A m \in idmap : Sound(m.batch)' => Sound(m.batch)
    <3> SUFFICES ASSUME NEW m \in idmap, Sound(m.batch)' PROVE Sound(m.batch)
      OBVIOUS
    <3>1. m.batch \in DOMAIN batches
      BY <1>3 DEF Shape, MapShape
    <3>2. ~PassedBatch(b)'
      BY <1>5, <1>7 DEF PassedBatch
    <3> QED BY <1>2, <1>7, <3>1, <3>2 DEF Sound, PassedBatch
  <2>4. Data'
    <3>1. Data
      BY <2>1 DEF Kept
    <3> QED BY <1>2, <2>3, <3>1, DataStays
  <2>5. RunnerInv(r)'
    BY <1>8, Resting
  <2> QED BY <1>2, <1>3, <2>1, <2>2, <2>4, <2>5, Turn
<1> QED BY <1>8, <1>9 DEF MigrationInv

\* A runner dies.
LEMMA InvInterrupt ==
  ASSUME MigrationInv, NEW r \in Runners, Interrupt(r)
  PROVE  MigrationInv'
<1>1. /\ AtWork(r) /\ Become(r, Unoccupied)
      /\ UNCHANGED <<target, sequence, idmap, batches, native, clash, resumed, again>>
  BY DEF Interrupt, observed, db
<1>2. Shape' /\ runner'[r] = Unoccupied
  <2>1. RunnerIs(Unoccupied, DOMAIN batches)
    BY DEF RunnerIs
  <2>2. /\ Shape /\ again' \subseteq resumed' /\ resumed' \subseteq DOMAIN batches
        /\ clash' \in BOOLEAN
    BY <1>1 DEF MigrationInv, Shape
  <2> QED BY <1>1, <2>1, <2>2, Becomes
<1>3. ASSUME ~clash' PROVE Kept'
  <2>1. Kept /\ Shape
    BY <1>1, <1>3 DEF MigrationInv
  <2>2. \A q \in Runners \ {r} : ~AtWork(q)
    BY <1>1, <2>1, OthersRest
  <2>3. Data'
    <3>1. Data /\ \A m \in idmap : Sound(m.batch)' => Sound(m.batch)
      BY <1>1, <2>1 DEF Kept, Sound, PassedBatch
    <3> QED BY <1>1, <3>1, DataStays
  <2>4. RunnerInv(r)'
    BY <1>2, Resting
  <2> QED BY <1>1, <2>1, <2>2, <2>3, <2>4, Turn
<1> QED BY <1>2, <1>3 DEF MigrationInv

\* A rollback begins.
LEMMA InvRollback ==
  ASSUME MigrationInv, NEW r \in Runners, NEW b \in DOMAIN batches, StageRollback(r, b)
  PROVE  MigrationInv'
<1>1. PICK s : s = [pc |-> "undo", batch |-> b, at |-> 1]
  OBVIOUS
<1>2. /\ Become(r, s) /\ clash' = (clash \/ ~Alone(r))
      /\ UNCHANGED <<target, sequence, idmap, batches, native, resumed, again>>
  BY <1>1 DEF StageRollback, db
<1>3. s.pc = "undo" /\ s.pc \in Undoing /\ s.batch = b /\ s.at = 1
  BY <1>1 DEF Undoing
<1>4. Shape' /\ runner'[r] = s
  <2>1. RunnerIs(s, DOMAIN batches)
    BY <1>1, <1>3 DEF RunnerIs
  <2>2. /\ Shape /\ again' \subseteq resumed' /\ resumed' \subseteq DOMAIN batches
        /\ clash' \in BOOLEAN
    BY <1>2 DEF MigrationInv, Shape
  <2> QED BY <1>2, <2>1, <2>2, Becomes
<1>5. ASSUME ~clash' PROVE Kept'
  <2>1. Kept /\ Shape /\ \A q \in Runners \ {r} : ~AtWork(q)
    BY <1>2, <1>5 DEF MigrationInv, Alone
  <2>2. Data'
    <3>1. Data /\ \A m \in idmap : Sound(m.batch)' => Sound(m.batch)
      BY <1>2, <2>1 DEF Kept, Sound, PassedBatch
    <3> QED BY <1>2, <3>1, DataStays
  <2>3. RunnerInv(r)'
    <3>1. runner'[r].pc = "undo" /\ runner'[r].at = 1
      BY <1>3, <1>4
    <3>2. \A j \in 1..6 : ~(j < 1)
      OBVIOUS
    <3>3. Undone(r)'
      BY <3>1, <3>2 DEF Undone
    <3> QED BY <3>1, <3>3 DEF RunnerInv, HasPlan, Planning, Writing
  <2> QED BY <1>2, <2>1, <2>2, <2>3, Turn
<1> QED BY <1>4, <1>5 DEF MigrationInv

\* Where the tables come in the order of a rollback.
LEMMA Undoings ==
  /\ Len(UndoOrder) = 6 /\ \A j \in 1..6 : UndoOrder[j] \in Table \ {"rule_groups"}
  /\ \A t \in Table \ {"rule_groups"} : \E j \in 1..6 : UndoOrder[j] = t
  /\ \A i, j \in 1..6 : UndoOrder[i] = UndoOrder[j] => i = j
  /\ \A t \in Table \ {"user_groups"}, j \in 1..6 :
       UndoOrder[j] \in Parents(t) /\ UndoOrder[j] # t => \E i \in 1..6 : UndoOrder[i] = t /\ i < j
<1>1. /\ UndoOrder[1] = "forward_rules" /\ UndoOrder[2] = "device_groups" /\ UndoOrder[3] = "nodes"
      /\ UndoOrder[4] = "node_groups" /\ UndoOrder[5] = "users" /\ UndoOrder[6] = "user_groups"
      /\ Len(UndoOrder) = 6
  BY DEF UndoOrder
<1>2. 1..6 = {1, 2, 3, 4, 5, 6}
  OBVIOUS
<1>3. \A j \in 1..6 : UndoOrder[j] \in Table \ {"rule_groups"}
  BY <1>1, <1>2, Tables
<1>4. \A t \in Table \ {"rule_groups"} : \E j \in 1..6 : UndoOrder[j] = t
  BY <1>1, <1>2, Tables
<1>5. \A i, j \in 1..6 : UndoOrder[i] = UndoOrder[j] => i = j
  BY <1>1, <1>2
<1>6. ASSUME NEW t \in Table \ {"user_groups"}, NEW j \in 1..6, UndoOrder[j] \in Parents(t), UndoOrder[j] # t
      PROVE  \E i \in 1..6 : UndoOrder[i] = t /\ i < j
  <2>1. t \in {"users", "node_groups", "nodes", "rule_groups", "device_groups", "forward_rules"}
    BY Tables
  <2>2. CASE t = "users"
    <3>1. UndoOrder[j] = "user_groups"
      BY <1>6, <2>2 DEF Parents
    <3>2. j = 6
      BY <1>1, <1>2, <3>1
    <3> QED BY <1>1, <2>2, <3>2
  <2>3. CASE t = "nodes"
    <3>1. UndoOrder[j] = "node_groups"
      BY <1>6, <2>3 DEF Parents
    <3>2. j = 4
      BY <1>1, <1>2, <3>1
    <3> QED BY <1>1, <2>3, <3>2
  <2>4. CASE t = "device_groups"
    <3>1. UndoOrder[j] = "nodes"
      BY <1>6, <2>4 DEF Parents
    <3>2. j = 3
      BY <1>1, <1>2, <3>1
    <3> QED BY <1>1, <2>4, <3>2
  <2>5. CASE t = "forward_rules"
    <3>1. j # 1
      BY <1>1, <1>6, <2>5
    <3> QED BY <1>1, <2>5, <3>1
  <2>6. CASE t \in {"node_groups", "rule_groups"}
    BY <1>6, <2>6 DEF Parents
  <2> QED BY <2>1, <2>2, <2>3, <2>4, <2>5, <2>6
<1> QED BY <1>1, <1>3, <1>4, <1>5, <1>6

\* A rollback deletes the rows of its batch from one table: nothing that stays
\* refers to them.
LEMMA InvUndo ==
  ASSUME MigrationInv, NEW r \in Runners, rollbackTable(r)
  PROVE  MigrationInv'
<1>1. PICK b : b = runner[r].batch
  OBVIOUS
<1>2. PICK k : k = runner[r].at
  OBVIOUS
<1>3. PICK t : t = UndoOrder[k]
  OBVIOUS
<1>4. PICK written : written = {m.id : m \in {x \in idmap : x.batch = b /\ x.table = t}}
  OBVIOUS
<1>5. PICK s : s = IF k < 6 THEN [runner[r] EXCEPT !.at = @ + 1]
                   ELSE [runner[r] EXCEPT !.pc = "clear"]
  OBVIOUS
<1>6. /\ runner[r].pc = "undo" /\ runner[r].pc \in Undoing /\ AtWork(r)
      /\ target' = [target EXCEPT ![t] = {row \in @ : row.id \notin written}]
      /\ Become(r, s)
      /\ UNCHANGED <<sequence, idmap, batches, native, clash, resumed, again>>
  <2>1. Len(UndoOrder) = 6
    BY Undoings
  <2> QED BY <1>1, <1>2, <1>3, <1>4, <1>5, <2>1 DEF rollbackTable, observed, Undoing, AtWork
<1>7. /\ runner[r] = [pc |-> "undo", batch |-> b, at |-> k] /\ b \in DOMAIN batches /\ k \in 1..6
      /\ Shape
  <2>1. Shape
    BY DEF MigrationInv
  <2> QED BY <1>1, <1>2, <1>6, <2>1, PlannerIs
<1>8. /\ s = [pc |-> s.pc, batch |-> s.batch, at |-> s.at] /\ s.batch = b /\ s.at \in 1..6
      /\ \/ s.pc = "undo" /\ s.at = k + 1
         \/ s.pc = "clear" /\ k = 6
  <2>1. CASE k < 6
    <3>1. s = [pc |-> "undo", batch |-> b, at |-> k + 1]
      BY <1>5, <1>7, <2>1
    <3> QED BY <1>7, <2>1, <3>1
  <2>2. CASE ~(k < 6)
    <3>1. s = [pc |-> "clear", batch |-> b, at |-> k]
      BY <1>5, <1>7, <2>2
    <3> QED BY <1>7, <2>2, <3>1
  <2> QED BY <2>1, <2>2
<1>9. t \in Table \ {"rule_groups"}
  BY <1>3, <1>7, Undoings
<1>10. /\ target' = [u \in Table |-> target'[u]]
       /\ target'[t] = {row \in target[t] : row.id \notin written}
       /\ \A u \in Table \ {t} : target'[u] = target[u]
  <2>1. target = [u \in Table |-> target[u]]
    BY <1>7 DEF Shape, TargetShape
  <2> QED BY <1>6, <1>9, <2>1
<1>11. Shape' /\ runner'[r] = s
  <2>1. RunnerIs(s, DOMAIN batches')
    <3>1. s.pc \in Undoing
      BY <1>8 DEF Undoing
    <3> QED BY <1>6, <1>7, <1>8, <3>1, Zenon DEF RunnerIs
  <2>2. TargetShape(target', sequence')
    BY <1>6, <1>7, <1>10 DEF Shape, TargetShape
  <2>3. /\ MapShape(idmap', DOMAIN batches', sequence') /\ BatchShape(batches')
        /\ DOMAIN batches \subseteq DOMAIN batches' /\ UNCHANGED <<again, resumed, clash>>
    BY <1>6, <1>7 DEF Shape
  <2> QED BY <1>6, <1>7, <2>1, <2>2, <2>3, BecomesWith
<1>12. ASSUME ~clash' PROVE Kept'
  <2>1. Kept
    BY <1>6, <1>12 DEF MigrationInv
  <2>2. \A q \in Runners \ {r} : ~AtWork(q)
    BY <1>6, <2>1, OthersRest
  <2>3. /\ NativeKept /\ Accounted /\ RuleGroupsAlone /\ OneBatch /\ Once /\ References
        /\ Undone(r)
    BY <1>6, <2>1 DEF Kept, Data, RunnerInv
  <2>4. \A m \in idmap : m.table \in Table
    BY <1>7 DEF Shape, MapShape
  \* The rows that stay, and the identifiers.
  <2>5. /\ \A u \in Table : target'[u] \subseteq target[u]
        /\ \A row \in target'[t] : row.id \notin written
        /\ \A u \in Table : \A id : id \in Ids(u) /\ ~(u = t /\ id \in written) => id \in Ids(u)'
        /\ \A u \in Table : \A id : id \in Ids(u)' => id \in Ids(u) /\ ~(u = t /\ id \in written)
    BY <1>10 DEF Ids
  <2>6. \A u, id : Mapped(u, id)' <=> Mapped(u, id)
    BY <1>6 DEF Mapped
  <2>7. \A id \in written : MappedIn(b, t, id) /\ Mapped(t, id)
    BY <1>4 DEF MappedIn, Mapped
  <2>8. NativeKept'
    BY <1>6, <2>3, <2>5, <2>6, <2>7 DEF NativeKept
  <2>9. Accounted' /\ RuleGroupsAlone'
    <3>1. "rule_groups" \in Table
      BY Tables
    <3> QED BY <1>6, <2>3, <2>5, <2>6, <3>1 DEF Accounted, RuleGroupsAlone
  <2>10. OneBatch' /\ Once'
    BY <1>6, <2>3 DEF OneBatch, Once
  <2>11. References'
    <3> SUFFICES ASSUME NEW m \in idmap, NEW row \in target'[m.table], row.id = m.id,
                        m.table # "user_groups", NEW ref \in row.refs
                 PROVE  /\ ref[1] \in Parents(m.table)
                        /\ Sound(m.batch)' => MappedIn(m.batch, ref[1], ref[2])' /\ ref[2] \in Ids(ref[1])'
      BY <1>6 DEF References
    <3>1. m.table \in Table /\ row \in target[m.table]
      BY <2>4, <2>5
    <3>2. /\ ref[1] \in Parents(m.table) /\ ref[1] \in Table
          /\ Sound(m.batch) => MappedIn(m.batch, ref[1], ref[2]) /\ ref[2] \in Ids(ref[1])
      <4>1. /\ ref[1] \in Parents(m.table)
            /\ Sound(m.batch) => MappedIn(m.batch, ref[1], ref[2]) /\ ref[2] \in Ids(ref[1])
        BY <2>3, <3>1 DEF References
      <4> QED BY <3>1, <4>1, Referring
    <3>3. Sound(m.batch)' <=> Sound(m.batch)
      BY <1>6 DEF Sound, PassedBatch
    <3>4. ASSUME Sound(m.batch), ref[1] = t, ref[2] \in written PROVE FALSE
      <4>1. PICK n \in idmap : n.batch = m.batch /\ n.table = t /\ n.id = ref[2]
        BY <3>2, <3>4 DEF MappedIn
      <4>2. PICK o \in idmap : o.batch = b /\ o.table = t /\ o.id = ref[2]
        BY <2>7, <3>4 DEF MappedIn
      <4>3. m.batch = b
        BY <2>3, <4>1, <4>2 DEF OneBatch
      <4>4. CASE m.table = t
        <5>1. m.id \in written
          BY <1>4, <4>3, <4>4
        <5> QED BY <2>5, <4>4, <5>1
      <4>5. CASE m.table # t
        <5>1. PICK i \in 1..6 : UndoOrder[i] = m.table /\ i < k
          BY <1>3, <1>7, <3>1, <3>2, <3>4, <4>5, Undoings
        <5>2. m.id \notin Ids(m.table)
          BY <1>1, <1>2, <2>3, <4>3, <5>1 DEF Undone
        <5> QED BY <3>1, <5>2 DEF Ids
      <4> QED BY <4>4, <4>5
    <3>5. MappedIn(m.batch, ref[1], ref[2])' <=> MappedIn(m.batch, ref[1], ref[2])
      BY <1>6 DEF MappedIn
    <3> QED BY <2>5, <3>2, <3>3, <3>4, <3>5
  <2>12. RunnerInv(r)'
    <3>1. /\ runner'[r].batch = b
          /\ \/ runner'[r].pc = "undo" /\ runner'[r].at = k + 1
             \/ runner'[r].pc = "clear" /\ k = 6
      BY <1>8, <1>11
    <3>2. Undone(r)'
      <4> SUFFICES ASSUME NEW m \in idmap, NEW j \in 1..6, m.batch = b, m.table = UndoOrder[j],
                          runner'[r].pc = "clear" \/ j < runner'[r].at
                   PROVE  m.id \notin Ids(m.table)'
        BY <1>6, <3>1 DEF Undone
      <4>1. j < k \/ j = k
        BY <1>7, <3>1
      <4>2. CASE j < k
        <5>1. m.id \notin Ids(m.table)
          BY <1>1, <1>2, <2>3, <4>2 DEF Undone
        <5> QED BY <2>4, <2>5, <5>1
      <4>3. CASE j = k
        <5>1. m.table = t /\ m.id \in written
          BY <1>3, <1>4, <4>3
        <5> QED BY <2>4, <2>5, <5>1
      <4> QED BY <4>1, <4>2, <4>3
    <3>3. runner'[r].pc \in {"undo", "clear"}
      BY <3>1
    <3> QED BY <3>2, <3>3 DEF RunnerInv, HasPlan, Planning, Writing
  <2>13. Data'
    BY <2>8, <2>9, <2>10, <2>11 DEF Data
  <2> QED BY <1>6, <1>7, <2>1, <2>2, <2>12, <2>13, Turn
<1> QED BY <1>11, <1>12 DEF MigrationInv

\* A rollback ends: no row of its batch is left, but for rule groups.
LEMMA InvClose ==
  ASSUME MigrationInv, NEW r \in Runners, closeRollback(r)
  PROVE  MigrationInv'
<1>1. PICK b : b = runner[r].batch
  OBVIOUS
<1>2. /\ runner[r].pc = "clear" /\ runner[r].pc \in Undoing /\ AtWork(r) /\ Become(r, Unoccupied)
      /\ idmap' = {m \in idmap : m.batch # b}
      /\ batches' = [batches EXCEPT ![b].status = "rolled_back"]
      /\ UNCHANGED <<target, sequence, native, clash, resumed, again>>
  BY <1>1 DEF closeRollback, observed, Undoing, AtWork
<1>3. b \in DOMAIN batches /\ Shape
  BY <1>1, <1>2, PlannerIs DEF MigrationInv
<1>4. PICK new : new = [batches[b] EXCEPT !.status = "rolled_back"]
  OBVIOUS
<1>5. /\ new \in [status : {"running", "failed", "finished", "rolled_back"}, passed : BOOLEAN]
  <2>1. batches[b] \in [status : {"running", "failed", "finished", "rolled_back"}, passed : BOOLEAN]
    <3>1. PICK S : S = [status : {"running", "failed", "finished", "rolled_back"}, passed : BOOLEAN]
      OBVIOUS
    <3>2. batches \in Seq(S)
      BY <1>3, <3>1 DEF Shape, BatchShape
    <3>3. batches[b] \in S
      BY <1>3, <3>2
    <3> QED BY <3>1, <3>3
  <2> QED BY <1>4, <2>1
<1>6. batches' = [batches EXCEPT ![b] = new]
  BY <1>2, <1>4
<1>7. /\ BatchShape(batches') /\ DOMAIN batches' = DOMAIN batches
      /\ batches'[b] = new /\ \A c \in DOMAIN batches : c # b => batches'[c] = batches[c]
  BY <1>3, <1>5, <1>6, OneChanged
<1>8. Shape' /\ runner'[r] = Unoccupied
  <2>1. RunnerIs(Unoccupied, DOMAIN batches') /\ UNCHANGED <<again, resumed, clash>>
    BY <1>2 DEF RunnerIs
  <2>2. MapShape(idmap', DOMAIN batches', sequence') /\ TargetShape(target', sequence')
    BY <1>2, <1>3, <1>7 DEF Shape, MapShape
  <2> QED BY <1>2, <1>3, <1>7, <2>1, <2>2, BecomesWith
<1>9. ASSUME ~clash' PROVE Kept'
  <2>1. Kept
    BY <1>2, <1>9 DEF MigrationInv
  <2>2. \A q \in Runners \ {r} : ~AtWork(q)
    BY <1>2, <2>1, OthersRest
  <2>3. /\ NativeKept /\ Accounted /\ RuleGroupsAlone /\ OneBatch /\ Once /\ References
        /\ Undone(r)
    BY <1>2, <2>1 DEF Kept, Data, RunnerInv
  <2>4. \A u : Ids(u)' = Ids(u)
    BY <1>2 DEF Ids
  <2>5. NativeKept'
    BY <1>2, <2>3, <2>4 DEF NativeKept, Mapped
  <2>6. Accounted'
    <3> SUFFICES ASSUME NEW t \in Table \ {"rule_groups"}, NEW row \in target[t], <<t, row.id>> \notin native
                 PROVE  Mapped(t, row.id)'
      BY <1>2 DEF Accounted
    <3>1. PICK m \in idmap : m.table = t /\ m.id = row.id
      BY <2>3 DEF Accounted, Mapped
    <3>2. m.batch # b
      <4> SUFFICES ASSUME m.batch = b PROVE FALSE
        OBVIOUS
      <4>1. PICK j \in 1..6 : UndoOrder[j] = t
        BY Undoings
      <4>2. m.id \notin Ids(t)
        BY <1>1, <1>2, <2>3, <3>1, <4>1 DEF Undone
      <4> QED BY <3>1, <4>2 DEF Ids
    <3> QED BY <1>2, <3>1, <3>2 DEF Mapped
  <2>7. RuleGroupsAlone' /\ OneBatch' /\ Once'
    BY <1>2, <2>3 DEF RuleGroupsAlone, OneBatch, Once
  <2>8. References'
    <3> SUFFICES ASSUME NEW m \in idmap', NEW row \in target[m.table], row.id = m.id,
                        m.table # "user_groups", NEW ref \in row.refs
                 PROVE  /\ ref[1] \in Parents(m.table)
                        /\ Sound(m.batch)' => MappedIn(m.batch, ref[1], ref[2])' /\ ref[2] \in Ids(ref[1])
      BY <1>2, <2>4 DEF References
    <3>1. m \in idmap /\ m.batch # b /\ m.batch \in DOMAIN batches
      BY <1>2, <1>3 DEF Shape, MapShape
    <3>2. Sound(m.batch)' <=> Sound(m.batch)
      BY <1>2, <1>7, <3>1 DEF Sound, PassedBatch
    <3>3. MappedIn(m.batch, ref[1], ref[2])' <=> MappedIn(m.batch, ref[1], ref[2])
      BY <1>2, <3>1 DEF MappedIn
    <3> QED BY <2>3, <3>1, <3>2, <3>3 DEF References
  <2>9. Data'
    BY <2>5, <2>6, <2>7, <2>8 DEF Data
  <2>10. RunnerInv(r)'
    BY <1>8, Resting
  <2> QED BY <1>2, <1>3, <2>1, <2>2, <2>9, <2>10, Turn
<1> QED BY <1>8, <1>9 DEF MigrationInv

\* The panel creates a row while nobody is at work.
LEMMA InvCreate ==
  ASSUME MigrationInv, NEW t \in Table, PanelCreate(t)
  PROVE  MigrationInv'
<1>1. PICK id : id = sequence[t] + 1
  OBVIOUS
<1>2. PICK new : new = [id |-> id, name |-> Plain("new"), on |-> TRUE, refs |-> {}]
  OBVIOUS
<1>3. /\ target' = [target EXCEPT ![t] = @ \cup {new}]
      /\ sequence' = [sequence EXCEPT ![t] = id]
      /\ native' = native \cup {<<t, id>>}
      /\ clash' = (clash \/ \E r \in Runners : AtWork(r))
      /\ UNCHANGED <<idmap, batches, runner, resumed, again>>
  BY <1>1, <1>2 DEF PanelCreate
<1>4. /\ new.id = id /\ new.refs = {}
  BY <1>2
<1>5. /\ Shape /\ sequence \in [Table -> Nat] /\ target = [u \in Table |-> target[u]]
      /\ sequence[t] \in Nat /\ id \in Nat \ {0}
      /\ \A x \in Nat : x \in 1..sequence[t] => x \in 1..id /\ x # id
  BY <1>1 DEF MigrationInv, Shape, TargetShape
<1>6. /\ target' = [u \in Table |-> target'[u]] /\ sequence' \in [Table -> Nat]
      /\ target'[t] = target[t] \cup {new} /\ sequence'[t] = id
      /\ \A u \in Table \ {t} : target'[u] = target[u] /\ sequence'[u] = sequence[u]
  BY <1>3, <1>5
<1>7. Shape'
  <2>1. TargetShape(target', sequence')
    <3>1. \A u \in Table : \A row \in target'[u] : row.id \in 1..sequence'[u]
      BY <1>4, <1>5, <1>6 DEF Shape, TargetShape
    <3> QED BY <1>6, <3>1 DEF TargetShape
  <2>2. MapShape(idmap', DOMAIN batches', sequence')
    BY <1>3, <1>5, <1>6 DEF Shape, MapShape
  <2> QED BY <1>3, <1>5, <2>1, <2>2 DEF Shape
<1>8. ASSUME ~clash' PROVE Kept'
  <2>1. Kept /\ \A r \in Runners : ~AtWork(r)
    BY <1>3, <1>8 DEF MigrationInv
  <2>2. /\ NativeKept /\ Accounted /\ RuleGroupsAlone /\ OneBatch /\ Once /\ References
    BY <2>1 DEF Kept, Data
  <2>3. /\ \A m \in idmap : m.table \in Table /\ ~(m.table = t /\ m.id = id)
    BY <1>5 DEF Shape, MapShape
  <2>4. \A u \in Table : \A x : x \in Ids(u)' <=> x \in Ids(u) \/ (u = t /\ x = id)
    BY <1>4, <1>6 DEF Ids
  <2>5. \A u, x : Mapped(u, x)' <=> Mapped(u, x)
    BY <1>3 DEF Mapped
  <2>6. NativeKept'
    <3> SUFFICES ASSUME NEW u \in Table, NEW x \in Nat, <<u, x>> \in native'
                 PROVE  x \in Ids(u)' /\ ~Mapped(u, x)
      BY <2>5 DEF NativeKept
    <3>1. <<u, x>> \in native \/ (u = t /\ x = id)
      BY <1>3
    <3> QED BY <2>2, <2>3, <2>4, <3>1 DEF NativeKept, Mapped
  <2>7. Accounted' /\ RuleGroupsAlone'
    BY <1>3, <1>4, <1>6, <2>2, <2>5, Tables DEF Accounted, RuleGroupsAlone
  <2>8. OneBatch' /\ Once'
    BY <1>3, <2>2 DEF OneBatch, Once
  <2>9. References'
    <3> SUFFICES ASSUME NEW m \in idmap, NEW row \in target'[m.table], row.id = m.id,
                        m.table # "user_groups", NEW ref \in row.refs
                 PROVE  /\ ref[1] \in Parents(m.table)
                        /\ Sound(m.batch) => MappedIn(m.batch, ref[1], ref[2]) /\ ref[2] \in Ids(ref[1])'
      BY <1>3 DEF References, Sound, PassedBatch, MappedIn
    <3>1. row \in target[m.table]
      BY <1>4, <1>6, <2>3
    <3>2. /\ ref[1] \in Parents(m.table)
          /\ Sound(m.batch) => MappedIn(m.batch, ref[1], ref[2]) /\ ref[2] \in Ids(ref[1])
      BY <2>2, <3>1 DEF References
    <3>3. ref[1] \in Table
      BY <2>3, <3>2, Referring
    <3> QED BY <2>4, <3>2, <3>3
  <2>10. OneAtWork' /\ \A r \in Runners : RunnerInv(r)'
    <3>1. \A r \in Runners : runner'[r].pc = "idle"
      BY <1>3, <2>1 DEF AtWork
    <3> QED BY <3>1 DEF OneAtWork, AtWork, RunnerInv, HasPlan, Planning, Writing, Undoing
  <2> QED BY <2>6, <2>7, <2>8, <2>9, <2>10 DEF Kept, Data
<1> QED BY <1>7, <1>8 DEF MigrationInv

---------------------------------------------------------------------------
\* Writing a chunk

\* The rows of a chunk are those of the plan from start to the last that still
\* fits, but for those that are done.
ChunkIs(r, t, rows, start, last) ==
  /\ last = IF start + ChunkSize - 1 < Len(rows) THEN start + ChunkSize - 1 ELSE Len(rows)
  /\ DOMAIN rows = 1..Len(rows) /\ Len(rows) \in Nat /\ start \in 1..(Len(rows) + 1)
  /\ \A p : p \in Pending(r) <=>
       \E i \in start..last : p = rows[i] /\ <<t, rows[i].source>> \notin runner[r].done

\* The rows a runner writes in one transaction are those of one chunk.
LEMMA Chunked ==
  ASSUME Shape, NEW r \in Runners, runner[r].pc = "write", NEW t, t = Order[runner[r].at],
         NEW rows, rows = runner[r].plan.rows[t], NEW start, start = runner[r].start
  PROVE  \E last \in Nat : ChunkIs(r, t, rows, start, last)
<1>1. /\ PlanRows(runner[r].plan.rows) /\ runner[r].at \in 1..7
      /\ start \in 1..(Len(rows) + 1)
  <2>1. runner[r].pc \in Writing
    BY DEF Writing
  <2> QED BY <2>1, WriterIs
<1>2. IsSeq(rows)
  <2>1. Order[runner[r].at] \in Table
    BY <1>1, Tables
  <2> QED BY <1>1, <2>1 DEF PlanRows
<1>3. rows \in Seq(Range(rows)) /\ DOMAIN rows = 1..Len(rows) /\ Len(rows) \in Nat
  BY <1>2, Appended DEF IsSeq
<1>4. ChunkSize \in Nat \ {0}
  BY BoundAssumption
<1>5. PICK last \in Nat :
        last = IF start + ChunkSize - 1 < Len(rows) THEN start + ChunkSize - 1 ELSE Len(rows)
  <2>1. PICK n \in Nat : n = Len(rows)
    BY <1>3
  <2>2. PICK c \in Nat : c = ChunkSize /\ c # 0
    BY <1>4
  <2>3. start \in 1..(n + 1)
    BY <1>1, <2>1
  <2>4. PICK m \in Nat : m = IF start + c - 1 < n THEN start + c - 1 ELSE n
    BY <2>2, <2>3
  <2> QED BY <2>1, <2>2, <2>4
<1>6. last \in (start - 1)..Len(rows) /\ start \in Int /\ last \in Int
  <2>1. PICK n \in Nat : n = Len(rows)
    BY <1>3
  <2>2. PICK c \in Nat : c = ChunkSize /\ c # 0
    BY <1>4
  <2>3. start \in 1..(n + 1) /\ last = IF start + c - 1 < n THEN start + c - 1 ELSE n
    BY <1>1, <1>5, <2>1, <2>2
  <2>4. last \in (start - 1)..n /\ start \in Int /\ last \in Int
    BY <2>2, <2>3
  <2> QED BY <2>1, <2>4
<1>7. PICK chunk : chunk = SubSeq(rows, start, last)
  OBVIOUS
<1>8. Chunk(r) = chunk
  BY <1>5, <1>7 DEF Chunk
<1>9. /\ Len(chunk) = last - start + 1 /\ chunk \in Seq(Range(rows))
      /\ \A i \in 1..(last - start + 1) : chunk[i] = rows[start + i - 1]
  <2>1. \A i \in start..last : rows[i] \in Range(rows)
    <3>1. \A i \in start..last : i \in 1..Len(rows)
      BY <1>1, <1>3, <1>6
    <3> QED BY <1>3, <3>1 DEF Range
  <2>2. /\ chunk \in Seq(Range(rows)) /\ Len(chunk) = IF start <= last THEN last - start + 1 ELSE 0
        /\ \A i \in 1..(last - start + 1) : chunk[i] = rows[start + i - 1]
    <3>1. PICK S : S = Range(rows)
      OBVIOUS
    <3>2. start \in Int /\ last \in Int /\ \A i \in start..last : rows[i] \in S
      BY <1>6, <2>1, <3>1
    <3>3. /\ SubSeq(rows, start, last) \in Seq(S)
          /\ Len(SubSeq(rows, start, last)) = IF start <= last THEN last - start + 1 ELSE 0
          /\ \A i \in 1..(last - start + 1) : SubSeq(rows, start, last)[i] = rows[start + i - 1]
      BY ONLY <3>2, SubSeqProperties
    <3> QED BY <1>7, <3>1, <3>3
  <2>3. last >= start - 1
    BY <1>6
  <2>4. Len(chunk) = last - start + 1
    BY <1>6, <2>2, <2>3
  <2> QED BY <2>2, <2>4
<1>10. DOMAIN chunk = 1..(last - start + 1)
  BY <1>9
<1>11. ASSUME NEW p
       PROVE p \in Range(chunk) <=> \E i \in start..last : p = rows[i]
  <2>1. ASSUME p \in Range(chunk) PROVE \E i \in start..last : p = rows[i]
    <3>1. PICK i \in 1..(last - start + 1) : chunk[i] = p
      BY <1>10, <2>1 DEF Range
    <3>2. start + i - 1 \in start..last
      BY <1>1, <1>3, <3>1
    <3> QED BY <1>9, <3>1, <3>2
  <2>2. ASSUME NEW i \in start..last, p = rows[i] PROVE p \in Range(chunk)
    <3>4. start \in Int /\ last \in Int /\ i \in Int /\ start <= i /\ i <= last
      BY <1>1, <1>3, <2>2
    <3>5. i - start + 1 \in 1..(last - start + 1)
      BY ONLY <3>4
    <3>1. PICK j \in 1..(last - start + 1) : j = i - start + 1
      BY <3>5
    <3>2. start + j - 1 = i
      BY ONLY <3>1, <3>4
    <3>3. chunk[j] = p
      BY <1>9, <2>2, <3>1, <3>2
    <3> QED BY <1>10, <3>1, <3>3 DEF Range
  <2> QED BY <2>1, <2>2
<1>12. \A p : p \in Pending(r) <=>
         \E i \in start..last : p = rows[i] /\ <<t, rows[i].source>> \notin runner[r].done
  BY <1>8, <1>11, Zenon DEF Pending
<1> QED BY <1>1, <1>3, <1>5, <1>12 DEF ChunkIs

\* Where the writer goes after a chunk, and what is behind it then.
LEMMA NextRowIs ==
  ASSUME Shape, NEW r \in Runners, runner[r].pc = "write",
         NEW rows, rows = runner[r].plan.rows[Order[runner[r].at]],
         NEW s, s = NextRow(r), NEW start, start = runner[r].start, NEW at, at = runner[r].at
  PROVE  /\ s = [pc |-> s.pc, plan |-> runner[r].plan, batch |-> runner[r].batch,
                 at |-> s.at, start |-> s.start, done |-> runner[r].done]
         /\ s.pc \in {"write", "traffic"} /\ s.at \in 1..7
         /\ s.start \in 1..(Len(runner[r].plan.rows[Order[s.at]]) + 1)
         /\ s.pc = "write" =>
              \/ s.at = at /\ s.start = start + ChunkSize /\ s.start <= Len(rows)
              \/ s.at = at + 1 /\ s.start = 1 /\ start + ChunkSize > Len(rows)
<1>1. /\ runner[r] = [pc |-> "write", plan |-> runner[r].plan, batch |-> runner[r].batch,
                      at |-> at, start |-> start, done |-> runner[r].done]
      /\ PlanRows(runner[r].plan.rows) /\ at \in 1..7 /\ start \in 1..(Len(rows) + 1)
  <2>1. runner[r].pc \in Writing
    BY DEF Writing
  <2> QED BY <2>1, WriterIs
<1>2. \A k \in 1..7 : Len(runner[r].plan.rows[Order[k]]) \in Nat
  <2> SUFFICES ASSUME NEW k \in 1..7 PROVE Len(runner[r].plan.rows[Order[k]]) \in Nat
    OBVIOUS
  <2>1. Order[k] \in Table
    BY Tables
  <2>2. IsSeq(runner[r].plan.rows[Order[k]])
    BY <1>1, <2>1 DEF PlanRows
  <2> QED BY <2>2, Appended
<1>3. /\ Len(rows) \in Nat /\ start \in Nat \ {0} /\ ChunkSize \in Nat \ {0} /\ Len(Order) = 7
      /\ at \in Nat
  <2>1. rows = runner[r].plan.rows[Order[at]]
    OBVIOUS
  <2>2. Len(rows) \in Nat
    BY <1>1, <1>2, <2>1
  <2> QED BY SMTT(30), <1>1, <2>2, BoundAssumption, Tables
<1>0. PICK n \in Nat : n = Len(rows)
  BY <1>3
<1>7. PICK next \in Nat : next = start + ChunkSize /\ next # 0
  BY <1>3
<1>4. CASE start + ChunkSize <= Len(rows)
  <2>1. s = [runner[r] EXCEPT !.start = start + ChunkSize]
    BY <1>4 DEF NextRow
  <2>2. s = [pc |-> "write", plan |-> runner[r].plan, batch |-> runner[r].batch,
             at |-> at, start |-> next, done |-> runner[r].done]
    BY <1>1, <1>7, <2>1
  <2>3. next \in 1..(n + 1)
    <3>1. next <= n
      BY <1>0, <1>4, <1>7
    <3> QED BY ONLY <1>7, <3>1
  <2>4. next \in 1..(Len(runner[r].plan.rows[Order[at]]) + 1)
    <3>1. Len(runner[r].plan.rows[Order[at]]) = n
      BY <1>0
    <3> QED BY ONLY <2>3, <3>1
  <2> QED BY <1>1, <1>4, <1>7, <2>2, <2>4
<1>5. CASE ~(start + ChunkSize <= Len(rows)) /\ at < 7
  <2>1. s = [runner[r] EXCEPT !.at = @ + 1, !.start = 1]
    BY <1>3, <1>5 DEF NextRow
  <2>2. s = [pc |-> "write", plan |-> runner[r].plan, batch |-> runner[r].batch,
             at |-> at + 1, start |-> 1, done |-> runner[r].done]
    BY <1>1, <2>1
  <2>3. at + 1 \in 1..7
    BY <1>1, <1>5
  <2>4. start + ChunkSize > Len(rows)
    <3>1. ~(next <= n)
      BY <1>0, <1>5, <1>7
    <3>2. next > n
      BY <3>1
    <3> QED BY <1>0, <1>7, <3>2
  <2>5. PICK m \in Nat : m = Len(runner[r].plan.rows[Order[at + 1]])
    BY <1>2, <2>3
  <2>6. 1 \in 1..(m + 1)
    OBVIOUS
  <2>7. 1 \in 1..(Len(runner[r].plan.rows[Order[at + 1]]) + 1)
    BY <2>5, <2>6
  <2> QED BY <2>2, <2>3, <2>4, <2>7
<1>6. CASE ~(start + ChunkSize <= Len(rows)) /\ ~(at < 7)
  <2>1. s = [runner[r] EXCEPT !.pc = "traffic"]
    BY <1>3, <1>6 DEF NextRow
  <2>2. s = [pc |-> "traffic", plan |-> runner[r].plan, batch |-> runner[r].batch,
             at |-> at, start |-> start, done |-> runner[r].done]
    BY <1>1, <2>1
  <2> QED BY <1>1, <2>2
<1> QED BY <1>4, <1>5, <1>6

\* The rows of a chunk are rows of the plan, and the sequence is raised to the
\* largest of their identifiers.
LEMMA Raised ==
  ASSUME Shape, NEW r \in Runners, runner[r].pc = "write", NEW t, t = Order[runner[r].at],
         NEW rows, rows = runner[r].plan.rows[t],
         NEW top, top = Max({row.id : row \in Pending(r)} \cup {sequence[t]})
  PROVE  /\ t \in Table /\ top \in Nat /\ sequence[t] <= top
         /\ \A p \in Pending(r) : /\ \E i \in DOMAIN rows : rows[i] = p
                                  /\ <<t, p.source>> \notin runner[r].done
                                  /\ p.id \in 1..top /\ p.source \in Nat
<1>1. /\ PlanRows(runner[r].plan.rows) /\ runner[r].at \in 1..7
  <2>1. runner[r].pc \in Writing
    BY DEF Writing
  <2> QED BY <2>1, WriterIs
<1>2. t \in Table /\ sequence[t] \in Nat
  BY <1>1, Tables DEF Shape, TargetShape
<1>18. PICK start : start = runner[r].start
  OBVIOUS
<1>19. PICK last \in Nat : ChunkIs(r, t, rows, start, last)
  BY <1>18, Chunked
<1>3. /\ DOMAIN rows = 1..Len(rows) /\ Len(rows) \in Nat /\ start \in 1..(Len(rows) + 1)
      /\ last = IF start + ChunkSize - 1 < Len(rows) THEN start + ChunkSize - 1 ELSE Len(rows)
  BY <1>19 DEF ChunkIs
<1>4. PICK n \in Nat : n = Len(rows)
  BY <1>3
<1>5. \A i \in start..last : i \in 1..n
  <2>1. PICK c \in Nat : c = ChunkSize
    BY BoundAssumption
  <2>2. start \in 1..(n + 1) /\ last = IF start + c - 1 < n THEN start + c - 1 ELSE n
    BY <1>3, <1>4, <2>1
  <2> QED BY <2>2
<1>6. \A p \in Pending(r) : \E i \in 1..n : rows[i] = p /\ <<t, p.source>> \notin runner[r].done
  <2> SUFFICES ASSUME NEW p \in Pending(r)
               PROVE  \E i \in 1..n : rows[i] = p /\ <<t, p.source>> \notin runner[r].done
    OBVIOUS
  <2>1. PICK i \in start..last : p = rows[i] /\ <<t, rows[i].source>> \notin runner[r].done
    <3>1. \A q : q \in Pending(r) <=>
            \E i \in start..last : q = rows[i] /\ <<t, rows[i].source>> \notin runner[r].done
      BY <1>19, Zenon DEF ChunkIs
    <3>2. PICK i \in start..last : p = rows[i] /\ <<t, rows[i].source>> \notin runner[r].done
      BY <3>1, Zenon
    <3> QED BY <3>2
  <2> QED BY <1>5, <2>1
<1>7. \A i \in 1..n : rows[i].id \in Nat \ {0} /\ rows[i].source \in Nat
  BY <1>1, <1>2, <1>3, <1>4 DEF PlanRows, RowPlanned
<1>8. PICK f : f = [i \in 1..n |-> rows[i].id]
  OBVIOUS
<1>9. PICK b \in Nat : \A i \in 1..n : rows[i].id <= b
  <2>1. \A i \in 1..n : f[i] \in Nat
    BY <1>7, <1>8
  <2>2. PICK b \in Nat : \A i \in 1..n : f[i] <= b
    BY <2>1, Bounded
  <2> QED BY <1>8, <2>2
<1>10. PICK S : S = {row.id : row \in Pending(r)} \cup {sequence[t]}
  OBVIOUS
<1>11. PICK q \in Nat : q = sequence[t]
  BY <1>2
<1>12. S \in SUBSET Nat /\ S # {} /\ \A x \in S : x <= b \/ x = q
  <2>1. \A p \in Pending(r) : p.id \in Nat /\ p.id <= b
    BY <1>6, <1>7, <1>9, Zenon
  <2>2. sequence[t] \in Nat
    BY <1>2
  <2> QED BY <1>10, <1>11, <2>1, <2>2
<1>13. PICK c \in Nat : b <= c /\ q <= c
  <2>1. b <= q \/ q <= b
    OBVIOUS
  <2> QED BY <2>1
<1>14. top \in S /\ \A x \in S : x <= top
  <2>1. \A x \in S : x <= c
    BY <1>12, <1>13
  <2>2. Max(S) \in S /\ \A x \in S : x <= Max(S)
    BY <1>12, <2>1, MaxOf
  <2> QED BY <1>10, <2>2
<1>15. top \in Nat
  BY <1>12, <1>14
<1>16. sequence[t] <= top /\ \A p \in Pending(r) : p.id <= top
  BY <1>10, <1>14
<1>17. ASSUME NEW p \in Pending(r)
       PROVE  /\ \E i \in DOMAIN rows : rows[i] = p
              /\ <<t, p.source>> \notin runner[r].done /\ p.id \in 1..top /\ p.source \in Nat
  <2>1. PICK i \in 1..n : rows[i] = p /\ <<t, p.source>> \notin runner[r].done
    BY <1>6
  <2>2. p.id \in Nat \ {0} /\ p.source \in Nat
    BY <1>7, <2>1
  <2>3. p.id \in 1..top
    BY <1>15, <1>16, <2>2
  <2> QED BY <1>3, <1>4, <2>1, <2>2, <2>3
<1> QED BY <1>2, <1>15, <1>16, <1>17

\* A chunk is written with its map entries.
LEMMA InvWrite ==
  ASSUME MigrationInv, NEW r \in Runners, writeTable(r)
  PROVE  MigrationInv'
<1>0. PICK t : t = Order[runner[r].at]
  OBVIOUS
<1>1. PICK b : b = runner[r].batch
  OBVIOUS
<1>2. PICK R : R = runner[r].plan.rows
  OBVIOUS
<1>3. PICK P : P = Pending(r)
  OBVIOUS
<1>4. PICK s : s = NextRow(r)
  OBVIOUS
<1>5. PICK top : top = Max({row.id : row \in Pending(r)} \cup {sequence[t]})
  OBVIOUS
<1>6. PICK entries : entries = {[batch |-> b, table |-> t, source |-> row.source, id |-> row.id] : row \in P}
  OBVIOUS
<1>7. /\ runner[r].pc = "write" /\ runner[r].pc \in Writing /\ AtWork(r) /\ Become(r, s)
      /\ target' = [target EXCEPT ![t] = Upserted(t, P)]
      /\ sequence' = [sequence EXCEPT ![t] = Max({row.id : row \in Pending(r)} \cup {@})]
      /\ idmap' = idmap \cup entries
      /\ UNCHANGED <<batches, native, clash, resumed, again>>
  BY <1>0, <1>1, <1>3, <1>4, <1>6 DEF writeTable, observed, Writing, AtWork
<1>8. /\ Shape /\ PlanRows(R) /\ b \in DOMAIN batches /\ runner[r].at \in 1..7
  <2>1. Shape
    BY DEF MigrationInv
  <2> QED BY <1>1, <1>2, <1>7, <2>1, WriterIs
<1>9. /\ t \in Table /\ top \in Nat /\ sequence[t] <= top
      /\ \A p \in P : /\ \E i \in DOMAIN R[t] : R[t][i] = p
                      /\ <<t, p.source>> \notin runner[r].done
                      /\ p.id \in 1..top /\ p.source \in Nat
  <2>1. PICK rows : rows = R[t]
    OBVIOUS
  <2>2. rows = runner[r].plan.rows[t]
    BY <1>2, <2>1
  <2>3. /\ t \in Table /\ top \in Nat /\ sequence[t] <= top
        /\ \A p \in Pending(r) : /\ \E i \in DOMAIN rows : rows[i] = p
                                 /\ <<t, p.source>> \notin runner[r].done
                                 /\ p.id \in 1..top /\ p.source \in Nat
    <3>1. Shape /\ runner[r].pc = "write" /\ t = Order[runner[r].at]
      BY <1>0, <1>7, <1>8
    <3> QED BY <1>5, <2>2, <3>1, Raised
  <2> QED BY <1>3, <2>1, <2>3
<1>10. /\ s = [pc |-> s.pc, plan |-> runner[r].plan, batch |-> b,
               at |-> s.at, start |-> s.start, done |-> runner[r].done]
       /\ s.pc \in {"write", "traffic"} /\ s.at \in 1..7
       /\ s.start \in 1..(Len(runner[r].plan.rows[Order[s.at]]) + 1)
       /\ s.pc = "write" =>
            \/ s.at = runner[r].at /\ s.start = runner[r].start + ChunkSize
            \/ s.at = runner[r].at + 1 /\ s.start = 1 /\ runner[r].start + ChunkSize > Len(R[t])
  <2>1. PICK rows : rows = runner[r].plan.rows[Order[runner[r].at]]
    OBVIOUS
  <2>2. R[t] = rows
    BY <1>0, <1>2, <2>1
  <2>3. PICK start : start = runner[r].start
    OBVIOUS
  <2>4. PICK at : at = runner[r].at
    OBVIOUS
  <2>5. /\ s = [pc |-> s.pc, plan |-> runner[r].plan, batch |-> runner[r].batch,
                at |-> s.at, start |-> s.start, done |-> runner[r].done]
        /\ s.pc \in {"write", "traffic"} /\ s.at \in 1..7
        /\ s.start \in 1..(Len(runner[r].plan.rows[Order[s.at]]) + 1)
        /\ s.pc = "write" =>
             \/ s.at = at /\ s.start = start + ChunkSize /\ s.start <= Len(rows)
             \/ s.at = at + 1 /\ s.start = 1 /\ start + ChunkSize > Len(rows)
    <3>1. Shape /\ runner[r].pc = "write"
      BY <1>7, <1>8
    <3> QED BY <1>4, <2>1, <2>3, <2>4, <3>1, NextRowIs
  <2> QED BY <1>1, <2>2, <2>3, <2>4, <2>5
<1>11. /\ s.plan = runner[r].plan /\ s.plan.rows = R /\ s.batch = b /\ s.done = runner[r].done
  BY <1>2, <1>10
<1>12. /\ target' = [u \in Table |-> target'[u]] /\ sequence' \in [Table -> Nat]
       /\ target'[t] = Upserted(t, P) /\ sequence'[t] = top
       /\ \A u \in Table \ {t} : target'[u] = target[u] /\ sequence'[u] = sequence[u]
  <2>1. target = [u \in Table |-> target[u]] /\ sequence \in [Table -> Nat]
    BY <1>8 DEF Shape, TargetShape
  <2>2. sequence' = [sequence EXCEPT ![t] = top]
    BY <1>5, <1>7
  <2> QED BY <1>7, <1>9, <2>1, <2>2
\* A row of the table is one that was there and is not in the chunk, or one of
\* the chunk.
<1>13. /\ \A row \in target'[t] :
            \/ row \in target[t] /\ \A p \in P : p.id # row.id
            \/ \E p \in P : row.id = p.id /\ row.refs = p.refs
       /\ \A row \in target[t] : (\A p \in P : p.id # row.id) => row \in target'[t]
       /\ \A p \in P : \E row \in target'[t] : row.id = p.id
  <2> DEFINE kept == {old \in target[t] : \A p \in P : old.id # p.id}
             stored == {AsStored(t, p) : p \in P}
  <2>1. target'[t] = kept \cup stored
    BY <1>12, Zenon DEF Upserted
  <2>2. \A p \in P : AsStored(t, p).id = p.id /\ AsStored(t, p).refs = p.refs
    BY DEF AsStored
  <2>3. \A row \in stored : \E p \in P : row.id = p.id /\ row.refs = p.refs
    BY <2>2
  <2>4. \A p \in P : \E row \in stored : row.id = p.id
    BY <2>2
  <2>5. \A row \in target[t] : row \in kept <=> \A p \in P : p.id # row.id
    OBVIOUS
  <2>6. kept \subseteq target[t]
    OBVIOUS
  <2> HIDE DEF kept, stored
  <2> QED BY <2>1, <2>3, <2>4, <2>5, <2>6, Zenon
<1>14. \A m : m \in entries <=>
         \E p \in P : m = [batch |-> b, table |-> t, source |-> p.source, id |-> p.id]
  BY <1>6
<1>15. /\ \A m \in entries : m.batch = b /\ m.table = t
                             /\ \E p \in P : m.source = p.source /\ m.id = p.id
       /\ \A p \in P : \E m \in entries : m.batch = b /\ m.table = t /\ m.id = p.id
  <2>1. ASSUME NEW m \in entries
        PROVE  m.batch = b /\ m.table = t /\ \E p \in P : m.source = p.source /\ m.id = p.id
    <3>1. PICK p \in P : m = [batch |-> b, table |-> t, source |-> p.source, id |-> p.id]
      BY <1>14, <2>1, Zenon
    <3> QED BY <3>1
  <2>2. ASSUME NEW p \in P PROVE \E m \in entries : m.batch = b /\ m.table = t /\ m.id = p.id
    <3>1. PICK m : m = [batch |-> b, table |-> t, source |-> p.source, id |-> p.id]
      OBVIOUS
    <3>2. m \in entries
      BY <1>6, <3>1
    <3> QED BY <3>1, <3>2
  <2> QED BY <2>1, <2>2
<1>16. Shape' /\ runner'[r] = s
  <2>1. RunnerIs(s, DOMAIN batches')
    <3>1. s.pc \in Writing
      BY <1>10 DEF Writing
    <3>2. s.start \in 1..(Len(s.plan.rows[Order[s.at]]) + 1)
      BY <1>10, <1>11
    <3>3. PlanRows(s.plan.rows) /\ s.batch \in DOMAIN batches' /\ s.at \in 1..7
      BY <1>7, <1>8, <1>10, <1>11
    <3>4. s = [pc |-> s.pc, plan |-> s.plan, batch |-> s.batch, at |-> s.at, start |-> s.start,
               done |-> s.done]
      BY <1>10, <1>11
    <3> QED BY <3>1, <3>2, <3>3, <3>4, Zenon DEF RunnerIs
  <2>2. TargetShape(target', sequence')
    <3>1. \A u \in Table : sequence[u] \in Nat /\ \A row \in target[u] : row.id \in 1..sequence[u]
      BY <1>8 DEF Shape, TargetShape
    <3>2. \A row \in target'[t] : row.id \in 1..top
      <4>1. \A x \in 1..sequence[t] : x \in 1..top
        BY <1>9, <3>1
      <4> QED BY <1>9, <1>13, <3>1, <4>1
    <3> QED BY <1>9, <1>12, <3>1, <3>2 DEF TargetShape
  <2>3. MapShape(idmap', DOMAIN batches', sequence')
    <3>1. \A u \in Table : \A x \in 1..sequence[u] : x \in 1..sequence'[u]
      <4> SUFFICES ASSUME NEW u \in Table, NEW x \in 1..sequence[u] PROVE x \in 1..sequence'[u]
        OBVIOUS
      <4>1. sequence[u] \in Nat
        BY <1>8 DEF Shape, TargetShape
      <4> QED BY <1>9, <1>12, <4>1
    <3>2. ASSUME NEW m \in idmap'
          PROVE  m \in [batch : DOMAIN batches, table : Table, source : Nat, id : Nat]
                 /\ m.id \in 1..sequence'[m.table]
      <4>1. CASE m \in idmap
        BY <1>8, <3>1, <4>1 DEF Shape, MapShape
      <4>2. CASE m \in entries
        <5>1. PICK p \in P : m = [batch |-> b, table |-> t, source |-> p.source, id |-> p.id]
          BY <1>14, <4>2
        <5>2. p.id \in 1..top /\ p.source \in Nat /\ p.id \in Nat
          <6>1. p.id \in 1..top /\ p.source \in Nat
            BY <1>9, Zenon
          <6> QED BY <1>9, <6>1
        <5> QED BY <1>8, <1>9, <1>12, <5>1, <5>2
      <4> QED BY <1>7, <4>1, <4>2
    <3> QED BY <1>7, <3>2 DEF MapShape
  <2>4. BatchShape(batches') /\ DOMAIN batches \subseteq DOMAIN batches' /\ UNCHANGED <<again, resumed, clash>>
    BY <1>7, <1>8 DEF Shape
  <2> QED BY <1>7, <1>8, <2>1, <2>2, <2>3, <2>4, BecomesWith
<1>17. ASSUME ~clash' PROVE Kept'
  <2>1. Kept
    BY <1>7, <1>17 DEF MigrationInv
  <2>2. \A q \in Runners \ {r} : ~AtWork(q)
    BY <1>7, <2>1, OthersRest
  <2>3. /\ NativeKept /\ Accounted /\ RuleGroupsAlone /\ OneBatch /\ Once /\ References
    BY <2>1 DEF Kept, Data
  <2>4. /\ PlanFree(r) /\ batches[b].status = "running" /\ Sourced(r) /\ Passed(r)
        /\ Foreseen(r)
        /\ b \notin resumed => runner[r].done = {}
    <3>1. PlanFree(r) /\ InBatch(r)
      BY <1>7, <2>1 DEF Kept, RunnerInv, HasPlan
    <3> QED BY <1>1, <1>7, <3>1 DEF InBatch
  <2>5. \A m \in idmap : m.table \in Table /\ m.id \in Nat
    BY <1>8 DEF Shape, MapShape
  \* The identifiers and the map grow by those of the chunk.
  <2>6. /\ \A u \in Table : \A id : id \in Ids(u)' => id \in Ids(u) \/ (u = t /\ \E p \in P : p.id = id)
        /\ \A u \in Table : \A id : id \in Ids(u) => id \in Ids(u)'
        /\ \A p \in P : p.id \in Ids(t)'
    BY <1>9, <1>12, <1>13 DEF Ids
  <2>7. /\ \A c, u, id : MappedIn(c, u, id) => MappedIn(c, u, id)'
        /\ \A p \in P : MappedIn(b, t, p.id)'
        /\ \A u, id : Mapped(u, id) => Mapped(u, id)'
        /\ \A u, id : Mapped(u, id)' => Mapped(u, id) \/ (u = t /\ \E p \in P : p.id = id)
        /\ \A p \in P : Mapped(t, p.id)'
    BY <1>7, <1>15 DEF MappedIn, Mapped
  \* A row of the chunk is the panel's own by no means, and if its identifier is
  \* in use the batch has it.
  <2>8. \A p \in P : /\ p.id \in Nat /\ <<t, p.id>> \notin native
                     /\ p.id \in Ids(t) => MappedIn(b, t, p.id)
    <3> SUFFICES ASSUME NEW p \in P
                 PROVE  /\ p.id \in Nat /\ <<t, p.id>> \notin native
                        /\ p.id \in Ids(t) => MappedIn(b, t, p.id)
      OBVIOUS
    <3>1. PICK i \in DOMAIN R[t] : R[t][i] = p
      BY <1>9
    <3>2. <<t, p.id>> \notin native /\ (p.id \in Ids(t) => MappedIn(b, t, p.id))
      BY <1>1, <1>2, <1>9, <2>4, <3>1 DEF PlanFree
    <3>3. p.id \in Nat
      BY <1>8, <1>9, <3>1 DEF PlanRows, RowPlanned
    <3> QED BY <3>2, <3>3
  <2>9. NativeKept'
    BY <1>7, <2>3, <2>6, <2>7, <2>8 DEF NativeKept
  <2>10. Accounted'
    <3> SUFFICES ASSUME NEW u \in Table \ {"rule_groups"}, NEW row \in target'[u]
                 PROVE  <<u, row.id>> \in native \/ Mapped(u, row.id)'
      BY <1>7 DEF Accounted
    <3>1. CASE row \in target[u]
      BY <2>3, <2>7, <3>1 DEF Accounted
    <3>2. CASE row \notin target[u]
      <4>1. u = t /\ \E p \in P : row.id = p.id
        BY <1>12, <1>13, <3>2
      <4> QED BY <2>7, <4>1
    <3> QED BY <3>1, <3>2
  <2>11. RuleGroupsAlone'
    <3> SUFFICES ASSUME NEW row \in target'["rule_groups"]
                 PROVE  <<"rule_groups", row.id>> \in native \/ row.refs = {}
      BY <1>7 DEF RuleGroupsAlone
    <3>0. "rule_groups" \in Table
      BY Tables
    <3>1. CASE row \in target["rule_groups"]
      BY <2>3, <3>1 DEF RuleGroupsAlone
    <3>2. CASE row \notin target["rule_groups"]
      <4>1. t = "rule_groups"
        BY <1>12, <3>0, <3>2
      <4>2. PICK p \in P : row.refs = p.refs
        BY <1>13, <3>2, <4>1
      <4>3. PICK i \in DOMAIN R[t] : R[t][i] = p
        BY <1>9
      <4>4. \A ref \in p.refs : ref[1] \in Parents("rule_groups")
        BY <1>8, <1>9, <4>1, <4>3 DEF PlanRows, RowPlanned
      <4>5. Parents("rule_groups") = {}
        BY DEF Parents
      <4> QED BY <4>2, <4>4, <4>5
    <3> QED BY <3>1, <3>2
  \* An entry for a row of the chunk that was there before is one of the batch.
  <2>12. \A m \in idmap, p \in P : m.table = t /\ m.id = p.id => m.batch = b
    <3> SUFFICES ASSUME NEW m \in idmap, NEW p \in P, m.table = t, m.id = p.id PROVE m.batch = b
      OBVIOUS
    <3>1. p.id \in Ids(t)
      BY <2>4 DEF PlanFree, AllThere
    <3>2. PICK n \in idmap : n.batch = b /\ n.table = t /\ n.id = p.id
      BY <2>8, <3>1 DEF MappedIn
    <3> QED BY <2>3, <3>2 DEF OneBatch
  <2>13. OneBatch'
    <3> SUFFICES ASSUME NEW m \in idmap \cup entries, NEW n \in idmap \cup entries,
                        m.table = n.table, m.id = n.id
                 PROVE  m.batch = n.batch
      BY <1>7 DEF OneBatch
    <3>1. CASE m \in idmap /\ n \in idmap
      BY <2>3, <3>1 DEF OneBatch
    <3>2. CASE m \in entries /\ n \in entries
      BY <1>15, <3>2
    <3>3. CASE m \in idmap /\ n \in entries
      BY <1>15, <2>12, <3>3
    <3>4. CASE m \in entries /\ n \in idmap
      BY <1>15, <2>12, <3>4
    <3> QED BY <3>1, <3>2, <3>3, <3>4
  <2>14. Once'
    <3>1. ASSUME NEW m \in idmap, NEW p \in P, m.batch = b, m.table = t, m.source = p.source
          PROVE  m.id = p.id
      <4>1. <<t, p.source>> \notin runner[r].done
        BY <1>9
      <4>2. PICK i \in DOMAIN R[t] : R[t][i].source = m.source /\ R[t][i].id = m.id
        BY <1>1, <1>2, <2>4, <3>1, <4>1 DEF Sourced
      <4>3. PICK j \in DOMAIN R[t] : R[t][j] = p
        BY <1>9
      <4> QED BY <1>8, <1>9, <3>1, <4>2, <4>3 DEF PlanRows
    <3>2. ASSUME NEW p \in P, NEW q \in P, p.source = q.source PROVE p.id = q.id
      <4>1. PICK i \in DOMAIN R[t] : R[t][i] = p
        BY <1>9
      <4>2. PICK j \in DOMAIN R[t] : R[t][j] = q
        BY <1>9
      <4> QED BY <1>8, <1>9, <3>2, <4>1, <4>2 DEF PlanRows
    <3> SUFFICES ASSUME NEW m \in idmap \cup entries, NEW n \in idmap \cup entries,
                        m.batch = n.batch, m.table = n.table, m.source = n.source
                 PROVE  m.id = n.id
      BY <1>7 DEF Once
    <3>3. CASE m \in idmap /\ n \in idmap
      BY <2>3, <3>3 DEF Once
    <3>4. CASE m \in entries /\ n \in entries
      BY <1>15, <3>2, <3>4
    <3>5. CASE m \in idmap /\ n \in entries
      BY <1>15, <3>1, <3>5
    <3>6. CASE m \in entries /\ n \in idmap
      BY <1>15, <3>1, <3>6
    <3> QED BY <3>3, <3>4, <3>5, <3>6
  <2>18. PICK start : start = runner[r].start
    OBVIOUS
  <2>19. PICK last \in Nat : ChunkIs(r, t, R[t], start, last)
    <3>1. PICK rows : rows = R[t]
      OBVIOUS
    <3>2. rows = runner[r].plan.rows[t]
      BY <1>2, <3>1
    <3>3. \E last \in Nat : ChunkIs(r, t, rows, start, last)
      BY <1>0, <1>7, <1>8, <2>18, <3>2, Chunked
    <3> QED BY <3>1, <3>3
  <2>16. /\ start = runner[r].start /\ ChunkIs(r, t, R[t], start, last)
    BY <2>18, <2>19
  <2>17. /\ start \in Nat \ {0} /\ last \in Nat
         /\ \A i \in start..last : i \in DOMAIN R[t] /\ i \in Nat
         /\ \A i \in DOMAIN R[t] : i \in Nat /\ (i < start + ChunkSize => i <= last)
         /\ start + ChunkSize > Len(R[t]) => \A i \in DOMAIN R[t] : i <= last
    <3>1. PICK n \in Nat : n = Len(R[t]) /\ DOMAIN R[t] = 1..n
      BY <2>16 DEF ChunkIs
    <3>2. PICK c \in Nat : c = ChunkSize
      BY BoundAssumption
    <3>3. start \in 1..(n + 1) /\ last = IF start + c - 1 < n THEN start + c - 1 ELSE n
      BY <2>16, <3>1, <3>2 DEF ChunkIs
    <3>4. /\ \A i \in start..last : i \in 1..n /\ i \in Nat
          /\ \A i \in 1..n : i \in Nat /\ (i < start + c => i <= last)
          /\ start + c > n => \A i \in 1..n : i <= last
      BY <3>3
    <3> QED BY <3>1, <3>2, <3>3, <3>4
  \* What a row of the chunk refers to was planned before it.
  <2>15. \A p \in P : t # "user_groups" => \A ref \in p.refs :
           /\ ref[1] \in Parents(t)
           /\ PlannedId(r, ref[1], ref[2])
           /\ b \notin resumed => MappedIn(b, ref[1], ref[2])' /\ ref[2] \in Ids(ref[1])'
    <3> SUFFICES ASSUME NEW p \in P, t # "user_groups", NEW ref \in p.refs
                 PROVE  /\ ref[1] \in Parents(t)
                        /\ PlannedId(r, ref[1], ref[2])
                        /\ b \notin resumed => MappedIn(b, ref[1], ref[2])' /\ ref[2] \in Ids(ref[1])'
      OBVIOUS
    <3>1. PICK i \in start..last : p = R[t][i] /\ <<t, p.source>> \notin runner[r].done
      BY <1>3, <2>16, Zenon DEF ChunkIs
    <3>2. i \in DOMAIN R[t] /\ i \in Nat
      BY <2>17, <3>1
    <3>3. RowPlanned(R, t, i)
      BY <1>8, <1>9, <3>2 DEF PlanRows
    <3>4. ref[1] \in Parents(t)
      BY <3>1, <3>3 DEF RowPlanned
    <3>5. PICK j \in DOMAIN R[ref[1]] : R[ref[1]][j].id = ref[2] /\ (ref[1] = t => j < i)
      BY <3>1, <3>3 DEF RowPlanned
    <3>6. /\ ref[1] \in Table
          /\ ref[1] # t => \E k, l \in 1..7 : Order[k] = ref[1] /\ Order[l] = t /\ k < l
      BY <1>9, <3>4, Referring
    <3>7. PlannedId(r, ref[1], ref[2])
      BY <1>2, <3>5 DEF PlannedId
    <3>8. ASSUME b \notin resumed PROVE MappedIn(b, ref[1], ref[2])' /\ ref[2] \in Ids(ref[1])'
      <4>1. runner[r].done = {}
        BY <2>4, <3>8
      <4>2. CASE Behind(r, ref[1], j)
        <5>1. MappedIn(b, ref[1], ref[2])
          BY <1>1, <1>2, <2>4, <3>5, <3>6, <4>1, <4>2 DEF Passed
        <5>2. ref[2] \in Ids(ref[1])
          BY <2>4, <5>1 DEF PlanFree, AllThere, MappedIn
        <5> QED BY <2>6, <2>7, <3>6, <5>1, <5>2
      <4>3. CASE ref[1] # t
        <5>1. PICK k \in 1..7, l \in 1..7 : Order[k] = ref[1] /\ Order[l] = t /\ k < l
          BY <3>6, <4>3
        <5>2. l = runner[r].at
          BY <1>0, <1>8, <5>1, Tables
        <5>3. k \in 1..runner[r].at /\ k # runner[r].at
          BY <1>8, <5>1, <5>2
        <5>4. Behind(r, ref[1], j)
          BY <5>1, <5>3 DEF Behind
        <5> QED BY <4>2, <5>4
      <4>4. CASE ref[1] = t /\ j < start
        <5>1. runner[r].at \in 1..runner[r].at
          BY <1>8
        <5>2. Behind(r, ref[1], j)
          BY <1>0, <2>16, <4>4, <5>1 DEF Behind
        <5> QED BY <4>2, <5>2
      <4>5. CASE ref[1] = t /\ ~(j < start)
        <5>1. j \in start..last
          BY <2>17, <3>1, <3>5, <4>5
        <5>2. R[t][j] \in P
          BY <1>3, <2>16, <4>1, <5>1, Zenon DEF ChunkIs
        <5> QED BY <2>6, <2>7, <3>5, <4>5, <5>2
      <4> QED BY <4>3, <4>4, <4>5
    <3> QED BY <3>4, <3>7, <3>8
  <2>20. Sound(b)' => b \notin resumed
    <3>1. ~PassedBatch(b)'
      BY <1>7, <2>4 DEF PassedBatch
    <3> QED BY <1>7, <3>1 DEF Sound
  <2>21. \A m : Sound(m.batch)' <=> Sound(m.batch)
    BY <1>7 DEF Sound, PassedBatch
  \* The rows and the entries there are after the chunk.
  <2>22. ASSUME NEW m \in idmap', NEW row \in target'[m.table], row.id = m.id
         PROVE  \/ m \in idmap /\ row \in target[m.table]
                \/ m.batch = b /\ m.table = t /\ \E p \in P : row.refs = p.refs
    <3>1. m \in idmap \/ (m.batch = b /\ m.table = t /\ \E p \in P : m.id = p.id)
      BY <1>7, <1>15
    <3>2. m.table \in Table
      BY <1>9, <2>5, <3>1
    <3>3. CASE m.table # t
      BY <1>12, <3>1, <3>2, <3>3
    <3>4. CASE m.table = t /\ \E p \in P : row.id = p.id /\ row.refs = p.refs
      BY <2>12, <2>22, <3>1, <3>4
    <3>5. CASE m.table = t /\ row \in target[t] /\ \A p \in P : p.id # row.id
      BY <2>22, <3>1, <3>5
    <3> QED BY <1>13, <3>3, <3>4, <3>5
  <2>23. References'
    <3> SUFFICES ASSUME NEW m \in idmap', NEW row \in target'[m.table], row.id = m.id,
                        m.table # "user_groups", NEW ref \in row.refs
                 PROVE  /\ ref[1] \in Parents(m.table)
                        /\ Sound(m.batch)' => MappedIn(m.batch, ref[1], ref[2])' /\ ref[2] \in Ids(ref[1])'
      BY DEF References
    <3>1. CASE m \in idmap /\ row \in target[m.table]
      <4>1. /\ ref[1] \in Parents(m.table)
            /\ Sound(m.batch) => MappedIn(m.batch, ref[1], ref[2]) /\ ref[2] \in Ids(ref[1])
        BY <2>3, <3>1 DEF References
      <4>2. ref[1] \in Table
        BY <2>5, <3>1, <4>1, Referring
      <4> QED BY <2>6, <2>7, <2>21, <4>1, <4>2
    <3>2. CASE m.batch = b /\ m.table = t /\ \E p \in P : row.refs = p.refs
      BY <2>15, <2>20, <3>2
    <3> QED BY <2>22, <3>1, <3>2
  <2>24. Data'
    BY <2>9, <2>10, <2>11, <2>13, <2>14, <2>23 DEF Data
  <2>25. RunnerInv(r)'
    <3>1. /\ runner'[r].pc \in {"write", "traffic"} /\ runner'[r].plan = runner[r].plan
          /\ runner'[r].plan.rows = R /\ runner'[r].batch = b /\ runner'[r].done = runner[r].done
          /\ runner'[r].at = s.at /\ runner'[r].start = s.start /\ runner'[r].pc = s.pc
      BY <1>10, <1>11, <1>16
    <3>2. AllThere'
      <4> SUFFICES ASSUME NEW m \in idmap \cup entries PROVE m.id \in Ids(m.table)'
        BY <1>7 DEF AllThere
      <4>1. CASE m \in idmap
        BY <2>4, <2>5, <2>6, <4>1 DEF PlanFree, AllThere
      <4>2. CASE m \in entries
        BY <1>15, <2>6, <4>2
      <4> QED BY <4>1, <4>2
    <3>3. PlanFree(r)'
      <4> SUFFICES ASSUME NEW u \in Table, NEW i \in DOMAIN R[u]
                   PROVE  /\ <<u, R[u][i].id>> \notin native
                          /\ R[u][i].id \in Ids(u)' => MappedIn(b, u, R[u][i].id)'
        BY <1>7, <3>1, <3>2 DEF PlanFree, Writing
      <4>1. /\ <<u, R[u][i].id>> \notin native
            /\ R[u][i].id \in Ids(u) => MappedIn(b, u, R[u][i].id)
        BY <1>1, <1>2, <2>4 DEF PlanFree
      <4> QED BY <2>6, <2>7, <4>1
    <3>4. Sourced(r)'
      <4> SUFFICES ASSUME NEW m \in idmap \cup entries, m.batch = b
                   PROVE  \/ <<m.table, m.source>> \in runner[r].done
                          \/ \E i \in DOMAIN R[m.table] :
                               R[m.table][i].source = m.source /\ R[m.table][i].id = m.id
        BY <1>7, <3>1 DEF Sourced
      <4>1. CASE m \in idmap
        BY <1>1, <1>2, <2>4, <4>1 DEF Sourced
      <4>2. CASE m \in entries
        <5>1. PICK p \in P : m.table = t /\ m.source = p.source /\ m.id = p.id
          BY <1>15, <4>2
        <5>2. PICK i \in DOMAIN R[t] : R[t][i] = p
          BY <1>9
        <5> QED BY <5>1, <5>2
      <4> QED BY <4>1, <4>2
    <3>5. ASSUME runner'[r].pc = "write" PROVE Passed(r)'
      <4> SUFFICES ASSUME NEW u \in Table, NEW i \in DOMAIN R[u], Behind(r, u, i)'
                   PROVE  \/ <<u, R[u][i].source>> \in runner[r].done
                          \/ MappedIn(b, u, R[u][i].id)'
        BY <3>1 DEF Passed
      <4>1. PICK k \in 1..s.at : Order[k] = u /\ (k = s.at => i < s.start)
        BY <3>1 DEF Behind
      <4>2. Behind(r, u, i) \/ (u = t /\ i \in start..last)
        <5>1. CASE s.at = runner[r].at /\ s.start = runner[r].start + ChunkSize
          <6>1. CASE k = s.at
            <7>1. u = t /\ i < start + ChunkSize
              BY <1>0, <2>16, <4>1, <5>1, <6>1
            <7>2. i \in Nat /\ i <= last
              BY <2>17, <7>1
            <7>3. i < start \/ i \in start..last
              BY <2>17, <7>2
            <7>4. i < start => Behind(r, u, i)
              BY <2>16, <4>1, <5>1, <6>1 DEF Behind
            <7> QED BY <7>1, <7>3, <7>4
          <6>2. CASE k # s.at
            BY <4>1, <5>1, <6>2 DEF Behind
          <6> QED BY <6>1, <6>2
        <5>2. CASE /\ s.at = runner[r].at + 1 /\ s.start = 1
                   /\ runner[r].start + ChunkSize > Len(R[t])
          <6>1. CASE k = s.at
            <7>1. i < 1
              BY <4>1, <5>2, <6>1
            <7>2. i \in Nat \ {0}
              <8>1. IsSeq(R[u])
                BY <1>8 DEF PlanRows
              <8> QED BY <8>1, Appended
            <7> QED BY <7>1, <7>2
          <6>2. CASE k = runner[r].at
            <7>1. u = t
              BY <1>0, <4>1, <6>2
            <7>2. i \in Nat /\ i <= last
              BY <2>16, <2>17, <5>2, <7>1
            <7>3. i < start \/ i \in start..last
              BY <2>17, <7>2
            <7>4. k \in 1..runner[r].at
              BY <1>8, <6>2
            <7>5. i < start => Behind(r, u, i)
              BY <2>16, <4>1, <6>2, <7>4 DEF Behind
            <7> QED BY <7>1, <7>3, <7>5
          <6>3. CASE k # s.at /\ k # runner[r].at
            <7>1. k \in 1..runner[r].at
              BY <1>8, <4>1, <5>2, <6>3
            <7> QED BY <4>1, <6>3, <7>1 DEF Behind
          <6> QED BY <6>1, <6>2, <6>3
        <5> QED BY <1>10, <3>1, <3>5, <5>1, <5>2
      <4>3. CASE Behind(r, u, i)
        BY <1>1, <1>2, <1>7, <2>4, <2>7, <4>3 DEF Passed
      <4>4. CASE u = t /\ i \in start..last
        <5>1. <<t, R[t][i].source>> \in runner[r].done \/ R[t][i] \in P
          BY <1>3, <2>16, <4>4, Zenon DEF ChunkIs
        <5> QED BY <2>7, <4>4, <5>1
      <4> QED BY <4>2, <4>3, <4>4
    <3>6. Foreseen(r)'
      <4> SUFFICES ASSUME b \notin again, NEW m \in idmap', NEW row \in target'[m.table],
                          m.batch = b, row.id = m.id, m.table # "user_groups", NEW ref \in row.refs
                   PROVE  MappedIn(b, ref[1], ref[2])' \/ PlannedId(r, ref[1], ref[2])
        BY <1>2, <1>7, <3>1 DEF Foreseen, PlannedId
      <4>1. CASE m \in idmap /\ row \in target[m.table]
        BY <1>1, <2>4, <2>7, <4>1 DEF Foreseen
      <4>2. CASE m.batch = b /\ m.table = t /\ \E p \in P : row.refs = p.refs
        BY <2>15, <4>2
      <4> QED BY <2>22, <4>1, <4>2
    <3>7. InBatch(r)'
      <4>1. batches'[b].status = "running" /\ (b \notin resumed' => runner[r].done = {})
        BY <1>7, <2>4
      <4> QED BY <3>1, <3>4, <3>5, <3>6, <4>1 DEF InBatch
    <3> QED BY <3>1, <3>3, <3>7 DEF RunnerInv, Undoing
  <2> QED BY <1>7, <1>8, <2>1, <2>2, <2>24, <2>25, Turn
<1> QED BY <1>16, <1>17 DEF MigrationInv

---------------------------------------------------------------------------
\* The theorem

\* The invariant is kept by every step.
LEMMA MigrationStep ==
  ASSUME MigrationInv, [NextMigration]_migrationVars
  PROVE  MigrationInv'
<1>1. ASSUME NEW r \in Runners, Step(r) PROVE MigrationInv'
  BY <1>1, InvDryRun, InvRecover, InvOpen, InvWrite, InvTraffic, InvVerify, InvFail, InvUndo, InvClose DEF Step
<1>2. ASSUME NEW r \in Runners, Interrupt(r) PROVE MigrationInv'
  BY <1>2, InvInterrupt
<1>3. ASSUME NEW r \in Runners, NEW p \in Policies, StageConnect(r, p) PROVE MigrationInv'
  BY <1>3, InvConnect
<1>4. ASSUME NEW r \in Runners, NEW b \in DOMAIN batches, StageRollback(r, b) PROVE MigrationInv'
  BY <1>4, InvRollback
<1>5. ASSUME NEW t \in Creatable, PanelCreate(t) PROVE MigrationInv'
  BY <1>5, InvCreate, BoundAssumption
<1>6. CASE UNCHANGED migrationVars
  <2>1. UNCHANGED <<target, sequence, idmap, batches, runner, native, clash, resumed, again>>
    BY <1>6 DEF migrationVars
  <2>2. Shape'
    BY <2>1 DEF MigrationInv, Shape
  <2>3. ASSUME ~clash' PROVE Kept'
    <3>1. Kept
      BY <2>1, <2>3 DEF MigrationInv
    <3>2. Data'
      <4>1. Data /\ \A m \in idmap : Sound(m.batch)' => Sound(m.batch)
        BY <2>1, <3>1 DEF Kept, Sound, PassedBatch
      <4> QED BY <2>1, <4>1, DataStays
    <3>3. \A r \in Runners : RunnerInv(r)'
      <4> SUFFICES ASSUME NEW r \in Runners PROVE RunnerInv(r)'
        OBVIOUS
      <4>1. RunnerInv(r)
        BY <3>1 DEF Kept
      <4>2. /\ (PlanFree(r) => PlanFree(r)') /\ (Foreseen(r) => Foreseen(r)')
            /\ (Sourced(r) => Sourced(r)')
        BY <2>1, SameWork
      <4>6. Passed(r) => Passed(r)'
        BY <2>1 DEF Passed, Behind, MappedIn
      <4>3. (InBatch(r) => InBatch(r)')
        BY <2>1, <4>2, <4>6 DEF InBatch
      <4>4. (Undone(r) => Undone(r)')
        BY <2>1 DEF Undone, Ids
      <4>5. Continued(r) => Continued(r)'
        BY <2>1, <4>2 DEF Continued
      <4> QED BY <2>1, <4>1, <4>2, <4>3, <4>4, <4>5 DEF RunnerInv, HasPlan
    <3> QED BY <2>1, <3>1, <3>2, <3>3 DEF Kept, OneAtWork, AtWork
  <2> QED BY <2>2, <2>3 DEF MigrationInv
<1> QED BY <1>1, <1>2, <1>3, <1>4, <1>5, <1>6 DEF NextMigration

\* A row of the panel's own is neither changed nor removed by a step.
LEMMA StepUntouched ==
  ASSUME MigrationInv, [NextMigration]_migrationVars, ~clash', NEW t \in Table,
         NEW row \in target[t], <<t, row.id>> \in native
  PROVE  row \in target'[t]
<1>1. CASE target' = target
  BY <1>1
<1>2. CASE target' # target
  <2>1. \/ \E r \in Runners : writeTable(r) \/ rollbackTable(r)
        \/ \E u \in Creatable : PanelCreate(u)
    BY <1>2 DEF NextMigration, migrationVars, Step, StageDryRun, handleUnfinishedBatches, ensureBatch,
       writeTraffic, StageVerify, failBatch, closeRollback, Interrupt, StageConnect, StageRollback, db
  <2>2. target = [u \in Table |-> target[u]] /\ Shape /\ row.id \in Nat
    BY DEF MigrationInv, Shape, TargetShape
  <2>3. ASSUME NEW r \in Runners, writeTable(r) PROVE row \in target'[t]
    <3>1. PICK u : u = Order[runner[r].at]
      OBVIOUS
    <3>2. /\ runner[r].pc = "write" /\ runner[r].pc \in Writing
          /\ target' = [target EXCEPT ![u] = Upserted(u, Pending(r))] /\ clash' = clash
      BY <2>3, <3>1 DEF writeTable, observed, Writing
    <3>3. CASE u = t
      <4>1. PlanFree(r) /\ PlanRows(runner[r].plan.rows)
        BY <2>2, <3>2, WriterIs DEF MigrationInv, Kept, RunnerInv, HasPlan
      <4>2. PICK rows : rows = runner[r].plan.rows[t]
        OBVIOUS
      <4>3. PICK top : top = Max({x.id : x \in Pending(r)} \cup {sequence[t]})
        OBVIOUS
      <4>4. \A p \in Pending(r) : \E i \in DOMAIN rows : rows[i] = p
        <5>1. t = Order[runner[r].at] /\ rows = runner[r].plan.rows[t] /\ runner[r].pc = "write"
          BY <3>1, <3>2, <3>3, <4>2
        <5>2. \A p \in Pending(r) : (\E i \in DOMAIN rows : rows[i] = p)
                                   /\ <<t, p.source>> \notin runner[r].done
                                   /\ p.id \in 1..top /\ p.source \in Nat
          <6>1. Shape
            BY <2>2
          <6> QED BY <4>3, <5>1, <6>1, Raised
        <5> QED BY <5>2
      <4>5. \A p \in Pending(r) : p.id # row.id
        BY <4>1, <4>2, <4>4 DEF PlanFree
      <4>6. row \in Upserted(t, Pending(r))
        BY <4>5 DEF Upserted
      <4> QED BY <2>2, <3>2, <3>3, <4>6
    <3>4. CASE u # t
      BY <2>2, <3>2, <3>4
    <3> QED BY <3>3, <3>4
  <2>4. ASSUME NEW r \in Runners, rollbackTable(r) PROVE row \in target'[t]
    <3>1. PICK u : u = UndoOrder[runner[r].at]
      OBVIOUS
    <3>2. PICK written :
            written = {m.id : m \in {x \in idmap : x.batch = runner[r].batch /\ x.table = u}}
      OBVIOUS
    <3>3. target' = [target EXCEPT ![u] = {x \in @ : x.id \notin written}] /\ clash' = clash
      BY <2>4, <3>1, <3>2 DEF rollbackTable, observed
    <3>4. NativeKept
      BY <3>3 DEF MigrationInv, Kept, Data
    <3>5. u = t => row.id \notin written
      BY <2>2, <3>2, <3>4 DEF NativeKept, Mapped
    <3> QED BY <2>2, <3>3, <3>5
  <2>5. ASSUME NEW u \in Creatable, PanelCreate(u) PROVE row \in target'[t]
    BY <2>2, <2>5 DEF PanelCreate
  <2> QED BY <2>1, <2>3, <2>4, <2>5
<1> QED BY <1>1, <1>2

\* What the invariant says of a migration that died at any instant.
LEMMA MigrationSays ==
  ASSUME MigrationInv
  PROVE  Undoable /\ ParentsFirst /\ PassedMeansIntact /\ OncePerBatch
<1>1. CASE clash
  BY <1>1 DEF Undoable, ParentsFirst, PassedMeansIntact, OncePerBatch
<1>2. CASE ~clash
  <2>1. /\ Accounted /\ Once /\ References /\ RuleGroupsAlone
    BY <1>2 DEF MigrationInv, Kept, Data
  <2>2. Undoable /\ OncePerBatch
    BY <2>1 DEF Accounted, Once, Undoable, OncePerBatch
  <2>3. ParentsFirst
    <3> SUFFICES ASSUME NEW t \in Table \ {"user_groups"}, NEW row \in target[t],
                        <<t, row.id>> \notin native, ~Resolved(row)
                 PROVE  \E m \in idmap : m.table = t /\ m.id = row.id /\ m.batch \in resumed
      BY DEF ParentsFirst
    <3>1. t # "rule_groups"
      BY <2>1 DEF RuleGroupsAlone, Resolved
    <3>2. PICK m \in idmap : m.table = t /\ m.id = row.id
      BY <2>1, <3>1 DEF Accounted, Mapped
    <3>3. PICK ref \in row.refs : ref[2] \notin Ids(ref[1])
      BY DEF Resolved
    <3>4. ~Sound(m.batch)
      BY <2>1, <3>2, <3>3 DEF References
    <3> QED BY <3>2, <3>4 DEF Sound
  <2>4. PassedMeansIntact
    <3> SUFFICES ASSUME NEW m \in idmap, PassedBatch(m.batch), m.batch \notin again,
                        NEW row \in target[m.table], row.id = m.id, m.table # "user_groups",
                        NEW ref \in row.refs
                 PROVE  ref[2] \in Ids(ref[1])
      BY DEF PassedMeansIntact, Resolved
    <3>1. Sound(m.batch)
      BY DEF Sound
    <3> QED BY <2>1, <3>1 DEF References
  <2> QED BY <2>2, <2>3, <2>4
<1> QED BY <1>1, <1>2

\* A migration that dies can be continued or undone, and never harms what was
\* there before it (writer.go, router.go, rollback.go).
THEOREM MigrationIsSafe == MigrationSpec => MigrationSafe
<1>1. InitMigration => MigrationInv
  BY MigrationInit
<1>2. MigrationInv /\ [NextMigration]_migrationVars => MigrationInv'
  BY MigrationStep
<1>3. MigrationInv => Undoable /\ ParentsFirst /\ PassedMeansIntact /\ OncePerBatch
  BY MigrationSays
<1>4. MigrationInv /\ [NextMigration]_migrationVars =>
        [~clash' => \A t \in Table : \A row \in target[t] :
           <<t, row.id>> \in native => row \in target'[t]]_migrationVars
  BY StepUntouched
<1> QED BY <1>1, <1>2, <1>3, <1>4, PTL DEF MigrationSpec, MigrationSafe, Untouched

=============================================================================
