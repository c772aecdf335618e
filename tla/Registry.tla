---------------------------- MODULE Registry ----------------------------
(***************************************************************************)
(* The panel's tables and the services that edit them, but for rules       *)
(* (RuleEditing) and snapshots (Snapshots): device groups                  *)
(* (service_group.go), rule, user and node groups, nodes (service_node.go) *)
(* and users (service_user.go).                                            *)
(*                                                                         *)
(* No service locks anything: a request reads and validates with several   *)
(* queries, then writes.  A request is therefore two steps of an editor,   *)
(* the validation, which keeps what it read in the editor, and the write.  *)
(* A validation that fails, and a request given up in between, change      *)
(* nothing.                                                                *)
(***************************************************************************)
EXTENDS Naturals, Sequences, FiniteSets, FiniteSetsExt, Functions, TLC

CONSTANTS
  Editors,     \* requests being served
  Keep,        \* an absent field of an input: the stored value stays
  GroupInputs, \* bodies of device group requests
  NodeInputs,  \* bodies of node requests, to create and to edit
  NodeEdits,
  InitTables,  \* the tables at the start
  MaxId,       \* bound: largest identifier given out
  MaxOps,      \* bound: requests served
  MaxTogether  \* bound: of them, requests two of which are served at a time

VARIABLES
  rules,   \* forward_rules: [id -> rule]
  groups,  \* device_groups: [id -> group]
  nodes,   \* nodes: [id -> node]
  users,   \* users: [id -> identifier of the user's group]
  labels,  \* identifiers of the rows of user_groups, rule_groups, node_groups
  snaps,   \* config_snapshots: [id -> the tables it holds]
  issued,  \* largest identifier given out in each table
  editor,  \* what each request has read and is about to write
  ops,     \* bound
  raced,   \* history: two requests were served at the same time
  done     \* history: kinds of writes that skip a part of the validation, and
           \* whether a rule request was given up

tables == <<rules, groups, nodes, users, labels, snaps, issued>>
vars == <<tables, editor, ops, raced, done>>

Idle == [op |-> "none"]
Busy(e) == editor[e] # Idle
Kinds == {"user", "rule", "node"}

\* The columns of a device group and of a node.
DeviceGroup ==
  [name : STRING, type : {"inbound", "outbound"}, members : SUBSET Nat, udp : BOOLEAN,
   hosts : SUBSET STRING, split : BOOLEAN, reverse : SUBSET Nat, failover : Nat]
NodeRoles == {"inbound", "outbound", "both"}
Node == [name : STRING, role : NodeRoles, labels : SUBSET Nat]

InitRegistry ==
  /\ rules = InitTables.rules /\ groups = InitTables.groups
  /\ nodes = InitTables.nodes /\ users = InitTables.users
  /\ labels = InitTables.labels
  /\ snaps = InitTables.snaps
  /\ issued = InitTables.issued
  /\ editor = [e \in Editors |-> Idle]
  /\ ops = 0 /\ raced = FALSE /\ done = {}

\* The first half of a request: what it will write is held by the editor.
Served ==
  /\ ops' = ops + 1
  /\ raced' = (raced \/ \E f \in Editors : Busy(f))
  /\ ops < IF raced' THEN MaxTogether ELSE MaxOps
  /\ UNCHANGED done
Hold(e, write) ==
  /\ ~Busy(e)
  /\ Served
  /\ editor' = [editor EXCEPT ![e] = write]

\* The second half.
Holds(e, op) == editor[e].op = op
Release(e) == editor' = [editor EXCEPT ![e] = Idle] /\ UNCHANGED <<ops, raced>>

Put(table, id, row) ==
  [x \in DOMAIN table \cup {id} |-> IF x = id THEN row ELSE table[x]]
Without(table, ids) == Restrict(table, DOMAIN table \ ids)
NewId(t) == issued[t] + 1
CanGrow(t) == issued[t] < MaxId

\* The request is given up, or its write fails: a transaction is rolled back.
Abandon(e) ==
  /\ Busy(e)
  /\ Release(e)
  /\ done' = IF Holds(e, "new rule") \/ Holds(e, "rule") THEN done \cup {"given up"} ELSE done
  /\ UNCHANGED tables

---------------------------------------------------------------------------
\* Device groups.  `udp` says that UDP is not fully disabled, `hosts` is the
\* list of allowed names (empty: all), `split` that TLS is split by SNI.

IsInbound(g) == groups[g].type = "inbound"
Outbound(g) == g \in DOMAIN groups /\ groups[g].type = "outbound"
Carries(role, type) == role = "both" \/ role = type

\* loadMembers: members that do not exist are passed over.
Members(g) == g.members \cap DOMAIN nodes
validateNodeRoles(g) ==
  /\ \A n \in Members(g) : Carries(nodes[n].role, g.type)
  /\ g.members # {} => Members(g) # {}

inboundPermissionFingerprint(g) ==
  IF g.type = "inbound" THEN <<g.hosts, g.reverse>> ELSE <<{}, {}>>
permissionConfigOf(fg) ==
  LET owners == {g \in DOMAIN groups : IsInbound(g) /\ fg \in groups[g].reverse}
  IN  IF owners = {} THEN <<{}, {}>> ELSE inboundPermissionFingerprint(groups[Min(owners)])
validateFailoverGroup(id, g) ==
  g.failover # 0 =>
    /\ g.failover # id
    /\ Outbound(g.failover)
    /\ inboundPermissionFingerprint(g) = permissionConfigOf(g.failover)

\* ValidateChainRule: reads the stored inbound group, and only the failover
\* of the groups on the way.
ValidateChainRule(r) ==
  r.chain # {} =>
    /\ Cardinality(r.chain) \in 2..3
    /\ r.in \in DOMAIN groups /\ IsInbound(r.in) => ~groups[r.in].udp
    /\ \A g \in r.chain \cup ({r.out} \ {0}) : Outbound(g) /\ groups[g].failover = 0

validateChainUsage(id, g) ==
  \A r \in {x \in DOMAIN rules : rules[x].in = id /\ rules[x].chain # {}} :
    ~g.udp /\ ValidateChainRule(rules[r])
validateReverseGroup(g) ==
  \A rg \in g.reverse :
    Outbound(rg) /\ \A n \in Members(groups[rg]) : Carries(nodes[n].role, "outbound")
sniAllowed(sni, hosts) == hosts = {} \/ sni \in hosts
FixedPort(r) == r.lo > 0 /\ ~(r.hi > r.lo)
validateSubRuleSNI(id, g) ==
  \A r \in {x \in DOMAIN rules : rules[x].in = id /\ rules[x].sub} :
    rules[r].sni # "" /\ sniAllowed(rules[r].sni, g.hosts) /\ FixedPort(rules[r])

\* ValidateDeviceGroupConfig; `id` is 0 for a group not yet stored.
ValidateDeviceGroupConfig(id, g) ==
  /\ validateNodeRoles(g)
  /\ validateFailoverGroup(id, g)
  /\ g.type = "inbound" =>
       validateChainUsage(id, g) /\ validateReverseGroup(g) /\ validateSubRuleSNI(id, g)

GroupNameFree(name, id) == \A g \in DOMAIN groups \ {id} : groups[g].name # name

CreateGroup(e, in) ==
  /\ CanGrow("groups")
  /\ GroupNameFree(in.name, 0)
  /\ ValidateDeviceGroupConfig(0, in)
  /\ Hold(e, [op |-> "new group", row |-> in])
  /\ UNCHANGED tables

\* Names are unique in the table.
SaveNewGroup(e) ==
  /\ Holds(e, "new group")
  /\ CanGrow("groups")
  /\ GroupNameFree(editor[e].row.name, 0)
  /\ groups' = Put(groups, NewId("groups"), editor[e].row)
  /\ issued' = [issued EXCEPT !.groups = @ + 1]
  /\ Release(e)
  /\ UNCHANGED <<rules, nodes, users, labels, snaps, done>>

\* The type never changes.
UpdateGroup(e, id, in) ==
  /\ id \in DOMAIN groups
  /\ in.type = groups[id].type
  /\ GroupNameFree(in.name, id)
  /\ ValidateDeviceGroupConfig(id, in)
  /\ Hold(e, [op |-> "group", id |-> id, row |-> in])
  /\ UNCHANGED tables

\* gorm's Save: all columns, and an insert if the row has gone meanwhile.
SaveGroup(e) ==
  /\ Holds(e, "group")
  /\ GroupNameFree(editor[e].row.name, editor[e].id)
  /\ groups' = Put(groups, editor[e].id, editor[e].row)
  /\ done' = IF editor[e].row.failover # 0 THEN done \cup {"failover"} ELSE done
  /\ Release(e)
  /\ UNCHANGED <<rules, nodes, users, labels, snaps, issued>>

\* Mutant: the hops of a chain are not looked at.
collectReferences_Direct(id) ==
  IF IsInbound(id) THEN \E r \in DOMAIN rules : rules[r].in = id
  ELSE \/ \E r \in DOMAIN rules : rules[r].out = id \/ rules[r].rev = id
       \/ \E g \in DOMAIN groups : groups[g].failover = id

\* collectReferences.  The list of reverse groups is looked for where only
\* an inbound group is deleted, in a column that never holds a plain list.
collectReferences(id) ==
  IF IsInbound(id) THEN \E r \in DOMAIN rules : rules[r].in = id
  ELSE \/ \E r \in DOMAIN rules :
            rules[r].out = id \/ id \in rules[r].chain \/ rules[r].rev = id
       \/ \E g \in DOMAIN groups : groups[g].failover = id

DeleteGroup(e, id) ==
  /\ id \in DOMAIN groups
  /\ ~collectReferences(id)
  /\ Hold(e, [op |-> "drop group", id |-> id])
  /\ UNCHANGED tables

RemoveGroup(e) ==
  /\ Holds(e, "drop group")
  /\ groups' = Without(groups, {editor[e].id})
  /\ Release(e)
  /\ UNCHANGED <<rules, nodes, users, labels, snaps, issued, done>>

\* Reorder: the same members in another order, one column written; nothing
\* happens if the group has gone.
Reorder(e, id) ==
  /\ id \in DOMAIN groups
  /\ Hold(e, [op |-> "reorder", id |-> id, members |-> groups[id].members])
  /\ UNCHANGED tables
WriteOrder(e) ==
  LET id == editor[e].id IN
  /\ Holds(e, "reorder")
  /\ groups' = IF id \notin DOMAIN groups THEN groups
               ELSE [groups EXCEPT ![id].members = editor[e].members]
  /\ Release(e)
  /\ UNCHANGED <<rules, nodes, users, labels, snaps, issued, done>>

---------------------------------------------------------------------------
\* Rule, user and node groups: a row may go once nothing refers to it, but a
\* node group goes first and is taken out of the nodes afterwards.

CreateLabel(kind) ==
  /\ Served
  /\ issued[kind] < MaxId
  /\ labels' = [labels EXCEPT ![kind] = @ \cup {NewId(kind)}]
  /\ issued' = [issued EXCEPT ![kind] = @ + 1]
  /\ UNCHANGED <<rules, groups, nodes, users, snaps, editor>>

LabelUsed(kind, id) ==
  \/ kind = "user" /\ \E u \in DOMAIN users : users[u] = id
  \/ kind = "rule" /\ \E r \in DOMAIN rules : rules[r].rgroup = id

DeleteLabel(e, kind, id) ==
  /\ id \in labels[kind]
  /\ ~LabelUsed(kind, id)
  /\ Hold(e, [op |-> "drop label", kind |-> kind, id |-> id])
  /\ UNCHANGED tables

RemoveLabel(e) ==
  /\ Holds(e, "drop label")
  /\ labels' = [labels EXCEPT ![editor[e].kind] = @ \ {editor[e].id}]
  /\ IF editor[e].kind = "node"
     THEN editor' = [editor EXCEPT ![e] = [op |-> "scrub", id |-> editor[e].id]]
     ELSE editor' = [editor EXCEPT ![e] = Idle]
  /\ UNCHANGED <<rules, groups, nodes, users, snaps, issued, ops, raced, done>>

ScrubNodes(e) ==
  /\ Holds(e, "scrub")
  /\ nodes' = [n \in DOMAIN nodes |-> [nodes[n] EXCEPT !.labels = @ \ {editor[e].id}]]
  /\ Release(e)
  /\ UNCHANGED <<rules, groups, users, labels, snaps, issued, done>>

---------------------------------------------------------------------------
\* Nodes.  The group identifiers of a node are checked against the device
\* groups of the same numbers, and only when the request carries them.

validateGroupsForRole(role, ids) ==
  \A g \in ids \cap DOMAIN groups : Carries(role, groups[g].type)
NodeNameFree(name, id) == \A n \in DOMAIN nodes \ {id} : nodes[n].name # name

CreateNode(e, in) ==
  /\ CanGrow("nodes")
  /\ NodeNameFree(in.name, 0)
  /\ Hold(e, [op |-> "new node", row |-> in])
  /\ UNCHANGED tables

\* The row is written first; groups that do not fit are taken away again.
SaveNewNode(e) ==
  LET in == editor[e].row IN
  /\ Holds(e, "new node")
  /\ CanGrow("nodes")
  /\ NodeNameFree(in.name, 0)
  /\ nodes' = Put(nodes, NewId("nodes"),
                  IF validateGroupsForRole(in.role, in.labels) THEN in
                  ELSE [in EXCEPT !.labels = {}])
  /\ issued' = [issued EXCEPT !.nodes = @ + 1]
  /\ Release(e)
  /\ UNCHANGED <<rules, groups, users, labels, snaps, done>>

Given(value, stored) == IF value = Keep THEN stored ELSE value
NodeUpdated(n, in) ==
  [name |-> Given(in.name, n.name), role |-> Given(in.role, n.role),
   labels |-> Given(in.labels, n.labels)]

UpdateNode(e, id, in) ==
  /\ id \in DOMAIN nodes
  /\ in.name # Keep => NodeNameFree(in.name, id)
  /\ in.labels # Keep => validateGroupsForRole(Given(in.role, nodes[id].role), in.labels)
  /\ Hold(e, [op |-> "node", id |-> id, row |-> in])
  /\ UNCHANGED tables

\* gorm's Updates: nothing happens if the row has gone.
SaveNode(e) ==
  LET id == editor[e].id
      in == editor[e].row IN
  /\ Holds(e, "node")
  /\ in.name # Keep => NodeNameFree(in.name, id)
  /\ nodes' = IF id \notin DOMAIN nodes THEN nodes
              ELSE [nodes EXCEPT ![id] = NodeUpdated(@, in)]
  /\ Release(e)
  /\ UNCHANGED <<rules, groups, users, labels, snaps, issued, done>>

\* BatchGroup, one node of it: the groups are replaced, added or removed.
BatchGroup(e, id, ids, mode) ==
  LET next == CASE mode = "replace" -> ids
                [] mode = "add"     -> nodes[id].labels \cup ids
                [] mode = "remove"  -> nodes[id].labels \ ids IN
  /\ id \in DOMAIN nodes
  /\ validateGroupsForRole(nodes[id].role, next)
  /\ Hold(e, [op |-> "node", id |-> id,
              row |-> [name |-> Keep, role |-> Keep, labels |-> next]])
  /\ UNCHANGED tables

DeleteNode(e, id) ==
  /\ id \in DOMAIN nodes
  /\ \A g \in DOMAIN groups : id \notin groups[g].members
  /\ Hold(e, [op |-> "drop node", id |-> id])
  /\ UNCHANGED tables

\* One transaction.  The groups it looks up to fail their rules are those it
\* has just refused to be in, so none is failed.
RemoveNode(e) ==
  /\ Holds(e, "drop node")
  /\ nodes' = Without(nodes, {editor[e].id})
  /\ Release(e)
  /\ UNCHANGED <<rules, groups, users, labels, snaps, issued, done>>

---------------------------------------------------------------------------
\* Users: the group must exist.

UserGroupOK(g) == g = 0 \/ g \in labels["user"]

CreateUser(e, g) ==
  /\ CanGrow("users")
  /\ UserGroupOK(g)
  /\ Hold(e, [op |-> "new user", group |-> g])
  /\ UNCHANGED tables

SaveNewUser(e) ==
  /\ Holds(e, "new user")
  /\ CanGrow("users")
  /\ users' = Put(users, NewId("users"), editor[e].group)
  /\ issued' = [issued EXCEPT !.users = @ + 1]
  /\ Release(e)
  /\ UNCHANGED <<rules, groups, nodes, labels, snaps, done>>

UpdateUser(e, id, g) ==
  /\ id \in DOMAIN users
  /\ UserGroupOK(g)
  /\ Hold(e, [op |-> "user", id |-> id, group |-> g])
  /\ UNCHANGED tables

SaveUser(e) ==
  /\ Holds(e, "user")
  /\ users' = Put(users, editor[e].id, editor[e].group)
  /\ Release(e)
  /\ UNCHANGED <<rules, groups, nodes, labels, snaps, issued, done>>

\* Without force a user that owns rules stays; with it the rules go too, in
\* the same transaction, if there were any when they were counted.
Owned(id) == {r \in DOMAIN rules : rules[r].owner = id}
DeleteUser(e, id, force) ==
  /\ id \in DOMAIN users
  /\ Owned(id) # {} => force
  /\ Hold(e, [op |-> "drop user", id |-> id, rules |-> Owned(id) # {}])
  /\ UNCHANGED tables

RemoveUser(e) ==
  /\ Holds(e, "drop user")
  /\ rules' = IF editor[e].rules THEN Without(rules, Owned(editor[e].id)) ELSE rules
  /\ users' = Without(users, {editor[e].id})
  /\ done' = IF editor[e].rules THEN done \cup {"force"} ELSE done
  /\ Release(e)
  /\ UNCHANGED <<groups, nodes, labels, snaps, issued>>
===========================================================================
