---------------------------- MODULE PanelEdits ----------------------------
(***************************************************************************)
(* The panel's registry as a whole: rules, device groups, labels, nodes,   *)
(* users and snapshots, edited by several requests at a time, and what the *)
(* tables promise each other.                                              *)
(***************************************************************************)
EXTENDS Snapshots

Init == InitRegistry

GroupEdits(e) ==
  \/ \E in \in GroupInputs :
       CreateGroup(e, in) \/ \E id \in DOMAIN groups : UpdateGroup(e, id, in)
  \/ \E id \in DOMAIN groups : DeleteGroup(e, id) \/ Reorder(e, id)
  \/ SaveNewGroup(e) \/ SaveGroup(e) \/ RemoveGroup(e) \/ WriteOrder(e)

LabelEdits(e) ==
  \/ \E kind \in Kinds : \E id \in labels[kind] : DeleteLabel(e, kind, id)
  \/ RemoveLabel(e) \/ ScrubNodes(e)

BatchModes == {"replace", "add", "remove"}
NodeChanges(e) ==
  \/ \E in \in NodeInputs : CreateNode(e, in)
  \/ \E id \in DOMAIN nodes :
       \/ DeleteNode(e, id)
       \/ \E in \in NodeEdits : UpdateNode(e, id, in)
       \/ \E g \in labels["node"], mode \in BatchModes : BatchGroup(e, id, {g}, mode)
  \/ SaveNewNode(e) \/ SaveNode(e) \/ RemoveNode(e)

UserEdits(e) ==
  \/ \E g \in {0} \cup labels["user"] :
       CreateUser(e, g) \/ \E id \in DOMAIN users : UpdateUser(e, id, g)
  \/ \E id \in DOMAIN users, force \in BOOLEAN : DeleteUser(e, id, force)
  \/ SaveNewUser(e) \/ SaveUser(e) \/ RemoveUser(e)

RuleEdits(e) ==
  \/ \E in \in RuleInputs :
       CreateRule(e, in) \/ \E id \in DOMAIN rules : UpdateRule(e, id, in)
  \/ \E id \in DOMAIN rules : DeleteRule(e, id) \/ \E on \in BOOLEAN : SetEnable(e, id, on)
  \/ \E b \in Batches : Batch(e, b)
  \/ \E scale \in {0, 2} : BatchMultiplier(e, scale)
  \/ \E items \in Imports, rename \in BOOLEAN : ImportRules(e, items, rename)
  \/ SaveNewRule(e) \/ SaveRule(e) \/ RemoveRule(e) \/ WriteEnable(e)
  \/ RunBatch(e) \/ WriteScaled(e) \/ WriteImported(e)

SnapshotEdits(e) ==
  \/ CreateSnapshot(e) \/ SaveSnapshot(e)
  \/ \E id \in DOMAIN snaps : Rollback(e, id)
  \/ SaveBefore(e) \/ Restore(e)

Next ==
  \/ \E e \in Editors :
       \/ GroupEdits(e) \/ LabelEdits(e) \/ NodeChanges(e) \/ UserEdits(e)
       \/ RuleEdits(e) \/ SnapshotEdits(e) \/ Abandon(e)
  \/ \E kind \in Kinds : CreateLabel(kind)
  \/ \E id \in DOMAIN snaps : DeleteSnapshot(id)

Spec == Init /\ [][Next]_vars

---------------------------------------------------------------------------
\* What the tables promise each other, of rules and device groups that are in
\* the database or in a snapshot of it.

Out(g, gs) == g \in DOMAIN gs /\ gs[g].type = "outbound"
ListensInbound(rs, gs) ==
  \A r \in DOMAIN rs : rs[r].in \in DOMAIN gs /\ gs[rs[r].in].type = "inbound"
RefersOutbound(rs, gs) ==
  \A r \in DOMAIN rs : \A g \in ({rs[r].out, rs[r].rev} \ {0}) \cup rs[r].chain : Out(g, gs)
FailsOverOutbound(gs) == \A g \in DOMAIN gs : gs[g].failover # 0 => Out(gs[g].failover, gs)
ChainsWithoutUDP(rs, gs) == \A r \in DOMAIN rs : rs[r].chain # {} => ~gs[rs[r].in].udp
ChainsShort(rs) == \A r \in DOMAIN rs : rs[r].chain # {} => Cardinality(rs[r].chain) \in 2..3
ChainsDirect(rs, gs) == \A r \in DOMAIN rs : \A g \in rs[r].chain : gs[g].failover = 0
NameAllowed(r, gs) == r.sub => r.sni # "" /\ FixedPort(r) /\ sniAllowed(r.sni, gs[r.in].hosts)
NamesAllowed(rs, gs) == \A r \in DOMAIN rs : NameAllowed(rs[r], gs)
NamesDistinct(rs) == \A r, s \in DOMAIN rs : rs[r].name = rs[s].name => r = s
Bounded(rs) == \A r \in DOMAIN rs : rs[r].mult <= MaxMultiplier
HaveMain(rs) ==
  \A r \in DOMAIN rs :
    IF rs[r].sub THEN rs[r].parent \in DOMAIN rs /\ ~rs[rs[r].parent].sub ELSE rs[r].parent = 0
\* The writes that part a sub-rule from its main rule.
MainsKept(d) == d \cap {"force", "main", "parent"} = {}
Apart(a, b) ==
  a.in = b.in /\ a.on /\ b.on /\ a.lo > 0 /\ b.lo > 0 => ~rangesOverlap(portRangeOf(a), portRangeOf(b))
\* A sub-rule listens with its main rule.
PortsApart(rs) ==
  \A r, s \in DOMAIN rs :
    r # s /\ rs[r].parent # s /\ rs[s].parent # r => Apart(rs[r], rs[s])

Consistent(rs, gs) ==
  /\ ListensInbound(rs, gs) /\ RefersOutbound(rs, gs) /\ FailsOverOutbound(gs)
  /\ ChainsWithoutUDP(rs, gs) /\ ChainsShort(rs) /\ ChainsDirect(rs, gs)
  /\ NamesAllowed(rs, gs) /\ NamesDistinct(rs) /\ Bounded(rs) /\ HaveMain(rs)

RuleTable(t, n) == t \in [DOMAIN t -> ForwardRule] /\ DOMAIN t \subseteq 1..n
GroupTable(t, n) == t \in [DOMAIN t -> DeviceGroup] /\ DOMAIN t \subseteq 1..n
NodeTable(t, n) == t \in [DOMAIN t -> Node] /\ DOMAIN t \subseteq 1..n
LabelTable(t, n) == t \in [Kinds -> SUBSET Nat] /\ \A kind \in Kinds : t[kind] \subseteq 1..n[kind]
Counters == Kinds \cup {"rules", "groups", "nodes", "users", "snaps"}
Snapshot(s, n) ==
  /\ RuleTable(s.rules, n.rules) /\ GroupTable(s.groups, n.groups)
  /\ NodeTable(s.nodes, n.nodes) /\ LabelTable(s.labels, n)

\* Bodies of requests: columns, of which some may be absent.  An imported item
\* has no hops, no reverse group and no place in a split.
OrKeep(values) == values \cup {Keep}
RuleBody ==
  [name : Seq(Nat), owner : Nat, rgroup : Nat, in : Nat, lo : Nat, hi : Nat, out : Nat,
   mult : OrKeep(Nat), chain : OrKeep(Hops), rev : Nat, sub : BOOLEAN, parent : Nat,
   sni : ServerNames, on : OrKeep(BOOLEAN), status : SyncStates]
NodeBody == [name : OrKeep(STRING), role : OrKeep(NodeRoles), labels : OrKeep(SUBSET Nat)]
BatchActions == {"enable", "disable", "out", "rgroup", "chain", "mult", "scale", "limits", "delete"}
BatchBody ==
  [act : BatchActions, ids : SUBSET Nat, out : Nat, rgroup : Nat, chain : Hops, mult : Nat]
Imported == {r \in ForwardRule : r.chain = {} /\ r.rev = 0 /\ ~r.sub /\ r.parent = 0}

ASSUME RequestBodies ==
  /\ GroupInputs \subseteq DeviceGroup
  /\ NodeInputs \subseteq Node /\ NodeEdits \subseteq NodeBody
  /\ RuleInputs \subseteq RuleBody /\ Batches \subseteq BatchBody
  /\ Imports \subseteq Seq(Imported)
  /\ MaxTogether \in Nat /\ MaxTogether <= MaxOps

\* The panel starts from tables that are consistent: empty ones are.
ASSUME FirstTables ==
  LET t == InitTables IN
  /\ t.issued \in [Counters -> Nat]
  /\ Snapshot(t, t.issued)
  /\ DOMAIN t.users \subseteq 1..t.issued.users
  /\ DOMAIN t.snaps \subseteq 1..t.issued.snaps
  /\ \A s \in DOMAIN t.snaps :
       Snapshot(t.snaps[s], t.issued) /\ Consistent(t.snaps[s].rules, t.snaps[s].groups)
  /\ Consistent(t.rules, t.groups) /\ PortsApart(t.rules)
  /\ \A u \in DOMAIN t.users : t.users[u] = 0 \/ t.users[u] \in t.labels["user"]

---------------------------------------------------------------------------
\* Properties

\* The tables and the snapshots hold rows of their types, under identifiers that
\* were handed out.
TypeOK ==
  /\ issued \in [Counters -> Nat]
  /\ RuleTable(rules, issued.rules) /\ GroupTable(groups, issued.groups)
  /\ NodeTable(nodes, issued.nodes) /\ LabelTable(labels, issued)
  /\ DOMAIN users \subseteq 1..issued.users
  /\ DOMAIN snaps \subseteq 1..issued.snaps
  /\ \A s \in DOMAIN snaps : Snapshot(snaps[s], issued)
  /\ ops \in 0..MaxOps

Serial == ~raced

\* Requests served one after the other never leave a rule or a device group
\* pointing at a group that is missing or of the wrong type, whatever is
\* created, edited, deleted or rolled back in between; an import does not look
\* at the way out.
References ==
  Serial => /\ ListensInbound(rules, groups) /\ FailsOverOutbound(groups)
            /\ "import" \notin done => RefersOutbound(rules, groups)

\* ... nor a rule that chains through a UDP-capable inbound group, though the
\* group may be edited after the rule.
ChainWithoutUDP == Serial => ChainsWithoutUDP(rules, groups)

\* ... nor a sub-rule whose name the group it listens in does not allow.
SubRulesAllowed == Serial => NamesAllowed(rules, groups)

\* ... nor two rules of one name, imports, renames and main rules included.
NamesUnique == Serial => NamesDistinct(rules)

\* ... nor two enabled rules whose ports overlap, unless one was enabled,
\* imported or restored, which look at no port, or a request was given up
\* after it made a main rule.
PortsDisjoint ==
  /\ Serial /\ \A e \in Editors : ~Busy(e)
  /\ done \cap {"enable", "import", "rollback", "given up"} = {}
  => PortsApart(rules)

\* ... nor a multiplier above the limit, though several requests scale it.  Two
\* at a time may: each checks before its transaction and multiplies in it.
MultiplierBounded == Serial => Bounded(rules)

\* ... nor a user in a group that is gone, unless a rollback took the group.
UserGroupsKept ==
  Serial /\ "rollback" \notin done => \A u \in DOMAIN users : UserGroupOK(users[u])

\* A sub-rule keeps its main rule, and no other rule has one: deleting the main
\* rule takes its sub-rules along.  Deleting a user by force and turning a main
\* rule into a sub-rule do not, and a rule created with a parent though it is no
\* sub-rule goes with that parent and leaves its own sub-rules behind.
SubRulesHaveMain ==
  Serial /\ MainsKept(done) => HaveMain(rules)

Present == [groups |-> groups, nodes |-> nodes, rules |-> rules, labels |-> labels]
\* A rollback writes nothing before a snapshot of the present configuration
\* is stored (service_snapshot.go: the operation must be reversible).
Reversible ==
  Serial => \A e \in Editors : Holds(e, "restore") =>
    editor[e].before \in DOMAIN snaps /\ snaps[editor[e].before] = Present

\* The registry is consistent after any sequence of requests, and the nodes can
\* apply what it says.
RegistryConsistent ==
  /\ TypeOK
  /\ References /\ ChainWithoutUDP /\ SubRulesAllowed /\ SubRulesHaveMain
  /\ NamesUnique /\ PortsDisjoint /\ MultiplierBounded /\ UserGroupsKept
  /\ Reversible

Restoring(e) == Holds(e, "restore") /\ editor'[e] = Idle /\ tables' # tables
RestoresExactly ==
  \A e \in Editors : Restoring(e) =>
    LET to == editor[e].to IN
    /\ groups' = to.groups /\ nodes' = to.nodes /\ labels' = to.labels
    /\ DOMAIN rules' = DOMAIN to.rules
    /\ \A r \in DOMAIN rules' :
         /\ rules'[r].status = "unsynced"
         /\ [rules'[r] EXCEPT !.on = TRUE, !.mult = 1, !.status = ""]
              = [to.rules[r] EXCEPT !.on = TRUE, !.mult = 1, !.status = ""]
\* A rollback restores the whole of its snapshot or nothing, even among other
\* requests, but for the two columns the database fills in.
RollbackExact == [][RestoresExactly]_vars

Difference(before, after) ==
  [add |-> DOMAIN after \ DOMAIN before, remove |-> DOMAIN before \ DOMAIN after,
   update |-> { id \in DOMAIN before \cap DOMAIN after : before[id] # after[id] }]
Unmarked(table) == [r \in DOMAIN table |-> [table[r] EXCEPT !.status = ""]]
RestoresForetold ==
  \A e \in Editors : Restoring(e) =>
    Diff(editor[e].to) =
      [groups |-> Difference(groups, groups'), nodes |-> Difference(nodes, nodes'),
       rules |-> Difference(Unmarked(rules), Unmarked(rules')),
       add |-> [kind \in Kinds |-> labels'[kind] \ labels[kind]],
       remove |-> [kind \in Kinds |-> labels[kind] \ labels'[kind]]]
\* What the comparison with a snapshot announces, when nothing is edited after
\* it, is what a rollback to the snapshot then does: the rows it creates and
\* deletes, and no row changed that was not listed.
DiffForetells == [][RestoresForetold]_vars

Applied(r) == [r EXCEPT !.rgroup = 0, !.status = ""]
ChangesMarked ==
  \A r \in DOMAIN rules \cap DOMAIN rules' :
    Applied(rules'[r]) # Applied(rules[r]) => rules'[r].status = "unsynced"
\* A rule is never changed in anything its nodes apply without being marked
\* for them: whatever request changed it, it is not left as synchronised.
EditsUnsync == [][ChangesMarked]_vars

\* What a request changes, it announces: a rollback to who compared, an edit to
\* the nodes.
RegistrySteps == RollbackExact /\ DiffForetells /\ EditsUnsync

===========================================================================
