--------------------------- MODULE RegistryProofs ---------------------------
(***************************************************************************)
(* What the panel's tables promise each other is proved here for any       *)
(* tables, requests and number of requests served at a time.               *)
(*                                                                         *)
(* Requests that are served one after the other keep the promises because  *)
(* what was validated still holds when it is written: the invariant keeps, *)
(* of every request that holds something to write, the validation it       *)
(* passed.  It is one of the tables as they are, so that the write needs   *)
(* no other argument.  Snapshots keep the promises the tables kept when    *)
(* they were taken, which a rollback needs.                                *)
(***************************************************************************)
EXTENDS PanelEdits, FiniteSetTheorems, WellFoundedInduction, TLAPS

---------------------------------------------------------------------------
\* The invariant

\* What a request holds is of the type of what it will write.
First(f, n) ==
  /\ GroupTable(f.groups, n.groups) /\ NodeTable(f.nodes, n.nodes)
  /\ f.labels \in SUBSET Nat /\ f.labels \subseteq 1..n["node"]
Typed(w, n) ==
  /\ w.op \in {"new group", "group"} => w.row \in DeviceGroup
  /\ w.op = "group" => w.id \in 1..n.groups
  /\ w.op = "reorder" => w.members \in SUBSET Nat
  /\ w.op = "drop label" => w.kind \in Kinds
  /\ w.op = "new node" => w.row \in Node
  /\ w.op = "node" => w.row \in NodeBody
  /\ w.op = "user" => w.id \in 1..n.users
  /\ w.op \in {"new rule", "rule"} => w.row \in ForwardRule
  /\ w.op = "rule" => w.id \in 1..n.rules
  /\ w.op = "drop rule" => w.id \in 1..n.rules
  /\ w.op = "enable" => w.on \in BOOLEAN
  /\ w.op = "batch" => w.b \in BatchBody
  /\ w.op = "scaled" => \A r \in DOMAIN w.mult : w.mult[r] \in Nat
  /\ w.op = "import" => w.rows \in Seq(Imported)
  /\ w.op \in {"collect", "before rollback"} => First(w.first, n)
  /\ w.op \in {"before rollback", "restore"} => Snapshot(w.to, n)
Types ==
  /\ TypeOK
  /\ DOMAIN editor = Editors
  /\ \A e \in Editors : Typed(editor[e], issued)

\* The promises, less those that one of the writes of `d` does not keep.
Unseen == {"failover", "import"}
SubsParented(rs) == \A r \in DOMAIN rs : rs[r].sub => rs[r].parent # 0
Sound(rs, gs, d) ==
  /\ ListensInbound(rs, gs) /\ FailsOverOutbound(gs)
  /\ "import" \notin d => RefersOutbound(rs, gs)
  /\ ChainsWithoutUDP(rs, gs) /\ ChainsShort(rs)
  /\ d \cap Unseen = {} => ChainsDirect(rs, gs)
  /\ NamesAllowed(rs, gs) /\ SubsParented(rs)
  /\ NamesDistinct(rs) /\ Bounded(rs)
  /\ MainsKept(d) => HaveMain(rs)

\* A row that passed validateRule, and its place among the others.
RowSound(r, gs) ==
  /\ r.in \in DOMAIN gs /\ gs[r.in].type = "inbound"
  /\ \A g \in ({r.out, r.rev} \ {0}) \cup r.chain : Out(g, gs)
  /\ r.chain # {} => ~gs[r.in].udp /\ Cardinality(r.chain) \in 2..3
  /\ \A g \in r.chain : gs[g].failover = 0
  /\ NameAllowed(r, gs)
  /\ r.mult <= MaxMultiplier
RowPlaced(r, id, rs) ==
  /\ \A o \in DOMAIN rs \ {id} : rs[o].name # r.name
  /\ r.sub => r.parent # 0 /\ r.parent \in DOMAIN rs /\ ~rs[r.parent].sub
RowApart(r, id, rs) ==
  \A o \in DOMAIN rs \ {id, r.parent} :
    rs[o].in = r.in /\ rs[o].on /\ rs[o].lo > 0 /\ r.lo > 0
      => ~rangesOverlap(portRangeOf(r), portRangeOf(rs[o]))
RowFits(r, id, rs) == RowPlaced(r, id, rs) /\ RowApart(r, id, rs)
ImportFits(rows, rs, gs) ==
  /\ \A i \in 1..Len(rows) :
       /\ rows[i].in \in DOMAIN gs /\ gs[rows[i].in].type = "inbound"
       /\ rows[i].mult <= MaxMultiplier
       /\ \A o \in DOMAIN rs : rs[o].name # rows[i].name
  /\ \A i, j \in 1..Len(rows) : rows[i].name = rows[j].name => i = j

\* The validation a request passed still holds.
Standing(w) ==
  /\ w.op = "new group" => ValidateDeviceGroupConfig(0, w.row)
  /\ w.op = "group" =>
       /\ w.id \in DOMAIN groups /\ w.row.type = groups[w.id].type
       /\ ValidateDeviceGroupConfig(w.id, w.row)
  /\ w.op = "drop group" => w.id \in DOMAIN groups /\ ~collectReferences(w.id)
  /\ w.op = "drop label" => ~LabelUsed(w.kind, w.id)
  /\ w.op \in {"new user", "user"} => UserGroupOK(w.group)
  /\ w.op = "new rule" => RowSound(w.row, groups) /\ RowFits(w.row, 0, rules)
  /\ w.op = "rule" =>
       /\ w.id \in DOMAIN rules /\ RowSound(w.row, groups) /\ RowFits(w.row, w.id, rules)
       /\ MainsKept(done) /\ ~w.row.sub => w.row.parent = 0
  /\ w.op = "drop rule" => w.main \/ (w.id \in DOMAIN rules => rules[w.id].sub)
  /\ w.op = "batch" => validateBatchParams(w.b)
  /\ w.op = "scaled" => \A r \in DOMAIN w.mult : w.mult[r] <= MaxMultiplier
  /\ w.op = "import" => ImportFits(w.rows, rules, groups)
  /\ w.op \in {"collect", "before rollback"} => w.first = FirstReads
  /\ w.op \in {"before rollback", "restore"} => Sound(w.to.rules, w.to.groups, done)
  /\ w.op = "restore" => w.before \in DOMAIN snaps /\ snaps[w.before] = Present

Alone == \A e, f \in Editors : Busy(e) /\ Busy(f) => e = f

\* A main rule that was made for a rule being edited is on the port of that
\* rule until the edit is written.
MadeFor(r, s) ==
  \E e \in Editors : Holds(e, "rule") /\ editor[e].id = r /\ editor[e].row.parent = s
PortsKept ==
  done \cap {"enable", "import", "rollback", "given up"} = {} =>
    \A r, s \in DOMAIN rules :
      /\ r # s /\ rules[r].parent # s /\ rules[s].parent # r
      /\ ~MadeFor(r, s) /\ ~MadeFor(s, r)
      => Apart(rules[r], rules[s])

Tables ==
  /\ Sound(rules, groups, done)
  /\ \A s \in DOMAIN snaps : Sound(snaps[s].rules, snaps[s].groups, done)
  /\ "rollback" \notin done => \A u \in DOMAIN users : UserGroupOK(users[u])
  /\ PortsKept

RegistryInv ==
  /\ Types
  /\ Serial => Alone /\ Tables /\ \A e \in Editors : Standing(editor[e])

---------------------------------------------------------------------------
\* Holding what was validated, and writing it

\* A step that writes no table keeps the rows' types.
LEMMA Unchanging ==
  ASSUME Types, UNCHANGED tables, ops' \in 0..MaxOps
  PROVE  TypeOK'
  BY DEF Types, TypeOK, tables

\* What a validation found holds while the tables it read stay as they are.
LEMMA StillStanding ==
  ASSUME NEW w, Standing(w), UNCHANGED <<tables, done>>
  PROVE  Standing(w)'
<1> USE DEF tables
<1>1. ASSUME NEW id, NEW g, ValidateDeviceGroupConfig(id, g) PROVE ValidateDeviceGroupConfig(id, g)'
  <2>1. validateNodeRoles(g) => validateNodeRoles(g)'
    BY DEF validateNodeRoles, Members
  <2>2. validateFailoverGroup(id, g) => validateFailoverGroup(id, g)'
    BY DEF validateFailoverGroup, Outbound, permissionConfigOf, inboundPermissionFingerprint, IsInbound
  <2>3. validateChainUsage(id, g) => validateChainUsage(id, g)'
    BY DEF validateChainUsage, ValidateChainRule, Outbound, IsInbound
  <2>4. validateReverseGroup(g) => validateReverseGroup(g)'
    BY DEF validateReverseGroup, Outbound, Members
  <2>5. validateSubRuleSNI(id, g) => validateSubRuleSNI(id, g)'
    BY DEF validateSubRuleSNI
  <2> QED BY <1>1, <2>1, <2>2, <2>3, <2>4, <2>5 DEF ValidateDeviceGroupConfig
<1>2. ASSUME NEW id, ~collectReferences(id) PROVE ~collectReferences(id)'
  BY <1>2 DEF collectReferences, IsInbound
<1>3. ASSUME NEW kind, NEW id, ~LabelUsed(kind, id) PROVE ~LabelUsed(kind, id)'
  BY <1>3 DEF LabelUsed
<1>4. ASSUME NEW g, UserGroupOK(g) PROVE UserGroupOK(g)'
  BY <1>4 DEF UserGroupOK
<1>5. ASSUME NEW b, validateBatchParams(b) PROVE validateBatchParams(b)'
  BY <1>5 DEF validateBatchParams, Outbound
<1>6. FirstReads' = FirstReads /\ Present' = Present
  BY DEF FirstReads, Present
<1> HIDE DEF tables
<1>7. UNCHANGED <<groups, rules, done, snaps>>
  BY DEF tables
<1>8. /\ w.op = "new group" => ValidateDeviceGroupConfig(0, w.row)'
      /\ w.op = "group" =>
           /\ w.id \in DOMAIN groups' /\ w.row.type = groups'[w.id].type
           /\ ValidateDeviceGroupConfig(w.id, w.row)'
  BY <1>1, <1>7 DEF Standing
<1>9. w.op = "drop group" => w.id \in DOMAIN groups' /\ ~collectReferences(w.id)'
  BY <1>2, <1>7 DEF Standing
<1>10. /\ w.op = "drop label" => ~LabelUsed(w.kind, w.id)'
       /\ w.op \in {"new user", "user"} => UserGroupOK(w.group)'
  BY <1>3, <1>4, <1>7 DEF Standing
<1>11. w.op = "batch" => validateBatchParams(w.b)'
  BY <1>5 DEF Standing
<1> QED BY <1>6, <1>7, <1>8, <1>9, <1>10, <1>11 DEF Standing

\* A request that was validated, and holds what it will write, keeps the invariant.
LEMMA HeldStep ==
  ASSUME RegistryInv, NEW e \in Editors, NEW w, Hold(e, w), UNCHANGED tables,
         Typed(w, issued), Serial => Standing(w)
  PROVE  RegistryInv'
<1>1. /\ ops' = ops + 1 /\ raced' = (raced \/ \E f \in Editors : Busy(f))
      /\ ops < IF raced' THEN MaxTogether ELSE MaxOps
      /\ UNCHANGED done /\ ~Busy(e) /\ editor' = [editor EXCEPT ![e] = w]
  BY DEF Hold, Served
<1>2. Types'
  <2>1. ops' \in 0..MaxOps
    BY <1>1, RequestBodies, RuleBounds DEF RegistryInv, Types, TypeOK
  <2>2. TypeOK'
    BY <2>1, Unchanging DEF RegistryInv
  <2>3. DOMAIN editor' = Editors /\ \A f \in Editors : Typed(editor'[f], issued')
    BY <1>1 DEF RegistryInv, Types, tables
  <2> QED BY <2>2, <2>3 DEF Types
<1>3. ASSUME Serial' PROVE Alone' /\ Tables' /\ \A f \in Editors : Standing(editor[f])'
  <2>1. Serial /\ \A f \in Editors : ~Busy(f)
    BY <1>1, <1>3 DEF Serial
  <2>2. \A f \in Editors : ~Holds(f, "rule")
    BY <2>1 DEF Busy, Idle, Holds
  <2>3. Alone' /\ ~\E f \in Editors : f # e /\ editor'[f] # Idle
    BY <1>1, <2>1 DEF Alone, Busy, RegistryInv, Types
  <2>4. Tables'
    <3>1. Tables
      BY <2>1 DEF RegistryInv
    <3>2. PortsKept'
      <4>1. \A r, s : ~MadeFor(r, s)
        BY <2>2 DEF MadeFor
      <4> QED BY <1>1, <3>1, <4>1 DEF Tables, PortsKept, tables
    <3> QED BY <1>1, <3>1, <3>2 DEF Tables, tables, UserGroupOK
  <2>5. ASSUME NEW f \in Editors PROVE Standing(editor[f])'
    <3>1. CASE f = e
      <4>1. editor'[f] = w
        BY <1>1, <3>1 DEF RegistryInv, Types
      <4>2. Standing(w)'
        BY <1>1, <2>1, StillStanding
      <4> QED BY <4>1, <4>2
    <3>2. CASE f # e
      <4>1. editor'[f] = Idle
        BY <2>3, <3>2
      <4>2. Standing(Idle)'
        BY DEF Standing, Idle
      <4> QED BY <4>1, <4>2
    <3> QED BY <3>1, <3>2
  <2> QED BY <2>3, <2>4, <2>5
<1> QED BY <1>2, <1>3 DEF RegistryInv

\* What holds between two requests, and while one is served that is not about
\* to write a rule for which a main rule was made.
UsersPlaced == "rollback" \notin done => \A u \in DOMAIN users : UserGroupOK(users[u])
SnapsSound == \A s \in DOMAIN snaps : Sound(snaps[s].rules, snaps[s].groups, done)
PortsSettled ==
  done \cap {"enable", "import", "rollback", "given up"} = {} => PortsApart(rules)
Ready == Sound(rules, groups, done) /\ SnapsSound /\ UsersPlaced /\ PortsSettled

\* A write leaves rows of their type under identifiers that were handed out.
Grown ==
  /\ issued' \in [Counters -> Nat]
  /\ \A c \in Counters : issued[c] <= issued'[c]
TypedWrite ==
  /\ rules' = rules \/ RuleTable(rules', issued'.rules)
  /\ groups' = groups \/ GroupTable(groups', issued'.groups)
  /\ nodes' = nodes \/ NodeTable(nodes', issued'.nodes)
  /\ labels' = labels \/ LabelTable(labels', issued')
  /\ users' = users \/ DOMAIN users' \subseteq 1..issued'.users
  /\ \/ snaps' = snaps
     \/ /\ DOMAIN snaps' \subseteq 1..issued'.snaps
        /\ \A s \in DOMAIN snaps' : Snapshot(snaps'[s], issued')

\* Identifiers that were handed out stay handed out: of one table ...
LEMMA TablesGrow ==
  ASSUME NEW n \in Nat, NEW m \in Nat, n <= m, NEW t
  PROVE  /\ RuleTable(t, n) => RuleTable(t, m)
         /\ GroupTable(t, n) => GroupTable(t, m)
         /\ NodeTable(t, n) => NodeTable(t, m)
         /\ DOMAIN t \subseteq 1..n => DOMAIN t \subseteq 1..m
  BY DEF RuleTable, GroupTable, NodeTable

\* ... and of all that a snapshot or a request holds.
LEMMA SnapshotsGrow ==
  ASSUME NEW n \in [Counters -> Nat], NEW m \in [Counters -> Nat],
         \A c \in Counters : n[c] <= m[c]
  PROVE  /\ \A t : LabelTable(t, n) => LabelTable(t, m)
         /\ \A s : Snapshot(s, n) => Snapshot(s, m)
         /\ \A f : First(f, n) => First(f, m)
         /\ \A w : Typed(w, n) => Typed(w, m)
<1>1. /\ n.rules \in Nat /\ n.groups \in Nat /\ n.nodes \in Nat /\ n.users \in Nat /\ n["node"] \in Nat
      /\ m.rules \in Nat /\ m.groups \in Nat /\ m.nodes \in Nat /\ m.users \in Nat /\ m["node"] \in Nat
      /\ n.rules <= m.rules /\ n.groups <= m.groups /\ n.nodes <= m.nodes /\ n.users <= m.users
      /\ n["node"] <= m["node"]
  BY DEF Counters, Kinds
<1>2. ASSUME NEW t, LabelTable(t, n) PROVE LabelTable(t, m)
  BY <1>2 DEF LabelTable, Counters
<1>3. ASSUME NEW s, Snapshot(s, n) PROVE Snapshot(s, m)
  BY <1>1, <1>2, <1>3, TablesGrow DEF Snapshot
<1>4. ASSUME NEW f, First(f, n) PROVE First(f, m)
  BY <1>1, <1>4, TablesGrow DEF First
<1>5. ASSUME NEW w, Typed(w, n) PROVE Typed(w, m)
  <2>1. /\ w.op = "group" => w.id \in 1..m.groups
        /\ w.op = "user" => w.id \in 1..m.users
        /\ w.op = "rule" => w.id \in 1..m.rules
        /\ w.op = "drop rule" => w.id \in 1..m.rules
    <3>1. /\ w.op = "group" => w.id \in 1..n.groups
          /\ w.op = "user" => w.id \in 1..n.users
          /\ w.op = "rule" => w.id \in 1..n.rules
          /\ w.op = "drop rule" => w.id \in 1..n.rules
      BY <1>5 DEF Typed
    <3>2. 1..n.groups \subseteq 1..m.groups /\ 1..n.users \subseteq 1..m.users /\ 1..n.rules \subseteq 1..m.rules
      BY <1>1
    <3> QED BY <3>1, <3>2
  <2>2. /\ w.op \in {"collect", "before rollback"} => First(w.first, m)
        /\ w.op \in {"before rollback", "restore"} => Snapshot(w.to, m)
    BY <1>3, <1>4, <1>5 DEF Typed
  <2> QED BY <1>5, <2>1, <2>2 DEF Typed
<1> QED BY <1>2, <1>3, <1>4, <1>5

\* A write of rows of their types leaves tables of their types.
LEMMA TypesWritten ==
  ASSUME Types, Grown, TypedWrite, ops' \in 0..MaxOps
  PROVE  TypeOK'
<1>1. /\ issued \in [Counters -> Nat]
      /\ issued.rules \in Nat /\ issued.groups \in Nat /\ issued.nodes \in Nat /\ issued.users \in Nat
      /\ issued.snaps \in Nat
      /\ issued'.rules \in Nat /\ issued'.groups \in Nat /\ issued'.nodes \in Nat /\ issued'.users \in Nat
      /\ issued'.snaps \in Nat
      /\ issued.rules <= issued'.rules /\ issued.groups <= issued'.groups
      /\ issued.nodes <= issued'.nodes /\ issued.users <= issued'.users /\ issued.snaps <= issued'.snaps
  BY DEF Types, TypeOK, Grown, Counters
<1>2. RuleTable(rules', issued'.rules) /\ GroupTable(groups', issued'.groups) /\ NodeTable(nodes', issued'.nodes)
  BY <1>1, TablesGrow DEF Types, TypeOK, TypedWrite
<1>3. LabelTable(labels', issued')
  BY <1>1, SnapshotsGrow DEF Types, TypeOK, TypedWrite, Grown
<1>4. DOMAIN users' \subseteq 1..issued'.users /\ DOMAIN snaps' \subseteq 1..issued'.snaps
  BY <1>1, TablesGrow DEF Types, TypeOK, TypedWrite
<1>5. \A s \in DOMAIN snaps' : Snapshot(snaps'[s], issued')
  BY <1>1, SnapshotsGrow DEF Types, TypeOK, TypedWrite, Grown
<1> QED BY <1>2, <1>3, <1>4, <1>5 DEF TypeOK, Grown

\* What a request that was served alone finds when it writes.
LEMMA ReadyToWrite ==
  ASSUME RegistryInv, NEW e \in Editors, Busy(e), Serial
  PROVE  /\ Standing(editor[e]) /\ Tables
         /\ ~Holds(e, "rule") => Ready
         /\ \A f \in Editors : f # e => ~Busy(f)
<1>1. Alone /\ Tables /\ Standing(editor[e])
  BY DEF RegistryInv
<1>2. \A f \in Editors : f # e => ~Busy(f) /\ ~Holds(f, "rule")
  BY <1>1 DEF Alone, Busy, Holds, Idle
<1>3. ~Holds(e, "rule") => \A r, s : ~MadeFor(r, s)
  BY <1>2 DEF MadeFor
<1> QED BY <1>1, <1>2, <1>3 DEF Tables, Ready, UsersPlaced, SnapsSound, PortsKept, PortsSettled, PortsApart

\* The write of a request keeps the invariant if it leaves tables that are as
\* they should be between two requests, and, of a request that is then to
\* write more, what that was validated for.
LEMMA WroteStep ==
  ASSUME RegistryInv, NEW e \in Editors, Busy(e), Grown, TypedWrite, NEW w,
         editor' = [editor EXCEPT ![e] = w], UNCHANGED <<ops, raced>>,
         Typed(w, issued'), w.op # "rule", Serial => Ready' /\ Standing(w)'
  PROVE  RegistryInv'
<1>1. Types'
  <2>1. TypeOK'
    BY TypesWritten DEF RegistryInv, Types, TypeOK
  <2>2. ASSUME NEW f \in Editors PROVE Typed(editor'[f], issued')
    <3>1. Typed(editor[f], issued) /\ issued \in [Counters -> Nat]
      BY DEF RegistryInv, Types, TypeOK
    <3>2. Typed(editor[f], issued')
      BY <3>1, SnapshotsGrow DEF Grown
    <3> QED BY <3>2 DEF RegistryInv, Types
  <2> QED BY <2>1, <2>2 DEF RegistryInv, Types
<1>2. ASSUME Serial' PROVE Alone' /\ Tables' /\ \A f \in Editors : Standing(editor[f])'
  <2>1. Serial /\ Ready' /\ Standing(w)'
    BY <1>2 DEF Serial
  <2>2. \A f \in Editors : editor'[f] = IF f = e THEN w ELSE Idle
    BY <2>1, ReadyToWrite DEF RegistryInv, Types, Busy
  <2>3. Tables'
    BY <2>1 DEF Tables, Ready, UsersPlaced, SnapsSound, PortsKept, PortsSettled, PortsApart
  <2>4. Standing(Idle)'
    BY DEF Standing, Idle
  <2>5. ASSUME NEW f \in Editors PROVE Standing(editor[f])'
    <3>1. CASE f = e
      BY <2>1, <2>2, <3>1
    <3>2. CASE f # e
      BY <2>2, <2>4, <3>2
    <3> QED BY <3>1, <3>2
  <2> QED BY <2>2, <2>3, <2>5 DEF Alone, Busy
<1> QED BY <1>1, <1>2 DEF RegistryInv

\* ... and so does the last write of a request.
LEMMA WrittenStep ==
  ASSUME RegistryInv, NEW e \in Editors, Busy(e), Release(e), Grown, TypedWrite, Serial => Ready'
  PROVE  RegistryInv'
<1>1. editor' = [editor EXCEPT ![e] = Idle] /\ UNCHANGED <<ops, raced>>
  BY DEF Release
<1>2. PICK w : w = Idle
  OBVIOUS
<1>3. Typed(w, issued') /\ Standing(w)' /\ w.op # "rule"
  BY <1>2 DEF Typed, Standing, Idle
<1> QED BY <1>1, <1>2, <1>3, WroteStep

\* A request that is one step.
LEMMA ServedStep ==
  ASSUME RegistryInv, Served, UNCHANGED editor, Grown, TypedWrite, Serial /\ Ready => Ready'
  PROVE  RegistryInv'
<1>1. /\ ops' = ops + 1 /\ raced' = (raced \/ \E f \in Editors : Busy(f))
      /\ ops < IF raced' THEN MaxTogether ELSE MaxOps
  BY DEF Served
<1>2. Types'
  <2>1. ops' \in 0..MaxOps
    BY <1>1, RequestBodies, RuleBounds DEF RegistryInv, Types, TypeOK
  <2>2. TypeOK'
    BY <2>1, TypesWritten DEF RegistryInv
  <2>3. ASSUME NEW f \in Editors PROVE Typed(editor[f], issued')
    <3>1. Typed(editor[f], issued) /\ issued \in [Counters -> Nat]
      BY DEF RegistryInv, Types, TypeOK
    <3> QED BY <3>1, SnapshotsGrow DEF Grown
  <2> QED BY <2>2, <2>3 DEF RegistryInv, Types
<1>3. ASSUME Serial' PROVE Alone' /\ Tables' /\ \A f \in Editors : Standing(editor[f])'
  <2>1. Serial /\ \A f \in Editors : editor[f] = Idle
    BY <1>1, <1>3 DEF Serial, Busy
  <2>2. \A r, s : ~MadeFor(r, s)
    BY <2>1 DEF MadeFor, Holds, Idle
  <2>3. Ready'
    BY <2>1, <2>2 DEF RegistryInv, Tables, Ready, UsersPlaced, SnapsSound, PortsKept, PortsSettled, PortsApart
  <2>4. Tables'
    BY <2>3 DEF Tables, Ready, UsersPlaced, SnapsSound, PortsKept, PortsSettled, PortsApart
  <2>5. Standing(Idle)'
    BY DEF Standing, Idle
  <2> QED BY <2>1, <2>4, <2>5 DEF Alone, Busy
<1> QED BY <1>2, <1>3 DEF RegistryInv

\* A further write that skips validation takes no more than its own promise away.
LEMMA SoundGrows ==
  ASSUME NEW rs, NEW gs, NEW d, NEW c, d \subseteq c, Sound(rs, gs, d)
  PROVE  Sound(rs, gs, c)
<1>1. MainsKept(c) => MainsKept(d)
  BY DEF MainsKept
<1>2. c \cap Unseen = {} => d \cap Unseen = {}
  OBVIOUS
<1> QED BY <1>1, <1>2 DEF Sound

\* What a write of the groups, of the rules or of neither leaves to be shown.
LEMMA ReadyAgain ==
  ASSUME Ready, done \subseteq done', Sound(rules', groups', done'),
         UNCHANGED snaps, UsersPlaced', PortsSettled'
  PROVE  Ready'
  BY SoundGrows DEF Ready, SnapsSound

---------------------------------------------------------------------------
\* Tables with a row put in, taken out or changed

\* A row put in, and rows taken out, leave a table of its type.
LEMMA PutTyped ==
  ASSUME NEW t, NEW n \in Nat, NEW m \in Nat, n <= m, NEW id \in 1..m, NEW row
  PROVE  /\ RuleTable(t, n) /\ row \in ForwardRule => RuleTable(Put(t, id, row), m)
         /\ GroupTable(t, n) /\ row \in DeviceGroup => GroupTable(Put(t, id, row), m)
         /\ NodeTable(t, n) /\ row \in Node => NodeTable(Put(t, id, row), m)
<1>1. DOMAIN t \subseteq 1..n => DOMAIN Put(t, id, row) \subseteq 1..m
  BY DEF Put
<1>2. ASSUME NEW S, t \in [DOMAIN t -> S], row \in S
      PROVE  Put(t, id, row) \in [DOMAIN Put(t, id, row) -> S]
  BY <1>2 DEF Put
<1> QED BY <1>1, <1>2 DEF RuleTable, GroupTable, NodeTable

LEMMA WithoutTyped ==
  ASSUME NEW t, NEW n \in Nat, NEW ids
  PROVE  /\ RuleTable(t, n) => RuleTable(Without(t, ids), n)
         /\ GroupTable(t, n) => GroupTable(Without(t, ids), n)
         /\ NodeTable(t, n) => NodeTable(Without(t, ids), n)
  BY DEF RuleTable, GroupTable, NodeTable, Without, Restrict

\* A device group is stored: its type stays, and the rules that use it are
\* looked at again.
LEMMA GroupPut ==
  ASSUME NEW rs, NEW gs, NEW d, Sound(rs, gs, d), NEW id, NEW g,
         g.failover # 0 => Out(g.failover, gs),
         id \in DOMAIN gs =>
           /\ g.type = gs[id].type
           /\ \A r \in DOMAIN rs : rs[r].in = id =>
                /\ rs[r].chain # {} => ~g.udp
                /\ rs[r].sub => rs[r].sni # "" /\ FixedPort(rs[r]) /\ sniAllowed(rs[r].sni, g.hosts),
         id \in DOMAIN gs /\ d \cap Unseen = {} => g.failover = 0
  PROVE  Sound(rs, Put(gs, id, g), d)
<1>1. PICK hs : hs = Put(gs, id, g)
  OBVIOUS
<1>2. DOMAIN hs = DOMAIN gs \cup {id} /\ hs[id] = g /\ \A x \in DOMAIN gs : x # id => hs[x] = gs[x]
  BY <1>1 DEF Put
<1>3. \A x : Out(x, gs) => Out(x, hs)
  BY <1>2 DEF Out
<1>4. ListensInbound(rs, hs) /\ FailsOverOutbound(hs)
  BY <1>2, <1>3 DEF Sound, ListensInbound, FailsOverOutbound
<1>5. "import" \notin d => RefersOutbound(rs, hs)
  BY <1>3 DEF Sound, RefersOutbound
<1>6. \A r \in DOMAIN rs : rs[r].in = id => id \in DOMAIN gs
  BY DEF Sound, ListensInbound
<1>7. ChainsWithoutUDP(rs, hs)
  BY <1>2, <1>6 DEF Sound, ChainsWithoutUDP, ListensInbound
<1>8. NamesAllowed(rs, hs)
  BY <1>2, <1>6 DEF Sound, NamesAllowed, NameAllowed, ListensInbound
<1>9. ASSUME d \cap Unseen = {} PROVE ChainsDirect(rs, hs)
  <2>1. RefersOutbound(rs, gs) /\ ChainsDirect(rs, gs)
    BY <1>9 DEF Sound, Unseen
  <2>2. ASSUME NEW r \in DOMAIN rs, NEW x \in rs[r].chain PROVE hs[x].failover = 0
    <3>1. x \in DOMAIN gs
      BY <2>1 DEF RefersOutbound, Out
    <3> QED BY <1>2, <1>9, <2>1, <3>1 DEF ChainsDirect
  <2> QED BY <2>2 DEF ChainsDirect
<1> QED BY <1>1, <1>4, <1>5, <1>7, <1>8, <1>9 DEF Sound

\* A device group that nothing refers to is deleted.
LEMMA GroupGone ==
  ASSUME NEW rs, NEW gs, NEW d, Sound(rs, gs, d), NEW id,
         \A r \in DOMAIN rs : rs[r].in # id,
         \/ ~Out(id, gs)
         \/ /\ \A r \in DOMAIN rs : rs[r].out # id /\ rs[r].rev # id /\ id \notin rs[r].chain
            /\ \A g \in DOMAIN gs : gs[g].failover # id
  PROVE  Sound(rs, Without(gs, {id}), d)
<1>1. PICK hs : hs = Without(gs, {id})
  OBVIOUS
<1>2. DOMAIN hs = DOMAIN gs \ {id} /\ \A x \in DOMAIN hs : hs[x] = gs[x]
  BY <1>1 DEF Without, Restrict
<1>3. \A x : Out(x, gs) /\ x # id => Out(x, hs)
  BY <1>2 DEF Out
<1>4. ListensInbound(rs, hs) /\ ChainsWithoutUDP(rs, hs) /\ NamesAllowed(rs, hs)
  BY <1>2 DEF Sound, ListensInbound, ChainsWithoutUDP, NamesAllowed, NameAllowed
<1>5. FailsOverOutbound(hs)
  BY <1>2, <1>3 DEF Sound, FailsOverOutbound
<1>6. "import" \notin d => RefersOutbound(rs, hs)
  BY <1>3 DEF Sound, RefersOutbound
<1>7. ASSUME d \cap Unseen = {} PROVE ChainsDirect(rs, hs)
  <2>1. RefersOutbound(rs, gs) /\ ChainsDirect(rs, gs)
    BY <1>7 DEF Sound, Unseen
  <2>2. ASSUME NEW r \in DOMAIN rs, NEW x \in rs[r].chain PROVE hs[x].failover = 0
    <3>1. Out(x, gs) /\ x # id
      BY <2>1 DEF RefersOutbound
    <3> QED BY <1>2, <2>1, <3>1 DEF ChainsDirect, Out
  <2> QED BY <2>2 DEF ChainsDirect
<1> QED BY <1>1, <1>4, <1>5, <1>6, <1>7 DEF Sound

\* Device groups are changed in what no rule depends on.
LEMMA GroupsAlike ==
  ASSUME NEW rs, NEW gs, NEW d, Sound(rs, gs, d), NEW hs, DOMAIN hs = DOMAIN gs,
         \A g \in DOMAIN gs :
           /\ hs[g].type = gs[g].type /\ hs[g].failover = gs[g].failover
           /\ hs[g].udp = gs[g].udp /\ hs[g].hosts = gs[g].hosts
  PROVE  Sound(rs, hs, d)
<1>1. \A x : Out(x, gs) => Out(x, hs)
  BY DEF Out
<1>2. ListensInbound(rs, hs) /\ ChainsWithoutUDP(rs, hs) /\ NamesAllowed(rs, hs)
  BY DEF Sound, ListensInbound, ChainsWithoutUDP, NamesAllowed, NameAllowed
<1>3. FailsOverOutbound(hs) /\ ("import" \notin d => RefersOutbound(rs, hs))
  BY <1>1 DEF Sound, FailsOverOutbound, RefersOutbound
<1>4. d \cap Unseen = {} => ChainsDirect(rs, hs)
  <2>1. d \cap Unseen = {} => RefersOutbound(rs, gs) /\ ChainsDirect(rs, gs)
    BY DEF Sound, Unseen
  <2> QED BY <2>1 DEF ChainsDirect, RefersOutbound, Out
<1> QED BY <1>2, <1>3, <1>4 DEF Sound

\* A rule is stored that passed the validation.
LEMMA RulePut ==
  ASSUME NEW rs, NEW gs, NEW d, Sound(rs, gs, d), NEW id, NEW r, RowSound(r, gs), RowPlaced(r, id, rs),
         MainsKept(d) => /\ ~r.sub => r.parent = 0
                         /\ id \in DOMAIN rs /\ r.sub => rs[id].sub
  PROVE  Sound(Put(rs, id, r), gs, d)
<1>1. PICK ts : ts = Put(rs, id, r)
  OBVIOUS
<1>2. DOMAIN ts = DOMAIN rs \cup {id} /\ ts[id] = r /\ \A x \in DOMAIN rs : x # id => ts[x] = rs[x]
  BY <1>1 DEF Put
<1>3. ListensInbound(ts, gs) /\ ChainsWithoutUDP(ts, gs) /\ Bounded(ts)
  BY <1>2 DEF Sound, RowSound, ListensInbound, ChainsWithoutUDP, Bounded
<1>4. "import" \notin d => RefersOutbound(ts, gs)
  BY <1>2 DEF Sound, RowSound, RefersOutbound
<1>5. NamesAllowed(ts, gs)
  BY <1>2 DEF Sound, RowSound, NamesAllowed
<1>6. NamesDistinct(ts)
  BY <1>2 DEF Sound, RowPlaced, NamesDistinct
<1>7. ASSUME MainsKept(d) PROVE HaveMain(ts)
  <2>1. SUFFICES ASSUME NEW x \in DOMAIN ts
                 PROVE  IF ts[x].sub THEN ts[x].parent \in DOMAIN ts /\ ~ts[ts[x].parent].sub
                        ELSE ts[x].parent = 0
    BY DEF HaveMain
  <2>2. CASE x = id
    BY <1>2, <1>7, <2>1, <2>2 DEF RowPlaced
  <2>3. CASE x # id
    BY <1>2, <1>7, <2>1, <2>3 DEF Sound, HaveMain
  <2> QED BY <2>2, <2>3
<1>8. ChainsShort(ts) /\ SubsParented(ts)
  BY <1>2 DEF Sound, RowSound, RowPlaced, ChainsShort, SubsParented
<1>9. d \cap Unseen = {} => ChainsDirect(ts, gs)
  BY <1>2 DEF Sound, RowSound, ChainsDirect
<1> QED BY <1>1, <1>3, <1>4, <1>5, <1>6, <1>7, <1>8, <1>9 DEF Sound

\* Rules are deleted, and with them the sub-rules of those that are main rules.
LEMMA RulesGone ==
  ASSUME NEW rs, NEW gs, NEW d, Sound(rs, gs, d), NEW ids,
         MainsKept(d) =>
           \A r \in DOMAIN rs \ ids : rs[r].sub => rs[r].parent \notin ids
  PROVE  Sound(Without(rs, ids), gs, d)
<1>1. PICK ts : ts = Without(rs, ids)
  OBVIOUS
<1>2. DOMAIN ts = DOMAIN rs \ ids /\ \A x \in DOMAIN ts : ts[x] = rs[x]
  BY <1>1 DEF Without, Restrict
<1>3. ListensInbound(ts, gs) /\ ChainsWithoutUDP(ts, gs) /\ Bounded(ts) /\ NamesDistinct(ts)
  BY <1>2 DEF Sound, ListensInbound, ChainsWithoutUDP, Bounded, NamesDistinct
<1>4. NamesAllowed(ts, gs) /\ ("import" \notin d => RefersOutbound(ts, gs))
  BY <1>2 DEF Sound, NamesAllowed, RefersOutbound
<1>5. MainsKept(d) => HaveMain(ts)
  BY <1>2 DEF Sound, HaveMain
<1>6. ChainsShort(ts) /\ SubsParented(ts) /\ (d \cap Unseen = {} => ChainsDirect(ts, gs))
  BY <1>2 DEF Sound, ChainsShort, SubsParented, ChainsDirect
<1> QED BY <1>1, <1>3, <1>4, <1>5, <1>6 DEF Sound

\* What a batch leaves alone.
Alike(a, b) ==
  /\ a.name = b.name /\ a.in = b.in /\ a.lo = b.lo /\ a.hi = b.hi
  /\ a.sub = b.sub /\ a.parent = b.parent /\ a.sni = b.sni
\* Rules are changed where they stand: not in name, group, ports or parent.
LEMMA RulesAlike ==
  ASSUME NEW rs, NEW gs, NEW d, Sound(rs, gs, d), NEW ts, DOMAIN ts = DOMAIN rs,
         \A r \in DOMAIN rs :
           /\ Alike(ts[r], rs[r]) /\ ts[r].mult <= MaxMultiplier
           /\ ts[r].chain # {} => ~gs[rs[r].in].udp /\ Cardinality(ts[r].chain) \in 2..3
           /\ "import" \notin d =>
                \A g \in ({ts[r].out, ts[r].rev} \ {0}) \cup ts[r].chain : Out(g, gs)
           /\ d \cap Unseen = {} => \A g \in ts[r].chain : gs[g].failover = 0
  PROVE  Sound(ts, gs, d)
<1>1. ListensInbound(ts, gs) /\ ChainsWithoutUDP(ts, gs) /\ Bounded(ts)
  BY DEF Sound, ListensInbound, ChainsWithoutUDP, Bounded, Alike
<1>2. "import" \notin d => RefersOutbound(ts, gs)
  BY DEF RefersOutbound
<1>3. NamesAllowed(ts, gs)
  BY DEF Sound, NamesAllowed, NameAllowed, FixedPort, Alike
<1>4. NamesDistinct(ts)
  BY DEF Sound, NamesDistinct, Alike
<1>5. MainsKept(d) => HaveMain(ts)
  BY DEF Sound, HaveMain, Alike
<1>6. ChainsShort(ts) /\ SubsParented(ts) /\ (d \cap Unseen = {} => ChainsDirect(ts, gs))
  BY DEF Sound, ChainsShort, SubsParented, ChainsDirect, Alike
<1> QED BY <1>1, <1>2, <1>3, <1>4, <1>5, <1>6 DEF Sound

\* ... and of ports: a row that fits keeps them apart, and so does any change
\* that enables nothing and moves nothing.
LEMMA PortsPut ==
  ASSUME NEW rs, NEW id, NEW r, RowApart(r, id, rs),
         \A x, y \in DOMAIN rs \ {id} :
           x # y /\ rs[x].parent # y /\ rs[y].parent # x => Apart(rs[x], rs[y])
  PROVE  PortsApart(Put(rs, id, r))
<1>1. PICK ts : ts = Put(rs, id, r)
  OBVIOUS
<1>2. DOMAIN ts = DOMAIN rs \cup {id} /\ ts[id] = r /\ \A x \in DOMAIN rs : x # id => ts[x] = rs[x]
  BY <1>1 DEF Put
<1>3. \A x \in DOMAIN rs \ {id, r.parent} : Apart(r, rs[x]) /\ Apart(rs[x], r)
  BY DEF RowApart, Apart, rangesOverlap
<1>4. SUFFICES ASSUME NEW x \in DOMAIN ts, NEW y \in DOMAIN ts,
                      x # y, ts[x].parent # y, ts[y].parent # x
               PROVE  Apart(ts[x], ts[y])
  BY <1>1 DEF PortsApart
<1>5. CASE x = id
  BY <1>2, <1>3, <1>4, <1>5
<1>6. CASE y = id
  BY <1>2, <1>3, <1>4, <1>6
<1>7. CASE x # id /\ y # id
  BY <1>2, <1>4, <1>7
<1> QED BY <1>5, <1>6, <1>7

\* Rules that are deleted, or disabled, leave the ports of the others apart.
LEMMA PortsAlike ==
  ASSUME NEW rs, PortsApart(rs), NEW ts, DOMAIN ts \subseteq DOMAIN rs,
         \A r \in DOMAIN ts :
           /\ ts[r].in = rs[r].in /\ ts[r].lo = rs[r].lo /\ ts[r].hi = rs[r].hi
           /\ ts[r].parent = rs[r].parent /\ (ts[r].on => rs[r].on)
  PROVE  PortsApart(ts)
<1>1. \A r \in DOMAIN ts : portRangeOf(ts[r]) = portRangeOf(rs[r])
  BY DEF portRangeOf
<1> QED BY <1>1 DEF PortsApart, Apart

---------------------------------------------------------------------------
\* Device groups

\* A step that hands out no identifier.
LEMMA NoneGrown ==
  ASSUME Types, UNCHANGED issued
  PROVE  Grown
<1>1. issued \in [Counters -> Nat] /\ \A c \in Counters : issued[c] <= issued[c]
  BY DEF Types, TypeOK
<1> QED BY <1>1 DEF Grown

\* What a request about to write holds is typed.
LEMMA Holding ==
  ASSUME RegistryInv, NEW e \in Editors, NEW op, op # "none", Holds(e, op)
  PROVE  Busy(e) /\ Typed(editor[e], issued) /\ editor[e].op = op
  BY DEF RegistryInv, Types, Holds, Busy, Idle

\* What a write of device groups has to show.
LEMMA GroupsWritten ==
  ASSUME RegistryInv, NEW e \in Editors, Busy(e), ~Holds(e, "rule"), Release(e), Grown,
         UNCHANGED <<rules, nodes, users, labels, snaps>>, done \subseteq done',
         done' \subseteq done \cup {"failover"},
         groups' = groups \/ GroupTable(groups', issued'.groups),
         Serial /\ Ready /\ Standing(editor[e]) => Sound(rules, groups', done')
  PROVE  RegistryInv'
<1>1. TypedWrite
  BY DEF TypedWrite
<1>2. ASSUME Serial PROVE Ready'
  <2>1. Ready /\ Standing(editor[e])
    BY <1>2, ReadyToWrite
  <2>2. Sound(rules', groups', done')
    BY <1>2, <2>1
  <2>3. UsersPlaced' /\ PortsSettled'
    BY <2>1 DEF Ready, UsersPlaced, UserGroupOK, PortsSettled
  <2> QED BY <2>1, <2>2, <2>3, ReadyAgain
<1> QED BY <1>1, <1>2, WrittenStep

\* The requests about device groups keep the invariant.
LEMMA GroupEditsStep ==
  ASSUME RegistryInv, NEW e \in Editors, GroupEdits(e)
  PROVE  RegistryInv'
<1>1. ASSUME NEW in \in GroupInputs, CreateGroup(e, in) PROVE RegistryInv'
  <2>1. PICK w : w = [op |-> "new group", row |-> in]
    OBVIOUS
  <2>2. Hold(e, w) /\ UNCHANGED tables
    BY <1>1, <2>1 DEF CreateGroup
  <2>3. Typed(w, issued)
    BY <2>1, RequestBodies DEF Typed
  <2>4. Standing(w)
    BY <1>1, <2>1 DEF Standing, CreateGroup
  <2> QED BY <2>2, <2>3, <2>4, HeldStep
<1>2. ASSUME NEW in \in GroupInputs, NEW id \in DOMAIN groups, UpdateGroup(e, id, in) PROVE RegistryInv'
  <2>1. PICK w : w = [op |-> "group", id |-> id, row |-> in]
    OBVIOUS
  <2>2. Hold(e, w) /\ UNCHANGED tables
    BY <1>2, <2>1 DEF UpdateGroup
  <2>3. Typed(w, issued)
    <3>1. id \in 1..issued.groups
      BY DEF RegistryInv, Types, TypeOK, GroupTable
    <3> QED BY <2>1, <3>1, RequestBodies DEF Typed
  <2>4. Standing(w)
    BY <1>2, <2>1 DEF Standing, UpdateGroup
  <2> QED BY <2>2, <2>3, <2>4, HeldStep
<1>3. ASSUME NEW id \in DOMAIN groups, DeleteGroup(e, id) PROVE RegistryInv'
  <2>1. PICK w : w = [op |-> "drop group", id |-> id]
    OBVIOUS
  <2>2. Hold(e, w) /\ UNCHANGED tables
    BY <1>3, <2>1 DEF DeleteGroup
  <2>3. Typed(w, issued)
    BY <2>1 DEF Typed
  <2>4. Standing(w)
    BY <1>3, <2>1 DEF Standing, DeleteGroup
  <2> QED BY <2>2, <2>3, <2>4, HeldStep
<1>4. ASSUME NEW id \in DOMAIN groups, Reorder(e, id) PROVE RegistryInv'
  <2>1. PICK w : w = [op |-> "reorder", id |-> id, members |-> groups[id].members]
    OBVIOUS
  <2>2. Hold(e, w) /\ UNCHANGED tables
    BY <1>4, <2>1 DEF Reorder
  <2>3. Typed(w, issued)
    <3>1. groups[id].members \in SUBSET Nat
      BY DEF RegistryInv, Types, TypeOK, GroupTable, DeviceGroup
    <3> QED BY <2>1, <3>1 DEF Typed
  <2>4. Standing(w)
    BY <2>1 DEF Standing
  <2> QED BY <2>2, <2>3, <2>4, HeldStep
<1>5. ASSUME SaveNewGroup(e) PROVE RegistryInv'
  <2>1. Holds(e, "new group") /\ Busy(e) /\ Typed(editor[e], issued) /\ ~Holds(e, "rule")
    BY <1>5, Holding DEF SaveNewGroup, Holds
  <2>2. PICK g : g = editor[e].row
    OBVIOUS
  <2>3. PICK id : id = NewId("groups")
    OBVIOUS
  <2>4. /\ groups' = Put(groups, id, g) /\ issued' = [issued EXCEPT !.groups = @ + 1]
        /\ Release(e) /\ UNCHANGED <<rules, nodes, users, labels, snaps, done>>
    BY <1>5, <2>2, <2>3 DEF SaveNewGroup
  <2>5. /\ issued \in [Counters -> Nat] /\ GroupTable(groups, issued.groups)
        /\ issued.groups \in Nat /\ id = issued.groups + 1
    BY <2>3 DEF RegistryInv, Types, TypeOK, Counters, NewId
  <2>6. Grown /\ issued'.groups = issued.groups + 1
    BY <2>4, <2>5 DEF Grown, Counters
  <2>7. GroupTable(groups', issued'.groups)
    <3>1. g \in DeviceGroup
      BY <2>1, <2>2 DEF Typed, Holds
    <3>2. id \in 1..(issued.groups + 1) /\ issued.groups <= issued.groups + 1 /\ issued.groups + 1 \in Nat
      BY <2>5
    <3> QED BY <2>4, <2>5, <2>6, <3>1, <3>2, PutTyped
  <2>8. ASSUME Ready, Standing(editor[e]) PROVE Sound(rules, groups', done)
    <3>1. validateFailoverGroup(0, g)
      BY <2>1, <2>2, <2>8 DEF Standing, Holds, ValidateDeviceGroupConfig
    <3>2. g.failover # 0 => Out(g.failover, groups)
      BY <3>1 DEF validateFailoverGroup, Outbound, Out
    <3>3. id \notin DOMAIN groups
      BY <2>5 DEF GroupTable
    <3> QED BY <2>4, <2>8, <3>2, <3>3, GroupPut DEF Ready
  <2> QED BY <2>1, <2>4, <2>6, <2>7, <2>8, GroupsWritten
<1>6. ASSUME SaveGroup(e) PROVE RegistryInv'
  <2>1. Holds(e, "group") /\ Busy(e) /\ Typed(editor[e], issued) /\ ~Holds(e, "rule")
    BY <1>6, Holding DEF SaveGroup, Holds
  <2>2. PICK g : g = editor[e].row
    OBVIOUS
  <2>3. PICK id : id = editor[e].id
    OBVIOUS
  <2>4. /\ groups' = Put(groups, id, g) /\ Release(e)
        /\ done \subseteq done' /\ done' \subseteq done \cup {"failover"}
        /\ g.failover # 0 => "failover" \in done'
        /\ UNCHANGED <<rules, nodes, users, labels, snaps, issued>>
    BY <1>6, <2>2, <2>3 DEF SaveGroup
  <2>5. Grown
    BY <2>4, NoneGrown DEF RegistryInv
  <2>6. GroupTable(groups', issued'.groups)
    <3>1. g \in DeviceGroup /\ id \in 1..issued.groups
      BY <2>1, <2>2, <2>3 DEF Typed, Holds
    <3>2. GroupTable(groups, issued.groups) /\ issued.groups \in Nat /\ issued.groups <= issued.groups
      BY DEF RegistryInv, Types, TypeOK, Counters
    <3> QED BY <2>4, <3>1, <3>2, PutTyped
  <2>7. ASSUME Ready, Standing(editor[e]) PROVE Sound(rules, groups', done')
    <3>1. /\ id \in DOMAIN groups /\ g.type = groups[id].type
          /\ validateFailoverGroup(id, g)
          /\ g.type = "inbound" => validateChainUsage(id, g) /\ validateSubRuleSNI(id, g)
      BY <2>1, <2>2, <2>3, <2>7 DEF Standing, Holds, ValidateDeviceGroupConfig
    <3>2. g.failover # 0 => Out(g.failover, groups)
      BY <3>1 DEF validateFailoverGroup, Outbound, Out
    <3>3. ASSUME NEW r \in DOMAIN rules, rules[r].in = id
          PROVE  /\ rules[r].chain # {} => ~g.udp
                 /\ rules[r].sub => /\ rules[r].sni # "" /\ FixedPort(rules[r])
                                    /\ sniAllowed(rules[r].sni, g.hosts)
      <4>1. g.type = "inbound"
        BY <2>7, <3>1, <3>3 DEF Ready, Sound, ListensInbound
      <4> QED BY <3>1, <3>3, <4>1 DEF validateChainUsage, validateSubRuleSNI
    <3>4. Sound(rules, groups, done')
      BY <2>4, <2>7, SoundGrows DEF Ready
    <3>5. done' \cap Unseen = {} => g.failover = 0
      BY <2>4 DEF Unseen
    <3> QED BY <2>4, <3>1, <3>2, <3>3, <3>4, <3>5, GroupPut
  <2> QED BY <2>1, <2>4, <2>5, <2>6, <2>7, GroupsWritten
<1>7. ASSUME RemoveGroup(e) PROVE RegistryInv'
  <2>1. Holds(e, "drop group") /\ Busy(e) /\ ~Holds(e, "rule")
    BY <1>7, Holding DEF RemoveGroup, Holds
  <2>2. PICK id : id = editor[e].id
    OBVIOUS
  <2>3. /\ groups' = Without(groups, {id}) /\ Release(e)
        /\ UNCHANGED <<rules, nodes, users, labels, snaps, issued, done>>
    BY <1>7, <2>2 DEF RemoveGroup
  <2>4. Grown
    BY <2>3, NoneGrown DEF RegistryInv
  <2>5. GroupTable(groups', issued'.groups)
    <3>1. GroupTable(groups, issued.groups) /\ issued.groups \in Nat
      BY DEF RegistryInv, Types, TypeOK, Counters
    <3> QED BY <2>3, <3>1, WithoutTyped
  <2>6. ASSUME Ready, Standing(editor[e]) PROVE Sound(rules, groups', done)
    <3>1. id \in DOMAIN groups /\ ~collectReferences(id)
      BY <2>1, <2>2, <2>6 DEF Standing, Holds
    <3>2. CASE IsInbound(id)
      BY <2>3, <2>6, <3>1, <3>2, GroupGone DEF Ready, collectReferences, IsInbound, Out
    <3>3. CASE ~IsInbound(id)
      <4>1. \A r \in DOMAIN rules : rules[r].in # id
        BY <2>6, <3>3 DEF Ready, Sound, ListensInbound, IsInbound
      <4> QED BY <2>3, <2>6, <3>1, <3>3, <4>1, GroupGone DEF Ready, collectReferences
    <3> QED BY <3>2, <3>3
  <2> QED BY <2>1, <2>3, <2>4, <2>5, <2>6, GroupsWritten
<1>8. ASSUME WriteOrder(e) PROVE RegistryInv'
  <2>1. Holds(e, "reorder") /\ Busy(e) /\ Typed(editor[e], issued) /\ ~Holds(e, "rule")
    BY <1>8, Holding DEF WriteOrder, Holds
  <2>2. PICK id : id = editor[e].id
    OBVIOUS
  <2>3. PICK m : m = editor[e].members
    OBVIOUS
  <2>4. /\ groups' = IF id \notin DOMAIN groups THEN groups ELSE [groups EXCEPT ![id].members = m]
        /\ Release(e) /\ UNCHANGED <<rules, nodes, users, labels, snaps, issued, done>>
    BY <1>8, <2>2, <2>3 DEF WriteOrder
  <2>5. Grown
    BY <2>4, NoneGrown DEF RegistryInv
  <2>6. GroupTable(groups, issued.groups) /\ m \in SUBSET Nat
    BY <2>1, <2>3 DEF RegistryInv, Types, TypeOK, Typed, Holds
  <2>7. GroupTable(groups', issued'.groups)
    BY <2>4, <2>6 DEF GroupTable, DeviceGroup
  <2>8. /\ DOMAIN groups' = DOMAIN groups
        /\ \A g \in DOMAIN groups :
             /\ groups'[g].type = groups[g].type /\ groups'[g].failover = groups[g].failover
             /\ groups'[g].udp = groups[g].udp /\ groups'[g].hosts = groups[g].hosts
    BY <2>4, <2>6 DEF GroupTable, DeviceGroup
  <2>9. Ready => Sound(rules, groups', done')
    BY <2>4, <2>8, GroupsAlike DEF Ready
  <2> QED BY <2>1, <2>4, <2>5, <2>7, <2>9, GroupsWritten
<1> QED BY <1>1, <1>2, <1>3, <1>4, <1>5, <1>6, <1>7, <1>8 DEF GroupEdits

---------------------------------------------------------------------------
\* Labels, nodes and users

\* A new rule, user or node group keeps the invariant.
LEMMA LabelGrows ==
  ASSUME RegistryInv, NEW kind \in Kinds, CreateLabel(kind)
  PROVE  RegistryInv'
<1>1. /\ Served /\ UNCHANGED <<rules, groups, nodes, users, snaps, editor>> /\ UNCHANGED done
      /\ labels' = [labels EXCEPT ![kind] = @ \cup {issued[kind] + 1}]
      /\ issued' = [issued EXCEPT ![kind] = @ + 1]
  BY DEF CreateLabel, NewId, Served
<1>2. issued \in [Counters -> Nat] /\ LabelTable(labels, issued) /\ kind \in Counters
  BY DEF RegistryInv, Types, TypeOK, Counters
<1>3. Grown /\ \A c \in Counters : issued'[c] = IF c = kind THEN issued[c] + 1 ELSE issued[c]
  BY <1>1, <1>2 DEF Grown
<1>4. LabelTable(labels', issued')
  <2>1. labels' \in [Kinds -> SUBSET Nat]
    BY <1>1, <1>2 DEF LabelTable
  <2>2. ASSUME NEW k \in Kinds PROVE labels'[k] \subseteq 1..issued'[k]
    <3>1. labels[k] \subseteq 1..issued[k] /\ issued[k] \in Nat /\ k \in Counters
      BY <1>2 DEF LabelTable, Counters
    <3>2. CASE k = kind
      BY <1>1, <1>2, <1>3, <3>1, <3>2 DEF LabelTable
    <3>3. CASE k # kind
      BY <1>1, <1>2, <1>3, <3>1, <3>3 DEF LabelTable
    <3> QED BY <3>2, <3>3
  <2> QED BY <2>1, <2>2 DEF LabelTable
<1>5. TypedWrite
  BY <1>1, <1>4 DEF TypedWrite
<1>6. ASSUME Ready PROVE Ready'
  <2>1. labels["user"] \subseteq labels'["user"]
    BY <1>1, <1>2 DEF LabelTable, Kinds
  <2>2. UsersPlaced'
    BY <1>1, <1>6, <2>1 DEF Ready, UsersPlaced, UserGroupOK
  <2> QED BY <1>1, <1>6, <2>2 DEF Ready, SnapsSound, PortsSettled
<1> QED BY <1>1, <1>3, <1>5, <1>6, ServedStep

\* ... and the deletion of one, of a node group in two writes.
LEMMA LabelEditsStep ==
  ASSUME RegistryInv, NEW e \in Editors, LabelEdits(e)
  PROVE  RegistryInv'
<1>1. ASSUME NEW kind \in Kinds, NEW id \in labels[kind], DeleteLabel(e, kind, id) PROVE RegistryInv'
  <2>1. PICK w : w = [op |-> "drop label", kind |-> kind, id |-> id]
    OBVIOUS
  <2>2. Hold(e, w) /\ UNCHANGED tables
    BY <1>1, <2>1 DEF DeleteLabel
  <2>3. Typed(w, issued)
    BY <2>1 DEF Typed
  <2>4. Standing(w)
    BY <1>1, <2>1 DEF Standing, DeleteLabel
  <2> QED BY <2>2, <2>3, <2>4, HeldStep
<1>2. ASSUME RemoveLabel(e) PROVE RegistryInv'
  <2>1. Holds(e, "drop label") /\ Busy(e) /\ Typed(editor[e], issued) /\ ~Holds(e, "rule")
    BY <1>2, Holding DEF RemoveLabel, Holds
  <2>2. PICK kind : kind = editor[e].kind
    OBVIOUS
  <2>3. PICK id : id = editor[e].id
    OBVIOUS
  <2>4. PICK w : w = IF kind = "node" THEN [op |-> "scrub", id |-> id] ELSE Idle
    OBVIOUS
  <2>5. /\ labels' = [labels EXCEPT ![kind] = @ \ {id}] /\ editor' = [editor EXCEPT ![e] = w]
        /\ UNCHANGED <<rules, groups, nodes, users, snaps, issued, ops, raced, done>>
    BY <1>2, <2>2, <2>3, <2>4 DEF RemoveLabel
  <2>6. kind \in Kinds /\ LabelTable(labels, issued)
    BY <2>1, <2>2 DEF RegistryInv, Types, TypeOK, Typed, Holds
  <2>7. Grown
    BY <2>5, NoneGrown DEF RegistryInv
  <2>8. TypedWrite
    BY <2>5, <2>6 DEF TypedWrite, LabelTable
  <2>9. Typed(w, issued') /\ Standing(w)' /\ w.op # "rule"
    <3>1. w.op = "scrub" \/ w.op = "none"
      BY <2>4 DEF Idle
    <3> QED BY <3>1 DEF Typed, Standing
  <2>10. ASSUME Serial PROVE Ready'
    <3>1. Ready /\ Standing(editor[e])
      BY <2>1, <2>10, ReadyToWrite
    <3>2. UsersPlaced'
      <4>1. kind = "user" => \A u \in DOMAIN users : users[u] # id
        BY <2>1, <2>2, <2>3, <3>1 DEF Standing, Holds, LabelUsed
      <4> QED BY <2>5, <2>6, <3>1, <4>1 DEF Ready, UsersPlaced, UserGroupOK, LabelTable, Kinds
    <3> QED BY <2>5, <3>1, <3>2 DEF Ready, SnapsSound, PortsSettled
  <2> QED BY <2>1, <2>5, <2>7, <2>8, <2>9, <2>10, WroteStep
<1>3. ASSUME ScrubNodes(e) PROVE RegistryInv'
  <2>1. Holds(e, "scrub") /\ Busy(e) /\ ~Holds(e, "rule")
    BY <1>3, Holding DEF ScrubNodes, Holds
  <2>2. PICK id : id = editor[e].id
    OBVIOUS
  <2>3. /\ nodes' = [n \in DOMAIN nodes |-> [nodes[n] EXCEPT !.labels = @ \ {id}]]
        /\ Release(e) /\ UNCHANGED <<rules, groups, users, labels, snaps, issued, done>>
    BY <1>3, <2>2 DEF ScrubNodes
  <2>4. NodeTable(nodes, issued.nodes)
    BY DEF RegistryInv, Types, TypeOK
  <2>5. NodeTable(nodes', issued.nodes)
    BY <2>3, <2>4 DEF NodeTable, Node
  <2>6. Grown /\ TypedWrite
    BY <2>3, <2>5, NoneGrown DEF RegistryInv, TypedWrite
  <2>7. ASSUME Serial PROVE Ready'
    BY <2>1, <2>3, <2>7, ReadyToWrite DEF Ready, SnapsSound, UsersPlaced, UserGroupOK, PortsSettled
  <2> QED BY <2>1, <2>3, <2>6, <2>7, WrittenStep
<1> QED BY <1>1, <1>2, <1>3 DEF LabelEdits

\* Nothing that is promised is about nodes.
LEMMA NodesWritten ==
  ASSUME RegistryInv, NEW e \in Editors, Busy(e), ~Holds(e, "rule"), Release(e), Grown,
         UNCHANGED <<rules, groups, users, labels, snaps, done>>,
         nodes' = nodes \/ NodeTable(nodes', issued'.nodes)
  PROVE  RegistryInv'
<1>1. TypedWrite
  BY DEF TypedWrite
<1>2. ASSUME Serial PROVE Ready'
  BY <1>2, ReadyToWrite DEF Ready, SnapsSound, UsersPlaced, UserGroupOK, PortsSettled
<1> QED BY <1>1, <1>2, WrittenStep

\* The requests about nodes keep the invariant.
LEMMA NodeChangesStep ==
  ASSUME RegistryInv, NEW e \in Editors, NodeChanges(e)
  PROVE  RegistryInv'
<1>1. ASSUME NEW in \in NodeInputs, CreateNode(e, in) PROVE RegistryInv'
  <2>1. PICK w : w = [op |-> "new node", row |-> in]
    OBVIOUS
  <2>2. Hold(e, w) /\ UNCHANGED tables
    BY <1>1, <2>1 DEF CreateNode
  <2>3. Typed(w, issued) /\ Standing(w)
    BY <2>1, RequestBodies DEF Typed, Standing
  <2> QED BY <2>2, <2>3, HeldStep
<1>2. ASSUME NEW id \in DOMAIN nodes, DeleteNode(e, id) PROVE RegistryInv'
  <2>1. PICK w : w = [op |-> "drop node", id |-> id]
    OBVIOUS
  <2>2. Hold(e, w) /\ UNCHANGED tables
    BY <1>2, <2>1 DEF DeleteNode
  <2>3. Typed(w, issued) /\ Standing(w)
    BY <2>1 DEF Typed, Standing
  <2> QED BY <2>2, <2>3, HeldStep
<1>3. ASSUME NEW id \in DOMAIN nodes, NEW in \in NodeEdits, UpdateNode(e, id, in) PROVE RegistryInv'
  <2>1. PICK w : w = [op |-> "node", id |-> id, row |-> in]
    OBVIOUS
  <2>2. Hold(e, w) /\ UNCHANGED tables
    BY <1>3, <2>1 DEF UpdateNode
  <2>3. Typed(w, issued) /\ Standing(w)
    BY <2>1, RequestBodies DEF Typed, Standing
  <2> QED BY <2>2, <2>3, HeldStep
<1>4. ASSUME NEW id \in DOMAIN nodes, NEW g \in labels["node"], NEW mode \in BatchModes,
             BatchGroup(e, id, {g}, mode)
      PROVE  RegistryInv'
  <2>1. PICK next : next = CASE mode = "replace" -> {g}
                             [] mode = "add"     -> nodes[id].labels \cup {g}
                             [] mode = "remove"  -> nodes[id].labels \ {g}
    OBVIOUS
  <2>2. PICK w : w = [op |-> "node", id |-> id, row |-> [name |-> Keep, role |-> Keep, labels |-> next]]
    OBVIOUS
  <2>3. Hold(e, w) /\ UNCHANGED tables
    BY <1>4, <2>1, <2>2 DEF BatchGroup
  <2>4. next \in SUBSET Nat
    <3>1. nodes[id].labels \in SUBSET Nat /\ g \in Nat
      BY DEF RegistryInv, Types, TypeOK, NodeTable, Node, LabelTable, Kinds
    <3> QED BY <2>1, <3>1 DEF BatchModes
  <2>5. Typed(w, issued) /\ Standing(w)
    BY <2>2, <2>4 DEF Typed, Standing, NodeBody, OrKeep
  <2> QED BY <2>3, <2>5, HeldStep
<1>5. ASSUME SaveNewNode(e) PROVE RegistryInv'
  <2>1. Holds(e, "new node") /\ Busy(e) /\ Typed(editor[e], issued) /\ ~Holds(e, "rule")
    BY <1>5, Holding DEF SaveNewNode, Holds
  <2>2. PICK in : in = editor[e].row
    OBVIOUS
  <2>3. PICK row : row = IF validateGroupsForRole(in.role, in.labels) THEN in ELSE [in EXCEPT !.labels = {}]
    OBVIOUS
  <2>4. /\ nodes' = Put(nodes, issued.nodes + 1, row) /\ issued' = [issued EXCEPT !.nodes = @ + 1]
        /\ Release(e) /\ UNCHANGED <<rules, groups, users, labels, snaps, done>>
    BY <1>5, <2>2, <2>3 DEF SaveNewNode, NewId
  <2>5. issued \in [Counters -> Nat] /\ NodeTable(nodes, issued.nodes) /\ issued.nodes \in Nat
    BY DEF RegistryInv, Types, TypeOK, Counters
  <2>6. Grown /\ issued'.nodes = issued.nodes + 1
    BY <2>4, <2>5 DEF Grown, Counters
  <2>7. NodeTable(nodes', issued'.nodes)
    <3>1. in \in Node
      BY <2>1, <2>2 DEF Typed, Holds
    <3>2. row \in Node
      BY <2>3, <3>1 DEF Node
    <3>3. /\ issued.nodes + 1 \in 1..(issued.nodes + 1) /\ issued.nodes <= issued.nodes + 1
          /\ issued.nodes + 1 \in Nat
      BY <2>5
    <3> QED BY <2>4, <2>5, <2>6, <3>2, <3>3, PutTyped
  <2> QED BY <2>1, <2>4, <2>6, <2>7, NodesWritten
<1>6. ASSUME SaveNode(e) PROVE RegistryInv'
  <2>1. Holds(e, "node") /\ Busy(e) /\ Typed(editor[e], issued) /\ ~Holds(e, "rule")
    BY <1>6, Holding DEF SaveNode, Holds
  <2>2. PICK in : in = editor[e].row
    OBVIOUS
  <2>3. PICK id : id = editor[e].id
    OBVIOUS
  <2>4. /\ nodes' = IF id \notin DOMAIN nodes THEN nodes
                    ELSE [nodes EXCEPT ![id] = NodeUpdated(nodes[id], in)]
        /\ Release(e) /\ UNCHANGED <<rules, groups, users, labels, snaps, issued, done>>
    BY <1>6, <2>2, <2>3 DEF SaveNode
  <2>5. in \in NodeBody
    BY <2>1, <2>2 DEF Typed, Holds
  <2>6. NodeTable(nodes, issued.nodes)
    BY DEF RegistryInv, Types, TypeOK
  <2>7. \A n \in Node : NodeUpdated(n, in) \in Node
    BY <2>5 DEF NodeUpdated, Node, NodeBody, OrKeep, Given
  <2>8. NodeTable(nodes', issued.nodes)
    BY <2>4, <2>6, <2>7 DEF NodeTable
  <2> QED BY <2>1, <2>4, <2>8, NoneGrown, NodesWritten DEF RegistryInv
<1>7. ASSUME RemoveNode(e) PROVE RegistryInv'
  <2>1. Holds(e, "drop node") /\ Busy(e) /\ ~Holds(e, "rule")
    BY <1>7, Holding DEF RemoveNode, Holds
  <2>2. PICK id : id = editor[e].id
    OBVIOUS
  <2>3. /\ nodes' = Without(nodes, {id})
        /\ Release(e) /\ UNCHANGED <<rules, groups, users, labels, snaps, issued, done>>
    BY <1>7, <2>2 DEF RemoveNode
  <2>4. NodeTable(nodes, issued.nodes) /\ issued.nodes \in Nat
    BY DEF RegistryInv, Types, TypeOK, Counters
  <2>5. NodeTable(nodes', issued'.nodes)
    BY <2>3, <2>4, WithoutTyped
  <2> QED BY <2>1, <2>3, <2>5, NoneGrown, NodesWritten DEF RegistryInv
<1> QED BY <1>1, <1>2, <1>3, <1>4, <1>5, <1>6, <1>7 DEF NodeChanges

\* The requests about users keep the invariant, deletion by force included.
LEMMA UserEditsStep ==
  ASSUME RegistryInv, NEW e \in Editors, UserEdits(e)
  PROVE  RegistryInv'
<1>1. ASSUME NEW g \in {0} \cup labels["user"], CreateUser(e, g) PROVE RegistryInv'
  <2>1. PICK w : w = [op |-> "new user", group |-> g]
    OBVIOUS
  <2>2. Hold(e, w) /\ UNCHANGED tables
    BY <1>1, <2>1 DEF CreateUser
  <2>3. Typed(w, issued) /\ Standing(w)
    BY <1>1, <2>1 DEF Typed, Standing, CreateUser
  <2> QED BY <2>2, <2>3, HeldStep
<1>2. ASSUME NEW g \in {0} \cup labels["user"], NEW id \in DOMAIN users, UpdateUser(e, id, g) PROVE RegistryInv'
  <2>1. PICK w : w = [op |-> "user", id |-> id, group |-> g]
    OBVIOUS
  <2>2. Hold(e, w) /\ UNCHANGED tables
    BY <1>2, <2>1 DEF UpdateUser
  <2>3. id \in 1..issued.users
    BY DEF RegistryInv, Types, TypeOK
  <2>4. Typed(w, issued) /\ Standing(w)
    BY <1>2, <2>1, <2>3 DEF Typed, Standing, UpdateUser
  <2> QED BY <2>2, <2>4, HeldStep
<1>3. ASSUME NEW id \in DOMAIN users, NEW force \in BOOLEAN, DeleteUser(e, id, force) PROVE RegistryInv'
  <2>1. PICK w : w = [op |-> "drop user", id |-> id, rules |-> Owned(id) # {}]
    OBVIOUS
  <2>2. Hold(e, w) /\ UNCHANGED tables
    BY <1>3, <2>1 DEF DeleteUser
  <2>3. Typed(w, issued) /\ Standing(w)
    BY <2>1 DEF Typed, Standing
  <2> QED BY <2>2, <2>3, HeldStep
<1>4. ASSUME SaveNewUser(e) PROVE RegistryInv'
  <2>1. Holds(e, "new user") /\ Busy(e) /\ ~Holds(e, "rule")
    BY <1>4, Holding DEF SaveNewUser, Holds
  <2>2. PICK g : g = editor[e].group
    OBVIOUS
  <2>3. /\ users' = Put(users, issued.users + 1, g) /\ issued' = [issued EXCEPT !.users = @ + 1]
        /\ Release(e) /\ UNCHANGED <<rules, groups, nodes, labels, snaps, done>>
    BY <1>4, <2>2 DEF SaveNewUser, NewId
  <2>4. issued \in [Counters -> Nat] /\ DOMAIN users \subseteq 1..issued.users /\ issued.users \in Nat
    BY DEF RegistryInv, Types, TypeOK, Counters
  <2>5. Grown /\ issued'.users = issued.users + 1
    BY <2>3, <2>4 DEF Grown, Counters
  <2>6. DOMAIN users' \subseteq 1..(issued.users + 1)
    BY <2>3, <2>4 DEF Put
  <2>7. TypedWrite
    BY <2>3, <2>5, <2>6 DEF TypedWrite
  <2>8. ASSUME Serial PROVE Ready'
    <3>1. Ready /\ UserGroupOK(g)
      BY <2>1, <2>2, <2>8, ReadyToWrite DEF Standing, Holds
    <3>2. UsersPlaced'
      BY <2>3, <3>1 DEF Ready, UsersPlaced, UserGroupOK, Put
    <3> QED BY <2>3, <3>1, <3>2 DEF Ready, SnapsSound, PortsSettled
  <2> QED BY <2>1, <2>3, <2>5, <2>7, <2>8, WrittenStep
<1>5. ASSUME SaveUser(e) PROVE RegistryInv'
  <2>1. Holds(e, "user") /\ Busy(e) /\ Typed(editor[e], issued) /\ ~Holds(e, "rule")
    BY <1>5, Holding DEF SaveUser, Holds
  <2>2. PICK g : g = editor[e].group
    OBVIOUS
  <2>3. PICK id : id = editor[e].id
    OBVIOUS
  <2>4. /\ users' = Put(users, id, g) /\ Release(e)
        /\ UNCHANGED <<rules, groups, nodes, labels, snaps, issued, done>>
    BY <1>5, <2>2, <2>3 DEF SaveUser
  <2>5. DOMAIN users \subseteq 1..issued.users /\ id \in 1..issued.users
    BY <2>1, <2>3 DEF RegistryInv, Types, TypeOK, Typed, Holds
  <2>6. DOMAIN users' \subseteq 1..issued.users
    BY <2>4, <2>5 DEF Put
  <2>7. Grown /\ TypedWrite
    BY <2>4, <2>6, NoneGrown DEF RegistryInv, TypedWrite
  <2>8. ASSUME Serial PROVE Ready'
    <3>1. Ready /\ UserGroupOK(g)
      BY <2>1, <2>2, <2>8, ReadyToWrite DEF Standing, Holds
    <3>2. UsersPlaced'
      BY <2>4, <3>1 DEF Ready, UsersPlaced, UserGroupOK, Put
    <3> QED BY <2>4, <3>1, <3>2 DEF Ready, SnapsSound, PortsSettled
  <2> QED BY <2>1, <2>4, <2>7, <2>8, WrittenStep
<1>6. ASSUME RemoveUser(e) PROVE RegistryInv'
  <2>1. Holds(e, "drop user") /\ Busy(e) /\ ~Holds(e, "rule")
    BY <1>6, Holding DEF RemoveUser, Holds
  <2>2. PICK id : id = editor[e].id
    OBVIOUS
  <2>3. /\ rules' = IF editor[e].rules THEN Without(rules, Owned(id)) ELSE rules
        /\ users' = Without(users, {id})
        /\ done' = IF editor[e].rules THEN done \cup {"force"} ELSE done
        /\ Release(e) /\ UNCHANGED <<groups, nodes, labels, snaps, issued>>
    BY <1>6, <2>2 DEF RemoveUser
  <2>4. RuleTable(rules, issued.rules) /\ issued.rules \in Nat /\ DOMAIN users \subseteq 1..issued.users
    BY DEF RegistryInv, Types, TypeOK, Counters
  <2>5. RuleTable(rules', issued.rules)
    BY <2>3, <2>4, WithoutTyped
  <2>6. DOMAIN users' \subseteq 1..issued.users
    BY <2>3, <2>4 DEF Without, Restrict
  <2>7. Grown /\ TypedWrite
    BY <2>3, <2>5, <2>6, NoneGrown DEF RegistryInv, TypedWrite
  <2>8. ASSUME Serial PROVE Ready'
    <3>1. Ready
      BY <2>1, <2>8, ReadyToWrite
    <3>2. done \subseteq done'
      BY <2>3
    <3>3. UsersPlaced'
      BY <2>3, <3>1, <3>2 DEF Ready, UsersPlaced, UserGroupOK, Without, Restrict
    <3>4. CASE editor[e].rules
      <4>1. Sound(rules, groups, done')
        BY <3>1, <3>2, SoundGrows DEF Ready
      <4>2. ~MainsKept(done')
        BY <2>3, <3>4 DEF MainsKept
      <4>3. Sound(rules', groups', done')
        BY <2>3, <3>4, <4>1, <4>2, RulesGone
      <4>4. PortsSettled'
        <5>1. DOMAIN rules' \subseteq DOMAIN rules /\ \A r \in DOMAIN rules' : rules'[r] = rules[r]
          BY <2>3, <3>4 DEF Without, Restrict
        <5>2. PortsApart(rules) => PortsApart(rules')
          BY <5>1, PortsAlike
        <5> QED BY <3>1, <3>2, <5>2 DEF Ready, PortsSettled
      <4> QED BY <2>3, <3>1, <3>2, <3>3, <4>3, <4>4, ReadyAgain
    <3>5. CASE ~editor[e].rules
      BY <2>3, <3>1, <3>3, <3>5 DEF Ready, SnapsSound, PortsSettled
    <3> QED BY <3>4, <3>5
  <2> QED BY <2>1, <2>3, <2>7, <2>8, WrittenStep
<1> QED BY <1>1, <1>2, <1>3, <1>4, <1>5, <1>6 DEF UserEdits

---------------------------------------------------------------------------
\* Rules

\* What a rule is, but for the columns the database fills in.
SameRule(s, r) ==
  Alike(s, r) /\ s.out = r.out /\ s.rev = r.rev /\ s.chain = r.chain

\* A row is what it was, but for the columns the database fills in and the mark.
LEMMA RowsAsStored ==
  ASSUME NEW r \in ForwardRule
  PROVE  /\ Inserted(r) \in ForwardRule /\ SameRule(Inserted(r), r)
         /\ Inserted(r).mult = IF r.mult = 0 THEN 1 ELSE r.mult
         /\ Inserted(r).status = r.status
         /\ \A s \in SyncStates :
              /\ [r EXCEPT !.status = s] \in ForwardRule /\ SameRule([r EXCEPT !.status = s], r)
              /\ [r EXCEPT !.status = s].mult = r.mult /\ [r EXCEPT !.status = s].status = s
              /\ [r EXCEPT !.status = s].on = r.on
  BY DEF Inserted, ForwardRule, SameRule, Alike

\* The multiplier that replaces a zero is allowed.
LEMMA DefaultAllowed ==
  ASSUME NEW m \in Nat, m <= MaxMultiplier
  PROVE  (IF m = 0 THEN 1 ELSE m) <= MaxMultiplier
  BY RuleBounds

\* ... and so is a row that is saved, marked, whether it was there or is inserted.
LEMMA RestoredRow ==
  ASSUME NEW r \in ForwardRule, NEW id
  PROVE  LET s == Saved(id, [r EXCEPT !.status = "unsynced"])
         IN  /\ s \in ForwardRule /\ SameRule(s, r) /\ s.status = "unsynced"
             /\ r.mult <= MaxMultiplier => s.mult <= MaxMultiplier
<1>1. PICK u : u = [r EXCEPT !.status = "unsynced"]
  OBVIOUS
<1>2. u \in ForwardRule /\ SameRule(u, r) /\ u.mult = r.mult /\ u.status = "unsynced"
  BY <1>1, RowsAsStored DEF SyncStates
<1>3. PICK v : v = Inserted(u)
  OBVIOUS
<1>4. /\ v \in ForwardRule /\ SameRule(v, u) /\ v.status = "unsynced"
      /\ v.mult = IF u.mult = 0 THEN 1 ELSE u.mult
  BY <1>2, <1>3, RowsAsStored
<1>5. SameRule(v, r)
  BY <1>2, <1>4 DEF SameRule, Alike
<1>6. r.mult <= MaxMultiplier => v.mult <= MaxMultiplier
  <2>1. r.mult \in Nat
    BY DEF ForwardRule
  <2> QED BY <1>2, <1>4, <2>1, DefaultAllowed
<1> QED BY <1>1, <1>2, <1>3, <1>4, <1>5, <1>6 DEF Saved

\* Such a row is as sound, and fits as well, as the one that was validated.
LEMMA SameRuleKeeps ==
  ASSUME NEW r, NEW s, SameRule(s, r)
  PROVE  /\ \A gs : RowSound(r, gs) /\ s.mult <= MaxMultiplier => RowSound(s, gs)
         /\ \A id, rs : RowPlaced(r, id, rs) => RowPlaced(s, id, rs)
         /\ \A id, rs : RowApart(r, id, rs) => RowApart(s, id, rs)
<1>1. portRangeOf(s) = portRangeOf(r) /\ (FixedPort(r) <=> FixedPort(s))
  BY DEF SameRule, Alike, portRangeOf, FixedPort
<1>2. \A gs : RowSound(r, gs) /\ s.mult <= MaxMultiplier => RowSound(s, gs)
  BY <1>1 DEF SameRule, Alike, RowSound, NameAllowed
<1>3. \A id, rs : RowPlaced(r, id, rs) => RowPlaced(s, id, rs)
  BY DEF SameRule, Alike, RowPlaced
<1>4. \A id, rs : RowApart(r, id, rs) => RowApart(s, id, rs)
  BY <1>1 DEF SameRule, Alike, RowApart
<1> QED BY <1>2, <1>3, <1>4

\* What a write of rules has to show.
LEMMA RulesWritten ==
  ASSUME RegistryInv, NEW e \in Editors, Busy(e), Release(e), Grown,
         UNCHANGED <<groups, nodes, users, labels, snaps>>, done \subseteq done',
         RuleTable(rules', issued'.rules),
         Serial => Sound(rules', groups, done') /\ PortsSettled'
  PROVE  RegistryInv'
<1>1. TypedWrite
  BY DEF TypedWrite
<1>2. ASSUME Serial PROVE Ready'
  <2>1. Tables
    BY <1>2, ReadyToWrite
  <2>2. SnapsSound'
    BY <2>1, SoundGrows DEF Tables, SnapsSound
  <2>3. UsersPlaced'
    BY <2>1 DEF Tables, UsersPlaced, UserGroupOK
  <2> QED BY <1>2, <2>2, <2>3 DEF Ready
<1> QED BY <1>1, <1>2, WrittenStep

\* A stored rule is one, under an identifier that was handed out.
LEMMA RuleTyped ==
  ASSUME Types, NEW id \in DOMAIN rules
  PROVE  rules[id] \in ForwardRule /\ id \in 1..issued.rules /\ issued.rules \in Nat /\ id # 0
<1>1. RuleTable(rules, issued.rules) /\ issued.rules \in Nat
  BY DEF Types, TypeOK, Counters
<1> QED BY <1>1 DEF RuleTable

\* The write of a new rule.
LEMMA SaveNewRuleStep ==
  ASSUME RegistryInv, NEW e \in Editors, SaveNewRule(e)
  PROVE  RegistryInv'
<1>1. Holds(e, "new rule") /\ Busy(e) /\ Typed(editor[e], issued) /\ ~Holds(e, "rule")
  BY Holding DEF SaveNewRule, Holds
<1>2. PICK r : r = editor[e].row
  OBVIOUS
<1>3. PICK s : s = Inserted(r)
  OBVIOUS
<1>4. PICK id : id = issued.rules + 1
  OBVIOUS
<1>5. /\ rules' = Put(rules, id, s) /\ issued' = [issued EXCEPT !.rules = @ + 1] /\ Release(e)
      /\ done' = IF ~r.sub /\ r.parent # 0 THEN done \cup {"parent"} ELSE done
      /\ UNCHANGED <<groups, nodes, users, labels, snaps>>
  BY <1>2, <1>3, <1>4 DEF SaveNewRule, NewId
<1>6. issued \in [Counters -> Nat] /\ RuleTable(rules, issued.rules) /\ issued.rules \in Nat
  BY DEF RegistryInv, Types, TypeOK, Counters
<1>7. Grown /\ issued'.rules = issued.rules + 1
  BY <1>5, <1>6 DEF Grown, Counters
<1>8. r \in ForwardRule
  BY <1>1, <1>2 DEF Typed, Holds
<1>9. s \in ForwardRule /\ SameRule(s, r) /\ s.mult = IF r.mult = 0 THEN 1 ELSE r.mult
  BY <1>3, <1>8, RowsAsStored
<1>10. RuleTable(rules', issued'.rules)
  <2>1. id \in 1..(issued.rules + 1) /\ issued.rules <= issued.rules + 1 /\ issued.rules + 1 \in Nat
    BY <1>4, <1>6
  <2> QED BY <1>5, <1>6, <1>7, <1>9, <2>1, PutTyped
<1>11. ASSUME Serial PROVE Sound(rules', groups, done') /\ PortsSettled'
  <2>1. Ready /\ RowSound(r, groups) /\ RowFits(r, 0, rules)
    BY <1>1, <1>2, <1>11, ReadyToWrite DEF Standing, Holds
  <2>2. id \notin DOMAIN rules /\ 0 \notin DOMAIN rules
    BY <1>4, <1>6 DEF RuleTable
  <2>3. s.mult <= MaxMultiplier
    <3>1. r.mult \in Nat
      BY <1>8 DEF ForwardRule
    <3>2. r.mult <= MaxMultiplier
      BY <2>1 DEF RowSound
    <3> QED BY <1>9, <3>1, <3>2, DefaultAllowed
  <2>4. RowSound(s, groups) /\ RowPlaced(s, 0, rules) /\ RowApart(s, 0, rules)
    BY <1>9, <2>1, <2>3, SameRuleKeeps DEF RowFits
  <2>5. RowPlaced(s, id, rules) /\ RowApart(s, id, rules)
    BY <2>2, <2>4 DEF RowPlaced, RowApart
  <2>6. Sound(rules, groups, done')
    BY <1>5, <2>1, SoundGrows DEF Ready
  <2>7. MainsKept(done') => (~s.sub => s.parent = 0)
    BY <1>5, <1>9 DEF MainsKept, SameRule, Alike
  <2>8. Sound(rules', groups, done')
    BY <1>5, <2>2, <2>4, <2>5, <2>6, <2>7, RulePut
  <2>9. PortsSettled'
    BY <1>5, <2>1, <2>5, PortsPut DEF Ready, PortsSettled, PortsApart
  <2> QED BY <2>8, <2>9
<1> QED BY <1>1, <1>5, <1>7, <1>10, <1>11, RulesWritten

\* The write of an edited rule, which inserts it if it has gone meanwhile.
LEMMA SaveRuleStep ==
  ASSUME RegistryInv, NEW e \in Editors, SaveRule(e)
  PROVE  RegistryInv'
<1>1. Holds(e, "rule") /\ Busy(e) /\ Typed(editor[e], issued)
  BY Holding DEF SaveRule, Holds
<1>2. PICK r : r = editor[e].row
  OBVIOUS
<1>3. PICK id : id = editor[e].id
  OBVIOUS
<1>4. PICK s : s = Saved(id, [r EXCEPT !.status = "unsynced"])
  OBVIOUS
<1>5. /\ rules' = Put(rules, id, s) /\ Release(e)
      /\ done' = IF r.sub /\ id \in DOMAIN rules /\ ~rules[id].sub THEN done \cup {"main"} ELSE done
      /\ UNCHANGED <<groups, nodes, users, labels, snaps, issued>>
  BY <1>2, <1>3, <1>4 DEF SaveRule
<1>6. RuleTable(rules, issued.rules) /\ issued.rules \in Nat
  BY DEF RegistryInv, Types, TypeOK, Counters
<1>7. r \in ForwardRule /\ id \in 1..issued.rules
  BY <1>1, <1>2, <1>3 DEF Typed, Holds
<1>8. s \in ForwardRule /\ SameRule(s, r) /\ (r.mult <= MaxMultiplier => s.mult <= MaxMultiplier)
  BY <1>4, <1>7, RestoredRow
<1>9. RuleTable(rules', issued'.rules)
  <2>1. issued.rules <= issued.rules
    BY <1>6
  <2> QED BY <1>5, <1>6, <1>7, <1>8, <2>1, PutTyped
<1>10. ASSUME Serial PROVE Sound(rules', groups, done') /\ PortsSettled'
  <2>1. /\ Tables /\ id \in DOMAIN rules /\ RowSound(r, groups) /\ RowFits(r, id, rules)
        /\ MainsKept(done) /\ ~r.sub => r.parent = 0
    BY <1>1, <1>2, <1>3, <1>10, ReadyToWrite DEF Standing, Holds
  <2>2. RowSound(s, groups) /\ RowPlaced(s, id, rules) /\ RowApart(s, id, rules)
    <3>1. s.mult <= MaxMultiplier
      BY <1>8, <2>1 DEF RowSound
    <3> QED BY <1>8, <2>1, <3>1, SameRuleKeeps DEF RowFits
  <2>3. Sound(rules, groups, done')
    BY <1>5, <2>1, SoundGrows DEF Tables
  <2>4. MainsKept(done') => (~s.sub => s.parent = 0) /\ (s.sub => rules[id].sub)
    <3>1. s.sub = r.sub /\ s.parent = r.parent
      BY <1>8 DEF SameRule, Alike
    <3>2. MainsKept(done') => MainsKept(done) /\ (r.sub => rules[id].sub)
      BY <1>5, <2>1 DEF MainsKept
    <3> QED BY <2>1, <3>1, <3>2
  <2>5. Sound(rules', groups, done')
    BY <1>5, <2>2, <2>3, <2>4, RulePut
  <2>6. PortsSettled'
    <3>1. \A x, y \in DOMAIN rules \ {id} : ~MadeFor(x, y)
      <4>1. \A f \in Editors : Holds(f, "rule") => f = e
        BY <1>1, <1>10, ReadyToWrite DEF Holds, Busy, Idle
      <4> QED BY <1>3, <4>1 DEF MadeFor
    <3>2. ASSUME done' \cap {"enable", "import", "rollback", "given up"} = {} PROVE PortsApart(rules')
      <4>1. done \cap {"enable", "import", "rollback", "given up"} = {}
        BY <1>5, <3>2
      <4>2. \A x, y \in DOMAIN rules \ {id} :
              x # y /\ rules[x].parent # y /\ rules[y].parent # x => Apart(rules[x], rules[y])
        BY <2>1, <3>1, <4>1 DEF Tables, PortsKept
      <4> QED BY <1>5, <2>2, <4>2, PortsPut
    <3> QED BY <3>2 DEF PortsSettled
  <2> QED BY <2>5, <2>6
<1> QED BY <1>1, <1>5, <1>9, <1>10, NoneGrown, RulesWritten DEF RegistryInv

\* Rules that go take along whatever is left without a main rule.
LEMMA DroppedStep ==
  ASSUME RegistryInv, NEW e \in Editors, Busy(e), ~Holds(e, "rule"), Release(e), NEW ids,
         rules' = Without(rules, ids), done \subseteq done',
         UNCHANGED <<groups, nodes, users, labels, snaps, issued>>,
         Serial /\ Standing(editor[e]) /\ HaveMain(rules) =>
           \A r \in DOMAIN rules \ ids : rules[r].sub => rules[r].parent \notin ids
  PROVE  RegistryInv'
<1>1. RuleTable(rules, issued.rules) /\ issued.rules \in Nat
  BY DEF RegistryInv, Types, TypeOK, Counters
<1>2. RuleTable(rules', issued'.rules)
  BY <1>1, WithoutTyped
<1>3. ASSUME Serial PROVE Sound(rules', groups, done') /\ PortsSettled'
  <2>1. Ready /\ Standing(editor[e])
    BY <1>3, ReadyToWrite
  <2>2. Sound(rules, groups, done')
    BY <2>1, SoundGrows DEF Ready
  <2>3. MainsKept(done') => HaveMain(rules)
    BY <2>2 DEF Sound
  <2>4. Sound(rules', groups, done')
    BY <1>3, <2>1, <2>2, <2>3, RulesGone
  <2>5. DOMAIN rules' \subseteq DOMAIN rules /\ \A r \in DOMAIN rules' : rules'[r] = rules[r]
    BY DEF Without, Restrict
  <2>6. PortsApart(rules) => PortsApart(rules')
    BY <2>5, PortsAlike
  <2>7. PortsSettled'
    BY <2>1, <2>6 DEF Ready, PortsSettled
  <2> QED BY <2>4, <2>7
<1> QED BY <1>2, <1>3, NoneGrown, RulesWritten DEF RegistryInv

\* The write that deletes a rule, and its sub-rules if it is a main rule.
LEMMA RemoveRuleStep ==
  ASSUME RegistryInv, NEW e \in Editors, RemoveRule(e)
  PROVE  RegistryInv'
<1>1. Holds(e, "drop rule") /\ Busy(e) /\ Typed(editor[e], issued) /\ ~Holds(e, "rule")
  BY Holding DEF RemoveRule, Holds
<1>2. PICK id : id = editor[e].id
  OBVIOUS
<1>3. PICK main : main = editor[e].main
  OBVIOUS
<1>4. PICK ids : ids = {id} \cup (IF main THEN Children({id}) ELSE {})
  OBVIOUS
<1>5. /\ rules' = Without(rules, ids) /\ Release(e)
      /\ UNCHANGED <<groups, nodes, users, labels, snaps, issued, done>>
  BY <1>2, <1>3, <1>4 DEF RemoveRule
<1>6. id # 0
  <2>1. id \in 1..issued.rules
    BY <1>1, <1>2 DEF Typed, Holds
  <2> QED BY <2>1
<1>7. ASSUME Standing(editor[e]), HaveMain(rules), NEW r \in DOMAIN rules \ ids, rules[r].sub
      PROVE  rules[r].parent \notin ids
  <2>1. main \/ (id \in DOMAIN rules => rules[id].sub)
    BY <1>1, <1>2, <1>3, <1>7 DEF Standing, Holds
  <2>2. PICK p : p = rules[r].parent
    OBVIOUS
  <2>3. p \in DOMAIN rules /\ ~rules[p].sub /\ rules[p].parent = 0
    BY <1>7, <2>2 DEF HaveMain
  <2>4. p # id
    BY <1>4, <1>7, <2>1, <2>2, <2>3 DEF Children
  <2>5. p \notin Children({id})
    BY <1>6, <2>3 DEF Children
  <2> QED BY <1>4, <2>2, <2>4, <2>5
<1>8. done \subseteq done'
  BY <1>5
<1> QED BY <1>1, <1>5, <1>7, <1>8, DroppedStep

\* What a write that changes some rules has to show of each of them.
LEMMA ChangedStep ==
  ASSUME RegistryInv, NEW e \in Editors, Busy(e), ~Holds(e, "rule"), Release(e),
         UNCHANGED <<groups, nodes, users, labels, snaps, issued>>, done \subseteq done',
         rules' \in [DOMAIN rules -> ForwardRule],
         \A r \in DOMAIN rules : Alike(rules'[r], rules[r]),
         "enable" \notin done' => \A r \in DOMAIN rules : rules'[r].on => rules[r].on,
         Serial /\ Ready /\ Standing(editor[e]) =>
           \A r \in DOMAIN rules :
             /\ rules'[r].mult <= MaxMultiplier
             /\ rules'[r].chain # {} => ~groups[rules[r].in].udp /\ Cardinality(rules'[r].chain) \in 2..3
             /\ "import" \notin done =>
                  \A g \in ({rules'[r].out, rules'[r].rev} \ {0}) \cup rules'[r].chain : Out(g, groups)
             /\ done \cap Unseen = {} => \A g \in rules'[r].chain : groups[g].failover = 0
  PROVE  RegistryInv'
<1>1. RuleTable(rules, issued.rules)
  BY DEF RegistryInv, Types, TypeOK
<1>2. DOMAIN rules' = DOMAIN rules /\ RuleTable(rules', issued'.rules)
  BY <1>1 DEF RuleTable
<1>3. ASSUME Serial PROVE Sound(rules', groups, done') /\ PortsSettled'
  <2>1. Ready /\ Standing(editor[e])
    BY <1>3, ReadyToWrite
  <2>2. Sound(rules', groups, done)
    BY <1>2, <1>3, <2>1, RulesAlike DEF Ready
  <2>3. Sound(rules', groups, done')
    BY <2>2, SoundGrows
  <2>4. PortsSettled'
    <3>1. ASSUME done' \cap {"enable", "import", "rollback", "given up"} = {} PROVE PortsApart(rules')
      <4>1. PortsApart(rules)
        BY <2>1, <3>1 DEF Ready, PortsSettled
      <4>2. "enable" \notin done'
        BY <3>1
      <4> QED BY <1>2, <4>1, <4>2, PortsAlike DEF Alike
    <3> QED BY <3>1 DEF PortsSettled
  <2> QED BY <2>3, <2>4
<1> QED BY <1>2, <1>3, NoneGrown, RulesWritten DEF RegistryInv

\* What the promises say of one rule.
LEMMA RuleKept ==
  ASSUME Ready, NEW r \in DOMAIN rules
  PROVE  /\ rules[r].mult <= MaxMultiplier
         /\ rules[r].chain # {} => ~groups[rules[r].in].udp /\ Cardinality(rules[r].chain) \in 2..3
         /\ "import" \notin done =>
              \A g \in ({rules[r].out, rules[r].rev} \ {0}) \cup rules[r].chain : Out(g, groups)
         /\ done \cap Unseen = {} => \A g \in rules[r].chain : groups[g].failover = 0
  BY DEF Ready, Sound, Bounded, ChainsWithoutUDP, ChainsShort, ChainsDirect, RefersOutbound

\* The write that enables or disables a rule, looking at no port.
LEMMA WriteEnableStep ==
  ASSUME RegistryInv, NEW e \in Editors, WriteEnable(e)
  PROVE  RegistryInv'
<1>1. Holds(e, "enable") /\ Busy(e) /\ Typed(editor[e], issued) /\ ~Holds(e, "rule")
  BY Holding DEF WriteEnable, Holds
<1>2. PICK on : on = editor[e].on
  OBVIOUS
<1>3. PICK ids : ids = editor[e].ids
  OBVIOUS
<1>4. /\ rules' = [r \in DOMAIN rules |->
            IF r \in ids THEN [rules[r] EXCEPT !.on = on, !.status = "unsynced"] ELSE rules[r]]
      /\ done' = IF on THEN done \cup {"enable"} ELSE done
      /\ Release(e) /\ UNCHANGED <<groups, nodes, users, labels, snaps, issued>>
  BY <1>2, <1>3 DEF WriteEnable
<1>5. on \in BOOLEAN
  BY <1>1, <1>2 DEF Typed, Holds
<1>6. \A r \in ForwardRule : LET s == [r EXCEPT !.on = on, !.status = "unsynced"] IN
        /\ s \in ForwardRule /\ Alike(s, r) /\ s.on = on
        /\ s.mult = r.mult /\ s.chain = r.chain /\ s.out = r.out /\ s.rev = r.rev
  BY <1>5 DEF ForwardRule, SyncStates, Alike
<1>7. \A r \in DOMAIN rules : rules[r] \in ForwardRule
  BY RuleTyped DEF RegistryInv
<1>8. \A r \in DOMAIN rules :
        /\ rules'[r] \in ForwardRule /\ Alike(rules'[r], rules[r]) /\ (rules'[r].on => on \/ rules[r].on)
        /\ rules'[r].mult = rules[r].mult /\ rules'[r].chain = rules[r].chain
        /\ rules'[r].out = rules[r].out /\ rules'[r].rev = rules[r].rev
  <2>1. TAKE r \in DOMAIN rules
  <2>2. CASE r \in ids
    <3>1. rules'[r] = [rules[r] EXCEPT !.on = on, !.status = "unsynced"]
      BY <1>4, <2>2
    <3> QED BY ZenonT(30), <1>6, <1>7, <3>1
  <2>3. CASE r \notin ids
    <3>1. rules'[r] = rules[r]
      BY <1>4, <2>3
    <3> QED BY <1>7, <3>1 DEF Alike
  <2> QED BY <2>2, <2>3
<1>9. rules' \in [DOMAIN rules -> ForwardRule]
  BY <1>4, <1>8
<1>10. /\ done \subseteq done'
       /\ "enable" \notin done' => \A r \in DOMAIN rules : rules'[r].on => rules[r].on
  BY <1>4, <1>8
<1>11. ASSUME Ready, NEW r \in DOMAIN rules
       PROVE  /\ rules'[r].mult <= MaxMultiplier
              /\ rules'[r].chain # {} => ~groups[rules[r].in].udp /\ Cardinality(rules'[r].chain) \in 2..3
              /\ "import" \notin done =>
                   \A g \in ({rules'[r].out, rules'[r].rev} \ {0}) \cup rules'[r].chain : Out(g, groups)
              /\ done \cap Unseen = {} => \A g \in rules'[r].chain : groups[g].failover = 0
  BY <1>8, <1>11, RuleKept
<1> QED BY <1>1, <1>4, <1>8, <1>9, <1>10, <1>11, ChangedStep

\* The write of multipliers that were computed before.
LEMMA WriteScaledStep ==
  ASSUME RegistryInv, NEW e \in Editors, WriteScaled(e)
  PROVE  RegistryInv'
<1>1. Holds(e, "scaled") /\ Busy(e) /\ Typed(editor[e], issued) /\ ~Holds(e, "rule")
  BY Holding DEF WriteScaled, Holds
<1>2. PICK mult : mult = editor[e].mult
  OBVIOUS
<1>3. /\ rules' = [r \in DOMAIN rules |->
            IF r \notin DOMAIN mult THEN rules[r]
            ELSE [rules[r] EXCEPT !.mult = mult[r], !.status = "unsynced"]]
      /\ Release(e) /\ UNCHANGED <<groups, nodes, users, labels, snaps, issued, done>>
  BY <1>2 DEF WriteScaled
<1>4. \A r \in DOMAIN mult : mult[r] \in Nat
  BY <1>1, <1>2 DEF Typed, Holds
<1>5. \A r \in DOMAIN rules : rules[r] \in ForwardRule
  BY RuleTyped DEF RegistryInv
<1>6. ASSUME NEW r \in DOMAIN rules
      PROVE  /\ rules'[r] \in ForwardRule /\ Alike(rules'[r], rules[r]) /\ rules'[r].on = rules[r].on
             /\ rules'[r].mult = (IF r \in DOMAIN mult THEN mult[r] ELSE rules[r].mult)
             /\ rules'[r].chain = rules[r].chain
             /\ rules'[r].out = rules[r].out /\ rules'[r].rev = rules[r].rev
  <2>1. CASE r \in DOMAIN mult
    <3>1. PICK m \in Nat : m = mult[r]
      BY <1>4, <2>1
    <3>2. rules'[r] = [rules[r] EXCEPT !.mult = m, !.status = "unsynced"]
      BY <1>3, <2>1, <3>1
    <3>3. PICK old \in ForwardRule : old = rules[r]
      BY <1>5
    <3>4. PICK new : new = rules'[r]
      OBVIOUS
    <3>5. new = [old EXCEPT !.mult = m, !.status = "unsynced"]
      BY <3>2, <3>3, <3>4
    <3>6. /\ new \in ForwardRule /\ Alike(new, old) /\ new.on = old.on /\ new.mult = m
          /\ new.chain = old.chain /\ new.out = old.out /\ new.rev = old.rev
      BY <3>3, <3>5 DEF ForwardRule, SyncStates, Alike
    <3> QED BY <2>1, <3>1, <3>3, <3>4, <3>6
  <2>2. CASE r \notin DOMAIN mult
    BY <1>3, <1>5, <2>2 DEF Alike
  <2> QED BY <2>1, <2>2
<1>7. rules' \in [DOMAIN rules -> ForwardRule] /\ done \subseteq done'
  BY <1>3, <1>6
<1>8. ASSUME Ready, Standing(editor[e]), NEW r \in DOMAIN rules
      PROVE  /\ rules'[r].mult <= MaxMultiplier
             /\ rules'[r].chain # {} => ~groups[rules[r].in].udp /\ Cardinality(rules'[r].chain) \in 2..3
             /\ "import" \notin done =>
                  \A g \in ({rules'[r].out, rules'[r].rev} \ {0}) \cup rules'[r].chain : Out(g, groups)
             /\ done \cap Unseen = {} => \A g \in rules'[r].chain : groups[g].failover = 0
  <2>1. \A x \in DOMAIN mult : mult[x] <= MaxMultiplier
    BY <1>1, <1>2, <1>8 DEF Standing, Holds
  <2> QED BY <1>6, <1>8, <2>1, RuleKept
<1> QED BY <1>1, <1>3, <1>6, <1>7, <1>8, ChangedStep

\* What a batch changes of a row.
LEMMA ChangedRow ==
  ASSUME NEW r \in ForwardRule, NEW b \in BatchBody, b.act # "delete"
  PROVE  /\ Changed(b, r) \in ForwardRule /\ Alike(Changed(b, r), r) /\ Changed(b, r).rev = r.rev
         /\ b.act # "enable" => (Changed(b, r).on => r.on)
         /\ Changed(b, r).out = IF b.act = "out" THEN b.out ELSE r.out
         /\ Changed(b, r).chain = IF b.act = "chain" THEN b.chain ELSE r.chain
         /\ Changed(b, r).mult = CASE b.act = "mult" -> b.mult [] b.act = "scale" -> r.mult * b.mult
                                   [] OTHER -> r.mult
<1>1. /\ b.act \in BatchActions /\ b.out \in Nat /\ b.rgroup \in Nat /\ b.chain \in Hops
      /\ b.mult \in Nat
  BY DEF BatchBody
<1>2. PICK m : m = r.mult * b.mult
  OBVIOUS
<1>3. m \in Nat
  BY SMTT(30), <1>1, <1>2 DEF ForwardRule
<1>4. PICK s : s = Changed(b, r)
  OBVIOUS
<1>5. CASE b.act \in {"enable", "disable"}
  <2>1. PICK on \in BOOLEAN : on = (b.act = "enable")
    OBVIOUS
  <2>2. s = [r EXCEPT !.on = on, !.status = "unsynced"]
    BY <1>4, <1>5, <2>1 DEF Changed
  <2>3. /\ s \in ForwardRule /\ Alike(s, r) /\ s.rev = r.rev /\ s.on = on
        /\ s.out = r.out /\ s.chain = r.chain /\ s.mult = r.mult
    BY <2>2 DEF ForwardRule, SyncStates, Alike
  <2> QED BY <1>4, <1>5, <2>1, <2>3
<1>6. CASE b.act = "limits"
  <2>1. s = [r EXCEPT !.status = "unsynced"]
    BY <1>4, <1>6 DEF Changed
  <2>2. /\ s \in ForwardRule /\ Alike(s, r) /\ s.rev = r.rev /\ s.on = r.on
        /\ s.out = r.out /\ s.chain = r.chain /\ s.mult = r.mult
    BY <1>1, <2>1 DEF ForwardRule, SyncStates, Alike
  <2> QED BY <1>4, <1>6, <2>2
<1>7. CASE b.act = "out"
  <2>1. s = [r EXCEPT !.out = b.out, !.status = "unsynced"]
    BY <1>4, <1>7 DEF Changed
  <2>2. /\ s \in ForwardRule /\ Alike(s, r) /\ s.rev = r.rev /\ s.on = r.on
        /\ s.out = b.out /\ s.chain = r.chain /\ s.mult = r.mult
    BY <1>1, <2>1 DEF ForwardRule, SyncStates, Alike
  <2> QED BY <1>4, <1>7, <2>2
<1>8. CASE b.act = "rgroup"
  <2>1. s = [r EXCEPT !.rgroup = b.rgroup]
    BY <1>4, <1>8 DEF Changed
  <2>2. /\ s \in ForwardRule /\ Alike(s, r) /\ s.rev = r.rev /\ s.on = r.on
        /\ s.out = r.out /\ s.chain = r.chain /\ s.mult = r.mult
    BY <1>1, <2>1 DEF ForwardRule, Alike
  <2> QED BY <1>4, <1>8, <2>2
<1>9. CASE b.act = "chain"
  <2>1. s = [r EXCEPT !.chain = b.chain, !.status = "unsynced"]
    BY <1>4, <1>9 DEF Changed
  <2>2. /\ s \in ForwardRule /\ Alike(s, r) /\ s.rev = r.rev /\ s.on = r.on
        /\ s.out = r.out /\ s.chain = b.chain /\ s.mult = r.mult
    BY <1>1, <2>1 DEF ForwardRule, SyncStates, Alike
  <2> QED BY <1>4, <1>9, <2>2
<1>10. CASE b.act = "mult"
  <2>1. s = [r EXCEPT !.mult = b.mult, !.status = "unsynced"]
    BY <1>4, <1>10 DEF Changed
  <2>2. /\ s \in ForwardRule /\ Alike(s, r) /\ s.rev = r.rev /\ s.on = r.on
        /\ s.out = r.out /\ s.chain = r.chain /\ s.mult = b.mult
    BY <1>1, <2>1 DEF ForwardRule, SyncStates, Alike
  <2> QED BY <1>4, <1>10, <2>2
<1>11. CASE b.act = "scale"
  <2>1. s = [r EXCEPT !.mult = m, !.status = "unsynced"]
    BY <1>2, <1>4, <1>11 DEF Changed
  <2>2. /\ s \in ForwardRule /\ Alike(s, r) /\ s.rev = r.rev /\ s.on = r.on
        /\ s.out = r.out /\ s.chain = r.chain /\ s.mult = m
    BY <1>3, <2>1 DEF ForwardRule, SyncStates, Alike
  <2> QED BY <1>2, <1>4, <1>11, <2>2
<1> QED BY <1>1, <1>5, <1>6, <1>7, <1>8, <1>9, <1>10, <1>11 DEF BatchActions

\* The transaction of a batch.
LEMMA RunBatchStep ==
  ASSUME RegistryInv, NEW e \in Editors, RunBatch(e)
  PROVE  RegistryInv'
<1>1. Holds(e, "batch") /\ Busy(e) /\ Typed(editor[e], issued) /\ ~Holds(e, "rule")
  BY Holding DEF RunBatch, Holds
<1>2. PICK b : b = editor[e].b
  OBVIOUS
<1>3. PICK ids : ids = b.ids \cap DOMAIN rules
  OBVIOUS
<1>4. /\ b.act = "chain" => \A r \in ids : ValidateChainRule([rules[r] EXCEPT !.chain = b.chain])
      /\ rules' = IF b.act = "delete"
                  THEN Without(rules, ids \cup Children({r \in ids : ~rules[r].sub}))
                  ELSE [r \in DOMAIN rules |-> IF r \in ids THEN Changed(b, rules[r]) ELSE rules[r]]
      /\ done' = done \cup ({b.act} \cap {"enable", "out"})
      /\ Release(e) /\ UNCHANGED <<groups, nodes, users, labels, snaps, issued>>
  BY <1>2, <1>3 DEF RunBatch
<1>5. b \in BatchBody /\ b.act \in BatchActions
  BY <1>1, <1>2 DEF Typed, Holds, BatchBody
<1>6. \A r \in DOMAIN rules : rules[r] \in ForwardRule /\ r # 0
  BY RuleTyped DEF RegistryInv
<1>7. done \subseteq done'
  BY <1>4
<1>8. CASE b.act = "delete"
  <2>1. PICK gone : gone = ids \cup Children({r \in ids : ~rules[r].sub})
    OBVIOUS
  <2>2. rules' = Without(rules, gone)
    BY <1>4, <1>8, <2>1
  <2>3. ASSUME HaveMain(rules), NEW r \in DOMAIN rules \ gone, rules[r].sub
        PROVE  rules[r].parent \notin gone
    <3>1. PICK p : p = rules[r].parent
      OBVIOUS
    <3>2. p \in DOMAIN rules /\ ~rules[p].sub /\ rules[p].parent = 0
      BY <2>3, <3>1 DEF HaveMain
    <3>3. p \notin ids
      BY <2>1, <2>3, <3>1, <3>2 DEF Children
    <3>4. p \notin Children({x \in ids : ~rules[x].sub})
      BY <1>3, <1>6, <3>2 DEF Children
    <3> QED BY <2>1, <3>1, <3>3, <3>4
  <2> QED BY <1>1, <1>4, <1>7, <2>2, <2>3, DroppedStep
<1>9. CASE b.act # "delete"
  <2>1. rules' = [r \in DOMAIN rules |-> IF r \in ids THEN Changed(b, rules[r]) ELSE rules[r]]
    BY <1>4, <1>9
  <2>2. ASSUME NEW r \in DOMAIN rules
        PROVE  /\ rules'[r] \in ForwardRule /\ Alike(rules'[r], rules[r])
               /\ b.act # "enable" => (rules'[r].on => rules[r].on)
    <3>1. CASE r \in ids
      <4>1. rules'[r] = Changed(b, rules[r])
        BY <2>1, <3>1
      <4> QED BY <1>5, <1>6, <1>9, <4>1, ChangedRow
    <3>2. CASE r \notin ids
      BY <1>6, <2>1, <3>2 DEF Alike
    <3> QED BY <3>1, <3>2
  <2>3. rules' \in [DOMAIN rules -> ForwardRule]
    BY <2>1, <2>2
  <2>4. "enable" \notin done' => \A r \in DOMAIN rules : rules'[r].on => rules[r].on
    <3>1. "enable" \notin done' => b.act # "enable"
      BY <1>4
    <3> QED BY <2>2, <3>1
  <2>5. ASSUME Ready, Standing(editor[e]), NEW r \in DOMAIN rules
        PROVE  /\ rules'[r].mult <= MaxMultiplier
               /\ rules'[r].chain # {} => ~groups[rules[r].in].udp /\ Cardinality(rules'[r].chain) \in 2..3
               /\ "import" \notin done =>
                    \A g \in ({rules'[r].out, rules'[r].rev} \ {0}) \cup rules'[r].chain : Out(g, groups)
               /\ done \cap Unseen = {} => \A g \in rules'[r].chain : groups[g].failover = 0
    <3>1. /\ rules[r].mult <= MaxMultiplier
          /\ rules[r].chain # {} => ~groups[rules[r].in].udp /\ Cardinality(rules[r].chain) \in 2..3
          /\ "import" \notin done =>
               \A g \in ({rules[r].out, rules[r].rev} \ {0}) \cup rules[r].chain : Out(g, groups)
          /\ done \cap Unseen = {} => \A g \in rules[r].chain : groups[g].failover = 0
      BY <2>5, RuleKept
    <3>2. CASE r \notin ids
      BY <2>1, <3>1, <3>2
    <3>3. CASE r \in ids
      <4>1. PICK s : s = rules'[r]
        OBVIOUS
      <4>2. s = Changed(b, rules[r])
        BY <2>1, <3>3, <4>1
      <4>3. /\ s.rev = rules[r].rev
            /\ s.out = IF b.act = "out" THEN b.out ELSE rules[r].out
            /\ s.chain = IF b.act = "chain" THEN b.chain ELSE rules[r].chain
            /\ s.mult = CASE b.act = "mult" -> b.mult [] b.act = "scale" -> rules[r].mult * b.mult
                          [] OTHER -> rules[r].mult
        BY <1>5, <1>6, <1>9, <4>2, ChangedRow
      <4>4. validateBatchParams(b)
        BY <1>1, <1>2, <2>5 DEF Standing, Holds
      <4>5. s.mult <= MaxMultiplier
        <5>1. b.act = "mult" => b.mult <= MaxMultiplier
          BY <4>4, RuleBounds DEF validateBatchParams
        <5>2. b.act = "scale" => rules[r].mult * b.mult <= MaxMultiplier
          BY <1>3, <3>3, <4>4 DEF validateBatchParams
        <5> QED BY <3>1, <4>3, <5>1, <5>2
      <4>6. b.act = "out" /\ b.out # 0 => Out(b.out, groups)
        BY <4>4 DEF validateBatchParams, Outbound, Out
      <4>7. b.act = "chain" /\ b.chain # {} =>
              /\ ~groups[rules[r].in].udp /\ Cardinality(b.chain) \in 2..3
              /\ \A g \in b.chain : Out(g, groups) /\ groups[g].failover = 0
        <5>1. PICK t : t = [rules[r] EXCEPT !.chain = b.chain]
          OBVIOUS
        <5>2. t.chain = b.chain /\ t.in = rules[r].in
          BY <1>6, <5>1 DEF ForwardRule
        <5>3. b.act = "chain" => ValidateChainRule(t)
          BY <1>4, <3>3, <5>1
        <5>4. rules[r].in \in DOMAIN groups /\ IsInbound(rules[r].in)
          BY <2>5 DEF Ready, Sound, ListensInbound, IsInbound
        <5> QED BY <5>2, <5>3, <5>4 DEF ValidateChainRule, Outbound, Out
      <4>8. s.chain # {} => ~groups[rules[r].in].udp /\ Cardinality(s.chain) \in 2..3
        BY <3>1, <4>3, <4>7
      <4>9. ASSUME "import" \notin done, NEW g \in ({s.out, s.rev} \ {0}) \cup s.chain
            PROVE  Out(g, groups)
        BY <3>1, <4>3, <4>6, <4>7, <4>9
      <4>10. ASSUME done \cap Unseen = {}, NEW g \in s.chain PROVE groups[g].failover = 0
        BY <3>1, <4>3, <4>7, <4>10
      <4> QED BY <4>1, <4>5, <4>8, <4>9, <4>10
    <3> QED BY <3>2, <3>3
  <2> QED BY <1>1, <1>4, <1>7, <2>2, <2>3, <2>4, <2>5, ChangedStep
<1> QED BY <1>8, <1>9

---------------------------------------------------------------------------
\* Names that no rule has

\* A set of numbers that is not empty has a least one.
LEMMA Least ==
  ASSUME NEW S \in SUBSET Nat, S # {}
  PROVE  \E x \in S : \A y \in S : x <= y
<1>1. PICK x \in S : \A y \in S : ~(<<y, x>> \in OpToRel(<, Nat))
  BY NatLessThanWellFounded, WFMin
<1>2. \A y \in S : x \in Nat /\ y \in Nat /\ ~(y < x)
  BY <1>1 DEF OpToRel
<1>3. \A y \in S : x <= y
  BY <1>2
<1> QED BY <1>3

\* Of one more numbers than there are names, one makes a new name.
LEMMA Fresh ==
  ASSUME NEW name \in Seq(Nat), NEW names, IsFiniteSet(names)
  PROVE  Renamed(name, names) \in Seq(Nat) /\ Renamed(name, names) \notin names
<1> DEFINE C == Cardinality(names)
           K == 2..(2 + C)
           Suffixed == [k \in K |-> Append(name, k)]
           Free == {k \in K : Append(name, k) \notin names}
<1>1. C \in Nat
  BY FS_CardinalityType
<1>2. IsFiniteSet(K) /\ Cardinality(K) = C + 1
  <2>1. 2 \in Int /\ 2 + C \in Int /\ ~(2 > 2 + C) /\ (2 + C) - 2 + 1 = C + 1
    BY <1>1
  <2> DEFINE top == 2 + C
  <2> HIDE DEF C, top
  <2>2. Cardinality(2..top) = (IF 2 > top THEN 0 ELSE top - 2 + 1) /\ IsFiniteSet(2..top)
    BY <2>1, FS_Interval DEF top
  <2> QED BY <2>1, <2>2 DEF top
<1> HIDE DEF C
<1>3. Free # {}
  <2>1. SUFFICES ASSUME \A k \in K : Append(name, k) \in names PROVE FALSE
    OBVIOUS
  <2>2. Suffixed \in [K -> names]
    BY <2>1
  <2>3. \A j, k \in K : Suffixed[j] = Suffixed[k] => j = k
    <3>1. \A j, k \in K : Append(name, j)[Len(name) + 1] = j /\ Append(name, k)[Len(name) + 1] = k
      BY <1>1
    <3> QED BY <3>1
  <2>4. Cardinality(K) > Cardinality(names)
    BY <1>1, <1>2 DEF C
  <2> HIDE DEF K, Suffixed
  <2>5. \E j, k \in K : j # k /\ Suffixed[j] = Suffixed[k]
    BY <2>2, <2>4, <1>2, FS_PigeonHole
  <2> QED BY <2>3, <2>5
<1>4. Free \in SUBSET Nat
  BY <1>1
<1>5. PICK k \in Free : \A j \in Free : k <= j
  BY <1>3, <1>4, Least
<1>6. \A j \in 2..(k - 1) : Append(name, j) \in names
  <2>1. k \in K
    BY <1>5
  <2>2. TAKE j \in 2..(k - 1)
  <2>3. j \in K /\ ~(k <= j)
    BY <1>1, <2>1
  <2> QED BY <1>5, <2>3
<1>7. Suffix(name, names) \in Nat /\ Append(name, Suffix(name, names)) \notin names
  BY <1>1, <1>5, <1>6 DEF Suffix, C
<1> QED BY <1>7 DEF Renamed

\* The names in use are finitely many.
LEMMA NamesFinite ==
  ASSUME Types
  PROVE  IsFiniteSet(RuleNames)
<1>1. RuleTable(rules, issued.rules) /\ issued.rules \in Nat
  BY DEF Types, TypeOK, Counters
<1>2. IsFiniteSet(DOMAIN rules)
  <2>1. IsFiniteSet(1..issued.rules)
    BY <1>1, FS_Interval
  <2> QED BY <1>1, <2>1, FS_Subset DEF RuleTable
<1> DEFINE named == [r \in DOMAIN rules |-> rules[r].name]
<1>3. named \in Surjection(DOMAIN rules, RuleNames)
  BY DEF Surjection, RuleNames
<1> QED BY <1>2, <1>3, FS_Surjection

\* The name found for a rule that is made is not in use.
LEMMA UniqueName ==
  ASSUME Types, NEW name \in Seq(Nat)
  PROVE  uniqueRuleName(name) \in Seq(Nat) /\ uniqueRuleName(name) \notin RuleNames
  BY Fresh, NamesFinite DEF uniqueRuleName

\* The name of the main rule made for a rule is longer than that of the rule.
LEMMA MainNamed ==
  ASSUME Types, NEW name \in Seq(Nat)
  PROVE  uniqueRuleName(Append(name, 0)) # name
<1>1. PICK main : main = Append(name, 0)
  OBVIOUS
<1>2. main \in Seq(Nat) /\ Len(main) = Len(name) + 1
  BY <1>1
<1>3. CASE main \notin RuleNames
  BY <1>1, <1>2, <1>3 DEF uniqueRuleName
<1>4. CASE main \in RuleNames
  <2>1. PICK k : k = Suffix(main, RuleNames)
    OBVIOUS
  <2>2. uniqueRuleName(main) = Append(main, k)
    BY <1>4, <2>1 DEF uniqueRuleName, Renamed
  <2>3. Len(Append(main, k)) = Len(main) + 1
    <3>1. main \in Seq(Nat \cup {k})
      BY <1>2
    <3> QED BY <3>1
  <2> QED BY <1>1, <1>2, <2>2, <2>3
<1> QED BY <1>3, <1>4

---------------------------------------------------------------------------
\* The validation of a rule, and the main rule that it may make

\* Naming a main rule changes nothing else of a sub-rule.
LEMMA Parented ==
  ASSUME NEW r \in ForwardRule, NEW q \in Nat, NEW s, s = [r EXCEPT !.parent = q]
  PROVE  /\ s \in ForwardRule /\ s.parent = q
         /\ s.name = r.name /\ s.in = r.in /\ s.lo = r.lo /\ s.hi = r.hi /\ s.sub = r.sub
         /\ portRangeOf(s) = portRangeOf(r)
         /\ \A gs : RowSound(r, gs) => RowSound(s, gs)
<1>1. /\ s \in ForwardRule /\ s.parent = q
      /\ s.name = r.name /\ s.in = r.in /\ s.lo = r.lo /\ s.hi = r.hi /\ s.sub = r.sub
      /\ s.out = r.out /\ s.rev = r.rev /\ s.chain = r.chain /\ s.mult = r.mult /\ s.sni = r.sni
  BY DEF ForwardRule
<1>2. portRangeOf(s) = portRangeOf(r) /\ (FixedPort(r) <=> FixedPort(s))
  BY <1>1 DEF portRangeOf, FixedPort
<1>3. \A gs : RowSound(r, gs) => RowSound(s, gs)
  BY <1>1, <1>2 DEF RowSound, NameAllowed
<1> QED BY <1>1, <1>2, <1>3

\* A rule that passed validateRule refers to what is there.
LEMMA ValidRow ==
  ASSUME NEW r \in ForwardRule, NEW id, validateRule(r, id)
  PROVE  RowSound(r, groups)
<1>1. r.in \in DOMAIN groups /\ groups[r.in].type = "inbound" /\ r.mult <= MaxMultiplier
  BY RuleBounds DEF validateRule, IsInbound
<1>2. /\ r.chain # {} => ~groups[r.in].udp /\ Cardinality(r.chain) \in 2..3
      /\ \A g \in r.chain : Out(g, groups) /\ groups[g].failover = 0
  BY <1>1 DEF validateRule, ValidateChainRule, IsInbound, Outbound, Out
<1>3. (r.out # 0 => Out(r.out, groups)) /\ (r.rev # 0 => Out(r.rev, groups))
  BY DEF validateRule, validateReverse, Outbound, Out
<1>4. NameAllowed(r, groups)
  BY DEF validateRule, validateSNI, NameAllowed
<1> QED BY <1>1, <1>2, <1>3, <1>4 DEF RowSound

\* No enabled rule listens where the rule is about to.
LEMMA PortsFree ==
  ASSUME NEW r, NEW id, validateRule(r, id), NEW o \in DOMAIN rules \ {id},
         rules[o].in = r.in, rules[o].on, rules[o].lo > 0, r.lo > 0
  PROVE  ~rangesOverlap(portRangeOf(r), portRangeOf(rules[o]))
  BY DEF validateRule, PortConflict

\* A rule that was validated and linked to a main rule that is there fits the table.
LEMMA LinkedFits ==
  ASSUME Types, NEW r \in ForwardRule, NEW id, validateRule(r, id), Linkable(r),
         RuleNameFree(r.name, id), ~NeedsMain(r, id)
  PROVE  /\ Linked(r, id) \in ForwardRule
         /\ RowSound(Linked(r, id), groups) /\ RowFits(Linked(r, id), id, rules)
         /\ ~Linked(r, id).sub => Linked(r, id) = r
<1>1. RowSound(r, groups)
  BY ValidRow
<1>2. CASE ~r.sub \/ r.parent # 0
  <2>1. Linked(r, id) = r
    BY <1>2 DEF Linked
  <2>2. RowPlaced(r, id, rules)
    BY <1>2 DEF RowPlaced, RuleNameFree, Linkable
  <2>3. RowApart(r, id, rules)
    BY PortsFree DEF RowApart
  <2> QED BY <1>1, <2>1, <2>2, <2>3 DEF RowFits
<1>3. CASE r.sub /\ r.parent = 0
  <2>1. PICK mains : mains = MainRules(r, id)
    OBVIOUS
  <2>2. mains # {}
    BY <1>3, <2>1 DEF NeedsMain
  <2>3. \A p \in mains : p \in DOMAIN rules /\ ~rules[p].sub /\ p \in Nat /\ p # 0
    BY <2>1, RuleTyped DEF MainRules
  <2>4. Min(mains) \in mains
    BY <2>2, <2>3, Least DEF Min
  <2>5. PICK q \in mains : q = Min(mains)
    BY <2>4
  <2>6. Linked(r, id) = [r EXCEPT !.parent = q]
    BY <1>3, <2>1, <2>2, <2>5 DEF Linked, NeedsMain
  <2>7. PICK s : s = Linked(r, id)
    OBVIOUS
  <2>8. /\ s \in ForwardRule /\ s.parent = q /\ RowSound(s, groups)
        /\ s.name = r.name /\ s.in = r.in /\ s.lo = r.lo /\ s.sub = r.sub
        /\ portRangeOf(s) = portRangeOf(r)
    BY <1>1, <2>3, <2>6, <2>7, Parented
  <2>9. RowPlaced(s, id, rules)
    BY <2>3, <2>8 DEF RowPlaced, RuleNameFree
  <2>10. RowApart(s, id, rules)
    BY <2>8, PortsFree DEF RowApart
  <2> QED BY <1>3, <2>7, <2>8, <2>9, <2>10 DEF RowFits
<1> QED BY <1>2, <1>3

\* The main rule that is made for a rule.
LEMMA MainRuleFits ==
  ASSUME Types, NEW r \in ForwardRule, NEW id, validateRule(r, id), r.sub,
         NEW m, m = Inserted(MainRule(r))
  PROVE  /\ m \in ForwardRule /\ ~m.sub /\ m.parent = 0
         /\ m.name # r.name /\ \A o \in DOMAIN rules : rules[o].name # m.name
         /\ RowSound(m, groups)
         /\ \A o \in DOMAIN rules \ {id} : Apart(m, rules[o]) /\ Apart(rules[o], m)
<1>1. PICK name : name = uniqueRuleName(Append(r.name, 0))
  OBVIOUS
<1>2. name \in Seq(Nat) /\ name # r.name /\ \A o \in DOMAIN rules : rules[o].name # name
  <2>1. r.name \in Seq(Nat) /\ Append(r.name, 0) \in Seq(Nat)
    BY DEF ForwardRule
  <2>2. name \in Seq(Nat) /\ name \notin RuleNames
    BY <1>1, <2>1, UniqueName
  <2>3. name # r.name
    BY <1>1, <2>1, MainNamed
  <2> QED BY <2>2, <2>3 DEF RuleNames
<1>3. PICK u : u = MainRule(r)
  OBVIOUS
<1>4. /\ u \in ForwardRule /\ u.name = name /\ u.in = r.in /\ u.lo = r.lo /\ u.hi = 0
      /\ u.out = 0 /\ u.rev = 0 /\ u.chain = {} /\ u.mult = 1 /\ ~u.sub /\ u.parent = 0
  <2>1. u = [r EXCEPT !.name = name, !.owner = 0, !.hi = 0, !.out = 0, !.mult = 1, !.chain = {},
                      !.rev = 0, !.sub = FALSE, !.parent = 0, !.sni = "", !.on = TRUE,
                      !.status = "unsynced"]
    BY <1>1, <1>3 DEF MainRule
  <2>2. u.name = name /\ u.in = r.in /\ u.lo = r.lo /\ u.hi = 0 /\ u.out = 0 /\ u.rev = 0
    BY <2>1 DEF ForwardRule
  <2>3. u.chain = {} /\ u.mult = 1 /\ ~u.sub /\ u.parent = 0
    BY <2>1 DEF ForwardRule
  <2>4. u \in ForwardRule
    <3>1. PICK v : v = [r EXCEPT !.name = name, !.owner = 0, !.hi = 0, !.out = 0, !.mult = 1]
      OBVIOUS
    <3>2. PICK w : w = [v EXCEPT !.chain = {}, !.rev = 0, !.sub = FALSE, !.parent = 0]
      OBVIOUS
    <3>3. v \in ForwardRule
      BY <1>2, <3>1 DEF ForwardRule
    <3>4. w \in ForwardRule
      <4>1. {} \in Hops
        BY FS_EmptySet DEF Hops
      <4> QED BY <3>2, <3>3, <4>1 DEF ForwardRule
    <3>5. u = [w EXCEPT !.sni = "", !.on = TRUE, !.status = "unsynced"]
      BY <2>1, <3>1, <3>2
    <3> QED BY <3>4, <3>5 DEF ForwardRule, SyncStates, ServerNames
  <2> QED BY <2>2, <2>3, <2>4
<1>5. m \in ForwardRule /\ SameRule(m, u) /\ m.mult = 1
  BY <1>3, <1>4, RowsAsStored
<1>6. /\ m.name = name /\ m.in = r.in /\ m.lo = r.lo /\ m.hi = 0 /\ m.out = 0 /\ m.rev = 0
      /\ m.chain = {} /\ ~m.sub /\ m.parent = 0
  BY <1>4, <1>5 DEF SameRule, Alike
<1>7. RowSound(m, groups)
  <2>1. RowSound(r, groups)
    BY ValidRow
  <2>2. m.mult <= MaxMultiplier
    BY <1>5, RuleBounds
  <2>3. ({m.out, m.rev} \ {0}) \cup m.chain = {}
    BY <1>6
  <2> QED BY <1>6, <2>1, <2>2, <2>3 DEF RowSound, NameAllowed
<1>8. portRangeOf(m) = portRangeOf(r)
  <2>1. FixedPort(r)
    BY DEF validateRule, validateSNI
  <2> QED BY <1>6, <2>1 DEF portRangeOf, FixedPort, ForwardRule
<1>9. ASSUME NEW o \in DOMAIN rules \ {id} PROVE Apart(m, rules[o]) /\ Apart(rules[o], m)
  BY <1>6, <1>8, <1>9, PortsFree DEF Apart, rangesOverlap
<1> QED BY <1>2, <1>5, <1>6, <1>7, <1>9

\* The rule that an edit is about: a new one, or one that is stored.
Edits(op, id, r) ==
  \/ op = "new rule" /\ id = 0
  \/ /\ op = "rule" /\ id \in DOMAIN rules
     /\ Serial /\ MainsKept(done) /\ ~r.sub => r.parent = 0

\* The end of a validation keeps the invariant: the rule is held and, if it needs
\* one, its main rule is made.
LEMMA ValidatedStep ==
  ASSUME RegistryInv, NEW e \in Editors, NEW op, NEW id,
         NEW r \in ForwardRule, Validated(e, op, id, r), RuleNameFree(r.name, id),
         Edits(op, id, r)
  PROVE  RegistryInv'
<1>1. PICK row : row = Linked(r, id)
  OBVIOUS
<1>2. PICK w : w = [op |-> op, id |-> id, row |-> row]
  OBVIOUS
<1>3. validateRule(r, id) /\ Linkable(r) /\ Hold(e, w) /\ UNCHANGED <<groups, nodes, users, labels, snaps>>
  BY <1>1, <1>2 DEF Validated
<1>4. op = "rule" => id \in 1..issued.rules
  BY RuleTyped DEF RegistryInv, Edits
<1>5. CASE ~NeedsMain(r, id)
  <2>1. UNCHANGED tables
    BY <1>3, <1>5 DEF Validated, tables
  <2>2. /\ row \in ForwardRule /\ RowSound(row, groups) /\ RowFits(row, id, rules)
        /\ ~row.sub => row = r
    BY <1>1, <1>3, <1>5, LinkedFits DEF RegistryInv
  <2>3. Typed(w, issued)
    BY <1>2, <1>4, <2>2 DEF Typed, Edits
  <2>4. Serial => Standing(w)
    BY <1>2, <2>2 DEF Standing, Edits
  <2> QED BY <1>3, <2>1, <2>3, <2>4, HeldStep
<1>6. CASE NeedsMain(r, id)
  <2>1. PICK n : n = issued.rules + 1
    OBVIOUS
  <2>2. PICK m : m = Inserted(MainRule(r))
    OBVIOUS
  <2>3. /\ rules' = Put(rules, n, m) /\ issued' = [issued EXCEPT !.rules = @ + 1]
        /\ UNCHANGED <<groups, nodes, users, labels, snaps>>
    BY <1>3, <1>6, <2>1, <2>2 DEF Validated, NewId
  <2>4. /\ issued \in [Counters -> Nat] /\ RuleTable(rules, issued.rules) /\ issued.rules \in Nat
        /\ n \in Nat /\ n # 0 /\ n \notin DOMAIN rules
    BY <2>1 DEF RegistryInv, Types, TypeOK, Counters, RuleTable
  <2>5. r.sub /\ r.parent = 0
    BY <1>6 DEF NeedsMain
  <2>6. /\ m \in ForwardRule /\ ~m.sub /\ m.parent = 0
        /\ m.name # r.name /\ \A o \in DOMAIN rules : rules[o].name # m.name
        /\ RowSound(m, groups)
        /\ \A o \in DOMAIN rules \ {id} : Apart(m, rules[o]) /\ Apart(rules[o], m)
    BY <1>3, <2>2, <2>5, MainRuleFits DEF RegistryInv
  <2>7. row = [r EXCEPT !.parent = n]
    BY <1>1, <1>6, <2>1, <2>5 DEF Linked, NewId
  <2>8. /\ row \in ForwardRule /\ row.parent = n
        /\ row.name = r.name /\ row.in = r.in /\ row.lo = r.lo /\ row.sub
        /\ portRangeOf(row) = portRangeOf(r) /\ RowSound(row, groups)
    BY <1>3, <2>4, <2>5, <2>7, Parented, ValidRow
  <2>9. DOMAIN rules' = DOMAIN rules \cup {n} /\ rules'[n] = m /\ \A o \in DOMAIN rules : rules'[o] = rules[o]
    BY <2>3, <2>4 DEF Put
  <2>10. /\ ops' = ops + 1 /\ raced' = (raced \/ \E f \in Editors : Busy(f))
         /\ ops < IF raced' THEN MaxTogether ELSE MaxOps
         /\ UNCHANGED done /\ ~Busy(e) /\ editor' = [editor EXCEPT ![e] = w]
    BY <1>3 DEF Hold, Served
  <2>11. Grown /\ issued'.rules = issued.rules + 1
    BY <2>3, <2>4 DEF Grown, Counters
  <2>12. Types'
    <3>1. ops' \in 0..MaxOps
      BY <2>10, RequestBodies, RuleBounds DEF RegistryInv, Types, TypeOK
    <3>2. RuleTable(rules', issued'.rules)
      <4>1. n \in 1..(issued.rules + 1) /\ issued.rules <= issued.rules + 1 /\ issued.rules + 1 \in Nat
        BY <2>1, <2>4
      <4> QED BY <2>3, <2>4, <2>6, <2>11, <4>1, PutTyped
    <3>3. TypeOK'
      BY <2>3, <2>11, <3>1, <3>2, TypesWritten DEF TypedWrite, RegistryInv
    <3>4. Typed(w, issued')
      <4>1. issued'.rules \in Nat /\ issued.rules <= issued'.rules
        BY <2>4, <2>11
      <4>2. op = "rule" => id \in 1..issued'.rules
        BY <1>4, <2>4, <4>1
      <4> QED BY <1>2, <2>8, <4>2 DEF Typed, Edits
    <3>5. ASSUME NEW f \in Editors PROVE Typed(editor'[f], issued')
      <4>1. Typed(editor[f], issued')
        <5>1. Typed(editor[f], issued)
          BY DEF RegistryInv, Types
        <5> QED BY <2>4, <2>11, <5>1, SnapshotsGrow DEF Grown
      <4> QED BY <2>10, <3>4, <4>1 DEF RegistryInv, Types
    <3> QED BY <2>10, <3>3, <3>5 DEF RegistryInv, Types
  <2>13. ASSUME Serial' PROVE Alone' /\ Tables' /\ \A f \in Editors : Standing(editor[f])'
    <3>1. Serial /\ \A f \in Editors : ~Busy(f)
      BY <2>10, <2>13 DEF Serial
    <3>2. \A f \in Editors : editor'[f] = IF f = e THEN w ELSE Idle
      BY <2>10, <3>1 DEF RegistryInv, Types, Busy
    <3>3. Tables
      BY <3>1 DEF RegistryInv
    <3>4. Sound(rules', groups', done')
      <4>1. RowPlaced(m, n, rules)
        BY <2>6 DEF RowPlaced
      <4> QED BY <2>3, <2>4, <2>6, <2>10, <3>3, <4>1, RulePut DEF Tables
    <3>5. PortsKept'
      <4>1. \A x, y : ~MadeFor(x, y)
        BY <3>1 DEF MadeFor, Holds, Busy, Idle
      <4>2. op = "rule" => MadeFor(id, n)'
        BY <1>2, <2>8, <3>2 DEF MadeFor, Holds
      <4>3. id \in DOMAIN rules => MadeFor(id, n)'
        <5>1. 0 \notin DOMAIN rules
          BY <2>4 DEF RuleTable
        <5> QED BY <4>2, <5>1 DEF Edits
      <4>4. SUFFICES ASSUME done' \cap {"enable", "import", "rollback", "given up"} = {},
                            NEW x \in DOMAIN rules', NEW y \in DOMAIN rules', x # y,
                            rules'[x].parent # y, rules'[y].parent # x,
                            ~MadeFor(x, y)', ~MadeFor(y, x)'
                     PROVE  Apart(rules'[x], rules'[y])
        BY DEF PortsKept
      <4>5. CASE x = n
        <5>1. y \in DOMAIN rules \ {id}
          BY <2>9, <4>3, <4>4, <4>5
        <5> QED BY <2>6, <2>9, <4>5, <5>1
      <4>6. CASE y = n
        <5>1. x \in DOMAIN rules \ {id}
          BY <2>9, <4>3, <4>4, <4>6
        <5> QED BY <2>6, <2>9, <4>6, <5>1
      <4>7. CASE x # n /\ y # n
        <5>1. x \in DOMAIN rules /\ y \in DOMAIN rules /\ rules'[x] = rules[x] /\ rules'[y] = rules[y]
          BY <2>9, <4>7
        <5>2. done \cap {"enable", "import", "rollback", "given up"} = {}
          BY <2>10, <4>4
        <5> QED BY <3>3, <4>1, <4>4, <5>1, <5>2 DEF Tables, PortsKept
      <4> QED BY <4>5, <4>6, <4>7
    <3>6. Tables'
      BY <2>3, <2>10, <3>3, <3>4, <3>5 DEF Tables, UserGroupOK
    <3>7. RowPlaced(row, id, rules') /\ RowApart(row, id, rules')
      <4>1. RowPlaced(row, id, rules')
        BY <2>4, <2>6, <2>8, <2>9 DEF RowPlaced, RuleNameFree
      <4>2. RowApart(row, id, rules')
        BY <1>3, <2>8, <2>9, PortsFree DEF RowApart
      <4> QED BY <4>1, <4>2
    <3>8. Standing(w)'
      BY <1>2, <2>3, <2>8, <2>9, <3>7 DEF Standing, RowFits, Edits
    <3>9. Standing(Idle)'
      BY DEF Standing, Idle
    <3>10. ASSUME NEW f \in Editors PROVE Standing(editor[f])'
      <4>1. CASE f = e
        BY <3>2, <3>8, <4>1
      <4>2. CASE f # e
        BY <3>2, <3>9, <4>2
      <4> QED BY <4>1, <4>2
    <3> QED BY <3>2, <3>6, <3>10 DEF Alone, Busy
  <2> QED BY <2>12, <2>13 DEF RegistryInv
<1> QED BY <1>5, <1>6

---------------------------------------------------------------------------
\* Import

ReadSoFar(items, rename, read, n) ==
  read = [i \in 0..n |-> IF i = 0 THEN importContext ELSE ImportItem(read[i - 1], items[i], rename)]

\* The function that reads an import is what its recursive definition says.
LEMMA ImportRead ==
  ASSUME NEW items, Len(items) \in Nat, NEW rename
  PROVE  ReadSoFar(items, rename, ImportItems(items, rename), Len(items))
<1> DEFINE Step(f, i) == IF i = 0 THEN importContext ELSE ImportItem(f[i - 1], items[i], rename)
           Unread == {n \in Nat : ~\E f : f = [i \in 0..n |-> Step(f, i)]}
<1>1. Unread = {}
  <2>1. SUFFICES ASSUME Unread # {} PROVE FALSE
    OBVIOUS
  <2>2. PICK n \in Unread : \A k \in Unread : n <= k
    BY <2>1, Least
  <2>3. n # 0
    <3>1. PICK f : f = [i \in 0..0 |-> importContext]
      OBVIOUS
    <3>2. f = [i \in 0..0 |-> Step(f, i)]
      BY <3>1
    <3> HIDE DEF Step
    <3> QED BY <3>2
  <2>4. n - 1 \in Nat /\ n - 1 \notin Unread
    <3> HIDE DEF Step
    <3>1. n \in Nat
      OBVIOUS
    <3>2. n - 1 \in Nat /\ ~(n <= n - 1)
      BY <2>3, <3>1
    <3> HIDE DEF Unread
    <3> QED BY <2>2, <3>2
  <2>5. PICK f : f = [i \in 0..(n - 1) |-> Step(f, i)]
    <3> HIDE DEF Step
    <3> QED BY <2>4
  <2>6. PICK g : g = [i \in 0..n |-> IF i = n THEN Step(f, n) ELSE f[i]]
    OBVIOUS
  <2>7. ASSUME NEW i \in 0..n PROVE g[i] = Step(g, i)
    <3>1. \A j \in 0..(n - 1) : g[j] = f[j]
      BY <2>4, <2>6
    <3>2. Step(g, i) = Step(f, i)
      <4>1. i # 0 => i - 1 \in 0..(n - 1)
        OBVIOUS
      <4> QED BY <3>1, <4>1
    <3>3. CASE i = n
      BY <2>6, <3>2, <3>3
    <3>4. CASE i # n
      <4>1. i \in 0..(n - 1)
        BY <2>4, <3>4
      <4> HIDE DEF Step
      <4> QED BY <2>5, <2>6, <3>2, <3>4, <4>1
    <3> QED BY <3>3, <3>4
  <2>8. g = [i \in 0..n |-> Step(g, i)]
    <3> HIDE DEF Step
    <3> QED BY <2>6, <2>7
  <2> HIDE DEF Step
  <2> QED BY <2>8
<1>2. \E f : f = [i \in 0..Len(items) |-> Step(f, i)]
  <2> HIDE DEF Step
  <2> QED BY <1>1
<1>3. ImportItems(items, rename) = CHOOSE f : f = [i \in 0..Len(items) |-> Step(f, i)]
  BY DEF ImportItems
<1>4. PICK h : h = ImportItems(items, rename)
  OBVIOUS
<1>5. h = [i \in 0..Len(items) |-> Step(h, i)]
  <2> HIDE DEF Step
  <2> QED BY <1>2, <1>3, <1>4
<1> QED BY <1>4, <1>5 DEF ReadSoFar

\* What has been read so far fits the tables.
ImportGood(acc) ==
  /\ IsFiniteSet(acc.names) /\ IsFiniteSet(acc.given) /\ RuleNames \subseteq acc.names
  /\ acc.rows \in Seq(Imported)
  /\ \A i \in 1..Len(acc.rows) : acc.rows[i].name \in acc.names
  /\ ImportFits(acc.rows, rules, groups)

\* Reading one item more leaves items that fit the tables and each other.
LEMMA ImportItemGood ==
  ASSUME Types, NEW acc, ImportGood(acc), NEW it \in Imported, NEW rename
  PROVE  ImportGood(ImportItem(acc, it, rename))
<1>1. PICK name : name = IF it.name \in acc.names THEN Renamed(it.name, acc.names \cup acc.given) ELSE it.name
  OBVIOUS
<1>2. name \in Seq(Nat) /\ (~(it.name \in acc.names /\ ~rename) => name \notin acc.names)
  <2>1. it.name \in Seq(Nat)
    BY DEF Imported, ForwardRule
  <2>2. IsFiniteSet(acc.names \cup acc.given)
    BY FS_Union DEF ImportGood
  <2>3. PICK other : other = Renamed(it.name, acc.names \cup acc.given)
    OBVIOUS
  <2>4. other \in Seq(Nat) /\ other \notin acc.names
    BY <2>1, <2>2, <2>3, Fresh
  <2> QED BY <1>1, <2>1, <2>3, <2>4
<1>3. PICK next : next = ImportItem(acc, it, rename)
  OBVIOUS
<1>4. PICK row : row = [it EXCEPT !.name = name]
  OBVIOUS
<1>5. \/ next = acc
      \/ next = [names |-> acc.names, given |-> acc.given \cup {name}, ports |-> acc.ports, rows |-> acc.rows]
      \/ /\ ~importItemInvalid(it) /\ ~(it.name \in acc.names /\ ~rename)
         /\ next = [names |-> acc.names \cup {name}, given |-> acc.given,
                    ports |-> IF it.lo > 0 THEN acc.ports \cup {<<it.in, it.lo>>} ELSE acc.ports,
                    rows  |-> Append(acc.rows, row)]
  BY <1>1, <1>3, <1>4 DEF ImportItem
<1>6. CASE next = acc
  BY <1>3, <1>6
<1>7. CASE next = [names |-> acc.names, given |-> acc.given \cup {name}, ports |-> acc.ports, rows |-> acc.rows]
  <2>1. next.names = acc.names /\ next.given = acc.given \cup {name} /\ next.rows = acc.rows
    BY <1>7
  <2>2. IsFiniteSet(acc.given \cup {name})
    BY FS_AddElement DEF ImportGood
  <2> QED BY <1>3, <2>1, <2>2 DEF ImportGood
<1>8. CASE /\ ~importItemInvalid(it) /\ ~(it.name \in acc.names /\ ~rename)
           /\ next = [names |-> acc.names \cup {name}, given |-> acc.given,
                      ports |-> IF it.lo > 0 THEN acc.ports \cup {<<it.in, it.lo>>} ELSE acc.ports,
                      rows  |-> Append(acc.rows, row)]
  <2>1. next.names = acc.names \cup {name} /\ next.given = acc.given /\ next.rows = Append(acc.rows, row)
    BY <1>8
  <2>2. IsFiniteSet(acc.names \cup {name})
    BY FS_AddElement DEF ImportGood
  <2>3. name \notin acc.names
    BY <1>2, <1>8
  <2>4. row \in Imported /\ row.name = name /\ row.in = it.in /\ row.mult = it.mult
    BY <1>2, <1>4 DEF Imported, ForwardRule
  <2>5. row.in \in DOMAIN groups /\ groups[row.in].type = "inbound" /\ row.mult <= MaxMultiplier
    BY <1>8, <2>4, RuleBounds DEF importItemInvalid, IsInbound
  <2>6. PICK n \in Nat : n = Len(acc.rows)
    BY DEF ImportGood
  <2>7. PICK rows : rows = Append(acc.rows, row)
    OBVIOUS
  <2>8. acc.rows \in Seq(Imported)
    BY DEF ImportGood
  <2>9. /\ rows \in Seq(Imported) /\ Len(rows) = n + 1 /\ rows[n + 1] = row
        /\ \A i \in 1..n : rows[i] = acc.rows[i]
    BY <2>4, <2>6, <2>7, <2>8
  <2>10. \A i \in 1..(n + 1) : i \in 1..n \/ i = n + 1
    OBVIOUS
  <2>11. \A i \in 1..(n + 1) : rows[i].name \in acc.names \cup {name}
    BY <2>4, <2>6, <2>9, <2>10 DEF ImportGood
  <2>12. ImportFits(rows, rules, groups)
    <3>1. ASSUME NEW i \in 1..(n + 1)
          PROVE  /\ rows[i].in \in DOMAIN groups /\ groups[rows[i].in].type = "inbound"
                 /\ rows[i].mult <= MaxMultiplier
                 /\ \A o \in DOMAIN rules : rules[o].name # rows[i].name
      <4>1. CASE i \in 1..n
        BY <2>6, <2>9, <4>1 DEF ImportGood, ImportFits
      <4>2. CASE i = n + 1
        BY <2>3, <2>4, <2>5, <2>9, <4>2 DEF ImportGood, RuleNames
      <4> QED BY <2>10, <4>1, <4>2
    <3>2. ASSUME NEW i \in 1..(n + 1), NEW j \in 1..(n + 1), rows[i].name = rows[j].name PROVE i = j
      <4>1. CASE i \in 1..n /\ j \in 1..n
        BY <2>6, <2>9, <3>2, <4>1 DEF ImportGood, ImportFits
      <4>2. \A k \in 1..n : rows[k].name # name
        BY <2>3, <2>6, <2>9 DEF ImportGood
      <4> QED BY <2>4, <2>9, <2>10, <3>2, <4>1, <4>2
    <3> QED BY <2>9, <3>1, <3>2 DEF ImportFits
  <2>13. RuleNames \subseteq acc.names \cup {name} /\ IsFiniteSet(acc.given)
    BY DEF ImportGood
  <2> QED BY <1>3, <2>1, <2>2, <2>7, <2>9, <2>11, <2>12, <2>13 DEF ImportGood
<1> QED BY <1>5, <1>6, <1>7, <1>8

\* What an import will write fits the tables, however long its list.
LEMMA ImportFitsTables ==
  ASSUME Types, NEW items \in Seq(Imported), NEW rename
  PROVE  Import(items, rename) \in Seq(Imported) /\ ImportFits(Import(items, rename), rules, groups)
<1>1. PICK n \in Nat : n = Len(items)
  OBVIOUS
<1>2. PICK read : read = ImportItems(items, rename)
  OBVIOUS
<1>3. read = [i \in 0..n |-> IF i = 0 THEN importContext ELSE ImportItem(read[i - 1], items[i], rename)]
  BY <1>1, <1>2, ImportRead DEF ReadSoFar
<1> DEFINE Bad == {i \in 0..n : ~ImportGood(read[i])}
<1>4. Bad = {}
  <2>1. SUFFICES ASSUME Bad # {} PROVE FALSE
    OBVIOUS
  <2>2. Bad \in SUBSET Nat
    OBVIOUS
  <2>3. PICK i \in Bad : \A j \in Bad : i <= j
    BY <2>1, <2>2, Least
  <2>4. CASE i = 0
    <3>1. read[0] = importContext
      BY <1>3
    <3>2. ImportGood(importContext)
      <4>1. /\ importContext.names = RuleNames /\ importContext.given = {}
            /\ importContext.rows = <<>>
        BY DEF importContext
      <4>2. IsFiniteSet(RuleNames) /\ IsFiniteSet({})
        BY NamesFinite, FS_EmptySet
      <4>3. <<>> \in Seq(Imported) /\ Len(<<>>) = 0 /\ 1..0 = {}
        OBVIOUS
      <4> QED BY <4>1, <4>2, <4>3 DEF ImportGood, ImportFits
    <3> QED BY <2>3, <2>4, <3>1, <3>2
  <2>5. CASE i # 0
    <3>1. i - 1 \in 0..n /\ i \in 1..n /\ ~(i <= i - 1)
      BY <2>5
    <3>2. ImportGood(read[i - 1])
      BY <2>3, <3>1
    <3>3. read[i] = ImportItem(read[i - 1], items[i], rename)
      BY <1>3, <2>5, <3>1
    <3>4. items[i] \in Imported
      BY <1>1, <3>1
    <3> QED BY <2>3, <3>2, <3>3, <3>4, ImportItemGood
  <2> QED BY <2>4, <2>5
<1>5. ImportGood(read[n])
  <2>1. n \in 0..n
    OBVIOUS
  <2> QED BY <1>4, <2>1
<1> QED BY <1>1, <1>2, <1>5 DEF Import, ImportGood

\* The transaction of an import.
LEMMA WriteImportedStep ==
  ASSUME RegistryInv, NEW e \in Editors, WriteImported(e)
  PROVE  RegistryInv'
<1>1. Holds(e, "import") /\ Busy(e) /\ Typed(editor[e], issued) /\ ~Holds(e, "rule")
  BY Holding DEF WriteImported, Holds
<1>2. PICK rows : rows = editor[e].rows
  OBVIOUS
<1>3. rows \in Seq(Imported)
  BY <1>1, <1>2 DEF Typed, Holds
<1>4. PICK len \in Nat : len = Len(rows)
  BY <1>3
<1>5. PICK last : last = issued.rules
  OBVIOUS
<1>6. PICK new : new = (last + 1)..(last + len)
  OBVIOUS
<1>7. /\ rules' = [r \in DOMAIN rules \cup new |-> IF r \in new THEN Inserted(rows[r - last]) ELSE rules[r]]
      /\ issued' = [issued EXCEPT !.rules = @ + len] /\ done' = done \cup {"import"}
      /\ Release(e) /\ UNCHANGED <<groups, nodes, users, labels, snaps>>
  BY <1>2, <1>4, <1>5, <1>6 DEF WriteImported
<1>8. issued \in [Counters -> Nat] /\ RuleTable(rules, last) /\ last \in Nat
  BY <1>5 DEF RegistryInv, Types, TypeOK, Counters
<1>9. Grown /\ issued'.rules = last + len
  BY <1>4, <1>5, <1>7, <1>8 DEF Grown, Counters
<1>10. DOMAIN rules \cap new = {} /\ \A r \in DOMAIN rules : r \in 1..last /\ rules'[r] = rules[r]
  <2>1. \A r \in DOMAIN rules : r \in 1..last
    BY <1>8 DEF RuleTable
  <2>2. DOMAIN rules \cap new = {}
    BY <1>4, <1>6, <1>8, <2>1
  <2> QED BY <1>7, <2>1, <2>2
<1>11. ASSUME NEW r \in new
       PROVE  /\ r - last \in 1..len /\ rows[r - last] \in Imported
              /\ rules'[r] \in ForwardRule /\ SameRule(rules'[r], rows[r - last])
              /\ rules'[r].mult = IF rows[r - last].mult = 0 THEN 1 ELSE rows[r - last].mult
  <2>1. r - last \in 1..len
    BY <1>4, <1>6, <1>8
  <2>2. rows[r - last] \in Imported
    BY <1>3, <1>4, <2>1
  <2>3. rules'[r] = Inserted(rows[r - last])
    BY <1>7
  <2>4. rows[r - last] \in ForwardRule
    BY <2>2 DEF Imported
  <2> QED BY <2>1, <2>2, <2>3, <2>4, RowsAsStored
<1>12. RuleTable(rules', issued'.rules)
  <2>1. DOMAIN rules' = DOMAIN rules \cup new
    BY <1>7
  <2>2. DOMAIN rules' \subseteq 1..(last + len)
    BY <1>4, <1>6, <1>8, <1>10, <2>1
  <2>3. \A r \in DOMAIN rules' : rules'[r] \in ForwardRule
    BY <1>8, <1>10, <1>11, <2>1 DEF RuleTable
  <2> QED BY <1>7, <1>9, <2>1, <2>2, <2>3 DEF RuleTable
<1>13. ASSUME Serial PROVE Sound(rules', groups, done') /\ PortsSettled'
  <2>1. Ready /\ ImportFits(rows, rules, groups)
    BY <1>1, <1>2, <1>13, ReadyToWrite DEF Standing, Holds
  <2>2. PICK ts : ts = rules'
    OBVIOUS
  <2>3. DOMAIN ts = DOMAIN rules \cup new /\ \A r \in DOMAIN rules : ts[r] = rules[r]
    BY <1>7, <1>10, <2>2
  <2>4. ASSUME NEW r \in new
        PROVE  /\ ts[r].in \in DOMAIN groups /\ groups[ts[r].in].type = "inbound"
               /\ ts[r].mult <= MaxMultiplier /\ ts[r].chain = {} /\ ~ts[r].sub /\ ts[r].parent = 0
               /\ \A o \in DOMAIN rules : rules[o].name # ts[r].name
    <3>1. PICK row \in Imported : row = rows[r - last]
      BY <1>11
    <3>2. /\ SameRule(ts[r], row) /\ ts[r].mult = IF row.mult = 0 THEN 1 ELSE row.mult
          /\ row.in \in DOMAIN groups /\ groups[row.in].type = "inbound" /\ row.mult <= MaxMultiplier
          /\ \A o \in DOMAIN rules : rules[o].name # row.name
      BY <1>4, <1>11, <2>1, <2>2, <3>1 DEF ImportFits
    <3>3. row.chain = {} /\ ~row.sub /\ row.parent = 0
      BY DEF Imported
    <3> QED BY <3>2, <3>3, RuleBounds DEF SameRule, Alike
  <2>5. ASSUME NEW r \in new, NEW s \in new, ts[r].name = ts[s].name PROVE r = s
    <3>1. rows[r - last].name = rows[s - last].name
      BY <1>11, <2>2, <2>5 DEF SameRule, Alike
    <3>2. r - last = s - last
      BY <1>4, <1>11, <2>1, <3>1 DEF ImportFits
    <3> QED BY <1>4, <1>6, <1>8, <3>2
  <2>6. Sound(rules, groups, done')
    BY <1>7, <2>1, SoundGrows DEF Ready
  <2>7. ListensInbound(ts, groups) /\ Bounded(ts) /\ ChainsWithoutUDP(ts, groups) /\ NamesAllowed(ts, groups)
    BY <2>3, <2>4, <2>6 DEF Sound, ListensInbound, Bounded, ChainsWithoutUDP, NamesAllowed, NameAllowed
  <2>8. NamesDistinct(ts)
    BY <2>3, <2>4, <2>5, <2>6 DEF Sound, NamesDistinct
  <2>9. HaveMain(rules) => HaveMain(ts)
    BY <2>3, <2>4 DEF HaveMain
  <2>10. "import" \in done'
    BY <1>7
  <2>11. PortsSettled'
    BY <2>10 DEF PortsSettled
  <2>12. ChainsShort(ts) /\ SubsParented(ts)
    BY <2>3, <2>4, <2>6 DEF Sound, ChainsShort, SubsParented
  <2>13. done' \cap Unseen # {}
    BY <2>10 DEF Unseen
  <2> QED BY <2>2, <2>6, <2>7, <2>8, <2>9, <2>10, <2>11, <2>12, <2>13 DEF Sound
<1>14. done \subseteq done'
  BY <1>7
<1> QED BY <1>1, <1>7, <1>9, <1>12, <1>13, <1>14, RulesWritten

\* The requests about rules keep the invariant.
LEMMA RuleEditsStep ==
  ASSUME RegistryInv, NEW e \in Editors, RuleEdits(e)
  PROVE  RegistryInv'
<1>1. ASSUME NEW in \in RuleInputs, CreateRule(e, in) PROVE RegistryInv'
  <2>1. PICK r : r = [in EXCEPT !.on = Given(@, TRUE), !.mult = Given(@, 1), !.chain = Given(@, {})]
    OBVIOUS
  <2>2. in \in RuleBody
    BY RequestBodies
  <2>3. r \in ForwardRule /\ r.name = in.name
    <3>1. {} \in Hops
      BY FS_EmptySet DEF Hops
    <3> QED BY <2>1, <2>2, <3>1 DEF RuleBody, ForwardRule, OrKeep, Given
  <2>4. Validated(e, "new rule", 0, r) /\ RuleNameFree(r.name, 0)
    BY <1>1, <2>1, <2>3 DEF CreateRule
  <2>5. Edits("new rule", 0, r)
    BY DEF Edits
  <2> QED BY <2>3, <2>4, <2>5, ValidatedStep
<1>2. ASSUME NEW in \in RuleInputs, NEW id \in DOMAIN rules, UpdateRule(e, id, in) PROVE RegistryInv'
  <2>1. PICK old : old = rules[id]
    OBVIOUS
  <2>2. PICK r : r = [in EXCEPT !.owner = IF @ = 0 THEN old.owner ELSE @,
                  !.chain = Given(@, old.chain), !.mult = Given(@, old.mult),
                  !.on = Given(@, old.on), !.sni = IF @ = "" THEN old.sni ELSE @,
                  !.sub = @ \/ old.sub, !.parent = old.parent]
    OBVIOUS
  <2>3. in \in RuleBody /\ old \in ForwardRule
    BY <2>1, RequestBodies, RuleTyped DEF RegistryInv
  <2>4. r \in ForwardRule /\ r.name = in.name /\ r.parent = old.parent /\ (r.sub <=> in.sub \/ old.sub)
    <3>1. PICK w, n, b : /\ w = IF in.owner = 0 THEN old.owner ELSE in.owner
                         /\ n = IF in.sni = "" THEN old.sni ELSE in.sni
                         /\ b = (in.sub \/ old.sub)
      OBVIOUS
    <3>2. PICK c, m, o : c = Given(in.chain, old.chain) /\ m = Given(in.mult, old.mult) /\ o = Given(in.on, old.on)
      OBVIOUS
    <3>3. w \in Nat /\ n \in ServerNames /\ b \in BOOLEAN
      BY <2>3, <3>1 DEF RuleBody, ForwardRule
    <3>4. c \in Hops /\ m \in Nat /\ o \in BOOLEAN
      BY <2>3, <3>2 DEF RuleBody, ForwardRule, OrKeep, Given
    <3>5. r = [in EXCEPT !.owner = w, !.chain = c, !.mult = m, !.on = o,
                 !.sni = n, !.sub = b, !.parent = old.parent]
      BY <2>2, <2>3, <3>1, <3>2 DEF RuleBody
    <3>6. old.parent \in Nat
      BY <2>3 DEF ForwardRule
    <3>7. r \in ForwardRule /\ r.name = in.name /\ r.parent = old.parent /\ (r.sub <=> b)
      BY <2>3, <3>3, <3>4, <3>5, <3>6 DEF RuleBody, ForwardRule
    <3> QED BY <3>1, <3>7
  <2>5. Validated(e, "rule", id, r) /\ RuleNameFree(r.name, id)
    BY <1>2, <2>1, <2>2, <2>4 DEF UpdateRule
  <2>6. Serial /\ MainsKept(done) /\ ~r.sub => r.parent = 0
    <3>1. Serial => Tables
      BY DEF RegistryInv
    <3> QED BY <2>1, <2>4, <3>1 DEF Tables, Sound, HaveMain
  <2>7. Edits("rule", id, r)
    BY <2>6 DEF Edits
  <2> QED BY <2>4, <2>5, <2>7, ValidatedStep
<1>3. ASSUME NEW id \in DOMAIN rules, DeleteRule(e, id) PROVE RegistryInv'
  <2>1. PICK w : w = [op |-> "drop rule", id |-> id, main |-> ~rules[id].sub]
    OBVIOUS
  <2>2. Hold(e, w) /\ UNCHANGED tables
    BY <1>3, <2>1 DEF DeleteRule
  <2>3. id \in 1..issued.rules /\ rules[id].sub \in BOOLEAN
    BY RuleTyped DEF RegistryInv, ForwardRule
  <2>4. Typed(w, issued) /\ Standing(w)
    BY <2>1, <2>3 DEF Typed, Standing
  <2> QED BY <2>2, <2>4, HeldStep
<1>4. ASSUME NEW id \in DOMAIN rules, NEW on \in BOOLEAN, SetEnable(e, id, on) PROVE RegistryInv'
  <2>1. PICK ids : ids = {id} \cup (IF on /\ rules[id].sub THEN {rules[id].parent} ELSE {})
    OBVIOUS
  <2>2. PICK w : w = [op |-> "enable", on |-> on, ids |-> ids]
    OBVIOUS
  <2>3. Hold(e, w) /\ UNCHANGED tables
    BY <1>4, <2>1, <2>2 DEF SetEnable
  <2>4. Typed(w, issued) /\ Standing(w)
    BY <2>2 DEF Typed, Standing
  <2> QED BY <2>3, <2>4, HeldStep
<1>5. ASSUME NEW b \in Batches, Batch(e, b) PROVE RegistryInv'
  <2>1. PICK w : w = [op |-> "batch", b |-> b]
    OBVIOUS
  <2>2. Hold(e, w) /\ UNCHANGED tables
    BY <1>5, <2>1 DEF Batch
  <2>3. b \in BatchBody
    BY RequestBodies
  <2>4. Typed(w, issued) /\ Standing(w)
    BY <1>5, <2>1, <2>3 DEF Typed, Standing, Batch
  <2> QED BY <2>2, <2>4, HeldStep
<1>6. ASSUME NEW scale \in {0, 2}, BatchMultiplier(e, scale) PROVE RegistryInv'
  <2>1. PICK mult : mult = [r \in DOMAIN rules |-> rules[r].mult * scale]
    OBVIOUS
  <2>2. PICK w : w = [op |-> "scaled", mult |-> mult]
    OBVIOUS
  <2>3. Hold(e, w) /\ UNCHANGED tables
    BY <1>6, <2>1, <2>2 DEF BatchMultiplier
  <2>4. \A r \in DOMAIN mult : mult[r] \in Nat
    <3>1. \A r \in DOMAIN rules : rules[r].mult \in Nat
      BY RuleTyped DEF RegistryInv, ForwardRule
    <3> QED BY <2>1, <3>1
  <2>5. \A r \in DOMAIN mult : mult[r] <= MaxMultiplier
    BY <1>6, <2>1 DEF BatchMultiplier
  <2>6. Typed(w, issued) /\ Standing(w)
    BY <2>2, <2>4, <2>5 DEF Typed, Standing
  <2> QED BY <2>3, <2>6, HeldStep
<1>7. ASSUME NEW items \in Imports, NEW rename \in BOOLEAN, ImportRules(e, items, rename) PROVE RegistryInv'
  <2>1. PICK rows : rows = Import(items, rename)
    OBVIOUS
  <2>2. PICK w : w = [op |-> "import", rows |-> rows]
    OBVIOUS
  <2>3. Hold(e, w) /\ UNCHANGED tables
    BY <1>7, <2>1, <2>2 DEF ImportRules
  <2>4. items \in Seq(Imported)
    BY RequestBodies
  <2>5. rows \in Seq(Imported) /\ ImportFits(rows, rules, groups)
    BY <2>1, <2>4, ImportFitsTables DEF RegistryInv
  <2>6. Typed(w, issued) /\ Standing(w)
    BY <2>2, <2>5 DEF Typed, Standing
  <2> QED BY <2>3, <2>6, HeldStep
<1>8. SaveNewRule(e) \/ SaveRule(e) \/ RemoveRule(e) => RegistryInv'
  BY SaveNewRuleStep, SaveRuleStep, RemoveRuleStep
<1>9. WriteEnable(e) \/ RunBatch(e) \/ WriteScaled(e) \/ WriteImported(e) => RegistryInv'
  BY WriteEnableStep, RunBatchStep, WriteScaledStep, WriteImportedStep
<1> QED BY <1>1, <1>2, <1>3, <1>4, <1>5, <1>6, <1>7, <1>8, <1>9 DEF RuleEdits

---------------------------------------------------------------------------
\* Snapshots

\* The tables a snapshot reads first.
LEMMA FirstTyped ==
  ASSUME Types
  PROVE  First(FirstReads, issued)
<1>1. /\ FirstReads.groups = groups /\ FirstReads.nodes = nodes /\ FirstReads.labels = labels["node"]
  BY DEF FirstReads
<1>2. GroupTable(groups, issued.groups) /\ NodeTable(nodes, issued.nodes) /\ LabelTable(labels, issued)
  BY DEF Types, TypeOK
<1>3. labels["node"] \in SUBSET Nat /\ labels["node"] \subseteq 1..issued["node"]
  BY <1>2 DEF LabelTable, Kinds
<1> QED BY <1>1, <1>2, <1>3 DEF First

\* A snapshot holds rows of their types, and of a request served alone the
\* tables as they are.
LEMMA TakenSnapshot ==
  ASSUME Types, NEW first, First(first, issued), TakeSnapshot(first)
  PROVE  /\ Grown /\ DOMAIN snaps' \subseteq 1..issued'.snaps
         /\ \A s \in DOMAIN snaps' : Snapshot(snaps'[s], issued')
         /\ NewId("snaps") \in DOMAIN snaps' /\ snaps'[NewId("snaps")] = LastReads(first)
         /\ \A s \in DOMAIN snaps' :
              s # NewId("snaps") => s \in DOMAIN snaps /\ snaps'[s] = snaps[s]
         /\ first = FirstReads => LastReads(first) = Present
<1>1. PICK id : id = NewId("snaps")
  OBVIOUS
<1>2. PICK taken : taken = LastReads(first)
  OBVIOUS
<1>3. snaps' = Put(snaps, id, taken) /\ issued' = [issued EXCEPT !.snaps = @ + 1]
  BY <1>1, <1>2 DEF TakeSnapshot
<1>4. /\ issued \in [Counters -> Nat] /\ issued.snaps \in Nat /\ id = issued.snaps + 1
      /\ DOMAIN snaps \subseteq 1..issued.snaps /\ \A s \in DOMAIN snaps : Snapshot(snaps[s], issued)
  BY <1>1 DEF Types, TypeOK, Counters, NewId
<1>5. Grown /\ issued'.snaps = issued.snaps + 1
  BY <1>3, <1>4 DEF Grown, Counters
<1>6. /\ DOMAIN snaps' = DOMAIN snaps \cup {id} /\ snaps'[id] = taken
      /\ \A s \in DOMAIN snaps' : s # id => s \in DOMAIN snaps /\ snaps'[s] = snaps[s]
  BY <1>3 DEF Put
<1>7. DOMAIN snaps' \subseteq 1..issued'.snaps
  BY <1>4, <1>5, <1>6
<1>8. Snapshot(taken, issued)
  <2>1. LabelTable(labels, issued) /\ RuleTable(rules, issued.rules)
    BY DEF Types, TypeOK
  <2>2. /\ taken.groups = first.groups /\ taken.nodes = first.nodes /\ taken.rules = rules
        /\ taken.labels = [labels EXCEPT !["node"] = first.labels]
    BY <1>2 DEF LastReads
  <2>3. LabelTable(taken.labels, issued)
    BY <2>1, <2>2 DEF LabelTable, First, Kinds
  <2> QED BY <2>1, <2>2, <2>3 DEF Snapshot, First
<1>9. \A s \in DOMAIN snaps' : Snapshot(snaps'[s], issued')
  <2>1. \A s \in DOMAIN snaps' : Snapshot(snaps'[s], issued)
    BY <1>4, <1>6, <1>8
  <2> QED BY <1>4, <1>5, <2>1, SnapshotsGrow DEF Grown
<1>10. ASSUME first = FirstReads PROVE taken = Present
  <2>1. [labels EXCEPT !["node"] = first.labels] = labels
    BY <1>10 DEF FirstReads, Types, TypeOK, LabelTable, Kinds
  <2> QED BY <1>2, <1>10, <2>1 DEF LastReads, FirstReads, Present
<1> QED BY <1>1, <1>2, <1>5, <1>6, <1>7, <1>9, <1>10

\* The requests about snapshots keep the invariant, rollbacks included.
LEMMA SnapshotEditsStep ==
  ASSUME RegistryInv, NEW e \in Editors, SnapshotEdits(e)
  PROVE  RegistryInv'
<1>1. ASSUME CreateSnapshot(e) PROVE RegistryInv'
  <2>1. PICK w : w = [op |-> "collect", first |-> FirstReads]
    OBVIOUS
  <2>2. Hold(e, w) /\ UNCHANGED tables
    BY <1>1, <2>1 DEF CreateSnapshot
  <2>3. Typed(w, issued) /\ Standing(w)
    BY <2>1, FirstTyped DEF Typed, Standing, RegistryInv
  <2> QED BY <2>2, <2>3, HeldStep
<1>2. ASSUME NEW id \in DOMAIN snaps, Rollback(e, id) PROVE RegistryInv'
  <2>1. PICK to : to = snaps[id]
    OBVIOUS
  <2>2. PICK w : w = [op |-> "before rollback", to |-> to, first |-> FirstReads]
    OBVIOUS
  <2>3. Hold(e, w) /\ UNCHANGED tables
    BY <1>2, <2>1, <2>2 DEF Rollback
  <2>4. Snapshot(to, issued)
    BY <2>1 DEF RegistryInv, Types, TypeOK
  <2>5. Typed(w, issued)
    BY <2>2, <2>4, FirstTyped DEF Typed, RegistryInv
  <2>6. Serial => Sound(to.rules, to.groups, done)
    BY <2>1 DEF RegistryInv, Tables
  <2>7. Serial => Standing(w)
    BY <2>2, <2>6 DEF Standing
  <2> QED BY <2>3, <2>5, <2>7, HeldStep
<1>3. ASSUME SaveSnapshot(e) PROVE RegistryInv'
  <2>1. Holds(e, "collect") /\ Busy(e) /\ Typed(editor[e], issued) /\ ~Holds(e, "rule")
    BY <1>3, Holding DEF SaveSnapshot, Holds
  <2>2. PICK first : first = editor[e].first
    OBVIOUS
  <2>3. TakeSnapshot(first) /\ Release(e) /\ UNCHANGED <<rules, groups, nodes, users, labels, done>>
    BY <1>3, <2>2 DEF SaveSnapshot
  <2>4. First(first, issued)
    BY <2>1, <2>2 DEF Typed, Holds
  <2>5. /\ Grown /\ DOMAIN snaps' \subseteq 1..issued'.snaps
        /\ \A s \in DOMAIN snaps' : Snapshot(snaps'[s], issued')
        /\ \A s \in DOMAIN snaps' :
             \/ snaps'[s] = LastReads(first)
             \/ s \in DOMAIN snaps /\ snaps'[s] = snaps[s]
        /\ first = FirstReads => LastReads(first) = Present
    BY <2>3, <2>4, TakenSnapshot DEF RegistryInv
  <2>6. TypedWrite
    BY <2>3, <2>5 DEF TypedWrite
  <2>7. ASSUME Serial PROVE Ready'
    <3>1. Ready /\ first = FirstReads
      BY <2>1, <2>2, <2>7, ReadyToWrite DEF Standing, Holds
    <3>2. LastReads(first).rules = rules /\ LastReads(first).groups = groups
      BY <2>5, <3>1 DEF Present
    <3>3. SnapsSound'
      BY <2>3, <2>5, <3>1, <3>2 DEF Ready, SnapsSound
    <3> QED BY <2>3, <3>1, <3>3 DEF Ready, UsersPlaced, UserGroupOK, PortsSettled
  <2> QED BY <2>1, <2>3, <2>5, <2>6, <2>7, WrittenStep
<1>4. ASSUME SaveBefore(e) PROVE RegistryInv'
  <2>1. Holds(e, "before rollback") /\ Busy(e) /\ Typed(editor[e], issued) /\ ~Holds(e, "rule")
    BY <1>4, Holding DEF SaveBefore, Holds
  <2>2. PICK first : first = editor[e].first
    OBVIOUS
  <2>3. PICK to : to = editor[e].to
    OBVIOUS
  <2>4. PICK w : w = [op |-> "restore", to |-> to, before |-> NewId("snaps")]
    OBVIOUS
  <2>5. /\ TakeSnapshot(first) /\ editor' = [editor EXCEPT ![e] = w]
        /\ UNCHANGED <<rules, groups, nodes, users, labels, done>> /\ UNCHANGED <<ops, raced>>
    BY <1>4, <2>2, <2>3, <2>4 DEF SaveBefore
  <2>6. First(first, issued) /\ Snapshot(to, issued)
    BY <2>1, <2>2, <2>3 DEF Typed, Holds
  <2>7. /\ Grown /\ DOMAIN snaps' \subseteq 1..issued'.snaps
        /\ \A s \in DOMAIN snaps' : Snapshot(snaps'[s], issued')
        /\ w.before \in DOMAIN snaps' /\ snaps'[w.before] = LastReads(first)
        /\ \A s \in DOMAIN snaps' :
             \/ snaps'[s] = LastReads(first)
             \/ s \in DOMAIN snaps /\ snaps'[s] = snaps[s]
        /\ first = FirstReads => LastReads(first) = Present
    BY <2>4, <2>5, <2>6, TakenSnapshot DEF RegistryInv
  <2>8. TypedWrite
    BY <2>5, <2>7 DEF TypedWrite
  <2>9. Typed(w, issued') /\ w.op # "rule"
    <3>1. Snapshot(to, issued')
      BY <2>6, <2>7, SnapshotsGrow DEF Grown, RegistryInv, Types, TypeOK
    <3> QED BY <2>4, <3>1 DEF Typed
  <2>10. ASSUME Serial PROVE Ready' /\ Standing(w)'
    <3>1. Ready /\ first = FirstReads /\ Sound(to.rules, to.groups, done)
      BY <2>1, <2>2, <2>3, <2>10, ReadyToWrite DEF Standing, Holds
    <3>2. LastReads(first).rules = rules /\ LastReads(first).groups = groups
      BY <2>7, <3>1 DEF Present
    <3>3. SnapsSound'
      BY <2>5, <2>7, <3>1, <3>2 DEF Ready, SnapsSound
    <3>4. Ready'
      BY <2>5, <3>1, <3>3 DEF Ready, UsersPlaced, UserGroupOK, PortsSettled
    <3>5. Present' = Present
      BY <2>5 DEF Present
    <3>6. snaps'[w.before] = Present'
      BY <2>7, <3>1, <3>5
    <3>7. Standing(w)'
      BY <2>4, <2>5, <2>7, <3>1, <3>6 DEF Standing
    <3> QED BY <3>4, <3>7
  <2> QED BY <2>1, <2>5, <2>7, <2>8, <2>9, <2>10, WroteStep
<1>5. ASSUME Restore(e) PROVE RegistryInv'
  <2>1. Holds(e, "restore") /\ Busy(e) /\ Typed(editor[e], issued) /\ ~Holds(e, "rule")
    BY <1>5, Holding DEF Restore, Holds
  <2>2. PICK to : to = editor[e].to
    OBVIOUS
  <2>3. /\ groups' = to.groups /\ nodes' = to.nodes /\ labels' = to.labels
        /\ rules' = [r \in DOMAIN to.rules |-> Saved(r, [to.rules[r] EXCEPT !.status = "unsynced"])]
        /\ done' = done \cup {"rollback"} /\ Release(e) /\ UNCHANGED <<users, snaps, issued>>
    BY <1>5, <2>2 DEF Restore, restoreRules
  <2>4. /\ RuleTable(to.rules, issued.rules) /\ GroupTable(to.groups, issued.groups)
        /\ NodeTable(to.nodes, issued.nodes) /\ LabelTable(to.labels, issued)
    BY <2>1, <2>2 DEF Typed, Holds, Snapshot
  <2>5. ASSUME NEW r \in DOMAIN to.rules
        PROVE  /\ rules'[r] \in ForwardRule /\ SameRule(rules'[r], to.rules[r])
               /\ to.rules[r].mult <= MaxMultiplier => rules'[r].mult <= MaxMultiplier
    <3>1. to.rules[r] \in ForwardRule
      BY <2>4 DEF RuleTable
    <3>2. rules'[r] = Saved(r, [to.rules[r] EXCEPT !.status = "unsynced"])
      BY <2>3
    <3> QED BY <3>1, <3>2, RestoredRow
  <2>6. DOMAIN rules' = DOMAIN to.rules /\ RuleTable(rules', issued.rules)
    BY <2>3, <2>4, <2>5 DEF RuleTable
  <2>7. Grown /\ TypedWrite
    BY <2>3, <2>4, <2>6, NoneGrown DEF RegistryInv, TypedWrite
  <2>8. ASSUME Serial PROVE Ready'
    <3>1. Ready /\ Sound(to.rules, to.groups, done)
      BY <2>1, <2>2, <2>8, ReadyToWrite DEF Standing, Holds
    <3>2. ASSUME NEW r \in DOMAIN to.rules
          PROVE  /\ Alike(rules'[r], to.rules[r]) /\ rules'[r].mult <= MaxMultiplier
                 /\ rules'[r].chain # {} =>
                      ~to.groups[to.rules[r].in].udp /\ Cardinality(rules'[r].chain) \in 2..3
                 /\ "import" \notin done =>
                      \A g \in ({rules'[r].out, rules'[r].rev} \ {0}) \cup rules'[r].chain : Out(g, to.groups)
                 /\ done \cap Unseen = {} => \A g \in rules'[r].chain : to.groups[g].failover = 0
      BY <2>5, <3>1 DEF Sound, Bounded, ChainsWithoutUDP, ChainsShort, ChainsDirect, RefersOutbound, SameRule
    <3>3. Sound(rules', to.groups, done)
      BY <2>6, <3>1, <3>2, RulesAlike
    <3>4. "rollback" \in done' /\ done \subseteq done'
      BY <2>3
    <3>5. Sound(rules', groups', done')
      BY <2>3, <3>3, <3>4, SoundGrows
    <3>6. UsersPlaced' /\ PortsSettled'
      BY <3>4 DEF UsersPlaced, PortsSettled
    <3> QED BY <2>3, <3>1, <3>4, <3>5, <3>6, ReadyAgain
  <2> QED BY <2>1, <2>3, <2>7, <2>8, WrittenStep
<1> QED BY <1>1, <1>2, <1>3, <1>4, <1>5 DEF SnapshotEdits

\* A deleted snapshot keeps it.
LEMMA DeleteSnapshotStep ==
  ASSUME RegistryInv, NEW id \in DOMAIN snaps, DeleteSnapshot(id)
  PROVE  RegistryInv'
<1>1. /\ Served /\ snaps' = Without(snaps, {id}) /\ UNCHANGED done
      /\ UNCHANGED <<rules, groups, nodes, users, labels, issued, editor>>
  BY DEF DeleteSnapshot, Served
<1>2. DOMAIN snaps' \subseteq DOMAIN snaps /\ \A s \in DOMAIN snaps' : snaps'[s] = snaps[s]
  BY <1>1 DEF Without, Restrict
<1>3. Grown
  BY <1>1, NoneGrown DEF RegistryInv
<1>4. TypedWrite
  <2>1. DOMAIN snaps \subseteq 1..issued.snaps /\ \A s \in DOMAIN snaps : Snapshot(snaps[s], issued)
    BY DEF RegistryInv, Types, TypeOK
  <2> QED BY <1>1, <1>2, <2>1 DEF TypedWrite
<1>5. ASSUME Ready PROVE Ready'
  BY <1>1, <1>2, <1>5 DEF Ready, SnapsSound, UsersPlaced, UserGroupOK, PortsSettled
<1> QED BY <1>1, <1>3, <1>4, <1>5, ServedStep

\* A request given up keeps it.
LEMMA AbandonStep ==
  ASSUME RegistryInv, NEW e \in Editors, Abandon(e)
  PROVE  RegistryInv'
<1>1. Busy(e) /\ Release(e) /\ UNCHANGED tables /\ done \subseteq done'
      /\ (Holds(e, "rule") => "given up" \in done')
  BY DEF Abandon
<1>2. UNCHANGED <<rules, groups, nodes, users, labels, snaps, issued>>
  BY <1>1 DEF tables
<1>3. Grown /\ TypedWrite
  BY <1>2, NoneGrown DEF RegistryInv, TypedWrite
<1>4. ASSUME Serial PROVE Ready'
  <2>1. Tables /\ (~Holds(e, "rule") => Ready)
    BY <1>1, <1>4, ReadyToWrite
  <2>2. Sound(rules', groups', done') /\ SnapsSound'
    BY <1>1, <1>2, <2>1, SoundGrows DEF Tables, SnapsSound
  <2>3. UsersPlaced'
    BY <1>1, <1>2, <2>1 DEF Tables, UsersPlaced, UserGroupOK
  <2>4. PortsSettled'
    <3>1. CASE Holds(e, "rule")
      BY <1>1, <3>1 DEF PortsSettled
    <3>2. CASE ~Holds(e, "rule")
      BY <1>1, <1>2, <2>1, <3>2 DEF Ready, PortsSettled
    <3> QED BY <3>1, <3>2
  <2> QED BY <2>2, <2>3, <2>4 DEF Ready
<1> QED BY <1>1, <1>3, <1>4, WrittenStep
---------------------------------------------------------------------------
\* Every step keeps the invariant, and the first tables satisfy it

\* Every step keeps the invariant, whichever request takes it.
LEMMA NextKeeps ==
  ASSUME RegistryInv, [Next]_vars
  PROVE  RegistryInv'
<1>1. CASE UNCHANGED vars
  <2>1. UNCHANGED <<rules, groups, nodes, users, labels, snaps, issued, editor, ops, raced, done>>
    BY <1>1 DEF vars, tables
  <2>2. Types'
    BY <2>1 DEF RegistryInv, Types, TypeOK
  <2>3. ASSUME Serial' PROVE Alone' /\ Tables' /\ \A e \in Editors : Standing(editor[e])'
    <3>1. Serial /\ Alone /\ Tables /\ \A e \in Editors : Standing(editor[e])
      BY <2>1, <2>3 DEF Serial, RegistryInv
    <3>2. ASSUME NEW e \in Editors PROVE Standing(editor[e])'
      <4>1. PICK w : w = editor[e]
        OBVIOUS
      <4>2. Standing(w)'
        BY <2>1, <3>1, <4>1, StillStanding DEF tables
      <4> QED BY <2>1, <4>1, <4>2
    <3>3. Alone'
      BY <2>1, <3>1 DEF Alone, Busy
    <3>4. PortsKept'
      BY <2>1, <3>1 DEF Tables, PortsKept, MadeFor, Holds
    <3>5. Tables'
      BY <2>1, <3>1, <3>4 DEF Tables, UserGroupOK
    <3> QED BY <3>2, <3>3, <3>5
  <2> QED BY <2>2, <2>3 DEF RegistryInv
<1>2. ASSUME NEW e \in Editors, GroupEdits(e) PROVE RegistryInv'
  BY <1>2, GroupEditsStep
<1>3. ASSUME NEW e \in Editors, LabelEdits(e) PROVE RegistryInv'
  BY <1>3, LabelEditsStep
<1>4. ASSUME NEW e \in Editors, NodeChanges(e) PROVE RegistryInv'
  BY <1>4, NodeChangesStep
<1>5. ASSUME NEW e \in Editors, UserEdits(e) PROVE RegistryInv'
  BY <1>5, UserEditsStep
<1>6. ASSUME NEW e \in Editors, RuleEdits(e) PROVE RegistryInv'
  BY <1>6, RuleEditsStep
<1>7. ASSUME NEW e \in Editors, SnapshotEdits(e) PROVE RegistryInv'
  BY <1>7, SnapshotEditsStep
<1>8. ASSUME NEW e \in Editors, Abandon(e) PROVE RegistryInv'
  BY <1>8, AbandonStep
<1>9. ASSUME NEW kind \in Kinds, CreateLabel(kind) PROVE RegistryInv'
  BY <1>9, LabelGrows
<1>10. ASSUME NEW id \in DOMAIN snaps, DeleteSnapshot(id) PROVE RegistryInv'
  BY <1>10, DeleteSnapshotStep
<1> QED
  BY <1>1, <1>2, <1>3, <1>4, <1>5, <1>6, <1>7, <1>8, <1>9, <1>10 DEF Next

\* Consistent tables keep every promise.
LEMMA ConsistentIsSound ==
  ASSUME NEW rs, NEW gs, Consistent(rs, gs), NEW n, RuleTable(rs, n)
  PROVE  Sound(rs, gs, {})
<1>1. 0 \notin DOMAIN rs
  BY DEF RuleTable
<1>2. SubsParented(rs)
  BY <1>1 DEF Consistent, HaveMain, SubsParented
<1> QED BY <1>2 DEF Consistent, Sound

\* The first tables satisfy the invariant.
LEMMA FirstInv ==
  ASSUME Init
  PROVE  RegistryInv
<1>1. /\ rules = InitTables.rules /\ groups = InitTables.groups /\ nodes = InitTables.nodes
      /\ users = InitTables.users /\ labels = InitTables.labels /\ snaps = InitTables.snaps
      /\ issued = InitTables.issued /\ editor = [e \in Editors |-> Idle]
      /\ ops = 0 /\ raced = FALSE /\ done = {}
  BY DEF Init, InitRegistry
<1>2. /\ issued \in [Counters -> Nat]
      /\ Snapshot(InitTables, issued)
      /\ DOMAIN users \subseteq 1..issued.users /\ DOMAIN snaps \subseteq 1..issued.snaps
      /\ \A s \in DOMAIN snaps : Snapshot(snaps[s], issued) /\ Consistent(snaps[s].rules, snaps[s].groups)
      /\ Consistent(rules, groups) /\ PortsApart(rules)
      /\ \A u \in DOMAIN users : users[u] = 0 \/ users[u] \in labels["user"]
  BY <1>1, FirstTables
<1>3. TypeOK
  <2>1. RuleTable(rules, issued.rules) /\ GroupTable(groups, issued.groups)
        /\ NodeTable(nodes, issued.nodes) /\ LabelTable(labels, issued)
    BY <1>1, <1>2 DEF Snapshot
  <2>2. ops \in 0..MaxOps
    BY <1>1, RuleBounds
  <2> QED BY <1>2, <2>1, <2>2 DEF TypeOK
<1>4. \A w : w = Idle => Typed(w, issued) /\ Standing(w) /\ w.op = "none"
  BY DEF Typed, Standing, Idle
<1>5. \A e \in Editors : editor[e] = Idle
  BY <1>1
<1>6. Types
  BY <1>1, <1>3, <1>4, <1>5 DEF Types
<1>7. Tables
  <2>1. Sound(rules, groups, done) /\ \A s \in DOMAIN snaps : Sound(snaps[s].rules, snaps[s].groups, done)
    BY <1>1, <1>2, ConsistentIsSound DEF Snapshot
  <2>2. \A r, s : ~MadeFor(r, s)
    BY <1>4, <1>5 DEF MadeFor, Holds
  <2>3. PortsKept
    BY <1>2, <2>2 DEF PortsKept, PortsApart
  <2> QED BY <1>2, <2>1, <2>3 DEF Tables, UserGroupOK
<1> QED BY <1>4, <1>5, <1>6, <1>7 DEF RegistryInv, Alone, Busy

\* The invariant says what the run checks.
LEMMA InvImplies ==
  ASSUME RegistryInv
  PROVE  RegistryConsistent
<1>1. TypeOK
  BY DEF RegistryInv, Types
<1>2. ASSUME Serial
      PROVE  /\ Alone /\ Sound(rules, groups, done) /\ PortsKept /\ \A e \in Editors : Standing(editor[e])
             /\ "rollback" \notin done => \A u \in DOMAIN users : UserGroupOK(users[u])
  BY <1>2 DEF RegistryInv, Tables
<1>3. /\ References /\ ChainWithoutUDP /\ SubRulesAllowed /\ SubRulesHaveMain
      /\ NamesUnique /\ MultiplierBounded /\ UserGroupsKept
  BY <1>2 DEF References, ChainWithoutUDP, SubRulesAllowed, SubRulesHaveMain, NamesUnique,
              MultiplierBounded, UserGroupsKept, Sound
<1>4. PortsDisjoint
  <2>1. ASSUME \A e \in Editors : ~Busy(e) PROVE \A r, s : ~MadeFor(r, s)
    <3>1. \A e \in Editors : ~Holds(e, "rule")
      BY <2>1 DEF Holds, Busy, Idle
    <3> QED BY <3>1 DEF MadeFor
  <2> QED BY <1>2, <2>1 DEF PortsDisjoint, PortsKept, PortsApart
<1>5. Reversible
  BY <1>2 DEF Reversible, Standing, Holds
<1> QED BY <1>1, <1>3, <1>4, <1>5 DEF RegistryConsistent

\* The registry is consistent after any sequence of requests: types in any
\* interleaving, the rest as long as requests are served one after the other.
THEOREM RegistryIsConsistent == Spec => []RegistryConsistent
<1>1. Init => RegistryInv
  BY FirstInv
<1>2. RegistryInv /\ [Next]_vars => RegistryInv'
  BY NextKeeps
<1>3. RegistryInv => RegistryConsistent
  BY InvImplies
<1> QED BY <1>1, <1>2, <1>3, PTL DEF Spec

---------------------------------------------------------------------------
\* What a step announces

\* A step that is no rollback: nothing is written, or by a request that holds
\* something else, and no other request ends with it.
Plain(e) ==
  \/ UNCHANGED tables
  \/ ~Holds(e, "restore") /\ \A f \in Editors \ {e} : editor'[f] = editor[f]

\* Such a step restores nothing.
LEMMA PlainStep ==
  ASSUME Types, NEW e, Plain(e)
  PROVE  RestoresExactly /\ RestoresForetold
<1>1. ASSUME NEW f \in Editors, Restoring(f) PROVE FALSE
  <2>1. Holds(f, "restore") /\ editor'[f] = Idle /\ ~UNCHANGED tables
    BY <1>1 DEF Restoring
  <2>2. f # e /\ editor[f] = Idle
    BY <2>1 DEF Plain
  <2> QED BY <2>1, <2>2 DEF Holds, Idle
<1> QED BY <1>1 DEF RestoresExactly, RestoresForetold

\* A write ends its own request only.
LEMMA ReleasesOne ==
  ASSUME Types, NEW e \in Editors, Release(e)
  PROVE  \A f \in Editors \ {e} : editor'[f] = editor[f]
  BY DEF Types, Release

\* A request that starts held nothing before.
LEMMA HoldsNothing ==
  ASSUME Types, NEW e \in Editors, NEW w, Hold(e, w)
  PROVE  ~Holds(e, "restore") /\ \A f \in Editors \ {e} : editor'[f] = editor[f]
  BY DEF Types, Hold, Holds, Busy, Idle

\* Requests that are not about rules leave these as they are, but for the
\* rules of a user that go with it.
LEMMA OtherEdits ==
  ASSUME Types, NEW e \in Editors,
         GroupEdits(e) \/ LabelEdits(e) \/ NodeChanges(e) \/ UserEdits(e) \/ Abandon(e)
  PROVE  Plain(e) /\ ChangesMarked
<1>1. UNCHANGED rules => ChangesMarked
  BY DEF ChangesMarked
<1>2. UNCHANGED tables => Plain(e) /\ UNCHANGED rules
  BY DEF Plain, tables
<1>3. ASSUME NEW op, op # "restore", Holds(e, op), Release(e) PROVE Plain(e)
  BY <1>3, ReleasesOne DEF Plain, Holds
<1>4. CASE GroupEdits(e)
  <2>1. \/ UNCHANGED tables
        \/ Release(e) /\ UNCHANGED rules /\ \E op : op # "restore" /\ Holds(e, op)
    BY <1>4 DEF GroupEdits, CreateGroup, UpdateGroup, DeleteGroup, Reorder, SaveNewGroup, SaveGroup,
                RemoveGroup, WriteOrder
  <2> QED BY <1>1, <1>2, <1>3, <2>1
<1>5. CASE LabelEdits(e)
  <2>1. ASSUME NEW kind \in Kinds, NEW id \in labels[kind], DeleteLabel(e, kind, id)
        PROVE  UNCHANGED tables
    BY <2>1 DEF DeleteLabel
  <2>2. ASSUME RemoveLabel(e) PROVE Plain(e) /\ UNCHANGED rules
    BY <2>2 DEF RemoveLabel, Plain, Holds, Types
  <2>3. ASSUME ScrubNodes(e) PROVE Plain(e) /\ UNCHANGED rules
    BY <2>3, <1>3 DEF ScrubNodes
  <2> QED BY <1>1, <1>2, <1>5, <2>1, <2>2, <2>3 DEF LabelEdits
<1>6. CASE NodeChanges(e)
  <2>1. \/ UNCHANGED tables
        \/ Release(e) /\ UNCHANGED rules /\ \E op : op # "restore" /\ Holds(e, op)
    BY <1>6 DEF NodeChanges, CreateNode, DeleteNode, UpdateNode, BatchGroup, SaveNewNode, SaveNode, RemoveNode
  <2> QED BY <1>1, <1>2, <1>3, <2>1
<1>7. CASE UserEdits(e)
  <2>1. ASSUME RemoveUser(e) PROVE Plain(e) /\ ChangesMarked
    <3>1. Plain(e)
      BY <2>1, <1>3 DEF RemoveUser
    <3>2. \A r \in DOMAIN rules' : rules'[r] = rules[r]
      BY <2>1 DEF RemoveUser, Without, Restrict
    <3> QED BY <3>1, <3>2 DEF ChangesMarked
  <2>2. \/ RemoveUser(e)
        \/ UNCHANGED tables
        \/ Release(e) /\ UNCHANGED rules /\ \E op : op # "restore" /\ Holds(e, op)
    BY <1>7 DEF UserEdits, CreateUser, UpdateUser, DeleteUser, SaveNewUser, SaveUser
  <2> QED BY <1>1, <1>2, <1>3, <2>1, <2>2
<1>8. CASE Abandon(e)
  BY <1>1, <1>2, <1>8 DEF Abandon
<1> QED BY <1>4, <1>5, <1>6, <1>7, <1>8

\* A row under a new identifier changes no rule that is there.
LEMMA NewRow ==
  ASSUME Types, NEW row, rules' = Put(rules, NewId("rules"), row)
  PROVE  ChangesMarked
<1>1. NewId("rules") \notin DOMAIN rules
  BY RuleTyped DEF NewId
<1> QED BY <1>1 DEF ChangesMarked, Put

\* A batch marks what it changes, but for the rule group.
LEMMA ChangedMarked ==
  ASSUME NEW r \in ForwardRule, NEW b \in BatchBody, b.act # "delete"
  PROVE  Changed(b, r).status = "unsynced" \/ Applied(Changed(b, r)) = Applied(r)
<1>1. b.act \in BatchActions
  BY DEF BatchBody
<1>2. CASE b.act = "rgroup"
  <2>1. PICK s : s = [r EXCEPT !.rgroup = b.rgroup]
    OBVIOUS
  <2>2. Applied(s) = Applied(r)
    BY <2>1 DEF Applied, ForwardRule
  <2> QED BY <1>2, <2>1, <2>2 DEF Changed
<1>3. CASE b.act # "rgroup"
  BY <1>1, <1>3 DEF Changed, BatchActions, ForwardRule
<1> QED BY <1>2, <1>3

\* A request about rules marks every row it changes, but for its rule group.
LEMMA RuleEditsMark ==
  ASSUME Types, NEW e \in Editors, RuleEdits(e)
  PROVE  Plain(e) /\ ChangesMarked
<1>1. UNCHANGED rules => ChangesMarked
  BY DEF ChangesMarked
<1>2. UNCHANGED tables => Plain(e) /\ UNCHANGED rules
  BY DEF Plain, tables
<1>3. ASSUME NEW op, op # "restore", Holds(e, op), Release(e) PROVE Plain(e)
  BY <1>3, ReleasesOne DEF Plain, Holds
<1>4. ASSUME NEW op, NEW id, NEW r, Validated(e, op, id, r) PROVE Plain(e) /\ ChangesMarked
  <2>1. PICK w : Hold(e, w)
    BY <1>4 DEF Validated
  <2>2. Plain(e)
    BY <2>1, HoldsNothing DEF Plain
  <2>3. \/ UNCHANGED rules
        \/ rules' = Put(rules, NewId("rules"), Inserted(MainRule(r)))
    BY <1>4 DEF Validated
  <2> QED BY <1>1, <2>2, <2>3, NewRow
<1>5. ASSUME NEW in \in RuleInputs, CreateRule(e, in) PROVE Plain(e) /\ ChangesMarked
  BY <1>4, <1>5 DEF CreateRule
<1>6. ASSUME NEW in \in RuleInputs, NEW id \in DOMAIN rules, UpdateRule(e, id, in)
      PROVE  Plain(e) /\ ChangesMarked
  BY <1>4, <1>6 DEF UpdateRule
<1>7. ASSUME SaveNewRule(e) PROVE Plain(e) /\ ChangesMarked
  BY <1>3, <1>7, NewRow DEF SaveNewRule
<1>8. ASSUME SaveRule(e) PROVE Plain(e) /\ ChangesMarked
  <2>1. PICK w : w = editor[e]
    OBVIOUS
  <2>2. PICK u : u = [w.row EXCEPT !.status = "unsynced"]
    OBVIOUS
  <2>3. w.row \in ForwardRule
    BY <1>8, <2>1 DEF SaveRule, Types, Typed, Holds
  <2>4. u.status = "unsynced"
    BY <2>2, <2>3 DEF ForwardRule
  <2>5. rules' = Put(rules, w.id, Saved(w.id, u))
    BY <1>8, <2>1, <2>2 DEF SaveRule
  <2>6. \A r \in DOMAIN rules : rules'[r] = rules[r] \/ rules'[r].status = "unsynced"
    BY <2>4, <2>5 DEF Put, Saved
  <2>7. Plain(e)
    BY <1>3, <1>8 DEF SaveRule
  <2> QED BY <2>6, <2>7 DEF ChangesMarked
<1>9. ASSUME RemoveRule(e) PROVE Plain(e) /\ ChangesMarked
  <2>1. Plain(e)
    BY <1>3, <1>9 DEF RemoveRule
  <2>2. \A r \in DOMAIN rules' : rules'[r] = rules[r]
    BY <1>9 DEF RemoveRule, Without, Restrict
  <2> QED BY <2>1, <2>2 DEF ChangesMarked
<1>10. ASSUME WriteEnable(e) PROVE Plain(e) /\ ChangesMarked
  <2>1. Plain(e)
    BY <1>3, <1>10 DEF WriteEnable
  <2>2. ASSUME NEW r \in DOMAIN rules PROVE rules'[r] = rules[r] \/ rules'[r].status = "unsynced"
    BY <1>10, RuleTyped DEF WriteEnable, ForwardRule
  <2> QED BY <2>1, <2>2 DEF ChangesMarked
<1>11. ASSUME WriteScaled(e) PROVE Plain(e) /\ ChangesMarked
  <2>1. Plain(e)
    BY <1>3, <1>11 DEF WriteScaled
  <2>2. ASSUME NEW r \in DOMAIN rules PROVE rules'[r] = rules[r] \/ rules'[r].status = "unsynced"
    BY <1>11, RuleTyped DEF WriteScaled, ForwardRule
  <2> QED BY <2>1, <2>2 DEF ChangesMarked
<1>12. ASSUME WriteImported(e) PROVE Plain(e) /\ ChangesMarked
  <2>1. Plain(e)
    BY <1>3, <1>12 DEF WriteImported
  <2>2. PICK rows : rows = editor[e].rows
    OBVIOUS
  <2>3. PICK new : new = (issued.rules + 1)..(issued.rules + Len(rows))
    OBVIOUS
  <2>4. rules' = [r \in DOMAIN rules \cup new |->
                   IF r \in new THEN Inserted(rows[r - issued.rules]) ELSE rules[r]]
    BY <1>12, <2>2, <2>3 DEF WriteImported
  <2>5. \A r \in DOMAIN rules : r \notin new
    BY <2>3, RuleTyped
  <2> QED BY <2>1, <2>4, <2>5 DEF ChangesMarked
<1>13. ASSUME RunBatch(e) PROVE Plain(e) /\ ChangesMarked
  <2>1. Plain(e)
    BY <1>3, <1>13 DEF RunBatch
  <2>2. PICK b : b = editor[e].b
    OBVIOUS
  <2>3. b \in BatchBody
    BY <1>13, <2>2 DEF RunBatch, Types, Typed, Holds
  <2>4. CASE b.act = "delete"
    <3>1. \A r \in DOMAIN rules' : rules'[r] = rules[r]
      BY <1>13, <2>2, <2>4 DEF RunBatch, Without, Restrict
    <3> QED BY <2>1, <3>1 DEF ChangesMarked
  <2>5. CASE b.act # "delete"
    <3>1. \A r \in DOMAIN rules : rules'[r] = rules[r] \/ rules'[r] = Changed(b, rules[r])
      BY <1>13, <2>2, <2>5 DEF RunBatch
    <3>2. ASSUME NEW r \in DOMAIN rules, Applied(rules'[r]) # Applied(rules[r])
          PROVE  rules'[r].status = "unsynced"
      BY <2>3, <2>5, <3>1, <3>2, RuleTyped, ChangedMarked
    <3> QED BY <2>1, <3>2 DEF ChangesMarked
  <2> QED BY <2>4, <2>5
<1>14. \/ UNCHANGED tables
       \/ \E in \in RuleInputs : CreateRule(e, in) \/ \E id \in DOMAIN rules : UpdateRule(e, id, in)
       \/ SaveNewRule(e) \/ SaveRule(e) \/ RemoveRule(e) \/ WriteEnable(e)
       \/ RunBatch(e) \/ WriteScaled(e) \/ WriteImported(e)
  BY DEF RuleEdits, DeleteRule, SetEnable, Batch, BatchMultiplier, ImportRules
<1> QED BY <1>1, <1>2, <1>5, <1>6, <1>7, <1>8, <1>9, <1>10, <1>11, <1>12, <1>13, <1>14

\* Taking a snapshot, and a rollback once it has one, marks every rule.
LEMMA SnapshotEditsAnnounced ==
  ASSUME Types, NEW e \in Editors, SnapshotEdits(e)
  PROVE  RestoresExactly /\ RestoresForetold /\ ChangesMarked
<1>1. UNCHANGED rules => ChangesMarked
  BY DEF ChangesMarked
<1>2. CASE ~Restore(e)
  <2>1. UNCHANGED tables \/ (UNCHANGED rules /\ ~Holds(e, "restore") /\ \E w : editor' = [editor EXCEPT ![e] = w])
    BY <1>2 DEF SnapshotEdits, CreateSnapshot, SaveSnapshot, Rollback, SaveBefore, Holds, Release
  <2>2. Plain(e) /\ UNCHANGED rules
    BY <2>1 DEF Plain, Types, tables
  <2> QED BY <1>1, <2>2, PlainStep
<1>3. CASE Restore(e)
  <2>1. PICK to : to = editor[e].to
    OBVIOUS
  <2>2. /\ Release(e) /\ groups' = to.groups /\ nodes' = to.nodes /\ labels' = to.labels
        /\ rules' = restoreRules(to.rules)
    BY <1>3, <2>1 DEF Restore
  <2>3. \A f \in Editors : Restoring(f) => f = e
    <3>1. \A f \in Editors \ {e} : editor'[f] = editor[f]
      BY <2>2, ReleasesOne
    <3> QED BY <3>1 DEF Restoring, Holds, Idle
  <2>4. RuleTable(to.rules, issued.rules)
    BY <1>3, <2>1 DEF Restore, Types, Typed, Holds, Snapshot
  <2>5. \A r \in DOMAIN to.rules : to.rules[r] \in ForwardRule
    BY <2>4 DEF RuleTable
  <2>6. /\ DOMAIN rules' = DOMAIN to.rules
        /\ \A r \in DOMAIN to.rules : rules'[r] = Saved(r, [to.rules[r] EXCEPT !.status = "unsynced"])
    BY <2>2 DEF restoreRules
  <2>7. ASSUME NEW r \in DOMAIN rules'
        PROVE  /\ rules'[r].status = "unsynced"
               /\ [rules'[r] EXCEPT !.on = TRUE, !.mult = 1, !.status = ""]
                    = [to.rules[r] EXCEPT !.on = TRUE, !.mult = 1, !.status = ""]
    <3>1. PICK p \in ForwardRule : p = to.rules[r]
      BY <2>5, <2>6
    <3>2. PICK u : u = [p EXCEPT !.status = "unsynced"]
      OBVIOUS
    <3>3. rules'[r] = u \/ rules'[r] = Inserted(u)
      BY <2>6, <3>1, <3>2 DEF Saved
    <3>4. /\ u.status = "unsynced"
          /\ [u EXCEPT !.on = TRUE, !.mult = 1, !.status = ""]
               = [p EXCEPT !.on = TRUE, !.mult = 1, !.status = ""]
      BY <3>2 DEF ForwardRule
    <3>5. /\ Inserted(u).status = "unsynced"
          /\ [Inserted(u) EXCEPT !.on = TRUE, !.mult = 1, !.status = ""]
               = [p EXCEPT !.on = TRUE, !.mult = 1, !.status = ""]
      BY <3>2 DEF ForwardRule, Inserted
    <3> QED BY <3>1, <3>3, <3>4, <3>5
  <2>8. RestoresExactly
    <3>1. ASSUME NEW f \in Editors, Restoring(f) PROVE editor[f].to = to
      BY <2>1, <2>3, <3>1
    <3>2. /\ groups' = to.groups /\ nodes' = to.nodes /\ labels' = to.labels
          /\ DOMAIN rules' = DOMAIN to.rules
      BY <2>2, <2>6
    <3> QED BY <2>7, <3>1, <3>2 DEF RestoresExactly
  <2>9. ASSUME NEW r \in DOMAIN to.rules \cap DOMAIN rules
         PROVE  [rules'[r] EXCEPT !.status = ""] = [to.rules[r] EXCEPT !.status = ""]
    BY <2>5, <2>6 DEF Saved, ForwardRule
  <2>10. diffResource(ruleFields(to.rules), ruleFields(rules)) = Difference(Unmarked(rules), Unmarked(rules'))
    BY <2>6, <2>9 DEF diffResource, ruleFields, Difference, Unmarked
  <2>11. /\ diffResource(deviceGroupFields(to.groups), deviceGroupFields(groups)) = Difference(groups, groups')
         /\ diffResource(nodeFields(to.nodes), nodeFields(nodes)) = Difference(nodes, nodes')
    BY <2>2 DEF diffResource, deviceGroupFields, nodeFields, Difference
  <2>12. RestoresForetold
    BY <2>1, <2>2, <2>3, <2>10, <2>11 DEF RestoresForetold, Diff
  <2>13. ChangesMarked
    BY <2>7 DEF ChangesMarked
  <2> QED BY <2>8, <2>12, <2>13
<1> QED BY <1>2, <1>3

\* Every step announces what it changes.
LEMMA StepAnnounced ==
  ASSUME RegistryInv, [Next]_vars
  PROVE  RestoresExactly /\ RestoresForetold /\ ChangesMarked
<1>1. Types
  BY DEF RegistryInv
<1>2. UNCHANGED rules => ChangesMarked
  BY DEF ChangesMarked
<1>3. CASE UNCHANGED vars
  <2>1. UNCHANGED tables /\ UNCHANGED rules
    BY <1>3 DEF vars, tables
  <2>2. PICK e : Plain(e)
    BY <2>1 DEF Plain
  <2> QED BY <1>1, <1>2, <2>1, <2>2, PlainStep
<1>4. ASSUME UNCHANGED editor, UNCHANGED rules
      PROVE  RestoresExactly /\ RestoresForetold /\ ChangesMarked
  <2>1. \A f \in Editors : ~Restoring(f)
    BY <1>4 DEF Restoring, Holds, Idle
  <2> QED BY <1>2, <1>4, <2>1 DEF RestoresExactly, RestoresForetold
<1>5. ASSUME NEW e \in Editors,
             GroupEdits(e) \/ LabelEdits(e) \/ NodeChanges(e) \/ UserEdits(e) \/ Abandon(e)
      PROVE  RestoresExactly /\ RestoresForetold /\ ChangesMarked
  BY <1>1, <1>5, OtherEdits, PlainStep
<1>6. ASSUME NEW e \in Editors, RuleEdits(e)
      PROVE  RestoresExactly /\ RestoresForetold /\ ChangesMarked
  BY <1>1, <1>6, RuleEditsMark, PlainStep
<1>7. ASSUME NEW e \in Editors, SnapshotEdits(e)
      PROVE  RestoresExactly /\ RestoresForetold /\ ChangesMarked
  BY <1>1, <1>7, SnapshotEditsAnnounced
<1>8. ASSUME NEW kind \in Kinds, CreateLabel(kind) PROVE UNCHANGED editor /\ UNCHANGED rules
  BY <1>8 DEF CreateLabel
<1>9. ASSUME NEW id \in DOMAIN snaps, DeleteSnapshot(id) PROVE UNCHANGED editor /\ UNCHANGED rules
  BY <1>9 DEF DeleteSnapshot
<1> QED BY <1>3, <1>4, <1>5, <1>6, <1>7, <1>8, <1>9 DEF Next

\* What a request changes it announces, whatever other requests are served
\* with it: a rollback restores the whole of its snapshot, as the comparison
\* said it would, and an edit leaves no rule it changed marked as synchronised.
THEOREM EditsAnnounced == Spec => RegistrySteps
<1>1. Init => RegistryInv
  BY FirstInv
<1>2. RegistryInv /\ [Next]_vars => RegistryInv'
  BY NextKeeps
<1>3. RegistryInv /\ [Next]_vars => RestoresExactly /\ RestoresForetold /\ ChangesMarked
  BY StepAnnounced
<1>4. Spec => RollbackExact
  BY <1>1, <1>2, <1>3, PTL DEF Spec, RollbackExact
<1>5. Spec => DiffForetells
  BY <1>1, <1>2, <1>3, PTL DEF Spec, DiffForetells
<1>6. Spec => EditsUnsync
  BY <1>1, <1>2, <1>3, PTL DEF Spec, EditsUnsync
<1> QED BY <1>4, <1>5, <1>6 DEF RegistrySteps
=============================================================================
