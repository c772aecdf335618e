----------------------------- MODULE MCDatabase -----------------------------
\* What is made of the panel's database, and the choices and limits that are
\* computed from it, each a part of its own: a behaviour is one of one of them.
EXTENDS MCPanelEdits, Settings, Migration, Backups, DatabaseCopy, SourceReading,
  Balancing, IngressLimits
VARIABLE part
serviceVars == <<settingVars, migrationVars, backupVars, copyVars, readingVars>>
databaseVars == <<part, vars, serviceVars, balanceVars, exit, ingressVars>>

NoLimits ==
  [ruleIPs |-> 0, userIPs |-> 0, userDevices |-> 0, ruleConns |-> 0, userConns |-> 0,
   ruleRate |-> 0, userRate |-> 0, disabled |-> FALSE, used |-> FALSE]
\* A part that rests does so in one state, in which little has to be evaluated.
PartsRest ==
  /\ part # "reading" => source = CHOOSE s \in Sources : TRUE
  /\ part # "balance" => members = <<>> /\ targets = <<>> /\ node = CHOOSE n \in InitNodes : TRUE
  /\ part # "address" => exit = [type |-> "", v6 |-> "none", static |-> FALSE,
                                 host |-> FALSE, ip4 |-> FALSE, ip6 |-> FALSE]
  /\ part # "ingress" => spec = [NoLimits EXCEPT !.disabled = TRUE]
InitDatabase ==
  /\ part \in {"nodes", "settings", "migration", "backups", "copy", "reading", "balance", "address", "ingress"}
  /\ PartsRest
  /\ InitAddress /\ InitReading /\ InitBalancing /\ InitIngress
  /\ Init /\ InitSettings /\ InitMigration /\ InitBackups /\ InitCopy
NextPart ==
  \/ part = "nodes" /\ Next /\ UNCHANGED serviceVars
  \/ part = "settings" /\ NextSettings /\ UNCHANGED <<vars, migrationVars, backupVars, copyVars, readingVars>>
  \/ part = "migration" /\ NextMigration /\ UNCHANGED <<vars, settingVars, backupVars, copyVars, readingVars>>
  \/ part = "backups" /\ NextBackups /\ UNCHANGED <<vars, settingVars, migrationVars, copyVars, readingVars>>
  \/ part = "copy" /\ NextCopy /\ UNCHANGED <<vars, settingVars, migrationVars, backupVars, readingVars>>
  \/ part = "reading" /\ NextReading /\ UNCHANGED <<vars, settingVars, migrationVars, backupVars, copyVars>>
NextDatabase ==
  /\ UNCHANGED part
  /\ \/ NextPart /\ UNCHANGED <<balanceVars, exit, ingressVars>>
     \/ part = "balance" /\ NextBalancing /\ UNCHANGED <<vars, serviceVars, exit, ingressVars>>
     \/ part = "address" /\ Report /\ UNCHANGED <<vars, serviceVars, ingressVars>>
     \/ part = "ingress" /\ NextIngress /\ UNCHANGED <<vars, serviceVars, balanceVars, exit>>
DatabaseSpec == InitDatabase /\ [][NextDatabase]_databaseVars
---------------------------------------------------------------------------
\* For the nodes: no users, labels or snapshots; a group of last resort.
MCNodeTables ==
  [MCTables EXCEPT
     !.rules = << [R(<<1>>, 1, 0) EXCEPT !.rgroup = 0] >>,
     !.groups = << [Entrance EXCEPT !.udp = TRUE], G("out", "outbound", {2}),
                   [G("far", "outbound", {3}) EXCEPT !.failover = 4], G("spare", "outbound", {3, 4}) >>,
     !.nodes = << N("n", "inbound", {}), N("m", "outbound", {}), N("o", "both", {}), N("p", "both", {}) >>,
     !.users = << >>, !.labels = [user |-> {}, rule |-> {}, node |-> {}], !.snaps = << >>,
     !.issued = [rules |-> 1, groups |-> 4, nodes |-> 6, users |-> 6,
                 user |-> 6, rule |-> 6, node |-> 6, snaps |-> 6]]
MCRoutes ==
  { [R(<<2>>, 2, 0) EXCEPT !.chain = {2, 4}, !.out = 0], [R(<<3>>, 3, 4) EXCEPT !.rev = 3, !.out = 0],
    [R(<<4>>, 3, 0) EXCEPT !.sub = TRUE, !.sni = "b", !.chain = Keep], [R(<<5>>, 4, 7) EXCEPT !.out = 3] }
MCGroupRoutes ==
  { Entrance, [G("out", "outbound", {2}) EXCEPT !.failover = 3], G("far", "outbound", {3}),
    G("new", "outbound", {2, 4}) }
MCRouteBatches == { B("out"), [B("chain") EXCEPT !.chain = {2, 4}] }
---------------------------------------------------------------------------
MCDefaults == "site" :> 0 @@ "theme" :> 0
MCUpdates == {"site" :> 1 @@ "theme" :> 1, "site" :> 2}
---------------------------------------------------------------------------
Row(i, base, rs) == [id |-> i, name |-> Plain(base), on |-> TRUE, refs |-> rs]
Src(i, base, rs, ns) == [id |-> i, name |-> Plain(base), on |-> i # 2, refs |-> rs, needs |-> ns]
MCSource == [t \in Table |->
  CASE t = "user_groups"   -> << Src(1, "staff", {<<"rule_groups", 1>>}, {}) >>
    [] t = "users"         -> << Src(1, "alice", {<<"user_groups", 1>>}, {}),
                                 Src(2, "alice", {<<"user_groups", 1>>}, {}) >>
    [] t = "node_groups"   -> << >>
    [] t = "nodes"         -> << Src(1, "n1", {}, {}) >>
    [] t = "rule_groups"   -> << Src(1, "web", {}, {}) >>
    [] t = "device_groups" -> << Src(1, "in", {<<"nodes", 1>>}, {}) >>
    [] t = "forward_rules" -> << Src(1, "r1", {<<"users", 2>>, <<"rule_groups", 1>>, <<"device_groups", 1>>},
                                     {<<"device_groups", 1>>}),
                                 Src(2, "r2", {<<"device_groups", 7>>}, {<<"device_groups", 7>>}),
                                 Src(3, "r3", {<<"device_groups", 1>>, <<"forward_rules", 1>>},
                                     {<<"device_groups", 1>>, <<"forward_rules", 1>>}) >>]
MCExisting == [t \in Table |->
  CASE t = "user_groups" -> { Row(1, "default", {}) }
    [] t = "users"       -> { Row(1, "admin", {}) }
    [] OTHER             -> {}]
---------------------------------------------------------------------------
Filled(people, forwards, policies) ==
  [t \in AllModels |-> CASE t = "users" -> people [] t = "forward_rules" -> forwards
                         [] t = "node_traffic_policies" -> policies [] OTHER -> {}]
MCFrom == Filled({<<1, "a">>, <<2, "a">>, <<3, "a">>}, {<<1, "a">>, <<2, "bad">>}, {<<1, "a">>})
MCTo == Filled({<<4, "a">>}, {}, {<<2, "a">>})
MCEdited == {<<1, "b">>, <<4, "b">>}
---------------------------------------------------------------------------
\* Databases of three releases, and their traffic.
MCTraffic ==
  { {[id |-> 1, date |-> d, hour |-> 1, direction |-> "in", bytes |-> 5],
     [id |-> 2, dt |-> "d1", h |-> h, flow_type |-> "up", raw |-> b],
     [id |-> 3, day |-> "d1", h |-> 2525, type |-> t, traffic |-> 7]} :
    d \in {"d1", Nil}, h \in {1, 2525}, b \in {0, 5}, t \in {"1", "tx"} }
Meaning(boss, ruleGroup, enable) ==
  [users |-> {[role |-> IF boss THEN "admin" ELSE "user", speed |-> IF boss THEN 102400 ELSE 0]},
   groups |-> {[type |-> IF boss THEN "inbound" ELSE "outbound", nodes |-> {1}]},
   nodes |-> {[port |-> 1080, groups |-> IF boss THEN {1} ELSE {}, role |-> "both"]},
   rules |-> {[group |-> ruleGroup, inbound |-> 2, port |-> 443, enable |-> enable]}]
NoRows == [kind \in RecordKinds |-> {}]
MCSources ==
  { Database(Meaning(boss, g, TRUE), rel, RecordKinds, {}) :
      boss \in BOOLEAN, g \in {0, 3}, rel \in {"new", "old", "oldest"} }
  \cup { Database(Meaning(TRUE, 3, FALSE), rel, RecordKinds, {}) : rel \in {"new", "old"} }
  \cup { Database([NoRows EXCEPT !.users = Meaning(TRUE, 0, TRUE).users], "new", RecordKinds, t) : t \in MCTraffic }
  \cup { Database(NoRows, "new", RecordKinds, {}), Database(NoRows, "new", {"users"}, {}) }
---------------------------------------------------------------------------
MCThresholds == {[MaxFail |-> 2, SuccCount |-> 1, Enable |-> FALSE]}
MCRestrictions == {[AllowIDs |-> {2}, BanDirect |-> TRUE]}
MCMembers == {<<1, 2>>, <<3, 2>>, <<>>}
MCScore == << <<3, 2, 1>>, <<1, 3, 2>> >>
MCMaxConn == <<0, 1, 2>>
AtNode(w, c) == [Online |-> TRUE, Weight |-> w, CurrentConn |-> c]
MCNodesAtFirst == { <<AtNode(2, 0), AtNode(1, 0), AtNode(1, 0)>>, <<AtNode(1, 1), AtNode(0, 1), AtNode(3, 1)>> }
T(h, up) == [host |-> h, up |-> up]
MCTargetLists == { <<T(1, TRUE), T(2, FALSE), T(3, TRUE)>>, <<>> }
---------------------------------------------------------------------------
MCLimits ==
  { [NoLimits EXCEPT !.ruleIPs = 2, !.userIPs = 1], [NoLimits EXCEPT !.userDevices = 1],
    [NoLimits EXCEPT !.ruleConns = 1, !.userConns = 2, !.ruleRate = 1, !.userRate = 1],
    [NoLimits EXCEPT !.disabled = TRUE] }
MCClients == {[ip |-> 1, device |-> 1], [ip |-> 2, device |-> 2]}
=============================================================================
