---------------------------- MODULE MCPanelEdits ----------------------------
\* Instances of the panel's registry and of its inputs.
EXTENDS NodeConfig
R(name, lo, hi) ==
  [name |-> name, owner |-> 1, rgroup |-> 1, in |-> 1, lo |-> lo, hi |-> hi, out |-> 2,
   mult |-> 1, chain |-> {}, rev |-> 0, sub |-> FALSE, parent |-> 0, sni |-> "", on |-> TRUE,
   status |-> "unsynced"]
Ruled(r) == [r EXCEPT !.status = "normal"]
G(name, type, members) ==
  [name |-> name, type |-> type, members |-> members, udp |-> FALSE, hosts |-> {},
   split |-> FALSE, reverse |-> {}, failover |-> 0]
Entrance == [G("in", "inbound", {1}) EXCEPT !.hosts = {"a", "b"}, !.split = TRUE, !.reverse = {2}]
N(name, role, labs) == [name |-> name, role |-> role, labels |-> labs]

\* The snapshot is older: a rule, disabled, and a node have gone since, and a
\* group has been renamed.
Rules == << Ruled([R(<<1>>, 1, 0) EXCEPT !.owner = 0, !.out = 0]),
            Ruled([R(<<2>>, 1, 0) EXCEPT !.sub = TRUE, !.parent = 1, !.sni = "a"]),
            Ruled([R(<<3>>, 2, 0) EXCEPT !.chain = {2, 3}, !.out = 0]) >>
Groups(name) == << Entrance, G(name, "outbound", {2}), G("far", "outbound", {2}) >>
Nodes == << N("n", "inbound", {}), N("m", "outbound", {}) >>
Labels == [user |-> {1}, rule |-> {1}, node |-> {1}]
Older ==
  [rules |-> Append(Rules, Ruled([R(<<6>>, 4, 0) EXCEPT !.on = FALSE])), groups |-> Groups("old"),
   nodes |-> Append(Nodes, N("o", "both", {})), labels |-> Labels]
MCTables ==
  [rules |-> Rules, groups |-> Groups("out"), nodes |-> Nodes, users |-> << 1 >>,
   labels |-> Labels, snaps |-> << Older >>,
   issued |-> [rules |-> 4, groups |-> 3, nodes |-> 3, users |-> 1,
               user |-> 1, rule |-> 1, node |-> 1, snaps |-> 1]]
MCNone == {}
MCRuleInputs ==
  { R(<<3>>, 2, 3), [R(<<4>>, 0, 0) EXCEPT !.chain = {2, 3}, !.out = 0],
    [R(<<5>>, 3, 0) EXCEPT !.sub = TRUE, !.sni = "b", !.chain = Keep, !.on = Keep],
    [R(<<4>>, 3, 4) EXCEPT !.rev = 3, !.parent = 1, !.mult = Keep, !.on = FALSE, !.chain = Keep] }
MCGroupInputs ==
  { [Entrance EXCEPT !.udp = TRUE], [Entrance EXCEPT !.hosts = {"b"}],
    [G("out", "outbound", {2}) EXCEPT !.failover = 3],
    G("new", "outbound", {}) }
MCNodeInputs == { N("k", "both", {}) }
MCNodeEdits == { N("n", "outbound", {1}) }
B(act) == [act |-> act, ids |-> {1, 3}, out |-> 3, rgroup |-> 0, chain |-> {}, mult |-> 2]
MCBatches == { B("enable"), B("delete"), B("out"), B("scale"),
               [B("chain") EXCEPT !.chain = {2, 3}] }
MCImports == { << R(<<3>>, 2, 0), R(<<3>>, 5, 0), R(<<3>>, 6, 0) >> }
=============================================================================
