---------------------------- MODULE NodeConfig ----------------------------
(***************************************************************************)
(* What the panel's tables mean to the nodes: which rules and groups are   *)
(* compiled into the configuration of a node (model/rule_nodes.go,         *)
(* agent/push.go), which configurations a node takes (validateRule of      *)
(* nodeclient/engine.go: one bad rule refuses them all), and which tunnel  *)
(* requests it answers (nodeclient/tunnel.go).  All of it is a function of *)
(* the tables, so the properties are about every state edits can reach.    *)
(***************************************************************************)
EXTENDS PanelEdits, SequencesExt

CONSTANT MaxRange \* the most ports in a range a node listens on (256)

ASSUME RangeBound == MaxRange \in Nat \ {0}

\* A set of groups with the failover groups behind them, followed through the
\* groups that are known.
Onward(ids, known) == {groups[g].failover : g \in ids \cap known} \ {0}
Reached(ids, known) ==
  LET reached[k \in 0..Cardinality(known)] ==
        IF k = 0 THEN ids \ {0} ELSE reached[k - 1] \cup Onward(reached[k - 1], known)
  IN  reached
Behind(ids, known) == Reached(ids, known)[Cardinality(known)]

\* routePath: the groups a stream of the rule goes through, in order.  A chain
\* is kept as a set: its hops are in some order, the same one for everybody.
routePath(r) ==
  IF r.chain # {} THEN SetToSeq(r.chain)
  ELSE IF r.rev # 0 THEN <<r.rev>>
  ELSE IF r.out # 0 THEN <<r.out>> ELSE <<>>

\* Mutant: one failover group and not those behind it.
RuleGroupIDs_Once(r) ==
  LET way == {r.in} \cup ToSet(routePath(r))
  IN  (way \cup {groups[g].failover : g \in way \cap DOMAIN groups}) \ {0}
RuleGroupIDs(r) == Behind({r.in} \cup ToSet(routePath(r)), DOMAIN groups)

\* RuleNodeRoles
InboundAt(r, n) == r.in \in DOMAIN groups /\ n \in groups[r.in].members
OutboundAt(r, n) ==
  \E g \in (RuleGroupIDs(r) \cap DOMAIN groups) \ {r.in} : n \in groups[g].members

rulesForNode(n) == {id \in DOMAIN rules : InboundAt(rules[id], n) \/ OutboundAt(rules[id], n)}

deviceGroupConfigs(n) ==
  DOMAIN groups \cap
    Behind({g \in DOMAIN groups : n \in groups[g].members}
             \cup UNION {RuleGroupIDs(rules[id]) : id \in rulesForNode(n)}, DOMAIN groups)

\* validateRule of the node, given the groups that came with the rule.
RangeListens(r) ==
  /\ r.hi # 0 => r.hi >= r.lo
  /\ r.hi > r.lo => r.lo > 0 /\ r.hi - r.lo < MaxRange
NodeAccepts(r, known) ==
  r.on =>
    /\ RangeListens(r)
    /\ r.sub => r.parent # 0 /\ r.sni # ""
    /\ r.chain # {} =>
         /\ Cardinality(r.chain) \in 2..3
         /\ r.rev = 0
         /\ r.in \in known /\ ~groups[r.in].udp
         /\ \A g \in r.chain : g \in known /\ groups[g].failover = 0
    /\ {r.rev, r.out} \ {0} \subseteq known

---------------------------------------------------------------------------
\* A request [rule, path, hop, from, to] to open a stream, and what the
\* receiver checks (authenticate).

member(known, g, n) == g \in known /\ n \in groups[g].members
validPath(r, path, known) ==
  LET way == routePath(r) IN
  /\ Len(path) = Len(way)
  /\ IF Len(way) = 1 THEN path[1] \in Behind({way[1]}, known) ELSE path = way
authenticate(q) ==
  LET r     == rules[q.rule]
      known == deviceGroupConfigs(q.to) IN
  /\ OutboundAt(r, q.to)
  /\ validPath(r, q.path, known)
  /\ member(known, q.path[q.hop], q.to)
  /\ member(known, IF q.hop = 1 THEN r.in ELSE q.path[q.hop - 1], q.from)

\* The requests openAt makes for a rule: along its route from entrance to
\* exit, or to the exit group and the failover groups behind it, as far as the
\* sender knows them.
Senders(r, hop) ==
  Members(groups[IF hop = 1 THEN r.in ELSE routePath(r)[hop - 1]])
PathsOf(r, known) ==
  CASE Len(routePath(r)) = 0 -> {}
    [] Len(routePath(r)) = 1 -> {<<g>> : g \in Behind({routePath(r)[1]}, known) \cap known}
    [] OTHER                 -> {routePath(r)}
Requests(id) ==
  LET r == rules[id] IN
  UNION {UNION {UNION {{[rule |-> id, path |-> path, hop |-> hop, from |-> n, to |-> p] :
                          p \in Members(groups[path[hop]])} :
                        path \in PathsOf(r, deviceGroupConfigs(n))} :
                 n \in Senders(r, hop)} :
          hop \in DOMAIN routePath(r)}

\* The request an exit makes to the entrance of a reversed rule: the entrance
\* takes it from the members of the exit group alone.
ReverseAuthorized(id) ==
  LET r == rules[id] IN
  r.rev # 0 /\ r.chain = {} =>
    \A n \in Members(groups[r.in]) :
      /\ InboundAt(r, n)
      /\ \A x \in Members(groups[r.rev]) : member(deviceGroupConfigs(n), r.rev, x)

---------------------------------------------------------------------------
\* Properties

Usual(r) ==
  /\ RangeListens(r)
  /\ r.chain # {} => r.rev = 0
  /\ r.out # 0 => r.out \in RuleGroupIDs(r)
\* Nothing the panel lets through makes a node refuse its configuration, with
\* these exceptions, which the panel does not look at: a range of ports the
\* node does not listen on, a chain that is reversed too, a way out beside the
\* route, a failover group given afterwards to a group of a chain, and what
\* an import takes over unseen.
ConfigAccepted ==
  Serial /\ done \cap {"failover", "import"} = {} =>
    \A n \in DOMAIN nodes :
      (\A id \in rulesForNode(n) : Usual(rules[id])) =>
        \A id \in rulesForNode(n) : NodeAccepts(rules[id], deviceGroupConfigs(n))

\* Nodes that hold configurations of the same tables never refuse each other:
\* whatever edits led there, every request made along the route of a rule, or
\* along its failover groups, is one the receiver answers.  An import does not
\* look at the way out, which may then be the inbound group itself.
PathsAuthorized ==
  Serial /\ "import" \notin done => \A id \in DOMAIN rules :
    ReverseAuthorized(id) /\ \A q \in Requests(id) : authenticate(q)

\* The panel and its nodes agree on what a rule may be and on who serves whom.
NodesAgree == ConfigAccepted /\ PathsAuthorized

===========================================================================
