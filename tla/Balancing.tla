----------------------------- MODULE Balancing -----------------------------
(***************************************************************************)
(* How the panel chooses among the exits of a group and the targets of a   *)
(* rule (app/balance.go), and what it shows of that (GroupService.Health). *)
(* The members of a group and their state change, probes take them out and *)
(* bring them back, and the weighted round keeps its weights from one      *)
(* choice to the next.                                                     *)
(***************************************************************************)
EXTENDS Integers, Sequences, FiniteSets, FiniteSetsExt, SequencesExt, Functions
CONSTANTS
  Exits, ClientIPs,
  Score,         \* the hash of a client and an exit: Score[client][exit]
  MaxConn,       \* exit -> its limit of connections, 0 for none
  Weights, Conns, Configs, Restrictions,   \* what a group and its nodes are changed to
  InitMembers, InitNodes, TargetLists,
  MaxMoves, MaxProbes   \* bounds of an instance
ASSUME ScoresDiffer ==
  \A c \in ClientIPs : \A a, b \in Exits : a # b => Score[c][a] # Score[c][b]
ASSUME BalancingBounds == {MaxMoves, MaxProbes} \subseteq Nat

VARIABLES
  members,    \* node_ids of the group, in order
  node,       \* exit -> [Online, Weight, CurrentConn]
  group,      \* [restrict, config, failover]: its record
  states, cfg, \* the tracker: what it knows of an exit, and its thresholds
  current,    \* SWRRState
  targets,    \* of a rule, in order: [host, up]
  turns,      \* the choices of this turn of the round, per exit
  fresh,      \* the candidates of the round since its weights were last made anew
  exit,       \* what is known of where a node is dialled
  seen,       \* the results of an exit, the latest first
  moves, probes   \* what the bounds count: what else happened, and probes
balanceVars == <<members, node, group, states, cfg, current, targets, turns, fresh, seen,
                 moves, probes>>
record == <<members, node, group>>
tracker == <<states, cfg, seen, probes>>
round == <<current, turns, fresh>>

normalWeight(w) == IF w <= 0 THEN 1 ELSE w
Normalize(c) == [c EXCEPT !.MaxFail = IF @ <= 0 THEN 3 ELSE @,
                          !.SuccCount = IF @ <= 0 THEN 2 ELSE @]
DefaultFailoverConfig == [MaxFail |-> 3, SuccCount |-> 2, Enable |-> TRUE]
NewNodeFailoverState == [ConsecutiveFail |-> 0, ConsecutiveSucc |-> 0, Up |-> TRUE]
State(n) == IF n \in DOMAIN states THEN states[n] ELSE NewNodeFailoverState
AllDown == \A i \in DOMAIN members : ~State(members[i]).Up
\* The direct exit is a number no node has.
Direct == 0
AllowNode(r, n) == IF r.AllowIDs # {} THEN n \in r.AllowIDs ELSE ~(r.BanDirect /\ n = Direct)
---------------------------------------------------------------------------
InitBalancing ==
  /\ members \in InitMembers /\ targets \in TargetLists
  /\ node \in InitNodes
  /\ group = [restrict |-> [AllowIDs |-> {}, BanDirect |-> FALSE],
              config |-> DefaultFailoverConfig, failover |-> FALSE]
  /\ states = <<>> /\ cfg = DefaultFailoverConfig /\ seen = [n \in Exits |-> <<>>]
  /\ current = <<>> /\ turns = [n \in Exits |-> 0] /\ fresh = <<>>
  /\ moves = 0 /\ probes = 0
---------------------------------------------------------------------------
\* The projections of the members: GroupMembers, and the same in Health.
CandidateOf(n) ==
  [NodeID |-> n, Weight |-> normalWeight(node[n].Weight), CurrentConn |-> node[n].CurrentConn,
   Full |-> MaxConn[n] > 0 /\ node[n].CurrentConn >= MaxConn[n],
   Online |-> node[n].Online, Up |-> State(n).Up, Healthy |-> State(n).Up]
GroupMembers == [i \in DOMAIN members |-> CandidateOf(members[i])]
FilterCandidates(list, r, check) ==
  SelectSeq(list, LAMBDA c : /\ c.Online /\ c.Up /\ (check => c.Healthy)
                             /\ c.Weight > 0 /\ ~c.Full /\ AllowNode(r, c.NodeID))
Candidates == FilterCandidates(GroupMembers, group.restrict, group.config.Enable)
NodeIDs(list) == [i \in DOMAIN list |-> list[i].NodeID]
\* The choice of each policy among candidates: a set where chance decides.
LessLoaded(a, b) == a.CurrentConn * b.Weight <= b.CurrentConn * a.Weight
PickLeastConn(list) ==
  { i \in DOMAIN list : \A j \in DOMAIN list : LessLoaded(list[i], list[j]) }
PickWeightedRandom(list) == DOMAIN list
PickConsistentHash(list, client) ==
  CHOOSE i \in DOMAIN list : \A j \in DOMAIN list :
    Score[client][list[i].NodeID] >= Score[client][list[j].NodeID]
PickExit(policy, client) ==
  CASE policy = "hash_ip" -> {PickConsistentHash(Candidates, client)}
    [] policy = "weighted" -> PickWeightedRandom(Candidates)
    [] OTHER -> PickLeastConn(Candidates)
\* PickSWRR: the weights are made anew where their number is not that of the
\* candidates, whoever they are.  The first of the greatest is chosen.
Total(list) == MapThenSumSet(LAMBDA i : list[i].Weight, DOMAIN list)
Raised(list) ==
  LET kept == IF Len(current) = Len(list) THEN current ELSE [i \in DOMAIN list |-> 0]
  IN [i \in DOMAIN list |-> kept[i] + list[i].Weight]
Greatest(s) == Min({ i \in DOMAIN s : \A j \in DOMAIN s : s[j] <= s[i] })
Lowered_Weight(list, best) == [Raised(list) EXCEPT ![best] = @ - list[best].Weight]
Lowered(list, best) == [Raised(list) EXCEPT ![best] = @ - Total(list)]
Turned(n, list) ==
  LET shares == [i \in DOMAIN list |-> <<list[i].NodeID, list[i].Weight>>]
      again == \/ Len(current) # Len(list)
               \/ FoldFunction(+, 0, turns) = Total(list)
      before == IF again THEN [m \in Exits |-> 0] ELSE turns
  IN /\ fresh' = IF Len(current) # Len(list) THEN shares
                 ELSE IF fresh = shares THEN fresh ELSE <<>>
     /\ turns' = IF fresh' = <<>> THEN [m \in Exits |-> 0] ELSE [before EXCEPT ![n] = @ + 1]
PickSWRR ==
  /\ Len(Candidates) > 1
  /\ LET best == Greatest(Raised(Candidates))
     IN /\ current' = Lowered(Candidates, best)
        /\ Turned(Candidates[best].NodeID, Candidates)
  /\ UNCHANGED <<record, tracker, targets, moves>>
---------------------------------------------------------------------------
\* A probe: RecordResult, in the tracker of the group.
RecordResult(st, fail) ==
  LET fails == IF fail THEN st.ConsecutiveFail + 1 ELSE 0
      succs == IF fail THEN 0 ELSE st.ConsecutiveSucc + 1
  IN [ConsecutiveFail |-> fails, ConsecutiveSucc |-> succs,
      Up |-> IF fail THEN st.Up /\ fails < cfg.MaxFail ELSE st.Up \/ succs >= cfg.SuccCount]
Track(n, st) == states' = [m \in DOMAIN states \cup {n} |-> IF m = n THEN st ELSE states[m]]
Record(n) ==
  /\ probes < MaxProbes /\ probes' = probes + 1
  /\ \E fail \in BOOLEAN : /\ Track(n, RecordResult(State(n), fail))
                           /\ seen' = [seen EXCEPT ![n] = <<fail>> \o @]
  /\ UNCHANGED <<record, round, cfg, targets, moves>>
\* By hand.  Down leaves the successes that were counted.
ByHand(n) ==
  /\ \/ Track(n, [State(n) EXCEPT !.Up = FALSE])
     \/ Track(n, NewNodeFailoverState)
  /\ UNCHANGED <<record, round, cfg, seen, targets, probes>>
\* The group's record changes: its members, which ends the tracker, or its
\* thresholds, which the tracker hears of when they are loaded.
UpdateRecord ==
  /\ \/ /\ members' \in InitMembers \ {members} /\ UNCHANGED group
        /\ states' = <<>> /\ cfg' = DefaultFailoverConfig /\ seen' = [n \in Exits |-> <<>>]
     \/ /\ \/ \E c \in Configs : group' = [group EXCEPT !.config = Normalize(c)]
           \/ \E r \in Restrictions : group' = [group EXCEPT !.restrict = r, !.failover = TRUE]
        /\ UNCHANGED <<members, states, cfg, seen>>
  /\ UNCHANGED <<node, round, targets, probes>>
LoadFailoverConfig ==
  /\ cfg # group.config /\ cfg' = group.config
  /\ UNCHANGED <<record, round, states, seen, targets, moves, probes>>
\* A node comes and goes, is given a weight, takes and ends connections.
NodeAltered(n) ==
  /\ \/ node' = [node EXCEPT ![n].Online = ~@]
     \/ \E w \in Weights : node' = [node EXCEPT ![n].Weight = w]
     \/ \E c \in Conns : node' = [node EXCEPT ![n].CurrentConn = c]
  /\ UNCHANGED <<members, group, round, tracker, targets>>
---------------------------------------------------------------------------
\* The targets of a rule: the first one up is used, and the others after it.
MarkTarget ==
  /\ \E i \in DOMAIN targets : targets' = [targets EXCEPT ![i].up = ~@]
  /\ UNCHANGED <<record, round, tracker>>
IsUp(t) == t.up
IsDown(t) == ~t.up
SortTargetsByPriority(list) == SelectSeq(list, IsUp) \o SelectSeq(list, IsDown)
SortTargets ==
  /\ targets' = SortTargetsByPriority(targets) /\ targets' # targets
  /\ UNCHANGED <<record, round, tracker, moves>>
PickTargetWithFailover(list, failures, maxFail) ==
  SelectSeq(list, LAMBDA t : t.up /\ failures[t.host] < maxFail)
---------------------------------------------------------------------------
\* Health shows the members that take no part, by a list of reasons of its
\* own, and looks for the group to turn to.
Excluded(n) ==
  \/ ~node[n].Online \/ ~State(n).Up
  \/ node[n].Weight <= 0
  \/ MaxConn[n] > 0 /\ node[n].CurrentConn >= MaxConn[n]
  \/ ~AllowNode(group.restrict, n)
HealthyCount == Cardinality({ n \in ToSet(members) : ~Excluded(n) })
needFailover == Candidates = <<>> /\ group.failover
---------------------------------------------------------------------------
NextBalancing ==
  \/ PickSWRR \/ SortTargets \/ LoadFailoverConfig
  \/ \E n \in ToSet(members) : Record(n)
  \/ /\ moves < MaxMoves /\ moves' = moves + 1
     /\ \/ UpdateRecord \/ MarkTarget
        \/ \E n \in ToSet(members) : ByHand(n) \/ NodeAltered(n)
---------------------------------------------------------------------------
\* The address at which a node is dialled in a group (resolveConnectAddress):
\* the first of these that is known.  The group says how to connect and, if it
\* is static, where; the node has or has not a host, an IPv4, an IPv6; v6 says
\* whether the group prefers IPv6 for all nodes, for all but this one, or not.
Reports == {"host", "ip4", "ip6"}
AddressInputs ==
  [type : {"", "static", "dyn_ip4", "dyn_ip6"}, v6 : {"none", "all", "others"},
   static : BOOLEAN, host : BOOLEAN, ip4 : BOOLEAN, ip6 : BOOLEAN]
ipv6GroupPrefers(in) == in.v6 = "all"
ConnectRules(in) ==
  << <<in.type = "static" /\ in.static, "static">>,
     <<in.host, "host">>,
     <<in.type \in {"", "dyn_ip4"} /\ in.ip4, "ip4">>,
     <<ipv6GroupPrefers(in) /\ in.ip6, "ip6">>,
     <<in.type = "dyn_ip6" /\ in.ip6, "ip6">>,
     <<in.ip4, "ip4">>,
     <<in.type # "dyn_ip4" /\ in.ip6, "ip6">> >>
RuleApplies(rule) == rule[1]
resolveConnectAddress(in) ==
  LET known == SelectSeq(ConnectRules(in), RuleApplies)
  IN IF known = <<>> THEN "" ELSE known[1][2]
InitAddress == exit \in AddressInputs
Report ==
  /\ \E more \in Reports : ~exit[more] /\ exit' = [exit EXCEPT ![more] = TRUE]
  /\ UNCHANGED balanceVars
---------------------------------------------------------------------------
\* While the candidates stay what they were when the round began, each has
\* its share of the choices, to less than one choice at any time and exactly
\* when the turn is over; and the weights kept always cancel out.
Proportional ==
  LET made == FoldFunction(+, 0, turns)
      total == MapThenSumSet(LAMBDA i : fresh[i][2], DOMAIN fresh)
      behind(i) == made * fresh[i][2] - total * turns[fresh[i][1]]
  IN /\ \A i \in DOMAIN fresh : /\ behind(i) < total /\ behind(i) > 0 - total
                                /\ made = total => behind(i) = 0
     /\ MapThenSumSet(LAMBDA i : current[i], DOMAIN current) = 0
\* What is shown as taking part is what can be chosen, but for a node of
\* weight 0, which is shown out of it and chosen all the same; the group is
\* turned away from exactly when none can be.
ShownAsChosen ==
  /\ Candidates # <<>> => \A policy \in {"least_conn", "weighted", "hash_ip"}, client \in ClientIPs :
       \E i \in PickExit(policy, client) :
         ~Excluded(Candidates[i].NodeID) \/ node[Candidates[i].NodeID].Weight = 0
  /\ { n \in ToSet(members) : ~Excluded(n) } =
       { n \in ToSet(NodeIDs(Candidates)) : node[n].Weight > 0 }
  /\ AllDown => Candidates = <<>>
  /\ needFailover => HealthyCount = 0
\* An exit no hand has touched is out after as many failures in a row as the
\* thresholds say, and back after as many successes: the count starts again
\* with every other result.
Latest(n, k, fail) == Len(seen[n]) >= k /\ \A i \in 1..k : seen[n][i] = fail
FlipsAsProbed ==
  \A n \in Exits :
    (seen'[n] # seen[n] /\ seen'[n] # <<>> /\ State(n)'.Up # State(n).Up) =>
       IF State(n).Up THEN Latest(n, cfg.MaxFail, TRUE)'
       ELSE Latest(n, cfg.SuccCount, FALSE)'
\* A client moves to another exit only when its own can no longer be chosen
\* or the one it moves to newly can be, wherever they stand in the order.
ChosenFor(client) ==
  IF Candidates = <<>> THEN Direct ELSE Candidates[PickConsistentHash(Candidates, client)].NodeID
ClientsStay ==
  <<record, states>>' # <<record, states>> => \A client \in ClientIPs :
    LET before == ChosenFor(client)
        after == ChosenFor(client)'
    IN before # after => \/ before \notin ToSet(NodeIDs(Candidates))'
                         \/ after \notin ToSet(NodeIDs(Candidates))
\* Putting the targets in order moves neither the one in use nor the order
\* in which the others follow it.
SortKeepsChoice ==
  \A failures \in [{ targets[i].host : i \in DOMAIN targets } -> 0..1] :
    PickTargetWithFailover(SortTargetsByPriority(targets), failures, 1)
      = PickTargetWithFailover(targets, failures, 1)
\* A node that has an IPv4 is dialled over IPv6 only where its group asks for
\* it, of this node; it is out of reach only with no address, or with an IPv6
\* alone where IPv4 is asked for; and one that reports an address more is
\* dialled where it was, or there.
AddressFound ==
  LET at == resolveConnectAddress(exit)
  IN /\ at = "ip6" /\ exit.ip4 => exit.type = "dyn_ip6" \/ exit.v6 = "all"
     /\ at = "" => ~exit.host /\ ~exit.ip4 /\ (exit.ip6 => exit.type = "dyn_ip4")
AddressStays ==
  \A more \in Reports : exit'[more] # exit[more] =>
    resolveConnectAddress(exit') \in {resolveConnectAddress(exit), more}
\* The choice of exits and targets is fair, stable, and what the panel shows.
BalanceFair ==
  /\ [](Proportional /\ ShownAsChosen /\ SortKeepsChoice /\ AddressFound)
  /\ [][FlipsAsProbed /\ ClientsStay /\ AddressStays]_<<balanceVars, exit>>
=============================================================================
