---------------------------- MODULE NodeRelay ----------------------------
(***************************************************************************)
(* What a connection goes through on its entrance node: admission against  *)
(* the limits of its rule and of its user (nodeclient/limits.go), the      *)
(* choice of an exit with failover and health (openAt in tunnel.go,        *)
(* health.go, dialTarget in engine.go), the relay against the user's quota *)
(* and the way out.  Every counter has a lock of its own, held for one     *)
(* update, so connections interleave between any two steps.  Devices are   *)
(* counted as addresses are, and a UDP session as a connection.            *)
(***************************************************************************)
EXTENDS Integers, FiniteSets, FiniteSetsExt, Functions, TLC

CONSTANTS
  Conns,     \* connections
  Setups,    \* configurations of the node, all rules of one user
  User       \* that user, beside the rules

PeersOf(s) == UNION {s.groups[g].peers : g \in DOMAIN s.groups}
\* A peer is another node, never a target of a rule.
ASSUME RelayAssumption ==
  /\ IsFiniteSet(Conns)
  /\ \A s \in Setups :
       /\ IsFiniteSet(s.addresses) /\ User \notin DOMAIN s.route
       /\ s.route \in [DOMAIN s.route -> DOMAIN s.groups \cup {0}]
       /\ \A g \in DOMAIN s.groups : s.groups[g].next \in DOMAIN s.groups \cup {0}
       /\ s.limits \in [DOMAIN s.route \cup {User} -> [conns : Nat, ips : Nat]]
       /\ s.maxConn \in [PeersOf(s) -> Nat] /\ s.targets \cap PeersOf(s) = {}
       /\ s.quota \in Nat

VARIABLES
  setup,  \* the configuration: [addresses, groups (each [peers, next, fails, succs]),
          \* route ([rule -> its exit group, or 0 for its targets]), targets, maxConn
          \* (of a peer, 0 for none), limits (of a rule or the user), quota, ends
          \* (rules a later configuration replaces)], and bounds:
          \* units of traffic the panel counts, or relayed without a quota, and
          \* marks, results of probes and times a peer that is down is tried again
  conn,   \* [connection -> where it is and what it holds]
  usage,  \* usageState of each rule and of the user: connections and addresses
  count,  \* the user's traffic: counted here, told by the panel, really used
  total,  \* the user's traffic the panel knows of
  active, \* [peer or target -> connections through it]
  health, \* [peer or target -> its health]
  ended,  \* rules whose forwarder is closed
  marks   \* bound

relayVars == <<setup, conn, usage, count, total, active, health, ended, marks>>

Addresses == setup.addresses
Groups == setup.groups
Route == setup.route
Rules == DOMAIN Route
Limits == setup.limits
Quota == setup.quota
Peers == PeersOf(setup)
Exits == Peers \cup setup.targets
Out == [pc |-> "out", rule |-> 0, ip |-> 0, group |-> 0, seen |-> {}, todo |-> {}, exit |-> 0]
ConnAt(c, pc) == conn[c].pc = pc
Go(c, pc) == conn' = [conn EXCEPT ![c].pc = pc]

InitRelay ==
  /\ setup \in Setups
  /\ conn = [c \in Conns |-> Out]
  /\ usage = [s \in Rules \cup {User} |-> [n |-> 0, seen |-> [a \in Addresses |-> "no"],
                                           act |-> [a \in Addresses |-> 0]]]
  /\ count = [bytes |-> 0, reported |-> 0, own |-> 0]
  /\ total = 0
  /\ active = [x \in Exits |-> 0]
  /\ health = [x \in Exits |-> [fails |-> 0, succs |-> 0, down |-> FALSE, retry |-> FALSE]]
  /\ ended = {} /\ marks = 0

---------------------------------------------------------------------------
\* Admission

\* acquire: addresses not seen for five minutes and without a connection are
\* forgotten first.
\* Mutant: also those with a connection.
Known_Expired(u) == {a \in Addresses : u.seen[a] = "now"}
Known(u) == {a \in Addresses : u.seen[a] = "now" \/ (u.seen[a] = "long ago" /\ u.act[a] > 0)}
Admits(s, a) ==
  LET u == usage[s] IN
  /\ Limits[s].conns > 0 => u.n < Limits[s].conns
  /\ Limits[s].ips > 0 /\ a \notin Known(u) => Cardinality(Known(u)) < Limits[s].ips
acquire(s, a) ==
  LET u == usage[s] IN
  usage' = [usage EXCEPT ![s] =
    [n |-> u.n + 1, act |-> [u.act EXCEPT ![a] = @ + 1],
     seen |-> [x \in Addresses |-> IF x = a THEN "now" ELSE IF x \in Known(u) THEN u.seen[x] ELSE "no"]]]
release(s, a) ==
  LET u == usage[s] IN
  usage' = [usage EXCEPT ![s] =
    [n |-> u.n - 1, act |-> [u.act EXCEPT ![a] = @ - 1], seen |-> [u.seen EXCEPT ![a] = "now"]]]

Accept(c, r, a) ==
  /\ ConnAt(c, "out") /\ r \notin ended
  /\ conn' = [conn EXCEPT ![c] = [Out EXCEPT !.pc = "accepted", !.rule = r, !.ip = a]]
  /\ UNCHANGED <<usage, count, total, active, health, ended, marks>>

\* admit: the rule's counters, the user's quota, the user's counters.
AdmitRule(c) ==
  /\ ConnAt(c, "accepted")
  /\ IF Admits(conn[c].rule, conn[c].ip)
     THEN acquire(conn[c].rule, conn[c].ip) /\ Go(c, "counted")
     ELSE conn' = [conn EXCEPT ![c] = Out] /\ UNCHANGED usage
  /\ UNCHANGED <<count, total, active, health, ended, marks>>

Exhausted == Quota > 0 /\ count.reported + count.bytes >= Quota
CheckQuota(c) ==
  /\ ConnAt(c, "counted")
  /\ Go(c, IF Exhausted THEN "release rule" ELSE "within quota")
  /\ UNCHANGED <<usage, count, total, active, health, ended, marks>>

AdmitUser(c) ==
  /\ ConnAt(c, "within quota")
  /\ IF Admits(User, conn[c].ip)
     THEN acquire(User, conn[c].ip) /\ Go(c, "admitted")
     ELSE Go(c, "release rule") /\ UNCHANGED usage
  /\ UNCHANGED <<count, total, active, health, ended, marks>>

---------------------------------------------------------------------------
\* The way out.  The peers of a group are filtered once, when the group is
\* entered; how they are ordered depends on the strategy.

isHealthy(x) == ~health[x].down \/ health[x].retry
markHealth(x, ok, threshold) ==
  LET h == health[x] IN
  health' = [health EXCEPT ![x] =
    IF ok THEN [h EXCEPT !.succs = Min({@ + 1, threshold}), !.fails = 0,
                         !.down = @ /\ h.succs + 1 < threshold]
    ELSE IF h.fails + 1 >= threshold
         THEN [fails |-> threshold, succs |-> 0, down |-> TRUE, retry |-> FALSE]
         ELSE [h EXCEPT !.fails = @ + 1, !.succs = 0]]

orderedPeers(g) == {p \in Groups[g].peers : isHealthy(p)}
EnterGroup(c, g) ==
  LET seen == conn[c].seen \cup {g}
      todo == IF g = 0 THEN setup.targets ELSE orderedPeers(g)
  IN conn' = [conn EXCEPT ![c] = [@ EXCEPT !.pc = "choosing", !.group = g, !.seen = seen, !.exit = 0,
                                           !.todo = todo]]

OpenRoute(c) ==
  /\ ConnAt(c, "admitted")
  /\ EnterGroup(c, Route[conn[c].rule])
  /\ UNCHANGED <<usage, count, total, active, health, ended, marks>>

\* reservePeer; a peer that is full is passed over.
reservePeer(c, p) ==
  LET todo == conn[c].todo \ {p} IN
  /\ ConnAt(c, "choosing") /\ conn[c].group # 0 /\ p \in conn[c].todo
  /\ IF setup.maxConn[p] > 0 /\ active[p] >= setup.maxConn[p]
     THEN conn' = [conn EXCEPT ![c].todo = todo] /\ UNCHANGED active
     ELSE /\ active' = [active EXCEPT ![p] = @ + 1]
          /\ conn' = [conn EXCEPT ![c] = [@ EXCEPT !.pc = "dialling", !.exit = p, !.todo = todo]]
  /\ UNCHANGED <<usage, count, total, health, ended, marks>>

\* dialPeer: the peer answers or not; not once the forwarder is closed.
DialPeer(c, ok) ==
  LET p == conn[c].exit IN
  /\ ConnAt(c, "dialling")
  /\ ok => conn[c].rule \notin ended
  /\ IF ok THEN Go(c, "opened") /\ UNCHANGED active
     ELSE /\ active' = [active EXCEPT ![p] = @ - 1]
          /\ conn' = [conn EXCEPT ![c] = [@ EXCEPT !.pc = "choosing", !.exit = 0]]
  /\ LET g == Groups[conn[c].group] IN markHealth(p, ok, IF ok THEN g.succs ELSE g.fails)
  /\ UNCHANGED <<usage, count, total, ended, marks>>

\* The next group of the failover chain, unless it was tried.
Failover_Round(c, g) == IF g = 0 THEN 0 ELSE Groups[g].next  \* Mutant: round and round
Failover(c, g) == IF g = 0 \/ Groups[g].next \in conn[c].seen THEN 0 ELSE Groups[g].next
NextGroup(c) ==
  /\ ConnAt(c, "choosing") /\ conn[c].todo = {}
  /\ LET next == Failover(c, conn[c].group) IN
     IF next = 0 THEN Go(c, "release user") ELSE EnterGroup(c, next)
  /\ UNCHANGED <<usage, count, total, active, health, ended, marks>>

\* dialTarget: a target that is down is passed over when its turn comes.
DialTarget(c, t, ok) ==
  /\ ConnAt(c, "choosing") /\ conn[c].group = 0 /\ t \in conn[c].todo
  /\ ok => conn[c].rule \notin ended /\ isHealthy(t)
  /\ IF ok THEN /\ active' = [active EXCEPT ![t] = @ + 1]
                /\ conn' = [conn EXCEPT ![c] = [@ EXCEPT !.pc = "opened", !.exit = t]]
     ELSE conn' = [conn EXCEPT ![c].todo = @ \ {t}] /\ UNCHANGED active
  /\ IF isHealthy(t) THEN markHealth(t, ok, 1) ELSE UNCHANGED health
  /\ UNCHANGED <<usage, count, total, ended, marks>>

\* The way out is tracked, unless the forwarder was closed meanwhile.
Track(c) ==
  /\ ConnAt(c, "opened")
  /\ Go(c, IF conn[c].rule \in ended THEN "release exit" ELSE "relaying")
  /\ UNCHANGED <<usage, count, total, active, health, ended, marks>>

---------------------------------------------------------------------------
\* The relay.  consume: n units, multiplied, against the quota.

Relay(c, n) ==
  /\ ConnAt(c, "relaying") /\ conn[c].rule \notin ended
  /\ Quota = 0 => count.own + n <= setup.units
  /\ IF Exhausted \/ (Quota > 0 /\ n > Quota - count.reported - count.bytes)
     THEN Go(c, "release exit") /\ UNCHANGED count
     ELSE count' = [count EXCEPT !.bytes = @ + n, !.own = @ + n] /\ UNCHANGED conn
  /\ UNCHANGED <<usage, total, active, health, ended, marks>>

\* Either end closes, or the forwarder is closed.
StopRelay(c) ==
  /\ ConnAt(c, "relaying")
  /\ Go(c, "release exit")
  /\ UNCHANGED <<usage, count, total, active, health, ended, marks>>

\* release, then admission.close: the rule first.
ReleaseExit(c) ==
  /\ ConnAt(c, "release exit")
  /\ active' = [active EXCEPT ![conn[c].exit] = @ - 1]
  /\ Go(c, "release user")
  /\ UNCHANGED <<usage, count, total, health, ended, marks>>
ReleaseBoth(c) ==
  /\ ConnAt(c, "release user")
  /\ release(conn[c].rule, conn[c].ip)
  /\ Go(c, "user left")
  /\ UNCHANGED <<count, total, active, health, ended, marks>>
ReleaseUser(c) ==
  /\ ConnAt(c, "user left")
  /\ release(User, conn[c].ip)
  /\ conn' = [conn EXCEPT ![c] = Out]
  /\ UNCHANGED <<count, total, active, health, ended, marks>>
ReleaseRule(c) ==
  /\ ConnAt(c, "release rule")
  /\ release(conn[c].rule, conn[c].ip)
  /\ conn' = [conn EXCEPT ![c] = Out]
  /\ UNCHANGED <<count, total, active, health, ended, marks>>

---------------------------------------------------------------------------
\* Around the connections

\* syncUsed: a configuration brings the panel's total.  A smaller one means
\* that the traffic was reset.
syncUsed ==
  /\ count' = IF total < count.reported THEN [bytes |-> 0, reported |-> total, own |-> 0]
              ELSE [count EXCEPT !.bytes = Max({0, count.bytes - (total - count.reported)}),
                                 !.reported = total]
  /\ UNCHANGED <<conn, usage, total, active, health, ended, marks>>

\* The panel counts what this node and others report, and starts again.
PanelCounts(n) ==
  /\ total + n <= setup.units
  /\ total' = total + n
  /\ UNCHANGED <<conn, usage, count, active, health, ended, marks>>
ResetTraffic ==
  /\ total > 0 /\ total' = 0
  /\ UNCHANGED <<conn, usage, count, active, health, ended, marks>>

\* Five minutes pass since an address was last seen (of no consequence where
\* addresses are not limited).
Age(s, a) ==
  /\ Limits[s].ips > 0 /\ usage[s].seen[a] = "now"
  /\ usage' = [usage EXCEPT ![s].seen[a] = "long ago"]
  /\ UNCHANGED <<conn, count, total, active, health, ended, marks>>

\* healthLoop, and the time after which a peer that is down is tried again.
Probe(g, p, ok) ==
  /\ marks < setup.marks /\ marks' = marks + 1
  /\ p \in Groups[g].peers
  /\ markHealth(p, ok, IF ok THEN Groups[g].succs ELSE Groups[g].fails)
  /\ UNCHANGED <<conn, usage, count, total, active, ended>>
RetryTime(x) ==
  /\ marks < setup.marks /\ marks' = marks + 1
  /\ health[x].down /\ ~health[x].retry
  /\ health' = [health EXCEPT ![x].retry = TRUE]
  /\ UNCHANGED <<conn, usage, count, total, active, ended>>

\* Apply replaces or removes the rule: its forwarder is closed.
CloseForwarder(r) ==
  /\ r \in setup.ends \ ended
  /\ ended' = ended \cup {r}
  /\ UNCHANGED <<conn, usage, count, total, active, health, marks>>

ConnStep(c) ==
  \/ AdmitRule(c) \/ CheckQuota(c) \/ AdmitUser(c) \/ OpenRoute(c) \/ NextGroup(c) \/ Track(c)
  \/ \E p \in Peers : reservePeer(c, p)
  \/ \E ok \in BOOLEAN : DialPeer(c, ok) \/ \E t \in setup.targets : DialTarget(c, t, ok)
  \/ ReleaseExit(c) \/ ReleaseBoth(c) \/ ReleaseUser(c) \/ ReleaseRule(c)
RelayStep ==
  \/ \E c \in Conns :
       \/ ConnStep(c) \/ StopRelay(c) \/ \E n \in {1, 2} : Relay(c, n)
       \/ \E r \in Rules, a \in Addresses : Accept(c, r, a)
  \/ syncUsed \/ ResetTraffic \/ \E n \in {1, 2} : PanelCounts(n)
  \/ \E s \in DOMAIN usage, a \in Addresses : Age(s, a)
  \/ \E g \in DOMAIN Groups, p \in Peers, ok \in BOOLEAN : Probe(g, p, ok)
  \/ \E x \in Exits : RetryTime(x)
  \/ \E r \in Rules : CloseForwarder(r)

NextRelay == RelayStep /\ UNCHANGED setup

RelaySpec == InitRelay /\ [][NextRelay]_relayVars
\* A goroutine that can run does; a closed forwarder's connections are closed.
FairRelay ==
  \A c \in Conns : /\ WF_relayVars(ConnStep(c) /\ UNCHANGED setup)
                   /\ WF_relayVars(StopRelay(c) /\ conn[c].rule \in ended /\ UNCHANGED setup)

---------------------------------------------------------------------------
\* Properties

HoldsRule(c) == conn[c].pc \notin {"out", "accepted", "user left"}
HoldsUser(c) ==
  conn[c].pc \in {"admitted", "choosing", "dialling", "opened", "relaying",
                  "release exit", "release user", "user left"}
HoldsExit(c) == conn[c].pc \in {"dialling", "opened", "relaying", "release exit"}
Of(s, c) == IF s = User THEN HoldsUser(c) ELSE HoldsRule(c) /\ conn[c].rule = s

\* Each counter is the number of connections that hold it, on whatever path
\* they were turned away, failed over, were cut or ended.
Balanced ==
  /\ \A s \in Rules \cup {User} :
       /\ usage[s].n = Cardinality({c \in Conns : Of(s, c)})
       /\ \A a \in Addresses :
            usage[s].act[a] = Cardinality({c \in Conns : Of(s, c) /\ conn[c].ip = a})
  /\ \A x \in Exits :
       active[x] = Cardinality({c \in Conns : HoldsExit(c) /\ conn[c].exit = x})

\* No limit is exceeded, of connections or of addresses in use, of a rule, of
\* a user over all rules, or of an exit node.
LimitsHold ==
  /\ \A s \in Rules \cup {User} :
       /\ Limits[s].conns > 0 => Cardinality({c \in Conns : Of(s, c)}) <= Limits[s].conns
       /\ Limits[s].ips > 0 =>
            Cardinality({conn[c].ip : c \in {x \in Conns : Of(s, x)}}) <= Limits[s].ips
  /\ \A p \in Peers : setup.maxConn[p] > 0 =>
       Cardinality({c \in Conns : HoldsExit(c) /\ conn[c].exit = p}) <= setup.maxConn[p]

\* The estimate against which the quota is enforced never falls below what
\* this node forwarded since the last reset it was told of, nor below the
\* panel's total, however reports, the traffic of other nodes and
\* configurations are ordered; so the node alone never exceeds the quota.
QuotaEnforced ==
  /\ count.own <= count.reported + count.bytes
  /\ Quota > 0 => count.own <= Quota

\* A client that is admitted leaves: once its forwarder is closed, every
\* connection of the rule gives back all it holds.
Drains == \A c \in Conns : conn[c].rule \in ended ~> ConnAt(c, "out")

\* Counters, limits and quota hold together: a count that is not given back
\* refuses the next connection, one given back twice admits too many.
LimitsRespected == Balanced /\ LimitsHold /\ QuotaEnforced
==========================================================================
