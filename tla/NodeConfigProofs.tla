-------------------------- MODULE NodeConfigProofs --------------------------
(***************************************************************************)
(* That the panel and its nodes agree is proved here for any tables that   *)
(* requests served one after the other leave, from the invariant of the    *)
(* registry (RegistryProofs).                                              *)
(*                                                                         *)
(* Everything a node is sent, and everything it checks, is a set of groups *)
(* with the failover groups behind them.  Such a set is the least one that *)
(* holds what it starts from and is closed: following failover groups as   *)
(* many times as there are groups leaves none out, because each time but   *)
(* the last finds one more.  So what the sender follows, as far as it      *)
(* knows the groups, the receiver, who knows those of the whole rule,      *)
(* follows too.                                                            *)
(***************************************************************************)
EXTENDS NodeConfig, RegistryProofs

---------------------------------------------------------------------------
\* Groups and the failover groups behind them

\* The groups followed once, twice and so on exist as a function.
LEMMA ReachedInTurn ==
  ASSUME NEW ids, NEW known, IsFiniteSet(known), NEW n, n = Cardinality(known),
         NEW h, h = Reached(ids, known)
  PROVE  /\ n \in Nat /\ h[0] = ids \ {0}
         /\ \A k \in 1..n : h[k] = h[k - 1] \cup Onward(h[k - 1], known)
<1> DEFINE Step(f, k) == IF k = 0 THEN ids \ {0} ELSE f[k - 1] \cup Onward(f[k - 1], known)
           Undone == {m \in Nat : ~\E f : f = [k \in 0..m |-> Step(f, k)]}
<1>1. Undone = {}
  <2>1. SUFFICES ASSUME Undone # {} PROVE FALSE
    OBVIOUS
  <2>2. PICK m \in Undone : \A k \in Undone : m <= k
    BY <2>1, Least
  <2>3. m # 0
    <3>1. PICK f : f = [k \in 0..0 |-> ids \ {0}]
      OBVIOUS
    <3>2. f = [k \in 0..0 |-> Step(f, k)]
      BY <3>1
    <3> HIDE DEF Step
    <3> QED BY <3>2
  <2>4. m - 1 \in Nat /\ m - 1 \notin Undone
    <3> HIDE DEF Step
    <3>1. m \in Nat
      OBVIOUS
    <3>2. m - 1 \in Nat /\ ~(m <= m - 1)
      BY <2>3, <3>1
    <3> HIDE DEF Undone
    <3> QED BY <2>2, <3>2
  <2>5. PICK f : f = [k \in 0..(m - 1) |-> Step(f, k)]
    <3> HIDE DEF Step
    <3> QED BY <2>4
  <2>6. PICK g : g = [k \in 0..m |-> IF k = m THEN Step(f, m) ELSE f[k]]
    OBVIOUS
  <2>7. ASSUME NEW k \in 0..m PROVE g[k] = Step(g, k)
    <3>1. \A j \in 0..(m - 1) : g[j] = f[j]
      BY <2>4, <2>6
    <3>2. Step(g, k) = Step(f, k)
      <4>1. k # 0 => k - 1 \in 0..(m - 1)
        OBVIOUS
      <4> QED BY <3>1, <4>1
    <3>3. CASE k = m
      BY <2>6, <3>2, <3>3
    <3>4. CASE k # m
      <4>1. k \in 0..(m - 1)
        BY <2>4, <3>4
      <4> HIDE DEF Step
      <4> QED BY <2>5, <2>6, <3>2, <3>4, <4>1
    <3> QED BY <3>3, <3>4
  <2>8. g = [k \in 0..m |-> Step(g, k)]
    <3> HIDE DEF Step
    <3> QED BY <2>6, <2>7
  <2> HIDE DEF Step
  <2> QED BY <2>8
<1>2. n \in Nat
  BY FS_CardinalityType
<1>3. \E f : f = [k \in 0..n |-> Step(f, k)]
  <2> HIDE DEF Step
  <2> QED BY <1>1, <1>2
<1>4. h = CHOOSE f : f = [k \in 0..n |-> Step(f, k)]
  BY DEF Reached
<1>5. h = [k \in 0..n |-> Step(h, k)]
  <2> HIDE DEF Step
  <2> QED BY <1>3, <1>4
<1>6. \A k \in 0..n : h[k] = Step(h, k)
  <2> HIDE DEF Step
  <2> QED BY <1>5
<1>7. 0 \in 0..n /\ \A k \in 1..n : k \in 0..n /\ k # 0
  BY <1>2
<1> QED BY <1>2, <1>6, <1>7

\* Following the failover groups leaves no set that is closed.
LEMMA BehindLeast ==
  ASSUME NEW ids, NEW known, IsFiniteSet(known), NEW S, ids \ {0} \subseteq S, Onward(S, known) \subseteq S
  PROVE  Behind(ids, known) \subseteq S
<1>1. PICK n : n = Cardinality(known)
  OBVIOUS
<1>2. PICK h : h = Reached(ids, known)
  OBVIOUS
<1>3. /\ n \in Nat /\ h[0] = ids \ {0}
      /\ \A k \in 1..n : h[k] = h[k - 1] \cup Onward(h[k - 1], known)
  BY <1>1, <1>2, ReachedInTurn
<1>4. ASSUME NEW T, T \subseteq S PROVE T \cup Onward(T, known) \subseteq S
  BY <1>4 DEF Onward
<1> DEFINE Outside == {k \in 0..n : ~(h[k] \subseteq S)}
<1>5. Outside = {}
  <2>1. SUFFICES ASSUME Outside # {} PROVE FALSE
    OBVIOUS
  <2>2. Outside \in SUBSET Nat
    BY <1>3
  <2>3. PICK m \in Outside : \A k \in Outside : m <= k
    <3> HIDE DEF Outside
    <3> QED BY <2>1, <2>2, Least
  <2>4. m \in 1..n /\ m - 1 \in 0..n /\ ~(m <= m - 1)
    BY <1>3
  <2>5. h[m - 1] \subseteq S
    BY <2>3, <2>4
  <2>6. h[m] \subseteq S
    BY <1>3, <1>4, <2>4, <2>5
  <2> QED BY <2>6
<1>6. n \in 0..n
  BY <1>3
<1> QED BY <1>1, <1>2, <1>5, <1>6 DEF Behind

\* ... but holds where it started from, and is closed itself.
LEMMA BehindClosed ==
  ASSUME NEW ids, NEW known, IsFiniteSet(known), NEW B, B = Behind(ids, known)
  PROVE  ids \ {0} \subseteq B /\ Onward(B, known) \subseteq B
<1>1. PICK n : n = Cardinality(known)
  OBVIOUS
<1>2. PICK h : h = Reached(ids, known)
  OBVIOUS
<1>3. /\ n \in Nat /\ h[0] = ids \ {0}
      /\ \A k \in 1..n : h[k] = h[k - 1] \cup Onward(h[k - 1], known)
  BY <1>1, <1>2, ReachedInTurn
<1>4. B = h[n] /\ n \in 0..n
  BY <1>1, <1>2, <1>3 DEF Behind
<1>5. \A T : IsFiniteSet(T \cap known) /\ Cardinality(T \cap known) \in Nat
  BY FS_Intersection, FS_CardinalityType
<1> DEFINE Closed(T) == Onward(T, known) \subseteq T
           Good(k) == ids \ {0} \subseteq h[k] /\ (Closed(h[k]) \/ Cardinality(h[k] \cap known) > k)
           Bad == {k \in 0..n : ~Good(k)}
<1>6. Bad = {}
  <2>1. SUFFICES ASSUME Bad # {} PROVE FALSE
    OBVIOUS
  <2>2. PICK m \in Bad : \A k \in Bad : m <= k
    <3>1. Bad \in SUBSET Nat
      BY <1>3
    <3> HIDE DEF Bad
    <3> QED BY <2>1, <3>1, Least
  <2>3. m \in 0..n /\ ~Good(m)
    BY <2>2
  <2>4. CASE m = 0
    <3>1. CASE h[0] \cap known = {}
      <4>1. Closed(h[0])
        BY <3>1 DEF Onward
      <4> QED BY <1>3, <2>3, <2>4, <4>1
    <3>2. CASE h[0] \cap known # {}
      <4>1. Cardinality(h[0] \cap known) # 0
        BY <1>5, <3>2, FS_EmptySet
      <4>2. Cardinality(h[0] \cap known) > 0
        BY <1>5, <4>1
      <4> QED BY <1>3, <2>3, <2>4, <4>2
    <3> QED BY <3>1, <3>2
  <2>5. CASE m # 0
    <3>1. m \in 1..n /\ m - 1 \in 0..n /\ ~(m <= m - 1)
      BY <1>3, <2>3, <2>5
    <3>2. Good(m - 1)
      <4> HIDE DEF Good
      <4> QED BY <2>2, <3>1
    <3>3. PICK T : T = h[m - 1]
      OBVIOUS
    <3>4. PICK U : U = h[m]
      OBVIOUS
    <3>5. U = T \cup Onward(T, known) /\ ids \ {0} \subseteq T
      BY <1>3, <3>1, <3>2, <3>3, <3>4
    <3>6. CASE Closed(T)
      <4>1. U = T
        BY <3>5, <3>6
      <4> QED BY <2>3, <3>4, <3>5, <3>6, <4>1
    <3>7. CASE ~Closed(T) /\ U \cap known = T \cap known
      <4>1. Onward(U, known) = Onward(T, known)
        BY <3>7 DEF Onward
      <4>2. Closed(U)
        BY <3>5, <4>1
      <4> QED BY <2>3, <3>4, <3>5, <4>2
    <3>8. CASE ~Closed(T) /\ U \cap known # T \cap known
      <4>1. Cardinality(T \cap known) > m - 1
        BY <3>2, <3>3, <3>8
      <4>2. T \cap known \in SUBSET (U \cap known)
        BY <3>5
      <4>3. /\ Cardinality(T \cap known) <= Cardinality(U \cap known)
            /\ Cardinality(U \cap known) # Cardinality(T \cap known)
        BY <1>5, <3>8, <4>2, FS_Subset
      <4>4. PICK a \in Nat, b \in Nat : a = Cardinality(T \cap known) /\ b = Cardinality(U \cap known)
        BY <1>5
      <4>5. b > m
        <5>1. a > m - 1 /\ a <= b /\ b # a /\ m \in Nat
          BY <1>3, <2>3, <4>1, <4>3, <4>4
        <5> QED BY <5>1
      <4> QED BY <2>3, <3>4, <3>5, <4>4, <4>5
    <3> QED BY <3>6, <3>7, <3>8
  <2> QED BY <2>4, <2>5
<1>7. Good(n)
  <2> HIDE DEF Good
  <2> QED BY <1>4, <1>6
<1>8. ~(Cardinality(h[n] \cap known) > n)
  <2>1. Cardinality(h[n] \cap known) <= Cardinality(known)
    BY FS_Intersection
  <2> QED BY <1>1, <1>3, <1>5, <2>1
<1> QED BY <1>4, <1>7, <1>8

---------------------------------------------------------------------------
\* The way of a rule, and the groups a node is sent

\* The hops of a chain are all on the way, and nothing else is.
LEMMA ChainInOrder ==
  ASSUME NEW r, r.chain \in Hops, r.chain # {}, Cardinality(r.chain) \in 2..3,
         NEW way, way = routePath(r)
  PROVE  /\ way \in [1..Cardinality(r.chain) -> r.chain] /\ Len(way) = Cardinality(r.chain)
         /\ ToSet(way) = r.chain
<1>1. PICK c : c = r.chain
  OBVIOUS
<1>2. PICK n : n = Cardinality(c)
  OBVIOUS
<1>3. IsFiniteSet(c) /\ n \in Nat /\ c \in SUBSET Nat
  BY <1>1, <1>2 DEF Hops
<1>4. way = CHOOSE f \in [1..n -> c] : IsInjective(f)
  BY <1>1, <1>2 DEF routePath, SetToSeq
<1>5. \E f \in [1..n -> c] : IsInjective(f)
  <2>1. ExistsBijection(1..n, c)
    BY <1>2, <1>3, FS_CardinalityType
  <2> QED BY <2>1 DEF ExistsBijection, Bijection, Injection, IsInjective
<1>6. way \in [1..n -> c] /\ IsInjective(way)
  BY <1>4, <1>5
<1>7. way \in Surjection(1..n, c)
  <2>1. way \in Injection(1..n, c)
    BY <1>6 DEF Injection, IsInjective
  <2>2. IsFiniteSet(1..n) /\ Cardinality(1..n) = n
    BY <1>3, FS_Interval
  <2> QED BY <1>2, <1>3, <2>1, <2>2, FS_Injection
<1>8. ToSet(way) = c
  BY <1>6, <1>7 DEF ToSet, Surjection
<1>9. Len(way) = n
  BY <1>3, <1>6
<1> QED BY <1>1, <1>2, <1>6, <1>8, <1>9

\* The groups are finitely many, and none has the identifier 0.
LEMMA FinitelyMany ==
  ASSUME TypeOK
  PROVE  IsFiniteSet(DOMAIN groups) /\ 0 \notin DOMAIN groups
<1>1. DOMAIN groups \subseteq 1..issued.groups /\ issued.groups \in Nat
  BY DEF TypeOK, GroupTable, Counters
<1>2. IsFiniteSet(1..issued.groups)
  BY <1>1, FS_Interval
<1> QED BY <1>1, <1>2, FS_Subset

\* A node is sent the groups it is in, and of each of its rules all the groups.
LEMMA SentToNode ==
  ASSUME TypeOK, NEW n, NEW known, known = deviceGroupConfigs(n)
  PROVE  /\ known \subseteq DOMAIN groups /\ IsFiniteSet(known)
         /\ \A g \in DOMAIN groups : n \in groups[g].members => g \in known
         /\ \A id \in rulesForNode(n) : RuleGroupIDs(rules[id]) \cap DOMAIN groups \subseteq known
<1>1. IsFiniteSet(DOMAIN groups) /\ 0 \notin DOMAIN groups
  BY FinitelyMany
<1>2. PICK first : first = {g \in DOMAIN groups : n \in groups[g].members}
                             \cup UNION {RuleGroupIDs(rules[id]) : id \in rulesForNode(n)}
  OBVIOUS
<1>3. PICK all : all = Behind(first, DOMAIN groups)
  OBVIOUS
<1>4. known = DOMAIN groups \cap all
  BY <1>2, <1>3 DEF deviceGroupConfigs
<1>5. first \ {0} \subseteq all
  BY <1>1, <1>3, BehindClosed
<1>6. known \subseteq DOMAIN groups /\ IsFiniteSet(known)
  BY <1>1, <1>4, FS_Subset
<1> QED BY <1>1, <1>2, <1>4, <1>5, <1>6

\* The groups of a rule are those it names and all that is behind them.
LEMMA RuleWhole ==
  ASSUME TypeOK, NEW r, NEW all, all = RuleGroupIDs(r)
  PROVE  /\ ({r.in} \cup ToSet(routePath(r))) \ {0} \subseteq all
         /\ Onward(all, DOMAIN groups) \subseteq all
  BY FinitelyMany, BehindClosed DEF RuleGroupIDs

\* Behind outbound groups are only outbound groups.
LEMMA OutBehind ==
  ASSUME TypeOK, FailsOverOutbound(groups), NEW known, known \subseteq DOMAIN groups, NEW ids,
         \A g \in ids \ {0} : Out(g, groups)
  PROVE  \A g \in Behind(ids, known) : Out(g, groups)
<1>1. PICK S : S = {g \in DOMAIN groups : Out(g, groups)}
  OBVIOUS
<1>2. IsFiniteSet(known)
  BY FinitelyMany, FS_Subset
<1>3. ids \ {0} \subseteq S
  BY <1>1 DEF Out
<1>4. Onward(S, known) \subseteq S
  BY <1>1 DEF Onward, FailsOverOutbound, Out
<1>5. Behind(ids, known) \subseteq S
  BY <1>2, <1>3, <1>4, BehindLeast
<1> QED BY <1>1, <1>5

\* What the tables say that the nodes rely on.
RoutesFit ==
  /\ TypeOK
  /\ ListensInbound(rules, groups) /\ RefersOutbound(rules, groups) /\ FailsOverOutbound(groups)
  /\ ChainsShort(rules)

\* The way of a rule is a chain, one group, or none.
LEMMA WayFits ==
  ASSUME RoutesFit, NEW id \in DOMAIN rules, NEW r, r = rules[id], NEW way, way = routePath(r)
  PROVE  /\ r.in \in DOMAIN groups /\ ~Out(r.in, groups) /\ r.in # 0
         /\ DOMAIN way = 1..Len(way) /\ Len(way) \in Nat
         /\ \A i \in DOMAIN way : way[i] \in ToSet(way) /\ Out(way[i], groups) /\ way[i] # 0
         /\ r.chain # {} => ToSet(way) = r.chain /\ Len(way) # 1
         /\ r.chain = {} /\ r.rev # 0 => way = <<r.rev>>
<1>1. /\ r \in ForwardRule /\ \A g \in ({r.out, r.rev} \ {0}) \cup r.chain : Out(g, groups)
      /\ r.in \in DOMAIN groups /\ groups[r.in].type = "inbound"
      /\ r.chain # {} => Cardinality(r.chain) \in 2..3
  BY DEF RoutesFit, TypeOK, RuleTable, ListensInbound, RefersOutbound, ChainsShort
<1>2. 0 \notin DOMAIN groups
  BY FinitelyMany DEF RoutesFit
<1>3. r.in \in DOMAIN groups /\ ~Out(r.in, groups) /\ r.in # 0
  BY <1>1, <1>2 DEF Out
<1>4. \A g : Out(g, groups) => g # 0
  BY <1>2 DEF Out
<1>5. CASE r.chain # {}
  <2>1. PICK n : n = Cardinality(r.chain)
    OBVIOUS
  <2>2. way \in [1..n -> r.chain] /\ Len(way) = n /\ ToSet(way) = r.chain /\ n \in 2..3
    <3>1. r.chain \in Hops
      BY <1>1 DEF ForwardRule
    <3> QED BY <1>1, <1>5, <2>1, <3>1, ChainInOrder
  <2>3. \A i \in DOMAIN way : way[i] \in r.chain
    BY <2>2
  <2> QED BY <1>1, <1>3, <1>4, <1>5, <2>2, <2>3
<1>6. CASE r.chain = {} /\ way = <<>>
  <2>1. r.rev = 0
    BY <1>6 DEF routePath
  <2> QED BY <1>3, <1>6, <2>1
<1>7. CASE r.chain = {} /\ way # <<>>
  <2>1. PICK g : way = <<g>> /\ Out(g, groups) /\ (r.rev # 0 => g = r.rev)
    BY <1>1, <1>7 DEF routePath
  <2> QED BY <1>3, <1>4, <1>7, <2>1 DEF ToSet
<1> QED BY <1>5, <1>6, <1>7

---------------------------------------------------------------------------
\* Requests are answered, and configurations are taken

\* Who the sender of a request is, and who receives it.
LEMMA RequestOf ==
  ASSUME NEW id, NEW q \in Requests(id), NEW r, r = rules[id], NEW way, way = routePath(r)
  PROVE  /\ q.rule = id /\ q.hop \in DOMAIN way
         /\ q.from \in Members(groups[IF q.hop = 1 THEN r.in ELSE way[q.hop - 1]])
         /\ q.path \in PathsOf(r, deviceGroupConfigs(q.from))
         /\ q.to \in Members(groups[q.path[q.hop]])
<1>1. PICK hop \in DOMAIN way :
        q \in UNION {UNION {{[rule |-> id, path |-> path, hop |-> hop, from |-> n, to |-> p] :
                                p \in Members(groups[path[hop]])} :
                              path \in PathsOf(r, deviceGroupConfigs(n))} :
                       n \in Senders(r, hop)}
  BY DEF Requests
<1>2. PICK n \in Senders(r, hop) :
        q \in UNION {{[rule |-> id, path |-> path, hop |-> hop, from |-> n, to |-> p] :
                         p \in Members(groups[path[hop]])} :
                       path \in PathsOf(r, deviceGroupConfigs(n))}
  BY <1>1
<1>3. PICK path \in PathsOf(r, deviceGroupConfigs(n)) :
        \E p \in Members(groups[path[hop]]) :
          q = [rule |-> id, path |-> path, hop |-> hop, from |-> n, to |-> p]
  BY <1>2
<1>4. PICK p \in Members(groups[path[hop]]) :
        q = [rule |-> id, path |-> path, hop |-> hop, from |-> n, to |-> p]
  BY <1>3
<1>5. q.rule = id /\ q.hop = hop /\ q.path = path /\ q.from = n /\ q.to = p
  BY <1>4
<1> QED BY <1>1, <1>2, <1>3, <1>4, <1>5 DEF Senders

\* A receiver that is sent the rule follows every failover group that a sender
\* followed, however little that one was sent.
LEMMA FollowedToo ==
  ASSUME TypeOK, NEW r, NEW g, g # 0, g \in ToSet(routePath(r)), NEW few, few \subseteq DOMAIN groups,
         NEW known, IsFiniteSet(known), RuleGroupIDs(r) \cap DOMAIN groups \subseteq known
  PROVE  /\ Behind({g}, few) \subseteq RuleGroupIDs(r)
         /\ Behind({g}, few) \cap few \subseteq Behind({g}, known)
<1>1. PICK all : all = RuleGroupIDs(r)
  OBVIOUS
<1>2. g \in all /\ Onward(all, DOMAIN groups) \subseteq all
  BY <1>1, RuleWhole
<1>3. IsFiniteSet(few)
  BY FinitelyMany, FS_Subset
<1>4. PICK B : B = Behind({g}, known)
  OBVIOUS
<1>5. g \in B /\ Onward(B, known) \subseteq B
  BY <1>4, BehindClosed
<1>6. Onward(all \cap B, few) \subseteq all \cap B
  <2>1. SUFFICES ASSUME NEW x \in (all \cap B) \cap few, groups[x].failover # 0
                 PROVE  groups[x].failover \in all \cap B
    BY DEF Onward
  <2>2. x \in DOMAIN groups /\ x \in known
    BY <1>1
  <2> QED BY <1>2, <1>5, <2>1, <2>2 DEF Onward
<1>7. Behind({g}, few) \subseteq all \cap B
  BY <1>2, <1>3, <1>5, <1>6, BehindLeast
<1> QED BY <1>1, <1>4, <1>7

\* Every request is answered.
LEMMA Answered ==
  ASSUME RoutesFit, NEW id \in DOMAIN rules, NEW q \in Requests(id)
  PROVE  authenticate(q)
<1>1. PICK r : r = rules[id]
  OBVIOUS
<1>2. PICK way : way = routePath(r)
  OBVIOUS
<1>3. PICK few : few = deviceGroupConfigs(q.from)
  OBVIOUS
<1>4. PICK known : known = deviceGroupConfigs(q.to)
  OBVIOUS
<1>5. PICK last : last = IF q.hop = 1 THEN r.in ELSE way[q.hop - 1]
  OBVIOUS
<1>6. /\ q.rule = id /\ q.hop \in DOMAIN way
      /\ q.from \in Members(groups[last]) /\ q.to \in Members(groups[q.path[q.hop]])
      /\ q.path \in PathsOf(r, few)
  BY <1>1, <1>2, <1>3, <1>5, RequestOf
<1>7. /\ r.in \in DOMAIN groups /\ ~Out(r.in, groups) /\ r.in # 0
      /\ DOMAIN way = 1..Len(way) /\ Len(way) \in Nat
      /\ \A i \in DOMAIN way : way[i] \in ToSet(way) /\ Out(way[i], groups) /\ way[i] # 0
  BY <1>1, <1>2, WayFits
<1>8. TypeOK /\ FailsOverOutbound(groups)
  BY DEF RoutesFit
<1>9. few \subseteq DOMAIN groups /\ known \subseteq DOMAIN groups /\ IsFiniteSet(known)
  BY <1>3, <1>4, <1>8, SentToNode
<1>10. PICK all : all = RuleGroupIDs(r)
  OBVIOUS
<1>11. r.in \in all /\ ToSet(way) \ {0} \subseteq all
  BY <1>2, <1>7, <1>8, <1>10, RuleWhole
<1>12. PICK g : g = q.path[q.hop]
  OBVIOUS
<1>13. g \in all /\ Out(g, groups)
  <2>1. CASE Len(way) = 1
    <3>1. q.path \in {<<x>> : x \in Behind({way[1]}, few) \cap few} /\ q.hop = 1
      BY <1>2, <1>6, <1>7, <2>1 DEF PathsOf
    <3>2. g \in Behind({way[1]}, few) /\ way[1] \in ToSet(way) /\ Out(way[1], groups) /\ way[1] # 0
      BY <1>7, <1>12, <2>1, <3>1
    <3>3. g \in all
      <4>1. IsFiniteSet(DOMAIN groups) /\ RuleGroupIDs(r) \cap DOMAIN groups \subseteq DOMAIN groups
        BY <1>8, FinitelyMany
      <4> QED BY <1>2, <1>8, <1>9, <1>10, <3>2, <4>1, FollowedToo
    <3>4. Out(g, groups)
      BY <1>8, <1>9, <3>2, OutBehind
    <3> QED BY <3>3, <3>4
  <2>2. CASE Len(way) # 1
    <3>1. q.path = way
      BY <1>2, <1>6, <1>7, <2>2 DEF PathsOf
    <3> QED BY <1>6, <1>7, <1>11, <1>12, <3>1
  <2> QED BY <2>1, <2>2
<1>14. g \in DOMAIN groups /\ q.to \in groups[g].members /\ g # r.in
  BY <1>6, <1>7, <1>12, <1>13 DEF Out, Members
<1>15. OutboundAt(r, q.to)
  BY <1>10, <1>13, <1>14 DEF OutboundAt
<1>16. all \cap DOMAIN groups \subseteq known /\ g \in known
  <2>1. id \in rulesForNode(q.to)
    BY <1>1, <1>15 DEF rulesForNode
  <2> QED BY <1>1, <1>4, <1>8, <1>10, <1>14, <2>1, SentToNode
<1>17. last \in known /\ q.from \in groups[last].members
  <2>1. CASE q.hop = 1
    BY <1>5, <1>6, <1>7, <1>11, <1>16, <2>1 DEF Members
  <2>2. CASE q.hop # 1
    <3>1. q.hop - 1 \in DOMAIN way
      BY <1>6, <1>7, <2>2
    <3> QED BY <1>5, <1>6, <1>7, <1>11, <1>16, <2>2, <3>1 DEF Members, Out
  <2> QED BY <2>1, <2>2
<1>18. validPath(r, q.path, known)
  <2>1. CASE Len(way) = 1
    <3>1. PICK x \in Behind({way[1]}, few) \cap few : q.path = <<x>>
      BY <1>2, <1>6, <1>7, <2>1 DEF PathsOf
    <3>2. x \in Behind({way[1]}, known)
      BY <1>2, <1>7, <1>8, <1>9, <1>10, <1>16, <2>1, <3>1, FollowedToo
    <3> QED BY <1>2, <2>1, <3>1, <3>2 DEF validPath
  <2>2. CASE Len(way) # 1
    <3>1. q.path = way
      BY <1>2, <1>6, <1>7, <2>2 DEF PathsOf
    <3> QED BY <1>2, <2>2, <3>1 DEF validPath
  <2> QED BY <2>1, <2>2
<1>19. q.hop = 1 \/ q.path[q.hop - 1] = way[q.hop - 1]
  <2>1. CASE Len(way) = 1
    BY <1>6, <1>7, <2>1
  <2>2. CASE Len(way) # 1
    BY <1>2, <1>6, <1>7, <2>2 DEF PathsOf
  <2> QED BY <2>1, <2>2
<1>20. last = IF q.hop = 1 THEN r.in ELSE q.path[q.hop - 1]
  BY <1>5, <1>19
<1> QED BY <1>1, <1>4, <1>6, <1>12, <1>14, <1>15, <1>16, <1>17, <1>18, <1>20 DEF authenticate, member

\* An entrance takes what the exit of a reversed rule opens.
LEMMA ReverseAnswered ==
  ASSUME RoutesFit, NEW id \in DOMAIN rules
  PROVE  ReverseAuthorized(id)
<1>1. PICK r : r = rules[id]
  OBVIOUS
<1>2. SUFFICES ASSUME r.rev # 0, r.chain = {}, NEW n \in Members(groups[r.in])
               PROVE  /\ InboundAt(r, n)
                      /\ \A x \in Members(groups[r.rev]) : member(deviceGroupConfigs(n), r.rev, x)
  BY <1>1 DEF ReverseAuthorized
<1>3. PICK way : way = routePath(r)
  OBVIOUS
<1>4. r.in \in DOMAIN groups /\ way = <<r.rev>> /\ Out(way[1], groups)
  BY <1>1, <1>2, <1>3, WayFits
<1>5. InboundAt(r, n)
  BY <1>2, <1>4 DEF InboundAt, Members
<1>6. r.rev \in deviceGroupConfigs(n)
  <2>1. r.rev \in ToSet(way) /\ r.rev \in DOMAIN groups
    BY <1>4 DEF ToSet, Out
  <2>2. r.rev \in RuleGroupIDs(r)
    BY <1>2, <1>3, <2>1, RuleWhole DEF RoutesFit
  <2>3. id \in rulesForNode(n)
    BY <1>1, <1>5 DEF rulesForNode
  <2> QED BY <1>1, <2>1, <2>2, <2>3, SentToNode DEF RoutesFit
<1> QED BY <1>5, <1>6 DEF member, Members

\* A node takes each of its rules that is one of the usual ones.
LEMMA Taken ==
  ASSUME RoutesFit, SubsParented(rules), NamesAllowed(rules, groups), ChainsWithoutUDP(rules, groups),
         ChainsDirect(rules, groups), NEW n, NEW id \in rulesForNode(n), Usual(rules[id])
  PROVE  NodeAccepts(rules[id], deviceGroupConfigs(n))
<1>1. PICK r : r = rules[id]
  OBVIOUS
<1>2. PICK known : known = deviceGroupConfigs(n)
  OBVIOUS
<1>3. PICK way : way = routePath(r)
  OBVIOUS
<1>4. id \in DOMAIN rules
  BY DEF rulesForNode
<1>5. TypeOK /\ \A g \in ({r.out, r.rev} \ {0}) \cup r.chain : Out(g, groups)
  BY <1>1, <1>4 DEF RoutesFit, RefersOutbound
<1>6. PICK all : all = RuleGroupIDs(r)
  OBVIOUS
<1>7. all \cap DOMAIN groups \subseteq known
  BY <1>1, <1>2, <1>5, <1>6, SentToNode
<1>8. /\ r.in \in DOMAIN groups /\ r.in # 0
      /\ \A i \in DOMAIN way : way[i] \in ToSet(way) /\ way[i] # 0
      /\ r.chain # {} => ToSet(way) = r.chain
      /\ r.chain = {} /\ r.rev # 0 => way = <<r.rev>>
  BY <1>1, <1>3, <1>4, WayFits
<1>9. r.in \in all /\ ToSet(way) \ {0} \subseteq all
  BY <1>3, <1>5, <1>6, <1>8, RuleWhole
<1>10. \A g : Out(g, groups) => g \in DOMAIN groups /\ g # 0
  BY <1>5, FinitelyMany DEF Out
<1>11. r.sub => r.parent # 0 /\ r.sni # ""
  BY <1>1, <1>4 DEF SubsParented, NamesAllowed, NameAllowed
<1>12. RangeListens(r) /\ (r.chain # {} => r.rev = 0) /\ (r.out # 0 => r.out \in all)
  BY <1>1, <1>6 DEF Usual
<1>13. ASSUME r.chain # {}
       PROVE  /\ Cardinality(r.chain) \in 2..3 /\ r.in \in known /\ ~groups[r.in].udp
              /\ \A g \in r.chain : g \in known /\ groups[g].failover = 0
  <2>1. Cardinality(r.chain) \in 2..3 /\ ~groups[r.in].udp /\ \A g \in r.chain : groups[g].failover = 0
    BY <1>1, <1>4, <1>13 DEF RoutesFit, ChainsShort, ChainsWithoutUDP, ChainsDirect
  <2>2. \A g \in r.chain : g \in known
    BY <1>5, <1>7, <1>8, <1>9, <1>10, <1>13
  <2> QED BY <1>7, <1>8, <1>9, <2>1, <2>2
<1>14. {r.rev, r.out} \ {0} \subseteq known
  <2>1. r.out # 0 => r.out \in known
    BY <1>5, <1>7, <1>10, <1>12
  <2>2. r.rev # 0 => r.rev \in known
    <3>1. ASSUME r.rev # 0 PROVE r.rev \in ToSet(way)
      BY <1>8, <1>12, <3>1 DEF ToSet
    <3> QED BY <1>5, <1>7, <1>9, <1>10, <3>1
  <2> QED BY <2>1, <2>2
<1> QED BY <1>1, <1>2, <1>11, <1>12, <1>13, <1>14 DEF NodeAccepts

\* What the nodes rely on follows from what the tables promise.
LEMMA InvAgrees ==
  ASSUME RegistryInv
  PROVE  NodesAgree
<1>1. TypeOK
  BY DEF RegistryInv, Types
<1>2. Serial => Sound(rules, groups, done)
  BY DEF RegistryInv, Tables
<1>3. Serial /\ "import" \notin done => RoutesFit
  BY <1>1, <1>2 DEF RoutesFit, Sound
<1>4. PathsAuthorized
  BY <1>3, Answered, ReverseAnswered DEF PathsAuthorized
<1>5. ConfigAccepted
  <2>1. SUFFICES ASSUME Serial, done \cap {"failover", "import"} = {}, NEW n \in DOMAIN nodes,
                        \A id \in rulesForNode(n) : Usual(rules[id]),
                        NEW id \in rulesForNode(n)
                 PROVE  NodeAccepts(rules[id], deviceGroupConfigs(n))
    BY Zenon DEF ConfigAccepted
  <2>2. /\ RoutesFit /\ SubsParented(rules) /\ NamesAllowed(rules, groups)
        /\ ChainsWithoutUDP(rules, groups) /\ ChainsDirect(rules, groups)
    BY <1>2, <1>3, <2>1 DEF Sound, Unseen
  <2> QED BY <2>1, <2>2, Taken
<1> QED BY <1>4, <1>5 DEF NodesAgree

\* The panel and its nodes agree whatever requests are served one after the
\* other: a node takes every configuration of usual rules, and answers every
\* request that another makes along a rule of the same tables.
THEOREM NodesAlwaysAgree == Spec => []NodesAgree
<1>1. Init => RegistryInv
  BY FirstInv
<1>2. RegistryInv /\ [Next]_vars => RegistryInv'
  BY NextKeeps
<1>3. RegistryInv => NodesAgree
  BY InvAgrees
<1> QED BY <1>1, <1>2, <1>3, PTL DEF Spec
=============================================================================
